---------------------------- MODULE SharedProofs ----------------------------
(***************************************************************************)
(* Theorems about QgisSession, Shares, ExternalPacing, CallerFiles and     *)
(* EvalSweep, for any threads, ids, processes, uploads, sessions, runs and *)
(* bounds: an inductive invariant of each, and what it promises.  A sweep  *)
(* has two: what it keeps of sibyl (StackInv) and what it reads of a turn  *)
(* (TurnInv).                                                              *)
(***************************************************************************)
EXTENDS SharedParts, Sequences, TLAPS, SequenceTheorems, FiniteSetTheorems

-----------------------------------------------------------------------------
(* QgisSession: what the lock protects.  A thread on its way through       *)
(* _start_session holds it, and until it lets go there is neither a        *)
(* session nor a failure; afterwards there is one of them for good.        *)

CallPlaces == {"idle", "asks", "starting", "built", "has", "answered"}
Failures == {"not importable", "could not start"}
QgisSessions == {"processing", "core only"}
QgisReplies == {Qgis!None, "refused", "listed", "no processing", "no algorithm",
                "completed", "failed", "out of range"} \cup Failures \cup QgisSessions

Asked == [pc : CallPlaces, tool : {"check", "list", "run"}, answer : QgisReplies]
Unasked == [pc : CallPlaces, answer : QgisReplies]

QgisTypeOK ==
    /\ lock \in ToolThreads \cup {Qgis!Nobody}
    /\ session \in QgisSessions \cup {Qgis!None}
    /\ failure \in Failures \cup {Qgis!None}
    /\ built \in {0, 1}
    /\ qgisCall \in [ToolThreads -> Asked \cup Unasked]

(* A thread that is starting QGIS is in the lock, and so is the only one.  *)
Starters == \A t \in ToolThreads : qgisCall[t].pc \in {"starting", "built"} => lock = t

(* While it is, nothing has come of a start, and an application is built   *)
(* exactly when it has built one.                                          *)
QgisStarted ==
    /\ lock # Qgis!Nobody => /\ session = Qgis!None /\ failure = Qgis!None
                             /\ qgisCall[lock].pc \in {"starting", "built"}
                             /\ qgisCall[lock].pc = "starting" => built = 0
    /\ (lock = Qgis!Nobody /\ session = Qgis!None /\ failure = Qgis!None) => built = 0
    /\ session = Qgis!None \/ failure = Qgis!None

(* What was answered of the session is still so.                           *)
Told == \A t \in ToolThreads :
    /\ qgisCall[t].pc = "has" => session # Qgis!None
    /\ qgisCall[t].answer \in Failures => failure = qgisCall[t].answer
    /\ qgisCall[t].answer = "processing" => session = "processing"
    /\ qgisCall[t].answer = "no processing" => session = "core only"

QgisInv == QgisTypeOK /\ Starters /\ QgisStarted /\ Told

(* What the three ways to write a call leave of it and of the others.      *)
LEMMA AnswerCall ==
    ASSUME QgisTypeOK, NEW t \in ToolThreads, NEW with \in QgisReplies, Qgis!Answer(t, with)
    PROVE  /\ qgisCall' \in [ToolThreads -> Asked \cup Unasked]
           /\ qgisCall'[t].pc = "answered" /\ qgisCall'[t].answer = with
           /\ \A u \in ToolThreads \ {t} : qgisCall'[u] = qgisCall[u]
  <1> DEFINE new == [qgisCall[t] EXCEPT !.pc = "answered", !.answer = with]
  <1>1. qgisCall' = [qgisCall EXCEPT ![t] = new]
    BY DEF Qgis!Answer, QgisTypeOK
  <1>2. CASE qgisCall[t] \in Asked
    <2>1. new \in Asked /\ new.pc = "answered" /\ new.answer = with
      BY <1>2 DEF Asked, CallPlaces
    <2> QED
      BY <1>1, <2>1 DEF QgisTypeOK
  <1>3. CASE qgisCall[t] \in Unasked
    <2>1. new \in Unasked /\ new.pc = "answered" /\ new.answer = with
      BY <1>3 DEF Unasked, CallPlaces
    <2> QED
      BY <1>1, <2>1 DEF QgisTypeOK
  <1> QED
    BY <1>2, <1>3 DEF QgisTypeOK

LEMMA GoesCall ==
    ASSUME QgisTypeOK, NEW t \in ToolThreads, NEW place \in CallPlaces, Qgis!Goes(t, place)
    PROVE  /\ qgisCall' \in [ToolThreads -> Asked \cup Unasked]
           /\ qgisCall'[t].pc = place /\ qgisCall'[t].answer = qgisCall[t].answer
           /\ \A u \in ToolThreads \ {t} : qgisCall'[u] = qgisCall[u]
  <1> DEFINE new == [qgisCall[t] EXCEPT !.pc = place]
  <1>1. qgisCall' = [qgisCall EXCEPT ![t] = new]
    BY DEF Qgis!Goes, QgisTypeOK
  <1>2. CASE qgisCall[t] \in Asked
    <2>1. new \in Asked /\ new.pc = place /\ new.answer = qgisCall[t].answer
      BY <1>2 DEF Asked
    <2> QED
      BY <1>1, <2>1 DEF QgisTypeOK
  <1>3. CASE qgisCall[t] \in Unasked
    <2>1. new \in Unasked /\ new.pc = place /\ new.answer = qgisCall[t].answer
      BY <1>3 DEF Unasked
    <2> QED
      BY <1>1, <2>1 DEF QgisTypeOK
  <1> QED
    BY <1>2, <1>3 DEF QgisTypeOK

LEMMA AsksCall ==
    ASSUME QgisTypeOK, NEW t \in ToolThreads, NEW tool \in {"check", "list", "run"},
           Qgis!Asks(t, tool)
    PROVE  /\ qgisCall' \in [ToolThreads -> Asked \cup Unasked]
           /\ qgisCall'[t].pc = "asks" /\ qgisCall'[t].answer = Qgis!None
           /\ \A u \in ToolThreads \ {t} : qgisCall'[u] = qgisCall[u]
  <1> DEFINE new == [pc |-> "asks", tool |-> tool, answer |-> Qgis!None]
  <1>1. qgisCall' = [qgisCall EXCEPT ![t] = new]
    BY DEF Qgis!Asks
  <1>2. new \in Asked /\ new.pc = "asks" /\ new.answer = Qgis!None
    BY DEF Asked, CallPlaces, QgisReplies
  <1> QED
    BY <1>1, <1>2 DEF QgisTypeOK

(* A call that does not hold the lock ends, and says nothing of the        *)
(* session but what is so.                                                 *)
LEMMA AnswerKeeps ==
    ASSUME Qgis!Nobody \notin ToolThreads, QgisInv, NEW t \in ToolThreads,
           NEW with \in QgisReplies,
           Qgis!Answer(t, with), UNCHANGED <<lock, session, failure, built>>,
           qgisCall[t].pc \notin {"starting", "built"},
           with \in Failures => failure = with,
           with = "processing" => session = "processing",
           with = "no processing" => session = "core only"
    PROVE  QgisInv'
  <1>1. /\ qgisCall' \in [ToolThreads -> Asked \cup Unasked]
        /\ qgisCall'[t].pc = "answered" /\ qgisCall'[t].answer = with
        /\ \A u \in ToolThreads \ {t} : qgisCall'[u] = qgisCall[u]
    BY AnswerCall DEF QgisInv
  <1>2. lock # t
    BY DEF QgisInv, QgisStarted
  <1>3. QgisTypeOK'
    BY <1>1 DEF QgisInv, QgisTypeOK
  <1>4. Starters'
    BY <1>1 DEF QgisInv, Starters
  <1>5. QgisStarted'
    BY <1>1, <1>2 DEF QgisInv, QgisStarted, QgisTypeOK
  <1>6. Told'
    BY <1>1 DEF QgisInv, Told
  <1> QED
    BY <1>3, <1>4, <1>5, <1>6 DEF QgisInv

LEMMA FailKeeps ==
    ASSUME Qgis!Nobody \notin ToolThreads, QgisInv, NEW t \in ToolThreads,
           NEW reason \in Failures,
           qgisCall[t].pc \in {"starting", "built"}, Qgis!Fail(t, reason), UNCHANGED built
    PROVE  QgisInv'
  <1>1. /\ qgisCall' \in [ToolThreads -> Asked \cup Unasked]
        /\ qgisCall'[t].pc = "answered" /\ qgisCall'[t].answer = reason
        /\ \A u \in ToolThreads \ {t} : qgisCall'[u] = qgisCall[u]
    BY AnswerCall DEF QgisInv, Qgis!Fail, QgisReplies
  <1>2. lock = t /\ session = Qgis!None /\ failure = Qgis!None
    BY DEF QgisInv, Starters, QgisStarted
  <1>3. \A u \in ToolThreads \ {t} : /\ qgisCall[u].pc \notin {"starting", "built", "has"}
                                     /\ qgisCall[u].answer \notin Failures
    BY <1>2 DEF QgisInv, Starters, Told, Failures, Qgis!None
  <1>4. /\ failure' = reason /\ lock' = Qgis!Nobody /\ session' = Qgis!None
        /\ reason # Qgis!None
    BY <1>2 DEF Qgis!Fail, Failures, Qgis!None
  <1>5. QgisTypeOK'
    BY <1>1, <1>4 DEF QgisInv, QgisTypeOK
  <1>6. Starters'
    BY <1>1, <1>3 DEF Starters
  <1>7. QgisStarted'
    BY <1>4 DEF QgisStarted
  <1>8. Told'
    BY <1>1, <1>2, <1>3, <1>4 DEF QgisInv, Told, Failures
  <1> QED
    BY <1>5, <1>6, <1>7, <1>8 DEF QgisInv

LEMMA EnterKeeps ==
    ASSUME Qgis!Nobody \notin ToolThreads, QgisInv, NEW t \in ToolThreads, Qgis!EnterLock(t)
    PROVE  QgisInv'
  <1>1. /\ lock = Qgis!Nobody /\ qgisCall[t].pc = "asks"
        /\ UNCHANGED <<session, failure, built>>
    BY DEF Qgis!EnterLock, Qgis!Enter
  <1>2. CASE failure # Qgis!None
    <2>1. Qgis!Answer(t, failure) /\ UNCHANGED lock
      BY <1>2 DEF Qgis!EnterLock, Qgis!Enter
    <2>2. failure \in QgisReplies
      BY DEF QgisInv, QgisTypeOK, QgisReplies
    <2>3. failure \in Failures /\ failure \notin {"processing", "no processing"}
      BY <1>2 DEF QgisInv, QgisTypeOK, Failures
    <2> QED
      BY <1>1, <2>1, <2>2, <2>3, AnswerKeeps
  <1>3. CASE failure = Qgis!None /\ session # Qgis!None
    <2>1. Qgis!Goes(t, "has") /\ UNCHANGED lock
      BY <1>3 DEF Qgis!EnterLock, Qgis!Enter
    <2>2. /\ qgisCall' \in [ToolThreads -> Asked \cup Unasked]
          /\ qgisCall'[t].pc = "has" /\ qgisCall'[t].answer = qgisCall[t].answer
          /\ \A u \in ToolThreads \ {t} : qgisCall'[u] = qgisCall[u]
      BY <2>1, GoesCall DEF QgisInv, CallPlaces
    <2>3. QgisTypeOK' /\ Starters'
      BY <1>1, <2>1, <2>2 DEF QgisInv, QgisTypeOK, Starters
    <2>4. QgisStarted'
      BY <1>1, <1>3, <2>1 DEF QgisInv, QgisStarted
    <2>5. Told'
      BY <1>1, <1>3, <2>2 DEF QgisInv, Told
    <2> QED
      BY <2>3, <2>4, <2>5 DEF QgisInv
  <1>4. CASE failure = Qgis!None /\ session = Qgis!None
    <2>1. Qgis!Goes(t, "starting") /\ lock' = t
      BY <1>4 DEF Qgis!EnterLock, Qgis!Enter
    <2>2. /\ qgisCall' \in [ToolThreads -> Asked \cup Unasked]
          /\ qgisCall'[t].pc = "starting" /\ qgisCall'[t].answer = qgisCall[t].answer
          /\ \A u \in ToolThreads \ {t} : qgisCall'[u] = qgisCall[u]
      BY <2>1, GoesCall DEF QgisInv, CallPlaces
    <2>3. \A u \in ToolThreads : qgisCall[u].pc \notin {"starting", "built"}
      BY <1>1 DEF QgisInv, Starters
    <2>4. QgisTypeOK' /\ Starters'
      BY <1>1, <2>1, <2>2, <2>3 DEF QgisInv, QgisTypeOK, Starters
    <2>5. QgisStarted'
      BY <1>1, <1>4, <2>1, <2>2 DEF QgisInv, QgisStarted
    <2>6. Told'
      BY <1>1, <2>2 DEF QgisInv, Told
    <2> QED
      BY <2>4, <2>5, <2>6 DEF QgisInv
  <1> QED
    BY <1>2, <1>3, <1>4

LEMMA BuildKeeps ==
    ASSUME Qgis!Nobody \notin ToolThreads, QgisInv, NEW t \in ToolThreads, Qgis!Build(t)
    PROVE  QgisInv'
  <1>1. /\ qgisCall' \in [ToolThreads -> Asked \cup Unasked]
        /\ qgisCall'[t].pc = "built" /\ qgisCall'[t].answer = qgisCall[t].answer
        /\ \A u \in ToolThreads \ {t} : qgisCall'[u] = qgisCall[u]
    BY GoesCall DEF QgisInv, Qgis!Build, CallPlaces
  <1>2. lock = t /\ built = 0
    BY DEF QgisInv, Qgis!Build, Starters, QgisStarted
  <1>3. built' = 1 /\ UNCHANGED <<lock, session, failure>>
    BY <1>2 DEF Qgis!Build
  <1>4. QgisTypeOK' /\ Starters'
    BY <1>1, <1>2, <1>3 DEF QgisInv, QgisTypeOK, Starters
  <1>5. QgisStarted'
    BY <1>1, <1>2, <1>3 DEF QgisInv, QgisStarted
  <1>6. Told'
    BY <1>1, <1>3 DEF QgisInv, Told
  <1> QED
    BY <1>4, <1>5, <1>6 DEF QgisInv

LEMMA StartKeeps ==
    ASSUME Qgis!Nobody \notin ToolThreads, QgisInv, NEW t \in ToolThreads, Qgis!Start(t)
    PROVE  QgisInv'
  <1>1. /\ qgisCall' \in [ToolThreads -> Asked \cup Unasked]
        /\ qgisCall'[t].pc = "has" /\ qgisCall'[t].answer = qgisCall[t].answer
        /\ \A u \in ToolThreads \ {t} : qgisCall'[u] = qgisCall[u]
    BY GoesCall DEF QgisInv, Qgis!Start, CallPlaces
  <1>2. lock = t /\ session = Qgis!None /\ failure = Qgis!None
    BY DEF QgisInv, Qgis!Start, Starters, QgisStarted
  <1>3. session' \in QgisSessions /\ lock' = Qgis!Nobody /\ UNCHANGED <<failure, built>>
    BY DEF Qgis!Start, QgisSessions
  <1>4. session' # Qgis!None
    BY <1>3 DEF QgisSessions, Qgis!None
  <1>5. \A u \in ToolThreads : /\ u # t => qgisCall[u].pc \notin {"starting", "built"}
                               /\ qgisCall[u].answer \notin {"processing", "no processing"}
    BY <1>2 DEF QgisInv, Starters, Told, Qgis!None
  <1>6. QgisTypeOK' /\ Starters'
    BY <1>1, <1>3, <1>5 DEF QgisInv, QgisTypeOK, Starters
  <1>7. QgisStarted'
    BY <1>2, <1>3, <1>4 DEF QgisStarted
  <1>8. Told'
    BY <1>1, <1>3, <1>4, <1>5 DEF QgisInv, Told
  <1> QED
    BY <1>6, <1>7, <1>8 DEF QgisInv

LEMMA QgisInvariance ==
    ASSUME Qgis!Nobody \notin ToolThreads, QgisInv, [Qgis!Next]_qgisVars
    PROVE  QgisInv'
  <1>0. QgisTypeOK /\ Qgis!None \notin Failures \cup QgisSessions
    BY DEF QgisInv, Failures, QgisSessions, Qgis!None
  <1>1. ASSUME NEW t \in ToolThreads, Qgis!CallStatus(t)
        PROVE  QgisInv'
    <2>1. PICK tool \in {"check", "list"} : Qgis!Asks(t, tool)
      BY <1>1 DEF Qgis!CallStatus
    <2>2. /\ qgisCall' \in [ToolThreads -> Asked \cup Unasked]
          /\ qgisCall'[t].pc = "asks" /\ qgisCall'[t].answer = Qgis!None
          /\ \A u \in ToolThreads \ {t} : qgisCall'[u] = qgisCall[u]
      BY <1>0, <2>1, AsksCall
    <2>3. qgisCall[t].pc = "idle" /\ UNCHANGED <<lock, session, failure, built>>
      BY <1>1 DEF Qgis!CallStatus
    <2> QED
      BY <2>2, <2>3, <1>0, ZenonT(40)
         DEF QgisInv, QgisTypeOK, Starters, QgisStarted, Told, Qgis!None
  <1>2. ASSUME NEW t \in ToolThreads, Qgis!CallRun(t)
        PROVE  QgisInv'
    <2>1. qgisCall[t].pc = "idle" /\ UNCHANGED <<lock, session, failure, built>>
      BY <1>2 DEF Qgis!CallRun
    <2>2. CASE Qgis!Asks(t, "run")
      <3>1. /\ qgisCall' \in [ToolThreads -> Asked \cup Unasked]
            /\ qgisCall'[t].pc = "asks" /\ qgisCall'[t].answer = Qgis!None
            /\ \A u \in ToolThreads \ {t} : qgisCall'[u] = qgisCall[u]
        BY <1>0, <1>2, <2>2, AsksCall DEF Qgis!CallRun
      <3> QED
        BY <2>1, <3>1, <1>0
         DEF QgisInv, QgisTypeOK, Starters, QgisStarted, Told, Qgis!None
    <2>3. CASE Qgis!Answer(t, "refused")
      BY <2>1, <2>3, AnswerKeeps DEF QgisReplies, Failures
    <2> QED
      BY <1>2, <2>2, <2>3 DEF Qgis!CallRun
  <1>3. ASSUME NEW t \in ToolThreads, Qgis!ImportFails(t)
        PROVE  QgisInv'
    BY <1>3, FailKeeps DEF Qgis!ImportFails, Failures
  <1>4. ASSUME NEW t \in ToolThreads, Qgis!InitFails(t)
        PROVE  QgisInv'
    BY <1>4, FailKeeps DEF Qgis!InitFails, Failures
  <1>5. ASSUME NEW t \in ToolThreads, Qgis!Status(t)
        PROVE  QgisInv'
    <2> DEFINE with == IF qgisCall[t].tool = "check" THEN session ELSE "listed"
    <2>1. /\ qgisCall[t].pc = "has" /\ Qgis!Answer(t, with)
          /\ UNCHANGED <<lock, session, failure, built>>
      BY <1>5 DEF Qgis!Status
    <2>2. with \in QgisSessions \cup {"listed"}
      BY <2>1 DEF QgisInv, QgisTypeOK, Told
    <2>3. with \in QgisReplies /\ with \notin Failures \cup {"no processing"}
      BY <2>2 DEF QgisReplies, QgisSessions, Failures
    <2> QED
      BY <2>1, <2>3, AnswerKeeps
  <1>6. ASSUME NEW t \in ToolThreads, Qgis!NoProcessing(t)
        PROVE  QgisInv'
    BY <1>6, AnswerKeeps DEF Qgis!NoProcessing, QgisReplies, Failures
  <1>8. ASSUME NEW t \in ToolThreads, Qgis!RunAlgorithm(t)
        PROVE  QgisInv'
    <2>1. PICK with \in {"no algorithm", "refused", "completed", "failed", "out of range"} :
            Qgis!Answer(t, with)
      BY <1>8 DEF Qgis!RunAlgorithm
    <2>2. qgisCall[t].pc = "has" /\ UNCHANGED <<lock, session, failure, built>>
      BY <1>8 DEF Qgis!RunAlgorithm
    <2> QED
      BY <2>1, <2>2, AnswerKeeps DEF QgisReplies, Failures
  <1>9. CASE UNCHANGED qgisVars
    BY <1>9 DEF qgisVars, QgisInv, QgisTypeOK, Starters, QgisStarted, Told
  <1> QED
    BY <1>1, <1>2, <1>3, <1>4, <1>5, <1>6, <1>8, <1>9, EnterKeeps, BuildKeeps,
       StartKeeps DEF Qgis!Next

LEMMA QgisInitially ==
    Qgis!Init => QgisInv
  <1> SUFFICES ASSUME Qgis!Init PROVE QgisInv
    OBVIOUS
  <1>1. [pc |-> "idle", answer |-> Qgis!None] \in Unasked
    BY DEF Unasked, CallPlaces, QgisReplies
  <1>2. QgisTypeOK
    BY <1>1 DEF Qgis!Init, QgisTypeOK
  <1>3. Starters /\ QgisStarted /\ Told
    BY DEF Qgis!Init, Starters, QgisStarted, Told, Failures, Qgis!None
  <1> QED
    BY <1>2, <1>3 DEF QgisInv

LEMMA QgisPromised ==
    QgisInv => Qgis!StartedOnce
  <1> SUFFICES ASSUME QgisInv PROVE Qgis!StartedOnce
    OBVIOUS
  <1>1. built <= 1 /\ (failure # Qgis!None => session = Qgis!None)
    BY DEF QgisInv, QgisTypeOK, QgisStarted
  <1>2. ~({"processing", "no processing"} \subseteq Qgis!Answers)
    <2> SUFFICES ASSUME NEW t \in ToolThreads, NEW u \in ToolThreads,
                        qgisCall[t].answer = "processing",
                        qgisCall[u].answer = "no processing"
                 PROVE  FALSE
      BY DEF Qgis!Answers
    <2> QED
      BY DEF QgisInv, Told
  <1>3. ~({"not importable", "could not start"} \subseteq Qgis!Answers)
    <2> SUFFICES ASSUME NEW t \in ToolThreads, NEW u \in ToolThreads,
                        qgisCall[t].answer = "not importable",
                        qgisCall[u].answer = "could not start"
                 PROVE  FALSE
      BY DEF Qgis!Answers
    <2> QED
      BY DEF QgisInv, Told, Failures
  <1> QED
    BY <1>1, <1>2, <1>3 DEF Qgis!StartedOnce

-----------------------------------------------------------------------------
(* Shares: where a share is that somebody was given a link to, in a whole  *)
(* file of its own, or still in the old file, which goes only when every   *)
(* key of it has been moved (Somewhere, Moved).                            *)

LinksTypeOK ==
    /\ server \in {"down", "splitting", "serving"}
    /\ old \in {Links!Gone} \cup SUBSET OldKeys
    /\ left \subseteq OldKeys
    /\ step \in {"idle", "open", "write", "rename"}
    /\ step # "idle" => saving \in ShareIds
    /\ partial \in [ShareIds -> {"absent", "half", "whole"}]
    /\ file \in [ShareIds -> {"absent", "half", "whole"}]
    /\ owed \subseteq ShareIds

(* What is about to be renamed is whole, and so is what was.               *)
NeverHalf ==
    /\ \A id \in ShareIds : file[id] # "half"
    /\ step = "rename" => partial[saving] = "whole"

Somewhere == \A id \in owed : file[id] = "whole" \/ (old # Links!Gone /\ id \in old)

(* A key that was taken from the old file is in a file of its own, or on   *)
(* its way to one.                                                         *)
Moved ==
    server = "splitting" =>
        /\ old # Links!Gone
        /\ \A id \in (old \ left) \cap ShareIds :
               file[id] = "whole" \/ (step # "idle" /\ saving = id)

Phases ==
    /\ server = "serving" => old = Links!Gone
    /\ server = "down" => step = "idle"

LinksInv == LinksTypeOK /\ NeverHalf /\ Somewhere /\ Moved /\ Phases

(* save_json, whichever of the two callers it has.                         *)
LEMMA SaveKeeps ==
    ASSUME LinksInv,
           Links!OpenPartial \/ Links!WritePartial \/ Links!Replace \/ Links!WriteFails
    PROVE  LinksInv'
  <1>1. CASE Links!OpenPartial
    <2>1. step = "open" /\ step' = "write" /\ saving \in ShareIds
      BY <1>1 DEF LinksInv, LinksTypeOK, Links!OpenPartial
    <2> QED
      BY <1>1, <2>1 DEF LinksInv, LinksTypeOK, NeverHalf, Somewhere, Moved, Phases,
                      Links!OpenPartial
  <1>2. CASE Links!WritePartial
    <2>1. step = "write" /\ step' = "rename" /\ saving \in ShareIds
      BY <1>2 DEF LinksInv, LinksTypeOK, Links!WritePartial
    <2> QED
      BY <1>2, <2>1 DEF LinksInv, LinksTypeOK, NeverHalf, Somewhere, Moved, Phases,
                      Links!WritePartial
  <1>3. CASE Links!Replace
    <2>1. /\ step = "rename" /\ step' = "idle" /\ saving \in ShareIds
          /\ partial[saving] = "whole"
          /\ UNCHANGED <<server, old, left>>
      BY <1>3 DEF LinksInv, LinksTypeOK, NeverHalf, Links!Replace, Links!Rename
    <2>2. file' = [file EXCEPT ![saving] = "whole"] /\ owed' = owed \cup {saving}
      BY <1>3, <2>1 DEF Links!Replace, Links!Rename
    <2>3. LinksTypeOK'
      BY <1>3, <2>1, <2>2 DEF LinksInv, LinksTypeOK, Links!Replace, Links!Rename
    <2>4. \A id \in ShareIds : file'[id] = IF id = saving THEN "whole" ELSE file[id]
      BY <2>2 DEF LinksInv, LinksTypeOK
    <2>5. NeverHalf' /\ Somewhere'
      BY <2>1, <2>2, <2>4 DEF LinksInv, LinksTypeOK, NeverHalf, Somewhere
    <2>6. Moved' /\ Phases'
      BY <2>1, <2>4 DEF LinksInv, Moved, Phases
    <2> QED
      BY <2>3, <2>5, <2>6 DEF LinksInv
  <1>4. CASE Links!WriteFails
    <2>1. /\ step' = "idle" /\ UNCHANGED <<old, left, partial, file, owed>>
          /\ server' = IF server = "splitting" THEN "down" ELSE server
      BY <1>4 DEF Links!WriteFails
    <2> QED
      BY <2>1 DEF LinksInv, LinksTypeOK, NeverHalf, Somewhere, Moved, Phases
  <1> QED
    BY <1>1, <1>2, <1>3, <1>4

(* A start of the service, and what it does with the old file.             *)
LEMMA SplitKeeps ==
    ASSUME "gone" \notin ShareIds \cup OldKeys, LinksInv,
           Links!Start \/ (\E key \in OldKeys : Links!SplitOne(key)) \/ Links!UnlinkOld
    PROVE  LinksInv'
  <1>1. CASE Links!Start
    BY <1>1 DEF LinksInv, LinksTypeOK, NeverHalf, Somewhere, Moved, Phases, Links!Start
  <1>2. ASSUME NEW key \in OldKeys, Links!SplitOne(key)
        PROVE  LinksInv'
    <2>1. /\ server = "splitting" /\ step = "idle" /\ key \in left
          /\ left' = left \ {key}
          /\ UNCHANGED <<server, old, partial, file, owed>>
      BY <1>2 DEF Links!SplitOne
    <2>2. \/ key \in ShareIds /\ saving' = key /\ step' = "open"
          \/ key \notin ShareIds /\ UNCHANGED <<saving, step>>
      BY <1>2 DEF Links!SplitOne, Links!Begin
    <2> QED
      BY <2>1, <2>2 DEF LinksInv, LinksTypeOK, NeverHalf, Somewhere, Moved, Phases
  <1>3. CASE Links!UnlinkOld
    <2>1. /\ server = "splitting" /\ step = "idle" /\ left = {}
          /\ server' = "serving" /\ old' = Links!Gone
          /\ UNCHANGED <<left, saving, partial, step, file, owed>>
      BY <1>3 DEF Links!UnlinkOld, Links!Unlink
    <2>2. \A id \in owed : file[id] = "whole"
      BY <2>1 DEF LinksInv, LinksTypeOK, Somewhere, Moved
    <2> QED
      BY <2>1, <2>2 DEF LinksInv, LinksTypeOK, NeverHalf, Somewhere, Moved, Phases
  <1> QED
    BY <1>1, <1>2, <1>3

LEMMA LinksInvariance ==
    ASSUME "gone" \notin ShareIds \cup OldKeys, LinksInv, [Links!Next]_shareVars
    PROVE  LinksInv'
  <1>1. ASSUME NEW id \in ShareIds, Links!CreateShare(id)
        PROVE  LinksInv'
    BY <1>1 DEF LinksInv, LinksTypeOK, NeverHalf, Somewhere, Moved, Phases,
                  Links!CreateShare, Links!Begin
  <1>2. CASE Links!Crash
    BY <1>2 DEF LinksInv, LinksTypeOK, NeverHalf, Somewhere, Moved, Phases, Links!Crash
  <1>3. CASE UNCHANGED shareVars
    BY <1>3 DEF LinksInv, LinksTypeOK, NeverHalf, Somewhere, Moved, Phases, shareVars
  <1> QED
    BY <1>1, <1>2, <1>3, SaveKeeps, SplitKeeps DEF Links!Next

LEMMA LinksInitially ==
    ASSUME "gone" \notin ShareIds \cup OldKeys
    PROVE  Links!Init => LinksInv
  BY DEF Links!Init, LinksInv, LinksTypeOK, NeverHalf, Somewhere, Moved, Phases, Links!Gone

LEMMA LinksPromised ==
    LinksInv => Links!LinksKeepWorking
  BY DEF LinksInv, NeverHalf, Somewhere, Phases, Links!LinksKeepWorking

-----------------------------------------------------------------------------
(* ExternalPacing: how the record in the file stands to the last turn.     *)
(* While nothing has misled it, the turn is no later than the record says  *)
(* (Recorded), so that whoever sleeps for it sleeps long enough (Rested).  *)

Spacing == SECONDS_BETWEEN_REQUESTS

PacingAssumptions ==
    /\ Spacing \in Nat
    /\ MaxReal \in Nat
    /\ MaxSet \in Nat
    /\ Pacing!Nobody \notin Processes

PacingTypeOK ==
    /\ real \in Nat
    /\ offset \in Int
    /\ turnLock \in Processes \cup {Pacing!Nobody}
    /\ recorded \in Seq(Int)
    /\ proc \in [Processes -> [pc : {"idle", "locked", "sleeps", "truncated"}, until : Int]]
    /\ turn \in Int
    /\ misled \in BOOLEAN
    /\ gap \in Int

OneInTheLock == \A p \in Processes : proc[p].pc # "idle" <=> turnLock = p

(* Nothing is recorded before the first turn, and while a process writes.  *)
Recorded ==
    /\ turn <= real
    /\ recorded = Pacing!Empty \/ \E n \in Int : recorded = <<n>>
    /\ ~misled =>
          IF recorded = Pacing!Empty
            THEN turn = -Spacing \/ \E p \in Processes : proc[p].pc = "truncated"
            ELSE turn + offset <= recorded[1]

Rested ==
    \A p \in Processes :
        /\ proc[p].pc = "sleeps" => proc[p].until - real <= Spacing
        /\ (proc[p].pc = "sleeps" /\ ~misled) => turn + Spacing <= proc[p].until
        /\ (proc[p].pc = "truncated" /\ ~misled) => turn + Spacing <= real

PacingInv == PacingTypeOK /\ OneInTheLock /\ Recorded /\ Rested /\ Spacing <= gap

(* The least and the greatest of two numbers                               *)
LEMMA MinOfTwo ==
    ASSUME NEW a \in Int, NEW b \in Int
    PROVE  Pacing!Min({a, b}) = IF a <= b THEN a ELSE b
  BY DEF Pacing!Min

LEMMA MaxOfTwo ==
    ASSUME NEW a \in Int, NEW b \in Int
    PROVE  Pacing!Max({a, b}) = IF a <= b THEN b ELSE a
  BY DEF Pacing!Max

LEMMA SumGrows ==
    ASSUME NEW a \in Int, NEW b \in Int, NEW c \in Int, NEW n \in Int
    PROVE  a <= b /\ c + b <= n => c + a <= n
  OBVIOUS

(* What a step of one process leaves of the processes                      *)
LEMMA GoesProc ==
    ASSUME PacingTypeOK, NEW p \in Processes,
           Pacing!Goes(p, "idle") \/ Pacing!Goes(p, "locked") \/ Pacing!Goes(p, "truncated")
    PROVE  /\ proc' \in [Processes -> [pc : {"idle", "locked", "sleeps", "truncated"},
                                       until : Int]]
           /\ \A q \in Processes \ {p} : proc'[q] = proc[q]
  BY DEF Pacing!Goes, PacingTypeOK

(* How long a process sleeps: no longer than the spacing, and until the    *)
(* spacing has passed since the last turn, unless the record misleads it.  *)
LEMMA WaitBounds ==
    ASSUME PacingAssumptions, PacingTypeOK, Recorded,
           \A p \in Processes : proc[p].pc # "truncated"
    PROVE  /\ Pacing!Wait \in Int
           /\ Pacing!Wait <= Spacing
           /\ ~misled => turn + Spacing <= real + Pacing!Max({0, Pacing!Wait})
  <1>1. CASE recorded = Pacing!Empty
    <2>1. Pacing!Wait = 0
      BY <1>1 DEF Pacing!Wait
    <2>2. Pacing!Max({0, Pacing!Wait}) = 0
      BY <2>1, MaxOfTwo
    <2>3. ~misled => turn = -Spacing
      BY <1>1 DEF Recorded
    <2> QED
      BY <2>1, <2>2, <2>3 DEF PacingAssumptions, PacingTypeOK
  <1>2. CASE recorded # Pacing!Empty
    <2>1. PICK n \in Int : recorded = <<n>>
      BY <1>2 DEF Recorded
    <2> DEFINE rest == n + Spacing - (real + offset)
    <2>2. rest \in Int
      BY DEF PacingAssumptions, PacingTypeOK
    <2>3. Pacing!Wait = Pacing!Min({Spacing, rest})
      BY <1>2, <2>1 DEF Pacing!Wait, Spacing, Pacing!Clock
    <2>4. Pacing!Wait = IF Spacing <= rest THEN Spacing ELSE rest
      BY <2>2, <2>3, MinOfTwo DEF PacingAssumptions
    <2>5. Pacing!Wait \in Int /\ Pacing!Wait <= Spacing
      BY <2>2, <2>4 DEF PacingAssumptions
    <2>6. Pacing!Max({0, Pacing!Wait}) = IF 0 <= Pacing!Wait THEN Pacing!Wait ELSE 0
      BY <2>5, MaxOfTwo
    <2>7. ~misled => turn + offset <= n
      BY <1>2, <2>1 DEF Recorded
    <2>8. turn \in Int /\ real \in Nat /\ offset \in Int /\ Spacing \in Nat /\ turn <= real
      BY DEF PacingTypeOK, Recorded, PacingAssumptions
    <2> QED
      BY <2>4, <2>5, <2>6, <2>7, <2>8
  <1> QED
    BY <1>1, <1>2

LEMMA LockKeeps ==
    ASSUME PacingAssumptions, PacingInv, NEW p \in Processes, Pacing!Lock(p)
    PROVE  PacingInv'
  <1>1. /\ turnLock = Pacing!Nobody /\ turnLock' = p /\ proc[p].pc = "idle"
        /\ UNCHANGED <<real, offset, recorded, turn, misled, gap>>
    BY DEF Pacing!Lock, Pacing!Unlocked
  <1>2. /\ proc' \in [Processes -> [pc : {"idle", "locked", "sleeps", "truncated"},
                                    until : Int]]
        /\ \A q \in Processes \ {p} : proc'[q] = proc[q]
        /\ proc'[p].pc = "locked"
    BY GoesProc DEF Pacing!Lock, Pacing!Unlocked, PacingInv, PacingTypeOK, Pacing!Goes
  <1>3. PacingTypeOK' /\ OneInTheLock'
    BY <1>1, <1>2 DEF PacingInv, PacingTypeOK, OneInTheLock, PacingAssumptions
  <1>4. Recorded' /\ Rested'
    BY <1>1, <1>2 DEF PacingInv, Recorded, Rested
  <1> QED
    BY <1>1, <1>3, <1>4 DEF PacingInv

LEMMA SleepKeeps ==
    ASSUME PacingAssumptions, PacingInv, NEW p \in Processes, Pacing!Sleep(p)
    PROVE  PacingInv'
  <1> DEFINE until == real + Pacing!Max({0, Pacing!Wait})
  <1>1. /\ proc[p].pc = "locked"
        /\ proc' = [proc EXCEPT ![p] = [pc |-> "sleeps", until |-> until]]
        /\ UNCHANGED <<real, offset, turnLock, recorded, turn, misled, gap>>
    BY DEF Pacing!Sleep
  <1>2. turnLock = p /\ \A q \in Processes : proc[q].pc # "truncated"
    BY <1>1 DEF PacingInv, OneInTheLock
  <1>3. /\ Pacing!Wait \in Int /\ Pacing!Wait <= Spacing
        /\ ~misled => turn + Spacing <= until
    BY <1>2, WaitBounds DEF PacingInv
  <1>4. Pacing!Max({0, Pacing!Wait}) = IF 0 <= Pacing!Wait THEN Pacing!Wait ELSE 0
    BY <1>3, MaxOfTwo
  <1>5. until \in Int /\ until - real <= Spacing
    BY <1>3, <1>4 DEF PacingInv, PacingTypeOK, PacingAssumptions
  <1>6. /\ proc'[p] = [pc |-> "sleeps", until |-> until]
        /\ \A q \in Processes \ {p} : proc'[q] = proc[q]
    BY <1>1 DEF PacingInv, PacingTypeOK
  <1>7. PacingTypeOK' /\ OneInTheLock'
    BY <1>1, <1>2, <1>5, <1>6 DEF PacingInv, PacingTypeOK, OneInTheLock
  <1>8. Recorded'
    BY <1>1, <1>2, <1>6 DEF PacingInv, Recorded
  <1>9. Rested'
    BY <1>1, <1>3, <1>5, <1>6 DEF PacingInv, Rested
  <1> QED
    BY <1>1, <1>7, <1>8, <1>9 DEF PacingInv

LEMMA TruncateKeeps ==
    ASSUME PacingAssumptions, PacingInv, NEW p \in Processes, Pacing!Truncate(p)
    PROVE  PacingInv'
  <1>1. /\ proc[p].pc = "sleeps" /\ real >= proc[p].until /\ recorded' = Pacing!Empty
        /\ UNCHANGED <<real, offset, turnLock, turn, misled, gap>>
    BY DEF Pacing!Truncate
  <1>2. /\ proc' \in [Processes -> [pc : {"idle", "locked", "sleeps", "truncated"},
                                    until : Int]]
        /\ \A q \in Processes \ {p} : proc'[q] = proc[q]
        /\ proc'[p].pc = "truncated"
    BY GoesProc DEF Pacing!Truncate, PacingInv, PacingTypeOK, Pacing!Goes
  <1>3. ~misled => turn + Spacing <= real
    <2>1. turn \in Int /\ real \in Int /\ Spacing \in Int /\ proc[p].until \in Int
      BY DEF PacingInv, PacingTypeOK, PacingAssumptions
    <2> QED
      BY <1>1, <2>1 DEF PacingInv, Rested
  <1>4. Pacing!Empty \in Seq(Int)
    BY DEF Pacing!Empty
  <1>5. PacingTypeOK' /\ OneInTheLock'
    BY <1>1, <1>2, <1>4 DEF PacingInv, PacingTypeOK, OneInTheLock
  <1>6. Recorded' /\ Rested'
    BY <1>1, <1>2, <1>3 DEF PacingInv, Recorded, Rested
  <1> QED
    BY <1>1, <1>5, <1>6 DEF PacingInv

(* A turn ends the sleep that was long enough for the one before it.       *)
LEMMA RecordKeeps ==
    ASSUME PacingAssumptions, PacingInv, NEW p \in Processes, Pacing!Record(p)
    PROVE  PacingInv'
  <1>1. /\ proc[p].pc = "truncated" /\ recorded' = <<real + offset>>
        /\ turnLock' = Pacing!Nobody /\ turn' = real /\ misled' = FALSE
        /\ gap' = IF misled THEN gap ELSE Pacing!Min({gap, real - turn})
        /\ UNCHANGED <<real, offset>>
    BY DEF Pacing!Record, Pacing!Clock
  <1>2. /\ proc' \in [Processes -> [pc : {"idle", "locked", "sleeps", "truncated"},
                                    until : Int]]
        /\ \A q \in Processes \ {p} : proc'[q] = proc[q]
        /\ proc'[p].pc = "idle"
    BY GoesProc DEF Pacing!Record, PacingInv, PacingTypeOK, Pacing!Goes
  <1>3. /\ real \in Nat /\ offset \in Int /\ turn \in Int /\ gap \in Int /\ Spacing \in Nat
        /\ Spacing <= gap
    BY DEF PacingInv, PacingTypeOK, PacingAssumptions
  <1>4. ~misled =>
            Pacing!Min({gap, real - turn}) = IF gap <= real - turn THEN gap ELSE real - turn
    BY <1>3, MinOfTwo
  <1>5. ~misled => turn + Spacing <= real
    BY <1>1 DEF PacingInv, Rested
  <1>6. gap' \in Int /\ Spacing <= gap'
    BY <1>1, <1>3, <1>4, <1>5
  <1>7. \A q \in Processes : proc'[q].pc = "idle"
    BY <1>1, <1>2 DEF PacingInv, OneInTheLock
  <1>8. recorded' \in Seq(Int) /\ recorded' # Pacing!Empty /\ recorded'[1] = real + offset
    BY <1>1, <1>3 DEF Pacing!Empty
  <1>9. PacingTypeOK' /\ OneInTheLock'
    <2>1. PacingTypeOK'
      <3>1. misled' \in BOOLEAN /\ turnLock' \in Processes \cup {Pacing!Nobody}
        BY <1>1, Zenon
      <3>2. real' \in Nat /\ offset' \in Int /\ turn' \in Int
        BY <1>1, <1>3
      <3> QED
        BY <1>2, <1>6, <1>8, <3>1, <3>2 DEF PacingTypeOK
    <2>2. OneInTheLock'
      BY <1>1, <1>7 DEF OneInTheLock, PacingAssumptions
    <2> QED
      BY <2>1, <2>2
  <1>10. Recorded'
    <2>1. real + offset \in Int
      BY <1>3
    <2> QED
      BY <1>1, <1>3, <1>8, <2>1 DEF Recorded
  <1>11. Rested'
    BY <1>7 DEF Rested
  <1> QED
    BY <1>6, <1>9, <1>10, <1>11 DEF PacingInv, Spacing

LEMMA KillKeeps ==
    ASSUME PacingAssumptions, PacingInv, NEW p \in Processes, Pacing!Kill(p)
    PROVE  PacingInv'
  <1>1. /\ proc[p].pc # "idle" /\ turnLock' = Pacing!Nobody
        /\ misled' = (misled \/ proc[p].pc = "truncated")
        /\ UNCHANGED <<real, offset, recorded, turn, gap>>
    BY DEF Pacing!Kill
  <1>2. /\ proc' \in [Processes -> [pc : {"idle", "locked", "sleeps", "truncated"},
                                    until : Int]]
        /\ \A q \in Processes \ {p} : proc'[q] = proc[q]
        /\ proc'[p].pc = "idle"
    BY GoesProc DEF Pacing!Kill, PacingInv, PacingTypeOK, Pacing!Goes
  <1>3. \A q \in Processes : /\ proc'[q].pc = "idle"
                             /\ q # p => proc[q].pc = "idle"
    BY <1>1, <1>2 DEF PacingInv, OneInTheLock
  <1>4. PacingTypeOK' /\ OneInTheLock'
    BY <1>1, <1>2, <1>3 DEF PacingInv, PacingTypeOK, OneInTheLock, PacingAssumptions
  <1>5. ~misled' => ~misled /\ \A q \in Processes : proc[q].pc # "truncated"
    BY <1>1, <1>3
  <1>6. Recorded'
    BY <1>1, <1>5 DEF PacingInv, Recorded
  <1>7. Rested'
    BY <1>3 DEF Rested
  <1> QED
    BY <1>1, <1>4, <1>6, <1>7 DEF PacingInv

(* Time passes, and the clock is set: back makes a sleep longer than it    *)
(* need be, forward misleads.                                              *)
LEMMA ClockKeeps ==
    ASSUME PacingAssumptions, PacingInv, Pacing!Tick \/ Pacing!SetClock
    PROVE  PacingInv'
  <1>0. /\ real \in Nat /\ offset \in Int /\ turn \in Int /\ Spacing \in Nat /\ turn <= real
        /\ \A p \in Processes : proc[p].until \in Int
    BY DEF PacingInv, PacingTypeOK, Recorded, PacingAssumptions
  <1>1. CASE Pacing!Tick
    <2>1. /\ real' = real + 1
          /\ UNCHANGED <<offset, turnLock, recorded, proc, turn, misled, gap>>
      BY <1>1 DEF Pacing!Tick
    <2>2. PacingTypeOK' /\ OneInTheLock'
      BY <2>1, <1>0 DEF PacingInv, PacingTypeOK, OneInTheLock
    <2>3. Recorded'
      BY <2>1, <1>0 DEF PacingInv, Recorded
    <2>4. Rested'
      BY <2>1, <1>0 DEF PacingInv, Rested
    <2> QED
      BY <2>1, <2>2, <2>3, <2>4 DEF PacingInv
  <1>2. CASE Pacing!SetClock
    <2>1. /\ offset' \in Int
          /\ misled' = (misled \/ offset' > offset)
          /\ UNCHANGED <<real, turnLock, recorded, proc, turn, gap>>
      BY <1>2 DEF Pacing!SetClock, PacingAssumptions
    <2>2. ~misled' => ~misled /\ offset' <= offset
      <3>1. ~misled' => ~misled /\ ~(offset' > offset)
        BY <2>1
      <3>2. ~(offset' > offset) => offset' <= offset
        BY <2>1, <1>0
      <3> QED
        BY <3>1, <3>2
    <2>3. PacingTypeOK' /\ OneInTheLock'
      BY <2>1 DEF PacingInv, PacingTypeOK, OneInTheLock
    <2>4. Recorded'
      <3>1. CASE recorded = Pacing!Empty
        BY <2>1, <2>2, <3>1 DEF PacingInv, Recorded
      <3>2. CASE recorded # Pacing!Empty
        <4>1. PICK n \in Int : recorded = <<n>>
          BY <3>2 DEF PacingInv, Recorded
        <4>2. ~misled' => turn + offset' <= n
          <5>1. ~misled => turn + offset <= n
            BY <3>2, <4>1 DEF PacingInv, Recorded
          <5>2. offset' <= offset /\ turn + offset <= n => turn + offset' <= n
            <6>1. offset' \in Int /\ offset \in Int /\ turn \in Int /\ n \in Int
              BY <2>1, <1>0, <4>1
            <6> QED
              BY <6>1, SumGrows
          <5> QED
            BY <2>2, <5>1, <5>2
        <4> QED
          BY <2>1, <3>2, <4>1, <4>2, <1>0 DEF Recorded
      <3> QED
        BY <3>1, <3>2
    <2>5. Rested'
      BY <2>1, <2>2 DEF PacingInv, Rested
    <2> QED
      BY <2>1, <2>3, <2>4, <2>5 DEF PacingInv
  <1> QED
    BY <1>1, <1>2

LEMMA PacingInvariance ==
    ASSUME PacingAssumptions, PacingInv, [Pacing!Next]_pacingVars
    PROVE  PacingInv'
  <1>1. CASE UNCHANGED pacingVars
    BY <1>1 DEF pacingVars, PacingInv, PacingTypeOK, OneInTheLock, Recorded, Rested
  <1> QED
    BY <1>1, LockKeeps, SleepKeeps, TruncateKeeps, RecordKeeps, KillKeeps, ClockKeeps
       DEF Pacing!Next

LEMMA PacingInitially ==
    ASSUME PacingAssumptions
    PROVE  Pacing!Init => PacingInv
  <1> SUFFICES ASSUME Pacing!Init PROVE PacingInv
    OBVIOUS
  <1>1. PacingTypeOK
    <2>1. real \in Nat /\ offset \in Int /\ turn \in Int /\ gap \in Int
      BY DEF Pacing!Init, PacingAssumptions, Spacing
    <2>2. recorded \in Seq(Int) /\ turnLock = Pacing!Nobody
      BY DEF Pacing!Init, Pacing!Empty
    <2>4. misled \in BOOLEAN
      BY Zenon DEF Pacing!Init
    <2>3. proc \in [Processes -> [pc : {"idle", "locked", "sleeps", "truncated"},
                                  until : Int]]
      BY DEF Pacing!Init
    <2> QED
      BY <2>1, <2>2, <2>3, <2>4 DEF PacingTypeOK
  <1>2. OneInTheLock /\ Rested /\ Spacing <= gap
    BY DEF Pacing!Init, OneInTheLock, Rested, PacingAssumptions, Spacing
  <1>3. Recorded
    BY DEF Pacing!Init, Recorded, PacingAssumptions, Spacing
  <1> QED
    BY <1>1, <1>2, <1>3 DEF PacingInv

LEMMA PacingPromised ==
    ASSUME PacingAssumptions
    PROVE  PacingInv => Pacing!TurnsApart
  BY DEF PacingInv, PacingTypeOK, Rested, Pacing!TurnsApart, PacingAssumptions, Spacing
-----------------------------------------------------------------------------
(* CallerFiles: what is under a name is told apart by who sent it and by   *)
(* whether another wrote into it.  Nothing is in two places, only a        *)
(* catalogue is the server's, and in a folder there are layers.            *)

LayerFields == {"by", "whole", "old", "entries"}
RequestFields == {"phase", "caller", "live", "file", "dir", "entry"}

Alike(a, b) == a.by = b.by /\ a.whole = b.whole

DiskOK(d) ==
    /\ \A p \in DOMAIN d : DOMAIN d[p] = LayerFields /\ d[p].by \in Uploads \cup {"server"}
    /\ \A p, q \in DOMAIN d : Alike(d[p], d[q]) /\ d[p].by # "server" => p = q
    /\ \A p \in DOMAIN d : d[p].by = "server" => p = Files!CatalogueAt(p[1])
    /\ \A p \in DOMAIN d : p[2] # "" => p[4] = "gpkg"

RequestOK(r) ==
    /\ DOMAIN r = RequestFields
    /\ r.phase \in {"upload", "draw", "writing", "saved", "refused", "failed", "stored"}
    /\ r.caller \in Callers /\ r.dir = r.caller /\ r.file \in SentFiles
    /\ r.phase = "draw" => r.file.suffix = "gpkg"
    /\ r.phase \in {"writing", "saved"} => r.file.flaw = "none"

FilesTypeOK ==
    /\ DiskOK(disk)
    /\ DOMAIN upload = Uploads
    /\ \A u \in Uploads : upload[u] = Files!NoRequest \/ RequestOK(upload[u])
    /\ stored \in Seq(Uploads)
    /\ \A i \in DOMAIN stored : upload[stored[i]].phase = "stored"

(* The request by may have put its file on the disk, torn if not whole.    *)
Written(by, whole) ==
    /\ upload[by].phase \notin {"idle", "upload", "draw"}
    /\ whole = TRUE \/ upload[by].phase # "writing"

Known(d) == \A p \in DOMAIN d : d[p].by # "server" => Written(d[p].by, d[p].whole)

(* What an answered request listed is nowhere but there, will not move and *)
(* is not going to be written again: once it is gone it is gone.           *)
OnlyThere(u) ==
    LET e == upload[u].entry
    IN IF e.by = "server" THEN Files!RawAt(u) = Files!CatalogueAt(upload[u].caller)
       ELSE /\ e.by \in Uploads /\ Written(e.by, e.whole)
            /\ e.at[4] \notin {"zip", "csv"}
            /\ \A p \in DOMAIN disk : Alike(disk[p], e) => p = e.at

ListedOrTaken ==
    \A u \in Uploads : Files!Current(u) /\ Files!Untouched(u) =>
        \/ upload[u].entry \in Files!Loaded(disk, upload[u].caller)
        \/ \E v \in Uploads : /\ Files!TookTheCatalogue(v)
                              /\ upload[v].caller = upload[u].caller

FilesInv ==
    /\ FilesTypeOK
    /\ Known(disk)
    /\ \A u \in Uploads : upload[u].phase = "stored" => OnlyThere(u)
    /\ ~retention => sweeping = Files!NoPlace /\ ListedOrTaken

LEMMA WithoutOK ==
    ASSUME NEW d, DiskOK(d), NEW places
    PROVE  DiskOK(Files!Without(d, places))
  BY DEF DiskOK, Files!Without, Files!Restrict

LEMMA WithOK ==
    ASSUME NEW d, DiskOK(d), NEW place, NEW layer,
           DOMAIN layer = LayerFields, layer.by \in Uploads \cup {"server"},
           layer.by = "server" => place = Files!CatalogueAt(place[1]),
           place[2] # "" => place[4] = "gpkg",
           \A p \in DOMAIN d \ {place} : Alike(d[p], layer) => layer.by = "server"
    PROVE  DiskOK(Files!With(d, place, layer))
  BY DEF DiskOK, Alike, Files!With

LEMMA LayerFieldsOf ==
    ASSUME NEW by
    PROVE  /\ DOMAIN Files!Layer(by) = LayerFields
           /\ Files!Layer(by).by = by /\ Files!Layer(by).whole = TRUE
  BY DEF Files!Layer, LayerFields

LEMMA TornFieldsOf ==
    ASSUME NEW by, NEW whole
    PROVE  LET torn == [Files!Layer(by) EXCEPT !.whole = whole]
           IN DOMAIN torn = LayerFields /\ torn.by = by /\ torn.whole = whole
  BY DEF Files!Layer, LayerFields

(* A catalogue is saved over whatever has its name.                        *)
LEMMA SavedOK ==
    ASSUME NEW d, DiskOK(d), NEW dir, NEW entries
    PROVE  DiskOK(Files!Saved(d, dir, entries))
  <1> DEFINE at == Files!CatalogueAt(dir)
             layer == [Files!Layer("server") EXCEPT !.entries = entries]
  <1>1. DOMAIN layer = LayerFields /\ layer.by = "server"
    BY DEF Files!Layer, LayerFields
  <1>2. at[2] = "" /\ at = Files!CatalogueAt(at[1])
    BY DEF Files!CatalogueAt, Files!Place
  <1>3. Files!Saved(d, dir, entries) = Files!With(d, at, layer)
    BY DEF Files!Saved, Files!Server
  <1> HIDE DEF at, layer
  <1>4. /\ layer.by \in Uploads \cup {"server"}
        /\ layer.by = "server" => at = Files!CatalogueAt(at[1])
        /\ at[2] # "" => at[4] = "gpkg"
        /\ \A p \in DOMAIN d \ {at} : Alike(d[p], layer) => layer.by = "server"
    BY <1>1, <1>2
  <1> QED
    BY <1>1, <1>3, <1>4, WithOK

-----------------------------------------------------------------------------
(* What a step may do to the requests: an answered one stays as it is, and *)
(* what has been written, or has taken the catalogue's name, has been.     *)
Onward ==
    /\ DOMAIN upload' = Uploads
    /\ \A u \in Uploads :
        /\ upload[u].phase = "stored" => upload'[u] = upload[u]
        /\ \A whole : Written(u, whole) => Written(u, whole)'
        /\ Files!TookTheCatalogue(u) =>
               Files!TookTheCatalogue(u)' /\ upload'[u].caller = upload[u].caller

(* And to the disk: what is under a name was there, was a zip or a table   *)
(* that is unpacked, is the server's or is written for the first time.     *)
ComesFrom(d, p) ==
    \/ p \in DOMAIN disk /\ Alike(d[p], disk[p])
    \/ \E q \in DOMAIN disk : q[4] \in {"zip", "csv"} /\ Alike(d[p], disk[q])
    \/ d[p].by = "server"
    \/ ~Written(d[p].by, d[p].whole)

CataloguesKept(d) ==
    \A c \in Callers :
        LET at == Files!CatalogueAt(c)
        IN at \in DOMAIN disk =>
               \/ at \in DOMAIN d /\ d[at].entries = disk[at].entries
               \/ \E v \in Uploads : Files!TookTheCatalogue(v)' /\ upload'[v].caller = c

EntryKept(u) ==
    LET c == upload[u].caller
        at == Files!CatalogueAt(c)
        e == upload[u].entry
    IN at \in DOMAIN disk /\ e \in disk[at].entries =>
           \/ at \in DOMAIN disk' /\ e \in disk'[at].entries
           \/ \E v \in Uploads : Files!TookTheCatalogue(v)' /\ upload'[v].caller = c

(* What an answered request listed is still only there, and is not there   *)
(* again once it was gone.                                                 *)
LEMMA StaysOnlyThere ==
    ASSUME FilesInv, Onward, \A p \in DOMAIN disk' : ComesFrom(disk', p),
           NEW u \in Uploads, upload[u].phase = "stored"
    PROVE  /\ upload'[u] = upload[u]
           /\ OnlyThere(u)'
           /\ upload[u].entry.by # "server" =>
                  (Files!Untouched(u)' => Files!Untouched(u))
  <1>1. upload'[u] = upload[u] /\ OnlyThere(u)
    BY DEF FilesInv, Onward
  <1> DEFINE e == upload[u].entry
  <1>2. CASE e.by = "server"
    BY <1>1, <1>2 DEF OnlyThere, Files!RawAt
  <1>3. CASE e.by # "server"
    <2>1. /\ e.by \in Uploads /\ Written(e.by, e.whole)
          /\ e.at[4] \notin {"zip", "csv"}
          /\ \A p \in DOMAIN disk : Alike(disk[p], e) => p = e.at
      BY <1>1, <1>3 DEF OnlyThere
    <2>2. Written(e.by, e.whole)'
      BY <1>1, <2>1 DEF Onward
    <2>3. ASSUME NEW p \in DOMAIN disk', Alike(disk'[p], e)
          PROVE  p = e.at /\ p \in DOMAIN disk /\ Alike(disk[p], e)
      <3>1. disk'[p].by = e.by /\ disk'[p].whole = e.whole
        BY <2>3 DEF Alike
      <3>2. Written(disk'[p].by, disk'[p].whole)
        BY <2>1, <3>1
      <3>3. ~ \E q \in DOMAIN disk : q[4] \in {"zip", "csv"} /\ Alike(disk'[p], disk[q])
        BY <2>1, <3>1 DEF Alike
      <3>4. p \in DOMAIN disk /\ Alike(disk'[p], disk[p])
        BY <1>3, <3>1, <3>2, <3>3 DEF ComesFrom
      <3> QED
        BY <2>1, <3>1, <3>4 DEF Alike
    <2>4. OnlyThere(u)'
      BY <1>1, <1>3, <2>1, <2>2, <2>3 DEF OnlyThere
    <2>5. Files!Untouched(u)' => Files!Untouched(u)
      <3> SUFFICES ASSUME Files!Untouched(u)' PROVE Files!Untouched(u)
        OBVIOUS
      <3>1. e.at \in DOMAIN disk' /\ Alike(disk'[e.at], e)
        BY <1>1 DEF Files!Untouched, Alike
      <3>2. e.at \in DOMAIN disk /\ Alike(disk[e.at], e)
        BY <2>3, <3>1
      <3> QED
        BY <3>2 DEF Files!Untouched, Alike
    <2> QED
      BY <1>1, <2>4, <2>5
  <1> QED
    BY <1>2, <1>3

(* A dataset that was listed still is.                                     *)
LEMMA StaysListed ==
    ASSUME FilesInv, ~retention, Onward, \A p \in DOMAIN disk' : ComesFrom(disk', p),
           NEW u \in Uploads, upload[u].phase = "stored", EntryKept(u),
           Files!Current(u), Files!Untouched(u)'
    PROVE  \/ upload[u].entry \in Files!Loaded(disk', upload[u].caller)
           \/ \E v \in Uploads :
                  Files!TookTheCatalogue(v)' /\ upload'[v].caller = upload[u].caller
  <1> DEFINE c == upload[u].caller
             e == upload[u].entry
             at == Files!CatalogueAt(c)
  <1>1. upload'[u] = upload[u] /\ OnlyThere(u) /\ RequestOK(upload[u])
    BY DEF FilesInv, FilesTypeOK, Onward, Files!NoRequest
  <1>2. CASE e.by = "server"
    <2>1. Files!TookTheCatalogue(u)
      BY <1>1, <1>2 DEF OnlyThere, Files!TookTheCatalogue, Files!NoRequest
    <2> QED
      BY <1>1, <2>1 DEF Onward
  <1>3. CASE e.by # "server"
    <2>1. Files!Untouched(u)
      BY <1>3, StaysOnlyThere
    <2>2. CASE e \in Files!Loaded(disk, c)
      <3>1. at \in DOMAIN disk /\ e \in disk[at].entries
        BY <2>2 DEF Files!Loaded
      <3>2. e.at \in DOMAIN disk'
        BY <1>1 DEF Files!Untouched
      <3> QED
        BY <3>1, <3>2 DEF EntryKept, Files!Loaded
    <2>3. CASE \E v \in Uploads : Files!TookTheCatalogue(v) /\ upload[v].caller = c
      BY <2>3 DEF Onward
    <2> QED
      BY <2>1, <2>2, <2>3 DEF FilesInv, ListedOrTaken
  <1> QED
    BY <1>2, <1>3

(* A step that lists nothing keeps the invariant.                          *)
LEMMA NothingListed ==
    ASSUME FilesInv, Onward, \A p \in DOMAIN disk' : ComesFrom(disk', p),
           DiskOK(disk'), Known(disk)', UNCHANGED <<retention, stored>>,
           ~retention => CataloguesKept(disk') /\ sweeping' = Files!NoPlace,
           \A u \in Uploads : upload'[u] = Files!NoRequest \/ RequestOK(upload'[u]),
           \A u \in Uploads : upload'[u].phase = "stored" => upload[u].phase = "stored"
    PROVE  FilesInv'
  <1>1. FilesTypeOK'
    BY DEF FilesInv, FilesTypeOK, Onward
  <1>2. ASSUME NEW u \in Uploads, upload'[u].phase = "stored"
        PROVE  OnlyThere(u)'
    BY <1>2, StaysOnlyThere
  <1>3. ASSUME ~retention PROVE ListedOrTaken'
    <2> SUFFICES ASSUME NEW u \in Uploads, Files!Current(u)', Files!Untouched(u)'
                 PROVE  \/ upload'[u].entry \in Files!Loaded(disk', upload'[u].caller)
                        \/ \E v \in Uploads : /\ Files!TookTheCatalogue(v)'
                                              /\ upload'[v].caller = upload'[u].caller
      BY DEF ListedOrTaken
    <2>1. PICK i \in DOMAIN stored :
            /\ stored[i] = u
            /\ upload'[u].live
            /\ \A j \in i + 1 .. Len(stored) :
                   upload'[stored[j]].caller = upload'[u].caller
                       => upload'[stored[j]].entry.name # upload'[u].entry.name
      BY DEF Files!Current
    <2>2. \A j \in DOMAIN stored : stored[j] \in Uploads /\ upload[stored[j]].phase = "stored"
      BY DEF FilesInv, FilesTypeOK
    <2>3. \A j \in DOMAIN stored : upload'[stored[j]] = upload[stored[j]]
      BY <2>2 DEF Onward
    <2>4. upload'[u] = upload[u] /\ upload[u].phase = "stored"
      BY <2>1, <2>2, <2>3
    <2>5. \A j \in i + 1 .. Len(stored) : j \in DOMAIN stored
      BY <2>1 DEF FilesInv, FilesTypeOK
    <2>6. Files!Current(u)
      BY <2>1, <2>3, <2>4, <2>5 DEF Files!Current
    <2>7. EntryKept(u)
      <3>1. upload[u].caller \in Callers
        BY <2>4 DEF FilesInv, FilesTypeOK, RequestOK, Files!NoRequest
      <3> QED
        BY <1>3, <3>1 DEF CataloguesKept, EntryKept
    <2> QED
      BY <1>3, <2>4, <2>6, <2>7, StaysListed
  <1> QED
    BY <1>1, <1>2, <1>3 DEF FilesInv

(* A request that is not over goes on, without going back.                 *)
Later(phase) ==
    CASE phase = "upload" -> {"writing", "refused", "failed"}
      [] phase = "draw" -> {"refused", "failed", "stored"}
      [] phase = "writing" -> {"saved", "failed"}
      [] phase = "saved" -> {"failed", "stored"}

LEMMA GoesOn ==
    ASSUME FilesTypeOK, NEW u \in Uploads,
           upload[u].phase \in {"upload", "draw", "writing", "saved"},
           NEW phase \in Later(upload[u].phase),
           DOMAIN upload' = Uploads,
           \A v \in Uploads \ {u} : upload'[v] = upload[v],
           DOMAIN upload'[u] = RequestFields,
           upload'[u].phase = phase, upload'[u].caller = upload[u].caller,
           upload'[u].dir = upload[u].dir, upload'[u].file = upload[u].file,
           phase \in {"writing", "saved"} => upload[u].file.flaw = "none"
    PROVE  /\ Onward
           /\ \A v \in Uploads : upload'[v] = Files!NoRequest \/ RequestOK(upload'[v])
  <1>1. RequestOK(upload[u])
    BY DEF FilesTypeOK, Files!NoRequest
  <1>2. phase \in {"writing", "refused", "failed", "saved", "stored"}
    BY DEF Later
  <1>3. RequestOK(upload'[u])
    BY <1>1, <1>2 DEF RequestOK
  <1>4. ASSUME NEW whole, Written(u, whole) PROVE Written(u, whole)'
    BY <1>4 DEF Written, Later
  <1>5. ASSUME Files!TookTheCatalogue(u) PROVE Files!TookTheCatalogue(u)'
    <2>1. upload[u].phase # "draw"
      BY <1>1, <1>5 DEF Files!TookTheCatalogue, RequestOK, Files!RawAt, Files!CatalogueAt,
                        Files!Place
    <2>2. upload[u].phase \in {"writing", "saved"}
      BY <1>5, <2>1 DEF Files!TookTheCatalogue
    <2>3. phase \in {"saved", "failed", "stored"}
      BY <2>2 DEF Later
    <2>4. upload'[u] # Files!NoRequest
      BY <2>3 DEF Files!NoRequest
    <2>5. Files!RawAt(u)' = Files!RawAt(u)
      BY DEF Files!RawAt
    <2> QED
      BY <1>5, <2>3, <2>4, <2>5 DEF Files!TookTheCatalogue
  <1>6. Onward
    <2>1. ASSUME NEW v \in Uploads
          PROVE  /\ upload[v].phase = "stored" => upload'[v] = upload[v]
                 /\ \A whole : Written(v, whole) => Written(v, whole)'
                 /\ Files!TookTheCatalogue(v) =>
                        Files!TookTheCatalogue(v)' /\ upload'[v].caller = upload[v].caller
      <3>1. CASE v = u
        BY <1>4, <1>5, <3>1
      <3>2. CASE v # u
        BY <3>2 DEF Written, Files!TookTheCatalogue, Files!RawAt
      <3> QED
        BY <3>1, <3>2
    <2> QED
      BY <2>1 DEF Onward
  <1> QED
    BY <1>3, <1>6 DEF FilesTypeOK

LEMMA AnswerGoesOn ==
    ASSUME FilesTypeOK, NEW u \in Uploads,
           upload[u].phase \in {"upload", "draw", "writing", "saved"},
           NEW phase \in Later(upload[u].phase), Files!Answer(u, phase),
           phase \in {"writing", "saved"} => upload[u].file.flaw = "none"
    PROVE  /\ Onward
           /\ \A v \in Uploads : upload'[v] = Files!NoRequest \/ RequestOK(upload'[v])
           /\ upload'[u].phase = phase
           /\ \A v \in Uploads \ {u} : upload'[v] = upload[v]
  <1>1. DOMAIN upload = Uploads /\ RequestOK(upload[u])
    BY DEF FilesTypeOK, Files!NoRequest
  <1>2. /\ DOMAIN upload' = Uploads
        /\ \A v \in Uploads \ {u} : upload'[v] = upload[v]
        /\ upload'[u] = [upload[u] EXCEPT !.phase = phase]
    BY <1>1 DEF Files!Answer
  <1>3. /\ DOMAIN upload'[u] = RequestFields
        /\ upload'[u].phase = phase /\ upload'[u].caller = upload[u].caller
        /\ upload'[u].dir = upload[u].dir /\ upload'[u].file = upload[u].file
    BY <1>1, <1>2 DEF RequestOK, RequestFields
  <1> QED
    BY <1>2, <1>3, GoesOn

-----------------------------------------------------------------------------
(* The disk a dataset is listed on: what it was, but that a zip or a table *)
(* may have been unpacked, or an area drawn.                               *)
DiskFrom(u, d) ==
    /\ DiskOK(d)
    /\ \A p \in DOMAIN d :
           /\ ComesFrom(d, p)
           /\ d[p].by # "server" => d[p].by = u \/ Written(d[p].by, d[p].whole)
    /\ \A c \in Callers :
           LET at == Files!CatalogueAt(c)
           IN at \in DOMAIN disk => at \in DOMAIN d /\ d[at].entries = disk[at].entries

PreparedDisk(u, d, e) ==
    /\ DiskFrom(u, d)
    /\ e.at \in DOMAIN d /\ Alike(d[e.at], e)
    /\ e.at[4] \notin {"zip", "csv"}
    /\ e.by = "server" => Files!RawAt(u) = Files!CatalogueAt(upload[u].caller)

LEMMA ListingKeeps ==
    ASSUME FilesInv, NEW u \in Uploads, upload[u].phase \in {"saved", "draw"}, NEW d, NEW e,
           PreparedDisk(u, d, e), Files!Listing(u, d, e), UNCHANGED <<retention, sweeping>>
    PROVE  FilesInv'
  <1> DEFINE c == Files!Dir(u)
             at == Files!CatalogueAt(c)
             new == Files!Added(Files!Loaded(d, c), e)
  <1>0. /\ FilesTypeOK /\ RequestOK(upload[u]) /\ DOMAIN upload = Uploads
        /\ c \in Callers \cup {Anonymous}
    BY DEF FilesInv, FilesTypeOK, Files!NoRequest, RequestOK, Files!Dir
  <1>1. CASE ~Files!Loads(d, c)
    <2>1. disk' = d /\ Files!Answer(u, "failed") /\ UNCHANGED stored
      BY <1>1 DEF Files!Listing
    <2>2. "failed" \in Later(upload[u].phase)
      BY DEF Later
    <2>3. /\ Onward
          /\ \A v \in Uploads : upload'[v] = Files!NoRequest \/ RequestOK(upload'[v])
          /\ upload'[u].phase = "failed"
          /\ \A v \in Uploads \ {u} : upload'[v] = upload[v]
      BY <1>0, <2>1, <2>2, AnswerGoesOn
    <2>4. Known(disk)'
      BY <2>1, <2>3 DEF PreparedDisk, DiskFrom, Known, Onward, DiskOK, Written
    <2>5. CataloguesKept(disk')
      BY <2>1 DEF PreparedDisk, DiskFrom, CataloguesKept
    <2>6. \A v \in Uploads : upload'[v].phase = "stored" => upload[v].phase = "stored"
      BY <2>3
    <2> QED
      BY <2>1, <2>3, <2>4, <2>5, <2>6, NothingListed DEF PreparedDisk, DiskFrom, FilesInv
  <1>2. CASE Files!Loads(d, c)
    <2>1. /\ disk' = Files!Saved(d, c, new)
          /\ upload' = [upload EXCEPT ![u].phase = "stored", ![u].entry = e]
          /\ stored' = Append(stored, u)
      BY <1>2 DEF Files!Listing
    <2>2. /\ DOMAIN upload' = Uploads
          /\ \A v \in Uploads \ {u} : upload'[v] = upload[v]
          /\ upload'[u] = [[upload[u] EXCEPT !.phase = "stored"] EXCEPT !.entry = e]
      BY <1>0, <2>1
    <2>3. /\ DOMAIN upload'[u] = RequestFields
          /\ upload'[u].phase = "stored" /\ upload'[u].caller = upload[u].caller
          /\ upload'[u].dir = upload[u].dir /\ upload'[u].file = upload[u].file
          /\ upload'[u].live = upload[u].live /\ upload'[u].entry = e
      BY <1>0, <2>2 DEF RequestOK, RequestFields
    <2>4. /\ Onward
          /\ \A v \in Uploads : upload'[v] = Files!NoRequest \/ RequestOK(upload'[v])
      <3>1. "stored" \in Later(upload[u].phase)
        BY DEF Later
      <3> QED
        BY <1>0, <2>2, <2>3, <3>1, GoesOn
    <2> HIDE DEF at, new
    <2>5. /\ DiskOK(disk')
          /\ DOMAIN disk' = DOMAIN d \cup {at}
          /\ disk'[at].by = "server" /\ disk'[at].entries = new
          /\ \A p \in DOMAIN d \ {at} : disk'[p] = d[p]
      <3>1. DiskOK(d)
        BY DEF PreparedDisk, DiskFrom
      <3>2. DiskOK(Files!Saved(d, c, new))
        BY <3>1, SavedOK
      <3>3. LET saved == Files!Saved(d, c, new)
            IN /\ DOMAIN saved = DOMAIN d \cup {at}
               /\ saved[at].by = "server" /\ saved[at].entries = new
               /\ \A p \in DOMAIN d \ {at} : saved[p] = d[p]
        BY DEF Files!Saved, Files!With, Files!Layer, Files!Server, at
      <3> QED
        BY <2>1, <3>2, <3>3
    <2>6. \A p \in DOMAIN disk' : ComesFrom(disk', p)
      BY <2>5 DEF PreparedDisk, DiskFrom, ComesFrom
    <2>7. Known(disk)'
      <3> SUFFICES ASSUME NEW p \in DOMAIN disk', NEW by, NEW whole,
                          by = disk'[p].by, whole = disk'[p].whole, by # "server"
                   PROVE  Written(by, whole)'
        BY DEF Known, Written
      <3>1. p \in DOMAIN d /\ d[p].by = by /\ d[p].whole = whole
        BY <2>5
      <3>2. by \in Uploads
        BY <3>1 DEF PreparedDisk, DiskFrom, DiskOK
      <3>3. CASE by = u
        BY <2>3, <3>3 DEF Written
      <3>4. CASE by # u
        <4>1. Written(by, whole)
          BY <3>1, <3>4 DEF PreparedDisk, DiskFrom
        <4> QED
          BY <2>4, <3>2, <4>1 DEF Onward
      <3> QED
        BY <3>3, <3>4
    <2>8. FilesTypeOK'
      <3>1. stored' \in Seq(Uploads)
        BY <1>0, <2>1 DEF FilesTypeOK
      <3>2. \A i \in DOMAIN stored' : upload'[stored'[i]].phase = "stored"
        <4> SUFFICES ASSUME NEW i \in DOMAIN stored' PROVE upload'[stored'[i]].phase = "stored"
          OBVIOUS
        <4>1. CASE i = Len(stored) + 1
          BY <1>0, <2>1, <2>3, <4>1 DEF FilesTypeOK
        <4>2. CASE i \in DOMAIN stored
          <5>1. stored'[i] = stored[i] /\ stored[i] \in Uploads
                /\ upload[stored[i]].phase = "stored"
            BY <1>0, <2>1, <4>2 DEF FilesTypeOK
          <5> QED
            BY <2>4, <5>1 DEF Onward
        <4> QED
          BY <1>0, <2>1, <4>1, <4>2 DEF FilesTypeOK
      <3> QED
        BY <2>4, <2>5, <3>1, <3>2 DEF FilesTypeOK, Onward
    <2>9. OnlyThere(u)'
      <3>1. CASE e.by = "server"
        BY <2>3, <3>1 DEF OnlyThere, PreparedDisk, DiskFrom, Files!RawAt
      <3>2. CASE e.by # "server"
        <4>1. e.at \in DOMAIN d /\ d[e.at].by = e.by /\ d[e.at].whole = e.whole
              /\ e.at[4] \notin {"zip", "csv"}
          BY DEF PreparedDisk, DiskFrom, Alike
        <4>2. e.by \in Uploads
          BY <3>2, <4>1 DEF PreparedDisk, DiskFrom, DiskOK
        <4>3. Written(e.by, e.whole)'
          <5>1. CASE e.by = u
            BY <2>3, <5>1 DEF Written
          <5>2. CASE e.by # u
            BY <2>4, <3>2, <4>1, <4>2, <5>2 DEF PreparedDisk, DiskFrom, Onward
          <5> QED
            BY <5>1, <5>2
        <4>4. ASSUME NEW p \in DOMAIN disk', Alike(disk'[p], e) PROVE p = e.at
          <5>1. p \in DOMAIN d /\ disk'[p] = d[p]
            BY <2>5, <3>2, <4>4 DEF Alike
          <5>2. Alike(d[p], d[e.at]) /\ d[p].by # "server"
            BY <3>2, <4>1, <4>4, <5>1 DEF Alike
          <5> QED
            BY <4>1, <5>1, <5>2 DEF PreparedDisk, DiskFrom, DiskOK
        <4> QED
          BY <2>3, <3>2, <4>1, <4>2, <4>3, <4>4 DEF OnlyThere
      <3> QED
        BY <3>1, <3>2
    <2>10. ASSUME NEW v \in Uploads, upload'[v].phase = "stored"
           PROVE  OnlyThere(v)'
      <3>1. CASE v = u
        BY <2>9, <3>1
      <3>2. CASE v # u
        BY <2>2, <2>4, <2>6, <2>10, <3>2, StaysOnlyThere
      <3> QED
        BY <3>1, <3>2
    <2>11. ASSUME ~retention PROVE ListedOrTaken'
      <3> SUFFICES ASSUME NEW v \in Uploads, Files!Current(v)', Files!Untouched(v)'
                   PROVE  \/ upload'[v].entry \in Files!Loaded(disk', upload'[v].caller)
                          \/ \E w \in Uploads : /\ Files!TookTheCatalogue(w)'
                                                /\ upload'[w].caller = upload'[v].caller
        BY DEF ListedOrTaken
      <3> DEFINE n == Len(stored)
      <3>1. PICK i \in DOMAIN stored' :
              /\ stored'[i] = v
              /\ upload'[v].live
              /\ \A j \in i + 1 .. Len(stored') :
                     upload'[stored'[j]].caller = upload'[v].caller
                         => upload'[stored'[j]].entry.name # upload'[v].entry.name
        BY DEF Files!Current
      <3>2. /\ n \in Nat /\ DOMAIN stored = 1 .. n
            /\ DOMAIN stored' = 1 .. n + 1 /\ Len(stored') = n + 1
            /\ stored'[n + 1] = u
            /\ \A j \in 1 .. n : stored'[j] = stored[j]
        BY <1>0, <2>1 DEF FilesTypeOK
      <3>3. CASE v = u
        <4>1. c = upload'[v].caller
          BY <2>3, <3>1, <3>3 DEF Files!Dir
        <4>2. e \in disk'[at].entries /\ at \in DOMAIN disk'
          BY <2>5 DEF new, Files!Added
        <4>3. e.at \in DOMAIN disk'
          BY <2>3, <3>3 DEF Files!Untouched
        <4> QED
          BY <2>3, <3>3, <4>1, <4>2, <4>3 DEF at, Files!Loaded
      <3>4. CASE v # u
        <4>1. i \in 1 .. n /\ stored[i] = v
          BY <3>1, <3>2, <3>4
        <4>2. \A j \in 1 .. n : stored[j] \in Uploads /\ upload[stored[j]].phase = "stored"
          BY <1>0, <3>2 DEF FilesTypeOK
        <4>3. \A j \in 1 .. n : upload'[stored[j]] = upload[stored[j]]
          BY <2>4, <4>2 DEF Onward
        <4>4. upload'[v] = upload[v] /\ upload[v].phase = "stored"
          BY <4>1, <4>2, <4>3
        <4>5. Files!Current(v)
          BY <3>1, <3>2, <4>1, <4>3, <4>4 DEF Files!Current
        <4>6. upload[v].caller \in Callers
          BY <1>0, <4>4 DEF FilesTypeOK, RequestOK, Files!NoRequest
        <4>7. EntryKept(v)
          <5> DEFINE mine == Files!CatalogueAt(upload[v].caller)
          <5> SUFFICES ASSUME mine \in DOMAIN disk, upload[v].entry \in disk[mine].entries
                       PROVE  mine \in DOMAIN disk' /\ upload[v].entry \in disk'[mine].entries
            BY DEF EntryKept
          <5>1. mine \in DOMAIN d /\ upload[v].entry \in d[mine].entries
            BY <4>6 DEF PreparedDisk, DiskFrom
          <5>2. CASE mine # at
            BY <2>5, <5>1, <5>2
          <5>3. CASE mine = at
            <6>1. c = upload[v].caller
              BY <5>3 DEF at, Files!CatalogueAt, Files!Place
            <6>2. upload[u].caller = c
              BY <1>0, <4>6, <6>1, SharedAssumption DEF Files!Dir, RequestOK
            <6>3. e.name # upload[v].entry.name
              <7>1. n + 1 \in i + 1 .. Len(stored')
                BY <3>2, <4>1
              <7> QED
                BY <2>3, <3>1, <3>2, <4>4, <6>1, <6>2, <7>1
            <6>4. upload[v].entry.at \in DOMAIN d
              BY <2>5, <4>4, <5>1, <5>3 DEF Files!Untouched
            <6>5. upload[v].entry \in Files!Loaded(d, c)
              BY <5>1, <5>3, <6>4 DEF Files!Loaded, at
            <6>6. upload[v].entry \in new
              BY <6>3, <6>5 DEF new, Files!Added
            <6> QED
              BY <2>5, <5>3, <6>6
          <5> QED
            BY <5>2, <5>3
        <4> QED
          BY <2>4, <2>6, <2>11, <4>4, <4>5, <4>7, StaysListed
      <3> QED
        BY <3>3, <3>4
    <2> QED
      BY <2>7, <2>8, <2>10, <2>11 DEF FilesInv
  <1> QED
    BY <1>1, <1>2

LEMMA Removed ==
    ASSUME FilesInv, NEW u, NEW places, \A c \in Callers : Files!CatalogueAt(c) \notin places
    PROVE  DiskFrom(u, Files!Without(disk, places))
  <1> DEFINE d == Files!Without(disk, places)
  <1>1. DiskOK(d)
    BY WithoutOK DEF FilesInv, FilesTypeOK
  <1>2. DOMAIN d = DOMAIN disk \ places /\ \A p \in DOMAIN d : d[p] = disk[p]
    BY DEF Files!Without, Files!Restrict
  <1> HIDE DEF d
  <1>3. \A p \in DOMAIN d : ComesFrom(d, p)
    BY <1>2 DEF ComesFrom, Alike
  <1>4. \A p \in DOMAIN d : d[p].by # "server" => Written(d[p].by, d[p].whole)
    BY <1>2 DEF FilesInv, Known
  <1> QED
    BY <1>1, <1>2, <1>3, <1>4 DEF DiskFrom, d

(* A zip or a table becomes a layer at a place.                            *)
LEMMA MovedToLayer ==
    ASSUME FilesInv, NEW u, NEW raw \in DOMAIN disk, raw[4] \in {"zip", "csv"},
           NEW place, place[4] = "gpkg"
    PROVE  LET layer == [disk[raw] EXCEPT !.old = FALSE]
           IN DiskFrom(u, Files!With(Files!Without(disk, {raw}), place, layer))
  <1> DEFINE layer == [disk[raw] EXCEPT !.old = FALSE]
             rest == Files!Without(disk, {raw})
             d == Files!With(rest, place, layer)
  <1>1. DiskOK(disk) /\ DOMAIN disk[raw] = LayerFields
    BY DEF FilesInv, FilesTypeOK, DiskOK
  <1>2. DOMAIN layer = LayerFields /\ layer.by = disk[raw].by /\ layer.whole = disk[raw].whole
    BY <1>1 DEF LayerFields
  <1>3. layer.by \in Uploads
    <2>1. \A x : Files!CatalogueAt(x)[4] = "json"
      BY DEF Files!CatalogueAt, Files!Place
    <2>2. raw # Files!CatalogueAt(raw[1])
      BY <2>1
    <2> QED
      BY <1>1, <1>2, <2>2 DEF DiskOK
  <1>4. layer.by # "server"
    BY <1>3, SharedAssumption
  <1>5. /\ DOMAIN rest = DOMAIN disk \ {raw}
        /\ \A p \in DOMAIN rest : rest[p] = disk[p]
        /\ DiskOK(rest)
    BY <1>1, WithoutOK DEF Files!Without, Files!Restrict
  <1> HIDE DEF layer, rest
  <1>6. /\ DOMAIN d = DOMAIN rest \cup {place}
        /\ d[place] = layer
        /\ \A p \in DOMAIN rest \ {place} : d[p] = rest[p]
    BY DEF Files!With
  <1>7. DiskOK(d)
    <2>1. \A p \in DOMAIN rest \ {place} : Alike(rest[p], layer) => layer.by = "server"
      BY <1>1, <1>2, <1>4, <1>5 DEF DiskOK, Alike
    <2> QED
      BY <1>2, <1>3, <1>4, <1>5, <2>1, WithOK
  <1> HIDE DEF d
  <1>8. ASSUME NEW p \in DOMAIN d
        PROVE  ComesFrom(d, p) /\ (d[p].by # "server" => Written(d[p].by, d[p].whole))
    <2>1. CASE p = place
      <3>1. d[p].by = disk[raw].by /\ d[p].whole = disk[raw].whole
        BY <1>2, <1>6, <2>1
      <3> QED
        BY <3>1 DEF ComesFrom, Alike, FilesInv, Known
    <2>2. CASE p # place
      <3>1. p \in DOMAIN disk /\ d[p] = disk[p]
        BY <1>5, <1>6, <2>2
      <3> QED
        BY <3>1 DEF ComesFrom, Alike, FilesInv, Known
    <2> QED
      BY <2>1, <2>2
  <1>9. ASSUME NEW c \in Callers, Files!CatalogueAt(c) \in DOMAIN disk
        PROVE  /\ Files!CatalogueAt(c) \in DOMAIN d
               /\ d[Files!CatalogueAt(c)] = disk[Files!CatalogueAt(c)]
    <2>1. Files!CatalogueAt(c)[4] = "json"
      BY DEF Files!CatalogueAt, Files!Place
    <2>2. Files!CatalogueAt(c) # raw /\ Files!CatalogueAt(c) # place
      BY <2>1
    <2> QED
      BY <1>5, <1>6, <1>9, <2>2
  <1>10. DiskFrom(u, d)
    BY <1>7, <1>8, <1>9 DEF DiskFrom
  <1> QED
    BY <1>10 DEF d, rest, layer

(* What is read of an upload, wherever it was unpacked to.                 *)
LEMMA UnpackedOK ==
    ASSUME FilesInv, NEW u \in Uploads, upload[u].phase = "saved", Files!There(u),
           NEW data \in Files!Unpacked(u)
    PROVE  /\ DiskFrom(u, data.disk)
           /\ data.at \in DOMAIN data.disk
           /\ data.at[4] \notin {"zip", "csv"}
           /\ data.at = Files!RawAt(u) \/ data.at[4] = "gpkg"
  <1> DEFINE f == upload[u].file
             raw == Files!RawAt(u)
             layer == [disk[raw] EXCEPT !.old = FALSE]
             table == Files!Place(upload[u].dir, "", f.stem, "gpkg")
             inside == Files!Place(upload[u].dir, f.stem, f.inner, "gpkg")
             unzipped == IF f.inner = "none" THEN Files!Without(disk, {raw})
                         ELSE Files!With(Files!Without(disk, {raw}), inside, layer)
             converted == Files!With(Files!Without(disk, {raw}), table, layer)
  <1>1. /\ RequestOK(upload[u]) /\ f.stem # ""
        /\ raw \in DOMAIN disk /\ raw[4] = f.suffix
    <2>1. RequestOK(upload[u])
      BY DEF FilesInv, FilesTypeOK, Files!NoRequest
    <2>2. f \in SentFiles /\ f.flaw = "none"
      BY <2>1 DEF RequestOK
    <2> QED
      BY <2>1, <2>2, SharedAssumption DEF Files!There, Files!RawAt, Files!Place
  <1>2. \A c \in Callers : Files!CatalogueAt(c)[4] = "json"
    BY DEF Files!CatalogueAt, Files!Place
  <1>3. table[4] = "gpkg" /\ inside[4] = "gpkg"
    BY DEF Files!Place
  <1>4. CASE f.suffix = "zip"
    <2>1. DiskFrom(u, unzipped)
      <3>1. CASE f.inner = "none"
        BY <1>1, <1>2, <1>4, <3>1, Removed
      <3>2. CASE f.inner # "none"
        BY <1>1, <1>3, <1>4, <3>2, MovedToLayer
      <3> QED
        BY <3>1, <3>2
    <2>2. PICK p \in Files!Inside(unzipped, u) : data = [disk |-> unzipped, at |-> p]
      BY <1>4 DEF Files!Unpacked
    <2> HIDE DEF unzipped
    <2>3. p \in DOMAIN unzipped /\ p[2] = f.stem
      BY <2>2 DEF Files!Inside
    <2>4. p[4] = "gpkg"
      BY <1>1, <2>1, <2>3 DEF DiskFrom, DiskOK
    <2> QED
      BY <2>1, <2>2, <2>3, <2>4
  <1>5. CASE f.suffix = "csv"
    <2>1. DiskFrom(u, converted)
      BY <1>1, <1>3, <1>5, MovedToLayer
    <2>2. data = [disk |-> converted, at |-> table]
      BY <1>5 DEF Files!Unpacked
    <2>3. table \in DOMAIN converted
      BY DEF Files!With
    <2> HIDE DEF converted, table
    <2> QED
      BY <1>3, <2>1, <2>2, <2>3
  <1>6. CASE f.suffix \notin {"zip", "csv"}
    <2>1. data = [disk |-> disk, at |-> raw]
      BY <1>6 DEF Files!Unpacked
    <2>2. DiskFrom(u, disk)
      BY DEF DiskFrom, ComesFrom, Alike, FilesInv, FilesTypeOK, Known
    <2> QED
      BY <1>1, <1>6, <2>1, <2>2
  <1> QED
    BY <1>4, <1>5, <1>6

-----------------------------------------------------------------------------
(* The steps.                                                              *)

LEMMA DiskStays ==
    ASSUME FilesInv, Onward, UNCHANGED <<disk, retention, stored>>,
           ~retention => sweeping' = Files!NoPlace,
           \A u \in Uploads : upload'[u] = Files!NoRequest \/ RequestOK(upload'[u]),
           \A u \in Uploads : upload'[u].phase = "stored" => upload[u].phase = "stored"
    PROVE  FilesInv'
  <1>1. \A p \in DOMAIN disk' : ComesFrom(disk', p)
    BY DEF ComesFrom, Alike
  <1>2. DiskOK(disk') /\ CataloguesKept(disk')
    BY DEF FilesInv, FilesTypeOK, CataloguesKept
  <1>3. Known(disk)'
    <2> SUFFICES ASSUME NEW p \in DOMAIN disk, NEW by, NEW whole,
                        by = disk[p].by, whole = disk[p].whole, by # "server"
                 PROVE  Written(by, whole)'
      BY DEF Known, Written
    <2>1. by \in Uploads /\ Written(by, whole)
      BY DEF FilesInv, FilesTypeOK, DiskOK, Known
    <2> QED
      BY <2>1 DEF Onward
  <1> QED
    BY <1>1, <1>2, <1>3, NothingListed

(* A request that writes, or is over without a dataset, leaves a disk that *)
(* comes from what was there.                                              *)
LEMMA WritesOn ==
    ASSUME FilesInv, NEW u \in Uploads, upload[u].phase \in {"upload", "writing", "saved"},
           NEW phase \in Later(upload[u].phase) \ {"stored"}, Files!Answer(u, phase),
           phase \in {"writing", "saved"} => upload[u].file.flaw = "none",
           DiskOK(disk'),
           \A p \in DOMAIN disk' :
               /\ ComesFrom(disk', p)
               /\ disk'[p].by # "server" =>
                      \/ disk'[p].by = u /\ (phase = "writing" => disk'[p].whole = TRUE)
                      \/ Written(disk'[p].by, disk'[p].whole),
           Onward => CataloguesKept(disk'), UNCHANGED <<retention, stored, sweeping>>
    PROVE  FilesInv'
  <1>1. /\ Onward
        /\ \A v \in Uploads : upload'[v] = Files!NoRequest \/ RequestOK(upload'[v])
        /\ upload'[u].phase = phase
        /\ \A v \in Uploads \ {u} : upload'[v] = upload[v]
    BY AnswerGoesOn DEF FilesInv
  <1>2. Known(disk)'
    <2> SUFFICES ASSUME NEW p \in DOMAIN disk', NEW by, NEW whole,
                        by = disk'[p].by, whole = disk'[p].whole, by # "server"
                 PROVE  Written(by, whole)'
      BY DEF Known, Written
    <2>1. by \in Uploads
      BY DEF DiskOK
    <2>2. CASE Written(by, whole)
      BY <1>1, <2>1, <2>2 DEF Onward
    <2>3. CASE ~Written(by, whole)
      <3>1. by = u /\ (phase = "writing" => whole = TRUE)
        BY <2>3
      <3>2. phase \in {"writing", "refused", "failed", "saved"}
        BY DEF Later
      <3> QED
        BY <1>1, <3>1, <3>2 DEF Written
    <2> QED
      BY <2>2, <2>3
  <1>3. \A v \in Uploads : upload'[v].phase = "stored" => upload[v].phase = "stored"
    BY <1>1
  <1> QED
    BY <1>1, <1>2, <1>3, NothingListed DEF FilesInv

LEMMA ReceiveKeeps ==
    ASSUME FilesInv, NEW u \in Uploads, NEW c \in Callers, NEW route \in {"upload", "draw"},
           NEW f \in SentFiles, Files!Receive(u, c, route, f)
    PROVE  FilesInv'
  <1> DEFINE r == [phase |-> route, caller |-> c, live |-> TRUE, file |-> f, dir |-> c,
                   entry |-> Files!NoPlace]
  <1>1. /\ upload[u] = Files!NoRequest
        /\ DOMAIN upload' = Uploads /\ upload'[u] = r
        /\ \A v \in Uploads \ {u} : upload'[v] = upload[v]
    BY DEF Files!Receive, FilesInv, FilesTypeOK
  <1>2. RequestOK(r)
    BY DEF Files!Receive, RequestOK, RequestFields
  <1>3. upload[u].phase = "idle" /\ upload'[u].phase # "stored"
    BY <1>1 DEF Files!NoRequest
  <1>4. Onward
    <2>1. ASSUME NEW v \in Uploads
          PROVE  /\ upload[v].phase = "stored" => upload'[v] = upload[v]
                 /\ \A whole : Written(v, whole) => Written(v, whole)'
                 /\ Files!TookTheCatalogue(v) =>
                        Files!TookTheCatalogue(v)' /\ upload'[v].caller = upload[v].caller
      <3>1. CASE v = u
        BY <1>1, <1>3, <3>1 DEF Written, Files!TookTheCatalogue
      <3>2. CASE v # u
        BY <1>1, <3>2 DEF Written, Files!TookTheCatalogue, Files!RawAt
      <3> QED
        BY <3>1, <3>2
    <2> QED
      BY <1>1, <2>1 DEF Onward
  <1> HIDE DEF r
  <1>5. \A v \in Uploads : /\ upload'[v] = Files!NoRequest \/ RequestOK(upload'[v])
                           /\ upload'[v].phase = "stored" => upload[v].phase = "stored"
    BY <1>1, <1>2, <1>3 DEF FilesInv, FilesTypeOK
  <1>6. UNCHANGED <<disk, retention, stored, sweeping>>
    BY DEF Files!Receive
  <1> QED
    BY <1>4, <1>5, <1>6, DiskStays DEF FilesInv

LEMMA TokenEndsKeeps ==
    ASSUME FilesInv, NEW u \in Uploads, Files!TokenEnds(u)
    PROVE  FilesInv'
  <1>1. upload[u].phase \in {"upload", "draw", "writing", "saved"}
    BY DEF Files!TokenEnds, Files!InFlight
  <1>2. RequestOK(upload[u]) /\ DOMAIN upload = Uploads
    BY <1>1 DEF FilesInv, FilesTypeOK, Files!NoRequest
  <1>3. /\ DOMAIN upload' = Uploads
        /\ \A v \in Uploads \ {u} : upload'[v] = upload[v]
        /\ upload'[u] = [upload[u] EXCEPT !.live = FALSE]
    BY <1>2 DEF Files!TokenEnds
  <1>4. /\ DOMAIN upload'[u] = RequestFields
        /\ upload'[u].phase = upload[u].phase /\ upload'[u].caller = upload[u].caller
        /\ upload'[u].dir = upload[u].dir /\ upload'[u].file = upload[u].file
    BY <1>2, <1>3 DEF RequestOK, RequestFields
  <1>5. upload'[u] # Files!NoRequest
    BY <1>1, <1>4 DEF Files!NoRequest
  <1>6. Onward
    <2>1. ASSUME NEW v \in Uploads
          PROVE  /\ upload[v].phase = "stored" => upload'[v] = upload[v]
                 /\ \A whole : Written(v, whole) => Written(v, whole)'
                 /\ Files!TookTheCatalogue(v) =>
                        Files!TookTheCatalogue(v)' /\ upload'[v].caller = upload[v].caller
      <3>1. CASE v = u
        BY <1>1, <1>4, <1>5, <3>1 DEF Written, Files!TookTheCatalogue, Files!RawAt
      <3>2. CASE v # u
        BY <1>3, <3>2 DEF Written, Files!TookTheCatalogue, Files!RawAt
      <3> QED
        BY <3>1, <3>2
    <2> QED
      BY <1>3, <2>1 DEF Onward
  <1>7. \A v \in Uploads : /\ upload'[v] = Files!NoRequest \/ RequestOK(upload'[v])
                           /\ upload'[v].phase = "stored" => upload[v].phase = "stored"
    <2>1. RequestOK(upload'[u])
      BY <1>2, <1>4 DEF RequestOK
    <2> QED
      BY <1>1, <1>3, <1>4, <2>1 DEF FilesInv, FilesTypeOK
  <1>8. UNCHANGED <<disk, retention, stored, sweeping>>
    BY DEF Files!TokenEnds
  <1> QED
    BY <1>6, <1>7, <1>8, DiskStays DEF FilesInv

LEMMA AnsweredOnTheSameDisk ==
    ASSUME FilesInv, NEW u \in Uploads,
           upload[u].phase \in {"upload", "draw", "writing", "saved"},
           NEW phase \in Later(upload[u].phase) \ {"stored"}, Files!Answer(u, phase),
           phase \in {"writing", "saved"} => upload[u].file.flaw = "none",
           UNCHANGED <<disk, retention, stored, sweeping>>
    PROVE  FilesInv'
  <1>1. /\ Onward
        /\ \A v \in Uploads : upload'[v] = Files!NoRequest \/ RequestOK(upload'[v])
        /\ upload'[u].phase = phase
        /\ \A v \in Uploads \ {u} : upload'[v] = upload[v]
    BY AnswerGoesOn DEF FilesInv
  <1>2. \A v \in Uploads : upload'[v].phase = "stored" => upload[v].phase = "stored"
    BY <1>1
  <1> QED
    BY <1>1, <1>2, DiskStays DEF FilesInv

LEMMA RefuseKeeps ==
    ASSUME FilesInv, NEW u \in Uploads, upload[u].phase \in {"upload", "draw"}, Files!Refuse(u)
    PROVE  FilesInv'
  <1>1. "refused" \in Later(upload[u].phase) \ {"stored"}
    BY DEF Later
  <1>2. Files!Answer(u, "refused") /\ UNCHANGED <<disk, retention, stored, sweeping>>
    BY DEF Files!Refuse
  <1> QED
    BY <1>1, <1>2, AnsweredOnTheSameDisk

LEMMA OpenKeeps ==
    ASSUME FilesInv, NEW u \in Uploads, Files!Open(u)
    PROVE  FilesInv'
  <1>1. /\ upload[u].phase = "upload" /\ upload[u].file.flaw = "none"
        /\ UNCHANGED <<retention, stored, sweeping>>
    BY DEF Files!Open
  <1>2. RequestOK(upload[u]) /\ upload[u].phase \in {"upload", "writing", "saved"}
    BY <1>1 DEF FilesInv, FilesTypeOK, Files!NoRequest
  <1>3. Later(upload[u].phase) = {"writing", "refused", "failed"}
    BY <1>1 DEF Later
  <1>4. CASE upload[u].dir \in made
    <2> DEFINE raw == Files!RawAt(u)
    <2>1. disk' = Files!With(disk, raw, Files!Layer(u)) /\ Files!Answer(u, "writing")
      BY <1>4 DEF Files!Open
    <2>2. /\ DOMAIN disk' = DOMAIN disk \cup {raw}
          /\ disk'[raw].by = u /\ disk'[raw].whole = TRUE
          /\ \A p \in DOMAIN disk \ {raw} : disk'[p] = disk[p]
      BY <2>1, LayerFieldsOf DEF Files!With
    <2>3. ~Written(u, TRUE)
      BY <1>1 DEF Written
    <2>4. raw[2] = "" /\ u # "server"
      BY SharedAssumption DEF Files!RawAt, Files!Place
    <2>5. DiskOK(disk')
      <3>1. \A p \in DOMAIN disk \ {raw} : Alike(disk[p], Files!Layer(u)) =>
                Files!Layer(u).by = "server"
        BY <2>3, <2>4, LayerFieldsOf DEF FilesInv, Known, Alike
      <3> QED
        BY <2>1, <2>4, <3>1, LayerFieldsOf, WithOK DEF FilesInv, FilesTypeOK
    <2>6. ASSUME NEW p \in DOMAIN disk'
          PROVE  /\ ComesFrom(disk', p)
                 /\ disk'[p].by # "server" => \/ disk'[p].by = u /\ disk'[p].whole = TRUE
                                              \/ Written(disk'[p].by, disk'[p].whole)
      <3>1. CASE p = raw
        BY <2>2, <2>3, <3>1 DEF ComesFrom
      <3>2. CASE p # raw
        BY <2>2, <3>2 DEF ComesFrom, Alike, FilesInv, Known
      <3> QED
        BY <3>1, <3>2
    <2>7. Onward => CataloguesKept(disk')
      <3> SUFFICES ASSUME NEW c \in Callers, Files!CatalogueAt(c) = raw
                   PROVE  Files!TookTheCatalogue(u)' /\ upload'[u].caller = c
        BY <2>2 DEF CataloguesKept
      <3>1. upload'[u] = [upload[u] EXCEPT !.phase = "writing"]
        BY <2>1 DEF Files!Answer, FilesInv, FilesTypeOK
      <3>2. /\ upload'[u].phase = "writing" /\ upload'[u].caller = upload[u].caller
            /\ upload'[u].dir = upload[u].dir /\ upload'[u].file = upload[u].file
        BY <1>2, <3>1 DEF RequestOK, RequestFields
      <3>3. upload'[u] # Files!NoRequest
        <4>1. Files!NoRequest.phase = "idle"
          BY DEF Files!NoRequest
        <4> QED
          BY <3>2, <4>1
      <3>4. c = upload[u].caller
        BY <1>2 DEF RequestOK, Files!RawAt, Files!CatalogueAt, Files!Place
      <3>5. Files!RawAt(u)' = raw
        BY <3>2 DEF Files!RawAt
      <3> QED
        BY <3>2, <3>3, <3>4, <3>5 DEF Files!TookTheCatalogue
    <2> QED
      BY <1>1, <1>2, <1>3, <2>1, <2>5, <2>6, <2>7, WritesOn
  <1>5. CASE upload[u].dir \notin made
    <2>1. Files!Answer(u, "failed") /\ UNCHANGED disk
      BY <1>5 DEF Files!Open
    <2> QED
      BY <1>1, <1>2, <1>3, <2>1, AnsweredOnTheSameDisk
  <1> QED
    BY <1>4, <1>5

(* What the last chunk leaves under the name is u's, and torn if another's *)
(* was there.                                                              *)
LEMMA OverwriteKeeps ==
    ASSUME FilesInv, NEW u \in Uploads, upload[u].phase = "writing",
           NEW whole \in BOOLEAN, NEW phase \in {"saved", "failed"},
           disk' = Files!Overwritten(u, whole), Files!Answer(u, phase),
           UNCHANGED <<retention, stored, sweeping>>
    PROVE  FilesInv'
  <1> DEFINE raw == Files!RawAt(u)
             own == whole /\ disk[raw].by = u
             layer == [Files!Layer(u) EXCEPT !.whole = own]
  <1>1. RequestOK(upload[u]) /\ phase \in Later(upload[u].phase) \ {"stored"}
    BY DEF FilesInv, FilesTypeOK, Files!NoRequest, Later
  <1>2. upload[u].file.flaw = "none"
    BY <1>1 DEF RequestOK
  <1>3. CASE raw \notin DOMAIN disk
    <2>1. disk' = disk
      BY <1>3 DEF Files!Overwritten
    <2> QED
      BY <1>1, <1>2, <2>1, AnsweredOnTheSameDisk
  <1>4. CASE raw \in DOMAIN disk
    <2>1. disk' = Files!With(disk, raw, layer)
      BY <1>4 DEF Files!Overwritten
    <2>2. DOMAIN layer = LayerFields /\ layer.by = u /\ layer.whole = own
      BY TornFieldsOf
    <2>3. own \in BOOLEAN
      OBVIOUS
    <2> HIDE DEF layer
    <2>4. /\ DOMAIN disk' = DOMAIN disk
          /\ disk'[raw] = layer
          /\ \A p \in DOMAIN disk \ {raw} : disk'[p] = disk[p]
      BY <1>4, <2>1 DEF Files!With
    <2>5. raw[2] = "" /\ u # "server"
      BY SharedAssumption DEF Files!RawAt, Files!Place
    <2>6. \/ Alike(layer, disk[raw])
          \/ layer.whole = FALSE
      <3>1. CASE own = TRUE
        <4>1. disk[raw].by = u
          BY <3>1
        <4>2. disk[raw].whole = TRUE
          BY <1>4, <2>5, <4>1 DEF FilesInv, Known, Written
        <4> QED
          BY <2>2, <3>1, <4>1, <4>2 DEF Alike
      <3>2. CASE own = FALSE
        BY <2>2, <3>2
      <3> QED
        BY <2>3, <3>1, <3>2
    <2> HIDE DEF own
    <2>7. ~Written(u, FALSE)
      BY DEF Written
    <2>8. \A p \in DOMAIN disk \ {raw} : Alike(disk[p], layer) => layer.by = "server"
      <3> SUFFICES ASSUME NEW p \in DOMAIN disk \ {raw}, Alike(disk[p], layer) PROVE FALSE
        OBVIOUS
      <3>1. disk[p].by = u /\ disk[p].whole = layer.whole
        BY <2>2 DEF Alike
      <3>2. CASE Alike(layer, disk[raw])
        BY <1>4, <2>5, <3>1, <3>2 DEF Alike, FilesInv, FilesTypeOK, DiskOK
      <3>3. CASE layer.whole = FALSE
        BY <2>5, <2>7, <3>1, <3>3 DEF FilesInv, Known
      <3> QED
        BY <2>6, <3>2, <3>3
    <2>9. DiskOK(disk')
      BY <2>1, <2>2, <2>5, <2>8, WithOK DEF FilesInv, FilesTypeOK
    <2>10. ASSUME NEW p \in DOMAIN disk'
           PROVE  /\ ComesFrom(disk', p)
                  /\ disk'[p].by # "server" =>
                         \/ disk'[p].by = u /\ (phase = "writing" => disk'[p].whole = TRUE)
                         \/ Written(disk'[p].by, disk'[p].whole)
      <3>1. CASE p = raw
        <4>1. ComesFrom(disk', p)
          BY <1>4, <2>2, <2>4, <2>6, <2>7, <3>1 DEF ComesFrom
        <4> QED
          BY <2>2, <2>4, <3>1, <4>1
      <3>2. CASE p # raw
        BY <2>4, <3>2 DEF ComesFrom, Alike, FilesInv, Known
      <3> QED
        BY <3>1, <3>2
    <2>11. Onward => CataloguesKept(disk')
      <3> SUFFICES ASSUME Onward, NEW c \in Callers, Files!CatalogueAt(c) = raw
                   PROVE  Files!TookTheCatalogue(u)' /\ upload'[u].caller = c
        BY <2>4 DEF CataloguesKept
      <3>1. c = upload[u].caller
        BY <1>1 DEF RequestOK, Files!RawAt, Files!CatalogueAt, Files!Place
      <3>2. Files!TookTheCatalogue(u)
        BY <3>1 DEF Files!TookTheCatalogue, Files!NoRequest
      <3> QED
        BY <3>1, <3>2 DEF Onward
    <2> QED
      BY <1>1, <1>2, <2>9, <2>10, <2>11, WritesOn
  <1> QED
    BY <1>3, <1>4

LEMMA ListKeeps ==
    ASSUME FilesInv, NEW u \in Uploads, Files!List(u)
    PROVE  FilesInv'
  <1>1. /\ upload[u].phase = "saved" /\ Files!There(u)
        /\ UNCHANGED <<retention, sweeping>>
    BY DEF Files!List
  <1>2. PICK data \in Files!Unpacked(u) :
            Files!Listing(u, data.disk,
                [name |-> data.at[3], at |-> data.at, by |-> data.disk[data.at].by,
                 whole |-> data.disk[data.at].whole])
    BY DEF Files!List
  <1>3. /\ DiskFrom(u, data.disk)
        /\ data.at \in DOMAIN data.disk
        /\ data.at[4] \notin {"zip", "csv"}
        /\ data.at = Files!RawAt(u) \/ data.at[4] = "gpkg"
    BY <1>1, UnpackedOK
  <1> DEFINE e == [name |-> data.at[3], at |-> data.at, by |-> data.disk[data.at].by,
                   whole |-> data.disk[data.at].whole]
  <1>4. /\ e.at = data.at /\ e.by = data.disk[data.at].by
        /\ Alike(data.disk[data.at], e)
    BY DEF Alike
  <1>5. Files!Listing(u, data.disk, e)
    BY <1>2
  <1> HIDE DEF e
  <1>6. ASSUME e.by = "server"
        PROVE  Files!RawAt(u) = Files!CatalogueAt(upload[u].caller)
    <2>1. data.at = Files!CatalogueAt(data.at[1])
      BY <1>3, <1>4, <1>6 DEF DiskFrom, DiskOK
    <2>2. \A x : Files!CatalogueAt(x)[4] = "json"
      BY DEF Files!CatalogueAt, Files!Place
    <2>3. data.at = Files!RawAt(u)
      BY <1>3, <2>1, <2>2
    <2>4. data.at[1] = upload[u].caller
      <3>1. RequestOK(upload[u])
        BY <1>1 DEF FilesInv, FilesTypeOK, Files!NoRequest
      <3>2. upload[u].dir = upload[u].caller
        BY <3>1 DEF RequestOK
      <3>3. Files!RawAt(u)[1] = upload[u].dir
        BY DEF Files!RawAt, Files!Place
      <3> QED
        BY <2>3, <3>2, <3>3
    <2> QED
      BY <2>1, <2>3, <2>4
  <1>7. PreparedDisk(u, data.disk, e)
    BY <1>3, <1>4, <1>6 DEF PreparedDisk
  <1> QED
    BY <1>1, <1>5, <1>7, ListingKeeps

LEMMA UnreadableKeeps ==
    ASSUME FilesInv, NEW u \in Uploads, Files!Unreadable(u)
    PROVE  FilesInv'
  <1>1. /\ upload[u].phase = "saved" /\ Files!Answer(u, "failed")
        /\ UNCHANGED <<retention, stored, sweeping>>
    BY DEF Files!Unreadable
  <1>2. "failed" \in Later(upload[u].phase) \ {"stored"} /\ RequestOK(upload[u])
    BY <1>1 DEF Later, FilesInv, FilesTypeOK, Files!NoRequest
  <1>3. CASE Files!There(u)
    <2>1. PICK data \in Files!Unpacked(u) : disk' = Files!Without(data.disk, {data.at})
      BY <1>3 DEF Files!Unreadable
    <2>2. DiskFrom(u, data.disk) /\ (data.at = Files!RawAt(u) \/ data.at[4] = "gpkg")
      BY <1>1, <1>3, UnpackedOK
    <2>3. DiskOK(disk')
      BY <2>1, <2>2, WithoutOK DEF DiskFrom
    <2>4. DOMAIN disk' = DOMAIN data.disk \ {data.at}
          /\ \A p \in DOMAIN disk' : disk'[p] = data.disk[p]
      BY <2>1 DEF Files!Without, Files!Restrict
    <2>5. \A p \in DOMAIN disk' :
              /\ ComesFrom(disk', p)
              /\ disk'[p].by # "server" => \/ disk'[p].by = u
                                           \/ Written(disk'[p].by, disk'[p].whole)
      BY <2>2, <2>4 DEF DiskFrom, ComesFrom
    <2>6. Onward => CataloguesKept(disk')
      <3> SUFFICES ASSUME Onward, NEW c \in Callers, Files!CatalogueAt(c) = data.at
                   PROVE  Files!TookTheCatalogue(u)' /\ upload'[u].caller = c
        BY <2>2, <2>4 DEF CataloguesKept, DiskFrom
      <3>0. Files!CatalogueAt(c)[4] = "json"
        BY DEF Files!CatalogueAt, Files!Place
      <3>1. Files!CatalogueAt(c) = Files!RawAt(u)
        BY <2>2, <3>0
      <3>2. c = upload[u].caller
        BY <1>2, <3>1 DEF RequestOK, Files!RawAt, Files!CatalogueAt, Files!Place
      <3>3. Files!TookTheCatalogue(u)
        BY <1>1, <3>1, <3>2 DEF Files!TookTheCatalogue, Files!NoRequest
      <3> QED
        BY <3>2, <3>3 DEF Onward
    <2> QED
      BY <1>1, <1>2, <2>3, <2>5, <2>6, WritesOn
  <1>4. CASE ~Files!There(u)
    <2>1. disk' = disk
      BY <1>4 DEF Files!Unreadable
    <2> QED
      BY <1>1, <1>2, <2>1, AnsweredOnTheSameDisk
  <1> QED
    BY <1>3, <1>4

LEMMA UnusableKeeps ==
    ASSUME FilesInv, NEW u \in Uploads, Files!Unusable(u)
    PROVE  FilesInv'
  <1> DEFINE raw == Files!RawAt(u)
  <1>1. /\ upload[u].phase = "saved" /\ Files!Answer(u, "failed")
        /\ upload[u].file.suffix \in {"zip", "csv"}
        /\ disk' = disk \/ disk' = Files!Without(disk, {raw})
        /\ UNCHANGED <<retention, stored, sweeping>>
    BY DEF Files!Unusable
  <1>2. "failed" \in Later(upload[u].phase) \ {"stored"}
    BY <1>1 DEF Later
  <1>3. CASE disk' = disk
    BY <1>1, <1>2, <1>3, AnsweredOnTheSameDisk
  <1>4. CASE disk' = Files!Without(disk, {raw})
    <2>1. \A c \in Callers : Files!CatalogueAt(c) \notin {raw}
      BY <1>1 DEF Files!CatalogueAt, Files!RawAt, Files!Place
    <2>2. DiskFrom(u, disk')
      BY <1>4, <2>1, Removed
    <2>3. Onward => CataloguesKept(disk')
      BY <2>2 DEF DiskFrom, CataloguesKept
    <2> QED
      BY <1>1, <1>2, <2>2, <2>3, WritesOn DEF DiskFrom
  <1> QED
    BY <1>1, <1>3, <1>4

LEMMA DrawKeeps ==
    ASSUME FilesInv, NEW u \in Uploads, Files!Draw(u)
    PROVE  FilesInv'
  <1> DEFINE at == Files!Place(Files!Dir(u), "", upload[u].file.stem, "gpkg")
             e == [name |-> upload[u].file.stem, at |-> at, by |-> u, whole |-> TRUE]
             d == Files!With(disk, at, Files!Layer(u))
  <1>1. /\ upload[u].phase = "draw" /\ Files!Listing(u, d, e)
        /\ UNCHANGED <<retention, sweeping>>
    BY DEF Files!Draw
  <1>2. /\ at[2] = "" /\ at[4] = "gpkg" /\ u # "server"
        /\ \A c : Files!CatalogueAt(c) # at
    BY SharedAssumption DEF Files!Place, Files!CatalogueAt
  <1>3. ~Written(u, TRUE)
    BY <1>1 DEF Written
  <1>4. e.at = at /\ e.by = u /\ e.whole = TRUE
    OBVIOUS
  <1> HIDE DEF at, e
  <1>5. /\ DOMAIN d = DOMAIN disk \cup {at}
        /\ d[at].by = u /\ d[at].whole = TRUE
        /\ \A p \in DOMAIN disk \ {at} : d[p] = disk[p]
    BY LayerFieldsOf DEF Files!With
  <1>6. DiskOK(d)
    <2>1. \A p \in DOMAIN disk \ {at} : Alike(disk[p], Files!Layer(u)) =>
              Files!Layer(u).by = "server"
      BY <1>2, <1>3, LayerFieldsOf DEF FilesInv, Known, Alike
    <2> QED
      BY <1>2, <2>1, LayerFieldsOf, WithOK DEF FilesInv, FilesTypeOK
  <1> HIDE DEF d
  <1>7. ASSUME NEW p \in DOMAIN d
        PROVE  /\ ComesFrom(d, p)
               /\ d[p].by # "server" => d[p].by = u \/ Written(d[p].by, d[p].whole)
    <2>1. CASE p = at
      BY <1>3, <1>5, <2>1 DEF ComesFrom
    <2>2. CASE p # at
      BY <1>5, <2>2 DEF ComesFrom, Alike, FilesInv, Known
    <2> QED
      BY <2>1, <2>2
  <1>8. DiskFrom(u, d)
    BY <1>2, <1>5, <1>6, <1>7 DEF DiskFrom
  <1>9. PreparedDisk(u, d, e)
    BY <1>2, <1>4, <1>5, <1>8 DEF PreparedDisk, Alike
  <1> QED
    BY <1>1, <1>9, ListingKeeps

(* Days pass, or the sweep looks at a file, or removes it: only where a    *)
(* retention is set.                                                       *)
LEMMA SweepKeeps ==
    ASSUME FilesInv,
           \/ Files!Age \/ \E p \in DOMAIN disk : Files!LookAtAge(p)
           \/ Files!RemoveSwept \/ \E dir \in made : Files!RemoveIfEmpty(dir)
    PROVE  FilesInv'
  <1>1. UNCHANGED <<retention, upload, stored>>
    BY DEF Files!Age, Files!LookAtAge, Files!RemoveSwept, Files!RemoveIfEmpty
  <1>2. Onward /\ \A u \in Uploads : upload'[u] = Files!NoRequest \/ RequestOK(upload'[u])
    <2>1. \A u \in Uploads : Files!TookTheCatalogue(u)' = Files!TookTheCatalogue(u)
      BY <1>1 DEF Files!TookTheCatalogue, Files!RawAt
    <2>2. \A u, whole : Written(u, whole)' = Written(u, whole)
      BY <1>1 DEF Written
    <2> QED
      BY <1>1, <2>1, <2>2 DEF Onward, FilesInv, FilesTypeOK
  <1>3. DiskOK(disk)
    BY DEF FilesInv, FilesTypeOK
  <1>4. CASE Files!Age
    <2>1. /\ DOMAIN disk' = DOMAIN disk
          /\ \A p \in DOMAIN disk : disk'[p] = [disk[p] EXCEPT !.old = TRUE]
          /\ UNCHANGED sweeping
      BY <1>4 DEF Files!Age
    <2>2. \A p \in DOMAIN disk : /\ DOMAIN disk'[p] = LayerFields
                                 /\ disk'[p].by = disk[p].by /\ disk'[p].whole = disk[p].whole
                                 /\ disk'[p].entries = disk[p].entries
      BY <1>3, <2>1 DEF DiskOK, LayerFields
    <2>3. DiskOK(disk')
      BY <1>3, <2>1, <2>2 DEF DiskOK, Alike
    <2>4. \A p \in DOMAIN disk' : ComesFrom(disk', p)
      BY <2>1, <2>2 DEF ComesFrom, Alike
    <2>5. Known(disk)'
      BY <1>1, <2>1, <2>2 DEF FilesInv, Known, Written
    <2>6. CataloguesKept(disk')
      BY <2>1, <2>2 DEF CataloguesKept
    <2> QED
      BY <1>1, <1>2, <2>1, <2>3, <2>4, <2>5, <2>6, NothingListed DEF FilesInv
  <1>5. CASE (\E p \in DOMAIN disk : Files!LookAtAge(p)) \/ \E dir \in made : Files!RemoveIfEmpty(dir)
    <2>1. disk' = disk /\ retention
      BY <1>5 DEF Files!LookAtAge, Files!RemoveIfEmpty
    <2> QED
      BY <1>1, <1>2, <2>1, DiskStays
  <1>6. CASE Files!RemoveSwept
    <2>1. retention /\ disk' = Files!Without(disk, {sweeping})
      BY <1>6 DEF Files!RemoveSwept, FilesInv
    <2>2. /\ DOMAIN disk' = DOMAIN disk \ {sweeping}
          /\ \A p \in DOMAIN disk' : disk'[p] = disk[p]
      BY <2>1 DEF Files!Without, Files!Restrict
    <2>3. DiskOK(disk')
      BY <1>3, <2>1, WithoutOK
    <2>4. \A p \in DOMAIN disk' : ComesFrom(disk', p)
      BY <2>2 DEF ComesFrom, Alike
    <2>5. Known(disk)'
      BY <1>1, <2>2 DEF FilesInv, Known, Written
    <2> QED
      BY <1>1, <1>2, <2>1, <2>3, <2>4, <2>5, NothingListed
  <1> QED
    BY <1>4, <1>5, <1>6

LEMMA FilesInitially ==
    ASSUME Files!Init
    PROVE  FilesInv
  <1>1. DOMAIN disk = {} /\ DOMAIN upload = Uploads /\ stored = <<>>
        /\ sweeping = Files!NoPlace
    BY DEF Files!Init
  <1>2. \A u \in Uploads : upload[u] = Files!NoRequest /\ upload[u].phase = "idle"
    BY DEF Files!Init, Files!NoRequest
  <1>3. FilesTypeOK
    BY <1>1, <1>2 DEF FilesTypeOK, DiskOK
  <1>4. Known(disk) /\ ListedOrTaken
    BY <1>1 DEF Known, ListedOrTaken, Files!Current
  <1> QED
    BY <1>1, <1>2, <1>3, <1>4 DEF FilesInv

LEMMA FilesInvariance ==
    ASSUME FilesInv, [Files!Next]_fileVars
    PROVE  FilesInv'
  <1>1. ASSUME NEW u \in Uploads, NEW c \in Callers, NEW route \in {"upload", "draw"},
               NEW f \in SentFiles, Files!Receive(u, c, route, f)
        PROVE  FilesInv'
    BY <1>1, ReceiveKeeps
  <1>2. ASSUME NEW u \in Uploads,
               \/ Files!TokenEnds(u) \/ Files!RefuseName(u) \/ Files!RefuseSize(u)
               \/ Files!RefuseBudget(u) \/ Files!Open(u) \/ Files!Save(u)
               \/ Files!SaveFails(u) \/ Files!List(u) \/ Files!Unreadable(u)
               \/ Files!Unusable(u) \/ Files!Draw(u)
        PROVE  FilesInv'
    <2>1. CASE Files!TokenEnds(u)
      BY <2>1, TokenEndsKeeps
    <2>2. CASE Files!RefuseName(u) \/ Files!RefuseSize(u) \/ Files!RefuseBudget(u)
      <3>1. upload[u].phase \in {"upload", "draw"} /\ Files!Refuse(u)
        BY <2>2 DEF Files!RefuseName, Files!RefuseSize, Files!RefuseBudget
      <3> QED
        BY <3>1, RefuseKeeps
    <2>3. CASE Files!Open(u)
      BY <2>3, OpenKeeps
    <2>4. CASE Files!Save(u)
      BY <2>4, OverwriteKeeps DEF Files!Save
    <2>5. CASE Files!SaveFails(u)
      BY <2>5, OverwriteKeeps DEF Files!SaveFails
    <2>6. CASE Files!List(u)
      BY <2>6, ListKeeps
    <2>7. CASE Files!Unreadable(u)
      BY <2>7, UnreadableKeeps
    <2>8. CASE Files!Unusable(u)
      BY <2>8, UnusableKeeps
    <2>9. CASE Files!Draw(u)
      BY <2>9, DrawKeeps
    <2> QED
      BY <1>2, <2>1, <2>2, <2>3, <2>4, <2>5, <2>6, <2>7, <2>8, <2>9
  <1>3. CASE \/ Files!Age \/ \E p \in DOMAIN disk : Files!LookAtAge(p)
             \/ Files!RemoveSwept \/ \E dir \in made : Files!RemoveIfEmpty(dir)
    BY <1>3, SweepKeeps
  <1>4. CASE UNCHANGED fileVars
    <2>1. UNCHANGED <<retention, disk, made, upload, stored, sweeping>>
      BY <1>4 DEF fileVars
    <2>2. \A u \in Uploads : Files!TookTheCatalogue(u)' = Files!TookTheCatalogue(u)
      BY <2>1 DEF Files!TookTheCatalogue, Files!RawAt
    <2>3. \A u, whole : Written(u, whole)' = Written(u, whole)
      BY <2>1 DEF Written
    <2>4. Onward
      BY <2>1, <2>2, <2>3 DEF Onward, FilesInv, FilesTypeOK
    <2> QED
      BY <2>1, <2>4, DiskStays DEF FilesInv, FilesTypeOK
  <1>5. CASE Files!Next
    BY <1>1, <1>2, <1>3, <1>5 DEF Files!Next
  <1> QED
    BY <1>4, <1>5

(* What a bearer that lasted stored is listed, unless a retention is set   *)
(* or a file called catalogue.json was uploaded.                           *)
LEMMA FilesPromised ==
    ASSUME FilesInv
    PROVE  Files!StoredIsListed
  BY DEF FilesInv, ListedOrTaken, Files!StoredIsListed, Files!ListedWhileThere,
         Files!NoneTookTheCatalogue

-----------------------------------------------------------------------------
(* EvalSweep: where a sweep is, what it has asked sibyl for and what it    *)
(* has read of the turn it is in.  A session that the sweep made is listed *)
(* once, in the order of their numbers, or is the one just created.        *)

SweepPlaces ==
    {"start", "skipped", "checked", "pinned", "next", "created", "post", "reading",
     "captured", "restore", "delete", "over", "killed"}

BeforeRuns == {"start", "skipped", "checked", "pinned"}

SweepTyped ==
    /\ pc \in SweepPlaces
    /\ switches \in Nat
    /\ run \in Nat
    /\ evalSessions \in Seq(Nat)
    /\ viewer \in BOOLEAN
    /\ refused \in BOOLEAN

Pinned ==
    /\ pinned = reported
    /\ pc \in BeforeRuns => measured = {}
    /\ Sweep!OneProfileMeasured

Listed == {evalSessions[i] : i \in 1 .. Len(evalSessions)}

SessionsListed ==
    /\ pc = "created" => run > 0
    /\ pc = "over" => evalSessions = <<>>
    /\ \A i \in 1 .. Len(evalSessions) :
           /\ evalSessions[i] \in 1 .. run
           /\ pc = "created" => evalSessions[i] < run
    /\ \A i, j \in 1 .. Len(evalSessions) : i < j => evalSessions[i] < evalSessions[j]
    /\ ~refused /\ pc # "killed" =>
           sessions = Chats \cup Listed \cup (IF pc = "created" THEN {run} ELSE {})

UserKept ==
    /\ pc \in BeforeRuns => active \in Chats /\ ~refused
    /\ pc \notin BeforeRuns \cup {"killed"} /\ ~refused => user = found
    /\ pc \notin BeforeRuns \cup {"killed"} => found \in Chats
    /\ pc \in {"delete", "over"} /\ ~refused /\ switches = 0 => active = found

StackInv == SweepTyped /\ Pinned /\ SessionsListed /\ UserKept

LEMMA StackInitially == Sweep!Init => StackInv
  <1> SUFFICES ASSUME Sweep!Init PROVE StackInv
    OBVIOUS
  <1>1. /\ pc = "start" /\ run = 0 /\ switches = 0 /\ evalSessions = <<>>
        /\ viewer \in BOOLEAN /\ refused = FALSE /\ sessions = Chats /\ active \in Chats
        /\ pinned = reported /\ measured = {}
    BY DEF Sweep!Init
  <1>2. Len(evalSessions) = 0 /\ evalSessions \in Seq(Nat) /\ Listed = {}
    BY <1>1 DEF Listed
  <1>3. SweepTyped /\ Pinned /\ UserKept
    BY <1>1, <1>2 DEF SweepTyped, SweepPlaces, BeforeRuns, Pinned,
                      Sweep!OneProfileMeasured, UserKept
  <1>4. SessionsListed
    BY <1>1, <1>2 DEF SessionsListed
  <1> QED
    BY <1>3, <1>4 DEF StackInv

LEMMA TypedSweep ==
    ASSUME StackInv, Sweep!Next
    PROVE  SweepTyped'
  <1> USE DEF StackInv, SweepTyped, SweepPlaces
  <1>1. CASE Sweep!Switch \/ Sweep!CheckStack \/ Sweep!PinActiveProfile
    BY <1>1 DEF Sweep!Switch, Sweep!CheckStack, Sweep!PinActiveProfile, Sweep!stack,
                Sweep!reading, Sweep!Settings
  <1>2. CASE Sweep!AskActiveSession
    BY <1>2 DEF Sweep!AskActiveSession, Sweep!stack, Sweep!reading
  <1>3. CASE Sweep!CreateSession
    <2>1. refused' \in BOOLEAN
      BY <1>3 DEF Sweep!CreateSession, Sweep!Raises
    <2>2. run' \in Nat
      BY <1>3 DEF Sweep!CreateSession, Sweep!Raises
    <2>3. /\ pc' \in {"created", "restore"}
          /\ switches' = switches /\ evalSessions' = evalSessions /\ viewer' = viewer
      BY <1>3 DEF Sweep!CreateSession, Sweep!Raises, Sweep!Finally, Sweep!Sweep
    <2> QED
      BY <2>1, <2>2, <2>3
  <1>9. CASE Sweep!PostRun \/ Sweep!RunRefused
    BY <1>9 DEF Sweep!PostRun, Sweep!RunRefused, Sweep!Raises,
                Sweep!Finally, Sweep!stack, Sweep!reading, Sweep!Sweep
  <1>4. CASE Sweep!ActivateSession
    <2>1. evalSessions' \in Seq(Nat)
      BY <1>4 DEF Sweep!ActivateSession, Sweep!Raises
    <2> QED
      BY <1>4, <2>1 DEF Sweep!ActivateSession, Sweep!Raises, Sweep!Finally, Sweep!reading,
                        Sweep!Sweep
  <1>5. CASE Sweep!ToolCall \/ Sweep!ToolReturn
    BY <1>5 DEF Sweep!ToolCall, Sweep!ToolReturn, Sweep!Keeps, Sweep!stack, Sweep!Sweep
  <1>6. CASE Sweep!EndOfStream \/ Sweep!FollowUp \/ Sweep!Score \/ Sweep!AllRun
    BY <1>6 DEF Sweep!EndOfStream, Sweep!FollowUp, Sweep!Score, Sweep!AllRun, Sweep!stack,
                Sweep!reading, Sweep!Sweep
  <1>7. CASE Sweep!Restore \/ Sweep!Kill
    BY <1>7 DEF Sweep!Restore, Sweep!Kill, Sweep!stack, Sweep!reading, Sweep!Sweep
  <1>8. CASE Sweep!Delete
    <2>1. evalSessions' \in Seq(Nat)
      BY <1>8, HeadTailProperties DEF Sweep!Delete
    <2> QED
      BY <1>8, <2>1 DEF Sweep!Delete, Sweep!reading, Sweep!Sweep
  <1> QED
    BY <1>1, <1>2, <1>3, <1>4, <1>5, <1>6, <1>7, <1>8, <1>9 DEF Sweep!Next

LEMMA PinnedSweep ==
    ASSUME StackInv, Sweep!Next
    PROVE  Pinned'
  <1> USE DEF StackInv, SweepTyped, Pinned, BeforeRuns, Sweep!OneProfileMeasured
  <1>1. CASE Sweep!Switch \/ Sweep!CheckStack \/ Sweep!PinActiveProfile
    BY <1>1 DEF Sweep!Switch, Sweep!CheckStack, Sweep!PinActiveProfile, Sweep!stack,
                Sweep!reading, Sweep!Settings
  <1>2. CASE Sweep!AskActiveSession
    BY <1>2 DEF Sweep!AskActiveSession, Sweep!stack, Sweep!reading
  <1>3. CASE Sweep!CreateSession \/ Sweep!PostRun \/ Sweep!RunRefused
    BY <1>3 DEF Sweep!CreateSession, Sweep!PostRun, Sweep!RunRefused, Sweep!Raises,
                Sweep!Finally, Sweep!stack, Sweep!reading, Sweep!Sweep
  <1>4. CASE Sweep!ActivateSession
    BY <1>4 DEF Sweep!ActivateSession, Sweep!Raises, Sweep!Finally, Sweep!reading,
                Sweep!Sweep
  <1>5. CASE Sweep!ToolCall \/ Sweep!ToolReturn
    BY <1>5 DEF Sweep!ToolCall, Sweep!ToolReturn, Sweep!Keeps, Sweep!stack, Sweep!Sweep
  <1>6. CASE Sweep!EndOfStream \/ Sweep!FollowUp \/ Sweep!Score \/ Sweep!AllRun
    BY <1>6 DEF Sweep!EndOfStream, Sweep!FollowUp, Sweep!Score, Sweep!AllRun, Sweep!stack,
                Sweep!reading, Sweep!Sweep
  <1>7. CASE Sweep!Restore \/ Sweep!Delete \/ Sweep!Kill
    BY <1>7 DEF Sweep!Restore, Sweep!Delete, Sweep!Kill, Sweep!stack, Sweep!reading,
                Sweep!Sweep
  <1> QED
    BY <1>1, <1>2, <1>3, <1>4, <1>5, <1>6, <1>7 DEF Sweep!Next

LEMMA UserSweep ==
    ASSUME StackInv, Sweep!Next
    PROVE  UserKept'
  <1> USE DEF StackInv, SweepTyped, UserKept, BeforeRuns
  <1>1. CASE Sweep!Switch \/ Sweep!CheckStack \/ Sweep!PinActiveProfile
    BY <1>1 DEF Sweep!Switch, Sweep!CheckStack, Sweep!PinActiveProfile, Sweep!stack,
                Sweep!reading, Sweep!Settings
  <1>2. CASE Sweep!AskActiveSession
    BY <1>2 DEF Sweep!AskActiveSession, Sweep!stack, Sweep!reading
  <1>3. CASE Sweep!CreateSession \/ Sweep!PostRun \/ Sweep!RunRefused
    BY <1>3 DEF Sweep!CreateSession, Sweep!PostRun, Sweep!RunRefused, Sweep!Raises,
                Sweep!Finally, Sweep!stack, Sweep!reading, Sweep!Sweep
  <1>4. CASE Sweep!ActivateSession
    BY <1>4 DEF Sweep!ActivateSession, Sweep!Raises, Sweep!Finally, Sweep!reading,
                Sweep!Sweep
  <1>5. CASE Sweep!ToolCall \/ Sweep!ToolReturn
    BY <1>5 DEF Sweep!ToolCall, Sweep!ToolReturn, Sweep!Keeps, Sweep!stack, Sweep!Sweep
  <1>6. CASE Sweep!EndOfStream \/ Sweep!FollowUp \/ Sweep!Score \/ Sweep!AllRun
    BY <1>6 DEF Sweep!EndOfStream, Sweep!FollowUp, Sweep!Score, Sweep!AllRun, Sweep!stack,
                Sweep!reading, Sweep!Sweep
  <1>7. CASE Sweep!Restore
    <2>1. found # Sweep!NoSession
      BY <1>7, SharedAssumption DEF Sweep!Restore, Sweep!NoSession
    <2> QED
      BY <1>7, <2>1 DEF Sweep!Restore, Sweep!reading, Sweep!Sweep
  <1>8. CASE Sweep!Delete \/ Sweep!Kill
    BY <1>8 DEF Sweep!Delete, Sweep!Kill, Sweep!stack, Sweep!reading, Sweep!Sweep
  <1> QED
    BY <1>1, <1>2, <1>3, <1>4, <1>5, <1>6, <1>7, <1>8 DEF Sweep!Next

(* The sessions as they are, and not in between a request and the list.    *)
LEMMA ListedKept ==
    ASSUME StackInv, evalSessions' = evalSessions, run' = run, pc' # "created",
           pc' = "over" => evalSessions = <<>>,
           ~refused' => ~refused /\ sessions' = sessions /\ pc \notin {"created", "killed"}
    PROVE  SessionsListed'
  BY DEF StackInv, SweepTyped, SessionsListed, Listed

LEMMA SessionsSweep ==
    ASSUME StackInv, Sweep!Next
    PROVE  SessionsListed'
  <1> USE DEF StackInv, SweepTyped
  <1>1. CASE Sweep!Switch
    BY <1>1 DEF Sweep!Switch, SessionsListed, Listed
  <1>2. CASE Sweep!CheckStack \/ Sweep!PinActiveProfile \/ Sweep!AskActiveSession
    BY <1>2, ListedKept
       DEF Sweep!CheckStack, Sweep!PinActiveProfile, Sweep!AskActiveSession, Sweep!stack,
           Sweep!Settings, UserKept, BeforeRuns
  <1>3. CASE Sweep!CreateSession
    <2>1. CASE /\ sessions' = sessions \cup {run + 1}
               /\ run' = run + 1 /\ pc' = "created" /\ pc = "next"
               /\ UNCHANGED <<evalSessions, refused>>
      BY <2>1 DEF SessionsListed, Listed
    <2>2. CASE /\ sessions' \in {sessions, sessions \cup {run + 1}}
               /\ refused' = (refused \/ sessions' # sessions)
               /\ pc = "next" /\ pc' = "restore" /\ UNCHANGED <<evalSessions, run>>
      BY <2>2, ListedKept
    <2> QED
      BY <1>3, <2>1, <2>2 DEF Sweep!CreateSession, Sweep!Raises, Sweep!Finally
  <1>4. CASE Sweep!ActivateSession
    <2>1. CASE /\ evalSessions' = Append(evalSessions, run) /\ pc = "created"
               /\ pc' = "post" /\ UNCHANGED <<sessions, run, refused>>
      <3>1. /\ Len(evalSessions') = Len(evalSessions) + 1
            /\ \A i \in 1 .. Len(evalSessions) : evalSessions'[i] = evalSessions[i]
            /\ evalSessions'[Len(evalSessions) + 1] = run
        BY <2>1, AppendProperties
      <3>2. Len(evalSessions) \in Nat
        OBVIOUS
      <3>3. Listed' = Listed \cup {run}
        BY <3>1, <3>2 DEF Listed
      <3>4. ~refused' => sessions' = Chats \cup Listed'
        BY <2>1, <3>3 DEF SessionsListed
      <3>5. run > 0
        BY <2>1 DEF SessionsListed
      <3>6. \A i \in 1 .. Len(evalSessions') : evalSessions'[i] \in 1 .. run
        BY <2>1, <3>1, <3>2, <3>5 DEF SessionsListed
      <3>7. \A i, j \in 1 .. Len(evalSessions') :
                i < j => evalSessions'[i] < evalSessions'[j]
        BY <2>1, <3>1, <3>2 DEF SessionsListed
      <3> QED
        BY <2>1, <3>4, <3>6, <3>7 DEF SessionsListed
    <2>2. CASE /\ refused' = TRUE
               /\ pc' = "restore" /\ UNCHANGED <<evalSessions, run>>
      BY <2>2, ListedKept
    <2> QED
      BY <1>4, <2>1, <2>2 DEF Sweep!ActivateSession, Sweep!Raises, Sweep!Finally
  <1>5. CASE Sweep!PostRun \/ Sweep!RunRefused
    BY <1>5, ListedKept DEF Sweep!PostRun, Sweep!RunRefused, Sweep!Raises, Sweep!Finally,
                            Sweep!stack
  <1>6. CASE Sweep!ToolCall \/ Sweep!ToolReturn
    BY <1>6, ListedKept DEF Sweep!ToolCall, Sweep!ToolReturn, Sweep!Keeps, Sweep!stack
  <1>7. CASE Sweep!EndOfStream \/ Sweep!FollowUp \/ Sweep!Score \/ Sweep!AllRun
    BY <1>7, ListedKept DEF Sweep!EndOfStream, Sweep!FollowUp, Sweep!Score, Sweep!AllRun,
                            Sweep!stack
  <1>8. CASE Sweep!Restore
    BY <1>8, ListedKept DEF Sweep!Restore
  <1>9. CASE Sweep!Delete
    <2>1. CASE evalSessions = <<>>
      BY <1>9, <2>1, ListedKept DEF Sweep!Delete, Sweep!Sweep
    <2>2. CASE evalSessions # <<>>
      <3>0. evalSessions' = Tail(evalSessions) /\ Len(evalSessions) \in Nat \ {0}
        BY <1>9, <2>2, EmptySeq DEF Sweep!Delete
      <3>1. /\ Len(evalSessions) \in Nat \ {0}
            /\ Len(evalSessions') = Len(evalSessions) - 1
            /\ \A i \in 1 .. Len(evalSessions') : evalSessions'[i] = evalSessions[i + 1]
            /\ Head(evalSessions) = evalSessions[1]
        BY <2>2, <3>0, HeadTailProperties
      <3>2. pc = "delete" /\ pc' = "delete" /\ run' = run /\ (~refused' =>
                ~refused /\ sessions' = sessions \ {evalSessions[1]})
        BY <1>9, <2>2, <3>1 DEF Sweep!Delete
      <3>3. evalSessions[1] \in Nat
        BY <3>1
      <3>4. Listed' = Listed \ {evalSessions[1]}
        <4>1. \A i \in 1 .. Len(evalSessions) : i # 1 => evalSessions[i] # evalSessions[1]
          <5>1. \A i \in 1 .. Len(evalSessions) : i # 1 => evalSessions[1] < evalSessions[i]
            BY <3>1 DEF SessionsListed
          <5>2. \A i \in 1 .. Len(evalSessions) : evalSessions[i] \in Nat
            BY ElementOfSeq
          <5> QED BY <3>3, <5>1, <5>2
        <4>2. \A i \in 1 .. Len(evalSessions) : i # 1 =>
                  i - 1 \in 1 .. Len(evalSessions') /\ evalSessions'[i - 1] = evalSessions[i]
          BY <3>1
        <4>3. \A i \in 1 .. Len(evalSessions') :
                  i + 1 \in 1 .. Len(evalSessions) /\ evalSessions'[i] = evalSessions[i + 1]
          BY <3>1
        <4>4. ASSUME NEW x \in Listed, x # evalSessions[1]
              PROVE  x \in Listed'
          <5>1. PICK i \in 1 .. Len(evalSessions) : evalSessions[i] = x
            BY DEF Listed
          <5>2. i # 1
            BY <4>4, <5>1
          <5>3. i - 1 \in 1 .. Len(evalSessions') /\ evalSessions'[i - 1] = x
            BY <4>2, <5>1, <5>2
          <5> QED
            BY <5>3 DEF Listed
        <4>5. \A x \in Listed' : x \in Listed /\ x # evalSessions[1]
          BY <3>1, <4>1, <4>3 DEF Listed
        <4> QED
          BY <4>4, <4>5
      <3>5. ~refused' => sessions' = Chats \cup Listed'
        BY <3>2, <3>3, <3>4, SharedAssumption DEF SessionsListed
      <3>6. \A i \in 1 .. Len(evalSessions') :
                i + 1 \in 1 .. Len(evalSessions) /\ evalSessions'[i] = evalSessions[i + 1]
        BY <3>1
      <3>7. \A i, j \in 1 .. Len(evalSessions') :
                i < j => evalSessions'[i] < evalSessions'[j]
        <4> SUFFICES ASSUME NEW i \in 1 .. Len(evalSessions'),
                            NEW j \in 1 .. Len(evalSessions'), i < j
                     PROVE  evalSessions[i + 1] < evalSessions[j + 1]
          BY <3>6
        <4>1. i + 1 < j + 1
          BY <3>1
        <4> QED
          BY <3>6, <4>1 DEF SessionsListed
      <3> QED
        BY <3>2, <3>5, <3>6, <3>7 DEF SessionsListed
    <2> QED BY <2>1, <2>2
  <1>10. CASE Sweep!Kill
    BY <1>10 DEF Sweep!Kill, Sweep!stack, Sweep!Sweep, SessionsListed, Listed
  <1> QED
    BY <1>1, <1>2, <1>3, <1>4, <1>5, <1>6, <1>7, <1>8, <1>9, <1>10 DEF Sweep!Next

LEMMA StackInvariance == StackInv /\ [Sweep!Next]_sweepVars => StackInv'
  <1>1. ASSUME StackInv, UNCHANGED sweepVars PROVE StackInv'
    BY <1>1 DEF sweepVars, StackInv, SweepTyped, Pinned, Sweep!OneProfileMeasured,
                SessionsListed, Listed, UserKept
  <1>2. ASSUME StackInv, Sweep!Next PROVE StackInv'
    BY <1>2, TypedSweep, PinnedSweep, SessionsSweep, UserSweep DEF StackInv
  <1> QED
    BY <1>1, <1>2

LEMMA OneProfilePromised == StackInv => Sweep!OneProfileMeasured
  BY DEF StackInv, Pinned

LEMMA SibylPromised == StackInv => Sweep!SibylLeftAsFound
  <1> SUFFICES ASSUME StackInv, pc = "over", ~refused
               PROVE  sessions = Chats /\ (switches = 0 => active = found)
    BY DEF Sweep!SibylLeftAsFound
  <1>1. evalSessions = <<>>
    BY DEF StackInv, SessionsListed
  <1>2. Listed = {}
    BY <1>1 DEF Listed
  <1> QED
    BY <1>2 DEF StackInv, SessionsListed, UserKept

-----------------------------------------------------------------------------
(* The turn that is being read: while every call of it could be read, the  *)
(* queue of each tool holds the calls of that tool that have not come      *)
(* back, oldest first, and the last manifest that was accepted is of the   *)
(* last call that came back without an error.                              *)

PlanningCall ==
    [tool : Sweep!PlanningTools, readable : BOOLEAN, returned : Nat, ok : BOOLEAN]

TurnTyped ==
    /\ calls \in Seq(PlanningCall)
    /\ pending \in [Sweep!PlanningTools -> Seq(Nat)]
    /\ accepted \in Seq(Nat)

NothingRead == calls = <<>> /\ pending = Sweep!NonePending /\ accepted = <<>>

Waiting(t) == {i \in 1 .. Len(calls) : calls[i].tool = t /\ calls[i].returned = 0}

QueuesRight ==
    \A t \in Sweep!PlanningTools :
        /\ \A k \in 1 .. Len(pending[t]) : pending[t][k] \in Waiting(t)
        /\ \A i \in Waiting(t) : \E k \in 1 .. Len(pending[t]) : pending[t][k] = i
        /\ \A j, k \in 1 .. Len(pending[t]) : j < k => pending[t][j] < pending[t][k]

LastAccepted == accepted[Len(accepted)]

AnswerRight ==
    /\ \A i \in 1 .. Len(calls) :
           /\ calls[i].returned <= Sweep!Returned
           /\ calls[i].ok => /\ calls[i].returned > 0
                             /\ accepted # <<>>
                             /\ calls[i].returned <= calls[LastAccepted].returned
    /\ accepted # <<>> =>
           LastAccepted \in 1 .. Len(calls) /\ calls[LastAccepted].ok

AllReadable == \A i \in 1 .. Len(calls) : calls[i].readable

TurnInv ==
    /\ TurnTyped
    /\ pc \in BeforeRuns \cup {"next", "created", "post"} \/ viewer => NothingRead
    /\ pc = "reading" /\ AllReadable => QueuesRight /\ AnswerRight
    /\ Sweep!AnswerWasAccepted

LEMMA EmptyTurn ==
    ASSUME NothingRead
    PROVE  TurnTyped /\ QueuesRight /\ AnswerRight /\ Sweep!AnswerWasAccepted
  <1>1. calls = <<>> /\ accepted = <<>> /\ Len(calls) = 0 /\ DOMAIN calls = {}
    BY DEF NothingRead
  <1>2. /\ pending \in [Sweep!PlanningTools -> Seq(Nat)]
        /\ \A t \in Sweep!PlanningTools : Len(pending[t]) = 0
    BY DEF NothingRead, Sweep!NonePending
  <1>3. QueuesRight
    BY <1>1, <1>2 DEF QueuesRight, Waiting
  <1>4. AnswerRight
    BY <1>1 DEF AnswerRight
  <1>5. Sweep!AnswerWasAccepted
    BY <1>1 DEF Sweep!AnswerWasAccepted
  <1> QED
    BY <1>1, <1>2, <1>3, <1>4, <1>5 DEF TurnTyped

LEMMA TurnInitially == Sweep!Init => TurnInv
  <1> SUFFICES ASSUME Sweep!Init PROVE TurnInv
    OBVIOUS
  <1>1. NothingRead /\ pc = "start"
    BY DEF Sweep!Init, NothingRead
  <1> QED
    BY <1>1, EmptyTurn DEF TurnInv

(* The turn is left alone.                                                 *)
LEMMA TurnKept ==
    ASSUME TurnInv, calls' = calls, pending' = pending, accepted' = accepted,
           viewer' = viewer, pc' # "reading" \/ pc' = pc \/ pc = "post",
           pc' # "captured" \/ pc' = pc,
           pc' \in BeforeRuns \cup {"next", "created", "post"} =>
               pc \in BeforeRuns \cup {"next", "created", "post"} \/ viewer
    PROVE  TurnInv'
  <1>1. CASE NothingRead
    <2>1. NothingRead'
      BY <1>1 DEF NothingRead
    <2>2. TurnTyped' /\ QueuesRight' /\ AnswerRight' /\ Sweep!AnswerWasAccepted'
      BY <1>1, EmptyTurn
         DEF TurnTyped, QueuesRight, AnswerRight, Sweep!AnswerWasAccepted, NothingRead,
             Waiting, LastAccepted, Sweep!Returned
    <2> QED
      BY <2>1, <2>2 DEF TurnInv
  <1>2. CASE ~NothingRead
    <2>1. TurnTyped'
      BY DEF TurnInv, TurnTyped
    <2>2. (pc' \in BeforeRuns \cup {"next", "created", "post"} \/ viewer') => NothingRead'
      BY DEF TurnInv, NothingRead
    <2>3. Sweep!AnswerWasAccepted'
      BY DEF TurnInv, Sweep!AnswerWasAccepted
    <2>4. pc' = "reading" => pc = "reading"
      BY <1>2 DEF TurnInv
    <2>5. AllReadable' => AllReadable
      BY DEF AllReadable
    <2>6. QueuesRight => QueuesRight'
      BY DEF QueuesRight, Waiting
    <2>7. LastAccepted' = LastAccepted /\ Sweep!Returned' = Sweep!Returned
      BY DEF LastAccepted, Sweep!Returned
    <2>8. AnswerRight => AnswerRight'
      BY <2>7 DEF AnswerRight
    <2>9. pc' = "reading" /\ AllReadable' => QueuesRight' /\ AnswerRight'
      BY <2>4, <2>5, <2>6, <2>8 DEF TurnInv
    <2> QED
      BY <2>1, <2>2, <2>3, <2>9 DEF TurnInv
  <1> QED BY <1>1, <1>2

(* EvalSweep counts with a Cardinality of its own name.                    *)
LEMMA SameCardinality == \A S : Sweep!Cardinality(S) = Cardinality(S)
  BY Zenon DEF Sweep!Cardinality, Cardinality

LEMMA ReturnedCount ==
    ASSUME TurnInv
    PROVE  /\ IsFiniteSet({i \in DOMAIN calls : calls[i].returned > 0})
           /\ Sweep!Returned \in Nat
  <1>1. DOMAIN calls = 1 .. Len(calls) /\ Len(calls) \in Nat
    BY DEF TurnInv, TurnTyped
  <1>2. IsFiniteSet(1 .. Len(calls))
    BY <1>1, FS_Interval
  <1>3. IsFiniteSet({i \in DOMAIN calls : calls[i].returned > 0})
    BY <1>1, <1>2, FS_Subset
  <1> QED
    BY <1>3, SameCardinality, FS_CardinalityType DEF Sweep!Returned

LEMMA ToolCallTurn ==
    ASSUME TurnInv, Sweep!ToolCall
    PROVE  TurnInv'
  <1> DEFINE n == Len(calls) + 1
  <1>1. PICK tool \in Sweep!PlanningTools, readable \in BOOLEAN :
            /\ calls' = Append(calls, [tool |-> tool, readable |-> readable,
                                       returned |-> 0, ok |-> FALSE])
            /\ pending' = IF readable
                            THEN [pending EXCEPT ![tool] = Append(@, Len(calls) + 1)]
                            ELSE pending
    BY DEF Sweep!ToolCall
  <1>2. /\ accepted' = accepted /\ pc = "reading" /\ pc' = "reading"
        /\ viewer = FALSE /\ viewer' = viewer
    BY DEF Sweep!ToolCall, Sweep!Keeps, Sweep!Sweep
  <1> DEFINE asked == [tool |-> tool, readable |-> readable, returned |-> 0, ok |-> FALSE]
  <1>3. asked \in PlanningCall
    BY DEF PlanningCall
  <1>4. /\ calls' \in Seq(PlanningCall) /\ Len(calls) \in Nat /\ Len(calls') = n
        /\ \A i \in 1 .. Len(calls) : calls'[i] = calls[i]
        /\ calls'[n].tool = tool /\ calls'[n].readable = readable
        /\ calls'[n].returned = 0 /\ calls'[n].ok = FALSE
    BY <1>1, <1>3, AppendProperties DEF TurnInv, TurnTyped
  <1>5. pending' \in [Sweep!PlanningTools -> Seq(Nat)]
    <2>1. \A t \in Sweep!PlanningTools : Append(pending[t], n) \in Seq(Nat)
      BY <1>4, AppendProperties DEF TurnInv, TurnTyped
    <2> QED
      BY <1>1, <2>1 DEF TurnInv, TurnTyped
  <1>6. TurnTyped'
    BY <1>2, <1>4, <1>5 DEF TurnInv, TurnTyped
  <1>7. ASSUME AllReadable' PROVE QueuesRight' /\ AnswerRight'
    <2>1. AllReadable
      BY <1>4, <1>7 DEF AllReadable
    <2>2. readable
      BY <1>4, <1>7 DEF AllReadable
    <2>3. QueuesRight /\ AnswerRight
      BY <1>2, <2>1 DEF TurnInv
    <2>4. QueuesRight'
      <3> SUFFICES ASSUME NEW t \in Sweep!PlanningTools
                   PROVE  /\ \A k \in 1 .. Len(pending'[t]) : pending'[t][k] \in Waiting(t)'
                          /\ \A i \in Waiting(t)' :
                                 \E k \in 1 .. Len(pending'[t]) : pending'[t][k] = i
                          /\ \A j, k \in 1 .. Len(pending'[t]) :
                                 j < k => pending'[t][j] < pending'[t][k]
        BY DEF QueuesRight
      <3>0. pending[t] \in Seq(Nat) /\ Len(pending[t]) \in Nat
        BY DEF TurnInv, TurnTyped
      <3>1. /\ \A k \in 1 .. Len(pending[t]) : pending[t][k] \in Waiting(t)
            /\ \A i \in Waiting(t) : \E k \in 1 .. Len(pending[t]) : pending[t][k] = i
            /\ \A j, k \in 1 .. Len(pending[t]) : j < k => pending[t][j] < pending[t][k]
        BY <2>3 DEF QueuesRight
      <3>2. CASE t = tool
        <4>1. pending'[t] = Append(pending[t], n)
          BY <1>1, <2>2, <3>2 DEF TurnInv, TurnTyped
        <4>2. Waiting(t)' = Waiting(t) \cup {n}
          BY <1>4, <3>2 DEF Waiting
        <4>3. /\ Len(pending'[t]) = Len(pending[t]) + 1
              /\ \A k \in 1 .. Len(pending[t]) : pending'[t][k] = pending[t][k]
              /\ pending'[t][Len(pending[t]) + 1] = n
          BY <1>4, <3>0, <4>1, AppendProperties
        <4>4. \A k \in 1 .. Len(pending[t]) : pending[t][k] \in Nat /\ pending[t][k] < n
          BY <1>4, <3>1 DEF Waiting
        <4>9. n \in Nat /\ Len(pending[t]) + 1 \in 1 .. Len(pending'[t])
          BY <1>4, <3>0, <4>3
        <4> HIDE DEF n
        <4>10. 1 .. Len(pending'[t]) = (1 .. Len(pending[t])) \cup {Len(pending[t]) + 1}
          BY <3>0, <4>3
        <4>5. ASSUME NEW k \in 1 .. Len(pending'[t])
              PROVE  pending'[t][k] \in Waiting(t)'
          <5>1. CASE k \in 1 .. Len(pending[t])
            <6>1. pending'[t][k] = pending[t][k] /\ pending[t][k] \in Waiting(t)
              BY <3>1, <4>3, <5>1
            <6> QED
              BY <4>2, <6>1
          <5>2. CASE k = Len(pending[t]) + 1
            BY <4>2, <4>3, <5>2
          <5> QED BY <4>10, <5>1, <5>2
        <4>6. ASSUME NEW i \in Waiting(t)'
              PROVE  \E k \in 1 .. Len(pending'[t]) : pending'[t][k] = i
          <5>1. CASE i = n
            BY <4>3, <4>9, <5>1
          <5>2. CASE i \in Waiting(t)
            <6>1. PICK k \in 1 .. Len(pending[t]) : pending[t][k] = i
              BY <3>1, <5>2
            <6> QED
              BY <4>3, <4>10, <6>1
          <5> QED BY <4>2, <5>1, <5>2
        <4>7. ASSUME NEW j \in 1 .. Len(pending'[t]), NEW k \in 1 .. Len(pending'[t]), j < k
              PROVE  pending'[t][j] < pending'[t][k]
          <5>4. j \in 1 .. Len(pending[t])
            BY <3>0, <4>3, <4>7
          <5>1. j \in 1 .. Len(pending[t]) /\ pending'[t][j] = pending[t][j]
            BY <4>3, <5>4
          <5>2. CASE k \in 1 .. Len(pending[t])
            BY <3>1, <4>3, <4>7, <5>1, <5>2
          <5>3. CASE k = Len(pending[t]) + 1
            BY <4>3, <4>4, <5>1, <5>3
          <5> QED BY <4>10, <5>2, <5>3
        <4> QED
          BY <4>5, <4>6, <4>7
      <3>3. CASE t # tool
        <4>1. pending'[t] = pending[t]
          BY <1>1, <3>3 DEF TurnInv, TurnTyped
        <4>2. Waiting(t)' = Waiting(t)
          BY <1>4, <3>3 DEF Waiting
        <4> QED
          BY <3>1, <4>1, <4>2
      <3> QED BY <3>2, <3>3
    <2>5. Sweep!Returned' = Sweep!Returned
      <3>1. DOMAIN calls = 1 .. Len(calls) /\ DOMAIN calls' = 1 .. n
        BY <1>4 DEF TurnInv, TurnTyped
      <3>2. {i \in DOMAIN calls' : calls'[i].returned > 0}
                = {i \in DOMAIN calls : calls[i].returned > 0}
        BY <1>4, <3>1
      <3> QED
        BY <3>2 DEF Sweep!Returned
    <2>6. LastAccepted' = LastAccepted
      BY <1>2 DEF LastAccepted
    <2>7. AnswerRight'
      BY <1>2, <1>4, <2>3, <2>5, <2>6, ReturnedCount DEF AnswerRight
    <2> QED BY <2>4, <2>7
  <1> QED
    BY <1>2, <1>6, <1>7 DEF TurnInv, BeforeRuns, Sweep!AnswerWasAccepted

LEMMA ToolReturnTurn ==
    ASSUME TurnInv, Sweep!ToolReturn, viewer \in BOOLEAN
    PROVE  TurnInv'
  <1>1. PICK i \in DOMAIN calls, ok \in BOOLEAN :
            /\ calls[i].returned = 0
            /\ \A j \in 1 .. i - 1 : calls[j].tool = calls[i].tool => calls[j].returned > 0
            /\ calls' = [calls EXCEPT ![i].returned = Sweep!Returned + 1, ![i].ok = ok]
            /\ IF pending[calls[i].tool] = <<>>
                 THEN UNCHANGED <<pending, accepted>>
                 ELSE /\ pending' = [pending EXCEPT ![calls[i].tool] = Tail(@)]
                      /\ accepted' = Sweep!Accept(ok, Head(pending[calls[i].tool]))
    BY DEF Sweep!ToolReturn
  <1>2. pc = "reading" /\ pc' = "reading" /\ viewer' = viewer
    BY DEF Sweep!ToolReturn, Sweep!Keeps, Sweep!Sweep
  <1> DEFINE tool == calls[i].tool
             R == Sweep!Returned
  <1>3. /\ DOMAIN calls = 1 .. Len(calls) /\ Len(calls) \in Nat
        /\ \A j \in 1 .. Len(calls) : calls[j] \in PlanningCall
        /\ i \in 1 .. Len(calls) /\ R \in Nat
    BY ReturnedCount DEF TurnInv, TurnTyped
  <1>4. tool \in Sweep!PlanningTools
    BY <1>3 DEF PlanningCall
  <1>5. ~viewer
    BY <1>3 DEF TurnInv, NothingRead
  <1>6. /\ calls' \in Seq(PlanningCall) /\ Len(calls') = Len(calls)
        /\ \A j \in 1 .. Len(calls) : j # i => calls'[j] = calls[j]
        /\ calls'[i].tool = tool /\ calls'[i].readable = calls[i].readable
        /\ calls'[i].returned = R + 1 /\ calls'[i].ok = ok
    <2> DEFINE back == [calls[i] EXCEPT !.returned = R + 1, !.ok = ok]
    <2>2. calls' = [calls EXCEPT ![i] = back]
      BY <1>1
    <2> HIDE DEF R
    <2>4. calls[i] \in PlanningCall /\ R + 1 \in Nat /\ ok \in BOOLEAN
      BY <1>3
    <2>1. back \in PlanningCall
      BY <2>4 DEF PlanningCall
    <2>3. back.tool = tool /\ back.readable = calls[i].readable /\ back.returned = R + 1
          /\ back.ok = ok
      BY <1>3 DEF PlanningCall
    <2> HIDE DEF back
    <2> QED
      BY <1>3, <2>1, <2>2, <2>3, ExceptSeq DEF TurnInv, TurnTyped
  <1>7. DOMAIN calls' = 1 .. Len(calls)
    BY <1>6
  <1>8. Sweep!Returned' = R + 1
    <2> DEFINE B == {j \in DOMAIN calls : calls[j].returned > 0}
    <2>1. {j \in DOMAIN calls' : calls'[j].returned > 0} = B \cup {i}
      BY <1>3, <1>6, <1>7
    <2>2. i \notin B /\ IsFiniteSet(B)
      BY <1>1, ReturnedCount
    <2>3. Sweep!Returned' = Cardinality(B \cup {i}) /\ R = Cardinality(B)
      BY <2>1, SameCardinality DEF Sweep!Returned
    <2> HIDE DEF B, R
    <2>4. Cardinality(B \cup {i}) = Cardinality(B) + 1
      BY <2>2, FS_AddElement
    <2> QED
      BY <2>3, <2>4
  <1> HIDE DEF tool, R
  <1>9. TurnTyped'
    <2>1. CASE pending[tool] = <<>>
      BY <1>1, <1>6, <2>1 DEF tool, TurnInv, TurnTyped
    <2>2. CASE pending[tool] # <<>>
      <3>1. Head(pending[tool]) \in Nat /\ Tail(pending[tool]) \in Seq(Nat)
        BY <1>4, <2>2, HeadTailProperties DEF TurnInv, TurnTyped
      <3>2. pending' \in [Sweep!PlanningTools -> Seq(Nat)]
        BY <1>1, <1>4, <2>2, <3>1 DEF tool, TurnInv, TurnTyped
      <3>3. accepted' \in Seq(Nat)
        <4>1. Append(accepted, Head(pending[tool])) \in Seq(Nat)
          BY <3>1, AppendProperties DEF TurnInv, TurnTyped
        <4>2. accepted' = IF ok THEN Append(accepted, Head(pending[tool])) ELSE accepted
          BY <1>1, <2>2 DEF tool, Sweep!Accept
        <4> QED
          BY <4>1, <4>2 DEF TurnInv, TurnTyped
      <3> QED
        BY <1>6, <3>2, <3>3 DEF TurnTyped
    <2> QED BY <2>1, <2>2
  <1>10. ASSUME AllReadable' PROVE QueuesRight' /\ AnswerRight'
    <2>1. AllReadable
      BY <1>6, <1>10 DEF AllReadable
    <2>2. QueuesRight /\ AnswerRight
      BY <1>2, <2>1 DEF TurnInv
    <2>3. i \in Waiting(tool)
      BY <1>1, <1>3 DEF Waiting, tool
    <2>4. /\ pending[tool] \in Seq(Nat) /\ Len(pending[tool]) \in Nat
          /\ \A k \in 1 .. Len(pending[tool]) : pending[tool][k] \in Waiting(tool)
          /\ \A j \in Waiting(tool) : \E k \in 1 .. Len(pending[tool]) : pending[tool][k] = j
          /\ \A j, k \in 1 .. Len(pending[tool]) :
                 j < k => pending[tool][j] < pending[tool][k]
      BY <1>4, <2>2 DEF TurnInv, TurnTyped, QueuesRight
    <2>5. PICK k \in 1 .. Len(pending[tool]) : pending[tool][k] = i
      BY <2>3, <2>4
    <2>6. pending[tool] # <<>> /\ 1 \in 1 .. Len(pending[tool])
      BY <2>4, <2>5
    <2>7. pending[tool][1] = i
      <3>1. ASSUME 1 < k PROVE FALSE
        <4>1. pending[tool][1] < i /\ pending[tool][1] \in Waiting(tool)
          BY <2>4, <2>5, <2>6, <3>1
        <4>2. pending[tool][1] \in 1 .. i - 1
          BY <1>3, <4>1 DEF Waiting
        <4> QED
          BY <1>1, <4>1, <4>2 DEF Waiting, tool
      <3> QED
        BY <2>4, <2>5, <3>1
    <2>8. /\ pending' = [pending EXCEPT ![tool] = Tail(@)]
          /\ accepted' = IF ok THEN Append(accepted, i) ELSE accepted
      BY <1>1, <2>6, <2>7 DEF tool, Sweep!Accept
    <2>9. QueuesRight'
      <3> SUFFICES ASSUME NEW t \in Sweep!PlanningTools
                   PROVE  /\ \A k_1 \in 1 .. Len(pending'[t]) : pending'[t][k_1] \in Waiting(t)'
                          /\ \A i_1 \in Waiting(t)' :
                                 \E k_1 \in 1 .. Len(pending'[t]) : pending'[t][k_1] = i_1
                          /\ \A j, k_1 \in 1 .. Len(pending'[t]) :
                                 j < k_1 => pending'[t][j] < pending'[t][k_1]
        BY DEF QueuesRight
      <3>1. CASE t # tool
        <4>1. pending'[t] = pending[t]
          BY <2>8, <3>1 DEF TurnInv, TurnTyped
        <4>2. Waiting(t)' = Waiting(t)
          BY <1>6, <3>1 DEF Waiting, tool
        <4> QED
          BY <2>2, <4>1, <4>2 DEF QueuesRight
      <3>2. CASE t = tool
        <4>1. pending'[t] = Tail(pending[tool])
          BY <1>4, <2>8, <3>2 DEF TurnInv, TurnTyped
        <4>2. /\ Len(pending'[t]) = Len(pending[tool]) - 1
              /\ \A h \in 1 .. Len(pending'[t]) :
                     h + 1 \in 1 .. Len(pending[tool]) /\ pending'[t][h] = pending[tool][h + 1]
          BY <2>4, <2>6, <4>1, HeadTailProperties
        <4>3. Waiting(t)' = Waiting(tool) \ {i}
          BY <1>3, <1>6, <3>2 DEF Waiting
        <4>4. \A h \in 1 .. Len(pending[tool]) : h # 1 => i < pending[tool][h]
          <5>1. \A h \in 1 .. Len(pending[tool]) : h # 1 => 1 < h
            BY <2>4
          <5> QED
            BY <2>4, <2>6, <2>7, <5>1
        <4>5. i \in Nat /\ \A h \in 1 .. Len(pending[tool]) : pending[tool][h] \in Nat
          BY <1>3, <2>4, ElementOfSeq
        <4>6. ASSUME NEW h \in 1 .. Len(pending'[t])
              PROVE  pending'[t][h] \in Waiting(t)'
          <5>1. h + 1 \in 1 .. Len(pending[tool]) /\ h + 1 # 1
            BY <2>4, <4>2
          <5>2. pending[tool][h + 1] \in Waiting(tool) /\ pending[tool][h + 1] # i
            BY <2>4, <4>4, <4>5, <5>1
          <5> QED
            BY <4>2, <4>3, <5>2
        <4>7. ASSUME NEW j \in Waiting(t)'
              PROVE  \E h \in 1 .. Len(pending'[t]) : pending'[t][h] = j
          <5>1. PICK h \in 1 .. Len(pending[tool]) : pending[tool][h] = j
            BY <2>4, <4>3, <4>7
          <5>2. h # 1
            BY <2>7, <4>3, <4>7, <5>1
          <5>3. h - 1 \in 1 .. Len(pending'[t]) /\ (h - 1) + 1 = h
            BY <2>4, <4>2, <5>2
          <5> QED
            BY <4>2, <5>1, <5>3
        <4>8. \A h, j \in 1 .. Len(pending'[t]) :
                  h < j => pending'[t][h] < pending'[t][j]
          <5> SUFFICES ASSUME NEW h \in 1 .. Len(pending'[t]),
                              NEW j \in 1 .. Len(pending'[t]), h < j
                       PROVE  pending[tool][h + 1] < pending[tool][j + 1]
            BY <4>2
          <5>1. h + 1 < j + 1
            BY <2>4, <4>2
          <5> QED
            BY <2>4, <4>2, <5>1
        <4> QED
          BY <4>6, <4>7, <4>8
      <3> QED BY <3>1, <3>2
    <2>10. AnswerRight'
      <3>0. accepted \in Seq(Nat) /\ i \in Nat
        BY <1>3 DEF TurnInv, TurnTyped
      <3>1. CASE ok
        <4>1. accepted' # <<>> /\ LastAccepted' = i
          <5>1. accepted' = Append(accepted, i)
            BY <2>8, <3>1
          <5> QED
            BY <3>0, <5>1, AppendProperties DEF LastAccepted
        <4>2. \A j \in 1 .. Len(calls) :
                  calls[j].returned \in Nat /\ calls[j].returned <= R
          BY <1>3, <2>2 DEF AnswerRight, PlanningCall, R
        <4>3. \A j \in 1 .. Len(calls) : j # i =>
                  (calls[j].ok => calls[j].returned > 0)
          BY <2>2 DEF AnswerRight
        <4>4. calls'[i].returned = R + 1 /\ calls'[i].ok /\ R + 1 > 0 /\ R \in Nat
          BY <1>3, <1>6, <3>1
        <4>5. ASSUME NEW j \in 1 .. Len(calls)
              PROVE  /\ calls'[j].returned <= R + 1
                     /\ calls'[j].ok => calls'[j].returned > 0
          BY <1>6, <4>2, <4>3, <4>4
        <4> QED
          BY <1>3, <1>6, <1>8, <4>1, <4>4, <4>5 DEF AnswerRight
      <3>2. CASE ~ok
        <4>1. accepted' = accepted /\ LastAccepted' = LastAccepted
          BY <2>8, <3>2 DEF LastAccepted
        <4>2. \A j \in 1 .. Len(calls) :
                  calls[j].returned \in Nat /\ calls[j].returned <= R
          BY <1>3, <2>2 DEF AnswerRight, PlanningCall, R
        <4>3. accepted # <<>> => /\ LastAccepted \in 1 .. Len(calls)
                                 /\ calls[LastAccepted].ok
                                 /\ calls[LastAccepted].returned > 0
          BY <2>2 DEF AnswerRight
        <4>4. accepted # <<>> => LastAccepted # i
          BY <1>1, <4>3
        <4>5. accepted # <<>> => calls'[LastAccepted] = calls[LastAccepted]
          BY <1>6, <4>3, <4>4
        <4>6. ASSUME NEW j \in 1 .. Len(calls)
              PROVE  /\ calls'[j].returned <= R + 1
                     /\ calls'[j].ok => j # i /\ calls'[j] = calls[j] /\ calls[j].ok
          <5>1. CASE j = i
            BY <1>3, <1>6, <3>2, <5>1
          <5>2. CASE j # i
            BY <1>3, <1>6, <4>2, <5>2
          <5> QED BY <5>1, <5>2
        <4>7. ASSUME NEW j \in 1 .. Len(calls), calls[j].ok
              PROVE  /\ calls[j].returned > 0 /\ accepted # <<>>
                     /\ calls[j].returned <= calls[LastAccepted].returned
          BY <2>2, <4>7 DEF AnswerRight
        <4>8. Len(calls') = Len(calls) /\ Sweep!Returned' = R + 1
          BY <1>6, <1>8
        <4>9. /\ \A j \in 1 .. Len(calls') :
                     /\ calls'[j].returned <= Sweep!Returned'
                     /\ calls'[j].ok => /\ calls'[j].returned > 0
                                        /\ accepted' # <<>>
                                        /\ calls'[j].returned
                                               <= calls'[LastAccepted'].returned
              /\ accepted' # <<>> =>
                     LastAccepted' \in 1 .. Len(calls') /\ calls'[LastAccepted'].ok
          BY <4>1, <4>3, <4>5, <4>6, <4>7, <4>8
        <4> QED
          BY <4>9 DEF AnswerRight
      <3> QED BY <3>1, <3>2
    <2> QED BY <2>9, <2>10
  <1> QED
    BY <1>2, <1>5, <1>9, <1>10 DEF TurnInv, BeforeRuns, Sweep!AnswerWasAccepted

(* What is left waiting when the stream ends becomes the answer.           *)
LEMMA EndOfStreamTurn ==
    ASSUME TurnInv, Sweep!EndOfStream, viewer \in BOOLEAN
    PROVE  TurnInv'
  <1>1. /\ pc = "reading" /\ pc' = "captured" /\ viewer' = viewer
        /\ calls' = calls /\ pending' = pending
        /\ accepted' = accepted \o Sweep!Leftover
    BY DEF Sweep!EndOfStream, Sweep!Sweep
  <1>2. PICK a \in Sweep!PlanningTools, b \in Sweep!PlanningTools :
            /\ Sweep!Leftover = pending[a] \o pending[b]
            /\ Sweep!PlanningTools = {a, b}
    <2>1. \/ Sweep!Leftover = pending["run_workflow"] \o pending["plan_workflow"]
          \/ Sweep!Leftover = pending["plan_workflow"] \o pending["run_workflow"]
      BY DEF Sweep!Leftover
    <2> QED
      BY <2>1 DEF Sweep!PlanningTools
  <1>3. /\ accepted \in Seq(Nat) /\ Len(accepted) \in Nat
        /\ pending[a] \in Seq(Nat) /\ Len(pending[a]) \in Nat
        /\ pending[b] \in Seq(Nat) /\ Len(pending[b]) \in Nat
    BY DEF TurnInv, TurnTyped
  <1>10. PICK rest : rest = pending[a] \o pending[b]
    OBVIOUS
  <1>13. PICK m \in Nat, n \in Nat : m = Len(pending[a]) /\ n = Len(pending[b])
    BY <1>3
  <1>4. rest \in Seq(Nat) /\ Len(rest) = m + n
    BY <1>3, <1>10, <1>13, ConcatProperties
  <1>11. \A k \in 1 .. m + n : rest[k] = IF k <= m THEN pending[a][k] ELSE pending[b][k - m]
    BY <1>3, <1>10, <1>13, ConcatProperties
  <1>5. accepted' = accepted \o rest
    BY <1>1, <1>2, <1>10
  <1>6. accepted' \in Seq(Nat) /\ Len(accepted') = Len(accepted) + Len(rest)
    BY <1>3, <1>4, <1>5, ConcatProperties
  <1>12. \A k \in 1 .. Len(accepted) + Len(rest) :
             accepted'[k] = IF k <= Len(accepted) THEN accepted[k]
                            ELSE rest[k - Len(accepted)]
    BY <1>3, <1>4, <1>5, ConcatProperties
  <1>7. TurnTyped'
    BY <1>1, <1>6 DEF TurnInv, TurnTyped
  <1>8. ASSUME viewer PROVE NothingRead'
    <2>1. NothingRead
      BY <1>8 DEF TurnInv
    <2>2. accepted = <<>> /\ m = 0 /\ n = 0
      BY <1>13, <2>1 DEF NothingRead, Sweep!NonePending
    <2>3. Len(accepted') = 0
      BY <1>4, <1>6, <2>2
    <2> QED
      BY <1>1, <1>6, <2>1, <2>3, EmptySeq DEF NothingRead
  <1>9. Sweep!AnswerWasAccepted'
    <2> SUFFICES ASSUME AllReadable, ~viewer
                 PROVE  Sweep!AnswerWasAccepted'
      <3>1. CASE viewer
        <4>1. NothingRead'
          BY <1>8, <3>1
        <4> QED
          BY <4>1 DEF Sweep!AnswerWasAccepted, NothingRead
      <3>2. CASE ~AllReadable
        <4>1. DOMAIN calls = 1 .. Len(calls)
          BY DEF TurnInv, TurnTyped
        <4> QED
          BY <1>1, <3>2, <4>1 DEF Sweep!AnswerWasAccepted, AllReadable
      <3> QED
        BY <3>1, <3>2
    <2>0. /\ DOMAIN calls = 1 .. Len(calls) /\ Len(calls) \in Nat
          /\ \A i \in 1 .. Len(calls) : calls[i] \in PlanningCall
      BY DEF TurnInv, TurnTyped
    <2> DEFINE open == {i \in DOMAIN calls : calls[i].returned = 0}
               good == {i \in DOMAIN calls : calls[i].ok}
    <2>1. QueuesRight /\ AnswerRight
      BY <1>1 DEF TurnInv
    <2>2. \A i \in open : i \in Waiting(a) \/ i \in Waiting(b)
      BY <1>2, <2>0 DEF Waiting, PlanningCall
    <2>3. SUFFICES IF accepted' = <<>> THEN open = {} /\ good = {}
                   ELSE LET last == accepted'[Len(accepted')]
                        IN \/ last \in open
                           \/ /\ open = {}
                              /\ last \in good
                              /\ \A i \in good : calls[i].returned <= calls[last].returned
      BY <1>1 DEF Sweep!AnswerWasAccepted, Sweep!Last
    <2>4. CASE Len(rest) = 0
      <3>1. open = {}
        <4>1. m = 0 /\ n = 0
          BY <1>4, <2>4
        <4>3. \A t \in {a, b} : \A i \in Waiting(t) :
                  \E k \in 1 .. Len(pending[t]) : pending[t][k] = i
          BY <1>2, <2>1 DEF QueuesRight
        <4>4. Len(pending[a]) = 0 /\ Len(pending[b]) = 0
          BY <1>13, <4>1
        <4>2. Waiting(a) = {} /\ Waiting(b) = {}
          BY <4>3, <4>4
        <4> QED
          BY <2>2, <4>2
      <3>2. accepted' = accepted
        BY <1>3, <1>4, <1>5, <2>4, EmptySeq, ConcatEmptySeq
      <3>3. CASE accepted = <<>>
        BY <2>0, <2>1, <3>1, <3>2, <3>3 DEF AnswerRight
      <3>4. CASE accepted # <<>>
        BY <2>0, <2>1, <3>1, <3>2, <3>4 DEF AnswerRight, LastAccepted
      <3> QED BY <3>3, <3>4
    <2>5. CASE Len(rest) # 0
      <3>1. Len(rest) \in Nat \ {0}
        BY <1>3, <1>4, <2>5
      <3>2. accepted' # <<>> /\ accepted'[Len(accepted')] = rest[Len(rest)]
        <4>1. Len(accepted') # 0 /\ Len(accepted') - Len(accepted) = Len(rest)
              /\ Len(accepted') \in 1 .. Len(accepted) + Len(rest)
              /\ ~(Len(accepted') <= Len(accepted))
          BY <1>3, <1>6, <3>1
        <4>2. accepted' # <<>>
          BY <4>1
        <4> QED
          BY <1>12, <4>1, <4>2
      <3>3. rest[Len(rest)] \in Waiting(a) \cup Waiting(b)
        <4>1. CASE n = 0
          <5>1. rest[Len(rest)] = pending[a][m]
                /\ m \in 1 .. m
            BY <1>4, <1>11, <3>1, <4>1
          <5> QED
            BY <1>2, <1>13, <2>1, <5>1 DEF QueuesRight
        <4>2. CASE n # 0
          <5>1. rest[Len(rest)] = pending[b][n]
                /\ n \in 1 .. n
            BY <1>4, <1>11, <3>1, <4>2
          <5> QED
            BY <1>2, <1>13, <2>1, <5>1 DEF QueuesRight
        <4> QED BY <4>1, <4>2
      <3>4. rest[Len(rest)] \in open
        BY <2>0, <3>3 DEF Waiting
      <3> QED
        BY <3>2, <3>4
    <2> QED BY <2>4, <2>5
  <1> QED
    BY <1>1, <1>7, <1>8, <1>9 DEF TurnInv, BeforeRuns

LEMMA TurnSweep ==
    ASSUME StackInv, TurnInv, Sweep!Next
    PROVE  TurnInv'
  <1>0. viewer \in BOOLEAN
    BY DEF StackInv, SweepTyped
  <1>1. CASE Sweep!Switch \/ Sweep!CheckStack \/ Sweep!PinActiveProfile
    BY <1>1, TurnKept
       DEF Sweep!Switch, Sweep!CheckStack, Sweep!PinActiveProfile, Sweep!stack,
           Sweep!reading, Sweep!Settings, BeforeRuns
  <1>2. CASE Sweep!AskActiveSession
    BY <1>2, TurnKept DEF Sweep!AskActiveSession, Sweep!reading, BeforeRuns
  <1>3. CASE Sweep!CreateSession
    <2>1. pc = "next" /\ pc' \in {"created", "restore"} /\ viewer' = viewer
          /\ UNCHANGED <<calls, pending, accepted>>
      BY <1>3 DEF Sweep!CreateSession, Sweep!Raises, Sweep!Finally, Sweep!reading,
                  Sweep!Sweep
    <2> QED
      BY <2>1, TurnKept
  <1>4. CASE Sweep!ActivateSession
    <2>1. pc = "created" /\ pc' \in {"post", "restore"} /\ viewer' = viewer
          /\ UNCHANGED <<calls, pending, accepted>>
      BY <1>4 DEF Sweep!ActivateSession, Sweep!Raises, Sweep!Finally, Sweep!reading,
                  Sweep!Sweep
    <2> QED
      BY <2>1, TurnKept
  <1>5. CASE Sweep!PostRun \/ Sweep!RunRefused
    <2>1. /\ pc' \in {"reading", "restore"} /\ viewer' = viewer
          /\ pc' = "reading" => pc = "post"
          /\ UNCHANGED <<calls, pending, accepted>>
      BY <1>5 DEF Sweep!PostRun, Sweep!RunRefused, Sweep!Raises, Sweep!Finally,
                  Sweep!reading, Sweep!Sweep
    <2> QED
      BY <2>1, TurnKept DEF BeforeRuns
  <1>6. CASE Sweep!FollowUp
    BY <1>6, TurnKept DEF Sweep!FollowUp, Sweep!Sweep
  <1>7. CASE Sweep!AllRun \/ Sweep!Restore \/ Sweep!Delete \/ Sweep!Kill
    <2>1. /\ pc' \in {"restore", "delete", "over", "killed"} /\ viewer' = viewer
          /\ UNCHANGED <<calls, pending, accepted>>
      BY <1>7 DEF Sweep!AllRun, Sweep!Restore, Sweep!Delete, Sweep!Kill, Sweep!reading,
                  Sweep!Sweep
    <2> QED
      BY <2>1, TurnKept DEF BeforeRuns
  <1>8. CASE Sweep!Score
    <2>1. NothingRead' /\ pc' = "next"
      BY <1>8 DEF Sweep!Score, NothingRead, Sweep!NonePending
    <2>2. calls' = <<>> /\ pending' = Sweep!NonePending /\ accepted' = <<>>
      BY <1>8 DEF Sweep!Score
    <2>3. pending' \in [Sweep!PlanningTools -> Seq(Nat)]
      BY <2>2 DEF Sweep!NonePending
    <2> QED
      BY <2>1, <2>2, <2>3 DEF TurnInv, TurnTyped, BeforeRuns, Sweep!AnswerWasAccepted
  <1> QED
    BY <1>0, <1>1, <1>2, <1>3, <1>4, <1>5, <1>6, <1>7, <1>8, ToolCallTurn, ToolReturnTurn,
       EndOfStreamTurn DEF Sweep!Next

LEMMA TurnInvariance == StackInv /\ TurnInv /\ [Sweep!Next]_sweepVars => TurnInv'
  <1>1. ASSUME TurnInv, UNCHANGED sweepVars PROVE TurnInv'
    BY <1>1, TurnKept DEF sweepVars
  <1> QED
    BY <1>1, TurnSweep

LEMMA AnswerPromised == TurnInv => Sweep!AnswerWasAccepted
  BY DEF TurnInv
=============================================================================
