---------------------------- MODULE QgisSession ----------------------------
(***************************************************************************)
(* The QGIS session of a process (core/qgis_session.py) and the three      *)
(* tools that use it: check_qgis_status, list_qgis_algorithms and          *)
(* run_qgis_algorithm, called by threads of one process.                   *)
(*                                                                         *)
(* QGIS is external: building an application twice kills the process, and  *)
(* importing, starting or running it may fail.  Which algorithms and       *)
(* parameters are refused is left open.                                    *)
(*                                                                         *)
(* Unlocked stands beside EnterLock: a mistake a change could make.        *)
(***************************************************************************)
EXTENDS Naturals

CONSTANT Threads  \* each makes one call

VARIABLES lock,      \* the thread in _start_lock, or nobody
          session,   \* the processing plugin's state, once there is a session
          failure,   \* _start_failure
          built,     \* history: the applications that were built
          call

vars == <<lock, session, failure, built, call>>

Nobody == "nobody"
None == "none"

-----------------------------------------------------------------------------
(* Starting the session                                                    *)

Answer(t, with) == call' = [call EXCEPT ![t].pc = "answered", ![t].answer = with]

Goes(t, pc) == call' = [call EXCEPT ![t].pc = pc]

Asks(t, tool) ==
    call' = [call EXCEPT ![t] = [pc |-> "asks", tool |-> tool, answer |-> None]]

CallStatus(t) ==
    /\ call[t].pc = "idle"
    /\ \E tool \in {"check", "list"} : Asks(t, tool)
    /\ UNCHANGED <<lock, session, failure, built>>

\* An algorithm that is not allowed and parameters that are no JSON object are
\* refused before QGIS starts.
CallRun(t) ==
    /\ call[t].pc = "idle"
    /\ Asks(t, "run") \/ Answer(t, "refused")
    /\ UNCHANGED <<lock, session, failure, built>>

\* What the lock is held for: to see that there is a session or a failure, or to
\* start.
Enter(t) ==
    /\ call[t].pc = "asks"
    /\ UNCHANGED <<session, failure, built>>
    /\ CASE failure # None -> Answer(t, failure) /\ UNCHANGED lock
         [] failure = None /\ session # None -> Goes(t, "has") /\ UNCHANGED lock
         [] OTHER -> Goes(t, "starting") /\ lock' = t

Unlocked(t) == Enter(t)

EnterLock(t) == lock = Nobody /\ Enter(t)

Fail(t, reason) ==
    /\ failure' = reason
    /\ lock' = Nobody
    /\ Answer(t, reason)
    /\ UNCHANGED <<session>>

ImportFails(t) ==
    /\ call[t].pc = "starting"
    /\ Fail(t, "not importable")
    /\ UNCHANGED built

Build(t) ==
    /\ call[t].pc = "starting"
    /\ built' = built + 1
    /\ Goes(t, "built")
    /\ UNCHANGED <<lock, session, failure>>

\* initQgis or the provider
InitFails(t) ==
    /\ call[t].pc = "built"
    /\ Fail(t, "could not start")
    /\ UNCHANGED built

\* With or without the processing plugin
Start(t) ==
    /\ call[t].pc = "built"
    /\ session' \in {"processing", "core only"}
    /\ lock' = Nobody
    /\ Goes(t, "has")
    /\ UNCHANGED <<failure, built>>

-----------------------------------------------------------------------------
(* The tools, with a session                                               *)

\* check_qgis_status tells whether there is processing; list_qgis_algorithms does not.
Status(t) ==
    /\ call[t].pc = "has"
    /\ call[t].tool \in {"check", "list"}
    /\ Answer(t, IF call[t].tool = "check" THEN session ELSE "listed")
    /\ UNCHANGED <<lock, session, failure, built>>

NoProcessing(t) ==
    /\ call[t].pc = "has"
    /\ call[t].tool = "run"
    /\ session = "core only"
    /\ Answer(t, "no processing")
    /\ UNCHANGED <<lock, session, failure, built>>

\* QGIS knows no such algorithm, a parameter or the output is refused, or it runs: it
\* completes, fails, or leaves coordinates that are no longitudes and latitudes.
RunAlgorithm(t) ==
    /\ call[t].pc = "has"
    /\ call[t].tool = "run"
    /\ session = "processing"
    /\ \E with \in {"no algorithm", "refused", "completed", "failed", "out of range"} :
           Answer(t, with)
    /\ UNCHANGED <<lock, session, failure, built>>

Init ==
    /\ lock = Nobody
    /\ session = None /\ failure = None
    /\ built = 0
    /\ call = [t \in Threads |-> [pc |-> "idle", answer |-> None]]

Next ==
    \E t \in Threads :
        \/ CallStatus(t)
        \/ CallRun(t)
        \/ EnterLock(t) \/ ImportFails(t) \/ Build(t) \/ InitFails(t) \/ Start(t)
        \/ Status(t) \/ NoProcessing(t) \/ RunAlgorithm(t)

Spec == Init /\ [][Next]_vars

-----------------------------------------------------------------------------

Answers == {call[t].answer : t \in Threads}

\* No second application is built, whatever fails after the first one was, and what
\* the tools answer of the session agrees: with a failure there is no session, and
\* where check_qgis_status saw processing no run is without it (qgis_session).
StartedOnce ==
    /\ built <= 1
    /\ failure # None => session = None
    /\ ~{"processing", "no processing"} \subseteq Answers
    /\ ~{"not importable", "could not start"} \subseteq Answers
=============================================================================
