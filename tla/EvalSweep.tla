----------------------------- MODULE EvalSweep -----------------------------
(***************************************************************************)
(* A sweep of the evaluations against the running stack: the workflow      *)
(* tasks (evals/runner.py) and the viewer tasks (evals/viewer_runner.py,   *)
(* evals/viewer_replies.py), one sibyl session for each run, one profile   *)
(* for all of them, and the answer read from each run's events.            *)
(*                                                                         *)
(* sibyl is external: it keeps the sessions, of which one is active, and   *)
(* the active profile, and people go on using it during a sweep.  Any      *)
(* request to it may fail.  A manifest is the call that carried it; what   *)
(* the calls of a viewer task are worth is EvalScoring's.                  *)
(*                                                                         *)
(* Unpinned, FinallySkipped and AcceptEvery stand beside the definitions   *)
(* they vary: mistakes a change could make.                                *)
(***************************************************************************)
EXTENDS Integers, Sequences, FiniteSets, SequencesExt

CONSTANTS Sessions,     \* the sessions that people have
          Profiles, Cloud,
          Runs,         \* how many runs the tasks and --repeat make
          MaxEvents,    \* the planning calls of one run
          MaxSwitches   \* how often somebody switches a session or the profile

VARIABLES sessions,  \* those that sibyl has, an eval's by the number of its run
          active, profile,
          pc,
          viewer,    \* whether the sweep is of the viewer tasks
          named,     \* the profile of --profile, which the viewer tasks take
          allowCloud,
          pinned, reported, user, evalSessions, run,
          calls,     \* history of a turn: what was called and what came back
          pending, accepted,
          followUps,
          measured,  \* history: the profiles that the runs were on
          refused,   \* history: a request about sessions failed
          switches, found

stack == <<sessions, active, profile, switches>>
reading == <<calls, pending, accepted, followUps>>
vars == <<stack, pc, viewer, named, allowCloud, pinned, reported, user, evalSessions, run,
          reading, measured, refused, found>>

Unknown == "unknown"
NoSession == 0
MAXIMUM_FOLLOW_UPS == 2
PlanningTools == {"plan_workflow", "run_workflow"}

-----------------------------------------------------------------------------
(* sibyl                                                                   *)

Switch ==
    /\ switches < MaxSwitches
    /\ switches' = switches + 1
    /\ \/ active' \in Sessions /\ UNCHANGED profile
       \/ profile' \in Profiles /\ UNCHANGED active
    /\ UNCHANGED <<sessions, pc, viewer, named, allowCloud, pinned, reported, user, evalSessions,
                   run, reading, measured, refused, found>>

-----------------------------------------------------------------------------
(* The start of a sweep                                                    *)

Settings == <<viewer, named, allowCloud, user, evalSessions, run, reading, measured,
              refused, found>>

\* active_profile, which cannot always say, or profile_by_id
Seen == IF named = Unknown THEN {profile, Unknown} ELSE {named}

\* stack_skip_reason and viewer_skip_reason: a profile that sibyl cannot tell is not
\* the cloud's, and the rest of the stack may be down.
CheckStack ==
    /\ pc = "start"
    /\ \/ pc' = "skipped"
       \/ /\ \E seen \in Seen : seen = Cloud => allowCloud
          /\ pc' = "checked"
    /\ UNCHANGED <<stack, pinned, reported, Settings>>

Unpinned ==
    /\ pc = "checked"
    /\ pinned' = Unknown
    /\ reported' = profile
    /\ pc' = "pinned"
    /\ UNCHANGED <<stack, Settings>>

\* pin_active_profile, or pin_profile, which raises when sibyl does not list it
PinActiveProfile ==
    /\ pc = "checked"
    /\ \/ reported' \in Seen /\ pinned' = reported' /\ pc' = "pinned"
       \/ named # Unknown /\ pc' = "skipped" /\ UNCHANGED <<pinned, reported>>
    /\ UNCHANGED <<stack, Settings>>

\* active_session_id
AskActiveSession ==
    /\ pc = "pinned"
    /\ user' \in {active, NoSession}
    /\ refused' = (user' # active)
    /\ found' = active
    /\ pc' = "next"
    /\ UNCHANGED <<stack, viewer, named, allowCloud, pinned, reported, evalSessions, run,
                   reading, measured>>

-----------------------------------------------------------------------------
(* One run                                                                 *)

Sweep == <<viewer, named, allowCloud, pinned, reported, user, found>>

FinallySkipped == "over"

\* What raises leaves through finally.
Finally == "restore"

Raises ==
    /\ pc' = Finally
    /\ UNCHANGED <<active, profile, switches, evalSessions, run, reading, measured>>

\* start_eval_session, first request: it may be carried out although no answer comes.
CreateSession ==
    /\ pc = "next"
    /\ run < Runs
    /\ \/ /\ sessions' = sessions \cup {run + 1}
          /\ run' = run + 1
          /\ pc' = "created"
          /\ UNCHANGED <<active, profile, switches, evalSessions, reading, measured, refused>>
       \/ /\ sessions' \in {sessions, sessions \cup {run + 1}}
          /\ refused' = (refused \/ sessions' # sessions)
          /\ Raises
    /\ UNCHANGED Sweep

\* start_eval_session, second request: the session is listed for deletion after it.
ActivateSession ==
    /\ pc = "created"
    /\ \/ /\ active' = run
          /\ evalSessions' = Append(evalSessions, run)
          /\ pc' = "post"
          /\ UNCHANGED <<profile, switches, run, reading, measured, refused>>
       \/ refused' = TRUE /\ Raises
    /\ UNCHANGED <<sessions, Sweep>>

\* run_events
PostRun ==
    /\ pc = "post"
    /\ measured' = measured \cup {IF pinned = Unknown THEN profile ELSE pinned}
    /\ pc' = "reading"
    /\ UNCHANGED <<stack, Sweep, evalSessions, run, reading, refused>>

\* raise_for_status, and a planning call whose arguments decode to no object
RunRefused ==
    /\ pc \in {"post", "reading"}
    /\ Raises
    /\ UNCHANGED <<sessions, Sweep, refused>>

Keeps == UNCHANGED <<stack, Sweep, evalSessions, run, followUps, measured, refused, pc>>

\* One that is readable carries a manifest; the arguments of another cannot be read
\* or carry none.
ToolCall ==
    /\ pc = "reading"
    /\ ~viewer
    /\ Len(calls) < MaxEvents
    /\ \E tool \in PlanningTools, readable \in BOOLEAN :
           /\ calls' = Append(calls, [tool |-> tool, readable |-> readable,
                                      returned |-> 0, ok |-> FALSE])
           /\ pending' = IF readable
                           THEN [pending EXCEPT ![tool] = Append(@, Len(calls) + 1)]
                           ELSE pending
    /\ UNCHANGED accepted
    /\ Keeps

Returned == Cardinality({i \in DOMAIN calls : calls[i].returned > 0})

AcceptEvery(ok, manifest) == Append(accepted, manifest)

\* A manifest whose own call came back with an error is no answer.
Accept(ok, manifest) == IF ok THEN Append(accepted, manifest) ELSE accepted

\* The oldest call of its tool that has not come back does so.
ToolReturn ==
    /\ pc = "reading"
    /\ \E i \in DOMAIN calls, ok \in BOOLEAN :
           LET tool == calls[i].tool IN
           /\ calls[i].returned = 0
           /\ \A j \in 1 .. i - 1 : calls[j].tool = tool => calls[j].returned > 0
           /\ calls' = [calls EXCEPT ![i].returned = Returned + 1, ![i].ok = ok]
           /\ IF pending[tool] = <<>>
                THEN UNCHANGED <<pending, accepted>>
                ELSE /\ pending' = [pending EXCEPT ![tool] = Tail(@)]
                     /\ accepted' = Accept(ok, Head(pending[tool]))
    /\ Keeps

\* capture_answer, after the stream has ended or was cut short: a call that never
\* came back stays an answer, of the tool that carried a manifest first.
Leftover ==
    LET earlier == {i \in DOMAIN calls :
                        /\ calls[i].readable /\ calls[i].tool = "run_workflow"
                        /\ \A j \in 1 .. i - 1 : ~calls[j].readable}
        first == IF earlier # {} THEN <<"run_workflow", "plan_workflow">>
                 ELSE <<"plan_workflow", "run_workflow">>
    IN pending[first[1]] \o pending[first[2]]

EndOfStream ==
    /\ pc = "reading"
    /\ accepted' = accepted \o Leftover
    /\ pc' = "captured"
    /\ UNCHANGED <<stack, Sweep, evalSessions, run, calls, pending, followUps, measured,
                   refused>>

\* capture_calls: a viewer task's turn may leave a reply waiting, which goes back as
\* the next message (pending_reply).
FollowUp ==
    /\ pc = "captured"
    /\ viewer
    /\ followUps < MAXIMUM_FOLLOW_UPS
    /\ followUps' = followUps + 1
    /\ pc' = "post"
    /\ UNCHANGED <<stack, Sweep, evalSessions, run, calls, pending, accepted, measured,
                   refused>>

NonePending == [t \in PlanningTools |-> <<>>]

\* score_manifest or score_calls, and the sample is kept.
Score ==
    /\ pc = "captured"
    /\ calls' = <<>> /\ pending' = NonePending /\ accepted' = <<>>
    /\ followUps' = 0
    /\ pc' = "next"
    /\ UNCHANGED <<stack, Sweep, evalSessions, run, measured, refused>>

-----------------------------------------------------------------------------
(* The end of a sweep                                                      *)

AllRun ==
    /\ pc = "next"
    /\ run = Runs
    /\ pc' = "restore"
    /\ UNCHANGED <<stack, Sweep, evalSessions, run, reading, measured, refused>>

\* restore_session
Restore ==
    /\ pc = "restore"
    /\ \/ active' = (IF user = NoSession THEN active ELSE user) /\ UNCHANGED refused
       \/ refused' = TRUE /\ UNCHANGED active
    /\ pc' = "delete"
    /\ UNCHANGED <<sessions, profile, switches, Sweep, evalSessions, run, reading, measured>>

\* delete_sessions: sibyl keeps the active one.
Delete ==
    /\ pc = "delete"
    /\ IF evalSessions = <<>>
         THEN pc' = "over" /\ UNCHANGED <<sessions, active, evalSessions, refused>>
         ELSE /\ \/ /\ active # Head(evalSessions)
                    /\ sessions' = sessions \ {Head(evalSessions)}
                    /\ UNCHANGED refused
                 \/ refused' = TRUE /\ UNCHANGED sessions
              /\ UNCHANGED active
              /\ evalSessions' = Tail(evalSessions)
              /\ UNCHANGED pc
    /\ UNCHANGED <<profile, switches, Sweep, run, reading, measured>>

\* SIGKILL: no finally
Kill ==
    /\ pc \notin {"start", "over", "skipped", "killed"}
    /\ pc' = "killed"
    /\ UNCHANGED <<stack, Sweep, evalSessions, run, reading, measured, refused>>

Init ==
    /\ sessions = Sessions
    /\ active \in Sessions
    /\ profile \in Profiles
    /\ pc = "start"
    /\ viewer \in BOOLEAN
    /\ named \in {Unknown} \cup (IF viewer THEN Profiles ELSE {})
    /\ allowCloud \in BOOLEAN
    /\ pinned = Unknown /\ reported = Unknown
    /\ user = NoSession /\ found = NoSession
    /\ evalSessions = <<>>
    /\ run = 0
    /\ calls = <<>> /\ pending = NonePending /\ accepted = <<>>
    /\ followUps = 0
    /\ measured = {}
    /\ refused = FALSE
    /\ switches = 0

Next ==
    \/ Switch \/ CheckStack \/ PinActiveProfile \/ AskActiveSession
    \/ CreateSession \/ ActivateSession \/ PostRun \/ RunRefused
    \/ ToolCall \/ ToolReturn \/ EndOfStream \/ FollowUp \/ Score
    \/ AllRun \/ Restore \/ Delete \/ Kill

Spec == Init /\ [][Next]_vars

-----------------------------------------------------------------------------

\* Every run of a sweep is on the profile that its report names, whatever sibyl's
\* active profile becomes; without a name in the report nothing is promised
\* (pin_active_profile, run_events).
OneProfileMeasured ==
    reported # Unknown => measured \subseteq {reported}

\* A sweep that is over, whether it finished or a run of it was refused, has left
\* no session behind and the one it found active, when no request about sessions
\* failed and nobody switched (start_eval_session, restore_session,
\* delete_sessions).
SibylLeftAsFound ==
    pc = "over" /\ ~refused =>
        /\ sessions = Sessions
        /\ switches = 0 => active = found

\* "cloud profiles cost credits, so they are opt-in" (README.md): no run is on the
\* cloud's profile without --allow-cloud.  The code checks one reading of the active
\* profile, or none, and pins another (stack_skip_reason, pin_active_profile).
CloudIsOptIn ==
    Cloud \in measured => allowCloud

\* The answer of a turn is the last manifest whose own call came back without an
\* error, or else one whose call never came back, as long as every call could be read
\* and carried one and the results of a tool come back in the order of its calls
\* (capture_answer).
AnswerWasAccepted ==
    LET open == {i \in DOMAIN calls : calls[i].returned = 0}
        good == {i \in DOMAIN calls : calls[i].ok}
    IN (pc = "captured" /\ \A i \in DOMAIN calls : calls[i].readable) =>
           IF accepted = <<>> THEN open = {} /\ good = {}
           ELSE \/ Last(accepted) \in open
                \/ /\ open = {}
                   /\ Last(accepted) \in good
                   /\ \A i \in good : calls[i].returned <= calls[Last(accepted)].returned

\* "Only a manifest whose own call came back without an error counts, and the last of
\* those is the final answer" (capture_answer), whatever else was called.  The code
\* takes the result of a call that carried none for that of the next of its tool.
OwnCallCounts ==
    LET counted == {i \in DOMAIN calls : calls[i].readable /\ calls[i].ok}
    IN (pc = "captured" /\ \A i \in DOMAIN calls : calls[i].returned > 0) =>
           IF accepted = <<>> THEN counted = {} ELSE Last(accepted) \in counted
=============================================================================
