------------------------------ MODULE AgentRun ------------------------------
(***************************************************************************)
(* agent_event_stream and agui_stream (api/server.py): one run of the      *)
(* agent, as the viewer's browser sees it.                                 *)
(*                                                                         *)
(* A thread reads sibyl's answer line by line and puts every event into a  *)
(* queue of the event loop; the stream takes them out, sends the frames    *)
(* they stand for and, when the run is over, the map.  sibyl, its model    *)
(* and its tools are external: any line may come next, the connection may  *)
(* break, nothing may come for a long time, and the browser may go away.   *)
(*                                                                         *)
(* ErrorFirst and PlanDrawn stand beside LastFrames and FinalSpec:         *)
(* mistakes a change could make, which the properties tell from the code.  *)
(***************************************************************************)
EXTENDS Naturals, Sequences, SequencesExt

CONSTANTS Events,        \* what a line of sibyl's answer may hold
          MaxLines,      \* bound: lines of one answer
          MaxKeepalives  \* bound: keepalives sent

VARIABLES thread,    \* run_in_thread: "connecting", "reading" or "ended"
          queue,     \* q
          stream,    \* where the stream is
          lines,     \* lines read so far
          content,   \* the layer files named in all_content
          replies,   \* those named in each of assistant_texts
          spec,      \* ui_spec: "none", "told" by a tool or "inferred"
          planned,   \* planned
          failed,    \* run_error is not None
          frames,    \* what went to the browser
          taken,     \* history: the events the stream took from the queue
          keepalives

reader == <<thread, lines>>
gathered == <<content, replies, spec, planned, failed, taken>>
vars == <<thread, queue, stream, lines, content, replies, spec, planned, failed,
          frames, taken, keepalives>>

ThreadError == [kind |-> "__error__"]
EndOfRun == [kind |-> "None"]

Told(e) == e.kind \in {"text", "tool_return"}

-----------------------------------------------------------------------------
(* run_in_thread                                                           *)

Connect ==
    /\ thread = "connecting"
    /\ thread' = "reading"
    /\ UNCHANGED <<queue, stream, lines, gathered, frames, keepalives>>

ReadLine(e) ==
    /\ thread = "reading"
    /\ lines < MaxLines
    /\ lines' = lines + 1
    /\ queue' = Append(queue, e)
    /\ UNCHANGED <<thread, stream, gathered, frames, keepalives>>

\* No connection, a status that is an error, a broken one, a line that is not JSON.
ThreadFails ==
    /\ thread \in {"connecting", "reading"}
    /\ thread' = "ended"
    /\ queue' = queue \o <<ThreadError, EndOfRun>>
    /\ UNCHANGED <<stream, lines, gathered, frames, keepalives>>

\* sibyl closes its answer, with a done event before or without one.
AnswerEnds ==
    /\ thread = "reading"
    /\ thread' = "ended"
    /\ queue' = Append(queue, EndOfRun)
    /\ UNCHANGED <<stream, lines, gathered, frames, keepalives>>

-----------------------------------------------------------------------------
(* render_agui_event: the frames of what the stream yields.                *)

If(condition, names) == IF condition THEN names ELSE <<>>

TextFrames == <<"TEXT_MESSAGE_START", "TEXT_MESSAGE_CONTENT", "TEXT_MESSAGE_END">>

FramesOf(e) ==
    If(e.kind = "tool_call", <<"progress">>)
    \o If(Told(e), If(e.kind = "tool_return" /\ e.refused, <<"progress">>)
                   \o If(e.command, <<"viewer_cmd">>)
                   \o If(e.plan, <<"plan">>)
                   \o If(e.report, <<"run">>)
                   \o If(e.kind = "text", TextFrames))

\* RUN_STARTED, and the first pull on the events starts the thread.
Start ==
    /\ stream = "new"
    /\ stream' = "waiting"
    /\ thread' = "connecting"
    /\ frames' = <<"RUN_STARTED">>
    /\ UNCHANGED <<queue, lines, gathered, keepalives>>

Keepalive ==
    /\ stream = "waiting"
    /\ queue = <<>>
    /\ keepalives < MaxKeepalives
    /\ keepalives' = keepalives + 1
    /\ frames' = Append(frames, "keepalive")
    /\ UNCHANGED <<reader, queue, stream, gathered>>

\* A tool that lists outputs names files of earlier runs, which are not this
\* run's; an event of no known kind changes nothing.
TakeEvent ==
    /\ stream = "waiting"
    /\ queue # <<>>
    /\ LET e == Head(queue)
           told == Told(e)
       IN /\ frames' = frames \o FramesOf(e)
          /\ taken' = Append(taken, e)
          /\ content' = IF told /\ ~e.lists THEN content \cup e.names ELSE content
          /\ replies' = IF e.kind = "text" THEN Append(replies, e.names) ELSE replies
          /\ spec' = IF told /\ e.spec /\ spec = "none" THEN "told" ELSE spec
          /\ planned' = (planned \/ (told /\ e.plan))
          /\ failed' = (failed \/ e.kind \in {"error", "__error__"})
          /\ stream' = IF e.kind \in {"None", "__error__", "error", "done"}
                         THEN "closing" ELSE "waiting"
    /\ queue' = Tail(queue)
    /\ UNCHANGED <<reader, keepalives>>

\* The inferred map: of the files the run named, those its replies name, when
\* there are any replies.
Inferred ==
    LET mentioned == UNION Range(replies)
    IN IF replies = <<>> THEN content ELSE content \cap mentioned

PlanDrawn == IF spec = "none" /\ Inferred # {} THEN "inferred" ELSE spec

FinalSpec ==
    IF spec = "none" /\ ~planned /\ Inferred # {} THEN "inferred" ELSE spec

ErrorFirst ==
    If(failed, <<"RUN_ERROR">>)
    \o If(FinalSpec # "none", <<"ui_spec">>)
    \o If(~failed, <<"RUN_FINISHED">>)

\* What follows the loop: RUN_ERROR is terminal, so the map goes before it.
LastFrames ==
    If(FinalSpec # "none", <<"ui_spec">>)
    \o (IF failed THEN <<"RUN_ERROR">> ELSE <<"RUN_FINISHED">>)

Close ==
    /\ stream = "closing"
    /\ spec' = FinalSpec
    /\ frames' = frames \o LastFrames
    /\ stream' = "ended"
    /\ UNCHANGED <<reader, queue, content, replies, planned, failed, taken, keepalives>>

\* The inference reads the caller's directory, and what it raises ends the run.
CloseRaises ==
    /\ stream = "closing"
    /\ spec = "none" /\ ~planned
    /\ failed' = TRUE
    /\ frames' = Append(frames, "RUN_ERROR")
    /\ stream' = "ended"
    /\ UNCHANGED <<reader, queue, content, replies, spec, planned, taken, keepalives>>

\* The browser closes its connection: the generators are closed, the thread
\* reads on until sibyl is done and nobody takes what it puts.
BrowserGone ==
    /\ stream \in {"waiting", "closing"}
    /\ stream' = "gone"
    /\ UNCHANGED <<reader, queue, gathered, frames, keepalives>>

Init ==
    /\ thread = "new" /\ queue = <<>> /\ stream = "new" /\ lines = 0
    /\ content = {} /\ replies = <<>> /\ spec = "none" /\ planned = FALSE
    /\ failed = FALSE /\ frames = <<>> /\ taken = <<>> /\ keepalives = 0

Next ==
    \/ Connect
    \/ \E e \in Events : ReadLine(e)
    \/ ThreadFails
    \/ AnswerEnds
    \/ Start
    \/ Keepalive
    \/ TakeEvent
    \/ Close
    \/ CloseRaises
    \/ BrowserGone

Spec == Init /\ [][Next]_vars

-----------------------------------------------------------------------------

Terminal == {"RUN_FINISHED", "RUN_ERROR"}

Places(name) == {i \in DOMAIN frames : frames[i] = name}

\* What AG-UI asks of a stream, whatever sibyl sends and whenever it fails: it
\* opens with RUN_STARTED, a message's three frames stand together, one terminal
\* frame ends it and nothing follows, and it says error exactly when the run
\* met one (agui_stream, render_agui_event).
StreamWellFormed ==
    /\ frames # <<>> => frames[1] = "RUN_STARTED"
    /\ \A i \in DOMAIN frames :
           /\ frames[i] = TextFrames[1] =>
                  i + 2 <= Len(frames) /\ SubSeq(frames, i, i + 2) = TextFrames
           /\ frames[i] \in Terminal => i = Len(frames) /\ stream = "ended"
    /\ stream = "ended" =>
           frames[Len(frames)] = (IF failed THEN "RUN_ERROR" ELSE "RUN_FINISHED")

\* A map that a tool announced before the run ended is sent, once, however the
\* run ended; and files that a plan only names are never drawn as if they were
\* there ("an aborted run still gets the map its tools wrote", "a plan names
\* output files that do not exist yet").
MapOutlivesTheRun ==
    LET announced == \E i \in DOMAIN taken : Told(taken[i]) /\ taken[i].spec
        plans == \E i \in DOMAIN taken : Told(taken[i]) /\ taken[i].plan
    IN stream = "ended" =>
           /\ announced => \E i \in DOMAIN frames : Places("ui_spec") = {i}
           /\ plans /\ ~announced => Places("ui_spec") = {}
=============================================================================
