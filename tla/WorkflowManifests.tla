------------------------- MODULE WorkflowManifests -------------------------
(***************************************************************************)
(* What a workflow manifest says from the plan to the report: its paths    *)
(* confined to the caller's files (agents/tools/_geodukt.py over           *)
(* core/utils.py), the plan that plan_workflow shows, the text that        *)
(* run_workflow posts to geodukt and the report it makes of the answer.    *)
(*                                                                         *)
(* One caller, Me, and a record of plans that forgets nothing (what it     *)
(* forgets, and for whom, is PlannedManifests').  A path is the sequence   *)
(* of its parts, below EXEC_DIR when the first is not "/"; a file has one  *)
(* name, with or without its extension.  geodukt is external.              *)
(*                                                                         *)
(* DigestOfTheGiven and OnceMore stand beside Digest and PrefixIntoCaller: *)
(* mistakes a change could make.                                           *)
(***************************************************************************)
EXTENDS Integers, Sequences, FiniteSets, SequencesExt

CONSTANTS Me,        \* the name of the caller's directories
          Manifests, \* what the model or the viewer sends
          Places,    \* where files come and go
          MaxPlans   \* the plans of a behaviour

VARIABLES files,     \* the paths that exist
          planned, approved,
          shown,     \* history: the plans the user has seen
          posted,    \* history: the text of the last run that reached geodukt, if any
          wrote,     \* history: the paths that the last run wrote
          report     \* the paths that its report offers

vars == <<files, planned, approved, shown, posted, wrote, report>>

Refused == [refused |-> TRUE]

Outputs == <<"outputs", Me>>
UserData == <<"user_data", Me>>
SharedSet == <<"natural_earth", "10m">>

-----------------------------------------------------------------------------
(* Looking a name up (core/utils.py)                                       *)

Below(dir, path) == IsStrictPrefix(dir, path)

\* natural_earth_dirs: the shared set, and the caller's own copy of one
NaturalEarthDirs ==
    LET Downloaded(dir) == IF \E f \in files : Below(dir, f) THEN <<dir>> ELSE <<>>
    IN Downloaded(SharedSet) \o Downloaded(Outputs \o SharedSet)

\* The directories that uploaded archives were unpacked into
Unpacked ==
    {SubSeq(f, 1, n) : f \in {g \in files : Below(UserData, g)}, n \in {3}} \ files

\* layer_search_dirs
LayerSearchDirs == <<Outputs, UserData>> \o SetToSeq(Unpacked) \o NaturalEarthDirs

\* resolve_under and name_candidates: each directory is tried with the name as it
\* is and with its last part.
ToolInputPath(path) ==
    LET dirs == LayerSearchDirs
        first == SelectInSeq(dirs, LAMBDA dir : \/ dir \o path \in files
                                                \/ dir \o <<Last(path)>> \in files)
    IN CASE first = 0 -> Refused
         [] first # 0 /\ dirs[first] \o path \in files -> dirs[first] \o path
         [] OTHER -> dirs[first] \o <<Last(path)>>

\* path_inside_directory
ToolOutputPath(path) == IF Len(path) = 1 THEN Outputs \o path ELSE Refused

-----------------------------------------------------------------------------
(* Confining a manifest                                                    *)

OnceMore(path) == <<path[1], Me>> \o Tail(path)

\* _prefix_into_caller
PrefixIntoCaller(path) ==
    IF Len(path) > 1 /\ path[2] = Me THEN path ELSE <<path[1], Me>> \o Tail(path)

\* confine_workflow_path
ConfinePath(path, sink) ==
    IF Contains(path, "..") THEN Refused
    ELSE CASE path[1] = "/" ->
                IF IsPrefix(Outputs, Tail(path)) \/ IsPrefix(UserData, Tail(path))
                  THEN Tail(path) ELSE Refused
           [] path[1] \in {"outputs", "user_data"} -> PrefixIntoCaller(path)
           [] OTHER -> IF sink THEN ToolOutputPath(path) ELSE ToolInputPath(path)

\* An entry without a path is passed over.
ConfineEntries(entries, sink) ==
    [i \in DOMAIN entries |->
        IF entries[i].path = <<>> THEN entries[i]
        ELSE [entries[i] EXCEPT !.path = ConfinePath(@, sink)]]

\* What is parsed, with its paths confined
ConfinedEntries(m) ==
    [m EXCEPT !.sources = ConfineEntries(@, FALSE), !.sinks = ConfineEntries(@, TRUE)]

\* The lines of the text: a path under a quoted key or in an inline table stays.
Rewritten(written, confined) ==
    [i \in DOMAIN written |->
        IF written[i].line THEN confined[i] ELSE written[i]]

\* require_paths_were_rewritten
PathsWereRewritten(text, confined) ==
    text.sources = confined.sources /\ text.sinks = confined.sinks

\* confine_manifest: the text, or a refusal
ConfineManifest(m) ==
    LET confined == ConfinedEntries(m)
        all == confined.sources \o confined.sinks
        text == [m EXCEPT !.sources = Rewritten(@, confined.sources),
                          !.sinks = Rewritten(@, confined.sinks)]
    IN IF \/ \E i \in DOMAIN all : all[i].path = Refused
          \/ ~PathsWereRewritten(text, confined)
         THEN Refused ELSE text

DigestOfTheGiven(text, given) == given

\* What a record of a plan is found by: the confined text
Digest(text, given) == text

-----------------------------------------------------------------------------
(* plan_workflow                                                           *)

\* manifest_steps, each with what it reads
ManifestSteps(m) ==
    LET Of(entries, kind) ==
            [i \in DOMAIN entries |->
                [kind |-> kind, name |-> entries[i].name, input |-> entries[i].input,
                 path |-> IF kind = "transform" THEN <<>> ELSE entries[i].path]]
    IN Of(m.sources, "source") \o Of(m.transforms, "transform") \o Of(m.sinks, "sink")

Names(steps) == {steps[i].name : i \in DOMAIN steps}

\* The orders that geodukt may report: none, one that names every step after what
\* it reads, or one that leaves a step out
Orders(steps) ==
    LET full == {s \in SetToSeqs(Names(steps)) :
                    \A i, j \in DOMAIN s : \A k \in DOMAIN steps :
                        steps[k].name = s[i] /\ steps[k].input = s[j] => j < i}
    IN {<<>>} \cup full \cup {Tail(s) : s \in {t \in full : t # <<>>}}

\* order_steps: a stable sort
OrderSteps(steps, order) ==
    LET Rank(i) == SelectInSeq(order, LAMBDA name : name = steps[i].name)
        Sorts(p) == \A i, j \in DOMAIN steps :
                        i < j => \/ Rank(p[i]) < Rank(p[j])
                                 \/ Rank(p[i]) = Rank(p[j]) /\ p[i] < p[j]
    IN IF Names(steps) \subseteq ToSet(order)
         THEN {[i \in DOMAIN steps |-> steps[p[i]]] :
                  p \in {q \in Bijection(DOMAIN steps, DOMAIN steps) : Sorts(q)}}
         ELSE {steps}

\* plan_payload, from what was parsed
PlanPayload(m, steps, order) ==
    LET Paths(kind) == {steps[i].path : i \in {j \in DOMAIN steps : steps[j].kind = kind}}
    IN [manifest |-> m, steps |-> steps, ordered |-> Names(steps) \subseteq ToSet(order),
        datasets |-> Paths("source") \ {<<>>}, outputs |-> Paths("sink") \ {<<>>}]

\* geodukt accepts the manifest, or has no /validate and the plan is shown without
\* an order.  A refused path, a rejected manifest, one without steps and a geodukt
\* that cannot be reached are answered with an error that changes nothing.
PlanWorkflow(m) ==
    \E text \in {ConfineManifest(m)}, steps \in {ManifestSteps(ConfinedEntries(m))} :
       /\ Cardinality(shown) < MaxPlans
       /\ text # Refused
       /\ steps # <<>>
       /\ planned' = planned \cup {Digest(text, m)}
       /\ approved' = approved \ {Digest(text, m)}
       /\ \E order \in Orders(steps) : \E listed \in OrderSteps(steps, order) :
              shown' = shown \cup {PlanPayload(text, listed, order)}
       /\ UNCHANGED <<files, posted, wrote, report>>

\* approve_workflow, with the manifest of a plan that is shown
ApproveWorkflow(m) ==
    \E text \in {ConfineManifest(m)} :
        /\ text # Refused
        /\ Digest(text, m) \in planned
        /\ approved' = approved \cup {Digest(text, m)}
        /\ UNCHANGED <<files, planned, shown, posted, wrote, report>>

-----------------------------------------------------------------------------
(* run_workflow                                                            *)

\* The run records that geodukt may answer with: done is what ran, in some order,
\* and the next step failed unless everything did.  Older builds report no steps.
Records(text) ==
    LET steps == ManifestSteps(text)
        all == Names(steps)
        Closed(done) == \A i \in DOMAIN steps :
                            steps[i].name \in done /\ steps[i].input \in all
                                => steps[i].input \in done
    IN {[done |-> done, completed |-> done = all, steps |-> listed] :
            done \in {d \in SUBSET all : Closed(d)}, listed \in BOOLEAN}

SinkPaths(text, names) ==
    {e.path : e \in {f \in ToSet(text.sinks) : f.name \in names /\ f.path # <<>>}}

\* run_payload: written
Written(record, sink) ==
    record.completed /\ (record.steps => sink.name \in record.done)

\* The record comes back, in a 4xx when the run failed.
RunWorkflow(m) ==
    \E text \in {ConfineManifest(m)} :
        /\ text # Refused
        /\ Digest(text, m) \in planned
        /\ Digest(text, m) \in approved
        /\ posted' = {text}
        /\ \E record \in Records(text) :
               /\ wrote' = SinkPaths(text, record.done)
               /\ files' = files \cup wrote'
               /\ \/ report' = {e.path : e \in {s \in ToSet(text.sinks) :
                                                  s.path # <<>> /\ Written(record, s)}}
                  \* a refusal, an answer that is no record, or none in ten minutes
                  \/ report' = {}
        /\ UNCHANGED <<planned, approved, shown>>

-----------------------------------------------------------------------------

\* Uploads, downloads and other tools
FileAppears(path) ==
    /\ files' = files \cup {path}
    /\ UNCHANGED <<planned, approved, shown, posted, wrote, report>>

FileGoes(path) ==
    /\ files' = files \ {path}
    /\ UNCHANGED <<planned, approved, shown, posted, wrote, report>>

Init ==
    /\ files \in SUBSET Places
    /\ planned = {} /\ approved = {} /\ shown = {}
    /\ posted = {} /\ wrote = {} /\ report = {}

Next ==
    \/ \E m \in Manifests : PlanWorkflow(m) \/ RunWorkflow(m)
    \/ \E p \in shown : ApproveWorkflow(p.manifest) \/ RunWorkflow(p.manifest)
    \/ \E path \in Places \ files : FileAppears(path)
    \/ \E path \in Places \cap files : FileGoes(path)

Spec == Init /\ [][Next]_vars

-----------------------------------------------------------------------------

PathsOf(entries) == {e.path : e \in ToSet(entries)} \ {<<>>}

\* What geodukt is given to run reads and writes what a plan has shown, whatever
\* files have come and gone since and however the paths were written; it reads the
\* caller's files and the shared sets and writes the caller's, and the report offers
\* no file that the run did not write (confine_manifest, run_workflow, run_payload).
RunsAsShown ==
    /\ report \subseteq wrote
    /\ \A text \in posted :
           /\ \E p \in shown : /\ p.datasets = PathsOf(text.sources)
                               /\ p.outputs = PathsOf(text.sinks)
           /\ \A path \in PathsOf(text.sources) :
                  \E root \in {Outputs, UserData, SharedSet} : IsPrefix(root, path)
           /\ \A path \in PathsOf(text.sinks) :
                  \E root \in {Outputs, UserData} : IsPrefix(root, path)

\* A plan that is shown can be approved and run as it stands: its manifest is
\* confined to itself, as long as nothing of the caller's has taken the name of a
\* shared dataset it reads, and that is still there.  In geodukt's order it lists
\* no step before what that reads (confine_workflow_path, order_steps).
ShownPlanIsItself ==
    \A p \in shown :
        /\ (\A path \in p.datasets : IsPrefix(SharedSet, path) =>
                /\ path \in files
                /\ ~\E f \in files : /\ IsPrefix(Outputs, f) \/ IsPrefix(UserData, f)
                                     /\ Last(f) = Last(path))
               => ConfineManifest(p.manifest) = p.manifest
        /\ p.ordered =>
               \A i, j \in DOMAIN p.steps : p.steps[i].input = p.steps[j].name => j < i
=============================================================================
