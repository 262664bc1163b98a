---------------------------- MODULE EvalScoring ----------------------------
(***************************************************************************)
(* The scores of the evaluations: a workflow manifest against a golden     *)
(* task (evals/scoring.py) and a viewer call against one                   *)
(* (evals/viewer_scoring.py), next to what the viewer_control tool makes   *)
(* of the same call (agents/tools/viewer_control.py).                      *)
(*                                                                         *)
(* A check is one point, passed or not, and has no name here.  A step      *)
(* has at most one parameter that counts, the set of its value.            *)
(*                                                                         *)
(* Declared and ArgsAlone stand beside TopologicalTransforms and           *)
(* CallArguments: mistakes a change could make.                            *)
(***************************************************************************)
EXTENDS Integers, Sequences, FiniteSets, SequencesExt

CONSTANTS Tasks,       \* golden workflow tasks
          Answers,     \* the manifests of a model, those that do not parse included
          ToolsCalled, \* the tools it called, which a captured manifest does not record
          ViewerTasks, ViewerCalls

VARIABLES question, answer, called, result

vars == <<question, answer, called, result>>

Absent == "absent"

Passed(checks) == Cardinality({i \in DOMAIN checks : checks[i]})

Perfect(checks) == checks # <<>> /\ Passed(checks) = Len(checks)

-----------------------------------------------------------------------------
(* score_manifest                                                          *)

\* values_match: within the task's tolerance
ValuesMatch(want, got, tolerance) ==
    \E w \in want, g \in got : g - w \in -tolerance .. tolerance

\* The i-th is the one that comes after i - 1 others; before holds the pairs.
InOrder(set, before) ==
    [i \in 1 .. Cardinality(set) |->
        CHOOSE x \in set : Cardinality({y \in set : <<y, x>> \in before}) = i - 1]

Greatest(set) == CHOOSE x \in set : \A y \in set : y <= x

\* The last step of a name is the one its name refers to.
ByName(steps, name) ==
    LET named == {i \in DOMAIN steps : steps[i].name = name}
    IN IF named = {} THEN 0 ELSE Greatest(named)

Parents(step) == {step.input} \cup (IF step.join = Absent THEN {} ELSE {step.join})

References(steps) ==
    UNION {{steps[i].name} \cup Parents(steps[i]) : i \in DOMAIN steps}

\* depth() of a name, with what visit makes of the cache when more has been seen: it
\* adds the depth of the name, and on the way those of what it reads.  A source, a
\* dangling reference and a step that is being worked out have none, which counts as 0.
Visited(steps, visit, seen, name, cache) ==
    LET at == ByName(steps, name)
        first == visit[seen \cup {name}][steps[at].input][cache]
        after == IF steps[at].join = Absent THEN first
                 ELSE visit[seen \cup {name}][steps[at].join][first]
    IN IF cache[name] > 0 \/ name \in seen \/ at = 0 THEN cache
       ELSE [after EXCEPT ![name] = 1 + Greatest({after[p] : p \in Parents(steps[at])})]

Visits(steps) ==
    LET references == References(steps)
        visit[seen \in SUBSET references] ==
            [name \in references |->
                [cache \in [references -> Nat] |-> Visited(steps, visit, seen, name, cache)]]
    IN visit

\* The depths of the steps, which are asked for in the order of declaration
Depths(steps) ==
    LET visits == Visits(steps)
        after[n \in 0 .. Len(steps)] ==
            IF n = 0 THEN [name \in References(steps) |-> 0]
            ELSE visits[{}][steps[n].name][after[n - 1]]
    IN after[Len(steps)]

Declared(steps) == steps

\* sorted() by depth and then by the order of declaration
SortedBy(depths, steps) ==
    LET Depth(i) == depths[steps[i].name]
        order == InOrder(DOMAIN steps,
                         {p \in (DOMAIN steps) \X (DOMAIN steps) :
                             \/ Depth(p[1]) < Depth(p[2])
                             \/ Depth(p[1]) = Depth(p[2]) /\ p[1] < p[2]})
    IN [i \in DOMAIN steps |-> steps[order[i]]]

TopologicalTransforms(steps) == SortedBy(Depths(steps), steps)

Earliest(free) ==
    IF free = {} THEN 0 ELSE CHOOSE i \in free : \A j \in free : i <= j

\* Each expected step takes the earliest step of its operation that is not taken
\* yet, and 0 when there is none.
MatchTransforms(expected, steps) ==
    LET pairs[e \in DOMAIN expected] ==
            Earliest({i \in DOMAIN steps : /\ steps[i].operation = expected[e].operation
                                           /\ \A d \in 1 .. e - 1 : pairs[d] # i})
    IN pairs

Times(formats, f) == Cardinality({i \in DOMAIN formats : formats[i] = f})

\* _format_checks: each expected format uses one step's format up.
FormatChecks(expected, formats) ==
    [i \in DOMAIN expected |->
        Cardinality({j \in 1 .. i : expected[j] = expected[i]}) <= Times(formats, expected[i])]

Operations(steps) == {steps[i].operation : i \in DOMAIN steps}

OrderChecks(task, pairs) ==
    IF Len(task.transforms) < 2 \/ ~task.ordered THEN <<>>
    ELSE << /\ \A e \in DOMAIN pairs : pairs[e] # 0
            /\ \A e \in 1 .. Len(pairs) - 1 : pairs[e] <= pairs[e + 1] >>

ParamChecks(task, steps, pairs) ==
    LET pinned == {e \in DOMAIN pairs : task.transforms[e].value # {}}
        order == InOrder(pinned, {p \in pinned \X pinned : p[1] < p[2]})
    IN [k \in DOMAIN order |->
           LET want == task.transforms[order[k]]
               hit == pairs[order[k]]
           IN hit # 0 /\ ValuesMatch(want.value, steps[hit].value, want.tolerance)]

\* _unavailable_checks
UnavailableChecks(task, manifest, tools) ==
    <<task.unavailable \notin Operations(manifest.transforms)>> \o
    (IF tools.recorded THEN <<task.unavailable \in tools.names>> ELSE <<>>)

PipelineChecks(task, manifest, steps, pairs) ==
    <<manifest.parses>>
    \o FormatChecks(task.sources, manifest.sources)
    \o [e \in DOMAIN pairs |-> pairs[e] # 0]
    \o OrderChecks(task, pairs)
    \o ParamChecks(task, steps, pairs)
    \o FormatChecks(task.sinks, manifest.sinks)
    \o (IF manifest.parses THEN <<Operations(steps) \subseteq Operations(task.transforms)>>
        ELSE <<>>)

Matched(task, manifest, steps) ==
    PipelineChecks(task, manifest, steps, MatchTransforms(task.transforms, steps))

\* What does not parse has no steps.
ScoreManifest(task, manifest, tools) ==
    IF task.unavailable # Absent THEN UnavailableChecks(task, manifest, tools)
    ELSE Matched(task, manifest, TopologicalTransforms(manifest.transforms))

-----------------------------------------------------------------------------
(* A viewer_control call: its name, its plain fields, and what args and url *)
(* hold: nothing, an object, an address or text that is neither.            *)

NoObject == <<>>

\* read_arguments or {}
ObjectIn(written) == IF written.kind = "object" THEN written.object ELSE NoObject

\* {**lower, **upper}
Over(upper, lower) ==
    [k \in DOMAIN upper \cup DOMAIN lower |->
        IF k \in DOMAIN upper THEN upper[k] ELSE lower[k]]

Address(call) == [k \in {"url"} |-> call.url.kind]

ArgsAlone(call) == Over(call.fields, ObjectIn(call.args))

\* call_arguments: a plain field counts for more than an object does.
CallArguments(call) ==
    LET written == IF ObjectIn(call.args) # NoObject THEN ObjectIn(call.args)
                   ELSE ObjectIn(call.url)
        address == IF call.url.kind \in {"address", "text"} THEN Address(call) ELSE NoObject
    IN Over(Over(call.fields, address), written)

\* score_call
ScoreCall(task, call) ==
    LET given == CallArguments(call)
        keys == SetToSeq(DOMAIN task.args)
    IN <<call.name = task.name>> \o
       [k \in DOMAIN keys |->
           keys[k] \in DOMAIN given /\ given[keys[k]] = task.args[keys[k]]]

\* score_calls: the best one
ScoreCalls(task, calls) ==
    IF calls = <<>> THEN <<FALSE>> \o [k \in 1 .. Cardinality(DOMAIN task.args) |-> FALSE]
    ELSE LET checks == [c \in DOMAIN calls |-> ScoreCall(task, calls[c])]
         IN checks[CHOOSE b \in DOMAIN checks :
                       /\ \A c \in DOMAIN checks : Passed(checks[c]) <= Passed(checks[b])
                       /\ \A c \in 1 .. b - 1 : Passed(checks[c]) < Passed(checks[b])]

\* The named parameters of the viewer_control function
NamedParameters == {"lon", "lat", "height", "heading", "pitch", "duration", "label",
                    "color", "url", "attribute", "iso"}

\* ViewerControlArgs: args is an object's text or nothing, and what is left in url
\* and the url of an object, in args or written into url, is an address.
ToolAccepts(call) ==
    /\ call.args.kind \in {"nothing", "object"}
    /\ call.url.kind = "object" => call.args.kind = "nothing"
    /\ call.url.kind # "text"
    /\ \A written \in {ObjectIn(call.args), ObjectIn(call.url)} :
           "url" \in DOMAIN written => written["url"] = "address"

\* viewer_control: {**given, **decoded, **parameters}
ToolSends(call) ==
    LET decoded == IF call.args.kind = "nothing" THEN ObjectIn(call.url)
                   ELSE ObjectIn(call.args)
        address == IF call.url.kind = "address" THEN Address(call) ELSE NoObject
        named == DOMAIN call.fields \cap NamedParameters
        Part(keys) == [k \in keys |-> call.fields[k]]
    IN Over(Over(Over(Part(DOMAIN call.fields \ named), decoded), address), Part(named))

-----------------------------------------------------------------------------

Unscored == <<>>

Init ==
    /\ result = Unscored
    /\ \/ question \in Tasks /\ answer \in Answers /\ called \in ToolsCalled
       \/ question \in ViewerTasks /\ answer \in ViewerCalls /\ called = {}

Score ==
    /\ result = Unscored
    /\ result' = IF question \in Tasks THEN ScoreManifest(question, answer, called)
                 ELSE ScoreCalls(question, answer)
    /\ UNCHANGED <<question, answer, called>>

Next == Score

Spec == Init /\ [][Next]_vars

-----------------------------------------------------------------------------

Injective(f) == \A i, j \in DOMAIN f : f[i] = f[j] => i = j

Reads(steps, i) == {j \in DOMAIN steps : steps[j].name \in Parents(steps[i])}

\* What each step reads, directly or through other steps
Upstream(steps) ==
    [i \in DOMAIN steps |->
        {j \in DOMAIN steps :
            \A S \in SUBSET DOMAIN steps :
                (Reads(steps, i) \subseteq S /\ \A k \in S : Reads(steps, k) \subseteq S)
                    => j \in S}]

\* A graph that geodukt can run: names are unique and no step reads itself
Runnable(steps) ==
    /\ \A i, j \in DOMAIN steps : steps[i].name = steps[j].name => i = j
    /\ \A i \in DOMAIN steps : i \notin Upstream(steps)[i]

\* The steps of a manifest that play the expected ones
Casts(task, steps) ==
    {f \in [DOMAIN task.transforms -> DOMAIN steps] :
        /\ Injective(f)
        /\ \A e \in DOMAIN f :
              /\ steps[f[e]].operation = task.transforms[e].operation
              /\ task.transforms[e].value # {} =>
                     ValuesMatch(task.transforms[e].value, steps[f[e]].value,
                                 task.transforms[e].tolerance)}

\* Of a graph that can run, a full score is a pipeline that runs the expected steps,
\* one for each, none before what it reads; a chain of just those steps has one in any
\* order of declaration (topological_transforms, _match_transforms).
PerfectIsThePipeline ==
    (/\ result # Unscored
     /\ question \in Tasks
     /\ answer.parses
     /\ question.unavailable = Absent
     /\ Runnable(answer.transforms)) =>
        LET steps == answer.transforms
            up == Upstream(steps)
            casts == Casts(question, steps)
            wanted == question.transforms
            formats == \A kind \in {"sources", "sinks"} :
                           \A want \in ToSet(question[kind]) :
                               Times(question[kind], want) <= Times(answer[kind], want)
        IN /\ Perfect(result) =>
                  /\ formats
                  /\ \E f \in casts :
                         question.ordered =>
                             \A e, later \in DOMAIN f : e < later => f[later] \notin up[f[e]]
           /\ (/\ formats
               /\ Len(steps) = Len(wanted)
               /\ \E f \in casts : \A e \in 2 .. Len(wanted) :
                                       steps[f[e]].input = steps[f[e - 1]].name)
                  => Perfect(result)

\* Nothing written twice, in a plain field and in an object
WrittenOnce(call) ==
    DOMAIN call.fields \cap (DOMAIN ObjectIn(call.args) \cup DOMAIN ObjectIn(call.url)) = {}

\* "The tool accepts all three, so the scorer reads all three": of an answer whose
\* calls the tool accepts, with nothing written twice in one, the score is full when
\* a call sends the viewer what the task asks for, and only then (call_arguments,
\* viewer_control).
PerfectIsWhatTheViewerRuns ==
    LET Does(call) == /\ call.name = question.name
                      /\ \A k \in DOMAIN question.args :
                             k \in DOMAIN ToolSends(call)
                                 /\ ToolSends(call)[k] = question.args[k]
    IN (/\ result # Unscored
        /\ question \in ViewerTasks
        /\ \A c \in DOMAIN answer : ToolAccepts(answer[c]) /\ WrittenOnce(answer[c]))
           => (Perfect(result) <=> \E c \in DOMAIN answer : Does(answer[c]))
=============================================================================
