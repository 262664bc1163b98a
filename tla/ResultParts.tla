----------------------------- MODULE ResultParts -----------------------------
(***************************************************************************)
(* What gives one answer to what it is asked: the evaluations' scoring and *)
(* the tools about sites and layers.                                       *)
(***************************************************************************)
EXTENDS Integers, Sequences, FiniteSets

CONSTANTS GoldenTasks, ModelAnswers, ToolRecords, GoldenViewerTasks, ViewerAnswers,
          SiteRequests, MAX_LOCATIONS, MAX_NAMED, MAX_CELLS,
          LayerRequests, SmallPlane, PADDING

CallsSent == UNION {{calls[c] : c \in DOMAIN calls} : calls \in ViewerAnswers}

IsSequence(s) == s \in Seq({s[i] : i \in DOMAIN s})

IsPipeline(p) == IsSequence(p.sources) /\ IsSequence(p.transforms) /\ IsSequence(p.sinks)

\* A golden task is of one of the two kinds, tasks and manifests are lists of steps,
\* and the url of a viewer call is not one of its plain fields.
ASSUME ResultAssumption ==
    /\ GoldenTasks \cap GoldenViewerTasks = {}
    /\ \A task \in GoldenTasks : IsPipeline(task)
    /\ \A manifest \in ModelAnswers : IsPipeline(manifest) /\ manifest.parses \in BOOLEAN
    /\ \A task \in GoldenViewerTasks : IsFiniteSet(DOMAIN task.args)
    /\ ViewerAnswers \subseteq Seq(CallsSent)
    /\ \A call \in CallsSent : "url" \notin DOMAIN call.fields

\* What may be missing is at most one value; places are pairs of whole numbers, and
\* a boundary is made of places of the plane.
ASSUME LayerAssumption ==
    /\ SmallPlane \subseteq Int \X Int /\ IsFiniteSet(SmallPlane)
    /\ \A q \in LayerRequests :
           \/ /\ q.tool = "aggregate_by_region"
              /\ \A r \in DOMAIN q.regions : \A a, b \in q.regions[r].label : a = b
              /\ IsFiniteSet(DOMAIN q.features)
              /\ \A f \in DOMAIN q.features :
                     /\ q.features[f].value \subseteq Int
                     /\ \A a, b \in q.features[f].value : a = b
           \/ q.tool = "compare_layers"
           \/ q.tool = "cluster_points" /\ q.labels \in Seq(Int)
           \/ /\ q.tool = "voronoi"
              /\ q.points \in Seq(Int \X Int)
              /\ UNION q.boundary \subseteq SmallPlane

\* A source gives a whole number or nothing, a pair of coordinates is found at once,
\* and the times are finitely many whole numbers of minutes.
ASSUME SiteAssumption ==
    /\ MAX_LOCATIONS \in Nat \ {0} /\ MAX_NAMED \in Nat /\ MAX_CELLS \in Nat \ {0}
    /\ \A q \in SiteRequests :
           /\ q.tool = "batch_geocode" => IsSequence(q.lines)
           /\ q.tool \in {"calculate_isochrones", "trade_area"} =>
                  q.times \subseteq Int /\ IsFiniteSet(q.times)
           /\ q.tool \in {"trade_area", "score_sites"} => IsSequence(q.sites)
           /\ q.tool = "trade_area" => \A i \in DOMAIN q.sites : q.sites[i].pair => q.sites[i].found
           /\ q.tool = "score_sites" =>
                  /\ IsSequence(q.criteria) /\ q.weights \in Seq(Int)
                  /\ \A i \in DOMAIN q.sites :
                         LET s == q.sites[i] IN
                         /\ s.rivals \in Int /\ s.anchors \in Int
                         /\ s.worldpop \subseteq Int /\ s.elevation \subseteq Int
                         /\ \A a, b \in s.worldpop : a = b
                         /\ \A a, b \in s.elevation : a = b
           /\ q.tool = "assess_environmental_risk" =>
                  /\ IsSequence(q.samples)
                  /\ \A b \in DOMAIN q.samples :
                         /\ IsSequence(q.samples[b])
                         /\ \A k \in DOMAIN q.samples[b] : q.samples[b][k] \subseteq Seq(Int)
           /\ q.tool = "service_gap" =>
                  /\ q.width \in Nat /\ q.resolution \in Int /\ q.radius \in Int
                  /\ q.facilities \subseteq Int /\ IsFiniteSet(q.facilities)

VARIABLES question, answer, called, result,
          request, toolAnswer,
          layerRequest, layerAnswer

scoringVars == <<question, answer, called, result>>
siteVars == <<request, toolAnswer>>
layerVars == <<layerRequest, layerAnswer>>

Scoring == INSTANCE EvalScoring
               WITH Tasks <- GoldenTasks, Answers <- ModelAnswers, ToolsCalled <- ToolRecords,
                    ViewerTasks <- GoldenViewerTasks, ViewerCalls <- ViewerAnswers
Sites == INSTANCE SiteTools WITH answer <- toolAnswer, Requests <- SiteRequests
Layers == INSTANCE LayerTools
              WITH request <- layerRequest, answer <- layerAnswer,
                   Requests <- LayerRequests, Plane <- SmallPlane
=============================================================================
