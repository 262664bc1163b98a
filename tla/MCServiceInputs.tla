--------------------------- MODULE MCServiceInputs ---------------------------
(***************************************************************************)
(* What the parts of MCService are given: tools, events, files, manifests, *)
(* golden tasks and requests about sites.                                  *)
(***************************************************************************)
EXTENDS Integers, Sequences, FiniteSets, TLC

(* CallerTokens: a reader of the geodatabase, run_workflow,                *)
(* approve_workflow, sql_query and a module without a schema               *)

Tool(scopes, schema, callerCode, approvalRoute, needsApproval) ==
    [scopes |-> scopes, schema |-> schema, callerCode |-> callerCode,
     approvalRoute |-> approvalRoute, needsApproval |-> needsApproval]

MCTools ==
    {Tool({"ptolemy:read"}, TRUE, FALSE, FALSE, FALSE),
     Tool({"geodukt:run"}, TRUE, FALSE, FALSE, TRUE),
     Tool({}, TRUE, FALSE, TRUE, FALSE),
     Tool({}, TRUE, TRUE, FALSE, FALSE),
     Tool({}, FALSE, FALSE, FALSE, FALSE)}

(* AgentRun: a reply with and without a file, a map, a plan, a listing of  *)
(* old files, a refusal by the limits, and the events that are not said by *)
(* a tool or the agent                                                     *)

Said(kind, hasSpec, hasPlan, names) ==
    [kind |-> kind, lists |-> FALSE, refused |-> FALSE, spec |-> hasSpec,
     command |-> hasSpec, plan |-> hasPlan, report |-> hasPlan, names |-> names]

MCEvents ==
    {[kind |-> "tool_call"], [kind |-> "error"], [kind |-> "done"],
     Said("text", FALSE, FALSE, {"roads"}), Said("text", FALSE, FALSE, {}),
     Said("tool_return", TRUE, FALSE, {"roads"}),
     Said("tool_return", FALSE, TRUE, {"planned"}),
     [Said("tool_return", FALSE, FALSE, {"old"}) EXCEPT !.lists = TRUE],
     [Said("tool_return", FALSE, FALSE, {"roads"}) EXCEPT !.refused = TRUE]}

(* CallerFiles: two layers of one stem, archives with and without a layer, *)
(* one named like the catalogue, a suffix that is not taken, broken bytes  *)

File(stem, suffix, inner, flaw) ==
    [stem |-> stem, suffix |-> suffix, inner |-> inner, flaw |-> flaw]

MCSentFiles ==
    {File("roads", "gpkg", "none", "none"), File("roads", "csv", "none", "none"),
     File("b", "zip", "roads", "none"), File("b", "zip", "none", "none"),
     File("catalogue", "json", "none", "none"), File("roads", "txt", "none", "suffix"),
     File("roads", "gpkg", "none", "bytes")}

(* WorkflowManifests                                                       *)

Entry(name, input, path, line) ==
    [name |-> name, input |-> input, path |-> path, line |-> line]

Manifest(source, sourceLine, sink, sinkLine) ==
    [sources |-> <<Entry("in", "none", source, sourceLine)>>,
     transforms |-> <<[name |-> "wide", input |-> "in"]>>,
     sinks |-> <<Entry("out", "wide", sink, sinkLine)>>]

TwoSteps == <<[name |-> "wide", input |-> "narrow"], [name |-> "narrow", input |-> "in"]>>

MCWrittenManifests ==
    {Manifest(<<"natural_earth", "10m", "coast">>, TRUE, <<"outputs", "me", "out">>, TRUE),
     [Manifest(<<"/", "outputs", "me", "coast">>, TRUE, <<"user_data", "out">>, TRUE)
         EXCEPT !.transforms = TwoSteps],
     Manifest(<<"coast">>, TRUE, <<"out">>, TRUE),
     Manifest(<<"outputs", "coast">>, TRUE, <<"outputs", "me", "out">>, FALSE),
     Manifest(<<"..", "coast">>, TRUE, <<"out">>, TRUE),
     Manifest(<<"outputs", "coast">>, TRUE, <<"x", "out">>, TRUE)}

MCCoastPlaces ==
    {<<"outputs", "me", "coast">>, <<"user_data", "me", "zip", "coast">>,
     <<"natural_earth", "10m", "coast">>}

(* EvalScoring                                                             *)

Want(operation, value, tolerance) ==
    [operation |-> operation, value |-> value, tolerance |-> tolerance]

Buffer == Want("buffer", {2}, 1)
Dissolve == Want("dissolve", {}, 0)

Golden(transforms, ordered, unavailable) ==
    [sources |-> <<"geojson">>, transforms |-> transforms, sinks |-> <<"gpkg", "gpkg">>,
     ordered |-> ordered, unavailable |-> unavailable]

MCGoldenTasks ==
    {Golden(<<Buffer, Dissolve>>, TRUE, "absent"), Golden(<<Buffer, Dissolve>>, FALSE, "absent"),
     Golden(<<Buffer, Buffer>>, FALSE, "absent"), Golden(<<>>, TRUE, "dissolve"),
     Golden(<<Buffer, Dissolve, Buffer>>, TRUE, "absent")}

Step(name, input, join, operation, value) ==
    [name |-> name, input |-> input, join |-> join, operation |-> operation, value |-> value]

SingleSteps ==
    {Step(n, i, "absent", op[1], op[2]) :
        n \in {"a", "b"}, i \in {"src", "a", "b"},
        op \in {<<"buffer", {1}>>, <<"buffer", {4}>>, <<"dissolve", {}>>}}

Chains ==
    {<<Step(n[1], i[1], "absent", "buffer", {2}), Step(n[2], i[2], j, "dissolve", {}),
       Step(n[3], i[3], "absent", o, {3})>> :
        n \in {<<"a", "b", "c">>, <<"c", "a", "b">>, <<"b", "b", "c">>},
        i \in {"src", "a", "b", "c"} \X {"src", "a", "b"} \X {"src", "a", "b"},
        o \in {"buffer", "dissolve"}, j \in {"absent", "c"}}

StepLists ==
    {<<>>} \cup {<<s>> : s \in SingleSteps} \cup (SingleSteps \X SingleSteps) \cup Chains

Formats ==
    {[sources |-> <<"geojson">>, sinks |-> <<"gpkg", "gpkg">>],
     [sources |-> <<"geojson">>, sinks |-> <<"gpkg", "csv">>],
     [sources |-> <<>>, sinks |-> <<"gpkg", "gpkg">>]}

MCModelAnswers ==
    {[parses |-> FALSE, sources |-> <<>>, transforms |-> <<>>, sinks |-> <<>>]} \cup
    {[parses |-> TRUE, sources |-> f.sources, transforms |-> s, sinks |-> f.sinks] :
        f \in Formats, s \in StepLists}

MCToolRecords == {[recorded |-> TRUE, names |-> {"dissolve"}], [recorded |-> FALSE, names |-> {}]}

Nothing == [kind |-> "nothing"]
Object(o) == [kind |-> "object", object |-> o]

ViewerCall(name, fields, args, url) ==
    [name |-> name, fields |-> fields, args |-> args, url |-> url]

Fields == {<<>>, "layer" :> "roads", "lon" :> "1", ("layer" :> "roads") @@ ("lon" :> "2")}

ShowCalls ==
    {ViewerCall("show", f, a, u) :
        f \in Fields,
        a \in {Nothing, [kind |-> "text"], Object(<<>>), Object("layer" :> "roads"),
               Object("lon" :> "1"), Object("url" :> "address")},
        u \in {Nothing, [kind |-> "address"], [kind |-> "text"],
               Object("layer" :> "roads"), Object("lon" :> "1"), Object("url" :> "text")}}

HideCalls == {ViewerCall("hide", f, Nothing, Nothing) : f \in Fields}

MCViewerAnswers ==
    {<<>>} \cup {<<c>> : c \in ShowCalls \cup HideCalls} \cup
    ((ShowCalls \cup HideCalls) \X
         (HideCalls \cup {c \in ShowCalls : c.fields = <<>>}))

MCGoldenViewerTasks ==
    {[name |-> "show", args |-> ("layer" :> "roads") @@ ("lon" :> "1")],
     [name |-> "show", args |-> <<>>], [name |-> "show", args |-> ("url" :> "address")]}

(* SiteTools                                                               *)

Times == {5, 10}

Line(label, address) == [label |-> label, address |-> address, other |-> "elsewhere"]

Place(name, pair, found, osm, worldpop) ==
    [name |-> name, pair |-> pair, found |-> found, osm |-> osm, worldpop |-> worldpop,
     elevation |-> {7}, people |-> 40, rivals |-> 1, anchors |-> 2,
     areas |-> <<[value |-> 6, overlap |-> 2, area |-> 4]>>,
     itinera |-> [t \in Times |-> "error"], roads |-> [t \in Times |-> "ring"]]

GeocodeRequests ==
    {[tool |-> "batch_geocode", lines |-> lines, carries |-> carries, known |-> known,
      geocoder |-> geocoder] :
        lines \in {<<>>, <<Line("a", "high street")>>,
                   <<Line("a", "high street"), Line("b", "mill lane"), Line("c", "quay")>>},
        carries \in {"none", "address", "label"},
        known \in SUBSET {"high street", "quay", "elsewhere"}, geocoder \in BOOLEAN}

Ringed(itinera, roads) ==
    [Place("a", FALSE, TRUE, TRUE, {}) EXCEPT !.itinera = itinera, !.roads = roads]

RingRequests ==
    {[tool |-> "calculate_isochrones", sites |-> <<Ringed(i, r)>>, times |-> times,
      mode |-> mode, detail |-> detail, itinera |-> itinera, geocoder |-> TRUE] :
        i \in [Times -> {"ring", "empty", "error"}], r \in [Times -> {"ring", "few", "error"}],
        times \in {{}, {5}, Times}, mode \in {"driving", "walking"}, detail \in BOOLEAN,
        itinera \in BOOLEAN}

Traded == {<<Place("a", FALSE, TRUE, TRUE, {4}),
             [Place("b", TRUE, TRUE, TRUE, {}) EXCEPT !.itinera = i, !.roads = r,
                 !.people = 9, !.anchors = 5, !.areas = areas]>> :
               i \in {[t \in Times |-> x] : x \in {"ring", "empty", "error"}},
               r \in {[t \in Times |-> "ring"], [t \in Times |-> "few"], [t \in Times |-> "error"]},
               areas \in {<<>>, <<[value |-> 6, overlap |-> 0, area |-> 0]>>}}

TradeRequests ==
    {[tool |-> "trade_area", sites |-> sites, given |-> given, column |-> "none",
      geocoder |-> geocoder, times |-> {5}, mode |-> "driving", detail |-> TRUE,
      itinera |-> itinera, anchors |-> "known", competitors |-> competitors,
      demographics |-> demographics, raster |-> raster, osm |-> osm] :
        sites \in Traded, given \in {{"names"}, {"layer"}}, geocoder \in {TRUE},
        itinera \in BOOLEAN, competitors \in {"file", "category", "unknown"},
        demographics \in {"sum", "mean", "no columns"},
        raster \in {"none", "there", "broken"}, osm \in BOOLEAN}

Rated(name, elevation, rivals, anchors, osm) ==
    [Place(name, TRUE, TRUE, osm, {anchors}) EXCEPT !.elevation = elevation,
        !.rivals = rivals, !.anchors = anchors]

ScoreRequests ==
    {[tool |-> "score_sites", sites |-> sites, given |-> {"names"}, column |-> "none",
      geocoder |-> TRUE, down |-> down, competitors |-> competitors,
      criteria |-> weighed.criteria, weights |-> weighed.weights] :
        sites \in {<<Rated("a", e, r, 3, osm), Rated("b", {4}, 2, n, TRUE), Rated("c", {9}, 0, 1, TRUE)>> :
                      e \in {{}, {2}, {9}}, r \in {0, 3}, n \in {0, 3}, osm \in BOOLEAN},
        down \in {{}, {0}, {2}}, competitors \in {"none", "file", "category", "both"},
        weighed \in {[criteria |-> <<"flood_risk", "competition">>, weights |-> <<1, 1>>],
                     [criteria |-> <<"competition", "amenities">>, weights |-> <<2, 1>>],
                     [criteria |-> <<"amenities", "population">>, weights |-> <<0, 0>>],
                     [criteria |-> <<"competition", "competition">>, weights |-> <<1, 1>>],
                     [criteria |-> <<"amenities", "competition">>, weights |-> <<1, -3>>],
                     [criteria |-> <<"flood_risk", "else", "population">>, weights |-> <<3, 1, 2>>]}}

Hits == <<[confidence |-> 9, id |-> 4], [confidence |-> 9, id |-> 2], [confidence |-> 5, id |-> 1]>>

RiskRequests ==
    {[tool |-> "assess_environmental_risk", pair |-> place[1], hits |-> place[2], area |-> TRUE,
      samples |-> samples, osm |-> osm, green |-> green,
      layers |-> [water |-> water, industrial |-> near, roads |-> near]] :
        place \in {<<{}, <<>>>>, <<{}, Hits>>, <<{7}, <<>>>>},
        samples \in {<<<<{}, {}, {}>>>>} \cup
                    {<<<<{}, {s}>>>> : s \in [1 .. 5 -> {0, 30}] \cup
                                             UNION {[1 .. n -> {0, 6, 30}] : n \in {0, 1, 4}}},
        osm \in BOOLEAN, green \in {0, 20}, water \in {{}, {100, 600}, {600}}, near \in {{}, {120}}}

GapRequests ==
    {[tool |-> "service_gap", placed |-> TRUE, service |-> service, osm |-> osm, width |-> width,
      resolution |-> resolution, radius |-> radius, facilities |-> facilities,
      weighted |-> TRUE, raster |-> raster] :
        service \in {"file", "osm", "unknown"}, osm \in BOOLEAN, width \in {40, 530, 1000},
        resolution \in {10, 240}, radius \in {0, 60, 150}, facilities \in SUBSET {0, 410, 2000},
        raster \in {"none", "there"}}

MCSiteRequests ==
    GeocodeRequests \cup RingRequests \cup TradeRequests \cup ScoreRequests
        \cup RiskRequests \cup GapRequests

(* LayerTools                                                              *)

North == {<<x, y>> : x \in 0 .. 11, y \in 6 .. 11}
South == {<<x, y>> : x \in 0 .. 11, y \in 0 .. 5}
MCSmallPlane == {<<x, y>> : x \in -1 .. 11, y \in -1 .. 11}

Feature(at, value) == [at |-> at, value |-> value]

RegionRequests ==
    {[tool |-> "aggregate_by_region", regions |-> regions, features |-> features,
      func |-> func, column |-> column, labelled |-> labelled] :
        regions \in {<<>>, <<[label |-> {"s"}, area |-> South], [label |-> {"n"}, area |-> North]>>,
                     <<[label |-> {"n"}, area |-> North], [label |-> {}, area |-> South],
                       [label |-> {"all"}, area |-> North \cup South]>>,
                     <<[label |-> {"n"}, area |-> North], [label |-> {"n"}, area |-> South]>>},
        features \in {<<>>} \cup {<<Feature(a, {5}), Feature(b, v), Feature(<<2, 2>>, {9})>> :
                         a \in {<<1, 1>>, <<1, 8>>}, b \in {<<4, 9>>, <<30, 30>>}, v \in {{}, {2}}},
        func \in {"count", "sum", "mean", "max", "unknown"},
        column \in {"none", "there", "absent"}, labelled \in {"regions", "both", "nothing"}}

Areas == {{}, {<<1, 1>>, <<1, 2>>}, {<<1, 2>>, <<3, 3>>}}

CompareRequests ==
    {[tool |-> "compare_layers", a |-> a, b |-> b] :
        a \in {<<>>} \cup {<<x, y>> : x \in Areas, y \in Areas},
        b \in {<<>>} \cup {<<x>> : x \in Areas}}

ClusterRequests ==
    {[tool |-> "cluster_points", labels |-> labels, method |-> method, n_clusters |-> n] :
        labels \in UNION {[1 .. k -> {-1, 1, 2}] : k \in 0 .. 4},
        method \in {"kmeans", "dbscan"}, n \in {1, 2}}

PointRequests ==
    {[tool |-> "voronoi", points |-> points, boundary |-> boundary] :
        points \in {<<<<0, 0>>, <<10, 0>>>>, <<<<0, 0>>, <<10, 0>>, <<0, 10>>>>,
                    <<<<0, 0>>, <<5, 0>>, <<10, 0>>>>, <<<<0, 0>>, <<3, 4>>, <<4, 3>>, <<10, 10>>>>,
                    <<<<0, 0>>, <<0, 10>>, <<10, 0>>, <<10, 10>>, <<5, 6>>>>},
        boundary \in {{}, {South}, {North}, {North, South}}}

MCLayerRequests == RegionRequests \cup CompareRequests \cup ClusterRequests \cup PointRequests
=============================================================================
