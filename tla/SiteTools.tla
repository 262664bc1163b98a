------------------------------ MODULE SiteTools ------------------------------
(***************************************************************************)
(* The tools about sites: batch_geocode, calculate_isochrones, trade_area, *)
(* score_sites, assess_environmental_risk and service_gap, over sources    *)
(* that may fail one by one: the geocoder, itinera and the road engines,   *)
(* the population raster, WorldPop, OpenTopoData and Overpass.             *)
(*                                                                         *)
(* A request says what is asked, what there is and which sources answer.   *)
(* What may be missing is a set of at most one value.  Scores out of 100   *)
(* are counted in tenths.  A tool that answers with a sentence, or fails,  *)
(* saves nothing, and which sentence it is counts for nothing here.        *)
(*                                                                         *)
(* A weight may be less than zero, and the code asks only that the weights *)
(* do not add up to zero.                                                  *)
(*                                                                         *)
(* SlotInBatch and NeverInverted stand beside Slot and Inverted: mistakes  *)
(* a change could make.                                                    *)
(***************************************************************************)
EXTENDS Integers, FiniteSets, FiniteSetsExt, SequencesExt

CONSTANTS Requests,
          MAX_LOCATIONS,  \* of one request to OpenTopoData or the geocoder
          MAX_NAMED,      \* of the addresses that batch_geocode could not find
          MAX_CELLS

VARIABLES request, answer

vars == <<request, answer>>

Unanswered == [saved |-> FALSE, rows |-> <<>>, noted |-> {"nothing asked"}, failed |-> 0]
Refused == [saved |-> FALSE, rows |-> <<>>, noted |-> {}, failed |-> 0]

\* What the answer names, and of how many addresses it says that they failed
SavedBut(rows, noted, failed) ==
    [saved |-> TRUE, rows |-> rows, noted |-> noted, failed |-> failed]

Saved(rows, noted) == SavedBut(rows, noted, 0)

Row(of, figures) == [of |-> of, figures |-> figures]

Give(given, value) == IF given THEN {value} ELSE {}

Held(given) == CHOOSE value \in given : TRUE

\* round(): a half goes to the even side
HalfToEven(a, b) ==
    LET q == a \div b  twice == 2 * (a % b)
    IN IF twice > b \/ (twice = b /\ q % 2 = 1) THEN q + 1 ELSE q

Rounded(a, b) == IF b > 0 THEN HalfToEven(a, b) ELSE HalfToEven(-a, -b)

Least(set) == CHOOSE x \in set : \A y \in set : x <= y
Greatest(set) == CHOOSE x \in set : \A y \in set : y <= x

\* The i-th is the one that comes after i - 1 others; before holds the pairs.
InOrder(set, before) ==
    [i \in 1 .. Cardinality(set) |->
        CHOOSE x \in set : Cardinality({y \in set : <<y, x>> \in before}) = i - 1]

Ascending(set) == InOrder(set, {p \in set \X set : p[1] < p[2]})
Descending(set) == InOrder(set, {p \in set \X set : p[1] > p[2]})

-----------------------------------------------------------------------------
(* Batches of a bounded number of locations, and the sites                 *)

Starts(n) == {start \in 0 .. n - 1 : \E k \in 0 .. n - 1 : start = k * MAX_LOCATIONS}

SlotInBatch(start, offset) == offset

\* Where the result of a batch that begins after start belongs
Slot(start, offset) == start + offset

\* One request for each start, and one in down gives nothing for its batch: what
\* comes to be at i is what was asked at the places whose slot is i.
Batched(asked, down) ==
    [i \in DOMAIN asked |->
        UNION {asked[p[1] + p[2]] :
                   p \in {p \in (Starts(Len(asked)) \ down) \X (1 .. MAX_LOCATIONS) :
                              p[1] + p[2] <= Len(asked) /\ Slot(p[1], p[2]) = i}}]

\* geocode_batch: any batch that fails raises.
GeocodeBatch(hits, geocoder) ==
    Give(geocoder \/ hits = <<>>, Batched(hits, {}))

\* resolve_sites: one way of naming them, and names that are all found.
ResolveSites(q) ==
    LET named == Ascending({i \in DOMAIN q.sites : ~q.sites[i].pair})
        read == Ascending({i \in DOMAIN q.sites : q.sites[i].found})
        hits == GeocodeBatch([k \in DOMAIN named |-> Give(q.sites[named[k]].found,
                                                          q.sites[named[k]].name)],
                             q.geocoder)
    IN CASE q.given = {"names"} ->
              IF hits # {} /\ {} \notin ToSet(Held(hits)) THEN q.sites ELSE <<>>
         [] q.given = {"layer"} /\ q.column # "absent" ->
              [k \in DOMAIN read |-> q.sites[read[k]]]
         [] OTHER -> <<>>

\* The columns that a CSV carries besides replace the record's own of their name.
RecordOf(q, line) ==
    IF q.carries = "address" THEN [line EXCEPT !.address = line.other]
    ELSE IF q.carries = "label" THEN [line EXCEPT !.label = line.other]
    ELSE line

\* failed[:n] of the places that failed
Firsts(n, failed) == {i \in failed : Cardinality({j \in failed : j < i}) < n}

BatchGeocode(q) ==
    LET records == [i \in DOMAIN q.lines |-> RecordOf(q, q.lines[i])]
        hits == GeocodeBatch([i \in DOMAIN records |->
                                 Give(records[i].address \in q.known, records[i].address)],
                             q.geocoder)
        Answered(h) ==
            LET good == Ascending({i \in DOMAIN records : h[i] # {}})
                failed == {i \in DOMAIN records : h[i] = {}}
            IN IF good = <<>> THEN Refused
               ELSE SavedBut([k \in DOMAIN good |-> Row(records[good[k]].label,
                                                        [point |-> h[good[k]]])],
                             {records[i].address : i \in Firsts(MAX_NAMED, failed)},
                             Cardinality(failed))
    IN IF records = <<>> \/ hits = {} THEN Refused ELSE Answered(Held(hits))

-----------------------------------------------------------------------------
(* Isochrones                                                              *)

Band(t, engine) == Row(t, [minutes |-> {t}, engine |-> {engine}])

\* The bands of some times, the longest first
Bands(times, engine) ==
    LET drawn == Descending(times) IN [k \in DOMAIN drawn |-> Band(drawn[k], engine)]

\* _itinera_polygons asks for the longest time first, and the first request that
\* fails ends it; what it has by then is the answer, and nothing at all leaves it to
\* the road engines.
ItineraPolygons(q, site) ==
    LET reached == {t \in q.times : \A s \in q.times : s >= t => site.itinera[s] # "error"}
        drawn == {t \in reached : site.itinera[t] = "ring"}
    IN Give(/\ q.itinera
            /\ drawn # {} \/ (reached = q.times /\ reached # {}),
            Bands(drawn, "itinera"))

\* _valhalla_polygons for driving, _network_polygons for the rest
RoadPolygons(q, site) ==
    Give(/\ \A t \in q.times : site.roads[t] # "error"
         /\ q.mode = "driving" \/ q.detail,
         Bands({t \in q.times : site.roads[t] = "ring"}, "roads"))

IsochronePolygons(q, site) ==
    IF ItineraPolygons(q, site) # {} THEN ItineraPolygons(q, site) ELSE RoadPolygons(q, site)

CalculateIsochrones(q) ==
    LET Drawn(bands) ==
            IF bands \subseteq {<<>>} THEN Refused ELSE Saved(Held(bands), {})
    IN IF \/ q.times = {}
          \/ Greatest(q.times) > 60 /\ q.mode = "walking"
          \/ ~q.geocoder \/ ~q.sites[1].found
         THEN Refused
         ELSE Drawn(IsochronePolygons(q, q.sites[1]))

-----------------------------------------------------------------------------
(* trade_area                                                              *)

\* population_inside: the raster, then WorldPop
PopulationInside(q, site) == IF q.raster = "there" THEN {site.people} ELSE site.worldpop

\* _demographic_figures: areas that overlap a band, by their overlap
DemographicFigures(q, site) ==
    LET overlaps == [i \in DOMAIN site.areas |-> site.areas[i].overlap]
        parts == [i \in DOMAIN site.areas |->
                     LET a == site.areas[i] IN
                     IF q.demographics = "mean" THEN a.value * a.overlap
                     ELSE IF a.area = 0 THEN 0 ELSE (a.value * a.overlap) \div a.area]
    IN CASE site.areas = <<>> \/ q.demographics = "none" -> {}
         [] site.areas # <<>> /\ q.demographics = "sum" -> {SumFunction(parts)}
         [] OTHER -> Give(SumFunction(overlaps) > 0,
                         Rounded(SumFunction(parts), SumFunction(overlaps)))

\* What trade_area asks of a request before it looks at a site
TradeRefused(q) ==
    \/ q.mode = "unknown"
    \/ q.anchors = "unknown"
    \/ q.competitors = "unknown"
    \/ q.demographics \notin {"none", "sum", "mean"}
    \/ q.raster = "broken"

TradeRow(q, site, band) ==
    Row(site.name,
        [minutes |-> band.figures.minutes,
         population |-> PopulationInside(q, site),
         competitors |-> CASE q.competitors = "file" -> {site.rivals}
                           [] q.competitors = "category" -> Give(q.osm, site.rivals)
                           [] OTHER -> {},
         anchors |-> Give(q.osm /\ q.anchors = "known", site.anchors),
         demographics |-> DemographicFigures(q, site)])

\* With what is drawn around each site
TradeRows(q, sites, bands) ==
    LET kept == Ascending({i \in DOMAIN sites : bands[i] # {<<>>}})
    IN IF {} \in ToSet(bands) \/ kept = <<>> THEN Refused
       ELSE Saved([k \in DOMAIN kept |->
                      TradeRow(q, sites[kept[k]], Held(bands[kept[k]])[1])],
                  {sites[i].name : i \in {j \in DOMAIN sites : bands[j] = {<<>>}}})

TradeSites(q, sites) ==
    TradeRows(q, sites, [i \in DOMAIN sites |-> IsochronePolygons(q, sites[i])])

TradeArea(q) == IF TradeRefused(q) THEN Refused ELSE TradeSites(q, ResolveSites(q))

-----------------------------------------------------------------------------
(* score_sites                                                             *)

\* Elevations come in batches of MAX_LOCATIONS; one that fails is passed over.
Elevations(q, sites) ==
    Batched([i \in DOMAIN sites |-> sites[i].elevation], q.down)

\* The criteria whose source is asked for one site at a time
AskedAlone(q, s, c) ==
    CASE c = "population" -> s.worldpop
      [] c = "competition" ->
           CASE q.competitors = "file" -> {s.rivals}
             [] q.competitors = "category" -> Give(s.osm, s.rivals)
             [] OTHER -> {}
      [] c \in {"amenities", "transport", "green_space"} -> Give(s.osm, s.anchors)
      [] OTHER -> {}

\* What a source did not give counts as nothing.
RawScore(q, sites, i, c) ==
    LET given == IF c = "flood_risk" THEN Elevations(q, sites)[i]
                 ELSE AskedAlone(q, sites[i], c)
    IN IF given = {} THEN 0 ELSE Held(given)

\* One list for each criterion, which grows as often as the criterion is named.
RawScores(q, sites, c) ==
    LET named == Cardinality({k \in DOMAIN q.criteria : q.criteria[k] = c})
    IN [p \in 1 .. named * Len(sites) |-> RawScore(q, sites, (p - 1) \div named + 1, c)]

NeverInverted(c) == FALSE

\* Fewer competitors are better.
Inverted(c) == c = "competition"

\* Normalised between the least and the greatest, in tenths
Normalised(c, vals, vmin, vmax) ==
    [i \in DOMAIN vals |->
        IF vmin = vmax THEN 500
        ELSE Rounded(1000 * (IF Inverted(c) THEN vmax - vals[i] ELSE vals[i] - vmin),
                     vmax - vmin)]

NormScores(c, vals) == Normalised(c, vals, Least(ToSet(vals)), Greatest(ToSet(vals)))

SiteTotal(q, norm, i) ==
    Rounded(SumFunction([k \in DOMAIN q.criteria |-> norm[q.criteria[k]][i] * q.weights[k]]),
            SumFunction(q.weights))

ScoreRefused(q, sites) ==
    \/ q.competitors \in {"both", "empty"}
    \/ Len(sites) < 2
    \/ q.criteria = <<>>
    \/ Len(q.weights) # Len(q.criteria)
    \/ SumFunction(q.weights) = 0

\* The best total first, and sites of one total as they were given
Ranked(q, sites, raw, totals) ==
    LET ranked == InOrder(DOMAIN sites,
                          {p \in (DOMAIN sites) \X (DOMAIN sites) :
                              \/ totals[p[1]] > totals[p[2]]
                              \/ totals[p[1]] = totals[p[2]] /\ p[1] < p[2]})
    IN Saved([k \in DOMAIN ranked |->
                 Row(sites[ranked[k]].name,
                     [c \in ToSet(q.criteria) |-> {raw[c][ranked[k]]}])], {})

Scored(q, sites, raw, norm) ==
    Ranked(q, sites, raw, [i \in DOMAIN sites |-> SiteTotal(q, norm, i)])

Compared(q, sites, raw) ==
    Scored(q, sites, raw, [c \in ToSet(q.criteria) |-> NormScores(c, raw[c])])

ScoreResolved(q, sites) ==
    IF ScoreRefused(q, sites) THEN Refused
    ELSE Compared(q, sites, [c \in ToSet(q.criteria) |-> RawScores(q, sites, c)])

ScoreSites(q) == ScoreResolved(q, ResolveSites(q))

-----------------------------------------------------------------------------
(* assess_environmental_risk                                               *)

\* pinned_geocode_hit: of the hits as sure as the first one, the lowest id
PinnedGeocodeHit(hits) ==
    LET tied == {h \in ToSet(hits) : h.confidence = hits[1].confidence}
    IN CHOOSE h \in tied : \A other \in tied : h.id <= other.id

\* Three attempts at a batch of samples, each a set of at most one answer
BatchElevations(attempts) ==
    LET good == {k \in DOMAIN attempts : attempts[k] # {}}
    IN IF good = {} THEN {} ELSE attempts[Least(good)]

\* The samples there are, each at its batch and its place in the answer
Samples(q) ==
    LET got == [b \in DOMAIN q.samples |-> BatchElevations(q.samples[b])]
        At(b) == {b} \X (DOMAIN Held(got[b]))
    IN [p \in UNION {At(b) : b \in {b \in DOMAIN got : got[b] # {}}} |-> Held(got[p[1]])[p[2]]]

\* flood_score_from, in hundredths of a point per sample until it is rounded
FloodScore(elevations, water) ==
    LET n == Cardinality(DOMAIN elevations)
        Share(band, most) ==
            Least({most * n,
                   4 * most * Cardinality({i \in DOMAIN elevations : elevations[i] < band})})
        exposure == Greatest({Share(5, 9), Share(10, 7)})
        Within(d) == \E w \in water : w < d
        near == IF Within(250) THEN 130 ELSE IF Within(1000) THEN 115 ELSE 100
    IN Give(n # 0, Greatest({1, Least({10, Rounded(exposure * near, 100 * n)})}))

\* The score of the nearest of a layer, by bounds that grow
NearScore(distances, bounds) ==
    LET within == {k \in DOMAIN bounds : \E d \in distances : d < bounds[k]}
    IN IF within = {} THEN 2 ELSE <<9, 7, 4>>[Least(within)]

GreenScore(percent) ==
    CASE percent >= 30 -> 9 [] percent \in 15 .. 29 -> 7 [] percent \in 5 .. 14 -> 4
      [] OTHER -> 2

\* In tenths, over the weights of the scores there are
OverallRisk(flood, pollution, noise, green) ==
    LET rest == 25 * pollution + 20 * noise + 20 * (10 - green)
    IN IF flood = {} THEN Rounded(10 * rest, 65)
       ELSE Rounded(10 * (rest + 35 * Held(flood)), 100)

\* A place that reads as coordinates asks no geocoder.
AssessEnvironmentalRisk(q) ==
    LET Layer(name) == IF q.osm THEN q.layers[name] ELSE {}
        flood == FloodScore(Samples(q), Layer("water"))
        pollution == NearScore(Layer("industrial"), <<200, 500, 1000>>)
        noise == NearScore(Layer("roads"), <<50, 150, 400>>)
        green == GreenScore(IF q.osm THEN q.green ELSE 0)
        at == IF q.pair # {} THEN Held(q.pair) ELSE PinnedGeocodeHit(q.hits).id
    IN IF (q.pair = {} /\ q.hits = <<>>) \/ ~q.area THEN Refused
       ELSE Saved(<<Row(at,
                        [flood |-> flood, pollution |-> {pollution}, noise |-> {noise},
                         green |-> {green},
                         overall |-> {OverallRisk(flood, pollution, noise, green)}])>>,
                  (IF \E b \in DOMAIN q.samples : BatchElevations(q.samples[b]) = {} THEN {"elevation"} ELSE {})
                  \cup (IF q.osm THEN {} ELSE {"osm"}))

-----------------------------------------------------------------------------
(* service_gap, along one side of a square study area                      *)

Cells(width, res) ==
    IF 2 * width <= res THEN 0 ELSE (2 * width - res + 2 * res - 1) \div (2 * res)

\* At least 100 m, and coarser when there would be too many cells
Resolution(q) ==
    LET res == Greatest({100, q.resolution})
        most == q.width * q.width
    IN IF Cells(q.width, res) * Cells(q.width, res) <= MAX_CELLS THEN res
       ELSE CHOOSE r \in 0 .. q.width : /\ r * r * MAX_CELLS <= most
                                         /\ (r + 1) * (r + 1) * MAX_CELLS > most

\* Twice the distance from the middle of cell i
Distance(res, i, facility) ==
    LET d == (2 * i - 1) * res - 2 * facility IN IF d < 0 THEN -d ELSE d

GapScore(distance, radius) ==
    IF distance <= 2 * radius THEN 0 ELSE IF distance <= 6 * radius THEN 1 ELSE 2

ServiceGap(q) ==
    LET res == Resolution(q)
        Nearest(i) == Least({Distance(res, i, f) : f \in q.facilities})
    IN IF \/ ~q.placed
          \/ q.service = "unknown"
          \/ q.service = "osm" /\ ~q.osm
          \/ q.facilities = {}
          \/ Cells(q.width, res) = 0
         THEN Refused
         ELSE Saved([i \in 1 .. Cells(q.width, res) |->
                        Row(i, [gap |-> {GapScore(Nearest(i), q.radius)},
                                population |-> Give(q.weighted /\ q.raster = "there", i)])], {})

-----------------------------------------------------------------------------

Answer(tool, Does(_)) ==
    /\ answer = Unanswered
    /\ request.tool = tool
    /\ answer' = Does(request)
    /\ UNCHANGED request

Init ==
    /\ request \in Requests
    /\ answer = Unanswered

Next ==
    \/ Answer("batch_geocode", BatchGeocode)
    \/ Answer("calculate_isochrones", CalculateIsochrones)
    \/ Answer("trade_area", TradeArea)
    \/ Answer("score_sites", ScoreSites)
    \/ Answer("assess_environmental_risk", AssessEnvironmentalRisk)
    \/ Answer("service_gap", ServiceGap)

Spec == Init /\ [][Next]_vars

-----------------------------------------------------------------------------

\* The batch that asks for the elevation of the k-th of n sites is one that fails.
Lost(n, k) ==
    \E start \in Starts(n) \cap request.down : start < k /\ k <= start + MAX_LOCATIONS

\* What the k-th site's own source gives for a criterion
Own(sites, k, c) ==
    IF c = "flood_risk" THEN {e \in sites[k].elevation : ~Lost(Len(sites), k)}
    ELSE AskedAlone(request, sites[k], c)

\* Every figure that is saved for a site is the one its own source gave for that
\* site, whatever other sites and sources failed, and what its source did not give
\* is scored as nothing.  A site without a band is named, and an address that was
\* not found is counted, and named when fewer than MAX_NAMED failed before it.
\* That is so unless a CSV has another column called address or label, or a
\* criterion is named twice (batch_geocode, geocode_batch, trade_area, score_sites).
EveryFigureIsItsOwn ==
    answer.saved =>
        CASE request.tool = "batch_geocode" ->
               LET IsOf(row, line) == row.of = line.label /\ row.figures.point = {line.address}
                   lines == request.lines
                   out == {i \in DOMAIN lines : lines[i].address \notin request.known}
               IN request.carries = "none" =>
                   /\ \A i \in DOMAIN answer.rows :
                          \E k \in DOMAIN lines \ out : IsOf(answer.rows[i], lines[k])
                   /\ \A k \in DOMAIN lines \ out :
                          \E i \in DOMAIN answer.rows : IsOf(answer.rows[i], lines[k])
                   /\ answer.failed = Cardinality(out)
                   /\ answer.noted \subseteq {lines[i].address : i \in out}
                   /\ \A i \in out : \/ lines[i].address \in answer.noted
                                     \/ MAX_NAMED <= Cardinality({j \in out : j < i})
          [] request.tool = "calculate_isochrones" ->
               LET site == request.sites[1]
                   engines == UNION {answer.rows[i].figures.engine : i \in DOMAIN answer.rows}
                   drawn == UNION {answer.rows[i].figures.minutes : i \in DOMAIN answer.rows}
               IN /\ IsInjective(answer.rows)
                  /\ \/ engines = {"itinera"} /\ \A t \in drawn : site.itinera[t] = "ring"
                     \/ engines = {"roads"} /\ drawn = {t \in request.times : site.roads[t] = "ring"}
          [] request.tool = "trade_area" ->
               /\ \A s \in ToSet(request.sites) :
                      s.pair \/ s.found =>
                          s.name \in answer.noted \cup {answer.rows[i].of : i \in DOMAIN answer.rows}
               /\ \A i \in DOMAIN answer.rows :
                  \E s \in ToSet(request.sites) :
                      LET f == answer.rows[i].figures IN
                      /\ s.name = answer.rows[i].of
                      /\ f.population = (IF request.raster = "there" THEN {s.people} ELSE s.worldpop)
                      /\ f.anchors \subseteq {s.anchors} /\ (f.anchors # {} => request.osm)
                      /\ f.competitors \subseteq {s.rivals}
                      /\ request.competitors = "category" /\ ~request.osm => f.competitors = {}
                      /\ f.demographics = DemographicFigures(request, s)
          [] request.tool = "score_sites" ->
               LET sites == ResolveSites(request)
                   Figure(k, c) == IF Own(sites, k, c) = {} THEN {0} ELSE Own(sites, k, c)
               IN IsInjective(request.criteria) =>
                   \A i \in DOMAIN answer.rows :
                   \E k \in DOMAIN sites :
                       /\ sites[k].name = answer.rows[i].of
                       /\ \A c \in ToSet(request.criteria) :
                              answer.rows[i].figures[c] = Figure(k, c)
          [] OTHER -> TRUE

\* Of two sites with every figure known, the one that is no worse in any criterion
\* is listed first, unless their totals are equal (score_sites).  "Water near high
\* ground stays low risk and far water never dampens the terrain signal", and lower
\* ground is never scored safer (flood_score_from).  A grid cell is never of a better
\* class than one that is nearer to a facility, and the grid leaves no more than
\* half a cell of the area out (service_gap).  That is so for sites whose names tell
\* them apart and weights that are none less than zero.
BetterIsNeverScoredWorse ==
    answer.saved =>
        CASE request.tool = "score_sites" ->
               LET sites == ResolveSites(request)
                   Known(k) == \A c \in ToSet(request.criteria) : Own(sites, k, c) # {}
                   NoWorse(k, m) ==
                       \A c \in ToSet(request.criteria) :
                       \A v \in Own(sites, k, c), w \in Own(sites, m, c) :
                           IF c = "competition" THEN v <= w ELSE w <= v
                   norm == [c \in ToSet(request.criteria) |->
                               NormScores(c, RawScores(request, sites, c))]
                   Of(i) == CHOOSE k \in DOMAIN sites : sites[k].name = answer.rows[i].of
               IN (/\ IsInjective(request.criteria)
                   /\ IsInjective([k \in DOMAIN sites |-> sites[k].name])
                   /\ \A k \in DOMAIN request.weights : request.weights[k] >= 0
                   /\ \A k \in DOMAIN sites : Known(k)) =>
                      \A i, j \in DOMAIN answer.rows :
                          (i < j /\ NoWorse(Of(j), Of(i)))
                              => SiteTotal(request, norm, Of(i)) = SiteTotal(request, norm, Of(j))
          [] request.tool = "assess_environmental_risk" ->
               LET ground == Samples(request)
                   water == IF request.osm THEN request.layers["water"] ELSE {}
                   lower == {[ground EXCEPT ![i] = 0] : i \in DOMAIN ground}
               IN \A flood \in answer.rows[1].figures.flood :
                      /\ (\A i \in DOMAIN ground : ground[i] >= 10) => flood = 1
                      /\ \A dry \in FloodScore(ground, {}) : dry <= flood
                      /\ \A e \in lower : \A f \in FloodScore(e, water) : flood <= f
          [] request.tool = "service_gap" ->
               LET res == Resolution(request)
                   Far(i) == Least({Distance(res, i, f) : f \in request.facilities})
                   Class(i) == Held(answer.rows[i].figures.gap)
               IN /\ \A i, j \in DOMAIN answer.rows : Far(i) <= Far(j) => Class(i) <= Class(j)
                  /\ 2 * (request.width - Len(answer.rows) * res) <= res
          [] OTHER -> TRUE
=============================================================================
