----------------------------- MODULE LayerTools -----------------------------
(***************************************************************************)
(* Tools that make a layer of one or two others: aggregate_by_region,      *)
(* compare_layers, cluster_points and voronoi.                             *)
(*                                                                         *)
(* The plane is a finite set of places; an area is a set of places, and    *)
(* its size their number.  What may be missing is a set of at most one     *)
(* value.  Reading a layer, the clusters that DBSCAN and k-means find and  *)
(* the Voronoi cells that scipy computes are external: the last are what   *)
(* their definition says.  A tool that answers with a sentence saves       *)
(* nothing.                                                                *)
(*                                                                         *)
(* MergedInOrder and NearMirrors stand beside Merged and Mirrors:          *)
(* mistakes that a change could make.                                      *)
(***************************************************************************)
EXTENDS Integers, FiniteSets, FiniteSetsExt, SequencesExt

CONSTANTS Requests, Plane, PADDING  \* PADDING: a kilometre

VARIABLES request, answer

vars == <<request, answer>>

Unanswered == [is |-> "unanswered", rows |-> {}]
Refused == [is |-> "refused", rows |-> {}]
Saved(rows) == [is |-> "saved", rows |-> rows]

Give(given, value) == IF given THEN {value} ELSE {}
Held(maybe) == CHOOSE value \in maybe : TRUE

-----------------------------------------------------------------------------
(* aggregate_by_region                                                     *)

\* sjoin, inner and within: one row for each region that a feature is in
Joined(q) ==
    {pair \in (DOMAIN q.regions) \X (DOMAIN q.features) :
        q.features[pair[2]].at \in q.regions[pair[1]].area}

\* groupby passes over regions without a label.
Labels(q) == UNION {q.regions[pair[1]].label : pair \in Joined(q)}

\* The features of a group, as often as they are in a region of that label
Group(q, label) ==
    {pair \in Joined(q) : label \in q.regions[pair[1]].label}

\* Missing values are skipped; a mean of none is missing, and a sum is zero.
Aggregated(q, group) ==
    LET valued == {pair \in group : q.features[pair[2]].value # {}}
        vals == UNION {q.features[pair[2]].value : pair \in group}
        total == SumFunction([pair \in valued |-> Held(q.features[pair[2]].value)])
    IN CASE q.func = "mean" -> Give(valued # {}, total \div Cardinality(valued))
         [] q.func = "max" -> Give(vals # {}, Max(vals))
         [] OTHER -> {total}

\* A count counts features, and anything else that is no function is a sum.
Figures(q, label) ==
    [feature_count |-> {Cardinality(Group(q, label))},
     value |-> IF q.func = "count" \/ q.column = "none" THEN {}
               ELSE Aggregated(q, Group(q, label))]

NoFigures == [feature_count |-> {}, value |-> {}]

MergedInOrder(q) ==
    LET labels == SetToSeq(Labels(q))
    IN [r \in DOMAIN q.regions |->
           IF r \in DOMAIN labels THEN Figures(q, labels[r]) ELSE NoFigures]

\* merge on the label, left: every region is kept
Merged(q) ==
    [r \in DOMAIN q.regions |->
        IF q.regions[r].label \subseteq Labels(q) /\ q.regions[r].label # {}
          THEN Figures(q, Held(q.regions[r].label)) ELSE NoFigures]

\* sjoin renames a column that both layers have, and groupby does not find it then.
AggregateByRegion(q) ==
    IF \/ q.regions = <<>> \/ q.features = <<>> \/ Joined(q) = {}
       \/ q.labelled = "both"
       \/ q.func # "count" /\ q.column = "absent"
       \/ q.func # "count" /\ q.column = "there" /\ q.labelled = "nothing"
      THEN Refused
      ELSE IF q.labelled = "nothing" THEN Saved([r \in DOMAIN q.regions |-> NoFigures])
      ELSE Saved(Merged(q))

-----------------------------------------------------------------------------
(* compare_layers                                                          *)

\* The three parts, of which the empty ones are not saved
CompareLayers(q) ==
    LET poly_a == UNION ToSet(q.a)  poly_b == UNION ToSet(q.b)
    IN IF q.a = <<>> \/ q.b = <<>> THEN Refused
       ELSE Saved({part \in {[layer |-> "intersection", area |-> poly_a \cap poly_b],
                             [layer |-> "only_a", area |-> poly_a \ poly_b],
                             [layer |-> "only_b", area |-> poly_b \ poly_a]} :
                      part.area # {}})

-----------------------------------------------------------------------------
(* cluster_points                                                          *)

Noise == -1

\* The labels that the clustering gives, and a hull for each but noise
ClusterPoints(q) ==
    LET Mask(cid) == {i \in DOMAIN q.labels : q.labels[i] = cid}
    IN IF q.labels = <<>> \/ (q.method = "kmeans" /\ q.n_clusters < 2) THEN Refused
       ELSE Saved({[cluster_id |-> cid, point_count |-> Cardinality(Mask(cid))] :
                      cid \in ToSet(q.labels) \ {Noise}})

-----------------------------------------------------------------------------
(* voronoi.  Coordinates are scaled by the number of points, which makes   *)
(* their mean whole.                                                       *)

Scaled(q, at) == <<Len(q.points) * at[1], Len(q.points) * at[2]>>

SquaredDistance(at, to) ==
    (at[1] - to[1]) * (at[1] - to[1]) + (at[2] - to[2]) * (at[2] - to[2])

Cross(o, p, q) == (p[1] - o[1]) * (q[2] - o[2]) - (p[2] - o[2]) * (q[1] - o[1])

Extent(area, axis) ==
    Max({at[axis] : at \in area}) - Min({at[axis] : at \in area})

\* The box of the points and a tenth of it around, a kilometre where they are in line
Box(points) ==
    LET In(at, axis) ==
            LET pad == IF Extent(points, axis) = 0 THEN 10 * PADDING ELSE Extent(points, axis)
                all == {p[axis] : p \in points}
            IN 10 * at[axis] \in 10 * Min(all) - pad .. 10 * Max(all) + pad
    IN {at \in Plane : In(at, 1) /\ In(at, 2)}

ClipPoly(q) ==
    IF q.boundary = {} THEN Box(ToSet(q.points)) ELSE UNION q.boundary

\* Four more points far away on every side
MirrorsAt(q, radius) ==
    LET cx == SumFunction([i \in DOMAIN q.points |-> q.points[i][1]])
        cy == SumFunction([i \in DOMAIN q.points |-> q.points[i][2]])
        r == Len(q.points) * radius
    IN {<<cx + r, cy>>, <<cx - r, cy>>, <<cx, cy + r>>, <<cx, cy - r>>}

LongSide(q) == Max({Extent(ClipPoly(q), 1), Extent(ClipPoly(q), 2)})

NearMirrors(q) == MirrorsAt(q, LongSide(q))

Mirrors(q) == MirrorsAt(q, 3 * LongSide(q))

AllCoords(q) == {Scaled(q, p) : p \in ToSet(q.points)} \cup Mirrors(q)

\* A point on the hull of all of them has a region without an end.
Infinite(all, o) ==
    \E p \in all \ {o} : \A r \in all : Cross(o, p, r) >= 0

Region(q, all, o) ==
    {at \in Plane : LET d == SquaredDistance(Scaled(q, at), o)
                    IN \A p \in all : d <= SquaredDistance(Scaled(q, at), p)}

\* What is clipped away entirely is drawn as all there is to clip to.
Polygon(q, all, clip_poly, o) ==
    LET clipped == Region(q, all, o) \cap clip_poly
    IN IF Infinite(all, o) \/ clipped = {} THEN clip_poly ELSE clipped

Voronoi(q) ==
    LET all == AllCoords(q)  clip_poly == ClipPoly(q)
    IN IF Len(q.points) < 3 THEN Refused
       ELSE Saved([i \in DOMAIN q.points |->
                      Polygon(q, all, clip_poly, Scaled(q, q.points[i]))])

-----------------------------------------------------------------------------

Answer(tool, Does(_)) ==
    /\ answer.is = "unanswered"
    /\ request.tool = tool
    /\ answer' = Does(request)
    /\ UNCHANGED request

Init ==
    /\ request \in Requests
    /\ answer = Unanswered

Next ==
    \/ Answer("aggregate_by_region", AggregateByRegion)
    \/ Answer("compare_layers", CompareLayers)
    \/ Answer("cluster_points", ClusterPoints)
    \/ Answer("voronoi", Voronoi)

Spec == Init /\ [][Next]_vars

-----------------------------------------------------------------------------

\* The features that are in region r
Inside(r) == {f \in DOMAIN request.features :
                 request.features[f].at \in request.regions[r].area}

\* What a map says of a region is about the features in it: as long as no two
\* regions share a label, its count is of those, and a region without any shows
\* nothing (aggregate_by_region).  The parts of two layers do not overlap and are
\* both layers together (compare_layers).  Every point that is not noise is counted
\* in one hull (cluster_points).  A place is in the cells of the points nearest to
\* it and in no other, as long as every point is within what is clipped to
\* (voronoi: "each covering the area closest to it").
EveryFeatureInItsPlace ==
    answer.is = "saved" =>
        CASE request.tool = "aggregate_by_region" ->
               LET regions == request.regions IN
               (/\ request.labelled = "regions"
                /\ \A r, s \in DOMAIN regions : r # s => regions[r].label # regions[s].label) =>
                   \A r \in DOMAIN regions :
                       /\ answer.rows[r].feature_count =
                              (IF regions[r].label = {} THEN {}
                               ELSE Give(Inside(r) # {}, Cardinality(Inside(r))))
                       /\ (request.func = "max" /\ answer.rows[r].value # {}) =>
                              answer.rows[r].value \subseteq
                                  UNION {request.features[f].value : f \in Inside(r)}
          [] request.tool = "compare_layers" ->
               /\ UNION {part.area : part \in answer.rows}
                      = UNION (ToSet(request.a) \cup ToSet(request.b))
               /\ \A p, s \in answer.rows : p # s => p.area \cap s.area = {}
          [] request.tool = "cluster_points" ->
               SumFunction([hull \in answer.rows |-> hull.point_count])
                   = Cardinality({i \in DOMAIN request.labels : request.labels[i] # Noise})
          [] OTHER ->
               LET points == ToSet(request.points)  clip_poly == ClipPoly(request)
                   Nearest(at) == {p \in points :
                       \A r \in points : SquaredDistance(at, p) <= SquaredDistance(at, r)}
               IN points \subseteq clip_poly =>
                      \A at \in clip_poly :
                          {i \in DOMAIN request.points : at \in answer.rows[i]}
                              = {i \in DOMAIN request.points : request.points[i] \in Nearest(at)}
=============================================================================
