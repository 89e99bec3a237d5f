---------------------------- MODULE NavdataQuery ----------------------------
(***************************************************************************)
(* What a map asks of the replica (src/navdata/query.ts) and which         *)
(* airports it shows at a zoom (src/navdata/airportTiers.ts).  Degrees are *)
(* half degrees, the grid of the cells: longitudes run from -Half to Half, *)
(* latitudes from 0 to Rows.  A box is [w, s, e, n]; an airport is [ident, *)
(* at, detail, longest, class]: at <<lat, lon>>, detail whether it was     *)
(* fetched, longest the tier of its longest runway or NULL, class its      *)
(* published tier or NULL.                                                 *)
(***************************************************************************)
EXTENDS Integers, Sequences, FiniteSets, SequencesExt, FiniteSetsExt

CONSTANTS Half, Rows, Budget, NULL

ZOOM_MIN == [airports |-> 6, airways |-> 7, navaids |-> 8, waypoints |-> 9, runways |-> 12]

TIER_ZOOM_MIN == [large |-> 6, medium |-> 7, small |-> 8, unknown |-> 9, other |-> 9]

TIER_BY_CODE == <<"large", "medium", "small", "unknown", "other">>

LastCode == 5
LastClassified == 3

-----------------------------------------------------------------------------
(* The box. *)

ParseBbox(b) ==
  IF b.s < 0 \/ b.n > Rows \/ b.s > b.n \/ ~({b.w, b.e} \subseteq -Half..Half) THEN NULL ELSE b

\* West of the antimeridian to east of it in two; a box without width is empty.
LonRanges(b) ==
  IF b.w = b.e THEN {} ELSE IF b.w > b.e THEN {<<b.w, Half>>, <<-Half, b.e>>} ELSE {<<b.w, b.e>>}

InRanges(lon, b) == \E r \in LonRanges(b) : lon >= r[1] /\ lon <= r[2]

Inside(at, b) == at[1] >= b.s /\ at[1] <= b.n /\ InRanges(at[2], b)

\* The box a map asks for (client/src/utils/navdataApi.ts): its view and a
\* fifth on every side, folded into -Half..Half.
WrapLon(lon) == ((lon + Half) % (2 * Half)) - Half

PaddedBbox(v) ==
  LET padLon == (v.e - v.w) \div 5
      padLat == (v.n - v.s) \div 5
      box    == [w |-> v.w - padLon, s |-> Max({0, v.s - padLat}), e |-> v.e + padLon, n |-> Min({Rows, v.n + padLat})]
  IN  IF box.e - box.w >= 2 * Half THEN [box EXCEPT !.w = -Half, !.e = Half]
      ELSE [box EXCEPT !.w = WrapLon(box.w), !.e = IF WrapLon(box.e) = -Half THEN Half ELSE WrapLon(box.e)]

\* The last row and column take what lies on the far edge.
CellRow(lat) == Min({Rows - 1, Max({0, lat})})
CellCol(lon) == Min({2 * Half - 1, Max({0, lon + Half})})

ColRanges(b) == {<<CellCol(r[1]), CellCol(r[2])>> : r \in LonRanges(b)}

TotalCells(b) ==
  LET rows == CellRow(b.n) - CellRow(b.s) + 1
      cols == IF b.w = b.e THEN 0
              ELSE IF b.w > b.e THEN (CellCol(Half) - CellCol(b.w) + 1) + (CellCol(b.e) - CellCol(-Half) + 1)
              ELSE CellCol(b.e) - CellCol(b.w) + 1
  IN  rows * cols

\* A cell is its number, row by row.
Harvested(cells, b) ==
  LET cols == UNION {{r[1], r[2]} : r \in ColRanges(b)}
  IN  IF cols = {} THEN {}
      ELSE {c \in cells : /\ c >= CellRow(b.s) * 2 * Half + Min(cols)
                          /\ c <= CellRow(b.n) * 2 * Half + Max(cols)
                          /\ \E r \in ColRanges(b) : c % (2 * Half) >= r[1] /\ c % (2 * Half) <= r[2]}

CoverageFor(db, b) ==
  [total |-> TotalCells(b),
   harvested |-> IF db = NULL THEN 0 ELSE Cardinality(Harvested(db.cells, b))]

\* A leg that crosses the antimeridian covers what lies outside its two ends.
AirwayLegInside(leg, b) ==
  LET west == Min({leg.from[2], leg.to[2]})
      east == Max({leg.from[2], leg.to[2]})
  IN  /\ Max({leg.from[1], leg.to[1]}) >= b.s /\ Min({leg.from[1], leg.to[1]}) <= b.n
      /\ \E r \in LonRanges(b) : IF leg.dateline THEN r[2] >= east \/ r[1] <= west
                                 ELSE east >= r[1] /\ west <= r[2]

-----------------------------------------------------------------------------
(* The tiers of airports. *)

\* loadAirportTiers(): one entry that does not agree with its count empties
\* the map, and an empty map hides nothing.
LoadAirportTiers(file) ==
  IF file.form # "tiers" \/ \E code \in DOMAIN file.tiers : file.counts[code] # Cardinality(file.tiers[code])
  THEN {} ELSE UNION {{<<ident, code>> : ident \in file.tiers[code]} : code \in DOMAIN file.tiers}

\* The sim's own runway first, then the published class, then "unknown".
TierOf(airport) ==
  IF airport.detail /\ airport.longest # NULL THEN airport.longest
  ELSE IF airport.class # NULL THEN airport.class ELSE 4

TierFromMetres(m) == CASE m >= 2500 -> 1 [] m >= 1200 /\ m < 2500 -> 2 [] OTHER -> 3

\* A row of the replica: [detail, runways, frequencies, class]; a runway is
\* [key, length, surface, heading], a frequency whether it is a tower's.
Measured(row) == {r \in row.runways : r.length # NULL}

LongestRunway(row) ==
  CHOOSE r \in Measured(row) :
    \A q \in Measured(row) : r.length > q.length \/ (r.length = q.length /\ r.key <= q.key)

\* AIRPORT_TIER_EXPR: what the filter and the histogram see.
RowTier(row) ==
  TierOf([detail |-> row.detail, class |-> row.class,
          longest |-> IF Measured(row) = {} THEN NULL ELSE TierFromMetres(Max({r.length : r \in Measured(row)}))])

SurfaceBucket(code) ==
  CASE code = NULL -> NULL
    [] code \in {0, 4, 10, 15, 16, 17, 18, 19, 23, 32} -> "paved"
    [] code \in {2} \cup 26..31 -> "water"
    [] OTHER -> "soft"

\* The fields of a symbol, of one runway; without a length it has no surface
\* and no heading.
SymbolFields(row) ==
  LET known == row.detail /\ Measured(row) # {}
  IN  [metres  |-> IF known THEN LongestRunway(row).length ELSE NULL,
       surface |-> IF known THEN SurfaceBucket(LongestRunway(row).surface) ELSE NULL,
       heading |-> IF known THEN LongestRunway(row).heading ELSE NULL,
       towered |-> IF row.detail /\ row.frequencies # {} THEN TRUE \in row.frequencies ELSE NULL]

\* airportTierOf(): the tier a feature carries; NULL if nothing was consulted.
FeatureTier(row, classified) ==
  IF SymbolFields(row).metres # NULL THEN TierFromMetres(SymbolFields(row).metres)
  ELSE IF ~classified THEN NULL ELSE IF row.class # NULL THEN row.class ELSE 4

AirportTierFloor(zoom) ==
  Max({0} \cup {code \in 1..LastCode : TIER_ZOOM_MIN[TIER_BY_CODE[code]] <= zoom})

UpTo(counts, tier) == FoldSet(LAMBDA t, sum : counts[t] + sum, 0, 1..tier)

ChooseAirportTier(counts, zoom) ==
  Max({AirportTierFloor(zoom)} \cup {t \in 1..LastClassified : UpTo(counts, t) <= Budget})

-----------------------------------------------------------------------------
(* queryFeatures(): the airports of a view. `classified`: the map of tiers   *)
(* is loaded.                                                               *)

ByIdent(airports) ==
  [i \in 1..Cardinality(airports) |->
     CHOOSE a \in airports : Cardinality({b \in airports : b.ident < a.ident}) = i - 1]

NoThinning == [mode |-> "none", through |-> NULL, hidden |-> 0, nextZoom |-> NULL]

Asked(kind, zoom, wanted) == kind \in wanted /\ zoom >= ZOOM_MIN[kind]

Gated(zoom, wanted) == {kind \in wanted : zoom < ZOOM_MIN[kind]}

Features(db, b, zoom, limit, wanted, classified) ==
  LET view   == IF db = NULL THEN {} ELSE {a \in db.airports : Inside(a.at, b)}
      counts == [t \in 1..LastCode |-> Cardinality({a \in view : TierOf(a) = t})]
      open   == ~classified \/ AirportTierFloor(zoom) = LastCode
      chosen == IF open THEN LastCode ELSE ChooseAirportTier(counts, zoom)
      rows   == ByIdent({a \in view : chosen = LastCode \/ TierOf(a) <= chosen})
      ran    == Asked("airports", zoom, wanted) /\ db # NULL /\ LonRanges(b) # {}
  IN  [gated |-> Gated(zoom, wanted),
       airports |-> IF ran THEN SubSeq(rows, 1, Min({limit, Len(rows)})) ELSE <<>>,
       truncated |-> ran /\ Len(rows) > limit,
       thinning |-> IF ~ran \/ chosen = LastCode THEN NoThinning
                    ELSE [mode |-> "tier", through |-> TIER_BY_CODE[chosen],
                          hidden |-> Cardinality(view) - UpTo(counts, chosen),
                          nextZoom |-> TIER_ZOOM_MIN[TIER_BY_CODE[chosen + 1]]]]

-----------------------------------------------------------------------------
(* A request by hand: [kind, ident, region, force], region NULL for any.     *)
(* The replica's rows are [kind, ident, region, detail], absent its          *)
(* [kind, ident, region].                                                   *)

Fits(req, row) == row.ident = req.ident /\ (req.region = NULL \/ row.region = req.region)

IsAbsent(db, req) ==
  \/ \E x \in db.absent : x.kind = req.kind /\ (IF req.kind = "A" THEN x.ident = req.ident ELSE Fits(req, x))
  \/ req.kind = "A" /\ \E x \in db.rows : x.kind = "A" /\ x.ident = req.ident /\ x.detail = "absent"

IsHeld(db, req) ==
  IF req.kind = "A" THEN \E x \in db.rows : x.kind = "A" /\ x.ident = req.ident /\ x.detail \in {"detail", "absent"}
  ELSE \E x \in db.rows : x.kind \in {"W", "V", "N"} /\ Fits(req, x)

SubmitRequest(db, req) ==
  CASE db # NULL /\ ~req.force /\ IsAbsent(db, req) -> "known-absent"
    [] db # NULL /\ ~req.force /\ ~IsAbsent(db, req) /\ IsHeld(db, req) -> "already-present"
    [] OTHER -> "queued"

-----------------------------------------------------------------------------
(* What is promised. *)

\* The share of a box that is harvested is a share of its own cells, in a box
\* over the antimeridian too.
CellOf(row, col) == row * 2 * Half + col

BoxKnowsItsCells(cells, b) ==
  ParseBbox(b) # NULL =>
    LET inside == {CellOf(row, col) : row \in CellRow(b.s)..CellRow(b.n),
                     col \in UNION {r[1]..r[2] : r \in ColRanges(b)}}
        cover  == CoverageFor([cells |-> cells], b)
    IN  /\ cover.harvested = IF b.w = b.e THEN 0 ELSE Cardinality(cells \cap inside)
        /\ cover.harvested <= cover.total

\* A map asks for what it shows and a fifth more, however far its viewer panned
\* round the world.
BoxIsTheView(v) ==
  LET box == PaddedBbox(v)
      pad == (v.e - v.w) \div 5
  IN  /\ ParseBbox(box) # NULL
      /\ \A lon \in 1 - Half..Half - 1 :
           InRanges(lon, box) = \E turn \in -2..2 : lon + turn * 2 * Half \in v.w - pad..v.e + pad

\* An airway leg is shown where it comes into the box, whichever of the two
\* crosses the antimeridian.
BoxShowsItsAirways(leg, b) ==
  LET west  == Min({leg.from[2], leg.to[2]})
      east  == Max({leg.from[2], leg.to[2]})
      over  == IF leg.dateline THEN (east..Half) \cup (-Half..west) ELSE west..east
      lats  == Min({leg.from[1], leg.to[1]})..Max({leg.from[1], leg.to[1]})
  IN  ParseBbox(b) # NULL =>
        (AirwayLegInside(leg, b) <=> \E lat \in lats, lon \in over : Inside(<<lat, lon>>, b))

\* An airport that the zoom admits is shown or the answer says it was cut; what
\* is thinned out is counted, is never of a tier that is shown, and comes into
\* view at the zoom that is announced; zooming in hides no tier of this view.
ThinningTellsWhatItHides(db, b, zoom, limit, classified) ==
  LET here  == Features(db, b, zoom, limit, {"airports"}, classified)
      view  == {a \in db.airports : Inside(a.at, b)}
      shown == ToSet(here.airports)
      closer == Features(db, b, zoom + 1, limit, {"airports"}, classified)
      next  == Features(db, b, here.thinning.nextZoom, limit, {"airports"}, classified)
  IN  zoom >= ZOOM_MIN.airports =>
        /\ ~here.truncated => Cardinality(view) = Cardinality(shown) + here.thinning.hidden
        /\ ~here.truncated => \A a \in shown, c \in view \ shown : TierOf(a) < TierOf(c)
        /\ ~here.truncated /\ ~closer.truncated => shown \subseteq ToSet(closer.airports)
        /\ here.thinning.mode = "tier" =>
             /\ here.thinning.nextZoom > zoom
             /\ next.thinning.hidden < here.thinning.hidden \/ next.thinning.through # here.thinning.through
        /\ zoom >= 9 \/ ~classified => here.thinning.hidden = 0
        /\ \A a \in view : TierOf(a) >= 4 /\ zoom < 9 /\ classified /\ here.thinning.mode = "tier" => a \notin shown

\* A symbol claims what one runway is and nothing that was not fetched, and the
\* tier it carries is the one it was filtered by.
SymbolsClaimWhatIsKnown(row) ==
  LET symbol == SymbolFields(row)
  IN  /\ FeatureTier(row, TRUE) = RowTier(row)
      /\ ~row.detail => \A field \in DOMAIN symbol : symbol[field] = NULL
      /\ symbol.metres # NULL =>
           \E r \in row.runways : /\ r.length = symbol.metres /\ r.heading = symbol.heading
                                  /\ SurfaceBucket(r.surface) = symbol.surface
                                  /\ \A q \in Measured(row) : q.length <= r.length
      /\ symbol.surface # NULL \/ symbol.heading # NULL => symbol.metres # NULL
      /\ symbol.towered = TRUE => TRUE \in row.frequencies

\* A request is queued unless the replica can answer it; what it knows to be
\* missing is said to be missing, even beside a row of the same name.
RequestsAskWhatIsUnknown(db, req) ==
  LET answer == SubmitRequest(db, req)
  IN  /\ db = NULL \/ req.force => answer = "queued"
      /\ answer = "already-present" => \E x \in db.rows : x.ident = req.ident
      /\ db # NULL /\ ~req.force /\ (\E x \in db.absent : x.kind = req.kind /\ x.ident = req.ident
                                        /\ (req.region = NULL \/ x.region = req.region))
           => answer = "known-absent"
=============================================================================
