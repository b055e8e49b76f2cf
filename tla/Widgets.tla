------------------------------ MODULE Widgets -------------------------------
(***************************************************************************)
(* What one request makes of a snapshot, and what each widget shows of it. *)
(* A request is [service, params]: the service its path names ("" for the  *)
(* board) and its query.  A widget is the facts it puts on the page; words,*)
(* icons and geometry are left out.                                        *)
(***************************************************************************)
EXTENDS Demand

Callers(services) == SelectSeq(services, LAMBDA sv : sv.calls # "")

(* Mutant: a service is ranked among those the filters left. *)
MutantRanking(side, kept, days) == Ranks(Rank(kept, days))

(* A rank is a place on the whole board, whatever part of it is showing. *)
Ranking(side, kept, days) == Ranks(Rank(side, days))

(* What one request selects: the populations every widget reads from. *)
Selection(d, all, request, st) ==
    LET Side(role) == Scope(d, Role(d, all, role), st.scope, st.region)
        named == {i \in DOMAIN all : all[i].id = st.service}
    IN  [d |-> d, all |-> all, state |-> st, params |-> ReadParams(request.params),
         days |-> DaysFor(d, st.period),
         scoped |-> Side(d.defaultRole), roleScoped |-> Side(st.role),
         demand |-> Scope(d, Callers(all), st.scope, st.region),
         service |-> IF named = {} THEN <<>> ELSE <<all[Min(named)]>>]

Build(d, all, request, cookie) ==
    Selection(d, all, request, ReadState(d, request.service, request.params, cookie))

Filtered(c) == Apply(c.roleScoped, c.state.filter)

RanksOf(c) == Ranking(c.roleScoped, Filtered(c), c.days)

Listed(c, ranks) == Order(c.d, Filtered(c), c.state.sort, c.state.dir, c.days, ranks)

Href(c, service, changed) == Link(service, ParamsWith(c.params, changed))

-----------------------------------------------------------------------------
(* The verdict *)

StatusSummary(c) ==
    LET counts  == Counts(c.d, c.scoped)
        parts   == SelectSeq(c.d.statusOrder, LAMBDA s : counts[s] > 0)
        allWell == c.scoped # <<>> /\ Range(parts) \subseteq {"operational"}
    IN  [allWell |-> allWell,
         parts |-> IF allWell THEN <<>>
                   ELSE [i \in DOMAIN parts |-> [status |-> parts[i], count |-> counts[parts[i]]]]]

Legend(c) ==
    LET counts == Counts(c.d, c.scoped)
    IN  [i \in DOMAIN c.d.statusOrder |->
            [status |-> c.d.statusOrder[i], count |-> counts[c.d.statusOrder[i]]]]

SegmentedBar(c) ==
    LET total == Total(Legend(c), LAMBDA item : item.count)
        drawn == SelectSeq(Legend(c), LAMBDA item : item.count > 0)
    IN  [i \in DOMAIN drawn |->
            [status |-> drawn[i].status, percent |-> (drawn[i].count * Full) \div total]]

Coverage(c) == [onboarded |-> Len(c.all), total |-> c.d.estate]

Disclosure(c) == SelectSeq(c.d.statusOrder, LAMBDA s : s \in c.d.prose)

ResultCount(c) ==
    [shown |-> Len(Filtered(c)), total |-> Len(c.roleScoped), period |-> c.state.period]

-----------------------------------------------------------------------------
(* Findings *)

SignalsOf(c) ==
    IF c.state.signals = "opportunity" THEN Opportunities(c.d, c.scoped, c.demand)
                                       ELSE Signals(c.d, c.scoped)

(* An action opens a service, switches the whole page to the other side of   *)
(* the exchange, or narrows the board in place.                             *)
SignalAction(c, card) ==
    LET filter == [status |-> card.filter.status, cat |-> card.filter.category,
                   id |-> card.filter.ids, q |-> <<>>]
        sided  == [role |-> <<card.filter.role>>, status |-> card.filter.status,
                   cat |-> card.filter.category, id |-> card.filter.ids, q |-> <<>>]
    IN  IF card.focus.service # ""
        THEN [target |-> "drawer",
              href |-> Href(c, card.focus.service,
                           [tab |-> IF card.focus.tab = "" THEN <<>> ELSE <<card.focus.tab>>])]
        ELSE IF card.filter.role # ""
        THEN [target |-> "body", href |-> Href(c, "", sided)]
        ELSE [target |-> "leaderboard", href |-> Href(c, "", filter)]

SignalCard(c, card) ==
    [kind |-> card.kind, about |-> card.about, empty |-> card.empty, action |-> SignalAction(c, card)]

CardsOf(c, findings) == [i \in DOMAIN findings |-> SignalCard(c, findings[i])]

SignalCards(c) == CardsOf(c, SignalsOf(c))

SignalTabs(c) ==
    IF c.d.opportunities = <<>> THEN {}
    ELSE {[tab |-> tab, active |-> c.state.signals = tab,
           href |-> Href(c, "", [signals |-> <<tab>>])] : tab \in {"attention", "opportunity"}}

-----------------------------------------------------------------------------
(* The board *)

RegionEnabled(c) == c.d.showRegions /\ c.state.scope # c.d.defaultScope

(* Mutant: the chips count the supply side on either board. *)
MutantChipPopulation(c) == c.scoped

(* Chips count the board before it was filtered. *)
ChipPopulation(c) == c.roleScoped

(* An active category stays on offer whatever its count.  Without            *)
(* showRegions there is no region select, and the form leaves the region    *)
(* out all the same.                                                        *)
FilterBar(c) ==
    LET counts == Counts(c.d, ChipPopulation(c))
        In(cat) == Cardinality({i \in DOMAIN ChipPopulation(c) : ChipPopulation(c)[i].category = cat})
        offered == {cat \in Range(c.d.categories) : In(cat) > 0 \/ cat \in c.state.filter.cat}
        named   == Kept(c.d.regions, {i \in DOMAIN c.d.regions :
                       c.d.showRegions /\ c.d.regions[i].scope \in {c.state.scope, c.d.defaultScope}})
        typed   == [c.state.filter EXCEPT !.id = {}]
    IN  [q          |-> c.state.filter.q,
         statuses   |-> [s \in Range(c.d.statusOrder) |->
                           [count |-> counts[s], active |-> s \in c.state.filter.status]],
         categories |-> [cat \in offered |->
                           [count |-> In(cat), active |-> cat \in c.state.filter.cat]],
         regions    |-> [i \in DOMAIN named |-> [id |-> named[i].id, active |-> named[i].id = c.state.region]],
         enabled    |-> RegionEnabled(c),
         applied    |-> Count(typed),
         clear      |-> Active(typed),
         clearHref  |-> Href(c, "", [p \in {"q", "status", "cat", "id"} |-> <<>>]),
         open       |-> c.state.filters,
         hidden     |-> HiddenExcept(c.params, {"q", "region", "status", "cat", "filters", "tab"})]

MetricById(d, key) == SelectSeq(d.metrics, LAMBDA m : m.id = key)

(* The target of a complement is derived from the metric it complements. *)
ResolvedTarget(d, m) ==
    LET whole == {i \in DOMAIN d.metrics : d.metrics[i].id = m.complementOf /\ d.metrics[i].target.valid}
    IN  IF m.complementOf = "" THEN m.target
        ELSE IF whole = {} THEN Absent ELSE Present(Complement(d.metrics[Min(whole)].target.value))

(* Whether a movement is good news depends on the metric. *)
TrendTone(direction, moved) ==
    CASE direction = "higher-is-better" -> IF moved = "up" THEN "ok" ELSE "major"
      [] direction = "lower-is-better"  -> IF moved = "down" THEN "ok" ELSE "major"
      [] OTHER                          -> "neutral"

Unreported == [value |-> Absent, target |-> Absent, delta |-> 0, tone |-> ""]

(* Not reported and zero are different claims. *)
Cell(c, sv, m, st, tr) ==
    IF ~st.availability.valid /\ m.field \in {"availability", "downtime"} THEN Unreported
    ELSE [value  |-> Present(IF m.framing = "denominator" /\ sv.total > 0
                             THEN (sv.success * Full) \div sv.total ELSE Value(st, m.field)),
          target |-> ResolvedTarget(c.d, m),
          delta  |-> tr.delta,
          tone   |-> IF tr.direction = "flat" THEN "" ELSE TrendTone(m.direction, tr.direction)]

BuildCell(c, sv, m) == Cell(c, sv, m, Standing(sv, c.days), Trend(sv.history, m.field, c.days))

(* The one figure a narrow screen shows. *)
WorstCell(cells) ==
    LET bad == SelectSeq(cells, LAMBDA cell : ~cell.value.valid \/ cell.tone = "major")
    IN  IF cells = <<>> THEN <<>> ELSE <<(bad \o cells)[1]>>

BoardKeys(d) == SelectSeq(d.columns, LAMBDA key : MetricById(d, key) # <<>>)

Row(c, sv, rank, cells) ==
    [id |-> sv.id, rank |-> rank, status |-> sv.status, cells |-> cells,
     worst |-> WorstCell(cells), href |-> Href(c, sv.id, None)]

BuildRow(c, sv, rank) ==
    Row(c, sv, rank, [i \in DOMAIN BoardKeys(c.d) |->
                        BuildCell(c, sv, MetricById(c.d, BoardKeys(c.d)[i])[1])])

Column(c, key) ==
    LET sorted == c.state.sort = key
        next   == IF ~sorted THEN DefaultDirection(key)
                  ELSE IF c.state.dir = "asc" THEN "desc" ELSE "asc"
    IN  [key |-> key, sorted |-> IF sorted THEN c.state.dir ELSE "none",
         href |-> Href(c, "", [sort |-> <<key>>, dir |-> <<next>>])]

Columns(c) == [i \in DOMAIN c.d.columns |-> Column(c, c.d.columns[i])]

Rows(c, listed, ranks) == [i \in DOMAIN listed |-> BuildRow(c, listed[i], ranks[listed[i].id])]

RankedRows(c, ranks) == Rows(c, Listed(c, ranks), ranks)

BoardRows(c) == RankedRows(c, RanksOf(c))

Leaderboard(c) ==
    [columns |-> Columns(c), rows |-> BoardRows(c),
     empty |-> Filtered(c) = <<>>, total |-> Len(c.roleScoped), shown |-> Len(Filtered(c))]

-----------------------------------------------------------------------------
(* The drawer *)

WindowOf(c, bind) == IF bind.days = 0 THEN c.days ELSE bind.days

LastN(history, n) == IF n <= 0 THEN history ELSE LastDays(history, n)

StatTile(c, sv, key) ==
    LET m == MetricById(c.d, key)
    IN  IF m = <<>> THEN <<>>
        ELSE <<[cell |-> BuildCell(c, sv, m[1]),
                frame |-> IF m[1].framing = "denominator" THEN <<sv.success, sv.total>> ELSE <<>>]>>

(* A day without a reading is skipped, not drawn as zero. *)
DailyReadings(points) ==
    LET read == SelectSeq(points, LAMBDA p : p.availability.valid)
    IN  [i \in DOMAIN read |-> read[i].availability.value]

Spark(vals) ==
    IF vals = <<>> THEN <<>>
    ELSE <<[values |-> vals, min |-> Min(Range(vals)), max |-> Max(Range(vals))]>>

(* Downtime is drawn as what is left of availability, against what is left  *)
(* of its target.                                                           *)
Sparkline(c, sv, bind) ==
    LET days == DailyReadings(LastN(sv.history, WindowOf(c, bind)))
        m == SelectSeq(c.d.metrics, LAMBDA metric : metric.field = "downtime")
    IN  IF bind.field = "downtime"
        THEN [line |-> Spark([i \in DOMAIN days |-> Complement(days[i])]),
              target |-> IF m = <<>> THEN Absent ELSE ResolvedTarget(c.d, m[1])]
        ELSE [line |-> Spark(days), target |-> Absent]

(* Every day is a bar; the peak and the low are the first days to reach them. *)
Bars(history, days) ==
    LET points == LastN(history, days)
        volumes == {points[i].volume : i \in DOMAIN points}
        First(v) == Min({i \in DOMAIN points : points[i].volume = v})
    IN  IF points = <<>> THEN <<>>
        ELSE <<[max |-> Max(volumes), min |-> Min(volumes),
                peak |-> First(Max(volumes)), low |-> First(Min(volumes)),
                heights |-> [i \in DOMAIN points |->
                               IF Max(volumes) > 0 THEN (points[i].volume * Full) \div Max(volumes) ELSE 0]]>>

BarChart(c, sv, bind) == Bars(sv.history, WindowOf(c, bind))

(* Widths are relative to the largest row. *)
Shares(counts) ==
    LET largest == Max({0} \cup Range(counts))
    IN  [i \in DOMAIN counts |-> IF largest = 0 THEN 0 ELSE (counts[i] * Full) \div largest]

BarList(sv, limit) ==
    LET buckets == IF limit > 0 /\ Len(sv.errors) > limit THEN SubSeq(sv.errors, 1, limit) ELSE sv.errors
    IN  [rows |-> Shares(buckets), total |-> FoldLeft(+, 0, buckets)]

(* An incident still open lasts until now. *)
Timeline(sv, now) ==
    [i \in DOMAIN sv.incidents |->
        LET inc == sv.incidents[i]
        IN  [open |-> inc.open, lasted |-> (IF inc.open THEN now ELSE inc.closed) - inc.opened]]

(* The numbers behind a chart: every so many days, and always the latest.   *)
DataTable(c, sv, bind, every) ==
    LET points == LastN(sv.history, WindowOf(c, bind))
        taken  == {i \in DOMAIN points : (i - 1) % Max({1, every}) = 0 \/ i = Len(points)}
    IN  IF bind.source = "service.errorBreakdown" THEN sv.errors
        ELSE [i \in taken |-> [volume |-> points[i].volume, errorRate |-> points[i].errorRate]]
=============================================================================
