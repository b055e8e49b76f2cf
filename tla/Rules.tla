------------------------------- MODULE Rules --------------------------------
(***************************************************************************)
(* What the dashboard derives from readings: the verdict of a service, how *)
(* a field moved, and the findings about the estate.  Percentages are in   *)
(* hundredths of a point, so every threshold of the code is an integer     *)
(* here; d is a deployment's domain configuration.                         *)
(***************************************************************************)
EXTENDS Integers, Sequences, FiniteSets, FiniteSetsExt, SequencesExt

Absent     == [valid |-> FALSE, value |-> 0]
Present(v) == [valid |-> TRUE, value |-> v]

Full == 10000                       \* 100 %
Complement(v) == Full - v

LastDays(history, n) ==
    IF Len(history) <= n THEN history
    ELSE SubSeq(history, Len(history) - n + 1, Len(history))

(* A list without what is at its other places. *)
Kept(list, places) ==
    LET upto[k \in 0 .. Len(list)] ==
          IF k = 0 THEN <<>>
          ELSE IF k \in places THEN Append(upto[k - 1], list[k]) ELSE upto[k - 1]
    IN  upto[Len(list)]

Total(svs, Of(_)) == FoldLeft(LAMBDA sum, sv : sum + Of(sv), 0, svs)

-----------------------------------------------------------------------------
(* Verdicts *)

Statuses == {"operational", "partial", "major", "maintenance", "unknown"}

(* Mutant: an absent reading is compared as the zero it holds. *)
MutantBelowTarget(reading, limit) == reading.value < limit

BelowTarget(reading, limit) == reading.valid /\ reading.value < limit

Matches(status, sv, v) ==
    \/ status = "maintenance" /\ sv.maintenance
    \/ status = "unknown" /\ (~sv.availability.valid \/ sv.stale > v.staleAbove)
    \/ status = "major"
         /\ (BelowTarget(sv.availability, v.majorAvailability) \/ sv.errorRate > v.majorErrors)
    \/ status = "partial"
         /\ (BelowTarget(sv.availability, v.partialAvailability) \/ sv.errorRate > v.partialErrors)
    \/ status = "operational"

(* The first rule in the published order that holds. *)
Evaluate(sv, d) ==
    LET holds == {i \in DOMAIN d.evaluationOrder : Matches(d.evaluationOrder[i], sv, d.thresholds)}
    IN  IF holds = {} THEN "unknown" ELSE d.evaluationOrder[Min(holds)]

FieldValue(point, field) ==
    CASE field = "availability" -> point.availability
      [] field = "downtime"     -> [point.availability EXCEPT !.value = Complement(@)]
      [] field = "errorRate"    -> Present(point.errorRate)
      [] field = "volume"       -> Present(point.volume)
      [] OTHER                  -> Absent

Magnitude(n) == IF n < 0 THEN -n ELSE n

WithinBand(delta, now, field) ==
    IF field = "volume" THEN 200 * Magnitude(delta) < Magnitude(now)
                        ELSE Magnitude(delta) < 2

Flat(days) == [delta |-> 0, direction |-> "flat", days |-> days]

Trend(history, field, days) ==
    LET last == Len(history)
        now  == FieldValue(history[last], field)
        past == FieldValue(history[Max({1, last - days})], field)
        delta == now.value - past.value
    IN  IF last < 2 THEN Flat(days)
        ELSE IF ~now.valid \/ ~past.valid THEN Flat(days)
        ELSE [delta |-> delta, days |-> days,
              direction |-> CASE WithinBand(delta, now.value, field) -> "flat"
                              [] ~WithinBand(delta, now.value, field) /\ delta > 0 -> "up"
                              [] OTHER -> "down"]

DaysOf(d, period) ==
    LET named == {i \in DOMAIN d.periods : d.periods[i].id = period}
    IN  IF named = {} THEN Absent ELSE Present(d.periods[Min(named)].days)

DefaultTrendDays(d) ==
    LET days == DaysOf(d, d.defaultPeriod) IN IF days.valid THEN days.value ELSE 30

(* Every driver runs what it received through this. *)
Finalise(services, d) ==
    [i \in DOMAIN services |->
        [services[i] EXCEPT
            !.status = Evaluate(services[i], d),
            !.trends = [field \in {"availability", "errorRate", "volume"} |->
                          Trend(services[i].history, field, DefaultTrendDays(d))]]]

-----------------------------------------------------------------------------
(* Findings.  A finding names the services it counted, so that what a card  *)
(* claims can be compared with what it leads to.                            *)

NoFilter == [status |-> <<>>, category |-> <<>>, ids |-> <<>>, role |-> ""]
NoFocus  == [service |-> "", tab |-> ""]

Card(def, about) ==
    [kind |-> def.kind, about |-> about, filter |-> def.filter, focus |-> NoFocus, empty |-> FALSE]

Nothing == [kind |-> "none", about |-> {}, filter |-> NoFilter, focus |-> NoFocus, empty |-> TRUE]

Ids(services, Holds(_)) == {services[i].id : i \in {j \in DOMAIN services : Holds(services[j])}}

InOrder(services, ids) ==
    LET chosen == SelectSeq(services, LAMBDA sv : sv.id \in ids)
    IN  [i \in DOMAIN chosen |-> chosen[i].id]

(* In an order that does not depend on the services. *)
Categories(services) == SetToSeq({services[i].category : i \in DOMAIN services})

AvailabilityTarget(d) ==
    LET metrics == {i \in DOMAIN d.metrics :
                      d.metrics[i].field = "availability" /\ d.metrics[i].target.valid}
    IN  IF metrics = {} THEN Absent ELSE d.metrics[Min(metrics)].target

(* Missed the target on every one of the last days, all of them on record. *)
BelowTargetDays(def, d, services) ==
    LET target == AvailabilityTarget(d)
        Missed(sv) == LET window == LastDays(sv.history, def.days) IN
            /\ sv.availability.valid
            /\ Len(window) >= def.days
            /\ \A i \in DOMAIN window : BelowTarget(window[i].availability, target.value)
        ids == Ids(services, Missed)
    IN  IF ~target.valid \/ def.days <= 0 \/ ids = {} THEN <<>> ELSE <<Card(def, ids)>>

(* The mean error rate of a category rose by more than a twentieth of a point. *)
ErrorRisingCategories(def, services) ==
    LET of(c) == SelectSeq(services, LAMBDA sv : sv.category = c /\ sv.history # <<>>)
        Now(sv)  == sv.history[Len(sv.history)].errorRate
        Past(sv) == sv.history[Max({1, Len(sv.history) - 30})].errorRate
        rising == SelectSeq(Categories(services), LAMBDA c :
                    of(c) # <<>> /\ Total(of(c), Now) > Total(of(c), Past) + 5 * Len(of(c)))
    IN  IF Len(rising) < def.minCategories THEN <<>>
        ELSE <<[Card(def, Ids(services, LAMBDA sv : sv.category \in Range(rising)))
                  EXCEPT !.filter = [NoFilter EXCEPT !.category = rising]]>>

(* The incident open the longest; the first found, of those opened together. *)
LongestOpenIncident(def, services) ==
    LET Opened(sv) == {sv.incidents[k].opened : k \in {j \in DOMAIN sv.incidents : sv.incidents[j].open}}
        all   == UNION {Opened(services[i]) : i \in DOMAIN services}
        first == Min({i \in DOMAIN services : Min(all) \in Opened(services[i])})
    IN  IF all = {} THEN <<>>
        ELSE <<[Card(def, {services[first].id}) EXCEPT
                  !.filter = NoFilter,
                  !.focus = [service |-> services[first].id, tab |-> "incidents"]]>>

MaintenanceActive(def, services) ==
    LET ids == Ids(services, LAMBDA sv : sv.status = "maintenance")
    IN  IF ids = {} THEN <<>> ELSE <<Card(def, ids)>>

EvaluateSignal(def, d, services) ==
    CASE def.kind = "belowTargetDays"       -> BelowTargetDays(def, d, services)
      [] def.kind = "errorRisingCategories" -> ErrorRisingCategories(def, services)
      [] def.kind = "longestOpenIncident"   -> LongestOpenIncident(def, services)
      [] def.kind = "maintenanceActive"     -> MaintenanceActive(def, services)
      [] OTHER                              -> <<>>

OrNothing(cards) == IF cards = <<>> THEN <<Nothing>> ELSE cards

Signals(d, services) ==
    OrNothing(FlattenSeq([i \in DOMAIN d.signals |-> EvaluateSignal(d.signals[i], d, services)]))

-----------------------------------------------------------------------------
(* Opportunities: findings about supply and demand together. *)

(* A state's instance of an issuer shares its key with every other state's. *)
CallersByIssuer(issuer, requestors) ==
    SelectSeq(requestors, LAMBDA r :
        /\ r.calls # "" /\ r.calls = issuer.key
        /\ issuer.scope = "state" => r.region = issuer.region)

(* Four times the quartile k of a list, interpolated between two readings. *)
FourQuantile(values, k) ==
    LET sorted == SortSeq(values, <)
        place  == (Len(sorted) - 1) * k
        low    == sorted[1 + place \div 4]
        high   == sorted[1 + (place + 3) \div 4]
    IN  4 * low + (high - low) * (place % 4)

WithIds(base, ids) == [base EXCEPT !.ids = ids]

IssuedAtScaleRarelyRequested(def, issuers, requestors) ==
    LET demand == [i \in DOMAIN issuers |-> Len(CallersByIssuer(issuers[i], requestors))]
        volume == [i \in DOMAIN issuers |-> issuers[i].success]
        few    == {issuers[i].id : i \in {j \in DOMAIN issuers :
                     /\ 4 * volume[j] >= FourQuantile(volume, 3)
                     /\ 4 * demand[j] <= FourQuantile(demand, 1)}}
    IN  IF few = {} THEN <<>>
        ELSE <<[Card(def, few) EXCEPT !.filter = WithIds(def.filter, InOrder(issuers, few))]>>

(* One requestor makes the given share of all the pulls of a category. *)
SingleRequestorCategories(def, requestors) ==
    LET in(c)  == SelectSeq(requestors, LAMBDA r : r.category = c)
        sum(c) == Total(in(c), LAMBDA r : r.success)
        top(c) == Max({0} \cup {in(c)[i].success : i \in DOMAIN in(c)})
        hits == SelectSeq(Categories(requestors), LAMBDA c :
                  sum(c) # 0 /\ top(c) * 100 >= def.concentration * sum(c))
    IN  IF def.concentration <= 0 \/ hits = <<>> THEN <<>>
        ELSE <<[Card(def, Ids(requestors, LAMBDA r : r.category \in Range(hits)))
                  EXCEPT !.filter = [def.filter EXCEPT !.category = hits]]>>

(* Live and healthy for long enough to have been adopted, and not adopted. *)
ZeroRequestors(def, issuers, requestors) ==
    LET ids == Ids(issuers, LAMBDA sv :
                 /\ sv.status = "operational" /\ Len(sv.history) >= def.days
                 /\ CallersByIssuer(sv, requestors) = <<>>)
    IN  IF def.days <= 0 \/ ids = {} THEN <<>>
        ELSE <<[Card(def, ids) EXCEPT !.filter = WithIds(def.filter, InOrder(issuers, ids))]>>

(* In thousandths of where the series started. *)
RelativeRise(history, n) ==
    LET last == history[Len(history)].volume
        past == history[Max({1, Len(history) - n})].volume
    IN  IF history = <<>> THEN 0
        ELSE IF past <= 0 THEN 0 ELSE ((last - past) * 1000) \div past

FastestGrowingDemand(def, issuers, requestors) ==
    LET callers(i) == CallersByIssuer(issuers[i], requestors)
        wanted == {i \in DOMAIN issuers : callers(i) # <<>> /\ issuers[i].status = "operational"}
        rise == [i \in wanted |->
                   Total(callers(i), LAMBDA r : RelativeRise(r.history, def.days)) \div Len(callers(i))]
        growing == {i \in wanted : rise[i] > 0}
        best == Min({i \in growing : \A j \in growing : rise[j] <= rise[i]})
    IN  IF def.days <= 0 \/ growing = {} THEN <<>>
        ELSE <<[Card(def, {issuers[best].id}) EXCEPT
                  !.filter = NoFilter,
                  !.focus = [service |-> issuers[best].id, tab |-> def.focusTab]]>>

EvaluateOpportunity(def, d, issuers, requestors) ==
    CASE def.kind = "issuedAtScaleRarelyRequested" ->
            IF issuers = <<>> THEN <<>> ELSE IssuedAtScaleRarelyRequested(def, issuers, requestors)
      [] def.kind = "singleRequestorCategories" -> SingleRequestorCategories(def, requestors)
      [] def.kind = "zeroRequestors"            -> ZeroRequestors(def, issuers, requestors)
      [] def.kind = "fastestGrowingDemand"      -> FastestGrowingDemand(def, issuers, requestors)
      [] OTHER                                  -> <<>>

Opportunities(d, issuers, requestors) ==
    OrNothing(FlattenSeq([i \in DOMAIN d.opportunities |->
                EvaluateOpportunity(d.opportunities[i], d, issuers, requestors)]))
=============================================================================
