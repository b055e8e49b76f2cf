------------------------------- MODULE Query --------------------------------
(***************************************************************************)
(* Narrowing, ranking and ordering the services of a snapshot for one      *)
(* reader.  A list of services is a sequence, because ties keep the order  *)
(* they had.                                                               *)
(***************************************************************************)
EXTENDS Rules

DaysFor(d, period) ==
    LET named == DaysOf(d, period)
    IN  IF named.valid THEN named.value ELSE DaysOf(d, d.defaultPeriod).value

Mean(readings) == FoldLeft(+, 0, readings) \div Len(readings)

Readings(window) == Kept(window, {i \in DOMAIN window : window[i].availability.valid})

Averaged(window) ==
    LET read == Readings(window) IN
    [availability |-> IF read = <<>> THEN Absent
                      ELSE Present(Mean([i \in DOMAIN read |-> read[i].availability.value])),
     errorRate |-> Mean([i \in DOMAIN window |-> window[i].errorRate]),
     volume    |-> FoldLeft(+, 0, [i \in DOMAIN window |-> window[i].volume]),
     current   |-> FALSE]

(* How a service performed across a window; a day without a reading is       *)
(* skipped rather than counted as zero, and a service without history shows  *)
(* its latest reading.                                                      *)
Standing(sv, days) ==
    IF sv.history = <<>>
    THEN [availability |-> sv.availability, errorRate |-> sv.errorRate,
          volume |-> sv.total, current |-> TRUE]
    ELSE Averaged(IF days <= 0 THEN sv.history ELSE LastDays(sv.history, days))

-----------------------------------------------------------------------------
(* Populations *)

RegionsAreAll(d, region) ==
    LET named == {i \in DOMAIN d.regions : d.regions[i].id = region}
    IN  named # {} /\ d.regions[Min(named)].scope = d.defaultScope

Scope(d, services, scope, region) ==
    Kept(services, {i \in DOMAIN services :
        /\ services[i].scope = scope
        /\ region # "" /\ ~RegionsAreAll(d, region) => services[i].region = region})

RoleOf(d, sv) == IF sv.role = "" THEN d.defaultRole ELSE sv.role

Role(d, services, role) ==
    LET wanted == IF role = "" THEN d.defaultRole ELSE role
    IN  IF d.roles = <<>> THEN services
        ELSE Kept(services, {i \in DOMAIN services : RoleOf(d, services[i]) = wanted})

RoleFor(d, role) == IF role \in Range(d.roles) THEN role ELSE d.defaultRole

SignalTabFor(d, tab) ==
    IF tab = "opportunity" /\ d.opportunities # <<>> THEN "opportunity" ELSE "attention"

-----------------------------------------------------------------------------
(* Ranking and ordering *)

(* Place k goes in behind the last of those that it does not come before. *)
Inserted(order, k, compare) ==
    LET ahead == {i \in DOMAIN order : compare[order[i]][k] <= 0}
    IN  InsertAt(order, Max({0} \cup ahead) + 1, k)

(* The places 1 .. n in the order of a comparison, ties left as they were.   *)
InOrderOf(n, compare) ==
    LET upto[k \in 0 .. n] == IF k = 0 THEN <<>> ELSE Inserted(upto[k - 1], k, compare)
    IN  upto[n]

(* A list put in the order of a comparison. *)
StableSort(list, Compare(_, _)) ==
    LET compare == [i \in DOMAIN list |-> [j \in DOMAIN list |-> Compare(list[i], list[j])]]
        order   == InOrderOf(Len(list), compare)
    IN  [i \in DOMAIN list |-> list[order[i]]]

(* Mutant: a service that reports no availability scores by its errors. *)
MutantScore(st) ==
    Present((IF st.availability.valid THEN Complement(st.availability.value) ELSE 0) + st.errorRate)

(* The share of this service that fails the people using it; infinite when   *)
(* that was not measured.                                                   *)
Score(st) ==
    IF st.availability.valid THEN Present(Complement(st.availability.value) + st.errorRate) ELSE Absent

ByName(a, b) == a.name - b.name

ByScore(a, b) ==
    IF a.valid /\ b.valid THEN a.value - b.value ELSE IF a.valid THEN -1 ELSE 1

ByStanding(a, b, sa, sb) ==
    IF Score(sa) # Score(sb) THEN ByScore(Score(sa), Score(sb))
    ELSE IF sa.errorRate # sb.errorRate THEN sa.errorRate - sb.errorRate
    ELSE ByName(a, b)

(* The last of an id speaks for it. *)
LastPlaces(list) ==
    [id \in {list[i].id : i \in DOMAIN list} |-> Max({i \in DOMAIN list : list[i].id = id})]

Rank(services, days) ==
    LET last == LastPlaces(services)
        standing == [id \in DOMAIN last |-> Standing(services[last[id]], days)]
    IN  StableSort(services, LAMBDA a, b : ByStanding(a, b, standing[a.id], standing[b.id]))

Ranks(ranked) == LastPlaces(ranked)

(* An absent availability sorts below every reading. *)
Value(st, field) ==
    CASE field = "availability" -> IF st.availability.valid THEN st.availability.value ELSE -1
      [] field = "downtime" -> IF st.availability.valid THEN Complement(st.availability.value) ELSE -1
      [] field = "errorRate" -> st.errorRate
      [] field = "volume"    -> st.volume
      [] OTHER               -> 0

MetricField(d, key) ==
    LET named == {i \in DOMAIN d.metrics : d.metrics[i].id = key}
    IN  IF named = {} THEN "" ELSE d.metrics[Min(named)].field

(* A column the deployment does not have orders by rank. *)
Comparator(d, key, days, ranks, a, b) ==
    CASE key = "name"   -> ByName(a, b)
      [] key = "status" -> d.severity[a.status] - d.severity[b.status]
      [] key \notin {"name", "status", "rank"} /\ MetricField(d, key) # "" ->
            Value(Standing(a, days), MetricField(d, key)) - Value(Standing(b, days), MetricField(d, key))
      [] OTHER -> ranks[a.id] - ranks[b.id]

Order(d, services, key, dir, days, ranks) ==
    LET sign == IF dir = "desc" THEN -1 ELSE 1
    IN  StableSort(services, LAMBDA a, b : sign * Comparator(d, key, days, ranks, a, b))

DefaultDirection(key) == IF key \in {"rank", "name"} THEN "asc" ELSE "desc"

-----------------------------------------------------------------------------
(* Filters: statuses, categories, words and ids that narrow the list. *)

Chosen(filter, kind) == filter[kind] # {}

Active(filter) == \E kind \in DOMAIN filter : Chosen(filter, kind)

Count(filter) == Cardinality({kind \in DOMAIN filter : Chosen(filter, kind)})

Passes(sv, filter) ==
    /\ Chosen(filter, "status") => sv.status \in filter.status
    /\ Chosen(filter, "cat")    => sv.category \in filter.cat
    /\ Chosen(filter, "id")     => sv.id \in filter.id
    /\ Chosen(filter, "q")      => filter.q \subseteq sv.words

Apply(services, filter) == Kept(services, {i \in DOMAIN services : Passes(services[i], filter)})

Counts(d, services) ==
    [s \in Range(d.statusOrder) \cup {services[i].status : i \in DOMAIN services} |->
        Cardinality({i \in DOMAIN services : services[i].status = s})]
=============================================================================
