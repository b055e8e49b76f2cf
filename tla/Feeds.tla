-------------------------------- MODULE Feeds --------------------------------
(***************************************************************************)
(* The ways a service enters and leaves a deployment: the messages of the  *)
(* push and read APIs, what a push accepts and how it is laid over what is *)
(* served, and the example upstream with the mapping shipped to poll it.   *)
(* An optional member of a message is a sequence of at most one value.     *)
(***************************************************************************)
EXTENDS Bands

-----------------------------------------------------------------------------
(* Messages *)

OptToProto(reading) == IF reading.valid THEN <<reading.value>> ELSE <<>>

OptFromProto(sent) == IF sent = <<>> THEN Absent ELSE Present(sent[1])

StatusToProto(s) == IF s \in Statuses THEN s ELSE "UNSPECIFIED"

(* What a newer peer may send is unknown; what was never set stays unset. *)
StatusFromProto(s) ==
    IF s = "UNSPECIFIED" THEN "" ELSE IF s \in Statuses THEN s ELSE "unknown"

Moves == {"flat", "up", "down"}

DirectionToProto(dir) == IF dir \in Moves THEN dir ELSE "UNSPECIFIED"

(* Claiming no movement is safer than inventing one. *)
DirectionFromProto(dir) == IF dir \in Moves THEN dir ELSE "flat"

HistoryToProto(points) ==
    [i \in DOMAIN points |-> [points[i] EXCEPT !.availability = OptToProto(@)]]

HistoryFromProto(points) ==
    [i \in DOMAIN points |-> [points[i] EXCEPT !.availability = OptFromProto(@)]]

TrendsToProto(trends) ==
    [field \in DOMAIN trends |-> [trends[field] EXCEPT !.direction = DirectionToProto(@)]]

TrendsFromProto(trends) ==
    [field \in DOMAIN trends |-> [trends[field] EXCEPT !.direction = DirectionFromProto(@)]]

(* Sent as they are. *)
AsSent == {"id", "key", "calls", "scope", "role", "region", "category", "sector",
          "ownErrors", "incidents", "errors", "name", "words"}

Figures(sv) ==
    [availability |-> OptToProto(sv.availability), errorRate |-> sv.errorRate, stale |-> sv.stale,
     total |-> sv.total, success |-> sv.success]

(* A member of a message that describes a service. *)
Member(sv, field) ==
    CASE field = "metrics"     -> <<Figures(sv)>>
      [] field = "maintenance" -> IF sv.maintenance THEN <<TRUE>> ELSE <<>>
      [] field = "history"     -> HistoryToProto(sv.history)
      [] field = "status"      -> StatusToProto(sv.status)
      [] field = "trends"      -> TrendsToProto(sv.trends)
      [] OTHER                 -> sv[field]

Observations == AsSent \cup {"metrics", "maintenance", "history"}

(* What a collector reports: observations, never verdicts. *)
ServiceToIngestProto(sv) == [field \in Observations |-> Member(sv, field)]

(* A collector need not send figures or a maintenance window at all. *)
IngestServiceToModel(p) ==
    LET none == [availability |-> <<>>, errorRate |-> 0, stale |-> 0, total |-> 0, success |-> 0]
        m    == IF p.metrics = <<>> THEN none ELSE p.metrics[1]
    IN  [id |-> p.id, key |-> p.key, calls |-> p.calls, scope |-> p.scope, role |-> p.role,
         region |-> p.region, category |-> p.category, sector |-> p.sector, name |-> p.name,
         words |-> p.words, ownErrors |-> p.ownErrors, incidents |-> p.incidents, errors |-> p.errors,
         status |-> "", trends |-> <<>>,
         availability |-> OptFromProto(m.availability), errorRate |-> m.errorRate,
         stale |-> m.stale, total |-> m.total, success |-> m.success,
         maintenance |-> p.maintenance = <<TRUE>>, history |-> HistoryFromProto(p.history)]

(* What the read API answers also has the verdict and the trends. *)
ServiceToProto(sv) == [field \in Observations \cup {"status", "trends"} |-> Member(sv, field)]

ServiceFromProto(p) ==
    [IngestServiceToModel(p) EXCEPT !.status = StatusFromProto(p.status),
                                       !.trends = TrendsFromProto(p.trends)]

SnapshotToProto(services) == [i \in DOMAIN services |-> ServiceToProto(services[i])]

-----------------------------------------------------------------------------
(* Ingest *)

(* Mutant: any category is taken. *)
MutantValid(d, sv) ==
    /\ sv.id # ""
    /\ sv.scope \in {""} \cup d.scopes
    /\ sv.success <= sv.total

(* A service is checked against the deployment's own vocabulary; a member   *)
(* that was left out is not a mistake.                                      *)
Valid(d, sv) ==
    /\ sv.id # ""
    /\ sv.category \in {""} \cup Range(d.categories)
    /\ sv.region \in {""} \cup Range(IdsOf(d.regions))
    /\ sv.scope \in {""} \cup d.scopes
    /\ sv.availability.valid => sv.availability.value \in 0 .. Full
    /\ sv.success <= sv.total

(* One malformed record does not reject the others. *)
Accepted(d, sent) ==
    LET services == [i \in DOMAIN sent |-> IngestServiceToModel(sent[i])]
    IN  Kept(services, {i \in DOMAIN sent : Valid(d, services[i])})

(* The last to name an id has its place; one not named before goes last. *)
Laid(services, sv) ==
    LET at == {i \in DOMAIN services : services[i].id = sv.id}
    IN  IF at = {} THEN Append(services, sv) ELSE [services EXCEPT ![Max(at)] = sv]

(* What is served once the first k of the incoming are laid over it. *)
Overlaid(existing, incoming) ==
    LET laid[k \in 0 .. Len(incoming)] ==
          IF k = 0 THEN existing ELSE Laid(laid[k - 1], incoming[k])
    IN  laid

Merge(mode, existing, incoming) ==
    IF mode = "REPLACE" THEN incoming ELSE Overlaid(existing, incoming)[Len(incoming)]

ApplyIngest(d, request, existing) ==
    Merge(request.mode, existing, Finalise(Accepted(d, request.services), d))

-----------------------------------------------------------------------------
(* The example upstream: ratios, and a vocabulary of its own. *)

Obj(members) == [Node("object") EXCEPT !.members = members]
Arr(items)   == [Node("array") EXCEPT !.items = items]
Str(s) == [Node("text") EXCEPT !.text = [valid |-> TRUE, value |-> s]]
Num(n) == [Node("number") EXCEPT !.num = Present(n)]
Day(n) == [Node("text") EXCEPT !.day = Present(n)]

(* Mutant: an absent reading is reported as zero. *)
MutantRatio(reading) == Num(reading.value)

(* A percentage in hundredths of a point is a ratio in units; an absent     *)
(* reading stays absent.                                                    *)
Ratio(reading) == IF reading.valid THEN Num(reading.value) ELSE Null

EnumCase(id) == IF id = "" THEN "" ELSE "ENUM " \o id

DailyPoint(p) ==
    Obj([ts |-> Day(p.day), uptime |-> Ratio(p.availability), errPct |-> Num(p.errorRate),
         count |-> Num(p.volume * Unit)])

UpstreamRecord(sv) ==
    Obj([serviceId |-> Str(sv.id), displayName |-> Str(sv.id), category |-> Str(EnumCase(sv.category)),
         region |-> Str(EnumCase(sv.region)), tier |-> Str(EnumCase(sv.scope)),
         sla |-> Obj([uptimePct |-> Ratio(sv.availability), errorPct |-> Num(sv.errorRate)]),
         requests |-> Obj([total |-> Num(sv.total * Unit), succeeded |-> Num(sv.success * Unit)]),
         observedAgeSecs |-> Num(sv.stale * Unit),
         daily |-> Arr([i \in DOMAIN sv.history |-> DailyPoint(sv.history[i])])]
        @@ (IF sv.maintenance THEN [maintenance |-> Obj([inProgress |-> Num(Unit)])] ELSE None))

UpstreamShape(services) ==
    Obj([data |-> Obj([services |-> Arr([i \in DOMAIN services |-> UpstreamRecord(services[i])])])])

-----------------------------------------------------------------------------
(* The mapping as shipped, over the vocabulary of a deployment. *)

Path(keys) == [i \in DOMAIN keys |-> [kind |-> "key", key |-> keys[i], index |-> 0]]

Fn(fn) == [fn |-> fn, by |-> 1, table |-> [x \in {} |-> ""], value |-> Null]
Back(ids)  == [Fn("enumMap") EXCEPT !.table =
                 [name \in {EnumCase(id) : id \in ids} |-> CHOOSE id \in ids : EnumCase(id) = name]]
Otherwise(id) == [Fn("default") EXCEPT !.value = Str(id)]

ShippedMapping(d) ==
    LET percent == <<Fn("ratioToPercent"), Fn("clampPercent")>>
        national == SelectSeq(d.regions, LAMBDA r : r.scope = d.defaultScope)
    IN  [items  |-> Path(<<"data", "services">>),
         fields |-> ("id" :> Path(<<"serviceId">>)) @@ ("name" :> Path(<<"displayName">>))
                    @@ ("categoryId" :> Path(<<"category">>)) @@ ("regionId" :> Path(<<"region">>))
                    @@ ("scope" :> Path(<<"tier">>))
                    @@ ("metrics.availability" :> Path(<<"sla", "uptimePct">>))
                    @@ ("metrics.errorRate" :> Path(<<"sla", "errorPct">>))
                    @@ ("metrics.volume.total" :> Path(<<"requests", "total">>))
                    @@ ("metrics.volume.success" :> Path(<<"requests", "succeeded">>))
                    @@ ("metrics.staleSeconds" :> Path(<<"observedAgeSecs">>))
                    @@ ("maintenance.active" :> Path(<<"maintenance", "inProgress">>)),
         chains |-> [f \in {"metrics.availability", "history.availability"} |-> percent]
                    @@ [f \in {"metrics.errorRate", "history.errorRate"} |-> <<Fn("ratioToPercent")>>]
                    @@ ("categoryId" :> <<Back(Range(d.categories))>>)
                    @@ ("regionId" :> <<Back(Range(IdsOf(d.regions))), Otherwise(national[1].id)>>)
                    @@ ("scope" :> <<Back(d.scopes), Otherwise(d.defaultScope)>>),
         series |-> <<[path |-> Path(<<"daily">>) \o <<[kind |-> "all", key |-> "", index |-> 0]>>,
                       date |-> Path(<<"ts">>), availability |-> Path(<<"uptime">>),
                       errorRate |-> Path(<<"errPct">>), volume |-> Path(<<"count">>)]>>]

(* A dry run: what a mapping makes of a document, and the records it cannot *)
(* read; nothing, when the mapping is refused.                              *)
Preview(d, m, doc, label) ==
    IF MappingProblems(m) # {} THEN <<>>
    ELSE <<[services |-> Finalise(Services(m, doc, label), d),
            skipped  |-> {i \in DOMAIN Records(m, doc) : Text(Read(m, Records(m, doc)[i], "id")) = ""}]>>
=============================================================================
