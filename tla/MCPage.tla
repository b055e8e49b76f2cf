------------------------------- MODULE MCPage -------------------------------
(***************************************************************************)
(* A deployment shaped like the one the repository ships, small.           *)
(***************************************************************************)
EXTENDS PageProperties

-----------------------------------------------------------------------------
(* What an upstream answers *)

Point(day, up, errors, volume) ==
    Obj(("d" :> Day(day)) @@ ("v" :> Num(volume * Unit)) @@ ("e" :> Num(errors * 100))
        @@ (IF up < 0 THEN ("u" :> Null) ELSE ("u" :> Num(up))))

Said3(day, up, errors, volumes) ==
    Arr(<<Point(day - 1, up[1], errors, volumes[1]), Point(day, up[2], errors, volumes[2])>>)

RecordOf(id, cat, region, role, key, calls, up, errors, volume, days) ==
    Obj(("id" :> Str(id)) @@ ("name" :> Str(id)) @@ ("cat" :> Str(cat)) @@ ("at" :> Str(region))
        @@ ("view" :> Str(IF region = "all" THEN "national" ELSE "state")) @@ ("as" :> Str(role))
        @@ ("key" :> Str(key)) @@ ("calls" :> Str(calls)) @@ ("sector" :> Str(cat))
        @@ (IF up < 0 THEN ("age" :> Num(0)) ELSE ("up" :> Num(up)))
        @@ ("err" :> Num(errors * 100)) @@ ("ok" :> Num(volume * Unit))
        @@ ("sent" :> Num((volume + 1) * Unit)) @@ ("days" :> days))

(* Two issuers of the nation, one silent; one issuer with an instance in each *)
(* state; three requestors of the first issuer; one of a state's instance.  *)
Estate(second, requestors) ==
    Obj("services" :> Arr(<<
        RecordOf("a1", "id", "all", "issuer", "a1", "", 9990, 50, 90, Said3(9, <<9990, 9980>>, 50, <<80, 90>>)),
        RecordOf("a2", "land", "all", "issuer", "a2", "", second, 120, 40,
                 Said3(9, <<second, second>>, 120, <<40, 40>>)),
        RecordOf("a3", "land", "all", "issuer", "a3", "", -1, 0, 0, Said3(9, <<-1, -1>>, 0, <<0, 0>>)),
        RecordOf("b1", "id", "north", "issuer", "b", "", 9960, 0, 20, Arr(<<>>)),
        RecordOf("b2", "id", "south", "issuer", "b", "", 9700, 0, 20, Said3(9, <<9700, 9990>>, 10, <<9, 20>>))>>
        \o requestors \o
        <<RecordOf("r3", "land", "north", "requestor", "r3", "b", 9990, 0, 5, Said3(9, <<9990, 9990>>, 0, <<4, 5>>)),
          RecordOf("", "id", "all", "issuer", "", "", 9990, 0, 1, Arr(<<>>))>>))

Requestors ==
    <<RecordOf("r1", "id", "all", "requestor", "r1", "a1", 9990, 50, 70, Said3(9, <<9990, 9990>>, 50, <<50, 70>>)),
      RecordOf("r2", "land", "all", "requestor", "r2", "a1", 9960, 70, 20, Said3(9, <<9960, 9960>>, 70, <<20, 20>>))>>

MCDocuments == {Estate(9850, Requestors)}

Key(k) == <<[kind |-> "key", key |-> k, index |-> 0]>>
Step(fn) == [fn |-> fn, by |-> 1, table |-> [x \in {} |-> ""], value |-> Null]

MCMapping ==
    [items  |-> Key("services"),
     fields |-> ("id" :> Key("id")) @@ ("name" :> Key("name")) @@ ("categoryId" :> Key("cat"))
                @@ ("regionId" :> Key("at")) @@ ("scope" :> Key("view")) @@ ("roleId" :> Key("as"))
                @@ ("key" :> Key("key")) @@ ("callsKey" :> Key("calls")) @@ ("sectorId" :> Key("sector"))
                @@ ("metrics.availability" :> Key("up")) @@ ("metrics.errorRate" :> Key("err"))
                @@ ("metrics.volume.success" :> Key("ok")) @@ ("metrics.volume.total" :> Key("sent")),
     chains |-> ("metrics.availability" :> <<Step("ratioToPercent"), Step("clampPercent")>>)
                @@ ("history.availability" :> <<Step("ratioToPercent")>>),
     series |-> <<[path |-> Key("days"), date |-> Key("d"), availability |-> Key("u"),
                   errorRate |-> Key("e"), volume |-> Key("v")]>>]

(* A collector pushes one service under maintenance with an incident open,   *)
(* one that has never reported a day, one whose figures it does not send,   *)
(* and one of a category nobody declared.                                   *)
Pushed(id, cat, metrics, maintenance, incidents) ==
    [id |-> id, key |-> id, calls |-> "", scope |-> "national", role |-> "issuer", region |-> "all",
     category |-> cat, sector |-> "", ownErrors |-> 0, incidents |-> incidents, errors |-> <<2, 1>>,
     metrics |-> metrics, maintenance |-> maintenance, history |-> <<>>, name |-> 1, words |-> {id, "all"}]

Healthy == <<[availability |-> <<9995>>, errorRate |-> 0, stale |-> 0, total |-> 3, success |-> 3]>>

MCBatches ==
    {[mode |-> "REPLACE", services |-> <<
        Pushed("a1", "id", Healthy, <<TRUE>>, <<[opened |-> -5, open |-> TRUE, closed |-> 0],
                                                [opened |-> -9, open |-> FALSE, closed |-> -8]>>),
        Pushed("a2", "land", <<>>, <<>>, <<>>), Pushed("a4", "id", Healthy, <<>>, <<>>),
        Pushed("a5", "tax", Healthy, <<>>, <<>>)>>]}

-----------------------------------------------------------------------------
(* The configuration *)

Metric(id, field, target, of, direction, unit, framing, onBoard, inDrawer) ==
    [id |-> id, field |-> field, target |-> target, complementOf |-> of, framing |-> framing,
     direction |-> direction, unit |-> unit, onBoard |-> onBoard, inDrawer |-> inDrawer]

Finding(id, kind, filter, days, min, share, tab) ==
    [id |-> id, kind |-> kind, filter |-> filter, days |-> days, minCategories |-> min,
     concentration |-> share, focusTab |-> tab]

For(role) == [NoFilter EXCEPT !.role = role]
In(statuses) == [NoFilter EXCEPT !.status = statuses]

MCDomain ==
    [evaluationOrder |-> <<"maintenance", "unknown", "major", "partial", "operational">>,
     thresholds |-> [staleAbove |-> 900, majorAvailability |-> 9900, majorErrors |-> 200,
                     partialAvailability |-> 9950, partialErrors |-> 100],
     periods |-> <<[id |-> "1d", days |-> 1], [id |-> "7d", days |-> 7]>>, defaultPeriod |-> "7d",
     regions |-> <<[id |-> "all", scope |-> "national"], [id |-> "north", scope |-> "state"],
                   [id |-> "south", scope |-> "state"]>>,
     scopes |-> {"national", "state"}, defaultScope |-> "national",
     roles |-> <<"issuer", "requestor">>, defaultRole |-> "issuer",
     metrics |-> <<
        Metric("availability", "availability", Present(9950), "", "higher-is-better", "percent", "", FALSE, FALSE),
        Metric("downtime", "downtime", Absent, "availability", "lower-is-better", "percent", "", TRUE, TRUE),
        Metric("errorRate", "errorRate", Present(100), "", "lower-is-better", "percent", "", TRUE, TRUE),
        Metric("volume", "volume", Absent, "", "neutral", "percent", "denominator", FALSE, TRUE)>>,
     signals |-> <<Finding("belowTarget", "belowTargetDays", In(<<"partial", "major">>), 2, 0, 0, ""),
                   Finding("errorRising", "errorRisingCategories", NoFilter, 0, 1, 0, ""),
                   Finding("longest", "longestOpenIncident", NoFilter, 0, 0, 0, ""),
                   Finding("maintenance", "maintenanceActive", In(<<"maintenance">>), 0, 0, 0, "")>>,
     opportunities |-> <<Finding("rarely", "issuedAtScaleRarelyRequested", For("issuer"), 0, 0, 0, ""),
                         Finding("single", "singleRequestorCategories", For("requestor"), 0, 0, 90, ""),
                         Finding("zero", "zeroRequestors", For("issuer"), 2, 0, 0, ""),
                         Finding("fastest", "fastestGrowingDemand", NoFilter, 1, 0, 0, "demand")>>,
     severity |-> [major |-> 4, partial |-> 3, unknown |-> 2, maintenance |-> 1, operational |-> 0],
     statusOrder |-> <<"operational", "partial", "major", "unknown", "maintenance">>,
     categories |-> <<"id", "land">>, locales |-> <<"en", "hi">>,
     columns |-> <<"rank", "name", "downtime", "errorRate">>, showRegions |-> TRUE,
     estate |-> 20, prose |-> Statuses]

Bind(source, field, days) ==
    [source |-> source, field |-> field, overlay |-> "", metric |-> "", days |-> days]

Part(type, bind, options, repeat) ==
    [type |-> type, options |-> options, bind |-> bind, column |-> "", repeatOver |-> repeat]

Fixed(type) == Part(type, Bind("", "", 0), None, "")
Plain(type, source) == Part(type, Bind(source, "", 0), None, "")
Times(n) == [kind |-> "int", value |-> n]

Section(id, aside, widgets) ==
    [id |-> id, aside |-> aside, heading |-> TRUE, widgets |-> widgets, columns |-> <<>>]

MCLayout ==
    [pages |-> <<[id |-> "home", path |-> "/", sections |-> <<
        Section("verdict", <<>>,
                <<Plain("status-summary", "aggregate.statusCounts"), Plain("segmented-bar", "aggregate.statusCounts"),
                  Plain("legend", "aggregate.statusCounts"), Plain("coverage", "aggregate.coverage"),
                  Plain("disclosure", "config.thresholdProse")>>),
        Section("signals", <<>>, <<Fixed("signal-tabs"), Plain("signal-cards", "aggregate.signals")>>),
        Section("leaderboard", <<Plain("result-count", "services.filtered")>>,
                <<Fixed("filter-bar"), Plain("leaderboard-table", "services.filtered")>>)>>]>>,
     tabs |-> <<
        [id |-> "overview", widgets |-> <<
            Plain("requestor-detail", "service.demand"),
            Part("stat-tile", Bind("service.metric", "", 0), None, "config.metrics.drawer"),
            Part("sparkline", Bind("service.history", "downtime", 7), None, ""),
            Plain("timeline", "service.incidents")>>],
        [id |-> "demand", widgets |-> <<Part("demand-mix", Bind("service.demand", "", 0), "days" :> Times(1), ""),
                                        Plain("peer-bars", "service.peers")>>],
        [id |-> "errors", widgets |-> <<
            Part("bar-list", Bind("service.errorBreakdown", "", 0), "limit" :> Times(1), ""),
            Plain("data-table", "service.errorBreakdown"),
            Part("bar-chart", Bind("service.history", "volume", 0), None, ""),
            Part("data-table", Bind("service.history", "", 0), "every" :> Times(5), "")>>]>>]

Widget(sources, options) ==
    [schema |-> [name \in options |-> [kind |-> "int", required |-> FALSE]],
     sources |-> sources, optional |-> FALSE]

MCRegistry ==
    [type \in {"status-summary", "segmented-bar", "legend"} |-> Widget({"aggregate.statusCounts"}, {})]
    @@ ("coverage" :> Widget({"aggregate.coverage"}, {}))
    @@ ("disclosure" :> [Widget({"config.thresholdProse"}, {}) EXCEPT !.optional = TRUE])
    @@ [type \in {"signal-tabs", "filter-bar"} |-> Widget({}, {})]
    @@ ("signal-cards" :> Widget({"aggregate.signals"}, {}))
    @@ [type \in {"result-count", "leaderboard-table"} |-> Widget({"services.filtered"}, {})]
    @@ [type \in {"requestor-detail", "demand-mix"} |-> Widget({"service.demand"}, {"days"})]
    @@ ("stat-tile" :> Widget({"service.metric"}, {}))
    @@ [type \in {"sparkline", "bar-chart"} |-> Widget({"service.history"}, {})]
    @@ ("timeline" :> Widget({"service.incidents"}, {}))
    @@ ("peer-bars" :> Widget({"service.peers"}, {}))
    @@ ("bar-list" :> Widget({"service.errorBreakdown"}, {"limit"}))
    @@ ("data-table" :> Widget({"service.history", "service.errorBreakdown"}, {"every"}))

Bar(kind, state) == [kind |-> kind, state |-> state, href |-> ""]

MCBase ==
    [domain |-> MCDomain, layout |-> MCLayout, registry |-> MCRegistry, mapping |-> MCMapping,
     chrome |-> [header |-> <<Bar("wordmark", ""), Bar("scope-switch", ""), Bar("select", "period"),
                              Bar("select", "locale"), Bar("theme-toggle", "")>>,
                 strip  |-> <<Bar("role-switch", "")>>]]

(* As shipped; with one side of the exchange only, no findings about demand, *)
(* no region select, a header with one select and the rules in another       *)
(* order; and two that are refused,   *)
(* for a finding that leads to a category and a column that names a metric   *)
(* nobody declared.                                                          *)
MCConfigs ==
    {MCBase,
     [MCBase EXCEPT !.domain.roles = <<>>, !.domain.defaultRole = "", !.domain.opportunities = <<>>,
                    !.domain.defaultPeriod = "1d",
                    !.domain.evaluationOrder = <<"maintenance", "major", "partial", "unknown", "operational">>,
                    !.domain.showRegions = FALSE, !.chrome.strip = <<>>,
                    !.chrome.header = <<Bar("wordmark", ""), Bar("scope-switch", ""), Bar("select", "period")>>],
     [MCBase EXCEPT !.domain.signals[1].filter.category = <<"tax">>],
     [MCBase EXCEPT !.domain.columns = <<"rank", "name", "latency">>]}

-----------------------------------------------------------------------------
(* The reader *)

MCLabel == [name \in {"", "a1", "a2", "a3", "b1", "b2", "r1", "r2", "r3"} |->
              CASE name = "a2" -> 1 [] name = "a1" -> 2 [] OTHER -> 3]

MCIdOrder == [name \in DOMAIN MCLabel \cup {"a4", "a5", "id", "land", "tax"} |->
                IF name = "r2" THEN 2 ELSE 1]

To(service, params) == [service |-> service, params |-> params]
One(name, value) == name :> <<<<value>>>>

MCBookmarks ==
    {To("r2", One("role", "requestor") @@ One("tab", "demand") @@ One("region", "north")
               @@ One("cat", "land") @@ One("status", "unknown")),
     To("gone", One("scope", "state") @@ One("region", "north") @@ One("signals", "opportunity")
                  @@ ("id" :> <<<<"b1", "r1">>>>) @@ One("lang", "hi") @@ One("period", "1d") @@ One("filters", "open"))}

MCWords == {"a1"}
=============================================================================
