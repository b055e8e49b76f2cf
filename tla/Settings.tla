------------------------------ MODULE Settings ------------------------------
(***************************************************************************)
(* What a deployment may configure.  Every file is checked before anything *)
(* is served, and every problem is reported at once: a configuration is    *)
(* accepted when the set of its problems is empty.  Terms, icons and       *)
(* colours are left out; so is the position a problem is reported at.      *)
(***************************************************************************)
EXTENDS Intake

SignalKinds == {"belowTargetDays", "errorRisingCategories", "longestOpenIncident", "maintenanceActive"}
OpportunityKinds == {"issuedAtScaleRarelyRequested", "singleRequestorCategories",
                     "zeroRequestors", "fastestGrowingDemand"}
MetricFields == {"availability", "downtime", "errorRate", "latencyP50", "volume"}
Directions   == {"higher-is-better", "lower-is-better", "neutral"}

Unless(holds, problem) == IF holds THEN {} ELSE {problem}

Distinct(ids) == \A i, j \in DOMAIN ids : ids[i] = ids[j] => i = j

IdsOf(items) == [i \in DOMAIN items |-> items[i].id]

(* Every entry has an id and none has another's. *)
Named(items, what) ==
    Unless("" \notin Range(IdsOf(items)), what \o " has no id")
    \cup Unless(\A i, j \in DOMAIN items :
                   items[i].id = items[j].id /\ items[i].id # "" => i = j, "duplicate " \o what)

VocabularyProblems(d) ==
    Unless(d.scopes # {} /\ d.defaultScope \in d.scopes, "unknown default scope")
    \cup Unless(d.roles = <<>> \/ d.defaultRole \in Range(d.roles), "unknown default role")
    \cup Unless(Distinct(d.roles), "duplicate role")
    \cup Unless(d.estate > 0, "no estate")
    \cup Named(d.periods, "period")
    \cup Unless(\A i \in DOMAIN d.periods : d.periods[i].days > 0, "period without days")
    \cup Unless(DaysOf(d, d.defaultPeriod).valid, "unknown default period")

TaxonomyProblems(d) ==
    Unless(d.categories # <<>>, "no categories")
    \cup Unless(Distinct(d.categories), "duplicate category")
    \cup Unless(d.regions # <<>>, "no regions")
    \cup Named(d.regions, "region")
    \cup Unless(\A i \in DOMAIN d.regions : d.regions[i].scope \in d.scopes, "region in unknown scope")

ShownWithoutContext(m) ==
    ~m.target.valid /\ m.framing = "" /\ m.complementOf = "" /\ (m.onBoard \/ m.inDrawer)

(* The second pass, so that a complement may be declared before the metric   *)
(* it is what is left of.                                                   *)
ComplementProblems(d) ==
    UNION {LET m == d.metrics[i]
               others == {k \in DOMAIN d.metrics : d.metrics[k].id = m.complementOf}
               other == d.metrics[Min(others)]
           IN  IF m.complementOf = "" THEN {}
               ELSE IF m.complementOf = m.id THEN {"its own complement"}
               ELSE IF others = {} THEN {"unknown metric complemented"}
               ELSE Unless(other.unit = "percent" /\ m.unit = "percent", "complement without a whole")
                    \cup Unless(other.target.valid \/ ~m.onBoard, "complement without a target")
           : i \in DOMAIN d.metrics}

MetricProblems(d) ==
    Unless(d.metrics # <<>>, "no metrics") \cup Named(d.metrics, "metric")
    \cup ComplementProblems(d)
    \cup UNION {LET m == d.metrics[i] IN
                Unless(m.field \in MetricFields, "unknown field")
                \cup Unless(m.direction \in Directions, "unknown direction")
                \cup Unless(m.complementOf = "" \/ ~m.target.valid, "complement with a target of its own")
                \cup Unless(~ShownWithoutContext(m), "metric without context")
                : i \in DOMAIN d.metrics}

StatusProblems(d) ==
    LET v == d.thresholds IN
    Unless(Range(d.evaluationOrder) = Statuses, "order of evaluation")
    \cup Unless(Range(d.statusOrder) = Statuses, "order of display")
    \cup Unless(d.prose = Statuses, "a status without published words")
    \cup Unless(Statuses \subseteq DOMAIN d.severity, "a status without severity")
    \cup Unless(v.partialAvailability >= v.majorAvailability, "never merely partial")
    \cup Unless(v.partialErrors <= v.majorErrors, "never merely partial")
    \cup Unless(v.staleAbove > 0, "always stale")

(* Mutant: a finding may lead to a category nobody declared. *)
MutantFilterProblems(d, filter) ==
    Unless(Range(filter.status) \subseteq Statuses, "unknown status in a filter")
    \cup Unless(filter.role \in {""} \cup Range(d.roles), "unknown role in a filter")

(* Where a finding leads. *)
FilterProblems(d, filter) ==
    Unless(Range(filter.status) \subseteq Statuses, "unknown status in a filter")
    \cup Unless(Range(filter.category) \subseteq Range(d.categories), "unknown category in a filter")
    \cup Unless(filter.role \in {""} \cup Range(d.roles), "unknown role in a filter")

SignalProblems(d, signals, kinds) ==
    Named(signals, "signal")
    \cup UNION {LET s == signals[i] IN
           Unless(s.kind \in kinds, "unknown kind")
           \cup Unless(s.kind \in {"belowTargetDays", "zeroRequestors", "fastestGrowingDemand"}
                         => s.days > 0, "no window")
           \cup Unless(s.kind = "errorRisingCategories" => s.minCategories > 0, "no minimum")
           \cup Unless(s.kind = "singleRequestorCategories" => s.concentration \in 1 .. 100,
                       "no concentration")
           \cup FilterProblems(d, s.filter)
           : i \in DOMAIN signals}

DomainProblems(d) ==
    VocabularyProblems(d) \cup TaxonomyProblems(d) \cup MetricProblems(d) \cup StatusProblems(d)
    \cup SignalProblems(d, d.signals, SignalKinds)
    \cup SignalProblems(d, d.opportunities, OpportunityKinds)

-----------------------------------------------------------------------------
(* The bars: what each item changes, and each of the controls the whole page *)
(* depends on at most once.                                                 *)

ChromeKinds == {"wordmark", "scope-switch", "select", "theme-toggle", "link",
                "role-switch", "platforms", "spacer"}
Once == {"scope-switch", "theme-toggle", "wordmark", "role-switch"}

BarProblems(items) ==
    LET Times(Holds(_)) == Cardinality({i \in DOMAIN items : Holds(items[i])}) IN
    (UNION {LET item == items[i] IN
           Unless(item.kind \in ChromeKinds, "unknown item")
           \cup (IF item.kind = "select"
                 THEN Unless(item.state \in {"period", "locale"}, "select of unknown state")
                 ELSE IF item.kind = "link" THEN Unless(item.href # "", "link without a destination")
                 ELSE Unless(item.state = "" /\ item.href = "", "item takes no configuration"))
           : i \in DOMAIN items})
    \cup (UNION {Unless(Times(LAMBDA item : item.kind = kind) <= 1, "control twice") : kind \in Once})
    \cup UNION {Unless(Times(LAMBDA item : item.kind = "select" /\ item.state = state) <= 1,
                       "two selects of one state") : state \in {"period", "locale"}}

ChromeProblems(chrome) ==
    IF chrome.header = <<>> THEN {"no header"}
    ELSE BarProblems(chrome.header) \cup BarProblems(chrome.strip)

-----------------------------------------------------------------------------
(* The layout: pages of sections of widgets, and the tabs of the drawer.     *)
(* The registry says of each type of widget what it may read and which       *)
(* options it takes.                                                        *)

ServiceScoped == {"service.current", "service.metric", "service.history",
                  "service.errorBreakdown", "service.incidents", "service.demand", "service.peers"}
PageScoped == {"aggregate.statusCounts", "aggregate.signals", "aggregate.coverage",
               "aggregate.updatedAt", "services.all", "services.scoped", "services.filtered",
               "config.metrics", "config.thresholdProse", "config.categories", "config.regions",
               "config.periods", "config.statuses"}

OptionProblems(schema, options) ==
    Unless(DOMAIN options \subseteq DOMAIN schema, "unknown option")
    \cup Unless(\A name \in DOMAIN schema : schema[name].required => name \in DOMAIN options,
                "missing option")
    \cup Unless(\A name \in DOMAIN schema \cap DOMAIN options : schema[name].kind = options[name].kind,
                "option of the wrong kind")

BindProblems(bind, d, inDrawer) ==
    IF bind.source \notin ServiceScoped \cup PageScoped THEN {"unknown source"}
    ELSE Unless(bind.source \in PageScoped \/ inDrawer, "needs an open service")
         \cup Unless(bind.field \in {""} \cup MetricFields, "unknown field bound")
         \cup Unless(bind.overlay \in {""} \cup (MetricFields \ {"downtime"}), "unknown overlay")
         \cup Unless(bind.metric \in {""} \cup Range(IdsOf(d.metrics)), "unknown metric bound")
         \cup Unless(bind.days >= 0, "negative window")

(* d.columns is the list the board's widget was given. *)
ColumnProblems(d) ==
    Unless(Range(d.columns) \subseteq {"rank", "name", "status"} \cup Range(IdsOf(d.metrics)),
           "unknown column")

WidgetProblems(w, registry, d, inDrawer) ==
    IF w.type \notin DOMAIN registry THEN {"unknown widget"}
    ELSE LET def == registry[w.type] IN
         OptionProblems(def.schema, w.options)
         \cup (IF w.bind.source # ""
               THEN BindProblems(w.bind, d, inDrawer)
                    \cup Unless(def.sources = {} \/ w.bind.source \in def.sources, "source not read")
               ELSE Unless(def.sources = {} \/ def.optional, "no source"))
         \cup (IF w.type = "leaderboard-table" THEN ColumnProblems(d) ELSE {})
         \cup (IF w.type = "disclosure"
               THEN Unless(("bodyTermId" \in DOMAIN w.options) # (w.bind.source # ""), "one of two bodies")
               ELSE {})
         \cup Unless(w.repeatOver \in {"", "config.metrics.drawer", "config.metrics.leaderboard",
                                       "config.categories", "config.regions", "config.periods",
                                       "config.statuses"}, "unknown repeat")

SectionProblems(s, registry, d) ==
    Unless(s.aside = <<>> \/ s.heading, "aside without a heading")
    \cup Unless(s.widgets # <<>>, "section without widgets")
    \cup Unless(Distinct(s.columns), "duplicate column")
    \cup Unless(\A i \in DOMAIN s.widgets : s.widgets[i].column \in {""} \cup Range(s.columns),
                "widget in no column")
    \cup UNION {WidgetProblems(w, registry, d, FALSE) : w \in Range(s.aside) \cup Range(s.widgets)}

Sections(layout) == UNION {Range(layout.pages[i].sections) : i \in DOMAIN layout.pages}

LayoutProblems(layout, registry, d) ==
    LET sections == FlattenSeq([i \in DOMAIN layout.pages |-> layout.pages[i].sections]) IN
    Unless(layout.pages # <<>>, "no pages")
    \cup Named(layout.pages, "page")
    \cup Unless(Distinct([i \in DOMAIN layout.pages |-> layout.pages[i].path]), "duplicate path")
    \cup Unless(\A i \in DOMAIN layout.pages :
                   layout.pages[i].path # "" /\ layout.pages[i].sections # <<>>, "page without path or sections")
    \cup Named(sections, "section") \cup Named(layout.tabs, "tab")
    \cup (UNION {SectionProblems(s, registry, d) : s \in Sections(layout)})
    \cup UNION {Unless(layout.tabs[i].widgets # <<>>, "tab without widgets")
                \cup UNION {WidgetProblems(layout.tabs[i].widgets[k], registry, d, TRUE)
                            : k \in DOMAIN layout.tabs[i].widgets} : i \in DOMAIN layout.tabs}

Problems(config) ==
    DomainProblems(config.domain) \cup ChromeProblems(config.chrome)
    \cup LayoutProblems(config.layout, config.registry, config.domain)
    \cup MappingProblems(config.mapping)
=============================================================================
