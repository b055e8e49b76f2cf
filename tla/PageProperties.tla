--------------------------- MODULE PageProperties ---------------------------
(***************************************************************************)
(* What a reader is entitled to expect of the page, its controls, its      *)
(* figures and its findings.                                               *)
(***************************************************************************)
EXTENDS Page

HomeSections == PageByPath(config.layout, "/")[1].sections

(* The bands of a region. *)
BandsOf(region) ==
    SelectSeq(HomeSections, LAMBDA s :
        IF region \in {"signals", "leaderboard"} THEN s.id = region
                                                 ELSE s.id \notin {"signals", "leaderboard"})

(* A context without where its links lead and without the theme, which is    *)
(* the whole page's.                                                        *)
Bare(c) == [c EXCEPT !.params = None, !.state.theme = ""]

Untabbed(c) == [c EXCEPT !.state.tab = ""]

(* What a reader sees of a region; only the drawer has tabs. *)
Visible(region, c) ==
    IF region = "drawer" THEN Pane(Bare(c), config.layout)
    ELSE [i \in DOMAIN BandsOf(region) |-> Band(Untabbed(Bare(c)), BandsOf(region)[i])]

Fresh(request) == Build(Domain, served[Latest].services, request, cookie)

ReadBack(request) == ReadState(Domain, request.service, request.params, cookie)

Quiet == inflight = {} /\ ~overlapped

(* Everything shown is one rendering of the latest snapshot. *)
Settled ==
    /\ Quiet
    /\ \A region \in Regions : shown[region] = Rendering(address, address.service)

-----------------------------------------------------------------------------
(* What an address names, what a region was drawn for, and what is under    *)
(* way are requests a browser of this deployment can make: no link or form  *)
(* writes out an empty value, or a parameter nobody reads.                  *)
TypeOK ==
    /\ config \in Configs
    /\ served # <<>> /\ Len(served) <= MaxArrivals + 1
    /\ IsRequest(address)
    /\ \A region \in Regions :
          IsRequest(shown[region].at) /\ shown[region].of \in 1 .. Latest
    /\ cookie \in {"", "light", "dark"}
    /\ \A r \in inflight :
          IsRequest(r.at) /\ r.target \in {"body", "signals", "leaderboard", "drawer", "pane"}
    /\ ~scripted => inflight = {}
    /\ clicks \in 0 .. MaxClicks

(* A fragment and the address it pushed agree: while that address is the     *)
(* one in the bar, opening it shows what the fragment shows (pushURL).      *)
SwapMatchesAddress ==
    \A region \in Regions :
       LET r == shown[region]
           c == ContextOf(r)
       IN  r.of = Latest /\ PushUrl(c, r.at.service) = address
             => Visible(region, c) = Visible(region, Fresh(address))

(* Unless the reader went on before an answer came, the address names the   *)
(* drawer that is open, and only then one.                                  *)
DrawerMatchesAddress == Quiet => shown["drawer"].at.service = address.service

-----------------------------------------------------------------------------
(* Controls *)

EveryRegion(d, region) == region = "" \/ RegionsAreAll(d, region)

Same(field, a, b) ==
    IF field = "region" /\ EveryRegion(Domain, a) THEN EveryRegion(Domain, b) ELSE a = b

(* What of the state a control may change besides what it picks.  A header   *)
(* with one select loses the choice it has no select for: the form's hidden *)
(* fields leave both out.  A filter bar without a region select loses the    *)
(* region, and one whose first option is a part of the scope narrows to it, *)
(* since a select with nothing selected sends its first option.             *)
Uncarried(field, other) == IF Selects(other) THEN {field} ELSE {field, other}

SendsARegionUnasked(now) ==
    LET bar == FilterBar(ContextOf(shown["leaderboard"]))
    IN  now.region = "" /\ ~EveryRegion(Domain, Sent(bar))

MayChange(now) ==
    [wordmark |-> {"scope", "role", "region", "period", "sort", "dir", "filter", "signals",
                   "locale", "theme", "filters", "service", "tab"},
     scope |-> {"region", "service"},     role   |-> {"filter", "service"},
     period |-> Uncarried("tab", "locale"),
     locale |-> Uncarried("tab", "period"),
     theme |-> {},                        signals |-> {"service"},
     card  |-> {"filter", "role", "service"}, focus |-> {"service", "tab"},
     filter |-> {"tab", "service"} \cup
                (IF ~Domain.showRegions \/ SendsARegionUnasked(now) THEN {"region"} ELSE {}),
     sort  |-> {"dir", "service"},
     clear |-> {"service"},               row   |-> {},
     tab   |-> {},                        close |-> {"tab"}]

(* The reader's state now, and what a control makes of it: the control has   *)
(* the effect it names, and every choice it does not name survives it.       *)
DoesWhatItSays(now, control) ==
    LET then == ReadBack(control.at) IN
    \A field \in DOMAIN now :
       IF field \in DOMAIN control.picks THEN Same(field, control.picks[field], then[field])
       ELSE field \notin MayChange(now)[control.name] => Same(field, now[field], then[field])

(* Following a control from a settled page has the effect it names and no   *)
(* other: every other choice the reader made survives it (ParamsWith,       *)
(* HiddenExcept and the forms, which must agree on what is carried), but    *)
(* for the losses that MayChange names.                                     *)
ControlsDoOnlyWhatTheySay ==
    Settled => \A control \in Controls : DoesWhatItSays(ReadBack(address), control)

(* Whatever narrows the board besides ids, the reader sees it and can undo  *)
(* it from the board: a region by choosing another, the rest by the clear   *)
(* link.  Two things are excepted, as in the code: ids, which findings put  *)
(* there and no control shows, and the region where the deployment does     *)
(* without the select and an address narrows the board all the same.        *)
NarrowingCanBeUndone ==
    LET c   == ContextOf(shown["leaderboard"])
        bar == FilterBar(c)
        undone == ReadBack(bar.clearHref)
    IN  /\ Domain.showRegions /\ c.state.region # "" => bar.enabled /\ \E r \in Range(bar.regions) : r.active
        /\ c.state.filter.status \subseteq DOMAIN bar.statuses
        /\ c.state.filter.cat \subseteq DOMAIN bar.categories
        /\ Active([c.state.filter EXCEPT !.id = {}]) => bar.clear
        /\ bar.clear => ~Active(undone.filter)

-----------------------------------------------------------------------------
(* Figures.  These are about the board, in whatever state it is.            *)

Board == ContextOf(shown["leaderboard"])

Asking(c, changed) ==
    Build(c.d, c.all, [service |-> "", params |-> ParamsWith(c.params, changed)], "")

Unfiltered == [name \in {"status", "cat", "id", "q"} |-> <<>>]

(* No two of a list have one id.  A push that replaces may break this: both  *)
(* records are served, under one address and one rank.                      *)
OneEach(list) == \A i, j \in DOMAIN list : list[i].id = list[j].id => i = j

(* A rank is a place on the whole board: what filtering and sorting show is  *)
(* the number the unfiltered board in its own order gives that service.     *)
(* Excepted is a snapshot that names an id twice.                           *)
RanksSurviveFiltering ==
    LET c == Board
        whole == BoardRows(Asking(c, [name \in DOMAIN Unfiltered \cup {"sort", "dir"} |-> <<>>]))
    IN  OneEach(c.all) =>
        \A row \in Range(BoardRows(c)) :
           row.rank \in DOMAIN whole /\ whole[row.rank].id = row.id

(* A chip shows how many rows choosing it alone leaves. *)
ChipsKeepPromise ==
    LET c == Board
        bar == FilterBar(c)
        Left(name, value) == Len(Filtered(Asking(c, [Unfiltered EXCEPT ![name] = <<value>>])))
    IN  /\ \A s \in DOMAIN bar.statuses : bar.statuses[s].count = Left("status", s)
        /\ \A k \in DOMAIN bar.categories : bar.categories[k].count = Left("cat", k)

(* A finding leads to what it counted: to exactly the services it is about, *)
(* or to one that is there to be opened.  A finding about days below target *)
(* leads to the statuses the deployment chose, and a finding that names no  *)
(* role is about the default one.                                           *)
CardsKeepPromise ==
    LET c == ContextOf(shown["signals"]) IN
    \A card \in Range(SignalCards(c)) :
       LET led == Build(c.d, c.all, card.action.href, "")
           listed == Range(Filtered(led)) IN
       IF card.empty THEN TRUE
       ELSE IF card.action.target = "drawer" THEN led.service # <<>> /\ {led.service[1].id} = card.about
       ELSE card.kind # "belowTargetDays"
              /\ (card.action.target = "body" \/ c.state.role = c.d.defaultRole)
            => {sv.id : sv \in listed} = card.about

(* Silence is not an outage: a service whose availability was not reported   *)
(* and whose errors are within bounds is not called down or degraded, in    *)
(* whatever order a deployment has its rules evaluated.                     *)
SilenceIsNotAnOutage ==
    \A i \in DOMAIN served : \A sv \in Range(served[i].services) :
       ~sv.availability.valid /\ sv.errorRate <= Domain.thresholds.partialErrors
         => sv.status \notin {"major", "partial"}

(* A service that reported nothing never ranks before one that did, in a     *)
(* snapshot that names no id twice.  This is about ranks: rows sorted by a  *)
(* figure, lowest first, do begin with the absent ones (query.go:461).      *)
AbsentNeverLeads ==
    LET c == Board
        ranks == RanksOf(c)
        reporting == {sv.id : sv \in {x \in Range(c.all) : Standing(x, c.days).availability.valid}}
    IN  OneEach(c.all) =>
        \A a \in DOMAIN ranks \cap reporting : \A b \in DOMAIN ranks \ reporting :
           ranks[a] < ranks[b]

(* What the upstream said of a service: its record in the document. *)
Record(doc, id) ==
    {r \in Range(Records(config.mapping, doc)) : Text(Read(config.mapping, r, "id")) = id}

Said(record) ==
    LET m == config.mapping IN
    \/ GetAt(m.fields["metrics.availability"], record).num.valid
    \/ \E node \in Range(AllAt(m.series[1].path, record)) :
          GetAt(m.series[1].availability, node).num.valid

(* The board shows a figure for a pulled service's downtime only if the      *)
(* upstream document holds a reading: nothing reported is not shown as zero. *)
NothingIsMadeUp ==
    LET r == shown["leaderboard"]
        doc == served[r.of].doc
        keys == BoardKeys(Domain)
    IN  doc # <<>> =>
          \A row \in Range(BoardRows(ContextOf(r))) : \A i \in DOMAIN keys :
             /\ MetricById(Domain, keys[i])[1].field \in {"availability", "downtime"}
             /\ row.cells[i].value.valid
             => \E record \in Record(doc[1], row.id) : Said(record)

(* What a push accepts, in either mode, is somewhere to be found: the board  *)
(* of its scope and role has a chip for its category, if it has one, and     *)
(* lists it when that is chosen.  Excepted are a service without a scope and *)
(* one of a role nobody declared, which the check lets through and no board  *)
(* lists; and of two records of one id an upsert keeps the later.  Asked     *)
(* before the first click, like the next one: nothing the reader does        *)
(* enters into it.                                                          *)
Given(x) == IF x = "" THEN <<>> ELSE <<x>>

LastOfItsId(list, i) == \A j \in DOMAIN list : list[j].id = list[i].id => j <= i

BoardOf(sv) == ParamsWith(None, [scope |-> Given(sv.scope), role |-> Given(sv.role)])

IsFound(sv, services) ==
    LET Asked(params) == Build(Domain, services, [service |-> "", params |-> params], "")
        chosen == ParamsWith(BoardOf(sv), [cat |-> Given(sv.category)])
    IN  /\ sv.category # "" => sv.category \in DOMAIN FilterBar(Asked(BoardOf(sv))).categories
        /\ \E row \in Range(BoardRows(Asked(chosen))) : row.id = sv.id

AcceptedIsListed ==
    clicks = 0 =>
    \A batch \in Batches : \A mode \in {"REPLACE", "UPSERT"} :
       LET accepted == Accepted(Domain, batch.services)
           services == ApplyIngest(Domain, [mode |-> mode, services |-> batch.services],
                                   served[Latest].services)
       IN  \A i \in DOMAIN accepted :
              /\ mode = "UPSERT" => LastOfItsId(accepted, i)
              /\ accepted[i].scope # ""
              /\ Domain.roles = <<>> \/ accepted[i].role \in {""} \cup Range(Domain.roles)
              => IsFound(accepted[i], services)

(* It does not matter how a service reaches the dashboard.  Read back from  *)
(* the API and pushed again, it is the service it was; polled from the      *)
(* example upstream through the mapping shipped with it, it has the same    *)
(* verdict, figures, history and trends.                                    *)
Measured(sv) ==
    [field \in {"id", "category", "region", "scope", "status", "availability", "errorRate", "stale",
                "maintenance", "total", "success", "history", "trends"} |-> sv[field]]

SentBack(services) == [i \in DOMAIN services |-> ServiceToIngestProto(services[i])]

ReadsBack(services) ==
    \A i \in DOMAIN services : ServiceFromProto(SnapshotToProto(services)[i]) = services[i]

PushesBack(services) ==
    ApplyIngest(Domain, [mode |-> "REPLACE", services |-> SentBack(services)], services) = services

FeedsAgree ==
    LET services == served[Latest].services
        polled == Preview(Domain, ShippedMapping(Domain), UpstreamShape(services),
                          [id \in {services[i].id : i \in DOMAIN services} |-> 0])
    IN  clicks = 0 =>
        /\ ReadsBack(services) /\ PushesBack(services)
        /\ polled # <<>> /\ polled[1].skipped = {}
        /\ [i \in DOMAIN polled[1].services |-> Measured(polled[1].services[i])]
              = [i \in DOMAIN services |-> Measured(services[i])]

(* A configuration that was accepted does not dangle: what a finding leads  *)
(* to is understood when it is read back, what is shown has something to be *)
(* judged against, and every default is one a reader could have chosen.     *)
AcceptedNeverDangles ==
    LET d == Domain
        Led(filter) ==
            ReadState(d, "", [status |-> <<filter.status>>, cat |-> <<filter.category>>,
                              role |-> <<<<filter.role>>>>], "")
    IN  /\ \A def \in Range(d.signals) \cup Range(d.opportunities) :
              LET back == Led(def.filter) IN
              /\ back.filter.status = Range(def.filter.status)
              /\ back.filter.cat = Range(def.filter.category)
              /\ def.filter.role # "" => back.role = def.filter.role
        /\ \A m \in Range(d.metrics) :
              m.onBoard => ResolvedTarget(d, m).valid \/ m.framing # ""
        /\ \A key \in Range(d.columns) : key \in {"rank", "name", "status"} \/ MetricField(d, key) # ""
        /\ DaysFor(d, d.defaultPeriod) > 0
        /\ d.defaultScope \in d.scopes

(* The open requestor is in its own chart and is the bar marked, once,       *)
(* however many bars are cut and whether or not it is among the busiest;     *)
(* a snapshot that names it twice has it drawn as often.                     *)
OpenRecordDrawn ==
    LET c == ContextOf(shown["drawer"]) IN
    c.service # <<>> /\ c.service[1].calls # "" =>
      \A chart \in Range(DemandMix(c.all, c.service[1], 30).charts) :
         LET marked == {i \in DOMAIN chart.bars : chart.bars[i].highlight} IN
         /\ {chart.bars[i].id : i \in marked} = {c.service[1].id}
         /\ OneEach(c.all) => \E i \in marked : marked = {i}
=============================================================================
