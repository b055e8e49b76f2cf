-------------------------------- MODULE Page --------------------------------
(***************************************************************************)
(* One reader's browser tab and the server it reads from.  The tab shows   *)
(* regions (the page around them, the findings, the board, the drawer),    *)
(* each rendered for some request from some snapshot; a control either     *)
(* loads a page or asks for a fragment that replaces one region, and the   *)
(* server says which address the fragment belongs to.  Meanwhile snapshots *)
(* arrive.  htmx and the browser are external and follow their contract:   *)
(* the element a fragment goes to is found when it is asked for, so a      *)
(* fragment for an element that has since been replaced changes nothing    *)
(* but the address.                                                        *)
(***************************************************************************)
EXTENDS Feeds

CONSTANTS Configs,        \* configurations a deployment may be started with
          Documents,      \* what an upstream may answer a poll with
          Batches,        \* what a collector may push
          Label,          \* where the label of a name sorts
          Bookmarks,      \* addresses a reader may arrive at
          Words,          \* what a reader may search for
          MaxClicks, MaxArrivals, MaxInflight

IsList(list) == list \in Seq(Range(list))

(* A service as a driver hands it over. *)
Handed(sv) ==
    {"status", "availability", "errorRate"} \subseteq DOMAIN sv /\ sv.errorRate \in Int

(* Thresholds and readings are numbers, the rules come in an order, and what *)
(* is sent and polled comes in lists.                                       *)
ASSUME ReportsAssumption ==
    \A c \in Configs :
       /\ c.domain.evaluationOrder \in Seq(STRING)
       /\ c.domain.thresholds.partialErrors \in Int
       /\ c.domain.thresholds.majorErrors \in Int
       /\ \A doc \in Documents :
             /\ IsList(Records(c.mapping, doc))
             /\ c.mapping.series # <<>> =>
                   \A record \in Range(Records(c.mapping, doc)) :
                      IsList(AllAt(c.mapping.series[1].path, record))
             /\ \A sv \in Range(Services(c.mapping, doc, Label)) : Handed(sv)
       /\ \A batch \in Batches :
             /\ IsList(batch.services)
             /\ \A sv \in Range(Accepted(c.domain, batch.services)) : Handed(sv)

(* What is configured in order is a list, and the columns are those that a   *)
(* board on a page was given.                                               *)
ASSUME ConfigsAssumption ==
    \A c \in Configs :
       /\ \A field \in {"periods", "regions", "roles", "metrics", "signals", "opportunities",
                         "statusOrder", "categories", "locales", "columns"} : IsList(c.domain[field])
       /\ \A i \in DOMAIN c.domain.periods : c.domain.periods[i].days \in Int
       /\ \A field \in DOMAIN c.mapping.chains : IsList(c.mapping.chains[field])
       /\ c.domain.columns # <<>> =>
             \E s \in Sections(c.layout) : \E w \in Range(s.aside) \cup Range(s.widgets) :
                w.type = "leaderboard-table"

ASSUME BoundsAssumption ==
    MaxClicks \in Nat /\ MaxArrivals \in Nat /\ MaxInflight \in Nat

(* A request a browser of this deployment can make: parameters the dashboard *)
(* knows, each with values, none of them empty.                             *)
Written(params) ==
    /\ DOMAIN params \subseteq Params
    /\ params = [name \in DOMAIN params |-> params[name]]
    /\ \A name \in DOMAIN params :
          /\ IsList(params[name]) /\ params[name] # <<>>
          /\ \A i \in DOMAIN params[name] : params[name][i] # <<>>

IsRequest(r) == DOMAIN r = {"service", "params"} /\ Written(r.params)

(* The addresses a reader keeps are ones that the dashboard wrote.          *)
ASSUME BookmarksAssumption ==
    \A b \in Bookmarks : IsRequest(b)

(* An empty search box is no search, and is an edit of its own.             *)
ASSUME WordsAssumption == "" \notin Words

VARIABLES config,         \* the configuration the deployment was started with
          served,         \* every snapshot served so far, the latest last
          scripted,       \* whether the browser runs scripts
          address,        \* what the address bar says
          shown,          \* for each region, the rendering it holds
          cookie,         \* the theme cookie
          inflight,       \* fragments asked for and not yet answered
          overlapped,     \* a control was used before an answer arrived
          clicks          \* controls used so far

vars == <<config, served, scripted, address, shown, cookie, inflight, overlapped, clicks>>

Domain == config.domain
Tabs   == IdsOf(config.layout.tabs)
Latest == Len(served)

Regions == {"page", "signals", "leaderboard", "drawer"}

(* What the widgets are given to draw a rendering. *)
Themed(c, theme) == [c EXCEPT !.state.theme = theme]

ContextOf(r) == Themed(Build(Domain, served[r.of].services, r.at, cookie), r.theme)

-----------------------------------------------------------------------------
(* The server *)

Arrived(services, doc) == [services |-> Finalise(services, Domain), doc |-> doc]

(* A bookmark of a service that is gone leads to the board, not to an error. *)
Landing(request) ==
    LET c == Build(Domain, served[Latest].services, request, cookie)
    IN  IF request.service # "" /\ c.service = <<>> THEN Href(c, "", [tab |-> <<>>]) ELSE request

(* Mutant: no address carries the drawer's tab. *)
MutantPushUrl(c, service) == Link(service, ParamsWith(c.params, [tab |-> <<>>]))

(* The address a fragment belongs to; a tab means nothing without a drawer.  *)
PushUrl(c, service) ==
    Link(service, IF c.service = <<>> THEN ParamsWith(c.params, [tab |-> <<>>]) ELSE c.params)

(* Whether there is a fragment: only a drawer can ask for what is gone.      *)
Found(c, request) == request.service = "" \/ c.service # <<>>

(* Changing the theme or the language keeps the drawer open. *)
Here(c) == IF c.service = <<>> THEN "" ELSE c.service[1].id

-----------------------------------------------------------------------------
(* Controls.  A control leads to a request, names the region its answer goes *)
(* to, and says what of the reader's state it picks.                        *)

Control(name, picks, target, at) == [name |-> name, picks |-> picks, target |-> target, at |-> at]

(* A form sends its hidden fields first, and the first value of a name wins. *)
Submit(hidden, own) ==
    [name \in DOMAIN hidden \cup DOMAIN own |->
        (IF name \in DOMAIN hidden THEN hidden[name] ELSE <<>>)
        \o (IF name \in DOMAIN own THEN own[name] ELSE <<>>)]

Offers(kind) == \E i \in DOMAIN (config.chrome.header \o config.chrome.strip) :
                   (config.chrome.header \o config.chrome.strip)[i].kind = kind
Selects(state) == \E i \in DOMAIN config.chrome.header : config.chrome.header[i].state = state

(* The bar's form has the selects that the header lists.  Its hidden fields  *)
(* leave out both choices, listed or not.                                   *)
BarForm(c, period, locale) ==
    LET chosen == [period |-> <<<<period>>>>, lang |-> <<<<locale>>>>]
        given  == {name \in DOMAIN chosen : Selects(IF name = "lang" THEN "locale" ELSE name)}
    IN  Link(Here(c), Submit(HiddenExcept(c.params, {"lang", "period", "tab"}),
                             [name \in given |-> chosen[name]]))

OtherTheme(theme) == IF theme = "dark" THEN "light" ELSE "dark"

(* Switching the scope drops the region; switching the role, the filters.    *)
BarControls(c) ==
    {Control("wordmark", None, "page", [service |-> "", params |-> None]) : x \in {y \in {1} : Offers("wordmark")}}
    \cup {Control("scope", [scope |-> s], "body", Href(c, "", [scope |-> <<s>>, region |-> <<>>]))
            : s \in {t \in Domain.scopes : Offers("scope-switch")}}
    \cup {Control("role", [role |-> r], "body",
                  Href(c, "", [role |-> <<r>>, status |-> <<>>, cat |-> <<>>, q |-> <<>>]))
            : r \in {t \in Range(Domain.roles) : Offers("role-switch") /\ Len(Domain.roles) >= 2}}
    \cup {Control("period", [period |-> p], "page", BarForm(c, p, c.state.locale))
            : p \in {t \in Range(IdsOf(Domain.periods)) : Selects("period")}}
    \cup {Control("locale", [locale |-> l], "page", BarForm(c, c.state.period, l))
            : l \in {t \in Range(Domain.locales) : Selects("locale")}}
    \cup {Control("theme", [theme |-> t], "page", Href(c, Here(c), [theme |-> <<t>>]))
            : t \in {u \in {OtherTheme(c.state.theme)} : ~scripted /\ Offers("theme-toggle")}}

SignalControls(c) ==
    {Control("signals", [signals |-> t.tab], "signals", t.href) : t \in SignalTabs(c)}
    \cup {Control(IF card.action.target = "drawer" THEN "focus" ELSE "card", None,
                  card.action.target, card.action.href)
            : card \in {k \in Range(SignalCards(c)) : ~k.empty}}

(* The fields of the filter form, as the reader may change one of them.  A  *)
(* select with nothing selected sends its first option.                     *)
Toggle(set, x) == IF x \in set THEN set \ {x} ELSE set \cup {x}

Sent(bar) ==
    LET active == {i \in DOMAIN bar.regions : bar.regions[i].active}
    IN  IF ~bar.enabled \/ bar.regions = <<>> THEN ""
        ELSE bar.regions[IF active = {} THEN 1 ELSE Min(active)].id

FieldEdits(c, bar) ==
    LET f   == c.state.filter
        now == [status |-> f.status, cat |-> f.cat, q |-> f.q, region |-> Sent(bar)]
    IN  {[now EXCEPT !.status = Toggle(@, s)] : s \in DOMAIN bar.statuses}
        \cup {[now EXCEPT !.cat = Toggle(@, k)] : k \in DOMAIN bar.categories}
        \cup {[now EXCEPT !.q = typed] : typed \in {{}} \cup {{w} : w \in Words}}
        \cup {[now EXCEPT !.region = bar.regions[i].id] : i \in {j \in DOMAIN bar.regions : bar.enabled}}

(* One value for each box that is checked. *)
Boxes(set) == LET list == SetToSeq(set) IN [i \in DOMAIN list |-> <<list[i]>>]

FilterForm(c, bar, fields) ==
    LET own == [filters |-> <<IF c.state.filters THEN <<"open">> ELSE <<>>>>,
                q |-> Boxes(fields.q), status |-> Boxes(fields.status), cat |-> Boxes(fields.cat),
                region |-> IF fields.region = "" THEN <<>> ELSE <<<<fields.region>>>>]
        given == {name \in DOMAIN own : own[name] # <<>>}
    IN  Link("", Submit(bar.hidden, [name \in given |-> own[name]]))

(* The reader picks the one field that was changed, and keeps the others.    *)
FilterControl(c, bar, fields) ==
    LET filter == [status |-> fields.status, cat |-> fields.cat, q |-> fields.q,
                   id |-> c.state.filter.id]
    IN  Control("filter",
                IF fields.region = Sent(bar) THEN [filter |-> filter]
                                             ELSE [filter |-> filter, region |-> fields.region],
                "leaderboard", FilterForm(c, bar, fields))

FilterControls(c, bar) ==
    {FilterControl(c, bar, fields) : fields \in FieldEdits(c, bar)}
    \cup {Control("clear", [filter |-> [status |-> {}, cat |-> {}, q |-> {}, id |-> {}]],
                  "leaderboard", bar.clearHref) : x \in {y \in {1} : bar.clear}}

BoardControls(c) ==
    FilterControls(c, FilterBar(c))
    \cup {Control("sort", [sort |-> col.key], "leaderboard", col.href) : col \in Range(Columns(c))}
    \cup {Control("row", [service |-> row.id], "drawer", row.href) : row \in Range(BoardRows(c))}

DrawerControls(c) ==
    IF c.service = <<>> THEN {}
    ELSE {Control("tab", [tab |-> t], "pane", Href(c, Here(c), [tab |-> <<t>>])) : t \in Range(Tabs)}
         \cup {Control("close", [service |-> ""], "page", Href(c, "", [tab |-> <<>>])) : x \in {y \in {1} : ~scripted}}

DrawerOpen == shown["drawer"].at.service # ""

(* A drawer that scripts opened is modal: nothing behind it can be used.     *)
Controls ==
    DrawerControls(ContextOf(shown["drawer"]))
    \cup (IF scripted /\ DrawerOpen THEN {}
          ELSE BarControls(ContextOf(shown["page"])) \cup SignalControls(ContextOf(shown["signals"]))
               \cup BoardControls(ContextOf(shown["leaderboard"])))

-----------------------------------------------------------------------------
Rendering(request, service) ==
    [at |-> [service |-> service, params |-> request.params], of |-> Latest,
     theme |-> ReadTheme(Get(request.params, "theme"), cookie)]

(* A page is one rendering of all its regions; what was under way is dropped. *)
Load(request) ==
    /\ address' = Landing(request)
    /\ shown' = [region \in Regions |-> Rendering(Landing(request), Landing(request).service)]
    /\ inflight' = {}
    /\ overlapped' = FALSE

Init ==
    /\ config \in {c \in Configs : Problems(c) = {}}
    /\ scripted \in BOOLEAN
    /\ cookie = "" /\ inflight = {} /\ overlapped = FALSE /\ clicks = 0
    /\ \E doc \in Documents : served = <<Arrived(Services(config.mapping, doc, Label), <<doc>>)>>
    /\ \E b \in Bookmarks :
          /\ address = Landing(b)
          /\ shown = [region \in Regions |-> Rendering(Landing(b), Landing(b).service)]

(* The source has something new; pages that are open are not told. *)
Poll ==
    /\ Latest <= MaxArrivals
    /\ \E doc \in Documents :
          served' = Append(served, Arrived(Services(config.mapping, doc, Label), <<doc>>))
    /\ UNCHANGED <<config, scripted, address, shown, cookie, inflight, overlapped, clicks>>

Push ==
    /\ Latest <= MaxArrivals
    /\ \E request \in Batches :
          served' = Append(served, [services |-> ApplyIngest(Domain, request, served[Latest].services),
                                    doc |-> <<>>])
    /\ UNCHANGED <<config, scripted, address, shown, cookie, inflight, overlapped, clicks>>

Clicked == clicks < MaxClicks /\ clicks' = clicks + 1

(* A control that loads a page, which without scripts is every one of them.  *)
Follow ==
    /\ Clicked
    /\ \E control \in Controls :
          /\ ~scripted \/ control.target = "page"
          /\ Load(control.at)
    /\ UNCHANGED <<config, served, scripted, cookie>>

(* A control that asks for a fragment. *)
Ask ==
    /\ Clicked
    /\ scripted /\ Cardinality(inflight) < MaxInflight
    /\ \E control \in Controls :
          /\ control.target # "page"
          /\ inflight' = inflight \cup {[target |-> control.target, at |-> control.at, attached |-> TRUE]}
    /\ overlapped' = (overlapped \/ inflight # {})
    /\ UNCHANGED <<config, served, scripted, address, shown, cookie>>

(* The targets that a fragment for one of them replaces. *)
Replaces(target) ==
    CASE target = "body"   -> {"signals", "leaderboard", "drawer", "pane"}
      [] target = "drawer" -> {"pane"}
      [] target = "pane"   -> {}
      [] OTHER             -> {target}

Detached(pending, targets) ==
    {[r EXCEPT !.attached = @ /\ r.target \notin targets] : r \in pending}

(* The regions an answer is drawn into. *)
Redrawn(target) ==
    CASE target = "body" -> Regions
      [] target = "pane" -> {"drawer"}
      [] OTHER           -> {target}

(* The server answers, and the browser puts the fragment where it belongs.   *)
Answer ==
    \E r \in inflight :
       LET c    == Build(Domain, served[Latest].services, r.at, cookie)
           rest == inflight \ {r}
           draws == Found(c, r.at) /\ r.attached
       IN  /\ address' = IF ~Found(c, r.at) THEN address
                         ELSE IF r.target = "body" THEN r.at
                         ELSE PushUrl(c, r.at.service)
           /\ shown' = IF draws
                       THEN [region \in Regions |->
                               IF region \in Redrawn(r.target)
                               THEN Rendering(r.at, r.at.service) ELSE shown[region]]
                       ELSE shown
           /\ inflight' = IF draws THEN Detached(rest, Replaces(r.target)) ELSE rest
           /\ UNCHANGED <<config, served, scripted, cookie, overlapped, clicks>>

(* The theme changes at once, and a cookie tells the server of it. *)
ToggleTheme ==
    /\ Clicked
    /\ scripted /\ ~DrawerOpen /\ Offers("theme-toggle")
    /\ LET theme == OtherTheme(shown["page"].theme)
       IN  cookie' = theme /\ shown' = [shown EXCEPT !["page"].theme = theme]
    /\ UNCHANGED <<config, served, scripted, address, inflight, overlapped>>

(* Mutant: closing the drawer leaves the address as it is. *)
MutantClosed(at) == at

(* The address goes back to the board, without the drawer's tab. *)
Closed(at) == IF at.service = "" THEN at
              ELSE [service |-> "", params |-> ParamsWith(at.params, [tab |-> <<>>])]

CloseDrawer ==
    /\ Clicked
    /\ scripted /\ DrawerOpen
    /\ address' = Closed(address)
    /\ shown' = [shown EXCEPT !["drawer"].at.service = ""]
    /\ inflight' = Detached(inflight, {"pane"})
    /\ overlapped' = (overlapped \/ inflight # {})
    /\ UNCHANGED <<config, served, scripted, cookie>>

Reload ==
    /\ Clicked
    /\ Load(address)
    /\ UNCHANGED <<config, served, scripted, cookie>>

Next == Poll \/ Push \/ Follow \/ Ask \/ Answer \/ ToggleTheme \/ CloseDrawer \/ Reload

Spec == Init /\ [][Next]_vars
=============================================================================
