------------------------------- MODULE Bands --------------------------------
(***************************************************************************)
(* What a layout makes of a request: the bands of the page and the panes   *)
(* of the drawer, each the list of what its widgets show.  Text that does  *)
(* not depend on the request is left out.                                  *)
(***************************************************************************)
EXTENDS Settings

(* One binding for each item of the collection a widget is repeated over.   *)
Expand(w, d) ==
    LET Each(metrics) == [i \in DOMAIN metrics |-> [w.bind EXCEPT !.metric = metrics[i].id]]
    IN  CASE w.repeatOver = "config.metrics.drawer" -> Each(SelectSeq(d.metrics, LAMBDA m : m.inDrawer))
          [] w.repeatOver = "config.metrics.leaderboard" -> Each(SelectSeq(d.metrics, LAMBDA m : m.onBoard))
          [] OTHER -> <<w.bind>>

Option(w, name, default) == IF name \in DOMAIN w.options THEN w.options[name].value ELSE default

(* A widget that reads the open service shows nothing without one.  An      *)
(* incident is dated in hours from now.                                     *)
ServiceView(c, w, bind) ==
    LET sv == c.service[1] IN
    CASE w.type = "requestor-detail" -> RequestorDetail(c.all, sv)
      [] w.type = "stat-tile"   -> StatTile(c, sv, bind.metric)
      [] w.type = "sparkline"   -> Sparkline(c, sv, bind)
      [] w.type = "demand-mix"  -> DemandMix(c.all, sv, Option(w, "days", 30))
      [] w.type = "peer-bars"   -> PeerBars(c.all, sv)
      [] w.type = "bar-list"    -> BarList(sv, Option(w, "limit", 7))
      [] w.type = "bar-chart"   -> BarChart(c, sv, bind)
      [] w.type = "timeline"    -> Timeline(sv, 0)
      [] w.type = "data-table"  -> DataTable(c, sv, bind, Option(w, "every", 1))
      [] OTHER -> <<>>

PageView(c, w) ==
    CASE w.type = "status-summary" -> StatusSummary(c)
      [] w.type = "segmented-bar"  -> SegmentedBar(c)
      [] w.type = "legend"         -> Legend(c)
      [] w.type = "coverage"       -> Coverage(c)
      [] w.type = "disclosure" /\ w.bind.source # "" -> Disclosure(c)
      [] w.type = "result-count"   -> ResultCount(c)
      [] w.type = "signal-tabs"    -> SignalTabs(c)
      [] w.type = "signal-cards"   -> SignalCards(c)
      [] w.type = "filter-bar"     -> FilterBar(c)
      [] w.type = "leaderboard-table" -> Leaderboard(c)
      [] OTHER -> <<>>

(* What a list of widgets shows, in the configured order. *)
Drawn(c, widgets) ==
    FlattenSeq([i \in DOMAIN widgets |->
        LET w == widgets[i]
            binds == Expand(w, c.d)
        IN  [k \in DOMAIN binds |->
                IF binds[k].source \notin ServiceScoped THEN PageView(c, w)
                ELSE IF c.service = <<>> THEN <<>> ELSE ServiceView(c, w, binds[k])]])

PageByPath(layout, path) == SelectSeq(layout.pages, LAMBDA p : p.path = path)

Band(c, section) == Drawn(c, section.aside \o section.widgets)

DrawerTab(layout, tab) ==
    LET named == SelectSeq(layout.tabs, LAMBDA t : t.id = tab)
    IN  IF named = <<>> THEN layout.tabs[1] ELSE named[1]

(* The open service, and the tab the address names or else the first. *)
Pane(c, layout) ==
    IF c.service = <<>> THEN <<>>
    ELSE LET tab == DrawerTab(layout, c.state.tab)
         IN  <<[id |-> c.service[1].id, tab |-> tab.id, views |-> Drawn(c, tab.widgets)]>>
=============================================================================
