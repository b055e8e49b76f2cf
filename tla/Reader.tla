------------------------------- MODULE Reader -------------------------------
(***************************************************************************)
(* The reader's selections as they travel in an address, and what a        *)
(* deployment makes of them.  A query is a function from the parameters it *)
(* carries to the sequence of values sent under each; a value is the       *)
(* sequence of items a comma separates, <<>> being an empty value.         *)
(***************************************************************************)
EXTENDS Query

Params == {"scope", "role", "id", "signals", "region", "period", "q", "status",
           "cat", "sort", "dir", "lang", "filters", "theme", "tab"}

None == [name \in {} |-> <<>>]

Get(query, name) ==
    IF name \in DOMAIN query /\ Head(query[name]) # <<>> THEN Head(query[name])[1] ELSE ""

All(query, name) == IF name \in DOMAIN query THEN query[name] ELSE <<>>

(* Empty values say nothing, and unknown names are not handed on. *)
ReadParams(query) ==
    LET said(name) == Kept(query[name], {i \in DOMAIN query[name] : query[name][i] # <<>>})
    IN  [name \in {n \in DOMAIN query \cap Params : said(n) # <<>>} |-> said(name)]

Link(service, params) == [service |-> service, params |-> ReadParams(params)]

(* Mutant: an empty value leaves its parameter as it was. *)
MutantParamsWith(params, changed) ==
    LET set == {name \in DOMAIN changed : changed[name] # <<>>}
    IN  [name \in DOMAIN params \cup set |->
            IF name \in set THEN <<changed[name]>> ELSE params[name]]

(* Mutant: an empty value is written out. *)
MutantParamsWritten(params, changed) ==
    [name \in DOMAIN params \cup DOMAIN changed |->
        IF name \in DOMAIN changed THEN <<changed[name]>> ELSE params[name]]

(* Everything selected, with the given parameters replaced; an empty value   *)
(* removes its parameter.                                                   *)
ParamsWith(params, changed) ==
    LET kept == DOMAIN params \ DOMAIN changed
        set  == {name \in DOMAIN changed : changed[name] # <<>>}
    IN  [name \in kept \cup set |->
            IF name \in set THEN <<changed[name]>> ELSE params[name]]

(* Mutant: a form also carries hidden what it has a control for. *)
MutantHiddenExcept(params, names) == params

HiddenExcept(params, names) == [name \in DOMAIN params \ names |-> params[name]]

-----------------------------------------------------------------------------
(* What a deployment makes of a query *)

SplitValues(groups) == UNION {Range(groups[i]) : i \in DOMAIN groups}

KnownValues(groups, allowed) == SplitValues(groups) \cap allowed

PeriodOr(got, d) == IF DaysOf(d, got).valid THEN got ELSE d.defaultPeriod

(* Mutant: a region chosen in one scope is kept in every scope. *)
MutantRegionOr(got, scope, d) ==
    IF \E i \in DOMAIN d.regions : d.regions[i].id = got THEN got ELSE ""

(* No region in the default scope, where the reader could not clear it. *)
RegionOr(got, scope, d) ==
    IF /\ scope # d.defaultScope
       /\ \E i \in DOMAIN d.regions :
             d.regions[i].id = got /\ d.regions[i].scope \in {scope, d.defaultScope}
    THEN got ELSE ""

ReadTheme(explicit, cookie) ==
    IF explicit \in {"light", "dark"} THEN explicit
    ELSE IF cookie \in {"light", "dark"} THEN cookie ELSE ""

(* Unrecognised values fall back to what the deployment declares. *)
ReadState(d, service, query, cookie) ==
    LET asked == Get(query, "scope")
        scope == IF asked \in d.scopes THEN asked ELSE d.defaultScope
        sort  == IF Get(query, "sort") = "" THEN "rank" ELSE Get(query, "sort")
        dir   == Get(query, "dir")
    IN  [scope   |-> scope,
         role    |-> RoleFor(d, Get(query, "role")),
         region  |-> RegionOr(Get(query, "region"), scope, d),
         period  |-> PeriodOr(Get(query, "period"), d),
         sort    |-> sort,
         dir     |-> IF dir \in {"asc", "desc"} THEN dir ELSE DefaultDirection(sort),
         filter  |-> [status |-> KnownValues(All(query, "status"), Statuses),
                      cat    |-> KnownValues(All(query, "cat"), Range(d.categories)),
                      id     |-> SplitValues(All(query, "id")),
                      q      |-> IF Get(query, "q") = "" THEN {} ELSE {Get(query, "q")}],
         signals |-> SignalTabFor(d, Get(query, "signals")),
         locale  |-> IF Get(query, "lang") \in Range(d.locales) THEN Get(query, "lang")
                     ELSE d.locales[1],
         theme   |-> ReadTheme(Get(query, "theme"), cookie),
         filters |-> Get(query, "filters") = "open",
         service |-> service,
         tab     |-> Get(query, "tab")]
=============================================================================
