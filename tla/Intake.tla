------------------------------- MODULE Intake -------------------------------
(***************************************************************************)
(* Turning an upstream document into services: paths into the document,    *)
(* chains of transforms, and the mapping that names one of each per field. *)
(*                                                                         *)
(* A node of a document is a record: its kind, the members of an object,   *)
(* the items of an array, and for a scalar what reading it as a number, a  *)
(* text or a day gives.  Numbers are in ten-thousandths, so that a ratio   *)
(* and the percentage made of it are both integers.                        *)
(***************************************************************************)
EXTENDS Widgets

Unit == 10000

NoText == [valid |-> FALSE, value |-> ""]

Node(kind) == [kind |-> kind, members |-> [key \in {} |-> 0], items |-> <<>>,
               num |-> Absent, text |-> NoText, day |-> Absent]

Null == Node("null")

(* What one step of a path selects in a node: nothing, when it does not fit. *)
Select(step, node) ==
    CASE step.kind = "key" /\ node.kind = "object" /\ step.key \in DOMAIN node.members ->
            <<node.members[step.key]>>
      [] step.kind = "all" /\ node.kind = "array" -> node.items
      [] step.kind = "index" /\ node.kind = "array" /\ step.index < Len(node.items) ->
            <<node.items[step.index + 1]>>
      [] OTHER -> <<>>

(* Everything a path selects; a path without steps selects nothing. *)
AllAt(path, doc) ==
    IF path = <<>> THEN <<>>
    ELSE FoldLeft(LAMBDA nodes, step :
                    FlattenSeq([i \in DOMAIN nodes |-> Select(step, nodes[i])]), <<doc>>, path)

(* A field the document does not have is absent, which is not an error. *)
GetAt(path, doc) == IF AllAt(path, doc) = <<>> THEN Null ELSE Head(AllAt(path, doc))

-----------------------------------------------------------------------------
(* Transforms *)

Clamp(n) == Max({0, Min({n, 100 * Unit})})

(* To a number of decimal places. *)
Round(n, places) ==
    LET grain == Unit \div 10^places
    IN  IF grain <= 1 THEN n ELSE ((n + grain \div 2) \div grain) * grain

Numeric(value, n) ==
    IF value.num.valid THEN [Node("number") EXCEPT !.num = Present(n)] ELSE value

(* A value the table does not list passes through. *)
Textual(value, table) ==
    IF value.text.valid /\ value.text.value \in DOMAIN table
    THEN [Node("text") EXCEPT !.text = Present(table[value.text.value])] ELSE value

NumericFns == {"ratioToPercent", "percentToRatio", "multiply", "divide", "negate",
               "secondsToMillis", "millisToSeconds", "clampPercent"}
TextualFns == {"enumMap", "lowercase", "uppercase", "trim", "trimPrefix"}
FnNames    == NumericFns \cup TextualFns \cup {"round", "default"}

Transform(value, step) ==
    LET n == value.num.value IN
    CASE step.fn = "ratioToPercent"  -> Numeric(value, n * 100)
      [] step.fn = "percentToRatio"  -> Numeric(value, n \div 100)
      [] step.fn = "multiply"        -> Numeric(value, n * step.by)
      [] step.fn = "divide"          -> Numeric(value, n \div step.by)
      [] step.fn = "negate"          -> Numeric(value, -n)
      [] step.fn = "round"           -> Numeric(value, Round(n, step.by))
      [] step.fn = "secondsToMillis" -> Numeric(value, n * 1000)
      [] step.fn = "millisToSeconds" -> Numeric(value, n \div 1000)
      [] step.fn = "clampPercent"    -> Numeric(value, Clamp(n))
      [] step.fn \in TextualFns      -> Textual(value, step.table)
      [] step.fn = "default"         -> IF value.kind = "null" THEN step.value ELSE value

(* Only "default" touches a value that was not reported. *)
After(v, step) == IF v.kind = "null" /\ step.fn # "default" THEN v ELSE Transform(v, step)

Run(value, chain) ==
    LET ran[k \in 0 .. Len(chain)] == IF k = 0 THEN value ELSE After(ran[k - 1], chain[k])
    IN  ran[Len(chain)]

ChainProblems(chain) ==
    {"unknown transform" : i \in {j \in DOMAIN chain : chain[j].fn \notin FnNames}}
    \cup {"no table" : i \in {j \in DOMAIN chain : chain[j].fn = "enumMap" /\ DOMAIN chain[j].table = {}}}
    \cup {"zero operand" : i \in {j \in DOMAIN chain : chain[j].fn \in {"multiply", "divide"} /\ chain[j].by = 0}}

-----------------------------------------------------------------------------
(* The mapping: m.items is the path to the records, m.fields and m.chains   *)
(* name a path and a chain per field, m.series the daily points.            *)

HistoryFields == {"history.availability", "history.errorRate", "history.volume"}
Fields ==
    {"id", "key", "name", "categoryId", "regionId", "scope", "roleId", "sectorId", "callsKey",
     "ownErrorShare", "metrics.availability", "metrics.errorRate", "metrics.staleSeconds",
     "metrics.volume.total", "metrics.volume.success", "maintenance.active"} \cup HistoryFields

(* Every problem at once, before the first poll. *)
MappingProblems(m) ==
    {"unknown field" : f \in (DOMAIN m.fields \cup DOMAIN m.chains) \ Fields}
    \cup (IF "id" \in DOMAIN m.fields THEN {} ELSE {"id is not mapped"})
    \cup UNION {ChainProblems(m.chains[f]) : f \in DOMAIN m.chains}
    \cup (IF m.series = <<>> THEN {}
          ELSE {"history" : part \in {p \in {"path", "date"} : m.series[1][p] = <<>>}})

ChainOf(m, field) == IF field \in DOMAIN m.chains THEN m.chains[field] ELSE <<>>

Read(m, record, field) ==
    IF field \notin DOMAIN m.fields THEN Null
    ELSE Run(GetAt(m.fields[field], record), ChainOf(m, field))

Text(value)    == IF value.text.valid THEN value.text.value ELSE ""
Whole(value)   == IF value.num.valid THEN value.num.value \div Unit ELSE 0
Percent(value) == IF value.num.valid THEN value.num.value \div 100 ELSE 0

(* Mutant: a figure that was not reported is filled in. *)
MutantReading(value) == Present(Percent(value))

Reading(value) == IF value.num.valid THEN Present(value.num.value \div 100) ELSE Absent

(* Points without a date cannot be placed; the others go oldest first. *)
ReadHistory(m, record) ==
    LET series == m.series[1]
        At(path, node, field) == Run(GetAt(path, node), ChainOf(m, field))
        nodes == AllAt(series.path, record)
        dated == Kept(nodes, {i \in DOMAIN nodes : GetAt(series.date, nodes[i]).day.valid})
        points == [i \in DOMAIN dated |->
                     [day          |-> GetAt(series.date, dated[i]).day.value,
                      availability |-> Reading(At(series.availability, dated[i], "history.availability")),
                      errorRate    |-> Percent(At(series.errorRate, dated[i], "history.errorRate")),
                      volume       |-> Whole(At(series.volume, dated[i], "history.volume"))]]
    IN  IF m.series = <<>> THEN <<>> ELSE StableSort(points, LAMBDA a, b : a.day - b.day)

(* A field that was not reported keeps its zero value; the key defaults to   *)
(* the id.  label is where a name sorts, which is the locale's to say.       *)
ServiceOf(m, record, label) ==
    LET T(field) == Text(Read(m, record, field))
        W(field) == Whole(Read(m, record, field))
    IN  [id |-> T("id"), key |-> IF T("key") = "" THEN T("id") ELSE T("key"),
         calls |-> T("callsKey"), scope |-> T("scope"), role |-> T("roleId"), region |-> T("regionId"),
         category |-> T("categoryId"), sector |-> T("sectorId"), status |-> "",
         availability |-> Reading(Read(m, record, "metrics.availability")),
         errorRate    |-> Percent(Read(m, record, "metrics.errorRate")),
         ownErrors    |-> Percent(Read(m, record, "ownErrorShare")),
         stale   |-> W("metrics.staleSeconds"), maintenance |-> W("maintenance.active") # 0,
         total   |-> W("metrics.volume.total"), success |-> W("metrics.volume.success"),
         history |-> ReadHistory(m, record), incidents |-> <<>>, errors |-> <<>>, trends |-> <<>>,
         name    |-> label[T("name")], words |-> {T("name"), T("categoryId"), T("regionId")}]

(* No path to the records means the document is itself the array; a path to  *)
(* the array itself selects its items.                                      *)
Records(m, doc) ==
    LET found == AllAt(m.items, doc)
    IN  IF m.items = <<>> THEN (IF doc.kind = "array" THEN doc.items ELSE <<>>)
        ELSE IF Len(found) = 1 /\ found[1].kind = "array" THEN found[1].items ELSE found

(* One malformed record does not empty the dashboard. *)
Services(m, doc, label) ==
    LET records == Records(m, doc)
        named   == Kept(records, {i \in DOMAIN records : Text(Read(m, records[i], "id")) # ""})
    IN  [i \in DOMAIN named |-> ServiceOf(m, named[i], label)]
=============================================================================
