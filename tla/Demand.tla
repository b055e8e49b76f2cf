------------------------------- MODULE Demand -------------------------------
(***************************************************************************)
(* The demand side of the drawer: who pulls the open service, what share   *)
(* of its demand each of them is, and how it compares with its peers.      *)
(* Shares are in hundredths of a per cent.                                 *)
(***************************************************************************)
EXTENDS Reader

CONSTANTS ChartRows,   \* how many bars a chart draws before it says it stopped
          IdOrder      \* where an id comes among ids
ASSUME ChartRowsAssumption == ChartRows \in Nat \ {0}

CallersOf(all, sv) ==
    SelectSeq(all, LAMBDA r :
        r.calls = sv.key /\ (sv.scope = "state" => r.region = sv.region))

(* What a requestor calls: <<>> when nothing on record is it. *)
PublisherOf(all, sv) ==
    LET named == SelectSeq(all, LAMBDA p :
            /\ p.key = sv.calls /\ p.calls = ""
            /\ p.scope = "state" => p.region = sv.region)
    IN  IF named = <<>> THEN <<>> ELSE <<named[1]>>

SiblingsOf(all, sv, publisher) ==
    Kept(all, {i \in DOMAIN all :
        /\ all[i].calls = sv.calls
        /\ publisher # <<>> /\ publisher[1].scope = "state" => all[i].region = sv.region})

(* Measured against the same category or sector, at the same scope, and      *)
(* never against itself.                                                    *)
PeersOf(all, sv) ==
    SelectSeq(all, LAMBDA p :
        /\ p.id # sv.id /\ p.scope = sv.scope
        /\ (p.calls # "") = (sv.calls # "")
        /\ IF sv.calls # "" THEN p.sector = sv.sector ELSE p.category = sv.category)

(* Growth in thousandths, unless there is nothing to compare with. *)
DemandDelta(list, days) ==
    LET known == SelectSeq(list, LAMBDA r : r.history # <<>>)
        now   == Total(known, LAMBDA r : r.history[Len(r.history)].volume)
        past  == Total(known, LAMBDA r : r.history[Max({1, Len(r.history) - days})].volume)
    IN  IF past = 0 THEN Absent ELSE Present(((now - past) * 1000) \div past)

MedianOf(nums) ==
    LET sorted == SortSeq(nums, <)
        m == Len(nums) \div 2
    IN  IF nums = <<>> THEN 0
        ELSE IF Len(nums) % 2 = 1 THEN sorted[m + 1]
        ELSE (sorted[m] + sorted[m + 1] + 1) \div 2

MaxOf(nums) == Max({0} \cup Range(nums))

(* Busiest first, and by id among equals. *)
ByVolumeDesc(list) ==
    StableSort(list, LAMBDA a, b : IF a.success # b.success THEN b.success - a.success
                                   ELSE IdOrder[a.id] - IdOrder[b.id])

Rounded(n, d) == (2 * n + d) \div (2 * d)

(* With no row that is the open record, the largest is the one marked. *)
ShareBars(rows, total, issued, mine) ==
    [i \in DOMAIN rows |->
        LET share == IF total > 0 THEN Rounded(rows[i].success * Full, total) ELSE 0 IN
        [id |-> rows[i].id, share |-> share,
         count |-> IF total > 0 THEN Rounded(rows[i].success * issued, total) ELSE 0,
         highlight |-> rows[i].id = mine
                         \/ (i = 1 /\ \A j \in DOMAIN rows : rows[j].id # mine)]]

(* Mutant: the open record is added even where it is among the busiest. *)
MutantShown(rows, mine) ==
    IF Len(rows) <= ChartRows THEN rows
    ELSE SubSeq(rows, 1, ChartRows) \o SelectSeq(rows, LAMBDA r : r.id = mine)

(* The busiest few, and the open record after them. *)
Shown(rows, mine) ==
    IF Len(rows) <= ChartRows THEN rows
    ELSE Kept(rows, {i \in DOMAIN rows : i <= ChartRows \/ rows[i].id = mine})

DemandChart(rows, total, issued, mine) ==
    [bars  |-> ShareBars(Shown(rows, mine), total, issued, mine),
     table |-> ShareBars(rows, total, issued, mine),
     truncated |-> Len(rows) > ChartRows /\ total > 0]

IssuerDemand(all, sv, days) ==
    LET callers == CallersOf(all, sv)
        total   == Total(callers, LAMBDA r : r.success)
        Sector(s) == SelectSeq(callers, LAMBDA r : r.sector = s)
        sectors == SetToSeq({callers[i].sector : i \in DOMAIN callers})
        bySector == [i \in DOMAIN sectors |->
                       [id |-> sectors[i], success |-> Total(Sector(sectors[i]), LAMBDA r : r.success)]]
    IN  [count |-> Len(callers), growth |-> DemandDelta(callers, days),
         charts |-> IF callers = <<>> THEN <<>>
                    ELSE (IF Len(sectors) <= 1 THEN <<>>
                          ELSE <<[bars  |-> ShareBars(ByVolumeDesc(bySector), total, sv.success, ""),
                                  table |-> ShareBars(ByVolumeDesc(bySector), total, sv.success, ""),
                                  truncated |-> FALSE]>>)
                         \o <<DemandChart(ByVolumeDesc(callers), total, sv.success, "")>>]

RequestorDemand(all, sv, days) ==
    LET publisher == PublisherOf(all, sv)
        siblings  == SiblingsOf(all, sv, publisher)
        total     == Total(siblings, LAMBDA r : r.success)
        issued    == IF publisher = <<>> THEN total ELSE publisher[1].success
    IN  [count |-> Len(siblings), growth |-> DemandDelta(<<sv>>, days),
         charts |-> IF Len(siblings) <= 1 THEN <<>>
                    ELSE <<DemandChart(ByVolumeDesc(siblings), total, issued, sv.id)>>]

DemandMix(all, sv, days) ==
    IF sv.calls # "" THEN RequestorDemand(all, sv, days) ELSE IssuerDemand(all, sv, days)

(* This record, the median and the best of its peers, on one scale. *)
PeerTrio(mine, peers) ==
    LET scale == Max({mine, MaxOf(peers), 1})
        Bar(value, own) == [value |-> value, percent |-> (value * Full) \div scale, highlight |-> own]
    IN  <<Bar(mine, TRUE), Bar(MedianOf(peers), FALSE), Bar(MaxOf(peers), FALSE)>>

PeerBars(all, sv) ==
    LET peers == PeersOf(all, sv)
        Callers(p) == Len(CallersOf(all, p))
        volumes == [i \in DOMAIN peers |-> peers[i].success]
        counts  == [i \in DOMAIN peers |-> Callers(peers[i])]
    IN  IF peers = <<>> THEN <<>>
        ELSE <<PeerTrio(sv.success, volumes)>>
             \o (IF sv.calls # "" THEN <<>> ELSE <<PeerTrio(Callers(sv), counts)>>)

(* What a requestor's errors divide into; nothing for an issuer. *)
RequestorDetail(all, sv) ==
    IF sv.calls = "" THEN <<>>
    ELSE <<[calls |-> sv.total, publisher |-> PublisherOf(all, sv),
            own |-> sv.ownErrors, theirs |-> Complement(sv.ownErrors)]>>
=============================================================================
