----------------------------- MODULE PageProofs -----------------------------
(***************************************************************************)
(* Proofs about the page, for every configuration, estate and reader.      *)
(***************************************************************************)
EXTENDS PageProperties, Induction, FiniteSetTheorems

-----------------------------------------------------------------------------
(* Lists *)

(* What has members has a first. *)
LEMMA MinIsMember ==
    ASSUME NEW S, S \subseteq Nat, S # {}
    PROVE  Min(S) \in S /\ \A m \in S : Min(S) <= m
  BY HasLeast DEF Min

(* A recursive function is one only if some function satisfies its equation, *)
(* so one is built for every prefix.                                        *)
KeptBy(f, list, places) ==
    /\ f[0] = <<>>
    /\ \A k \in 1 .. Len(list) :
          f[k] = IF k \in places THEN Append(f[k - 1], list[k]) ELSE f[k - 1]
    /\ Kept(list, places) = f[Len(list)]

LEMMA KeptSteps ==
    ASSUME NEW list, Len(list) \in Nat, NEW places
    PROVE  \E f : KeptBy(f, list, places)
<1> DEFINE top == Len(list)
           Rest(f, k) == IF k = 0 THEN <<>>
                         ELSE IF k \in places THEN Append(f[k - 1], list[k]) ELSE f[k - 1]
           Reached == {m \in 0 .. top : \E f : f = [k \in 0 .. m |-> Rest(f, k)]}
           upto == CHOOSE f : f = [k \in 0 .. top |-> Rest(f, k)]
<1>1. 0 \in Reached
  <2> DEFINE u == [k \in 0 .. 0 |-> <<>>]
  <2>1. u = [k \in 0 .. 0 |-> Rest(u, k)]
    OBVIOUS
  <2> HIDE DEF u, Rest
  <2> QED BY <2>1
<1>2. ASSUME NEW m \in 0 .. (top - 1), m \in Reached PROVE m + 1 \in Reached
  <2>1. PICK f : f = [k \in 0 .. m |-> Rest(f, k)]
    BY <1>2
  <2> DEFINE u == [k \in 0 .. (m + 1) |-> IF k = m + 1 THEN Rest(f, m + 1) ELSE f[k]]
  <2>2. ASSUME NEW k \in 0 .. (m + 1) PROVE u[k] = Rest(u, k)
    <3>1. CASE k = m + 1
      <4>1. u[k - 1] = f[m] /\ u[k] = Rest(f, k) /\ k - 1 = m /\ k # 0
        BY <3>1
      <4> HIDE DEF u
      <4> QED BY <4>1
    <3>2. CASE k \in 0 .. m
      <4>1. u[k] = f[k] /\ (k # 0 => u[k - 1] = f[k - 1])
        BY <3>2
      <4>2. f[k] = Rest(f, k)
        BY <2>1, <3>2
      <4> HIDE DEF u
      <4> QED BY <4>1, <4>2
    <3> QED BY <3>1, <3>2
  <2>3. u = [k \in 0 .. (m + 1) |-> Rest(u, k)]
    BY <2>2
  <2> HIDE DEF u, Rest
  <2> QED BY <2>3
<1>3. top \in Reached
  <2> HIDE DEF Reached, top
  <2>1. top \in Nat
    BY DEF top
  <2>2. \A k \in 0 .. top : k \in Reached
    BY <1>1, <1>2, <2>1, UpTo
  <2> QED BY <2>1, <2>2
<1>4. upto = [k \in 0 .. top |-> Rest(upto, k)]
  BY <1>3
<1>5. Kept(list, places) = upto[top]
  BY DEF Kept
<1> HIDE DEF upto
<1>6. \A k \in 0 .. top : upto[k] = Rest(upto, k)
  <2> HIDE DEF Rest
  <2> QED BY <1>4
<1>7. upto[0] = <<>> /\ \A k \in 1 .. top : upto[k] = Rest(upto, k)
  <2> DEFINE g == upto
  <2>1. 0 \in 0 .. top /\ \A k \in 1 .. top : k \in 0 .. top /\ k # 0
    OBVIOUS
  <2> QED BY <1>6, <2>1
<1> QED BY <1>5, <1>7 DEF KeptBy

(* What is kept is what was at the places, in number and in kind, and the    *)
(* list itself when the places are all of its own.                          *)
LEMMA KeptSound ==
    ASSUME NEW S, NEW list \in Seq(S), NEW places
    PROVE  /\ Kept(list, places) \in Seq(S)
           /\ Range(Kept(list, places)) = {list[k] : k \in DOMAIN list \cap places}
           /\ Len(Kept(list, places)) = Cardinality(DOMAIN list \cap places)
           /\ DOMAIN list \subseteq places => Kept(list, places) = list
<1>1. Len(list) \in Nat /\ DOMAIN list = 1 .. Len(list) /\ \A k \in 1 .. Len(list) : list[k] \in S
  OBVIOUS
<1>0. PICK f : KeptBy(f, list, places)
  BY <1>1, KeptSteps
<1>2. /\ f[0] = <<>>
      /\ \A k \in 1 .. Len(list) :
            f[k] = IF k \in places THEN Append(f[k - 1], list[k]) ELSE f[k - 1]
      /\ Kept(list, places) = f[Len(list)]
  BY <1>0, Zenon DEF KeptBy
<1> DEFINE Places(k) == (1 .. k) \cap places
           Good == {k \in 0 .. Len(list) :
                      /\ f[k] \in Seq(S)
                      /\ Range(f[k]) = {list[i] : i \in Places(k)}
                      /\ IsFiniteSet(Places(k)) /\ Len(f[k]) = Cardinality(Places(k))
                      /\ 1 .. k \subseteq places => Len(f[k]) = k /\ \A i \in 1 .. k : f[k][i] = list[i]}
<1>3. 0 \in Good
  <2>1. Places(0) = {} /\ 1 .. 0 = {}
    OBVIOUS
  <2>2. f[0] \in Seq(S) /\ Range(f[0]) = {} /\ Len(f[0]) = 0
    BY <1>2 DEF Range
  <2>3. IsFiniteSet(Places(0)) /\ Cardinality(Places(0)) = 0
    BY <2>1, FS_EmptySet, Zenon
  <2>4. {list[i] : i \in Places(0)} = {}
    BY <2>1
  <2> HIDE DEF Places
  <2> QED BY <1>1, <2>1, <2>2, <2>3, <2>4
<1>4. ASSUME NEW k \in 0 .. (Len(list) - 1), k \in Good PROVE k + 1 \in Good
  <2>0. k + 1 \in 1 .. Len(list) /\ (k + 1) - 1 = k /\ k \in Nat
    BY <1>1
  <2>1. CASE k + 1 \in places
    <3>1. f[k + 1] = Append(f[k], list[k + 1])
      BY <1>2, <2>0, <2>1
    <3>2. Places(k + 1) = Places(k) \cup {k + 1} /\ k + 1 \notin Places(k)
      BY <2>0, <2>1
    <3>3. f[k] \in Seq(S) /\ list[k + 1] \in S
      BY <1>1, <1>4, <2>0
    <3>4. f[k + 1] \in Seq(S) /\ Len(f[k + 1]) = Len(f[k]) + 1
          /\ DOMAIN f[k + 1] = DOMAIN f[k] \cup {Len(f[k]) + 1}
          /\ (\A i \in DOMAIN f[k] : f[k + 1][i] = f[k][i]) /\ f[k + 1][Len(f[k]) + 1] = list[k + 1]
      BY <3>1, <3>3
    <3>5. Range(f[k + 1]) = Range(f[k]) \cup {list[k + 1]}
      BY <3>4 DEF Range
    <3>6. Range(f[k + 1]) = {list[i] : i \in Places(k + 1)}
      <4>1. Range(f[k]) = {list[i] : i \in Places(k)}
        BY <1>4
      <4> HIDE DEF Places
      <4> QED BY <3>2, <3>5, <4>1
    <3>7. IsFiniteSet(Places(k + 1)) /\ Cardinality(Places(k + 1)) = Len(f[k]) + 1
      <4>1. IsFiniteSet(Places(k)) /\ Len(f[k]) = Cardinality(Places(k))
        BY <1>4
      <4> HIDE DEF Places
      <4> QED BY <3>2, <4>1, FS_AddElement
    <3>8. ASSUME 1 .. (k + 1) \subseteq places
          PROVE  Len(f[k + 1]) = k + 1 /\ \A i \in 1 .. (k + 1) : f[k + 1][i] = list[i]
      <4>1. 1 .. k \subseteq places
        BY <2>0, <3>8
      <4>2. Len(f[k]) = k /\ \A i \in 1 .. k : f[k][i] = list[i]
        BY <1>4, <4>1
      <4>3. DOMAIN f[k] = 1 .. k
        BY <3>3, <4>2
      <4> QED BY <2>0, <3>4, <4>2, <4>3
    <3> QED BY <2>0, <3>4, <3>6, <3>7, <3>8
  <2>2. CASE k + 1 \notin places
    <3>1. f[k + 1] = f[k]
      BY <1>2, <2>0, <2>2
    <3>2. Places(k + 1) = Places(k)
      BY <2>0, <2>2
    <3>3. ~ (1 .. (k + 1) \subseteq places)
      BY <2>0, <2>2
    <3> HIDE DEF Places
    <3> QED BY <1>4, <2>0, <3>1, <3>2, <3>3
  <2> QED BY <2>1, <2>2
<1>5. Len(list) \in Good
  <2> HIDE DEF Good
  <2>1. \A k \in 0 .. Len(list) : k \in Good
    BY <1>1, <1>3, <1>4, UpTo
  <2> QED BY <1>1, <2>1
<1>6. DOMAIN list \cap places = Places(Len(list))
  BY <1>1
<1>7. DOMAIN list \subseteq places => Kept(list, places) = list
  <2> SUFFICES ASSUME DOMAIN list \subseteq places PROVE Kept(list, places) = list
    OBVIOUS
  <2>1. f[Len(list)] \in Seq(S) /\ Len(f[Len(list)]) = Len(list)
        /\ \A i \in 1 .. Len(list) : f[Len(list)][i] = list[i]
    BY <1>1, <1>5
  <2> QED BY <1>1, <1>2, <2>1
<1> HIDE DEF Places
<1> QED BY <1>2, <1>5, <1>6, <1>7

(* Whatever is laid over a list, only what was on either of them is on it. *)
LEMMA OverlaidSteps ==
    ASSUME NEW existing, NEW incoming, Len(incoming) \in Nat
    PROVE  LET laid == Overlaid(existing, incoming)
           IN  laid[0] = existing /\ \A k \in 1 .. Len(incoming) : laid[k] = Laid(laid[k - 1], incoming[k])
<1> DEFINE top == Len(incoming)
           Rest(f, k) == IF k = 0 THEN existing ELSE Laid(f[k - 1], incoming[k])
           Reached == {m \in 0 .. top : \E f : f = [k \in 0 .. m |-> Rest(f, k)]}
           laid == Overlaid(existing, incoming)
<1>1. 0 \in Reached
  <2> DEFINE u == [k \in 0 .. 0 |-> existing]
  <2>1. u = [k \in 0 .. 0 |-> Rest(u, k)]
    OBVIOUS
  <2> HIDE DEF u, Rest
  <2> QED BY <2>1
<1>2. ASSUME NEW m \in 0 .. (top - 1), m \in Reached PROVE m + 1 \in Reached
  <2>1. PICK f : f = [k \in 0 .. m |-> Rest(f, k)]
    BY <1>2
  <2> DEFINE u == [k \in 0 .. (m + 1) |-> IF k = m + 1 THEN Rest(f, m + 1) ELSE f[k]]
  <2>2. ASSUME NEW k \in 0 .. (m + 1) PROVE u[k] = Rest(u, k)
    <3>1. CASE k = m + 1
      <4>1. u[k - 1] = f[m] /\ u[k] = Rest(f, k) /\ k - 1 = m /\ k # 0
        BY <3>1
      <4> HIDE DEF u
      <4> QED BY <4>1
    <3>2. CASE k \in 0 .. m
      <4>1. u[k] = f[k] /\ (k # 0 => u[k - 1] = f[k - 1])
        BY <3>2
      <4>2. f[k] = Rest(f, k)
        BY <2>1, <3>2
      <4> HIDE DEF u
      <4> QED BY <4>1, <4>2
    <3> QED BY <3>1, <3>2
  <2>3. u = [k \in 0 .. (m + 1) |-> Rest(u, k)]
    BY <2>2
  <2> HIDE DEF u, Rest
  <2> QED BY <2>3
<1>3. top \in Reached
  <2> HIDE DEF Reached, top
  <2>1. top \in Nat
    BY DEF top
  <2>2. \A k \in 0 .. top : k \in Reached
    BY <1>1, <1>2, <2>1, UpTo
  <2> QED BY <2>1, <2>2
<1>4. laid = [k \in 0 .. top |-> Rest(laid, k)]
  BY <1>3 DEF Overlaid
<1> HIDE DEF laid
<1>5. \A k \in 0 .. top : laid[k] = Rest(laid, k)
  <2> HIDE DEF Rest
  <2> QED BY <1>4
<1>6. 0 \in 0 .. top /\ \A k \in 1 .. top : k \in 0 .. top /\ k # 0
  OBVIOUS
<1>7. laid[0] = existing /\ \A k \in 1 .. top : laid[k] = Laid(laid[k - 1], incoming[k])
  BY <1>5, <1>6
<1> QED BY <1>7 DEF laid

LEMMA LaidSound ==
    ASSUME NEW S, NEW list \in Seq(S), NEW x \in S
    PROVE  Laid(list, x) \in Seq(S)
<1>1. ASSUME NEW i PROVE [list EXCEPT ![i] = x] \in Seq(S)
  <2>1. Len(list) \in Nat /\ list \in [1 .. Len(list) -> S]
    OBVIOUS
  <2>2. [list EXCEPT ![i] = x] \in [1 .. Len(list) -> S]
    BY <2>1
  <2> QED BY <2>1, <2>2
<1>2. Append(list, x) \in Seq(S)
  OBVIOUS
<1> QED BY <1>1, <1>2, Zenon DEF Laid

LEMMA MergeSound ==
    ASSUME NEW S, NEW existing \in Seq(S), NEW incoming \in Seq(S), NEW mode
    PROVE  Merge(mode, existing, incoming) \in Seq(S)
<1>1. CASE mode = "REPLACE"
  BY <1>1 DEF Merge
<1>2. CASE mode # "REPLACE"
  <2> DEFINE laid == Overlaid(existing, incoming)
             Good == {k \in 0 .. Len(incoming) : laid[k] \in Seq(S)}
  <2>1. /\ Len(incoming) \in Nat /\ \A k \in 1 .. Len(incoming) : incoming[k] \in S
        /\ laid[0] = existing /\ \A k \in 1 .. Len(incoming) : laid[k] = Laid(laid[k - 1], incoming[k])
    BY OverlaidSteps
  <2> HIDE DEF laid
  <2>2. 0 \in Good
    BY <2>1
  <2>3. ASSUME NEW k \in 0 .. (Len(incoming) - 1), k \in Good PROVE k + 1 \in Good
    <3>1. k + 1 \in 1 .. Len(incoming) /\ (k + 1) - 1 = k
      BY <2>1
    <3>2. laid[k] \in Seq(S) /\ laid[k + 1] = Laid(laid[k], incoming[k + 1]) /\ incoming[k + 1] \in S
      BY <2>1, <2>3, <3>1
    <3>3. k + 1 \in 0 .. Len(incoming)
      BY <2>1
    <3>4. laid[k + 1] \in Seq(S)
      BY <3>2, LaidSound
    <3> QED BY <3>3, <3>4
  <2>4. Len(incoming) \in Good
    <3> HIDE DEF Good
    <3>1. \A k \in 0 .. Len(incoming) : k \in Good
      BY <2>1, <2>2, <2>3, UpTo
    <3> QED BY <2>1, <3>1
  <2> QED BY <1>2, <2>4 DEF Merge, laid
<1> QED BY <1>1, <1>2

-----------------------------------------------------------------------------
(* In the default scope, where the region control is disabled, no region is *)
(* ever in effect, whatever the address says (readState, regionOr).         *)
THEOREM NoRegionInDefaultScope ==
    ASSUME NEW d, NEW service, NEW query, NEW theme
    PROVE  LET st == ReadState(d, service, query, theme)
           IN  st.scope = d.defaultScope => st.region = ""
  BY DEF ReadState, RegionOr

-----------------------------------------------------------------------------
(* Where controls lead *)

Fragments == {"body", "signals", "leaderboard", "drawer", "pane"}

(* What redraws the board or the findings alone leads to an address without *)
(* a drawer.                                                                *)
LeavesDrawer(target, at) == target \in {"signals", "leaderboard"} => at.service = ""

(* A control names its target and leads where it was told to. *)
LEMMA ControlFields ==
    ASSUME NEW name, NEW picks, NEW target, NEW at
    PROVE  Control(name, picks, target, at).target = target /\ Control(name, picks, target, at).at = at
  BY DEF Control

(* A link to a service names it, whatever else it changes. *)
LEMMA HrefService ==
    ASSUME NEW c, NEW service, NEW changed
    PROVE  Href(c, service, changed).service = service
  BY DEF Href, Link

LEMMA BarTargets ==
    ASSUME NEW c, NEW control \in BarControls(c)
    PROVE  control.target \in {"page", "body"}
<1>1. \E name, picks, at : control = Control(name, picks, "page", at) \/ control = Control(name, picks, "body", at)
  BY DEF BarControls
<1> QED  BY <1>1, ControlFields

LEMMA SignalTargets ==
    ASSUME NEW c, NEW control \in SignalControls(c)
    PROVE  control.target \in Fragments /\ LeavesDrawer(control.target, control.at)
<1>1. CASE \E t \in SignalTabs(c) : control = Control("signals", [signals |-> t.tab], "signals", t.href)
  <2>1. PICK t \in SignalTabs(c) : control = Control("signals", [signals |-> t.tab], "signals", t.href)
    BY <1>1
  <2>2. PICK tab : t = [tab |-> tab, active |-> c.state.signals = tab,
                        href |-> Href(c, "", [signals |-> <<tab>>])]
    BY <2>1 DEF SignalTabs
  <2>3. t.href = Href(c, "", [signals |-> <<tab>>])                  BY <2>2
  <2>4. control.target = "signals" /\ control.at = t.href           BY <2>1, ControlFields
  <2>5. Href(c, "", [signals |-> <<tab>>]).service = ""              BY HrefService
  <2>6. control.at.service = ""                                     BY <2>3, <2>4, <2>5
  <2> QED  BY <2>4, <2>6 DEF LeavesDrawer, Fragments
<1>2. CASE \E card \in Range(SignalCards(c)) :
              control = Control(IF card.action.target = "drawer" THEN "focus" ELSE "card", None,
                                card.action.target, card.action.href)
  <2>1. PICK card \in Range(SignalCards(c)) :
              control = Control(IF card.action.target = "drawer" THEN "focus" ELSE "card", None,
                                card.action.target, card.action.href)
    BY <1>2
  <2>2. PICK finding : card = SignalCard(c, finding)
    BY <2>1 DEF Range, SignalCards, CardsOf
  <2>3. card.action = SignalAction(c, finding)
    BY <2>2 DEF SignalCard
  <2>4. SignalAction(c, finding).target \in {"drawer", "body", "leaderboard"}
    BY DEF SignalAction
  <2>5. \E service, changed : SignalAction(c, finding).href = Href(c, service, changed)
                               /\ (SignalAction(c, finding).target = "leaderboard" => service = "")
    <3>1. CASE finding.focus.service # ""                              BY <3>1 DEF SignalAction
    <3>2. CASE finding.focus.service = "" /\ finding.filter.role # ""  BY <3>2 DEF SignalAction
    <3>3. CASE finding.focus.service = "" /\ finding.filter.role = ""  BY <3>3 DEF SignalAction
    <3> QED  BY <3>1, <3>2, <3>3
  <2>6. control.target = card.action.target /\ control.at = card.action.href
    BY <2>1, ControlFields
  <2>7. control.target = "leaderboard" => control.at.service = ""
    <3>1. PICK service, changed : /\ SignalAction(c, finding).href = Href(c, service, changed)
                                  /\ SignalAction(c, finding).target = "leaderboard" => service = ""
      BY <2>5
    <3>2. Href(c, service, changed).service = service  BY HrefService
    <3> QED  BY <2>3, <2>6, <3>1, <3>2
  <2> QED  BY <2>3, <2>4, <2>6, <2>7 DEF LeavesDrawer, Fragments
<1> QED  BY <1>1, <1>2 DEF SignalControls

LEMMA BoardTargets ==
    ASSUME NEW c, NEW control \in BoardControls(c)
    PROVE  control.target \in Fragments /\ LeavesDrawer(control.target, control.at)
<1>1. CASE \E fields : control = FilterControl(c, FilterBar(c), fields)
  <2>1. PICK fields : control = FilterControl(c, FilterBar(c), fields)  BY <1>1
  <2>2. control.target = "leaderboard" /\ control.at = FilterForm(c, FilterBar(c), fields)
    BY <2>1, ControlFields DEF FilterControl
  <2>3. FilterForm(c, FilterBar(c), fields).service = ""  BY DEF FilterForm, Link
  <2> QED  BY <2>2, <2>3 DEF LeavesDrawer, Fragments
<1>2. CASE \E picks : control = Control("clear", picks, "leaderboard", FilterBar(c).clearHref)
  <2>1. FilterBar(c).clearHref.service = ""  BY HrefService DEF FilterBar
  <2>2. control.target = "leaderboard" /\ control.at = FilterBar(c).clearHref  BY <1>2, ControlFields
  <2> QED  BY <2>1, <2>2 DEF LeavesDrawer, Fragments
<1>3. CASE \E col \in Range(Columns(c)) : control = Control("sort", [sort |-> col.key], "leaderboard", col.href)
  <2>1. PICK col \in Range(Columns(c)) : control = Control("sort", [sort |-> col.key], "leaderboard", col.href)
    BY <1>3
  <2>2. PICK key : col = Column(c, key)  BY DEF Range, Columns
  <2>3. col.href.service = ""            BY ZenonT(40), <2>2, HrefService DEF Column
  <2>4. control.target = "leaderboard" /\ control.at = col.href  BY <2>1, ControlFields
  <2> QED  BY <2>3, <2>4 DEF LeavesDrawer, Fragments
<1>4. CASE \E picks, at : control = Control("row", picks, "drawer", at)
  <2>1. control.target = "drawer"  BY <1>4, ControlFields
  <2> QED  BY <2>1 DEF LeavesDrawer, Fragments
<1>5. control \in FilterControls(c, FilterBar(c)) => (\E fields : control = FilterControl(c, FilterBar(c), fields))
                                                  \/ \E picks : control = Control("clear", picks, "leaderboard", FilterBar(c).clearHref)
  BY DEF FilterControls
<1> QED  BY <1>1, <1>2, <1>3, <1>4, <1>5 DEF BoardControls

LEMMA DrawerTargets ==
    ASSUME NEW c, NEW control \in DrawerControls(c)
    PROVE  control.target \in {"page", "pane"}
<1>1. \E name, picks, at : control = Control(name, picks, "page", at) \/ control = Control(name, picks, "pane", at)
  BY DEF DrawerControls
<1> QED  BY <1>1, ControlFields

(* A fragment that leaves the drawer alone is asked for only when no drawer *)
(* is open.                                                                 *)
LEMMA ControlTargets ==
    ASSUME NEW control \in Controls, control.target # "page", scripted
    PROVE  /\ control.target \in Fragments
           /\ control.target \in {"signals", "leaderboard"} => control.at.service = "" /\ ~DrawerOpen
<1>1. CASE control \in DrawerControls(ContextOf(shown["drawer"]))
  BY <1>1, DrawerTargets DEF Fragments
<1>2. CASE ~DrawerOpen /\ control \in BarControls(ContextOf(shown["page"]))
  BY <1>2, BarTargets DEF Fragments
<1>3. CASE ~DrawerOpen /\ control \in SignalControls(ContextOf(shown["signals"]))
  BY <1>3, SignalTargets DEF LeavesDrawer
<1>4. CASE ~DrawerOpen /\ control \in BoardControls(ContextOf(shown["leaderboard"]))
  BY <1>4, BoardTargets DEF LeavesDrawer
<1> QED  BY <1>1, <1>2, <1>3, <1>4 DEF Controls

-----------------------------------------------------------------------------
(* The address names the open drawer *)

Shaped == /\ DOMAIN shown = Regions
          /\ DOMAIN shown["drawer"] = {"at", "of", "theme"}
          /\ DOMAIN shown["drawer"].at = {"service", "params"}

(* While nothing has overlapped, at most one fragment is under way, its      *)
(* element is still there, and one that leaves the drawer alone finds none. *)
OneAtATime ==
    /\ \A r, other \in inflight : r = other
    /\ \A r \in inflight :
          /\ r.attached /\ r.target \in Fragments
          /\ r.target \in {"signals", "leaderboard"} => r.at.service = "" /\ ~DrawerOpen

DrawerNamed == shown["drawer"].at.service = address.service

Tidy == Shaped /\ (~overlapped => OneAtATime /\ DrawerNamed)

LEMMA RenderingShape ==
    ASSUME NEW request, NEW service
    PROVE  LET r == Rendering(request, service)
           IN  DOMAIN r = {"at", "of", "theme"} /\ DOMAIN r.at = {"service", "params"} /\ r.at.service = service
  BY DEF Rendering

(* Loading a page leaves nothing behind. *)
LEMMA LoadTidies ==
    ASSUME NEW request, Load(request)
    PROVE  Tidy'
<1>1. shown'["drawer"] = Rendering(Landing(request), Landing(request).service) /\ DOMAIN shown' = Regions
  BY DEF Load, Regions
<1>2. Shaped'       BY <1>1, RenderingShape DEF Shaped
<1>3. OneAtATime'   BY DEF OneAtATime, Load
<1>4. DrawerNamed'  BY <1>1, RenderingShape DEF DrawerNamed, Load
<1> QED  BY <1>2, <1>3, <1>4 DEF Tidy

LEMMA InitTidy == Init => Tidy
<1> SUFFICES ASSUME Init PROVE Tidy  OBVIOUS
<1>1. PICK b \in Bookmarks : /\ address = Landing(b)
                             /\ shown = [region \in Regions |-> Rendering(Landing(b), Landing(b).service)]
  BY DEF Init
<1>2. shown["drawer"] = Rendering(Landing(b), Landing(b).service) /\ DOMAIN shown = Regions
  BY <1>1 DEF Regions
<1>3. Shaped       BY <1>2, RenderingShape DEF Shaped
<1>4. OneAtATime   BY DEF OneAtATime, Init
<1>5. DrawerNamed  BY <1>1, <1>2, RenderingShape DEF DrawerNamed
<1> QED  BY <1>3, <1>4, <1>5 DEF Tidy

(* An answer that nothing overtook brings the address and the drawer along.  *)
LEMMA AnswerTidy == Tidy /\ Answer => Tidy'
<1> SUFFICES ASSUME Tidy, Answer PROVE Tidy'  OBVIOUS
<1>1. PICK r \in inflight :
         LET c == Build(Domain, served[Latest].services, r.at, cookie)
             rest == inflight \ {r}
             draws == Found(c, r.at) /\ r.attached
         IN  /\ address' = IF ~Found(c, r.at) THEN address
                           ELSE IF r.target = "body" THEN r.at
                           ELSE PushUrl(c, r.at.service)
             /\ shown' = IF draws
                         THEN [region \in Regions |->
                                 IF region \in Redrawn(r.target)
                                 THEN Rendering(r.at, r.at.service) ELSE shown[region]]
                         ELSE shown
             /\ inflight' = IF draws THEN Detached(rest, Replaces(r.target)) ELSE rest
             /\ UNCHANGED overlapped
  BY DEF Answer
<1> DEFINE c == Build(Domain, served[Latest].services, r.at, cookie)
<1>2. PushUrl(c, r.at.service).service = r.at.service  BY DEF PushUrl, Link
<1>3. Shaped'
  <2>1. CASE shown' = shown  BY <2>1 DEF Tidy, Shaped
  <2>2. CASE shown' = [region \in Regions |-> IF region \in Redrawn(r.target)
                                              THEN Rendering(r.at, r.at.service) ELSE shown[region]]
    <3>1. DOMAIN shown' = Regions  BY <2>2
    <3>2. shown'["drawer"] = IF "drawer" \in Redrawn(r.target)
                             THEN Rendering(r.at, r.at.service) ELSE shown["drawer"]
      BY <2>2 DEF Regions
    <3> QED  BY <3>1, <3>2, RenderingShape DEF Tidy, Shaped
  <2> QED  BY <1>1, <2>1, <2>2
<1>4. ASSUME ~overlapped PROVE OneAtATime' /\ DrawerNamed'
  <2>1. inflight \ {r} = {} /\ r.attached /\ r.target \in Fragments  BY <1>4 DEF Tidy, OneAtATime
  <2>2. inflight' = {}  BY <1>1, <2>1 DEF Detached
  <2>3. DrawerNamed'
    <3>1. CASE ~Found(c, r.at)  BY <1>1, <1>4, <3>1 DEF Tidy, DrawerNamed
    <3>2. CASE Found(c, r.at)
      <4>1. shown'["drawer"] = IF "drawer" \in Redrawn(r.target)
                               THEN Rendering(r.at, r.at.service) ELSE shown["drawer"]
        BY <1>1, <2>1, <3>2 DEF Regions
      <4>2. address'.service = r.at.service  BY <1>1, <1>2, <3>2
      <4>3. CASE "drawer" \in Redrawn(r.target)
        BY <4>1, <4>2, <4>3, RenderingShape DEF DrawerNamed
      <4>4. CASE "drawer" \notin Redrawn(r.target)
        <5>1. r.target \in {"signals", "leaderboard"}
          BY <2>1, <4>4 DEF Redrawn, Fragments, Regions
        <5>2. r.at.service = "" /\ shown["drawer"].at.service = ""
          BY <1>4, <5>1 DEF Tidy, OneAtATime, DrawerOpen
        <5> QED  BY <4>1, <4>2, <4>4, <5>2 DEF DrawerNamed
      <4> QED  BY <4>3, <4>4
    <3> QED  BY <3>1, <3>2
  <2> QED  BY <2>2, <2>3 DEF OneAtATime
<1> QED  BY <1>1, <1>3, <1>4 DEF Tidy

LEMMA StepTidy == Tidy /\ [Next]_vars => Tidy'
<1> SUFFICES ASSUME Tidy, [Next]_vars PROVE Tidy'  OBVIOUS
<1>1. CASE Poll
  BY <1>1 DEF Poll, Tidy, Shaped, OneAtATime, DrawerNamed, DrawerOpen
<1>2. CASE Push
  BY <1>2 DEF Push, Tidy, Shaped, OneAtATime, DrawerNamed, DrawerOpen
<1>3. CASE Follow
  <2>1. PICK control \in Controls : Load(control.at)  BY <1>3 DEF Follow
  <2> QED  BY <2>1, LoadTidies
<1>4. CASE Ask
  <2>1. PICK control \in Controls :
           /\ control.target # "page"
           /\ inflight' = inflight \cup {[target |-> control.target, at |-> control.at, attached |-> TRUE]}
    BY <1>4 DEF Ask
  <2>2. Shaped' /\ (DrawerNamed <=> DrawerNamed')  BY <1>4 DEF Ask, Tidy, Shaped, DrawerNamed
  <2>3. ASSUME ~overlapped' PROVE OneAtATime' /\ DrawerNamed'
    <3>1. ~overlapped /\ inflight = {} /\ scripted  BY <1>4, <2>3 DEF Ask
    <3>2. control.target \in Fragments
          /\ (control.target \in {"signals", "leaderboard"} => control.at.service = "" /\ ~DrawerOpen)
      BY <2>1, <3>1, ControlTargets
    <3>3. DrawerOpen' <=> DrawerOpen  BY <1>4 DEF Ask, DrawerOpen
    <3>4. PICK asked : asked = [target |-> control.target, at |-> control.at, attached |-> TRUE]
      OBVIOUS
    <3>5. inflight' = {asked}                                                BY <2>1, <3>1, <3>4
    <3>6. asked.target = control.target /\ asked.at = control.at /\ asked.attached  BY <3>4
    <3>7. OneAtATime'                                                        BY <3>2, <3>3, <3>5, <3>6 DEF OneAtATime
    <3> QED  BY <2>2, <3>1, <3>7 DEF Tidy
  <2> QED  BY <2>2, <2>3 DEF Tidy
<1>5. CASE Answer  BY <1>5, AnswerTidy
<1>6. CASE ToggleTheme
  <2>1. shown'["drawer"] = shown["drawer"] /\ DOMAIN shown' = DOMAIN shown
    BY <1>6 DEF ToggleTheme, Tidy, Shaped, Regions
  <2> QED  BY <1>6, <2>1 DEF ToggleTheme, Tidy, Shaped, OneAtATime, DrawerNamed, DrawerOpen
<1>7. CASE CloseDrawer
  <2>1. /\ DOMAIN shown' = DOMAIN shown
        /\ DOMAIN shown'["drawer"] = DOMAIN shown["drawer"]
        /\ DOMAIN shown'["drawer"].at = DOMAIN shown["drawer"].at
        /\ shown'["drawer"].at.service = ""
    BY <1>7 DEF CloseDrawer, Tidy, Shaped, Regions
  <2>2. Shaped'  BY <2>1 DEF Tidy, Shaped
  <2>3. DrawerNamed'  BY <1>7, <2>1 DEF CloseDrawer, Closed, DrawerNamed
  <2>4. ~overlapped' => inflight' = {}  BY <1>7 DEF CloseDrawer, Detached
  <2> QED  BY <2>2, <2>3, <2>4 DEF Tidy, OneAtATime
<1>8. CASE Reload
  BY <1>8, LoadTidies DEF Reload
<1>9. CASE UNCHANGED vars
  BY <1>9 DEF vars, Tidy, Shaped, OneAtATime, DrawerNamed, DrawerOpen
<1> QED  BY <1>1, <1>2, <1>3, <1>4, <1>5, <1>6, <1>7, <1>8, <1>9 DEF Next

(* Unless the reader went on before an answer came, the address names the   *)
(* drawer that is open and only then one, for every configuration, estate,  *)
(* bookmark and number of clicks (handlers.go, pushURL; app.js, the drawer). *)
THEOREM AddressNamesDrawer == Spec => []DrawerMatchesAddress
<1>1. Tidy => DrawerMatchesAddress  BY DEF Tidy, DrawerMatchesAddress, Quiet, DrawerNamed
<1> QED  BY InitTidy, StepTidy, <1>1, PTL DEF Spec

-----------------------------------------------------------------------------
(* Silence is not an outage *)

(* What validation says of the thresholds. *)
LEMMA AcceptedThresholds ==
    ASSUME NEW c, Problems(c) = {}
    PROVE  c.domain.thresholds.partialErrors <= c.domain.thresholds.majorErrors
<1>1. StatusProblems(c.domain) = {}  BY DEF Problems, DomainProblems
<1> QED  BY <1>1 DEF StatusProblems, Unless

(* The first rule that holds is one that holds, and neither rule of an      *)
(* outage holds of a silent service within the bounds of errors.            *)
LEMMA SilentVerdict ==
    ASSUME NEW d, NEW sv, d.evaluationOrder \in Seq(STRING),
           d.thresholds.partialErrors \in Int, d.thresholds.majorErrors \in Int, sv.errorRate \in Int,
           d.thresholds.partialErrors <= d.thresholds.majorErrors,
           ~sv.availability.valid, sv.errorRate <= d.thresholds.partialErrors
    PROVE  Evaluate(sv, d) \notin {"major", "partial"}
<1> DEFINE holds == {i \in DOMAIN d.evaluationOrder : Matches(d.evaluationOrder[i], sv, d.thresholds)}
           rule  == d.evaluationOrder[Min(holds)]
<1>1. CASE holds = {}
  BY <1>1 DEF Evaluate
<1>2. CASE holds # {}
  <2>1. Min(holds) \in holds
    <3>1. DOMAIN d.evaluationOrder \subseteq Nat  OBVIOUS
    <3> QED  BY <3>1, <1>2, MinIsMember
  <2>2. Matches(rule, sv, d.thresholds)  BY <2>1
  <2>3. ~ (sv.errorRate > d.thresholds.majorErrors) /\ ~ (sv.errorRate > d.thresholds.partialErrors)
    OBVIOUS
  <2>4. \A limit : ~BelowTarget(sv.availability, limit)  BY Zenon DEF BelowTarget
  <2>5. rule # "major"
    <3> SUFFICES ASSUME Matches("major", sv, d.thresholds) PROVE FALSE  BY <2>2
    <3> QED  BY <2>3, <2>4, Zenon DEF Matches
  <2>6. rule # "partial"
    <3> SUFFICES ASSUME Matches("partial", sv, d.thresholds) PROVE FALSE  BY <2>2
    <3> QED  BY <2>3, <2>4, Zenon DEF Matches
  <2> QED  BY <1>2, <2>5, <2>6 DEF Evaluate
<1> QED  BY <1>1, <1>2

(* Services of one snapshot, as in the property. *)
Silent(services, d) ==
    \A sv \in Range(services) :
       ~sv.availability.valid /\ sv.errorRate <= d.thresholds.partialErrors
         => sv.status \notin {"major", "partial"}

LEMMA FinaliseSilent ==
    ASSUME NEW c \in Configs, Problems(c) = {},
           NEW services, IsList(services), \A sv \in Range(services) : Handed(sv)
    PROVE  IsList(Finalise(services, c.domain)) /\ Silent(Finalise(services, c.domain), c.domain)
<1> DEFINE d == c.domain
<1>0. IsList(Finalise(services, d))
  <2>1. DOMAIN Finalise(services, d) = 1 .. Len(services) /\ Len(services) \in Nat
    BY DEF Finalise, IsList
  <2>2. Finalise(services, d) = [i \in 1 .. Len(services) |-> Finalise(services, d)[i]]
    BY <2>1 DEF Finalise
  <2>3. \A i \in 1 .. Len(services) : Finalise(services, d)[i] \in Range(Finalise(services, d))
    BY <2>1 DEF Range
  <2> QED BY <2>1, <2>2, <2>3 DEF IsList
<1> SUFFICES ASSUME NEW i \in DOMAIN services,
                    LET sv == Finalise(services, d)[i]
                    IN  ~sv.availability.valid /\ sv.errorRate <= d.thresholds.partialErrors
             PROVE  Finalise(services, d)[i].status \notin {"major", "partial"}
  BY <1>0 DEF Silent, Range, Finalise
<1>1. Handed(services[i])  BY DEF Range
<1>2. /\ Finalise(services, d)[i].status = Evaluate(services[i], d)
      /\ Finalise(services, d)[i].availability = services[i].availability
      /\ Finalise(services, d)[i].errorRate = services[i].errorRate
  BY <1>1 DEF Finalise, Handed
<1>3. d.thresholds.partialErrors <= d.thresholds.majorErrors  BY AcceptedThresholds
<1> QED  BY <1>1, <1>2, <1>3, SilentVerdict, ReportsAssumption DEF Handed

(* Every snapshot was finalised by the rules of an accepted configuration.   *)
RuleAbiding ==
    /\ config \in Configs /\ Problems(config) = {}
    /\ served \in Seq(Range(served)) /\ served # <<>>
    /\ \A i \in DOMAIN served : IsList(served[i].services) /\ Silent(served[i].services, Domain)

LEMMA PolledSilent ==
    ASSUME NEW c \in Configs, Problems(c) = {}, NEW doc \in Documents
    PROVE  LET services == Finalise(Services(c.mapping, doc, Label), c.domain)
           IN  IsList(services) /\ Silent(services, c.domain)
<1> DEFINE records == Records(c.mapping, doc)
           named   == Kept(records, {i \in DOMAIN records : Text(Read(c.mapping, records[i], "id")) # ""})
<1>1. records \in Seq(Range(records))
  BY ReportsAssumption DEF IsList
<1>2. named \in Seq(Range(records))
  <2> HIDE DEF records
  <2> QED BY <1>1, KeptSound
<1>3. Services(c.mapping, doc, Label) = [i \in DOMAIN named |-> ServiceOf(c.mapping, named[i], Label)]
  BY DEF Services
<1> HIDE DEF named
<1>4. IsList(Services(c.mapping, doc, Label))
  <2>1. DOMAIN named = 1 .. Len(named) /\ Len(named) \in Nat
    BY <1>2
  <2> QED BY <1>3, <2>1 DEF IsList, Range
<1> QED BY <1>4, FinaliseSilent, ReportsAssumption

LEMMA PushedSilent ==
    ASSUME NEW c \in Configs, Problems(c) = {}, NEW batch \in Batches
    PROVE  LET services == Finalise(Accepted(c.domain, batch.services), c.domain)
           IN  IsList(services) /\ Silent(services, c.domain)
<1> DEFINE sent == [i \in DOMAIN batch.services |-> IngestServiceToModel(batch.services[i])]
           valid == {i \in DOMAIN batch.services : Valid(c.domain, sent[i])}
<1>1. sent \in Seq(Range(sent))
  <2>1. DOMAIN batch.services = 1 .. Len(batch.services) /\ Len(batch.services) \in Nat
    BY ReportsAssumption DEF IsList
  <2> QED BY <2>1 DEF Range
<1>2. Accepted(c.domain, batch.services) = Kept(sent, valid)
  BY DEF Accepted
<1> HIDE DEF sent, valid
<1>3. IsList(Accepted(c.domain, batch.services))
  <2>1. Kept(sent, valid) \in Seq(Range(sent))
    BY <1>1, KeptSound
  <2> HIDE DEF sent
  <2> QED BY <1>2, <2>1 DEF IsList, Range
<1> QED BY <1>3, FinaliseSilent, ReportsAssumption

(* Laying a list over another leaves no one else on it. *)
LEMMA MergedSilent ==
    ASSUME NEW d, NEW existing, NEW incoming, NEW mode, IsList(existing), IsList(incoming),
           Silent(existing, d), Silent(incoming, d)
    PROVE  IsList(Merge(mode, existing, incoming)) /\ Silent(Merge(mode, existing, incoming), d)
<1> DEFINE S == Range(existing) \cup Range(incoming)
           merged == Merge(mode, existing, incoming)
<1>1. existing \in Seq(S) /\ incoming \in Seq(S)
  BY DEF IsList
<1>2. merged \in Seq(S)
  <2> HIDE DEF S
  <2> QED BY <1>1, MergeSound
<1> HIDE DEF merged
<1>3. Range(merged) \subseteq S /\ IsList(merged)
  BY <1>2 DEF IsList, Range
<1> QED BY <1>3 DEF Silent, merged

LEMMA InitAbides == Init => RuleAbiding
<1> SUFFICES ASSUME Init PROVE RuleAbiding  OBVIOUS
<1>1. config \in Configs /\ Problems(config) = {}  BY DEF Init
<1>2. PICK doc \in Documents : served = <<Arrived(Services(config.mapping, doc, Label), <<doc>>)>>
  BY DEF Init
<1>3. IsList(served[1].services) /\ Silent(served[1].services, Domain)
  BY <1>1, <1>2, PolledSilent DEF Arrived, Domain
<1>4. DOMAIN served = {1} /\ served \in Seq(Range(served)) /\ served # <<>>  BY <1>2 DEF Range
<1> QED  BY <1>1, <1>3, <1>4 DEF RuleAbiding

(* One snapshot more. *)
LEMMA AppendAbides ==
    ASSUME RuleAbiding, NEW snapshot, IsList(snapshot.services), Silent(snapshot.services, Domain),
           served' = Append(served, snapshot), UNCHANGED config
    PROVE  RuleAbiding'
<1>1. Domain' = Domain  BY DEF Domain
<1>2. served \in Seq(Range(served))  BY DEF RuleAbiding
<1>3. /\ DOMAIN served' = DOMAIN served \cup {Len(served) + 1}
      /\ served'[Len(served) + 1] = snapshot
      /\ \A i \in DOMAIN served : served'[i] = served[i]
      /\ DOMAIN served' = 1 .. (Len(served) + 1)
      /\ Len(served) \in Nat
  BY <1>2
<1>4. served' \in Seq(Range(served) \cup {snapshot}) /\ served' # <<>>
  <2>1. served \in Seq(Range(served) \cup {snapshot})  BY <1>2
  <2> QED  BY <1>3, <2>1
<1>5. Range(served') = Range(served) \cup {snapshot}
  BY <1>3 DEF Range
<1>6. \A i \in DOMAIN served' : IsList(served'[i].services) /\ Silent(served'[i].services, Domain)
  BY <1>3 DEF RuleAbiding
<1> QED  BY <1>1, <1>4, <1>5, <1>6 DEF RuleAbiding

LEMMA StepAbides == RuleAbiding /\ [Next]_vars => RuleAbiding'
<1> SUFFICES ASSUME RuleAbiding, [Next]_vars PROVE RuleAbiding'  OBVIOUS
<1>0. config \in Configs /\ Problems(config) = {}  BY DEF RuleAbiding
<1>1. CASE Poll
  <2>1. PICK doc \in Documents :
           served' = Append(served, Arrived(Services(config.mapping, doc, Label), <<doc>>))
    BY <1>1 DEF Poll
  <2> DEFINE snapshot == Arrived(Services(config.mapping, doc, Label), <<doc>>)
  <2>2. IsList(snapshot.services) /\ Silent(snapshot.services, Domain)
    BY <1>0, PolledSilent DEF Arrived, Domain
  <2>3. UNCHANGED config  BY <1>1 DEF Poll
  <2> HIDE DEF snapshot
  <2> QED  BY <2>1, <2>2, <2>3, AppendAbides DEF snapshot
<1>2. CASE Push
  <2>1. PICK request \in Batches :
           served' = Append(served, [services |-> ApplyIngest(Domain, request, served[Latest].services),
                                     doc |-> <<>>])
    BY <1>2 DEF Push
  <2>2. IsList(served[Latest].services) /\ Silent(served[Latest].services, Domain)
    <3>1. Latest \in DOMAIN served  BY DEF RuleAbiding, Latest
    <3> QED  BY <3>1 DEF RuleAbiding
  <2> DEFINE merged == ApplyIngest(Domain, request, served[Latest].services)
  <2>3. IsList(merged) /\ Silent(merged, Domain)
    BY <1>0, <2>2, PushedSilent, MergedSilent DEF Domain, ApplyIngest
  <2>4. UNCHANGED config  BY <1>2 DEF Push
  <2> HIDE DEF merged
  <2>5. IsList([services |-> merged, doc |-> <<>>].services)
        /\ Silent([services |-> merged, doc |-> <<>>].services, Domain)
    BY <2>3
  <2> QED  BY <2>1, <2>4, <2>5, AppendAbides DEF merged
<1>3. CASE UNCHANGED <<config, served>>
  BY <1>3 DEF RuleAbiding, Domain
<1> QED  BY <1>1, <1>2, <1>3 DEF Next, vars, Follow, Ask, Answer, ToggleTheme, CloseDrawer, Reload

(* Whatever the order of its rules, an accepted configuration never calls a  *)
(* service out for want of a reading, however often it is polled and         *)
(* whatever is pushed, in either mode (Evaluate, Finalise, and the          *)
(* thresholds' validation).                                                 *)
THEOREM SilenceIsNeverAnOutage == Spec => []SilenceIsNotAnOutage
<1>1. RuleAbiding => SilenceIsNotAnOutage
  BY DEF RuleAbiding, Silent, SilenceIsNotAnOutage
<1> QED  BY InitAbides, StepAbides, <1>1, PTL DEF Spec

-----------------------------------------------------------------------------
(* An accepted configuration *)

LEMMA ListDomain ==
    ASSUME NEW list, IsList(list)
    PROVE  Len(list) \in Nat /\ DOMAIN list = 1 .. Len(list) /\ DOMAIN list \subseteq Nat
<1>1. Len(list) \in Nat /\ DOMAIN list = 1 .. Len(list)
  BY DEF IsList
<1> QED BY <1>1

LEMMA OneItem ==
    ASSUME NEW x
    PROVE  /\ <<x>> # <<>> /\ IsList(<<x>>) /\ Len(<<x>>) = 1
           /\ DOMAIN <<x>> = {1} /\ Range(<<x>>) = {x} /\ <<x>>[1] = x /\ Head(<<x>>) = x
<1>1. <<x>> # <<>> /\ Len(<<x>>) = 1
  OBVIOUS
<1>2. DOMAIN <<x>> = {1}
  OBVIOUS
<1>3. <<x>>[1] = x
  OBVIOUS
<1>4. Head(<<x>>) = x
  OBVIOUS
<1>5. Range(<<x>>) = {x}
  BY <1>2, <1>3 DEF Range
<1>6. <<x>> \in Seq({x})
  OBVIOUS
<1> QED BY <1>1, <1>2, <1>3, <1>4, <1>5, <1>6 DEF IsList

LEMMA NoneOfAll ==
    ASSUME NEW S, UNION S = {}, NEW x \in S
    PROVE  x = {}
  OBVIOUS

(* What validation says of the layout it says of every widget of a page. *)
LEMMA AcceptedWidgets ==
    ASSUME NEW c, Problems(c) = {}, NEW s \in Sections(c.layout),
           NEW w \in Range(s.aside) \cup Range(s.widgets)
    PROVE  WidgetProblems(w, c.registry, c.domain, FALSE) = {}
<1>1. LayoutProblems(c.layout, c.registry, c.domain) = {}
  BY DEF Problems
<1>2. SectionProblems(s, c.registry, c.domain) = {}
  BY ZenonT(40), <1>1 DEF LayoutProblems
<1> QED BY <1>2 DEF SectionProblems

LEMMA AcceptedColumns ==
    ASSUME NEW c \in Configs, Problems(c) = {}, NEW key \in Range(c.domain.columns)
    PROVE  key \in {"rank", "name", "status"} \cup Range(IdsOf(c.domain.metrics))
<1>1. c.domain.columns # <<>>
  <2>1. IsList(c.domain.columns)
    BY ConfigsAssumption
  <2> QED BY <2>1 DEF Range, IsList
<1>2. PICK s \in Sections(c.layout) :
          \E w \in Range(s.aside) \cup Range(s.widgets) : w.type = "leaderboard-table"
  BY <1>1, ConfigsAssumption
<1>0. PICK w \in Range(s.aside) \cup Range(s.widgets) : w.type = "leaderboard-table"
  BY <1>2
<1>3. WidgetProblems(w, c.registry, c.domain, FALSE) = {}
  BY AcceptedWidgets
<1>4. ColumnProblems(c.domain) = {}
  BY <1>0, <1>3 DEF WidgetProblems
<1> QED BY <1>4 DEF ColumnProblems, Unless

LEMMA AcceptedFilters ==
    ASSUME NEW d, NEW signals, NEW kinds, SignalProblems(d, signals, kinds) = {},
           NEW def \in Range(signals)
    PROVE  /\ Range(def.filter.status) \subseteq Statuses
           /\ Range(def.filter.category) \subseteq Range(d.categories)
           /\ def.filter.role \in {""} \cup Range(d.roles)
<1> DEFINE Each(s) ==
             Unless(s.kind \in kinds, "unknown kind")
             \cup Unless(s.kind \in {"belowTargetDays", "zeroRequestors", "fastestGrowingDemand"}
                           => s.days > 0, "no window")
             \cup Unless(s.kind = "errorRisingCategories" => s.minCategories > 0, "no minimum")
             \cup Unless(s.kind = "singleRequestorCategories" => s.concentration \in 1 .. 100,
                         "no concentration")
             \cup FilterProblems(d, s.filter)
<1>2. PICK i \in DOMAIN signals : def = signals[i]
  BY DEF Range
<1>3. SignalProblems(d, signals, kinds) = Named(signals, "signal") \cup UNION {Each(signals[j]) : j \in DOMAIN signals}
  BY DEF SignalProblems
<1>4. Each(def) = {}
  <2> HIDE DEF Each
  <2>1. UNION {Each(signals[j]) : j \in DOMAIN signals} = {}
    BY <1>3
  <2> QED BY <1>2, <2>1, NoneOfAll
<1>1. FilterProblems(d, def.filter) = {}
  BY <1>4
<1> QED BY <1>1 DEF FilterProblems, Unless

LEMMA AcceptedMetrics ==
    ASSUME NEW d, MetricProblems(d) = {}, NEW i \in DOMAIN d.metrics
    PROVE  /\ d.metrics[i].field \in MetricFields
           /\ ~ShownWithoutContext(d.metrics[i])
<1> DEFINE Each(m) ==
             Unless(m.field \in MetricFields, "unknown field")
             \cup Unless(m.direction \in Directions, "unknown direction")
             \cup Unless(m.complementOf = "" \/ ~m.target.valid, "complement with a target of its own")
             \cup Unless(~ShownWithoutContext(m), "metric without context")
<1>1. MetricProblems(d) = Unless(d.metrics # <<>>, "no metrics") \cup Named(d.metrics, "metric")
                          \cup ComplementProblems(d) \cup UNION {Each(d.metrics[j]) : j \in DOMAIN d.metrics}
  BY DEF MetricProblems
<1>2. Each(d.metrics[i]) = {}
  <2> HIDE DEF Each
  <2>1. UNION {Each(d.metrics[j]) : j \in DOMAIN d.metrics} = {}
    BY <1>1
  <2> QED BY <2>1, NoneOfAll
<1> QED BY <1>2 DEF Unless

LEMMA NoComplementProblem ==
    ASSUME NEW d, MetricProblems(d) = {}
    PROVE  ComplementProblems(d) = {}
<1> DEFINE Each(o) ==
             Unless(o.field \in MetricFields, "unknown field")
             \cup Unless(o.direction \in Directions, "unknown direction")
             \cup Unless(o.complementOf = "" \/ ~o.target.valid, "complement with a target of its own")
             \cup Unless(~ShownWithoutContext(o), "metric without context")
<1>1. MetricProblems(d) = Unless(d.metrics # <<>>, "no metrics") \cup Named(d.metrics, "metric")
                          \cup ComplementProblems(d) \cup UNION {Each(d.metrics[j]) : j \in DOMAIN d.metrics}
  BY DEF MetricProblems
<1> HIDE DEF Each
<1> QED BY <1>1

(* What is left of a whole has a target to be derived from. *)
LEMMA AcceptedComplements ==
    ASSUME NEW d, IsList(d.metrics), MetricProblems(d) = {}, NEW m \in Range(d.metrics),
           m.complementOf # "", m.onBoard
    PROVE  ResolvedTarget(d, m).valid
<1> DEFINE others == {k \in DOMAIN d.metrics : d.metrics[k].id = m.complementOf}
<1>1. PICK i \in DOMAIN d.metrics : m = d.metrics[i]
  BY DEF Range
<1>2. ComplementProblems(d) = {}
  BY NoComplementProblem
<1> DEFINE Others(o) == {k \in DOMAIN d.metrics : d.metrics[k].id = o.complementOf}
           Each(o) == IF o.complementOf = "" THEN {}
                      ELSE IF o.complementOf = o.id THEN {"its own complement"}
                      ELSE IF Others(o) = {} THEN {"unknown metric complemented"}
                      ELSE Unless(d.metrics[Min(Others(o))].unit = "percent" /\ o.unit = "percent",
                                  "complement without a whole")
                           \cup Unless(d.metrics[Min(Others(o))].target.valid \/ ~o.onBoard,
                                       "complement without a target")
<1>6. Each(m) = {}
  <2>1. ComplementProblems(d) = UNION {Each(d.metrics[j]) : j \in DOMAIN d.metrics}
    BY DEF ComplementProblems
  <2> HIDE DEF Each
  <2> QED BY <1>1, <1>2, <2>1, NoneOfAll
<1>3. others # {} /\ Unless(d.metrics[Min(others)].target.valid \/ ~m.onBoard, "complement without a target") = {}
  BY <1>6
<1>4. d.metrics[Min(others)].target.valid
  BY <1>3 DEF Unless
<1>5. Min(others) \in others
  <2>1. others \subseteq Nat
    BY ListDomain
  <2> HIDE DEF others
  <2> QED BY <1>3, <2>1, MinIsMember
<1> QED BY <1>4, <1>5 DEF ResolvedTarget, Present

LEMMA AcceptedDays ==
    ASSUME NEW d, IsList(d.periods), VocabularyProblems(d) = {}
    PROVE  DaysFor(d, d.defaultPeriod) > 0
<1> DEFINE named == {i \in DOMAIN d.periods : d.periods[i].id = d.defaultPeriod}
<1>1. \A i \in DOMAIN d.periods : d.periods[i].days > 0
  BY DEF VocabularyProblems, Unless
<1>2. DaysOf(d, d.defaultPeriod).valid
  BY DEF VocabularyProblems, Unless
<1>3. named # {}
  BY <1>2 DEF DaysOf, Absent
<1>4. Min(named) \in DOMAIN d.periods
  <2>1. named \subseteq Nat /\ named \subseteq DOMAIN d.periods
    BY ListDomain
  <2> HIDE DEF named
  <2> QED BY <1>3, <2>1, MinIsMember
<1>5. DaysOf(d, d.defaultPeriod) = Present(d.periods[Min(named)].days)
  BY <1>3 DEF DaysOf
<1> HIDE DEF named
<1> QED BY <1>1, <1>2, <1>4, <1>5 DEF DaysFor, Present

(* A finding of an accepted configuration leads to what it names. *)
LEMMA LedBack ==
    ASSUME NEW d, NEW filter,
           Range(filter.status) \subseteq Statuses, Range(filter.category) \subseteq Range(d.categories),
           filter.role \in {""} \cup Range(d.roles)
    PROVE  LET back == ReadState(d, "", [status |-> <<filter.status>>, cat |-> <<filter.category>>,
                                         role |-> <<<<filter.role>>>>], "")
           IN  /\ back.filter.status = Range(filter.status)
               /\ back.filter.cat = Range(filter.category)
               /\ filter.role # "" => back.role = filter.role
<1> DEFINE query == [status |-> <<filter.status>>, cat |-> <<filter.category>>, role |-> <<<<filter.role>>>>]
<1>1. /\ All(query, "status") = <<filter.status>> /\ All(query, "cat") = <<filter.category>>
      /\ Get(query, "role") = filter.role
  <2>1. DOMAIN query = {"status", "cat", "role"}
    OBVIOUS
  <2>2. \A x : <<x>> # <<>> /\ Head(<<x>>) = x /\ <<x>>[1] = x
    BY OneItem
  <2>3. query.status = <<filter.status>> /\ query.cat = <<filter.category>> /\ query.role = <<<<filter.role>>>>
    OBVIOUS
  <2> HIDE DEF query
  <2> QED BY ZenonT(40), <2>1, <2>2, <2>3 DEF All, Get
<1>2. \A v : SplitValues(<<v>>) = Range(v)
  <2>1. \A v : DOMAIN <<v>> = {1} /\ <<v>>[1] = v
    BY OneItem
  <2>2. \A v : {1} = DOMAIN <<v>> /\ SplitValues(<<v>>) = UNION {Range(<<v>>[i]) : i \in DOMAIN <<v>>}
    BY <2>1 DEF SplitValues
  <2>3. ASSUME NEW v PROVE SplitValues(<<v>>) = Range(v)
    <3> DEFINE groups == <<v>>
    <3>1. SplitValues(groups) = UNION {Range(groups[i]) : i \in {1}} /\ groups[1] = v
      BY <2>1, <2>2
    <3> HIDE DEF groups
    <3> QED BY <3>1 DEF groups
  <2> QED BY <2>3
<1> HIDE DEF query
<1>3. ReadState(d, "", query, "").filter.status = KnownValues(All(query, "status"), Statuses)
      /\ ReadState(d, "", query, "").filter.cat = KnownValues(All(query, "cat"), Range(d.categories))
      /\ ReadState(d, "", query, "").role = RoleFor(d, Get(query, "role"))
  BY DEF ReadState
<1>4. filter.role # "" => RoleFor(d, filter.role) = filter.role
  BY DEF RoleFor
<1> QED BY ZenonT(40), <1>1, <1>2, <1>3, <1>4 DEF KnownValues, query

(* Whatever configuration is accepted, what it leads to, shows and defaults  *)
(* to is understood when it is read back (validate.go against readState).   *)
THEOREM AcceptedDoesNotDangle == Spec => []AcceptedNeverDangles
<1> DEFINE d == Domain
<1>1. RuleAbiding => AcceptedNeverDangles
  <2> SUFFICES ASSUME RuleAbiding PROVE AcceptedNeverDangles
    OBVIOUS
  <2>1. config \in Configs /\ Problems(config) = {} /\ Domain = config.domain
    BY DEF RuleAbiding, Domain
  <2>2. /\ IsList(d.metrics) /\ IsList(d.periods)
        /\ VocabularyProblems(d) = {} /\ MetricProblems(d) = {}
        /\ SignalProblems(d, d.signals, SignalKinds) = {}
        /\ SignalProblems(d, d.opportunities, OpportunityKinds) = {}
    BY <2>1, ConfigsAssumption DEF Problems, DomainProblems
  <2>3. ASSUME NEW def \in Range(d.signals) \cup Range(d.opportunities)
        PROVE  /\ Range(def.filter.status) \subseteq Statuses
               /\ Range(def.filter.category) \subseteq Range(d.categories)
               /\ def.filter.role \in {""} \cup Range(d.roles)
    BY <2>2, <2>3, AcceptedFilters
  <2>4. ASSUME NEW m \in Range(d.metrics), m.onBoard
        PROVE  ResolvedTarget(d, m).valid \/ m.framing # ""
    <3>1. ~ShownWithoutContext(m)
      BY <2>2, AcceptedMetrics DEF Range
    <3>2. CASE m.complementOf # ""
      BY <2>2, <2>4, <3>2, AcceptedComplements
    <3>3. CASE m.complementOf = ""
      BY <2>4, <3>1, <3>3 DEF ShownWithoutContext, ResolvedTarget
    <3> QED BY <3>2, <3>3
  <2>5. ASSUME NEW key \in Range(d.columns)
        PROVE  key \in {"rank", "name", "status"} \/ MetricField(d, key) # ""
    <3> DEFINE named == {i \in DOMAIN d.metrics : d.metrics[i].id = key}
    <3>1. CASE key \in Range(IdsOf(d.metrics))
      <4>1. named # {} /\ named \subseteq Nat
        <5>1. DOMAIN d.metrics \subseteq Nat
          BY <2>2, ListDomain
        <5>2. PICK i \in DOMAIN IdsOf(d.metrics) : key = IdsOf(d.metrics)[i]
          BY <3>1 DEF Range
        <5>3. i \in DOMAIN d.metrics /\ key = d.metrics[i].id
          BY <5>2 DEF IdsOf
        <5> QED BY <5>1, <5>3
      <4>2. Min(named) \in named
        <5> HIDE DEF named
        <5> QED BY <4>1, MinIsMember
      <4>3. d.metrics[Min(named)].field \in MetricFields
        BY <2>2, <4>2, AcceptedMetrics
      <4>4. MetricField(d, key) = d.metrics[Min(named)].field
        BY <4>1 DEF MetricField
      <4> QED BY <4>3, <4>4 DEF MetricFields
    <3> QED BY <2>1, <2>5, <3>1, AcceptedColumns
  <2>6. DaysFor(d, d.defaultPeriod) > 0 /\ d.defaultScope \in d.scopes
    BY <2>2, AcceptedDays DEF VocabularyProblems, Unless
  <2> QED BY <2>3, <2>4, <2>5, <2>6, LedBack DEF AcceptedNeverDangles
<1> QED BY InitAbides, StepAbides, <1>1, PTL DEF Spec
=============================================================================
