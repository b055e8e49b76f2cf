--------------------------- MODULE ControlProofs ----------------------------
(***************************************************************************)
(* Proofs about what controls carry from one page to the next, for every   *)
(* configuration, estate and reader.                                       *)
(***************************************************************************)
EXTENDS PageProofs

-----------------------------------------------------------------------------
(* Parameters *)

Lists(query) == \A name \in DOMAIN query : IsList(query[name])

LEMMA SequenceIsList ==
    ASSUME NEW S, NEW list \in Seq(S)
    PROVE  IsList(list)
<1>1. DOMAIN list = 1 .. Len(list) /\ Len(list) \in Nat
  OBVIOUS
<1>2. list = [i \in 1 .. Len(list) |-> list[i]]
  OBVIOUS
<1>3. \A i \in 1 .. Len(list) : list[i] \in Range(list)
  BY <1>1 DEF Range
<1>4. list \in [1 .. Len(list) -> Range(list)]
  BY <1>2, <1>3
<1> QED BY <1>1, <1>4 DEF IsList

(* What is read of a query holds nothing empty, and reading it again changes *)
(* nothing.                                                                 *)
LEMMA SaidIsWritten ==
    ASSUME NEW list, IsList(list)
    PROVE  LET said == Kept(list, {i \in DOMAIN list : list[i] # <<>>})
           IN  IsList(said) /\ \A i \in DOMAIN said : said[i] # <<>>
<1> DEFINE places == {i \in DOMAIN list : list[i] # <<>>}
           said == Kept(list, places)
<1>1. said \in Seq(Range(list)) /\ Range(said) = {list[k] : k \in DOMAIN list \cap places}
  BY KeptSound DEF IsList
<1>2. IsList(said)
  BY <1>1, SequenceIsList
<1>3. ASSUME NEW i \in DOMAIN said PROVE said[i] # <<>>
  <2>1. said[i] \in {list[k] : k \in DOMAIN list \cap places}
    <3> HIDE DEF said, places
    <3> QED BY <1>1 DEF Range
  <2> QED BY <2>1
<1> QED BY <1>2, <1>3

LEMMA ReadIsWritten ==
    ASSUME NEW query, Lists(query)
    PROVE  Written(ReadParams(query))
<1> DEFINE said(name) == Kept(query[name], {i \in DOMAIN query[name] : query[name][i] # <<>>})
<1>1. /\ DOMAIN ReadParams(query) = {n \in DOMAIN query \cap Params : said(n) # <<>>}
      /\ \A name \in DOMAIN ReadParams(query) : ReadParams(query)[name] = said(name)
      /\ ReadParams(query) = [name \in DOMAIN ReadParams(query) |-> ReadParams(query)[name]]
  BY DEF ReadParams
<1>2. ASSUME NEW name \in DOMAIN query
      PROVE  IsList(said(name)) /\ \A i \in DOMAIN said(name) : said(name)[i] # <<>>
  BY SaidIsWritten DEF Lists
<1> HIDE DEF said
<1> QED BY <1>1, <1>2 DEF Written

LEMMA WrittenIsRead ==
    ASSUME NEW params, Written(params)
    PROVE  ReadParams(params) = params
<1>1. ASSUME NEW name \in DOMAIN params
      PROVE  Kept(params[name], {i \in DOMAIN params[name] : params[name][i] # <<>>}) = params[name]
  <2>1. DOMAIN params[name] \subseteq {i \in DOMAIN params[name] : params[name][i] # <<>>}
    BY DEF Written
  <2>2. params[name] \in Seq(Range(params[name]))
    BY DEF Written, IsList
  <2> QED BY <2>1, <2>2, KeptSound
<1>2. {n \in DOMAIN params \cap Params :
          Kept(params[n], {i \in DOMAIN params[n] : params[n][i] # <<>>}) # <<>>} = DOMAIN params
  BY <1>1 DEF Written
<1>3. params = [name \in DOMAIN params |-> params[name]]
  BY DEF Written
<1>4. ReadParams(params) = [name \in DOMAIN params |->
                              Kept(params[name], {i \in DOMAIN params[name] : params[name][i] # <<>>})]
  BY <1>2 DEF ReadParams
<1> QED BY <1>1, <1>3, <1>4

(* Replacing parameters leaves lists of values. *)
LEMMA WithIsListed ==
    ASSUME NEW params, NEW changed, Written(params)
    PROVE  Lists(ParamsWith(params, changed))
<1>1. ASSUME NEW name \in DOMAIN ParamsWith(params, changed)
      PROVE  \/ ParamsWith(params, changed)[name] = <<changed[name]>>
             \/ name \in DOMAIN params /\ ParamsWith(params, changed)[name] = params[name]
  BY DEF ParamsWith
<1>2. \A x : IsList(<<x>>)
  BY OneItem
<1> QED BY <1>1, <1>2 DEF Written, Lists

LEMMA LinkIsRequest ==
    ASSUME NEW service, NEW params, Lists(params)
    PROVE  IsRequest(Link(service, params))
  BY ReadIsWritten DEF Link, IsRequest

LEMMA HrefIsRequest ==
    ASSUME NEW c, NEW service, NEW changed, Written(c.params)
    PROVE  IsRequest(Href(c, service, changed))
  BY WithIsListed, LinkIsRequest DEF Href

LEMMA JoinedIsList ==
    ASSUME NEW a, NEW b, IsList(a), IsList(b)
    PROVE  IsList(a \o b)
<1>1. a \in Seq(Range(a) \cup Range(b)) /\ b \in Seq(Range(a) \cup Range(b))
  BY DEF IsList
<1>2. a \o b \in Seq(Range(a) \cup Range(b))
  BY <1>1
<1> QED BY <1>2, SequenceIsList

LEMMA NothingIsList == IsList(<<>>)
  BY DEF IsList, Range

(* A form sends lists of values when its fields hold them. *)
LEMMA SubmitIsListed ==
    ASSUME NEW hidden, NEW own, Lists(hidden), Lists(own)
    PROVE  Lists(Submit(hidden, own))
<1> SUFFICES ASSUME NEW name \in DOMAIN hidden \cup DOMAIN own
             PROVE  IsList(Submit(hidden, own)[name])
  BY DEF Lists, Submit
<1>1. IsList(IF name \in DOMAIN hidden THEN hidden[name] ELSE <<>>)
  BY NothingIsList DEF Lists
<1>2. IsList(IF name \in DOMAIN own THEN own[name] ELSE <<>>)
  BY NothingIsList DEF Lists
<1> QED BY <1>1, <1>2, JoinedIsList DEF Submit

-----------------------------------------------------------------------------
(* Sets that a form sends as lists *)

(* A finite set is listed with every member once. *)
LEMMA ListOfSet ==
    ASSUME NEW S, IsFiniteSet(S)
    PROVE  SetToSeq(S) \in Seq(S) /\ Range(SetToSeq(S)) = S
<1> DEFINE n == Cardinality(S)
           list == SetToSeq(S)
<1>1. n \in Nat /\ ExistsBijection(1 .. n, S)
  BY FS_CardinalityType
<1>2. \E f \in [1 .. n -> S] : IsInjective(f)
  BY <1>1 DEF ExistsBijection, Bijection, Injection
<1>3. list \in [1 .. n -> S] /\ IsInjective(list)
  BY <1>2 DEF SetToSeq
<1> HIDE DEF n, list
<1>4. list \in Injection(1 .. n, S)
  BY <1>3 DEF Injection
<1>5. IsFiniteSet(1 .. n) /\ Cardinality(1 .. n) = n
  BY <1>1, FS_Interval
<1>6. list \in Surjection(1 .. n, S)
  BY <1>4, <1>5, FS_Injection DEF n
<1>7. Range(list) = S
  BY <1>3, <1>6 DEF Surjection, Range
<1>8. list \in Seq(S)
  BY <1>1, <1>3
<1> QED BY <1>7, <1>8 DEF list

LEMMA RangeIsFinite ==
    ASSUME NEW list, IsList(list)
    PROVE  IsFiniteSet(Range(list))
<1>1. Len(list) \in Nat /\ list \in [1 .. Len(list) -> Range(list)]
  BY DEF IsList
<1>2. list \in Surjection(1 .. Len(list), Range(list))
  BY <1>1 DEF Surjection, Range
<1>3. IsFiniteSet(1 .. Len(list))
  BY <1>1, FS_Interval
<1> QED BY <1>2, <1>3, FS_Surjection

(* Every box is a value of its own, and the boxes are the members. *)
LEMMA BoxesSound ==
    ASSUME NEW S, IsFiniteSet(S)
    PROVE  /\ IsList(Boxes(S)) /\ (Boxes(S) = <<>> <=> S = {})
           /\ \A i \in DOMAIN Boxes(S) : Boxes(S)[i] # <<>>
           /\ SplitValues(Boxes(S)) = S
           /\ S # {} => 1 \in DOMAIN Boxes(S) /\ Boxes(S)[1][1] \in S
<1> DEFINE list == SetToSeq(S)
<1>1. list \in Seq(S) /\ Range(list) = S
  BY ListOfSet
<1>2. Boxes(S) = [i \in DOMAIN list |-> <<list[i]>>]
  BY DEF Boxes
<1> HIDE DEF list
<1>3. DOMAIN list = 1 .. Len(list) /\ Len(list) \in Nat
  BY <1>1
<1>4. \A x : <<x>> # <<>> /\ Range(<<x>>) = {x} /\ <<x>>[1] = x
  BY OneItem
<1>5. Boxes(S) \in Seq({<<x>> : x \in S})
  BY <1>1, <1>2, <1>3 DEF Range
<1>6. IsList(Boxes(S))
  BY <1>5, SequenceIsList
<1>7. Boxes(S) = <<>> <=> S = {}
  <2>1. Boxes(S) = <<>> <=> Len(list) = 0
    BY <1>2, <1>3, <1>5
  <2>2. S = {} <=> Len(list) = 0
    BY <1>1, <1>3 DEF Range
  <2> QED BY <2>1, <2>2
<1>8. \A i \in DOMAIN list : Range(Boxes(S)[i]) = {list[i]}
  BY <1>2, <1>4
<1>9. SplitValues(Boxes(S)) = S
  <2>1. \A x : x \in SplitValues(Boxes(S)) <=> \E i \in DOMAIN list : x \in {list[i]}
    BY <1>2, <1>8 DEF SplitValues
  <2>2. \A x : x \in S <=> \E i \in DOMAIN list : x = list[i]
    BY <1>1 DEF Range
  <2> QED BY <2>1, <2>2
<1>10. S # {} => 1 \in DOMAIN list
  BY <1>1, <1>3 DEF Range
<1>11. \A i \in DOMAIN list : list[i] \in S
  BY <1>1
<1>12. \A i \in DOMAIN Boxes(S) : Boxes(S)[i] # <<>> /\ Boxes(S)[i][1] = list[i]
  BY <1>2, <1>4
<1>13. DOMAIN Boxes(S) = DOMAIN list
  BY <1>2
<1> QED BY <1>6, <1>7, <1>9, <1>10, <1>11, <1>12, <1>13

-----------------------------------------------------------------------------
(* Every control leads to a request *)

(* What the controls of a region are made from. *)
Ready(c) ==
    /\ Written(c.params)
    /\ \A kind \in {"status", "cat", "q"} : IsFiniteSet(c.state.filter[kind])

LEMMA FiniteFilter ==
    ASSUME NEW d, IsList(d.categories), NEW service, NEW query, NEW theme
    PROVE  LET f == ReadState(d, service, query, theme).filter
           IN  \A kind \in {"status", "cat", "q"} : IsFiniteSet(f[kind])
<1> DEFINE f == ReadState(d, service, query, theme).filter
<1>1. /\ f.status \subseteq Statuses /\ f.cat \subseteq Range(d.categories)
      /\ f.q \in {{}, {Get(query, "q")}}
  BY DEF ReadState, KnownValues
<1> HIDE DEF f
<1>2. IsFiniteSet(Statuses)
  <2> DEFINE two   == {"operational"} \cup {"partial"}
             three == two \cup {"major"}
             four  == three \cup {"maintenance"}
  <2>1. Statuses = four \cup {"unknown"}
    BY DEF Statuses
  <2>2. IsFiniteSet({"operational"})
    BY FS_Singleton
  <2>3. IsFiniteSet(two)
    BY <2>2, FS_AddElement
  <2>4. IsFiniteSet(three)
    BY <2>3, FS_AddElement
  <2>5. IsFiniteSet(four)
    BY <2>4, FS_AddElement
  <2> HIDE DEF four
  <2> QED BY <2>1, <2>5, FS_AddElement
<1>3. IsFiniteSet(Range(d.categories))
  BY RangeIsFinite
<1>4. IsFiniteSet(f.q)
  <2>1. IsFiniteSet({}) /\ IsFiniteSet({Get(query, "q")})
    BY FS_EmptySet, FS_Singleton
  <2> QED BY <1>1, <2>1
<1> QED BY <1>1, <1>2, <1>3, <1>4, FS_Subset DEF f

(* What a rendering is drawn from. *)
LEMMA ContextFields ==
    ASSUME NEW r
    PROVE  LET c  == ContextOf(r)
               st == ReadState(Domain, r.at.service, r.at.params, cookie)
           IN  /\ c.d = Domain /\ c.all = served[r.of].services
               /\ c.params = ReadParams(r.at.params)
               /\ c.state = [st EXCEPT !.theme = r.theme]
               /\ c.days = DaysFor(Domain, st.period)
               /\ c.scoped = Scope(Domain, Role(Domain, c.all, Domain.defaultRole), st.scope, st.region)
               /\ c.roleScoped = Scope(Domain, Role(Domain, c.all, st.role), st.scope, st.region)
<1> DEFINE st == ReadState(Domain, r.at.service, r.at.params, cookie)
<1> HIDE DEF st
<1>1. ContextOf(r) = [Selection(Domain, served[r.of].services, r.at, st) EXCEPT !.state.theme = r.theme]
  BY DEF ContextOf, Themed, Build, st
<1> QED BY ZenonT(40), <1>1 DEF Selection, st

LEMMA ContextReady ==
    ASSUME NEW r, IsRequest(r.at), IsList(Domain.categories)
    PROVE  Ready(ContextOf(r)) /\ ContextOf(r).params = r.at.params
<1> DEFINE st == ReadState(Domain, r.at.service, r.at.params, cookie)
           c == ContextOf(r)
<1>1. c.params = r.at.params /\ Written(c.params)
  BY ContextFields, WrittenIsRead DEF IsRequest
<1>2. c.state = [st EXCEPT !.theme = r.theme]
  BY ContextFields
<1>3. c.state.filter = st.filter
  <2>1. {"theme", "filter"} \subseteq DOMAIN st
    BY DEF ReadState
  <2> HIDE DEF c, st
  <2> QED BY <1>2, <2>1
<1>4. \A kind \in {"status", "cat", "q"} : IsFiniteSet(st.filter[kind])
  BY FiniteFilter
<1> HIDE DEF c, st
<1> QED BY <1>1, <1>3, <1>4 DEF Ready, c

LEMMA ToggledIsFinite ==
    ASSUME NEW S, IsFiniteSet(S), NEW x
    PROVE  IsFiniteSet(Toggle(S, x))
  BY FS_AddElement, FS_RemoveElement DEF Toggle

(* What the fields of the filter form say, with one of them edited. *)
LEMMA EditedFields ==
    ASSUME NEW c, Ready(c), NEW bar, NEW fields \in FieldEdits(c, bar)
    PROVE  /\ IsFiniteSet(fields.status) /\ IsFiniteSet(fields.cat) /\ IsFiniteSet(fields.q)
           /\ fields = [status |-> fields.status, cat |-> fields.cat, q |-> fields.q, region |-> fields.region]
<1> DEFINE f   == c.state.filter
           now == [status |-> f.status, cat |-> f.cat, q |-> f.q, region |-> Sent(bar)]
<1>1. IsFiniteSet(f.status) /\ IsFiniteSet(f.cat) /\ IsFiniteSet(f.q)
  BY DEF Ready
<1>2. \/ \E s : fields = [now EXCEPT !.status = Toggle(@, s)]
      \/ \E k : fields = [now EXCEPT !.cat = Toggle(@, k)]
      \/ \E typed : IsFiniteSet(typed) /\ fields = [now EXCEPT !.q = typed]
      \/ \E r : fields = [now EXCEPT !.region = r]
  <2>1. \A typed \in {{}} \cup {{w} : w \in Words} : IsFiniteSet(typed)
    BY FS_EmptySet, FS_Singleton
  <2>2. \/ \E s : fields = [now EXCEPT !.status = Toggle(@, s)]
        \/ \E k : fields = [now EXCEPT !.cat = Toggle(@, k)]
        \/ \E typed \in {{}} \cup {{w} : w \in Words} : fields = [now EXCEPT !.q = typed]
        \/ \E r : fields = [now EXCEPT !.region = r]
    BY DEF FieldEdits
  <2> HIDE DEF now, f
  <2> QED BY <2>1, <2>2
<1>3. \A x : IsFiniteSet(Toggle(f.status, x)) /\ IsFiniteSet(Toggle(f.cat, x))
  BY <1>1, ToggledIsFinite
<1>4. CASE \E x : fields = [now EXCEPT !.status = Toggle(@, x)]
  <2>1. PICK x : fields = [now EXCEPT !.status = Toggle(@, x)]
    BY <1>4
  <2>2. PICK t : t = Toggle(f.status, x)
    OBVIOUS
  <2>3. fields = [status |-> t, cat |-> f.cat, q |-> f.q, region |-> Sent(bar)]
    BY <2>1, <2>2
  <2> QED BY <1>1, <1>3, <2>2, <2>3
<1>5. CASE \E x : fields = [now EXCEPT !.cat = Toggle(@, x)]
  <2>1. PICK x : fields = [now EXCEPT !.cat = Toggle(@, x)]
    BY <1>5
  <2>2. PICK t : t = Toggle(f.cat, x)
    OBVIOUS
  <2>3. fields = [status |-> f.status, cat |-> t, q |-> f.q, region |-> Sent(bar)]
    BY <2>1, <2>2
  <2> QED BY <1>1, <1>3, <2>2, <2>3
<1>6. CASE \E typed : IsFiniteSet(typed) /\ fields = [now EXCEPT !.q = typed]
  BY <1>1, <1>6
<1>7. CASE \E x : fields = [now EXCEPT !.region = x]
  BY <1>1, <1>7
<1> QED BY <1>2, <1>4, <1>5, <1>6, <1>7

LEMMA HiddenIsListed ==
    ASSUME NEW params, Written(params), NEW names
    PROVE  Lists(HiddenExcept(params, names))
  BY DEF Written, Lists, HiddenExcept

LEMMA FilterFormAsks ==
    ASSUME NEW c, Ready(c), NEW fields \in FieldEdits(c, FilterBar(c))
    PROVE  IsRequest(FilterForm(c, FilterBar(c), fields))
<1> DEFINE own == [filters |-> <<IF c.state.filters THEN <<"open">> ELSE <<>>>>,
                   q |-> Boxes(fields.q), status |-> Boxes(fields.status), cat |-> Boxes(fields.cat),
                   region |-> IF fields.region = "" THEN <<>> ELSE <<<<fields.region>>>>]
           given == {name \in DOMAIN own : own[name] # <<>>}
           sent == [name \in given |-> own[name]]
           hidden == FilterBar(c).hidden
<1>1. hidden = HiddenExcept(c.params, {"q", "region", "status", "cat", "filters", "tab"})
  BY DEF FilterBar
<1>2. Lists(hidden)
  BY <1>1, HiddenIsListed DEF Ready
<1>3. IsList(Boxes(fields.q)) /\ IsList(Boxes(fields.status)) /\ IsList(Boxes(fields.cat))
  BY EditedFields, BoxesSound
<1>4. \A x : IsList(<<x>>)
  BY OneItem
<1>5. \A name \in DOMAIN own : IsList(own[name])
  <2>1. IsList(own.filters) /\ IsList(own.region)
    BY <1>4, NothingIsList
  <2>2. IsList(own.q) /\ IsList(own.status) /\ IsList(own.cat)
    BY <1>3
  <2> QED BY <2>1, <2>2
<1>6. Lists(sent)
  <2> HIDE DEF own
  <2> QED BY <1>5 DEF Lists
<1>7. FilterForm(c, FilterBar(c), fields) = Link("", Submit(hidden, sent))
  BY DEF FilterForm
<1> HIDE DEF hidden, sent
<1> QED BY <1>2, <1>6, <1>7, SubmitIsListed, LinkIsRequest

LEMMA BarFormAsks ==
    ASSUME NEW c, Ready(c), NEW period, NEW locale
    PROVE  IsRequest(BarForm(c, period, locale))
<1> DEFINE chosen == [period |-> <<<<period>>>>, lang |-> <<<<locale>>>>]
           given == {name \in DOMAIN chosen : Selects(IF name = "lang" THEN "locale" ELSE name)}
           own == [name \in given |-> chosen[name]]
           hidden == HiddenExcept(c.params, {"lang", "period", "tab"})
<1>1. Lists(hidden)
  BY HiddenIsListed DEF Ready
<1>2. \A x : IsList(<<x>>)
  BY OneItem
<1>3. \A name \in DOMAIN chosen : IsList(chosen[name])
  BY <1>2
<1>4. BarForm(c, period, locale) = Link(Here(c), Submit(hidden, own))
  BY DEF BarForm
<1> HIDE DEF chosen, hidden
<1>5. Lists(own)
  BY <1>3 DEF Lists
<1> HIDE DEF own
<1> QED BY <1>1, <1>4, <1>5, SubmitIsListed, LinkIsRequest DEF hidden

LEMMA BarAsks ==
    ASSUME NEW c, Ready(c), NEW control \in BarControls(c)
    PROVE  IsRequest(control.at)
<1>1. \/ \E name, picks, target : control = Control(name, picks, target, [service |-> "", params |-> None])
      \/ \E name, picks, target, service, changed :
             control = Control(name, picks, target, Href(c, service, changed))
      \/ \E name, picks, target, period, locale :
             control = Control(name, picks, target, BarForm(c, period, locale))
  <2>1. CASE control \in {Control("wordmark", None, "page", [service |-> "", params |-> None]) : x \in {y \in {1} : Offers("wordmark")}}
    BY <2>1
  <2>2. CASE control \in {Control("scope", [scope |-> s], "body", Href(c, "", [scope |-> <<s>>, region |-> <<>>]))
                           : s \in {t \in Domain.scopes : Offers("scope-switch")}}
    BY <2>2, Zenon
  <2>3. CASE control \in {Control("role", [role |-> r], "body",
                                  Href(c, "", [role |-> <<r>>, status |-> <<>>, cat |-> <<>>, q |-> <<>>]))
                          : r \in {t \in Range(Domain.roles) : Offers("role-switch") /\ Len(Domain.roles) >= 2}}
    BY <2>3, Zenon
  <2>4. CASE control \in {Control("period", [period |-> p], "page", BarForm(c, p, c.state.locale))
                          : p \in {t \in Range(IdsOf(Domain.periods)) : Selects("period")}}
    BY <2>4, Zenon
  <2>5. CASE control \in {Control("locale", [locale |-> l], "page", BarForm(c, c.state.period, l))
                          : l \in {t \in Range(Domain.locales) : Selects("locale")}}
    BY <2>5, Zenon
  <2>6. CASE control \in {Control("theme", [theme |-> t], "page", Href(c, Here(c), [theme |-> <<t>>]))
                          : t \in {u \in {OtherTheme(c.state.theme)} : ~scripted /\ Offers("theme-toggle")}}
    BY <2>6, Zenon
  <2> QED BY <2>1, <2>2, <2>3, <2>4, <2>5, <2>6, Zenon DEF BarControls
<1>2. IsRequest([service |-> "", params |-> None])
  <2>1. DOMAIN None = {} /\ None = [name \in DOMAIN None |-> None[name]]
    BY DEF None
  <2> QED BY <2>1 DEF IsRequest, Written
<1>3. CASE \E name, picks, target : control = Control(name, picks, target, [service |-> "", params |-> None])
  <2> DEFINE bare == [service |-> "", params |-> None]
  <2>1. PICK name, picks, target : control = Control(name, picks, target, bare)
    BY <1>3
  <2> HIDE DEF bare
  <2>2. control.at = bare
    BY <2>1, ControlFields
  <2> QED BY <1>2, <2>2 DEF bare
<1>4. CASE \E name, picks, target, service, changed :
              control = Control(name, picks, target, Href(c, service, changed))
  <2>1. PICK name, picks, target, service, changed :
              control = Control(name, picks, target, Href(c, service, changed))
    BY <1>4
  <2>2. control.at = Href(c, service, changed)
    BY <2>1, ControlFields
  <2> QED BY <2>2, HrefIsRequest DEF Ready
<1>5. CASE \E name, picks, target, period, locale :
              control = Control(name, picks, target, BarForm(c, period, locale))
  <2>1. PICK name, picks, target, period, locale :
              control = Control(name, picks, target, BarForm(c, period, locale))
    BY <1>5
  <2>2. control.at = BarForm(c, period, locale)
    BY <2>1, ControlFields
  <2> QED BY <2>2, BarFormAsks
<1> QED BY <1>1, <1>3, <1>4, <1>5

LEMMA SignalAsks ==
    ASSUME NEW c, Ready(c), NEW control \in SignalControls(c)
    PROVE  IsRequest(control.at)
<1>1. \/ \E t \in SignalTabs(c) : control = Control("signals", [signals |-> t.tab], "signals", t.href)
      \/ \E card \in Range(SignalCards(c)) : \E name : control = Control(name, None, card.action.target, card.action.href)
  BY DEF SignalControls
<1>2. CASE \E t \in SignalTabs(c) : control.at = t.href
  <2>1. PICK t \in SignalTabs(c) : control.at = t.href
    BY <1>2
  <2>0. PICK tab : t = [tab |-> tab, active |-> c.state.signals = tab,
                        href |-> Href(c, "", [signals |-> <<tab>>])]
    BY <2>1 DEF SignalTabs
  <2>2. t.href = Href(c, "", [signals |-> <<tab>>])
    BY <2>0
  <2> QED BY <2>1, <2>2, HrefIsRequest DEF Ready
<1>3. CASE \E card \in Range(SignalCards(c)) : control.at = card.action.href
  <2>1. PICK card \in Range(SignalCards(c)) : control.at = card.action.href
    BY <1>3
  <2>2. PICK finding : card = SignalCard(c, finding)
    BY <2>1 DEF Range, SignalCards, CardsOf
  <2>3. card.action = SignalAction(c, finding)
    BY <2>2 DEF SignalCard
  <2>4. \E service, changed : SignalAction(c, finding).href = Href(c, service, changed)
    <3>1. CASE finding.focus.service # ""                              BY <3>1 DEF SignalAction
    <3>2. CASE finding.focus.service = "" /\ finding.filter.role # ""  BY <3>2 DEF SignalAction
    <3>3. CASE finding.focus.service = "" /\ finding.filter.role = ""  BY <3>3 DEF SignalAction
    <3> QED  BY <3>1, <3>2, <3>3
  <2> QED BY <2>1, <2>3, <2>4, HrefIsRequest DEF Ready
<1>4. CASE \E t \in SignalTabs(c) : control = Control("signals", [signals |-> t.tab], "signals", t.href)
  BY <1>2, <1>4, ControlFields
<1>5. CASE \E card \in Range(SignalCards(c)) : \E name : control = Control(name, None, card.action.target, card.action.href)
  BY <1>3, <1>5, ControlFields
<1> QED BY <1>1, <1>4, <1>5

LEMMA BoardAsks ==
    ASSUME NEW c, Ready(c), NEW control \in BoardControls(c)
    PROVE  IsRequest(control.at)
<1>1. CASE \E fields \in FieldEdits(c, FilterBar(c)) : control = FilterControl(c, FilterBar(c), fields)
  <2>1. PICK fields \in FieldEdits(c, FilterBar(c)) : control = FilterControl(c, FilterBar(c), fields)
    BY <1>1
  <2>2. control.at = FilterForm(c, FilterBar(c), fields)
    BY <2>1, ControlFields DEF FilterControl
  <2> QED BY <2>2, FilterFormAsks
<1>2. CASE \E picks : control = Control("clear", picks, "leaderboard", FilterBar(c).clearHref)
  <2>1. control.at = FilterBar(c).clearHref
    BY <1>2, ControlFields
  <2> QED BY <2>1, HrefIsRequest DEF FilterBar, Ready
<1>3. CASE \E col \in Range(Columns(c)) : control.at = col.href
  <2>1. PICK col \in Range(Columns(c)) : control.at = col.href
    BY <1>3
  <2>2. PICK key : col = Column(c, key)
    BY <2>1 DEF Range, Columns
  <2> QED BY <2>1, <2>2, HrefIsRequest DEF Column, Ready
<1>4. CASE \E row \in Range(BoardRows(c)) : control.at = row.href
  <2>1. PICK row \in Range(BoardRows(c)) : control.at = row.href
    BY <1>4
  <2>2. \E sv, rank, cells : row = Row(c, sv, rank, cells)
    BY <2>1, Zenon DEF Range, BoardRows, RankedRows, Rows, BuildRow
  <2> QED BY <2>1, <2>2, HrefIsRequest DEF Row, Ready
<1>5. \/ control \in FilterControls(c, FilterBar(c))
      \/ \E col \in Range(Columns(c)) : control = Control("sort", [sort |-> col.key], "leaderboard", col.href)
      \/ \E row \in Range(BoardRows(c)) : control = Control("row", [service |-> row.id], "drawer", row.href)
  BY DEF BoardControls
<1>6. control \in FilterControls(c, FilterBar(c)) =>
         \/ \E fields \in FieldEdits(c, FilterBar(c)) : control = FilterControl(c, FilterBar(c), fields)
         \/ \E picks : control = Control("clear", picks, "leaderboard", FilterBar(c).clearHref)
  BY DEF FilterControls
<1>7. CASE \E col \in Range(Columns(c)) : control = Control("sort", [sort |-> col.key], "leaderboard", col.href)
  BY <1>3, <1>7, ControlFields
<1>8. CASE \E row \in Range(BoardRows(c)) : control = Control("row", [service |-> row.id], "drawer", row.href)
  BY <1>4, <1>8, ControlFields
<1> QED BY <1>1, <1>2, <1>5, <1>6, <1>7, <1>8

LEMMA DrawerAsks ==
    ASSUME NEW c, Ready(c), NEW control \in DrawerControls(c)
    PROVE  IsRequest(control.at)
<1>1. \E name, picks, target, service, changed :
         control = Control(name, picks, target, Href(c, service, changed))
  BY DEF DrawerControls
<1>2. PICK service, changed : control.at = Href(c, service, changed)
  BY <1>1, ControlFields
<1> QED BY <1>2, HrefIsRequest DEF Ready

LEMMA ControlAsks ==
    ASSUME IsList(Domain.categories), \A region \in Regions : IsRequest(shown[region].at),
           NEW control \in Controls
    PROVE  IsRequest(control.at)
<1>1. \A region \in {"page", "signals", "leaderboard", "drawer"} : Ready(ContextOf(shown[region]))
  BY ContextReady DEF Regions
<1> QED BY <1>1, BarAsks, SignalAsks, BoardAsks, DrawerAsks DEF Controls

-----------------------------------------------------------------------------
(* Types *)

(* Besides its types, what the configuration was accepted with, and what a   *)
(* rendering and a fragment are made of.                                    *)
Requests ==
    /\ TypeOK
    /\ IsList(Domain.categories)
    /\ served \in Seq(Range(served))
    /\ DOMAIN shown = Regions
    /\ \A region \in Regions : DOMAIN shown[region] = {"at", "of", "theme"}
    /\ \A r \in inflight : DOMAIN r = {"at", "target", "attached"}

LEMMA LastPlace ==
    ASSUME NEW list, IsList(list), list # <<>>
    PROVE  Len(list) \in 1 .. Len(list)
<1>1. Len(list) \in Nat /\ Len(list) # 0
  BY DEF IsList
<1> QED BY <1>1

(* What is to be shown of a step that brings no snapshot. *)
LEMMA SameEstateTyped ==
    ASSUME Requests, UNCHANGED <<config, served, scripted>>,
           IsRequest(address'), cookie' \in {"", "light", "dark"}, clicks' \in 0 .. MaxClicks,
           DOMAIN shown' = Regions,
           \A region \in Regions : /\ IsRequest(shown'[region].at) /\ shown'[region].of \in 1 .. Latest
                                  /\ DOMAIN shown'[region] = {"at", "of", "theme"},
           \A r \in inflight' : /\ IsRequest(r.at) /\ r.target \in Fragments
                               /\ DOMAIN r = {"at", "target", "attached"},
           ~scripted => inflight' = {}
    PROVE  Requests'
<1>1. Latest' = Latest /\ Domain' = Domain
  BY DEF Latest, Domain
<1>2. TypeOK'
  BY <1>1 DEF Requests, TypeOK, Fragments
<1> QED BY <1>1, <1>2 DEF Requests

LEMMA LandingIsRequest ==
    ASSUME NEW request, IsRequest(request)
    PROVE  IsRequest(Landing(request))
<1> DEFINE c == Build(Domain, served[Latest].services, request, cookie)
<1>1. c.params = ReadParams(request.params)
  BY DEF Build, Selection
<1>2. Written(c.params)
  BY <1>1, WrittenIsRead DEF IsRequest
<1> QED BY <1>2, HrefIsRequest DEF Landing

LEMMA ClosedIsRequest ==
    ASSUME NEW at, IsRequest(at)
    PROVE  IsRequest(Closed(at))
<1> DEFINE params == ParamsWith(at.params, [tab |-> <<>>])
<1>1. /\ DOMAIN params = DOMAIN at.params \ {"tab"}
      /\ params = [name \in DOMAIN params |-> params[name]]
      /\ \A name \in DOMAIN params : params[name] = at.params[name]
  BY DEF ParamsWith
<1>2. Written(params)
  <2> HIDE DEF params
  <2> QED BY <1>1 DEF IsRequest, Written
<1> QED BY <1>2 DEF Closed, IsRequest

LEMMA RenderingTyped ==
    ASSUME NEW request, IsRequest(request), NEW service
    PROVE  LET r == Rendering(request, service)
           IN  DOMAIN r = {"at", "of", "theme"} /\ IsRequest(r.at) /\ r.of = Latest
  BY DEF Rendering, IsRequest

LEMMA LoadTyped ==
    ASSUME Requests, NEW request, IsRequest(request), Load(request),
           UNCHANGED <<config, served, scripted>>, cookie' \in {"", "light", "dark"},
           clicks' \in 0 .. MaxClicks
    PROVE  Requests'
<1>1. IsRequest(Landing(request))
  BY LandingIsRequest
<1>2. /\ address' = Landing(request) /\ inflight' = {}
      /\ shown' = [region \in Regions |-> Rendering(Landing(request), Landing(request).service)]
  BY DEF Load
<1>3. Latest' = Latest /\ Domain' = Domain /\ Latest \in 1 .. Latest
  <2>1. IsList(served) /\ served # <<>>
    BY DEF Requests, TypeOK, IsList
  <2>2. Len(served) \in 1 .. Len(served)
    BY <2>1, LastPlace
  <2> QED BY <2>2 DEF Latest, Domain
<1>4. DOMAIN shown' = Regions
      /\ \A region \in Regions : shown'[region] = Rendering(Landing(request), Landing(request).service)
  BY <1>2
<1>5. \A region \in Regions : /\ IsRequest(shown'[region].at) /\ shown'[region].of \in 1 .. Latest'
                              /\ DOMAIN shown'[region] = {"at", "of", "theme"}
  <2> DEFINE r == Rendering(Landing(request), Landing(request).service)
  <2>1. DOMAIN r = {"at", "of", "theme"} /\ IsRequest(r.at) /\ r.of = Latest
    BY <1>1, RenderingTyped
  <2> HIDE DEF r
  <2>2. \A region \in Regions : shown'[region] = r
    BY <1>4 DEF r
  <2> QED BY <1>3, <2>1, <2>2
<1> QED BY <1>1, <1>2, <1>3, <1>4, <1>5 DEF Requests, TypeOK

LEMMA AcceptedLists == RuleAbiding => IsList(Domain.categories) /\ served \in Seq(Range(served))
  BY ConfigsAssumption DEF RuleAbiding, Domain

LEMMA InitTyped == Init => Requests
<1> SUFFICES ASSUME Init PROVE Requests
  OBVIOUS
<1>1. PICK b \in Bookmarks : /\ address = Landing(b)
                             /\ shown = [region \in Regions |-> Rendering(Landing(b), Landing(b).service)]
  BY DEF Init
<1>2. IsRequest(Landing(b))
  BY LandingIsRequest, BookmarksAssumption
<1>3. RuleAbiding /\ Len(served) = 1
  BY InitAbides DEF Init
<1>4. DOMAIN shown = Regions
      /\ \A region \in Regions : shown[region] = Rendering(Landing(b), Landing(b).service)
  BY <1>1
<1>5. \A region \in Regions : /\ IsRequest(shown[region].at) /\ shown[region].of \in 1 .. Latest
                              /\ DOMAIN shown[region] = {"at", "of", "theme"}
  BY <1>2, <1>3, <1>4, RenderingTyped DEF Latest
<1>6. served # <<>> /\ Len(served) <= MaxArrivals + 1 /\ 0 \in 0 .. MaxClicks
  BY <1>3, BoundsAssumption DEF RuleAbiding
<1> QED BY <1>1, <1>2, <1>3, <1>4, <1>5, <1>6, AcceptedLists DEF Init, Requests, TypeOK

(* A snapshot more changes no request. *)
LEMMA ArrivalTyped ==
    ASSUME Requests, NEW snapshot, served' = Append(served, snapshot), Latest <= MaxArrivals,
           UNCHANGED <<config, scripted, address, shown, cookie, inflight, overlapped, clicks>>
    PROVE  Requests'
<1>1. Len(served) \in Nat /\ served \in Seq(Range(served) \cup {snapshot})
  BY DEF Requests
<1>2. served' \in Seq(Range(served) \cup {snapshot}) /\ Len(served') = Len(served) + 1
  BY <1>1
<1>3. served' # <<>> /\ Len(served') <= MaxArrivals + 1
  BY <1>1, <1>2, BoundsAssumption DEF Latest
<1>4. served' \in Seq(Range(served'))
  BY <1>2, SequenceIsList DEF IsList
<1>5. 1 .. Latest \subseteq 1 .. Latest'
  BY <1>1, <1>2 DEF Latest
<1> QED BY <1>3, <1>4, <1>5 DEF Requests, TypeOK, Domain

LEMMA AnswerTyped == Requests /\ Answer => Requests'
<1> SUFFICES ASSUME Requests, Answer PROVE Requests'
  OBVIOUS
<1>1. PICK r \in inflight :
         LET c == Build(Domain, served[Latest].services, r.at, cookie)
             rest == inflight \ {r}
             draws == Found(c, r.at) /\ r.attached
         IN  /\ address' = IF ~Found(c, r.at) THEN address
                           ELSE IF r.target = "body" THEN r.at
                           ELSE PushUrl(c, r.at.service)
             /\ shown' = IF draws
                         THEN [region \in Regions |->
                                 IF region \in Redrawn(r.target)
                                 THEN Rendering(r.at, r.at.service) ELSE shown[region]]
                         ELSE shown
             /\ inflight' = IF draws THEN Detached(rest, Replaces(r.target)) ELSE rest
             /\ UNCHANGED <<config, served, scripted, cookie, overlapped, clicks>>
  BY DEF Answer
<1> DEFINE c == Build(Domain, served[Latest].services, r.at, cookie)
<1>2. IsRequest(r.at) /\ r.target \in {"body", "signals", "leaderboard", "drawer", "pane"}
      /\ DOMAIN r = {"at", "target", "attached"}
  BY DEF Requests, TypeOK
<1>3. IsRequest(address')
  <2>1. c.params = r.at.params
    <3>1. c.params = ReadParams(r.at.params)
      BY DEF Build, Selection
    <3> QED BY <1>2, <3>1, WrittenIsRead DEF IsRequest
  <2>2. Written(c.params)
    BY <1>2, <2>1 DEF IsRequest
  <2> HIDE DEF c
  <2>3. Lists(c.params) /\ Lists(ParamsWith(c.params, [tab |-> <<>>]))
    BY <2>2, WithIsListed DEF Lists, Written
  <2>4. IsRequest(PushUrl(c, r.at.service))
    BY <2>3, LinkIsRequest DEF PushUrl
  <2> QED BY <1>1, <1>2, <2>4 DEF Requests, TypeOK, c
<1>4. Latest' = Latest /\ Latest \in 1 .. Latest /\ Domain' = Domain
  <2>1. Latest \in 1 .. Latest
    BY LastPlace DEF Latest, Requests, TypeOK, IsList
  <2> QED BY <1>1, <2>1 DEF Latest, Domain
<1>5. /\ DOMAIN shown' = Regions
      /\ \A region \in Regions : /\ IsRequest(shown'[region].at) /\ shown'[region].of \in 1 .. Latest
                                 /\ DOMAIN shown'[region] = {"at", "of", "theme"}
  <2> DEFINE drawn == Rendering(r.at, r.at.service)
  <2>1. DOMAIN drawn = {"at", "of", "theme"} /\ IsRequest(drawn.at) /\ drawn.of = Latest
    BY <1>2, RenderingTyped
  <2>2. \/ shown' = shown
        \/ shown' = [region \in Regions |-> IF region \in Redrawn(r.target) THEN drawn ELSE shown[region]]
    BY <1>1
  <2> HIDE DEF drawn
  <2> QED BY <1>4, <2>1, <2>2 DEF Requests, TypeOK
<1>6. \A other \in inflight' : \E was \in inflight :
         other.at = was.at /\ other.target = was.target /\ DOMAIN other = DOMAIN was
  <2>1. \A other \in inflight' : \E was \in inflight :
           other = was \/ \E b : other = [was EXCEPT !.attached = b]
    BY <1>1 DEF Detached
  <2>2. \A was \in inflight : DOMAIN was = {"at", "target", "attached"}
    BY DEF Requests
  <2> QED BY <2>1, <2>2
<1>7. \A other \in inflight' : /\ IsRequest(other.at) /\ other.target \in Fragments
                               /\ DOMAIN other = {"at", "target", "attached"}
  BY <1>6 DEF Requests, TypeOK, Fragments
<1>8. scripted
  BY DEF Requests, TypeOK
<1>9. UNCHANGED <<config, served, scripted>> /\ cookie' \in {"", "light", "dark"} /\ clicks' \in 0 .. MaxClicks
  BY <1>1 DEF Requests, TypeOK
<1> HIDE DEF c
<1> QED BY <1>3, <1>4, <1>5, <1>7, <1>8, <1>9, SameEstateTyped

LEMMA StepTyped == Requests /\ [Next]_vars => Requests'
<1> SUFFICES ASSUME Requests, [Next]_vars PROVE Requests'
  OBVIOUS
<1>1. CASE Poll
  BY <1>1, ArrivalTyped DEF Poll
<1>2. CASE Push
  BY <1>2, ArrivalTyped DEF Push
<1>3. ASSUME Clicked PROVE clicks' \in 0 .. MaxClicks
  <2>1. clicks < MaxClicks /\ clicks' = clicks + 1
    BY <1>3 DEF Clicked
  <2>2. clicks \in 0 .. MaxClicks /\ MaxClicks \in Nat
    BY BoundsAssumption DEF Requests, TypeOK
  <2> QED BY <2>1, <2>2
<1>4. ASSUME NEW control \in Controls PROVE IsRequest(control.at)
  BY ControlAsks DEF Requests, TypeOK
<1>5. CASE Follow
  <2>1. PICK control \in Controls : Load(control.at)
    BY <1>5 DEF Follow
  <2>2. UNCHANGED <<config, served, scripted>> /\ cookie' \in {"", "light", "dark"} /\ Clicked
    BY <1>5 DEF Follow, Requests, TypeOK
  <2> QED BY <1>3, <1>4, <2>1, <2>2, LoadTyped
<1>6. CASE Ask
  <2>1. PICK control \in Controls :
           inflight' = inflight \cup {[target |-> control.target, at |-> control.at, attached |-> TRUE]}
           /\ control.target # "page"
    BY <1>6 DEF Ask
  <2>2. PICK asked : asked = [target |-> control.target, at |-> control.at, attached |-> TRUE]
    OBVIOUS
  <2>3. scripted /\ clicks' \in 0 .. MaxClicks
    BY <1>3, <1>6 DEF Ask
  <2>4. asked.target \in Fragments /\ IsRequest(asked.at) /\ DOMAIN asked = {"target", "at", "attached"}
    BY <1>4, <2>1, <2>2, <2>3, ControlTargets
  <2>5. inflight' = inflight \cup {asked} /\ UNCHANGED <<config, served, scripted, address, shown, cookie>>
    BY <1>6, <2>1, <2>2 DEF Ask
  <2> QED BY <2>3, <2>4, <2>5 DEF Requests, TypeOK, Fragments, Domain, Latest
<1>7. CASE Answer
  BY <1>7, AnswerTyped
<1>8. CASE ToggleTheme
  <2>1. clicks' \in 0 .. MaxClicks /\ UNCHANGED <<config, served, scripted, address, inflight, overlapped>>
    BY <1>3, <1>8 DEF ToggleTheme
  <2>2. cookie' \in {"light", "dark"}
    BY <1>8 DEF ToggleTheme, OtherTheme
  <2>3. \E theme : shown' = [shown EXCEPT !["page"].theme = theme]
    BY <1>8 DEF ToggleTheme
  <2>4. DOMAIN shown' = Regions
        /\ \A region \in Regions : /\ shown'[region].at = shown[region].at
                                   /\ shown'[region].of = shown[region].of
                                   /\ DOMAIN shown'[region] = DOMAIN shown[region]
    BY <2>3 DEF Requests
  <2> QED BY <2>1, <2>2, <2>4 DEF Requests, TypeOK, Domain, Latest
<1>9. CASE CloseDrawer
  <2>1. clicks' \in 0 .. MaxClicks /\ UNCHANGED <<config, served, scripted, cookie>>
    BY <1>3, <1>9 DEF CloseDrawer
  <2>2. IsRequest(address')
    BY <1>9, ClosedIsRequest DEF CloseDrawer, Requests, TypeOK
  <2>3. shown' = [shown EXCEPT !["drawer"].at.service = ""]
    BY <1>9 DEF CloseDrawer
  <2>4. DOMAIN shown' = Regions
        /\ \A region \in Regions : /\ shown'[region].at.params = shown[region].at.params
                                   /\ DOMAIN shown'[region].at = DOMAIN shown[region].at
                                   /\ shown'[region].of = shown[region].of
                                   /\ DOMAIN shown'[region] = DOMAIN shown[region]
    BY ZenonT(40), <2>3 DEF Requests, TypeOK, IsRequest
  <2>5. \A other \in inflight' : \E was \in inflight :
           other.at = was.at /\ other.target = was.target /\ DOMAIN other = DOMAIN was
    <3>1. \A other \in inflight' : \E was \in inflight : \E b : other = [was EXCEPT !.attached = b]
      BY <1>9 DEF CloseDrawer, Detached
    <3> QED BY <3>1 DEF Requests
  <2>6. inflight = {} => inflight' = {}
    BY <1>9 DEF CloseDrawer, Detached
  <2>7. \A region \in Regions : /\ IsRequest(shown'[region].at) /\ shown'[region].of \in 1 .. Latest
                               /\ DOMAIN shown'[region] = {"at", "of", "theme"}
    BY <2>4 DEF Requests, TypeOK, IsRequest
  <2>8. \A r \in inflight' : /\ IsRequest(r.at) /\ r.target \in Fragments
                            /\ DOMAIN r = {"at", "target", "attached"}
    BY <2>5 DEF Requests, TypeOK, Fragments
  <2>9. UNCHANGED <<config, served, scripted>> /\ cookie' \in {"", "light", "dark"}
        /\ (~scripted => inflight' = {})
    BY <2>1, <2>6 DEF Requests, TypeOK
  <2> QED BY <2>1, <2>2, <2>4, <2>7, <2>8, <2>9, SameEstateTyped
<1>10. CASE Reload
  <2>1. Load(address) /\ UNCHANGED <<config, served, scripted, cookie>> /\ clicks' \in 0 .. MaxClicks
    BY <1>3, <1>10 DEF Reload
  <2> QED BY <2>1, LoadTyped DEF Requests, TypeOK
<1>11. CASE UNCHANGED vars
  <2>1. UNCHANGED <<config, served, scripted, address, shown, cookie, inflight, clicks>>
    BY <1>11 DEF vars
  <2>2. \A r \in inflight' : /\ IsRequest(r.at) /\ r.target \in Fragments
                            /\ DOMAIN r = {"at", "target", "attached"}
    BY <2>1 DEF Requests, TypeOK, Fragments
  <2>3. \A region \in Regions : /\ IsRequest(shown'[region].at) /\ shown'[region].of \in 1 .. Latest
                               /\ DOMAIN shown'[region] = {"at", "of", "theme"}
    BY <2>1 DEF Requests, TypeOK
  <2>4. /\ IsRequest(address') /\ cookie' \in {"", "light", "dark"} /\ clicks' \in 0 .. MaxClicks
        /\ DOMAIN shown' = Regions /\ (~scripted => inflight' = {})
    BY <2>1 DEF Requests, TypeOK
  <2>5. UNCHANGED <<config, served, scripted>>
    BY <2>1
  <2> QED BY <2>2, <2>3, <2>4, <2>5, SameEstateTyped
<1> QED BY <1>1, <1>2, <1>5, <1>6, <1>7, <1>8, <1>9, <1>10, <1>11 DEF Next

(* What an address names, what any region was drawn for and what is under   *)
(* way are requests the dashboard wrote, for every configuration, estate,   *)
(* number of clicks and order of answers (queryWith, readParams, the forms). *)
THEOREM PageTyped == Spec => []TypeOK
<1>1. Requests => TypeOK
  BY DEF Requests
<1> QED BY InitTyped, StepTyped, <1>1, PTL DEF Spec

-----------------------------------------------------------------------------
(* A fragment and the address it pushed *)

Alike(a, b, names) ==
    \A name \in names : Get(a, name) = Get(b, name) /\ All(a, name) = All(b, name)

(* A state is a record of what a query says of each field. *)
LEMMA StateShape ==
    ASSUME NEW d, NEW service, NEW query, NEW theme
    PROVE  LET st == ReadState(d, service, query, theme)
           IN  st = [field \in DOMAIN st |-> st[field]]
<1> DEFINE asked == Get(query, "scope")
           scope == IF asked \in d.scopes THEN asked ELSE d.defaultScope
           sort  == IF Get(query, "sort") = "" THEN "rank" ELSE Get(query, "sort")
           dir   == IF Get(query, "dir") \in {"asc", "desc"} THEN Get(query, "dir") ELSE DefaultDirection(sort)
           role  == RoleFor(d, Get(query, "role"))
           region == RegionOr(Get(query, "region"), scope, d)
           period == PeriodOr(Get(query, "period"), d)
           filter == [status |-> KnownValues(All(query, "status"), Statuses),
                      cat    |-> KnownValues(All(query, "cat"), Range(d.categories)),
                      id     |-> SplitValues(All(query, "id")),
                      q      |-> IF Get(query, "q") = "" THEN {} ELSE {Get(query, "q")}]
           signals == SignalTabFor(d, Get(query, "signals"))
           locale  == IF Get(query, "lang") \in Range(d.locales) THEN Get(query, "lang") ELSE d.locales[1]
           look    == ReadTheme(Get(query, "theme"), theme)
           filters == Get(query, "filters") = "open"
           tab     == Get(query, "tab")
<1>1. ReadState(d, service, query, theme) =
        [scope |-> scope, role |-> role, region |-> region, period |-> period, sort |-> sort, dir |-> dir,
         filter |-> filter, signals |-> signals, locale |-> locale, theme |-> look, filters |-> filters,
         service |-> service, tab |-> tab]
  BY Zenon DEF ReadState
<1> HIDE DEF scope, sort, dir, role, region, period, filter, signals, locale, look, filters, tab
<1> QED BY <1>1

LEMMA StateFields ==
    ASSUME NEW d, NEW service, NEW query, NEW theme
    PROVE  DOMAIN ReadState(d, service, query, theme) =
             {"scope", "role", "region", "period", "sort", "dir", "filter", "signals", "locale",
              "theme", "filters", "service", "tab"}
  BY DEF ReadState

(* Two records of a state that differ in the tab alone. *)
LEMMA OtherTab ==
    ASSUME NEW s, NEW t, DOMAIN s = DOMAIN t, "tab" \in DOMAIN s,
           s = [field \in DOMAIN s |-> s[field]], t = [field \in DOMAIN t |-> t[field]],
           \A field \in DOMAIN s \ {"tab"} : s[field] = t[field]
    PROVE  t = [s EXCEPT !.tab = t.tab]
  OBVIOUS

(* What a deployment makes of two queries that differ in the tab alone. *)
LEMMA ReadAlike ==
    ASSUME NEW d, NEW service, NEW theme, NEW a, NEW b, Alike(a, b, Params \ {"tab"})
    PROVE  ReadState(d, service, b, theme) = [ReadState(d, service, a, theme) EXCEPT !.tab = Get(b, "tab")]
<1> DEFINE s == ReadState(d, service, a, theme)
           t == ReadState(d, service, b, theme)
<1>1. \A name \in {"scope", "role", "id", "signals", "region", "period", "q", "status", "cat", "sort",
                   "dir", "lang", "filters", "theme"} :
         Get(a, name) = Get(b, name) /\ All(a, name) = All(b, name)
  BY DEF Alike, Params
<1>2. /\ Get(a, "scope") = Get(b, "scope") /\ Get(a, "role") = Get(b, "role")
      /\ Get(a, "region") = Get(b, "region") /\ Get(a, "period") = Get(b, "period")
      /\ Get(a, "sort") = Get(b, "sort") /\ Get(a, "dir") = Get(b, "dir")
      /\ Get(a, "q") = Get(b, "q") /\ Get(a, "signals") = Get(b, "signals")
      /\ Get(a, "lang") = Get(b, "lang") /\ Get(a, "theme") = Get(b, "theme")
      /\ Get(a, "filters") = Get(b, "filters") /\ All(a, "status") = All(b, "status")
      /\ All(a, "cat") = All(b, "cat") /\ All(a, "id") = All(b, "id")
  BY <1>1
<1>3. /\ s.scope = t.scope /\ s.role = t.role /\ s.region = t.region /\ s.period = t.period
      /\ s.sort = t.sort /\ s.dir = t.dir /\ s.filter = t.filter /\ s.signals = t.signals
      /\ s.locale = t.locale /\ s.theme = t.theme /\ s.filters = t.filters /\ s.service = t.service
      /\ t.tab = Get(b, "tab")
  BY ZenonT(40), <1>2 DEF ReadState
<1>4. DOMAIN s = DOMAIN t /\ "tab" \in DOMAIN s
      /\ DOMAIN s = {"scope", "role", "region", "period", "sort", "dir", "filter", "signals", "locale",
                     "theme", "filters", "service", "tab"}
  BY StateFields
<1>5. s = [field \in DOMAIN s |-> s[field]] /\ t = [field \in DOMAIN t |-> t[field]]
  BY StateShape
<1> HIDE DEF s, t
<1>6. \A field \in DOMAIN s \ {"tab"} : s[field] = t[field]
  BY <1>3, <1>4
<1>7. t = [s EXCEPT !.tab = t.tab]
  BY <1>4, <1>5, <1>6, OtherTab
<1> QED BY <1>3, <1>7 DEF s, t

LEMMA TabDropped ==
    ASSUME NEW params, Written(params)
    PROVE  LET without == ParamsWith(params, [tab |-> <<>>])
           IN  Written(without) /\ Alike(params, without, Params \ {"tab"})
<1> DEFINE without == ParamsWith(params, [tab |-> <<>>])
<1>1. /\ DOMAIN without = DOMAIN params \ {"tab"}
      /\ without = [name \in DOMAIN without |-> without[name]]
      /\ \A name \in DOMAIN without : without[name] = params[name]
  BY DEF ParamsWith
<1> HIDE DEF without
<1>2. Written(without)
  BY <1>1 DEF Written
<1>3. Alike(params, without, Params \ {"tab"})
  BY <1>1 DEF Alike, Get, All
<1> QED BY <1>2, <1>3 DEF without

LEMMA SelectionShape ==
    ASSUME NEW d, NEW all, NEW request, NEW st
    PROVE  LET c == Selection(d, all, request, st)
           IN  c = [d |-> c.d, all |-> c.all, state |-> c.state, params |-> c.params, days |-> c.days,
                    scoped |-> c.scoped, roleScoped |-> c.roleScoped, demand |-> c.demand,
                    service |-> c.service]
<1> DEFINE Side(role) == Scope(d, Role(d, all, role), st.scope, st.region)
           named == {i \in DOMAIN all : all[i].id = st.service}
           params == ReadParams(request.params)
           days == DaysFor(d, st.period)
           scoped == Side(d.defaultRole)
           sided == Side(st.role)
           demand == Scope(d, Callers(all), st.scope, st.region)
           service == IF named = {} THEN <<>> ELSE <<all[Min(named)]>>
<1>1. Selection(d, all, request, st) =
        [d |-> d, all |-> all, state |-> st, params |-> params, days |-> days, scoped |-> scoped,
         roleScoped |-> sided, demand |-> demand, service |-> service]
  BY Zenon DEF Selection
<1> HIDE DEF params, days, scoped, sided, demand, service
<1> QED BY <1>1

(* What a selection is made from: the state, but for its tab and its theme. *)
LEMMA SelectionAlike ==
    ASSUME NEW d, NEW all, NEW a, NEW b, NEW s, NEW t,
           \A field \in {"scope", "region", "role", "period", "service"} : s[field] = t[field]
    PROVE  Selection(d, all, b, t)
             = [Selection(d, all, a, s) EXCEPT !.state = t, !.params = ReadParams(b.params)]
<1> DEFINE S == Selection(d, all, a, s)
           T == Selection(d, all, b, t)
<1>1. /\ s.scope = t.scope /\ s.region = t.region /\ s.role = t.role
      /\ s.period = t.period /\ s.service = t.service
  OBVIOUS
<1>2. /\ S.d = T.d /\ S.all = T.all /\ S.days = T.days /\ S.scoped = T.scoped
      /\ S.roleScoped = T.roleScoped /\ S.demand = T.demand /\ S.service = T.service
      /\ T.state = t /\ T.params = ReadParams(b.params)
  BY <1>1 DEF Selection
<1>3. S = [d |-> S.d, all |-> S.all, state |-> S.state, params |-> S.params, days |-> S.days,
           scoped |-> S.scoped, roleScoped |-> S.roleScoped, demand |-> S.demand, service |-> S.service]
  BY SelectionShape
<1>4. T = [d |-> T.d, all |-> T.all, state |-> T.state, params |-> T.params, days |-> T.days,
           scoped |-> T.scoped, roleScoped |-> T.roleScoped, demand |-> T.demand, service |-> T.service]
  BY SelectionShape
<1> HIDE DEF S, T
<1>5. T = [S EXCEPT !.state = t, !.params = ReadParams(b.params)]
  BY <1>2, <1>3, <1>4
<1> QED BY <1>5 DEF S, T

LEMMA SameFunction ==
    ASSUME NEW f, NEW g, DOMAIN f = DOMAIN g,
           f = [x \in DOMAIN f |-> f[x]], g = [x \in DOMAIN g |-> g[x]],
           \A x \in DOMAIN f : f[x] = g[x]
    PROVE  f = g
<1>1. [x \in DOMAIN f |-> f[x]] = [x \in DOMAIN g |-> g[x]]
  OBVIOUS
<1> QED BY <1>1

(* A function with one value replaced. *)
LEMMA OneReplaced ==
    ASSUME NEW f, NEW x \in DOMAIN f, NEW v, NEW g, g = [f EXCEPT ![x] = v]
    PROVE  /\ DOMAIN g = DOMAIN f /\ g = [y \in DOMAIN g |-> g[y]]
           /\ g[x] = v /\ \A y \in DOMAIN f \ {x} : g[y] = f[y]
  OBVIOUS

LEMMA BareFields ==
    ASSUME NEW c, {"state", "params"} \subseteq DOMAIN c, "theme" \in DOMAIN c.state
    PROVE  LET b == Bare(c)
           IN  /\ DOMAIN b = DOMAIN c /\ b = [field \in DOMAIN b |-> b[field]]
               /\ b.params = None
               /\ \A field \in DOMAIN c \ {"state", "params"} : b[field] = c[field]
               /\ DOMAIN b.state = DOMAIN c.state /\ b.state = [field \in DOMAIN b.state |-> b.state[field]]
               /\ b.state.theme = ""
               /\ \A field \in DOMAIN c.state \ {"theme"} : b.state[field] = c.state[field]
<1> DEFINE look == [c.state EXCEPT !.theme = ""]
<1>1. /\ DOMAIN look = DOMAIN c.state /\ look = [field \in DOMAIN look |-> look[field]]
      /\ look.theme = "" /\ \A field \in DOMAIN c.state \ {"theme"} : look[field] = c.state[field]
  OBVIOUS
<1>2. Bare(c) = [field \in DOMAIN c |-> IF field = "state" THEN look ELSE IF field = "params" THEN None ELSE c[field]]
  BY DEF Bare
<1> HIDE DEF look
<1> QED BY <1>1, <1>2

(* Two contexts that differ in where links lead, the theme and the tab. *)
LEMMA BareAlike ==
    ASSUME NEW S, NEW T, DOMAIN S = DOMAIN T,
           {"state", "params", "service"} \subseteq DOMAIN S,
           \A field \in DOMAIN S \ {"state", "params"} : S[field] = T[field],
           {"theme", "tab"} \subseteq DOMAIN S.state, DOMAIN S.state = DOMAIN T.state,
           \A field \in DOMAIN S.state \ {"theme", "tab"} : S.state[field] = T.state[field]
    PROVE  /\ Untabbed(Bare(S)) = Untabbed(Bare(T))
           /\ S.state.tab = T.state.tab => Bare(S) = Bare(T)
           /\ Bare(S).service = S.service /\ Bare(T).service = S.service
<1> DEFINE a == Bare(S)
           b == Bare(T)
<1>1. /\ DOMAIN a = DOMAIN S /\ a = [field \in DOMAIN a |-> a[field]] /\ a.params = None
      /\ \A field \in DOMAIN S \ {"state", "params"} : a[field] = S[field]
      /\ DOMAIN a.state = DOMAIN S.state /\ a.state = [field \in DOMAIN a.state |-> a.state[field]]
      /\ a.state.theme = ""
      /\ \A field \in DOMAIN S.state \ {"theme"} : a.state[field] = S.state[field]
  BY BareFields
<1>2. /\ DOMAIN b = DOMAIN S /\ b = [field \in DOMAIN b |-> b[field]] /\ b.params = None
      /\ \A field \in DOMAIN S \ {"state", "params"} : b[field] = S[field]
      /\ DOMAIN b.state = DOMAIN S.state /\ b.state = [field \in DOMAIN b.state |-> b.state[field]]
      /\ b.state.theme = ""
      /\ \A field \in DOMAIN S.state \ {"theme"} : b.state[field] = T.state[field]
  <2>1. /\ DOMAIN b = DOMAIN T /\ b = [field \in DOMAIN b |-> b[field]] /\ b.params = None
        /\ \A field \in DOMAIN T \ {"state", "params"} : b[field] = T[field]
        /\ DOMAIN b.state = DOMAIN T.state /\ b.state = [field \in DOMAIN b.state |-> b.state[field]]
        /\ b.state.theme = ""
        /\ \A field \in DOMAIN T.state \ {"theme"} : b.state[field] = T.state[field]
    BY BareFields
  <2> HIDE DEF b
  <2> QED BY <2>1
<1> HIDE DEF a, b
<1>3. \A field \in DOMAIN S \ {"state"} : a[field] = b[field]
  BY <1>1, <1>2
<1>4. \A field \in DOMAIN S.state \ {"tab"} : a.state[field] = b.state[field]
  BY <1>1, <1>2
<1>5. S.state.tab = T.state.tab => a = b
  <2> SUFFICES ASSUME S.state.tab = T.state.tab PROVE a = b
    OBVIOUS
  <2>1. \A field \in DOMAIN S.state : a.state[field] = b.state[field]
    BY ZenonT(40), <1>1, <1>2, <1>4
  <2>2. a.state = b.state
    BY ZenonT(40), <1>1, <1>2, <2>1, SameFunction
  <2>3. \A field \in DOMAIN S : a[field] = b[field]
    BY <1>3, <2>2
  <2> QED BY ZenonT(40), <1>1, <1>2, <2>3, SameFunction
<1>6. Untabbed(a) = Untabbed(b)
  <2> DEFINE x == [a.state EXCEPT !.tab = ""]
             y == [b.state EXCEPT !.tab = ""]
  <2>1. /\ DOMAIN x = DOMAIN S.state /\ x = [field \in DOMAIN x |-> x[field]] /\ x.tab = ""
        /\ \A field \in DOMAIN S.state \ {"tab"} : x[field] = a.state[field]
    BY <1>1, OneReplaced
  <2>2. /\ DOMAIN y = DOMAIN S.state /\ y = [field \in DOMAIN y |-> y[field]] /\ y.tab = ""
        /\ \A field \in DOMAIN S.state \ {"tab"} : y[field] = b.state[field]
    BY <1>2, OneReplaced
  <2>3. Untabbed(a) = [a EXCEPT !.state = x] /\ Untabbed(b) = [b EXCEPT !.state = y]
    BY DEF Untabbed
  <2> HIDE DEF x, y
  <2>4. \A field \in DOMAIN S.state : x[field] = y[field]
    BY <1>4, <2>1, <2>2
  <2>5. x = y
    BY ZenonT(40), <2>1, <2>2, <2>4, SameFunction
  <2> DEFINE u == Untabbed(a)
             v == Untabbed(b)
  <2>6. /\ DOMAIN u = DOMAIN S /\ u = [field \in DOMAIN u |-> u[field]] /\ u.state = x
        /\ \A field \in DOMAIN S \ {"state"} : u[field] = a[field]
    BY ZenonT(40), <1>1, <2>3, OneReplaced
  <2>7. /\ DOMAIN v = DOMAIN S /\ v = [field \in DOMAIN v |-> v[field]] /\ v.state = y
        /\ \A field \in DOMAIN S \ {"state"} : v[field] = b[field]
    BY ZenonT(40), <1>2, <2>3, OneReplaced
  <2> HIDE DEF u, v
  <2>8. u = v
    BY <1>3, <2>5, <2>6, <2>7, SameFunction
  <2> QED BY <2>8 DEF u, v
<1>7. a.service = S.service /\ b.service = S.service
  BY <1>1, <1>2
<1> QED BY <1>5, <1>6, <1>7 DEF a, b

(* The themes are the only difference between a rendering and a selection. *)
LEMMA ThemedFields ==
    ASSUME NEW S, NEW look, "state" \in DOMAIN S, "theme" \in DOMAIN S.state
    PROVE  LET c == Themed(S, look)
           IN  /\ DOMAIN c = DOMAIN S /\ DOMAIN c.state = DOMAIN S.state
               /\ \A field \in DOMAIN S \ {"state"} : c[field] = S[field]
               /\ \A field \in DOMAIN S.state \ {"theme"} : c.state[field] = S.state[field]
<1>1. Themed(S, look) = [S EXCEPT !.state = [S.state EXCEPT !.theme = look]]
  BY DEF Themed
<1> QED BY <1>1

LEMMA SelectionFields ==
    ASSUME NEW d, NEW all, NEW request, NEW st
    PROVE  LET S == Selection(d, all, request, st)
           IN  /\ DOMAIN S = {"d", "all", "state", "params", "days", "scoped", "roleScoped", "demand", "service"}
               /\ S.state = st /\ S.params = ReadParams(request.params)
  BY DEF Selection

LEMMA SelectionsAgree ==
    ASSUME NEW d, NEW all, NEW a, NEW b, NEW s, NEW t,
           \A field \in {"scope", "region", "role", "period", "service"} : s[field] = t[field]
    PROVE  LET S == Selection(d, all, a, s)
               T == Selection(d, all, b, t)
           IN  \A field \in DOMAIN S \ {"state", "params"} : S[field] = T[field]
<1> DEFINE S == Selection(d, all, a, s)
           T == Selection(d, all, b, t)
<1>1. /\ s.scope = t.scope /\ s.region = t.region /\ s.role = t.role
      /\ s.period = t.period /\ s.service = t.service
  OBVIOUS
<1>2. /\ S.d = T.d /\ S.all = T.all /\ S.days = T.days /\ S.scoped = T.scoped
      /\ S.roleScoped = T.roleScoped /\ S.demand = T.demand /\ S.service = T.service
  BY <1>1 DEF Selection
<1>3. DOMAIN S = {"d", "all", "state", "params", "days", "scoped", "roleScoped", "demand", "service"}
  BY SelectionFields
<1> HIDE DEF S, T
<1> QED BY <1>2, <1>3 DEF S, T

(* Two requests that differ in the tab alone draw the same page, but for the *)
(* tab; and the same drawer if that is the same, too.                       *)
LEMMA DrawnAlike ==
    ASSUME NEW d, NEW all, NEW a, NEW b, NEW theme, NEW look,
           a.service = b.service, Alike(a.params, b.params, Params \ {"tab"})
    PROVE  LET c == Themed(Build(d, all, a, theme), look)
               e == Build(d, all, b, theme)
           IN  /\ Untabbed(Bare(c)) = Untabbed(Bare(e))
               /\ Get(a.params, "tab") = Get(b.params, "tab") => Bare(c) = Bare(e)
               /\ Bare(c).service = c.service /\ Bare(e).service = c.service
<1> DEFINE s == ReadState(d, a.service, a.params, theme)
           t == ReadState(d, b.service, b.params, theme)
           S == Selection(d, all, a, s)
           T == Selection(d, all, b, t)
           c == Themed(S, look)
<1>1. t = [s EXCEPT !.tab = Get(b.params, "tab")]
  BY ReadAlike
<1>2. DOMAIN s = {"scope", "role", "region", "period", "sort", "dir", "filter", "signals", "locale",
                  "theme", "filters", "service", "tab"}
  BY StateFields
<1>3. s.tab = Get(a.params, "tab")
  BY DEF ReadState
<1>4. Build(d, all, a, theme) = S /\ Build(d, all, b, theme) = T
  BY DEF Build
<1> HIDE DEF s, t
<1>5. DOMAIN t = DOMAIN s /\ t.tab = Get(b.params, "tab") /\ \A field \in DOMAIN s \ {"tab"} : s[field] = t[field]
  BY <1>1, <1>2
<1>6. \A field \in {"scope", "region", "role", "period", "service"} : s[field] = t[field]
  BY <1>2, <1>5
<1>7. /\ DOMAIN S = {"d", "all", "state", "params", "days", "scoped", "roleScoped", "demand", "service"}
      /\ DOMAIN T = DOMAIN S /\ S.state = s /\ T.state = t
  BY SelectionFields
<1>8. \A field \in DOMAIN S \ {"state", "params"} : S[field] = T[field]
  BY <1>6, SelectionsAgree
<1> HIDE DEF S, T
<1>9. /\ DOMAIN c = DOMAIN S /\ DOMAIN c.state = DOMAIN s
      /\ \A field \in DOMAIN S \ {"state"} : c[field] = S[field]
      /\ \A field \in DOMAIN s \ {"theme"} : c.state[field] = s[field]
  BY <1>2, <1>7, ThemedFields
<1> HIDE DEF c
<1>10. /\ Untabbed(Bare(c)) = Untabbed(Bare(T))
       /\ c.state.tab = T.state.tab => Bare(c) = Bare(T)
       /\ Bare(c).service = c.service /\ Bare(T).service = c.service
  <2>1. DOMAIN c = DOMAIN T /\ {"state", "params", "service"} \subseteq DOMAIN c
    BY <1>7, <1>9
  <2>2. \A field \in DOMAIN c \ {"state", "params"} : c[field] = T[field]
    BY <1>8, <1>9
  <2>3. {"theme", "tab"} \subseteq DOMAIN c.state /\ DOMAIN c.state = DOMAIN T.state
    BY <1>2, <1>5, <1>7, <1>9
  <2>4. \A field \in DOMAIN c.state \ {"theme", "tab"} : c.state[field] = T.state[field]
    BY <1>5, <1>7, <1>9
  <2> QED BY <2>1, <2>2, <2>3, <2>4, BareAlike
<1>11. c.state.tab = Get(a.params, "tab") /\ T.state.tab = Get(b.params, "tab")
  BY <1>2, <1>3, <1>5, <1>7, <1>9
<1> QED BY <1>4, <1>10, <1>11 DEF c

(* While the address a fragment pushed is the one in the bar, opening it     *)
(* shows what the fragment shows, for every configuration, estate and       *)
(* history of clicks (pushURL, queryWith, ReadState).                       *)
THEOREM FragmentsMatchAddresses == Spec => []SwapMatchesAddress
<1>1. Requests => SwapMatchesAddress
  <2> SUFFICES ASSUME Requests, NEW region \in Regions, shown[region].of = Latest,
                      PushUrl(ContextOf(shown[region]), shown[region].at.service) = address
               PROVE  Visible(region, ContextOf(shown[region])) = Visible(region, Fresh(address))
    BY DEF SwapMatchesAddress
  <2> DEFINE r == shown[region]
             c == ContextOf(r)
             e == Fresh(address)
             without == ParamsWith(r.at.params, [tab |-> <<>>])
  <2>1. IsRequest(r.at) /\ IsList(Domain.categories)
    BY DEF Requests, TypeOK
  <2>2. c.params = r.at.params /\ Written(r.at.params)
    BY <2>1, ContextReady DEF IsRequest
  <2>3. Written(without) /\ Alike(r.at.params, without, Params \ {"tab"})
    BY <2>2, TabDropped
  <2>4. /\ address.service = r.at.service
        /\ address.params = IF c.service = <<>> THEN without ELSE r.at.params
    <3>1. ReadParams(without) = without /\ ReadParams(r.at.params) = r.at.params
      BY <2>2, <2>3, WrittenIsRead
    <3>2. address = Link(r.at.service, IF c.service = <<>> THEN without ELSE r.at.params)
      BY <2>2 DEF PushUrl
    <3> HIDE DEF c, without, r
    <3> QED BY <3>1, <3>2 DEF Link
  <2>5. Alike(r.at.params, address.params, Params \ {"tab"})
    <3> HIDE DEF c, without, r
    <3> QED BY <2>3, <2>4 DEF Alike
  <2>6. /\ Untabbed(Bare(c)) = Untabbed(Bare(e))
        /\ Get(r.at.params, "tab") = Get(address.params, "tab") => Bare(c) = Bare(e)
        /\ Bare(c).service = c.service /\ Bare(e).service = c.service
    <3>1. c = Themed(Build(Domain, served[Latest].services, r.at, cookie), r.theme)
      BY DEF ContextOf
    <3>2. e = Build(Domain, served[Latest].services, address, cookie)
      BY DEF Fresh
    <3> DEFINE d == Domain
               all == served[Latest].services
               at == r.at
    <3>3. c = Themed(Build(d, all, at, cookie), r.theme) /\ e = Build(d, all, address, cookie)
      BY <3>1, <3>2
    <3>4. at.service = address.service /\ Alike(at.params, address.params, Params \ {"tab"})
      BY <2>4, <2>5
    <3> HIDE DEF c, e, without, at, d, all
    <3>5. /\ Untabbed(Bare(Themed(Build(d, all, at, cookie), r.theme))) = Untabbed(Bare(Build(d, all, address, cookie)))
          /\ Get(at.params, "tab") = Get(address.params, "tab")
               => Bare(Themed(Build(d, all, at, cookie), r.theme)) = Bare(Build(d, all, address, cookie))
          /\ Bare(Themed(Build(d, all, at, cookie), r.theme)).service = Themed(Build(d, all, at, cookie), r.theme).service
          /\ Bare(Build(d, all, address, cookie)).service = Themed(Build(d, all, at, cookie), r.theme).service
      BY <3>4, DrawnAlike
    <3> QED BY <3>3, <3>5 DEF at
  <2> HIDE DEF c, e, without, r
  <2>7. CASE region # "drawer"
    BY <2>6, <2>7 DEF Visible, c, e, r
  <2>8. CASE region = "drawer" /\ c.service # <<>>
    <3>1. Bare(c) = Bare(e)
      BY <2>4, <2>6, <2>8
    <3> QED BY <2>8, <3>1 DEF Visible, c, e, r
  <2>9. CASE region = "drawer" /\ c.service = <<>>
    <3>1. Pane(Bare(c), config.layout) = Pane(Bare(e), config.layout)
      BY <2>6, <2>9 DEF Pane
    <3> QED BY <2>9, <3>1 DEF Visible, c, e, r
  <2> QED BY <2>7, <2>8, <2>9
<1> QED BY InitTyped, StepTyped, <1>1, PTL DEF Spec

-----------------------------------------------------------------------------
(* What narrows the board *)

(* What an accepted configuration says of the board's filters. *)
LEMMA AcceptedBoard ==
    ASSUME RuleAbiding
    PROVE  Range(Domain.statusOrder) = Statuses /\ IsList(Domain.regions)
<1>1. config \in Configs /\ Problems(config) = {} /\ Domain = config.domain
  BY DEF RuleAbiding, Domain
<1>2. StatusProblems(Domain) = {} /\ IsList(Domain.regions)
  BY <1>1, ConfigsAssumption DEF Problems, DomainProblems
<1> QED BY <1>2 DEF StatusProblems, Unless

(* The region that narrows the board is one of those the filter bar offers,  *)
(* where it offers any.                                                     *)
LEMMA RegionIsOffered ==
    ASSUME NEW c, c.d.showRegions, IsList(c.d.regions), NEW got,
           c.state.region = RegionOr(got, c.state.scope, c.d),
           c.state.region # ""
    PROVE  FilterBar(c).enabled /\ \E x \in Range(FilterBar(c).regions) : x.active
<1> DEFINE d == c.d
           places == {i \in DOMAIN d.regions :
                        d.showRegions /\ d.regions[i].scope \in {c.state.scope, d.defaultScope}}
           named == Kept(d.regions, places)
           offered == FilterBar(c).regions
<1>1. c.state.scope # d.defaultScope /\ c.state.region = got
  BY DEF RegionOr
<1>2. PICK i \in DOMAIN d.regions : d.regions[i].id = got /\ d.regions[i].scope \in {c.state.scope, d.defaultScope}
  BY DEF RegionOr
<1>3. Range(named) = {d.regions[k] : k \in DOMAIN d.regions \cap places}
  BY KeptSound DEF IsList
<1>4. d.regions[i] \in Range(named)
  BY <1>2, <1>3
<1>5. offered = [k \in DOMAIN named |-> [id |-> named[k].id, active |-> named[k].id = c.state.region]]
  BY DEF FilterBar
<1>6. FilterBar(c).enabled
  BY <1>1 DEF FilterBar, RegionEnabled
<1>7. PICK k \in DOMAIN named : named[k] = d.regions[i]
  <2> HIDE DEF named
  <2> QED BY <1>4 DEF Range
<1>8. offered[k] = [id |-> named[k].id, active |-> TRUE] /\ DOMAIN offered = DOMAIN named
  <2> HIDE DEF named, offered
  <2> QED BY <1>1, <1>2, <1>5, <1>7
<1>9. offered[k] \in Range(offered)
  <2> HIDE DEF named, offered
  <2> QED BY <1>8 DEF Range
<1>10. offered[k].active
  <2> DEFINE item == [id |-> named[k].id, active |-> TRUE]
  <2>1. item.active
    OBVIOUS
  <2>2. offered[k] = item
    BY <1>8
  <2> HIDE DEF named, offered, item
  <2> QED BY <2>1, <2>2, Zenon
<1> HIDE DEF offered
<1>11. \E x \in Range(offered) : x.active
  BY <1>9, <1>10, Zenon
<1> QED BY <1>6, <1>11 DEF offered

LEMMA NoValues == SplitValues(<<>>) = {}
  BY DEF SplitValues

(* What the clear link leaves of a filter. *)
LEMMA ClearedLeavesNothing ==
    ASSUME NEW params, Written(params), NEW d, NEW theme,
           NEW changed, DOMAIN changed = {"q", "status", "cat", "id"}, \A p \in DOMAIN changed : changed[p] = <<>>
    PROVE  LET left == Link("", ParamsWith(params, changed))
           IN  ~Active(ReadState(d, left.service, left.params, theme).filter)
<1> DEFINE left == ReadParams(ParamsWith(params, changed))
           st == ReadState(d, "", left, theme)
<1>1. DOMAIN left \cap {"q", "status", "cat", "id"} = {}
  <2>1. DOMAIN ParamsWith(params, changed) = DOMAIN params \ {"q", "status", "cat", "id"}
    BY DEF ParamsWith
  <2>2. DOMAIN left \subseteq DOMAIN ParamsWith(params, changed)
    BY DEF ReadParams
  <2> QED BY <2>1, <2>2
<1>2. Link("", ParamsWith(params, changed)).service = "" /\ Link("", ParamsWith(params, changed)).params = left
  BY DEF Link
<1> HIDE DEF left
<1>3. Get(left, "q") = "" /\ All(left, "status") = <<>> /\ All(left, "cat") = <<>> /\ All(left, "id") = <<>>
  BY <1>1 DEF Get, All
<1>4. st.filter = [status |-> {}, cat |-> {}, id |-> {}, q |-> {}]
  <2>1. st.filter = [status |-> KnownValues(All(left, "status"), Statuses),
                     cat |-> KnownValues(All(left, "cat"), Range(d.categories)),
                     id |-> SplitValues(All(left, "id")),
                     q |-> IF Get(left, "q") = "" THEN {} ELSE {Get(left, "q")}]
    BY DEF ReadState
  <2> HIDE DEF st
  <2> QED BY <1>3, <2>1, NoValues DEF KnownValues
<1> HIDE DEF st
<1>5. ~Active(st.filter)
  BY <1>4 DEF Active, Chosen
<1> QED BY <1>2, <1>5, Zenon DEF st

(* Whatever narrows the board besides ids is shown and can be undone from    *)
(* the board, for every configuration and address; a region, wherever the   *)
(* board has a region select (regionOr, filterBar, queryWith).              *)
THEOREM BoardCanBeWidened == Spec => []NarrowingCanBeUndone
<1>1. Requests /\ RuleAbiding => NarrowingCanBeUndone
  <2> SUFFICES ASSUME Requests, RuleAbiding PROVE NarrowingCanBeUndone
    OBVIOUS
  <2> DEFINE r == shown["leaderboard"]
             c == ContextOf(r)
             d == Domain
             st == ReadState(d, r.at.service, r.at.params, cookie)
             bar == FilterBar(c)
  <2>1. IsRequest(r.at) /\ IsList(d.categories) /\ Range(d.statusOrder) = Statuses /\ IsList(d.regions)
    BY AcceptedBoard DEF Requests, TypeOK, Regions
  <2>2. c.params = r.at.params /\ Written(c.params)
    BY <2>1, ContextReady DEF IsRequest
  <2>3. c.d = d /\ c.state.scope = st.scope /\ c.state.region = st.region /\ c.state.filter = st.filter
    <3>1. c.d = Domain /\ c.state = [st EXCEPT !.theme = r.theme]
      BY ContextFields
    <3>2. {"scope", "region", "filter", "theme"} \subseteq DOMAIN st
      BY StateFields
    <3> HIDE DEF c, st, d
    <3> QED BY <3>1, <3>2 DEF d
  <2>4. /\ st.region = RegionOr(Get(r.at.params, "region"), st.scope, d)
        /\ st.filter.status \subseteq Statuses /\ st.filter.cat \subseteq Range(d.categories)
    BY DEF ReadState, KnownValues
  <2> HIDE DEF c, st, d, r
  <2>5. /\ DOMAIN bar.statuses = Range(d.statusOrder)
        /\ \A k \in st.filter.cat : k \in Range(d.categories) => k \in DOMAIN bar.categories
        /\ bar.clear = Active([st.filter EXCEPT !.id = {}])
        /\ bar.clearHref = Href(c, "", [p \in {"q", "status", "cat", "id"} |-> <<>>])
    BY <2>3 DEF FilterBar, RegionEnabled
  <2>6. d.showRegions /\ c.state.region # "" => bar.enabled /\ \E x \in Range(bar.regions) : x.active
    <3>1. IsList(c.d.regions) /\ c.state.region = RegionOr(Get(r.at.params, "region"), c.state.scope, c.d)
      BY <2>1, <2>3, <2>4
    <3>2. d.showRegions => c.d.showRegions
      BY <2>3
    <3> HIDE DEF bar
    <3> QED BY <3>1, <3>2, RegionIsOffered DEF bar
  <2>7. ~Active(ReadBack(bar.clearHref).filter)
    <3> DEFINE changed == [p \in {"q", "status", "cat", "id"} |-> <<>>]
    <3>1. bar.clearHref = Link("", ParamsWith(c.params, changed))
      BY <2>5 DEF Href
    <3>2. DOMAIN changed = {"q", "status", "cat", "id"} /\ \A p \in DOMAIN changed : changed[p] = <<>>
      OBVIOUS
    <3> HIDE DEF bar, changed
    <3> QED BY <2>2, <3>1, <3>2, ClearedLeavesNothing DEF ReadBack
  <2> HIDE DEF bar
  <2>8. NarrowingCanBeUndone <=>
          /\ d.showRegions /\ c.state.region # "" => bar.enabled /\ \E x \in Range(bar.regions) : x.active
          /\ c.state.filter.status \subseteq DOMAIN bar.statuses
          /\ c.state.filter.cat \subseteq DOMAIN bar.categories
          /\ Active([c.state.filter EXCEPT !.id = {}]) => bar.clear
          /\ bar.clear => ~Active(ReadBack(bar.clearHref).filter)
    BY Zenon DEF NarrowingCanBeUndone, bar, c, d, r
  <2> QED BY <2>1, <2>3, <2>4, <2>5, <2>6, <2>7, <2>8
<1> QED BY InitTyped, StepTyped, InitAbides, StepAbides, <1>1, PTL DEF Spec

-----------------------------------------------------------------------------
(* What a chip leads to *)

(* How many services a filter leaves. *)
LEMMA FilteredCount ==
    ASSUME NEW list, IsList(list), NEW filter
    PROVE  Len(Apply(list, filter)) = Cardinality({i \in DOMAIN list : Passes(list[i], filter)})
<1> DEFINE places == {i \in DOMAIN list : Passes(list[i], filter)}
<1>1. list \in Seq(Range(list))
  BY DEF IsList
<1>2. DOMAIN list \cap places = places
  OBVIOUS
<1>3. Len(Kept(list, places)) = Cardinality(DOMAIN list \cap places)
  BY <1>1, KeptSound
<1>4. Apply(list, filter) = Kept(list, places)
  BY DEF Apply
<1> QED BY <1>2, <1>3, <1>4

(* A board's population is a list when the estate is. *)
LEMMA ScopedIsList ==
    ASSUME NEW d, NEW all, IsList(all), NEW role, NEW scope, NEW region
    PROVE  IsList(Scope(d, Role(d, all, role), scope, region))
<1>1. IsList(Role(d, all, role))
  BY KeptSound, SequenceIsList DEF Role, IsList
<1>2. \A list, places : IsList(list) => IsList(Kept(list, places))
  BY KeptSound, SequenceIsList DEF IsList
<1> QED BY <1>1, <1>2 DEF Scope

(* Changing the filters alone asks for the same board, narrowed otherwise. *)
LEMMA AskingAlike ==
    ASSUME NEW r, IsRequest(r.at), IsList(Domain.categories),
           NEW changed, DOMAIN changed = {"status", "cat", "id", "q"}
    PROVE  LET c == ContextOf(r)
               e == Asking(c, changed)
               Values(name) == IF changed[name] # <<>> THEN <<changed[name]>> ELSE <<>>
           IN  /\ e.roleScoped = c.roleScoped
               /\ e.state.filter.status = KnownValues(Values("status"), Statuses)
               /\ e.state.filter.cat = KnownValues(Values("cat"), Range(Domain.categories))
               /\ e.state.filter.id = SplitValues(Values("id"))
               /\ changed["q"] = <<>> => e.state.filter.q = {}
<1> DEFINE c == ContextOf(r)
           p == ParamsWith(c.params, changed)
           Values(name) == IF changed[name] # <<>> THEN <<changed[name]>> ELSE <<>>
           st == ReadState(Domain, r.at.service, r.at.params, cookie)
           s == ReadState(Domain, "", p, "")
<1>1. c.params = r.at.params
  BY ContextReady
<1>2. c.d = Domain /\ c.roleScoped = Scope(Domain, Role(Domain, c.all, st.role), st.scope, st.region)
  BY ContextFields
<1>3. Asking(c, changed) = Selection(Domain, c.all, [service |-> "", params |-> p], s)
  <2>1. c.d = Domain
    BY <1>2
  <2> HIDE DEF c
  <2> QED BY <2>1 DEF Asking, Build
<1> HIDE DEF c
<1>4. \A name \in {"role", "scope", "region"} : Get(p, name) = Get(r.at.params, name)
  BY <1>1 DEF ParamsWith, Get
<1>5. \A name \in {"status", "cat", "id", "q"} : All(p, name) = Values(name)
  BY DEF ParamsWith, All
<1>6. changed["q"] = <<>> => Get(p, "q") = ""
  BY DEF ParamsWith, Get
<1> HIDE DEF p, Values
<1>7. s.role = st.role /\ s.scope = st.scope /\ s.region = st.region
  BY <1>4 DEF ReadState
<1>8. /\ s.filter.status = KnownValues(Values("status"), Statuses)
      /\ s.filter.cat = KnownValues(Values("cat"), Range(Domain.categories))
      /\ s.filter.id = SplitValues(Values("id"))
      /\ changed["q"] = <<>> => s.filter.q = {}
  BY <1>5, <1>6 DEF ReadState
<1> HIDE DEF s, st
<1>9. Asking(c, changed).state = s
      /\ Asking(c, changed).roleScoped = Scope(Domain, Role(Domain, c.all, s.role), s.scope, s.region)
  BY <1>3 DEF Selection
<1> QED BY <1>2, <1>7, <1>8, <1>9 DEF c, Values

LEMMA OneValue ==
    ASSUME NEW x
    PROVE  SplitValues(<<<<x>>>>) = {x} /\ <<x>> # <<>>
<1>1. DOMAIN <<<<x>>>> = {1} /\ <<<<x>>>>[1] = <<x>> /\ Range(<<x>>) = {x} /\ <<x>> # <<>>
  BY OneItem
<1> QED BY <1>1 DEF SplitValues

(* What choosing one value of one filter leaves. *)
LEMMA ChipLeaves ==
    ASSUME Requests, RuleAbiding, NEW name \in {"status", "cat"}, NEW value,
           value \in IF name = "status" THEN Statuses ELSE Range(Domain.categories)
    PROVE  LET pop == Board.roleScoped
           IN  Len(Filtered(Asking(Board, [Unfiltered EXCEPT ![name] = <<value>>])))
                 = Cardinality({i \in DOMAIN pop : IF name = "status" THEN pop[i].status = value
                                                                      ELSE pop[i].category = value})
<1> DEFINE r == shown["leaderboard"]
           c == Board
           pop == c.roleScoped
           changed == [Unfiltered EXCEPT ![name] = <<value>>]
           e == Asking(c, changed)
           f == e.state.filter
<1>1. IsRequest(r.at) /\ IsList(Domain.categories) /\ r.of \in 1 .. Latest
  BY DEF Requests, TypeOK, Regions
<1>2. IsList(pop)
  <2>1. IsList(c.all)
    <3>1. ContextOf(r).all = served[r.of].services
      BY ContextFields
    <3>2. r.of \in DOMAIN served
      <4>1. DOMAIN served = 1 .. Len(served)
        BY DEF RuleAbiding
      <4> QED BY <1>1, <4>1 DEF Latest
    <3> QED BY <3>1, <3>2 DEF RuleAbiding, Board
  <2>2. \E role, scope, region : pop = Scope(Domain, Role(Domain, c.all, role), scope, region)
    <3> DEFINE st == ReadState(Domain, r.at.service, r.at.params, cookie)
               b == ContextOf(r)
    <3>1. b.roleScoped = Scope(Domain, Role(Domain, b.all, st.role), st.scope, st.region)
      BY ContextFields
    <3>2. c = b
      BY DEF Board
    <3> HIDE DEF b, st, c
    <3> QED BY <3>1, <3>2
  <2> QED BY <2>1, <2>2, ScopedIsList
<1>3. /\ DOMAIN changed = {"status", "cat", "id", "q"}
      /\ changed[name] = <<value>>
      /\ \A other \in {"status", "cat", "id", "q"} \ {name} : changed[other] = <<>>
  BY DEF Unfiltered
<1> HIDE DEF changed
<1>4. /\ e.roleScoped = pop
      /\ f.status = KnownValues(IF changed["status"] # <<>> THEN <<changed["status"]>> ELSE <<>>, Statuses)
      /\ f.cat = KnownValues(IF changed["cat"] # <<>> THEN <<changed["cat"]>> ELSE <<>>, Range(Domain.categories))
      /\ f.id = SplitValues(IF changed["id"] # <<>> THEN <<changed["id"]>> ELSE <<>>)
      /\ changed["q"] = <<>> => f.q = {}
  BY <1>1, <1>3, AskingAlike DEF Board
<1> HIDE DEF e
<1>5. f.id = {} /\ f.q = {} /\ f[name] = {value} /\ \A other \in {"status", "cat"} \ {name} : f[other] = {}
  BY <1>3, <1>4, OneValue, NoValues DEF KnownValues
<1>6. \A sv : Passes(sv, f) <=> IF name = "status" THEN sv.status = value ELSE sv.category = value
  BY <1>5 DEF Passes, Chosen
<1> HIDE DEF f, pop
<1>7. {i \in DOMAIN pop : Passes(pop[i], f)}
        = {i \in DOMAIN pop : IF name = "status" THEN pop[i].status = value ELSE pop[i].category = value}
  BY <1>6
<1>8. Len(Apply(pop, f)) = Cardinality({i \in DOMAIN pop : Passes(pop[i], f)})
  BY <1>2, FilteredCount
<1>9. Filtered(e) = Apply(pop, f)
  BY <1>4 DEF Filtered, f
<1> QED BY <1>7, <1>8, <1>9 DEF e, changed, pop

(* What a chip says is what choosing it shows, for every configuration,      *)
(* estate and address (filterBar's counts against readState and Apply).     *)
THEOREM ChipsAreTrue == Spec => []ChipsKeepPromise
<1>1. Requests /\ RuleAbiding => ChipsKeepPromise
  <2> SUFFICES ASSUME Requests, RuleAbiding PROVE ChipsKeepPromise
    OBVIOUS
  <2> DEFINE c == Board
             bar == FilterBar(c)
             pop == c.roleScoped
  <2>1. Range(c.d.statusOrder) = Statuses /\ c.d = Domain
    BY AcceptedBoard, ContextFields DEF Board
  <2>2. \A s \in DOMAIN bar.statuses : s \in Statuses
          /\ bar.statuses[s].count = Cardinality({i \in DOMAIN pop : pop[i].status = s})
    <3> HIDE DEF c
    <3> QED BY <2>1 DEF FilterBar, Counts, ChipPopulation
  <2>3. \A k \in DOMAIN bar.categories : k \in Range(Domain.categories)
          /\ bar.categories[k].count = Cardinality({i \in DOMAIN pop : pop[i].category = k})
    <3> HIDE DEF c
    <3> QED BY <2>1 DEF FilterBar, ChipPopulation
  <2>4. ASSUME NEW s \in Statuses
        PROVE  Cardinality({i \in DOMAIN pop : pop[i].status = s})
                 = Len(Filtered(Asking(c, [Unfiltered EXCEPT !["status"] = <<s>>])))
    BY ChipLeaves
  <2>5. ASSUME NEW k \in Range(Domain.categories)
        PROVE  Cardinality({i \in DOMAIN pop : pop[i].category = k})
                 = Len(Filtered(Asking(c, [Unfiltered EXCEPT !["cat"] = <<k>>])))
    BY ChipLeaves
  <2> HIDE DEF bar, pop, c
  <2>6. \A s \in DOMAIN bar.statuses :
           bar.statuses[s].count = Len(Filtered(Asking(c, [Unfiltered EXCEPT !["status"] = <<s>>])))
    BY <2>2, <2>4
  <2>7. \A k \in DOMAIN bar.categories :
           bar.categories[k].count = Len(Filtered(Asking(c, [Unfiltered EXCEPT !["cat"] = <<k>>])))
    BY <2>3, <2>5
  <2> QED BY <2>6, <2>7, Zenon DEF ChipsKeepPromise, bar, c
<1> QED BY InitTyped, StepTyped, InitAbides, StepAbides, <1>1, PTL DEF Spec

-----------------------------------------------------------------------------
(* What controls carry *)

(* The parameters each field of the reader's state is read from. *)
ReadFrom ==
    [scope |-> {"scope"}, role |-> {"role"}, region |-> {"region", "scope"}, period |-> {"period"},
     sort |-> {"sort"}, dir |-> {"dir", "sort"}, filter |-> {"status", "cat", "id", "q"},
     signals |-> {"signals"}, locale |-> {"lang"}, theme |-> {"theme"}, filters |-> {"filters"},
     tab |-> {"tab"}]

LEMMA FieldCarried ==
    ASSUME NEW d, NEW s, NEW t, NEW theme, NEW a, NEW b,
           NEW field \in DOMAIN ReadFrom, Alike(a, b, ReadFrom[field])
    PROVE  ReadState(d, s, a, theme)[field] = ReadState(d, t, b, theme)[field]
<1>1. CASE field = "scope"
  BY <1>1 DEF ReadFrom, Alike, ReadState
<1>2. CASE field = "role"
  BY <1>2 DEF ReadFrom, Alike, ReadState
<1>3. CASE field = "region"
  BY <1>3 DEF ReadFrom, Alike, ReadState
<1>4. CASE field = "period"
  BY <1>4 DEF ReadFrom, Alike, ReadState
<1>5. CASE field = "sort"
  <2>1. Get(a, "sort") = Get(b, "sort")
    BY <1>5 DEF ReadFrom, Alike
  <2>2. ReadState(d, s, a, theme).sort = ReadState(d, t, b, theme).sort
    BY Zenon, <2>1 DEF ReadState
  <2> QED BY <1>5, <2>2
<1>6. CASE field = "dir"
  <2>1. Get(a, "dir") = Get(b, "dir") /\ Get(a, "sort") = Get(b, "sort")
    BY <1>6 DEF ReadFrom, Alike
  <2>2. ReadState(d, s, a, theme).dir = ReadState(d, t, b, theme).dir
    BY Zenon, <2>1 DEF ReadState
  <2> QED BY <1>6, <2>2
<1>7. CASE field = "filter"
  <2>1. /\ All(a, "status") = All(b, "status") /\ All(a, "cat") = All(b, "cat")
        /\ All(a, "id") = All(b, "id") /\ Get(a, "q") = Get(b, "q")
    BY <1>7 DEF ReadFrom, Alike
  <2>2. ReadState(d, s, a, theme).filter = ReadState(d, t, b, theme).filter
    BY Zenon, <2>1 DEF ReadState
  <2> QED BY <1>7, <2>2
<1>8. CASE field = "signals"
  <2>1. Get(a, "signals") = Get(b, "signals")
    BY <1>8 DEF ReadFrom, Alike
  <2>2. ReadState(d, s, a, theme).signals = ReadState(d, t, b, theme).signals
    BY Zenon, <2>1 DEF ReadState
  <2> QED BY <1>8, <2>2
<1>9. CASE field = "locale"
  BY <1>9 DEF ReadFrom, Alike, ReadState
<1>10. CASE field = "theme"
  BY <1>10 DEF ReadFrom, Alike, ReadState
<1>11. CASE field = "filters"
  BY <1>11 DEF ReadFrom, Alike, ReadState
<1>12. CASE field = "tab"
  BY <1>12 DEF ReadFrom, Alike, ReadState
<1> QED BY <1>1, <1>2, <1>3, <1>4, <1>5, <1>6, <1>7, <1>8, <1>9, <1>10, <1>11, <1>12 DEF ReadFrom

(* What one name of a query says once its empty values are dropped. *)
SaidOf(list) == Kept(list, {i \in DOMAIN list : list[i] # <<>>})

LEMMA ReadSays ==
    ASSUME NEW query, NEW name \in Params
    PROVE  /\ name \in DOMAIN ReadParams(query) <=> name \in DOMAIN query /\ SaidOf(query[name]) # <<>>
           /\ name \in DOMAIN query /\ SaidOf(query[name]) # <<>> => ReadParams(query)[name] = SaidOf(query[name])
  BY DEF ReadParams, SaidOf

LEMMA WrittenSays ==
    ASSUME NEW params, Written(params), NEW name \in DOMAIN params
    PROVE  SaidOf(params[name]) = params[name] /\ params[name] # <<>>
<1>1. DOMAIN params[name] \subseteq {i \in DOMAIN params[name] : params[name][i] # <<>>}
  BY DEF Written
<1>2. params[name] \in Seq(Range(params[name]))
  BY DEF Written, IsList
<1> QED BY <1>1, <1>2, KeptSound DEF SaidOf, Written

(* A query in which some names stand as they were written says the same of   *)
(* them when it is read.                                                    *)
LEMMA StandsAsWritten ==
    ASSUME NEW params, Written(params), NEW query, NEW names,
           \A name \in Params \ names :
              /\ name \in DOMAIN query <=> name \in DOMAIN params
              /\ name \in DOMAIN params => query[name] = params[name]
    PROVE  Alike(params, ReadParams(query), Params \ names)
<1> SUFFICES ASSUME NEW name \in Params \ names
             PROVE  /\ name \in DOMAIN ReadParams(query) <=> name \in DOMAIN params
                    /\ name \in DOMAIN params => ReadParams(query)[name] = params[name]
  BY DEF Alike, Get, All
<1> QED BY ReadSays, WrittenSays

(* A link carries what it does not change. *)
LEMMA LinkCarries ==
    ASSUME NEW c, Written(c.params), NEW service, NEW changed
    PROVE  Alike(c.params, Href(c, service, changed).params, Params \ DOMAIN changed)
<1>1. Href(c, service, changed).params = ReadParams(ParamsWith(c.params, changed))
  BY DEF Href, Link
<1>2. \A name \in Params \ DOMAIN changed :
         /\ name \in DOMAIN ParamsWith(c.params, changed) <=> name \in DOMAIN c.params
         /\ name \in DOMAIN c.params => ParamsWith(c.params, changed)[name] = c.params[name]
  BY DEF ParamsWith
<1> QED BY <1>1, <1>2, StandsAsWritten

(* A form carries, hidden, what it has no control for. *)
LEMMA FormCarries ==
    ASSUME NEW params, Written(params), NEW service, NEW names, NEW own, DOMAIN own \subseteq names
    PROVE  Alike(params, Link(service, Submit(HiddenExcept(params, names), own)).params, Params \ names)
<1> DEFINE query == Submit(HiddenExcept(params, names), own)
<1>1. Link(service, query).params = ReadParams(query)
  BY DEF Link
<1>2. ASSUME NEW name \in Params \ names
      PROVE  /\ name \in DOMAIN query <=> name \in DOMAIN params
             /\ name \in DOMAIN params => query[name] = params[name]
  <2>1. DOMAIN query = (DOMAIN params \ names) \cup DOMAIN own
    BY DEF Submit, HiddenExcept
  <2>2. name \in DOMAIN params => query[name] = params[name] \o <<>>
    BY DEF Submit, HiddenExcept
  <2>3. name \in DOMAIN params => params[name] \in Seq(Range(params[name]))
    BY DEF Written, IsList
  <2>4. \A S : \A list \in Seq(S) : list \o <<>> = list
    OBVIOUS
  <2> QED BY <2>1, <2>2, <2>3, <2>4
<1> HIDE DEF query
<1>3. Alike(params, ReadParams(query), Params \ names)
  BY <1>2, StandsAsWritten
<1> QED BY <1>1, <1>3 DEF query

(* A link says the value it was given, and a form the values of its fields.  *)
LEMMA LinkSays ==
    ASSUME NEW c, NEW service, NEW changed, NEW name \in DOMAIN changed \cap Params, NEW x, changed[name] = <<x>>
    PROVE  Get(Href(c, service, changed).params, name) = x
<1> DEFINE query == ParamsWith(c.params, changed)
<1>1. <<x>> # <<>> /\ <<<<x>>>> # <<>>
  BY OneItem
<1>2. name \in DOMAIN query /\ query[name] = <<<<x>>>>
  BY <1>1 DEF ParamsWith
<1>3. SaidOf(<<<<x>>>>) = <<<<x>>>>
  <2>1. <<<<x>>>> \in Seq({<<x>>}) /\ DOMAIN <<<<x>>>> = {1} /\ <<<<x>>>>[1] = <<x>>
    BY OneItem
  <2>2. DOMAIN <<<<x>>>> \subseteq {i \in DOMAIN <<<<x>>>> : <<<<x>>>>[i] # <<>>}
    BY <1>1, <2>1
  <2> QED BY <2>1, <2>2, KeptSound DEF SaidOf
<1>4. Href(c, service, changed).params = ReadParams(query)
  BY DEF Href, Link
<1> HIDE DEF query
<1>5. name \in DOMAIN ReadParams(query) /\ ReadParams(query)[name] = <<<<x>>>>
  BY <1>1, <1>2, <1>3, ReadSays
<1>6. Head(<<<<x>>>>) = <<x>> /\ <<x>>[1] = x
  BY OneItem
<1> QED BY <1>1, <1>4, <1>5, <1>6 DEF Get

Says(query, name, list) ==
    /\ All(query, name) = list
    /\ Get(query, name) = IF list = <<>> THEN "" ELSE list[1][1]

LEMMA FormSays ==
    ASSUME NEW params, NEW service, NEW names, NEW own, NEW name \in DOMAIN own \cap names \cap Params,
           IsList(own[name]), \A i \in DOMAIN own[name] : own[name][i] # <<>>
    PROVE  Says(Link(service, Submit(HiddenExcept(params, names), own)).params, name, own[name])
<1> DEFINE query == Submit(HiddenExcept(params, names), own)
           list == own[name]
<1>1. Link(service, query).params = ReadParams(query)
  BY DEF Link
<1>2. list \in Seq(Range(list))
  BY DEF IsList
<1>3. name \in DOMAIN query /\ query[name] = <<>> \o list
  BY DEF Submit, HiddenExcept
<1>4. <<>> \o list = list
  BY <1>2
<1>5. SaidOf(list) = list
  <2>1. DOMAIN list \subseteq {i \in DOMAIN list : list[i] # <<>>}
    OBVIOUS
  <2> QED BY <1>2, <2>1, KeptSound DEF SaidOf
<1> HIDE DEF query
<1>6. /\ name \in DOMAIN ReadParams(query) <=> list # <<>>
      /\ list # <<>> => ReadParams(query)[name] = list
  BY <1>3, <1>4, <1>5, ReadSays
<1>7. list # <<>> => Head(list) = list[1] /\ list[1] # <<>>
  <2>1. list # <<>> => Head(list) = list[1] /\ 1 \in DOMAIN list
    BY <1>2
  <2> QED BY <2>1
<1> HIDE DEF list
<1>8. All(ReadParams(query), name) = list
  BY <1>6 DEF All
<1>9. Get(ReadParams(query), name) = IF list = <<>> THEN "" ELSE list[1][1]
  BY <1>6, <1>7 DEF Get
<1> QED BY <1>1, <1>8, <1>9 DEF query, list, Says

-----------------------------------------------------------------------------
(* The service a region was drawn for *)

IsAmong(service, list) == service = "" \/ \E i \in DOMAIN list : list[i].id = service

ServedIn(r) == IsAmong(r.at.service, served[r.of].services)

(* Whatever a region was drawn for was in the snapshot it was drawn from.    *)
OpenIsServed == \A region \in Regions : ServedIn(shown[region])

FirstNamed(service, list) ==
    LET named == {i \in DOMAIN list : list[i].id = service}
    IN  IF named = {} THEN <<>> ELSE <<list[Min(named)]>>

LEMMA NamedService ==
    ASSUME NEW d, NEW all, NEW request, NEW theme
    PROVE  Build(d, all, request, theme).service = FirstNamed(request.service, all)
<1> DEFINE st == ReadState(d, request.service, request.params, theme)
<1>1. st.service = request.service
  BY DEF ReadState
<1> HIDE DEF st
<1>2. Build(d, all, request, theme) = Selection(d, all, request, st)
  BY DEF Build, st
<1> QED BY <1>1, <1>2 DEF Selection, FirstNamed

LEMMA FoundIsAmong ==
    ASSUME NEW d, NEW all, NEW request, NEW theme,
           Found(Build(d, all, request, theme), request)
    PROVE  IsAmong(request.service, all)
<1>1. Build(d, all, request, theme).service = FirstNamed(request.service, all)
  BY NamedService
<1>2. ~IsAmong(request.service, all) => request.service # "" /\ FirstNamed(request.service, all) = <<>>
  BY DEF IsAmong, FirstNamed
<1> QED BY <1>1, <1>2 DEF Found

LEMMA LandingIsAmong ==
    ASSUME NEW request
    PROVE  IsAmong(Landing(request).service, served[Latest].services)
<1> DEFINE c == Build(Domain, served[Latest].services, request, cookie)
<1>1. CASE request.service # "" /\ c.service = <<>>
  <2>1. PICK e : Landing(request) = Href(e, "", [tab |-> <<>>])
    BY <1>1 DEF Landing
  <2>2. Landing(request).service = ""
    <3>1. PICK l : l = Landing(request)
      OBVIOUS
    <3>2. l = Href(e, "", [tab |-> <<>>])
      BY <2>1, <3>1
    <3>3. l.service = ""
      BY <3>2, HrefService
    <3> QED BY <3>1, <3>3
  <2> QED BY <2>2 DEF IsAmong
<1>2. CASE ~(request.service # "" /\ c.service = <<>>)
  <2>1. Landing(request) = request /\ Found(c, request)
    BY <1>2 DEF Landing, Found
  <2>2. IsAmong(request.service, served[Latest].services)
    BY <2>1, FoundIsAmong
  <2> QED BY <2>1, <2>2
<1> QED BY <1>1, <1>2

LEMMA RenderingServed ==
    ASSUME NEW request, IsAmong(request.service, served[Latest].services)
    PROVE  ServedIn(Rendering(request, request.service))
<1>1. Rendering(request, request.service).at.service = request.service
      /\ Rendering(request, request.service).of = Latest
  BY DEF Rendering
<1> QED BY <1>1 DEF ServedIn

LEMMA InitServed == Init => OpenIsServed
<1> SUFFICES ASSUME Init, NEW region \in Regions PROVE ServedIn(shown[region])
  BY DEF OpenIsServed
<1>1. PICK b \in Bookmarks : shown = [x \in Regions |-> Rendering(Landing(b), Landing(b).service)]
  BY DEF Init
<1> QED BY <1>1, LandingIsAmong, RenderingServed

LEMMA LoadServed ==
    ASSUME NEW request, Load(request), UNCHANGED served
    PROVE  OpenIsServed'
<1> DEFINE drawn == Rendering(Landing(request), Landing(request).service)
<1>1. shown' = [region \in Regions |-> drawn]
  BY DEF Load
<1>2. ServedIn(drawn)
  BY LandingIsAmong, RenderingServed
<1> HIDE DEF drawn
<1> QED BY <1>1, <1>2 DEF OpenIsServed, ServedIn

LEMMA ArrivalServed ==
    ASSUME Requests, OpenIsServed, NEW snapshot, served' = Append(served, snapshot), UNCHANGED shown
    PROVE  OpenIsServed'
<1>1. ASSUME NEW region \in Regions PROVE served'[shown[region].of] = served[shown[region].of]
  <2>1. served \in Seq(Range(served)) /\ shown[region].of \in 1 .. Len(served)
    BY DEF Requests, TypeOK, Latest
  <2> QED BY <2>1
<1> QED BY <1>1 DEF OpenIsServed, ServedIn

LEMMA AnswerServed == OpenIsServed /\ Answer => OpenIsServed'
<1> SUFFICES ASSUME OpenIsServed, Answer PROVE OpenIsServed'
  OBVIOUS
<1>1. PICK r \in inflight :
         LET c == Build(Domain, served[Latest].services, r.at, cookie)
             draws == Found(c, r.at) /\ r.attached
         IN  /\ shown' = IF draws
                         THEN [region \in Regions |->
                                 IF region \in Redrawn(r.target)
                                 THEN Rendering(r.at, r.at.service) ELSE shown[region]]
                         ELSE shown
             /\ UNCHANGED served
  BY DEF Answer
<1> DEFINE c == Build(Domain, served[Latest].services, r.at, cookie)
           drawn == Rendering(r.at, r.at.service)
<1>2. Found(c, r.at) => ServedIn(drawn)
  BY FoundIsAmong, RenderingServed
<1> HIDE DEF drawn, c
<1>3. CASE Found(c, r.at) /\ r.attached
  <2>1. shown' = [region \in Regions |-> IF region \in Redrawn(r.target) THEN drawn ELSE shown[region]]
    BY <1>1, <1>3 DEF c, drawn
  <2> QED BY <1>1, <1>2, <1>3, <2>1 DEF OpenIsServed, ServedIn
<1>4. CASE ~(Found(c, r.at) /\ r.attached)
  <2>1. shown' = shown
    BY <1>1, <1>4 DEF c
  <2> QED BY <1>1, <2>1 DEF OpenIsServed, ServedIn
<1> QED BY <1>3, <1>4

LEMMA StepServed == Requests /\ OpenIsServed /\ [Next]_vars => OpenIsServed'
<1> SUFFICES ASSUME Requests, OpenIsServed, [Next]_vars PROVE OpenIsServed'
  OBVIOUS
<1>1. CASE Poll
  BY <1>1, ArrivalServed DEF Poll
<1>2. CASE Push
  BY <1>2, ArrivalServed DEF Push
<1>3. CASE Follow
  BY <1>3, LoadServed DEF Follow
<1>4. CASE Ask
  BY <1>4 DEF Ask, OpenIsServed, ServedIn
<1>5. CASE Answer
  BY <1>5, AnswerServed
<1>6. CASE ToggleTheme
  <2>1. \E theme : shown' = [shown EXCEPT !["page"].theme = theme]
    BY <1>6 DEF ToggleTheme
  <2>2. \A region \in Regions : shown'[region].at = shown[region].at /\ shown'[region].of = shown[region].of
    BY <2>1 DEF Requests
  <2>3. UNCHANGED served
    BY <1>6 DEF ToggleTheme
  <2> QED BY <2>2, <2>3 DEF OpenIsServed, ServedIn
<1>7. CASE CloseDrawer
  <2>1. shown' = [shown EXCEPT !["drawer"].at.service = ""] /\ UNCHANGED served
    BY <1>7 DEF CloseDrawer
  <2>2. \A region \in Regions :
           /\ shown'[region].of = shown[region].of
           /\ shown'[region].at.service \in {"", shown[region].at.service}
    BY ZenonT(40), <2>1 DEF Requests, TypeOK, IsRequest
  <2> QED BY <2>1, <2>2 DEF OpenIsServed, ServedIn, IsAmong
<1>8. CASE Reload
  BY <1>8, LoadServed DEF Reload
<1>9. CASE UNCHANGED vars
  BY <1>9 DEF vars, OpenIsServed, ServedIn
<1> QED BY <1>1, <1>2, <1>3, <1>4, <1>5, <1>6, <1>7, <1>8, <1>9 DEF Next

(* Whatever a region was drawn for was in the snapshot it was drawn from: no *)
(* drawer is drawn for a service that is gone, however answers and arrivals  *)
(* cross (the not-found branches of the handlers).                          *)
THEOREM DrawnForWhatIsServed == Spec => []OpenIsServed
  BY InitTyped, StepTyped, InitServed, StepServed, PTL DEF Spec

-----------------------------------------------------------------------------
(* Controls of a settled page *)

(* What every region of a settled page is drawn from. *)
AtRest(c) ==
    /\ c.d = Domain /\ Ready(c) /\ c.params = address.params
    /\ c.state = ReadBack(address)
    /\ Here(c) = address.service

LEMMA SameState ==
    ASSUME NEW s, "theme" \in DOMAIN s, s = [field \in DOMAIN s |-> s[field]]
    PROVE  [s EXCEPT !.theme = s.theme] = s
  OBVIOUS

LEMMA FirstIsNamed ==
    ASSUME NEW list, IsList(list), NEW service, IsAmong(service, list), service # ""
    PROVE  FirstNamed(service, list) # <<>> /\ FirstNamed(service, list)[1].id = service
<1> DEFINE named == {i \in DOMAIN list : list[i].id = service}
<1>1. named # {} /\ named \subseteq Nat
  BY ListDomain DEF IsAmong
<1>2. Min(named) \in named
  BY <1>1, MinIsMember
<1>3. FirstNamed(service, list) = <<list[Min(named)]>>
  BY <1>1 DEF FirstNamed
<1>4. list[Min(named)].id = service
  BY <1>2
<1> HIDE DEF named
<1>5. \A x : <<x>> # <<>> /\ <<x>>[1] = x
  BY OneItem
<1> QED BY <1>3, <1>4, <1>5

LEMMA SettledAtRest ==
    ASSUME Requests, RuleAbiding, OpenIsServed, Settled, NEW region \in Regions
    PROVE  AtRest(ContextOf(shown[region]))
<1> DEFINE r == shown[region]
           c == ContextOf(r)
           st == ReadState(Domain, address.service, address.params, cookie)
<1>1. r = Rendering(address, address.service)
  BY DEF Settled
<1>2. /\ r.at.service = address.service /\ r.at.params = address.params /\ r.of = Latest
      /\ r.theme = ReadTheme(Get(address.params, "theme"), cookie)
  BY <1>1 DEF Rendering
<1>3. IsRequest(r.at) /\ IsList(Domain.categories)
  BY DEF Requests, TypeOK
<1>4. Ready(c) /\ c.params = address.params
  BY <1>2, <1>3, ContextReady
<1>5. c.d = Domain /\ c.all = served[Latest].services /\ c.state = [st EXCEPT !.theme = r.theme]
  BY <1>2, ContextFields
<1>6. st.theme = r.theme
  BY <1>2 DEF ReadState
<1>7. "theme" \in DOMAIN st
  BY StateFields
<1>8. st = [field \in DOMAIN st |-> st[field]]
  BY StateShape
<1>9. c.state = st
  <2> HIDE DEF c, st, r
  <2> QED BY <1>5, <1>6, <1>7, <1>8, SameState
<1>10. ReadBack(address) = st
  BY DEF ReadBack
<1>11. c.service = FirstNamed(r.at.service, served[r.of].services)
  <2> DEFINE b == Build(Domain, served[r.of].services, r.at, cookie)
  <2>1. b.service = FirstNamed(r.at.service, served[r.of].services)
    BY NamedService
  <2>2. c = [b EXCEPT !.state.theme = r.theme] /\ DOMAIN b = {"d", "all", "state", "params", "days", "scoped", "roleScoped", "demand", "service"}
    BY DEF ContextOf, Themed, Build, Selection
  <2> HIDE DEF b, c, r
  <2> QED BY <2>1, <2>2
<1>12. IsList(served[Latest].services)
  <2>1. Latest \in DOMAIN served
    <3>1. IsList(served) /\ served # <<>>
      BY DEF RuleAbiding, IsList
    <3> QED BY <3>1 DEF Latest, IsList
  <2> QED BY <2>1 DEF RuleAbiding
<1>13. IsAmong(address.service, served[Latest].services)
  BY <1>2 DEF OpenIsServed, ServedIn
<1>14. Here(c) = address.service
  <2>1. CASE address.service = ""
    <3>1. c.service # <<>> => c.service[1].id = ""
      <4> DEFINE named == {i \in DOMAIN served[Latest].services : served[Latest].services[i].id = ""}
      <4>1. ASSUME named # {} PROVE c.service[1].id = ""
        <5>1. named \subseteq Nat
          BY <1>12, ListDomain
        <5>2. Min(named) \in named
          BY <4>1, <5>1, MinIsMember
        <5>3. c.service = <<served[Latest].services[Min(named)]>>
          BY <1>2, <1>11, <2>1, <4>1 DEF FirstNamed
        <5> HIDE DEF c
        <5> QED BY <5>2, <5>3, OneItem
      <4>2. named = {} => c.service = <<>>
        BY <1>2, <1>11, <2>1 DEF FirstNamed
      <4> QED BY <4>1, <4>2
    <3> HIDE DEF c
    <3> QED BY <2>1, <3>1 DEF Here
  <2>2. CASE address.service # ""
    <3> DEFINE list == served[Latest].services
    <3>0. c.service = FirstNamed(address.service, list)
      BY <1>2, <1>11
    <3>1. c.service # <<>> /\ c.service[1].id = address.service
      <4> HIDE DEF c, list
      <4>1. IsList(list) /\ IsAmong(address.service, list)
        BY <1>12, <1>13 DEF list
      <4>2. FirstNamed(address.service, list) # <<>> /\ FirstNamed(address.service, list)[1].id = address.service
        BY <2>2, <4>1, FirstIsNamed
      <4> QED BY <3>0, <4>2
    <3> HIDE DEF c
    <3> QED BY <3>1 DEF Here
  <2> QED BY <2>1, <2>2
<1> HIDE DEF c, st
<1> QED BY <1>4, <1>5, <1>9, <1>10, <1>14 DEF AtRest, c

LEMMA SameAsItself == \A field, x : Same(field, x, x)
  BY DEF Same

(* What the control of this name may change besides what it picks. *)
Losable(name) == MayChange(ReadBack(address))[name]

(* Every field that one of these parameters is read for is one that is       *)
(* accounted for or that the control may change.                            *)
Spares(accounted, name, names) ==
    \A field \in DOMAIN ReadFrom :
       ReadFrom[field] \cap names = {} \/ field \in accounted \cup Losable(name)

(* What a control picks is what the deployment reads back. *)
TakesEffect(control) ==
    \A field \in DOMAIN control.picks : Same(field, control.picks[field], ReadBack(control.at)[field])

KeepsService(control) ==
    \/ "service" \in DOMAIN control.picks \cup Losable(control.name)
    \/ control.at.service = address.service

(* What a control writes again, it writes as it was. *)
Rewrites(control, fields) ==
    \A field \in fields : Same(field, ReadBack(address)[field], ReadBack(control.at)[field])

(* A control that touches only these parameters leaves every field that none *)
(* of them is read for.                                                     *)
LEMMA OnlyTouched ==
    ASSUME NEW c, AtRest(c), NEW control, NEW names, NEW again,
           Alike(c.params, control.at.params, Params \ names),
           Spares(DOMAIN control.picks \cup again, control.name, names), Rewrites(control, again),
           KeepsService(control), TakesEffect(control)
    PROVE  DoesWhatItSays(ReadBack(address), control)
<1> DEFINE now == ReadBack(address)
           then == ReadBack(control.at)
<1>1. DOMAIN now = DOMAIN ReadFrom \cup {"service"}
  BY StateFields DEF ReadBack, ReadFrom
<1>0. \A field \in again : Same(field, now[field], then[field])
  BY DEF Rewrites
<1>2. ASSUME NEW field \in DOMAIN ReadFrom, ReadFrom[field] \cap names = {}
      PROVE  now[field] = then[field]
  <2>1. ReadFrom[field] \subseteq Params
    BY DEF ReadFrom, Params
  <2>2. Alike(c.params, control.at.params, ReadFrom[field])
    BY <1>2, <2>1 DEF Alike
  <2>3. c.params = address.params
    BY DEF AtRest
  <2> QED BY <2>2, <2>3, FieldCarried DEF ReadBack
<1>3. now.service = address.service /\ then.service = control.at.service
  BY DEF ReadBack, ReadState
<1> HIDE DEF now, then
<1>4. \A field \in DOMAIN now :
         \/ field \in DOMAIN control.picks
         \/ field \in Losable(control.name)
         \/ Same(field, now[field], then[field])
  BY <1>0, <1>1, <1>2, <1>3, SameAsItself DEF Spares, KeepsService
<1>5. \A field \in DOMAIN now :
         IF field \in DOMAIN control.picks THEN Same(field, control.picks[field], then[field])
         ELSE field \notin Losable(control.name) => Same(field, now[field], then[field])
  BY <1>4, SameAsItself DEF then, TakesEffect
<1> QED BY <1>5 DEF DoesWhatItSays, Losable, now, then

LEMMA ControlParts ==
    ASSUME NEW name, NEW picks, NEW target, NEW at
    PROVE  /\ Control(name, picks, target, at).name = name /\ Control(name, picks, target, at).picks = picks
           /\ Control(name, picks, target, at).at = at
  BY DEF Control

LEMMA Spared ==
    /\ Spares({"scope"}, "scope", {"scope", "region"})
    /\ Spares({"role"}, "role", {"role", "status", "cat", "q"})
    /\ Selects("locale") => Spares({"period", "locale"}, "period", {"lang", "period", "tab"})
    /\ ~Selects("locale") => Spares({"period"}, "period", {"lang", "period", "tab"})
    /\ Selects("period") => Spares({"period", "locale"}, "locale", {"lang", "period", "tab"})
    /\ ~Selects("period") => Spares({"locale"}, "locale", {"lang", "period", "tab"})
    /\ Spares({"theme"}, "theme", {"theme"})
    /\ Spares({"signals"}, "signals", {"signals"})
    /\ Spares({}, "card", {"role", "status", "cat", "id", "q"})
    /\ Spares({}, "card", {"status", "cat", "id", "q"})
    /\ Spares({}, "focus", {"tab"})
    /\ Spares({"filter", "region", "filters"}, "filter", {"q", "region", "status", "cat", "filters", "tab"})
    /\ "region" \in Losable("filter") =>
          Spares({"filter", "filters"}, "filter", {"q", "region", "status", "cat", "filters", "tab"})
    /\ Spares({"filter"}, "clear", {"q", "status", "cat", "id"})
    /\ Spares({"sort"}, "sort", {"sort", "dir"})
    /\ Spares({"service"}, "row", {})
    /\ Spares({"tab"}, "tab", {"tab"})
    /\ Spares({"service"}, "close", {"tab"})
<1>1. /\ Losable("scope") = {"region", "service"} /\ Losable("role") = {"filter", "service"}
      /\ Losable("period") = Uncarried("tab", "locale") /\ Losable("locale") = Uncarried("tab", "period")
      /\ Losable("theme") = {}
      /\ Losable("signals") = {"service"} /\ Losable("card") = {"filter", "role", "service"}
      /\ Losable("focus") = {"service", "tab"} /\ {"tab", "service"} \subseteq Losable("filter")
      /\ Losable("clear") = {"service"} /\ Losable("sort") = {"dir", "service"}
      /\ Losable("row") = {} /\ Losable("tab") = {} /\ Losable("close") = {"tab"}
  BY DEF Losable, MayChange
<1> QED BY <1>1 DEF Spares, ReadFrom, Uncarried

(* One value picked and nothing else touched. *)
LEMMA LinkTouches ==
    ASSUME NEW c, AtRest(c), NEW name, NEW picks, NEW target, NEW service, NEW changed,
           Spares(DOMAIN picks, name, DOMAIN changed),
           \/ "service" \in DOMAIN picks \cup Losable(name)
           \/ service = address.service,
           TakesEffect(Control(name, picks, target, Href(c, service, changed)))
    PROVE  DoesWhatItSays(ReadBack(address), Control(name, picks, target, Href(c, service, changed)))
<1> DEFINE control == Control(name, picks, target, Href(c, service, changed))
<1>1. control.name = name /\ control.picks = picks /\ control.at = Href(c, service, changed)
  BY ControlParts
<1>2. control.at.service = service
  BY <1>1, HrefService
<1>3. Written(c.params)
  BY DEF AtRest, Ready
<1>4. Alike(c.params, control.at.params, Params \ DOMAIN changed)
  BY <1>1, <1>3, LinkCarries
<1>5. KeepsService(control)
  BY <1>1, <1>2 DEF KeepsService
<1>6. Spares(DOMAIN control.picks \cup {}, control.name, DOMAIN changed)
  BY <1>1
<1>7. Rewrites(control, {})
  BY DEF Rewrites
<1> HIDE DEF control
<1>8. DoesWhatItSays(ReadBack(address), control)
  BY <1>4, <1>5, <1>6, <1>7, OnlyTouched DEF control
<1> QED BY <1>8 DEF control

(* One field picked is taken when it is read back as it was picked. *)
LEMMA TakesOne ==
    ASSUME NEW name, NEW field, NEW picks, DOMAIN picks = {field}, NEW target, NEW at,
           Same(field, picks[field], ReadBack(at)[field])
    PROVE  TakesEffect(Control(name, picks, target, at))
  BY ControlParts DEF TakesEffect

LEMMA ScopeSays ==
    ASSUME NEW c, AtRest(c), NEW s \in Domain.scopes
    PROVE  DoesWhatItSays(ReadBack(address),
              Control("scope", [scope |-> s], "body", Href(c, "", [scope |-> <<s>>, region |-> <<>>])))
<1> DEFINE changed == [scope |-> <<s>>, region |-> <<>>]
           picks == [scope |-> s]
           at == Href(c, "", changed)
<1>1. DOMAIN changed = {"scope", "region"} /\ changed["scope"] = <<s>> /\ DOMAIN picks = {"scope"} /\ picks["scope"] = s
  OBVIOUS
<1>2. "scope" \in Params
  BY DEF Params
<1> HIDE DEF changed, picks
<1>3. Get(at.params, "scope") = s
  <2>1. "scope" \in DOMAIN changed \cap Params /\ changed["scope"] = <<s>>
    BY <1>1, <1>2
  <2>2. Get(Href(c, "", changed).params, "scope") = s
    BY <2>1, LinkSays
  <2> QED BY <2>2
<1>4. ReadBack(at)["scope"] = s
  BY <1>3 DEF ReadBack, ReadState
<1>5. TakesEffect(Control("scope", picks, "body", at))
  <2> HIDE DEF at
  <2> QED BY <1>1, <1>4, SameAsItself, TakesOne
<1>6. Spares(DOMAIN picks, "scope", DOMAIN changed)
  BY <1>1, Spared
<1>7. "service" \in Losable("scope")
  BY DEF Losable, MayChange
<1>8. DoesWhatItSays(ReadBack(address), Control("scope", picks, "body", Href(c, "", changed)))
  BY <1>5, <1>6, <1>7, LinkTouches
<1> QED BY <1>8 DEF changed, picks

LEMMA RoleSays ==
    ASSUME NEW c, AtRest(c), NEW r \in Range(Domain.roles)
    PROVE  DoesWhatItSays(ReadBack(address),
              Control("role", [role |-> r], "body",
                      Href(c, "", [role |-> <<r>>, status |-> <<>>, cat |-> <<>>, q |-> <<>>])))
<1> DEFINE changed == [role |-> <<r>>, status |-> <<>>, cat |-> <<>>, q |-> <<>>]
           picks == [role |-> r]
           at == Href(c, "", changed)
<1>1. /\ DOMAIN changed = {"role", "status", "cat", "q"} /\ changed["role"] = <<r>>
      /\ DOMAIN picks = {"role"} /\ picks["role"] = r
  OBVIOUS
<1>2. "role" \in Params
  BY DEF Params
<1> HIDE DEF changed, picks
<1>3. Get(at.params, "role") = r
  <2>1. "role" \in DOMAIN changed \cap Params /\ changed["role"] = <<r>>
    BY <1>1, <1>2
  <2>2. Get(Href(c, "", changed).params, "role") = r
    BY <2>1, LinkSays
  <2> QED BY <2>2
<1>4. ReadBack(at)["role"] = r
  BY <1>3 DEF ReadBack, ReadState, RoleFor
<1>5. TakesEffect(Control("role", picks, "body", at))
  <2> HIDE DEF at
  <2> QED BY <1>1, <1>4, SameAsItself, TakesOne
<1>6. Spares(DOMAIN picks, "role", DOMAIN changed)
  BY <1>1, Spared
<1>7. "service" \in Losable("role")
  BY DEF Losable, MayChange
<1>8. DoesWhatItSays(ReadBack(address), Control("role", picks, "body", Href(c, "", changed)))
  BY <1>5, <1>6, <1>7, LinkTouches
<1> QED BY <1>8 DEF changed, picks

LEMMA ThemeSays ==
    ASSUME NEW c, AtRest(c), NEW t \in {"light", "dark"}
    PROVE  DoesWhatItSays(ReadBack(address),
              Control("theme", [theme |-> t], "page", Href(c, Here(c), [theme |-> <<t>>])))
<1> DEFINE changed == [theme |-> <<t>>]
           picks == [theme |-> t]
           here == Here(c)
           at == Href(c, here, changed)
<1>1. /\ DOMAIN changed = {"theme"} /\ changed["theme"] = <<t>>
      /\ DOMAIN picks = {"theme"} /\ picks["theme"] = t
  OBVIOUS
<1>2. "theme" \in Params
  BY DEF Params
<1>3. here = address.service
  BY DEF AtRest
<1> HIDE DEF changed, picks, here
<1>4. Get(at.params, "theme") = t
  <2>1. "theme" \in DOMAIN changed \cap Params /\ changed["theme"] = <<t>>
    BY <1>1, <1>2
  <2>2. Get(Href(c, here, changed).params, "theme") = t
    BY <2>1, LinkSays
  <2> QED BY <2>2
<1>5. ReadBack(at)["theme"] = t
  BY <1>4 DEF ReadBack, ReadState, ReadTheme
<1>6. TakesEffect(Control("theme", picks, "page", at))
  <2> HIDE DEF at
  <2> QED BY <1>1, <1>5, SameAsItself, TakesOne
<1>7. Spares(DOMAIN picks, "theme", DOMAIN changed)
  BY <1>1, Spared
<1>8. DoesWhatItSays(ReadBack(address), Control("theme", picks, "page", Href(c, here, changed)))
  BY <1>3, <1>6, <1>7, LinkTouches
<1> QED BY <1>8 DEF changed, picks, here

(* What the bar's form says: the choices it has a select for.                *)
SaysBar(c, at, period, locale) ==
    /\ Selects("period") => Get(at.params, "period") = period
    /\ Selects("locale") => Get(at.params, "lang") = locale
    /\ Alike(c.params, at.params, Params \ {"lang", "period", "tab"})
    /\ at.service = address.service

LEMMA BarFormSays ==
    ASSUME NEW c, AtRest(c), NEW period, NEW locale
    PROVE  SaysBar(c, BarForm(c, period, locale), period, locale)
<1> DEFINE own == [period |-> <<<<period>>>>, lang |-> <<<<locale>>>>]
           given == {name \in DOMAIN own : Selects(IF name = "lang" THEN "locale" ELSE name)}
           listed == [name \in given |-> own[name]]
           names == {"lang", "period", "tab"}
           here == Here(c)
           sent == Link(here, Submit(HiddenExcept(c.params, names), listed))
<1>1. BarForm(c, period, locale) = sent
  BY DEF BarForm
<1>2. /\ Selects("period") => "period" \in DOMAIN listed /\ listed["period"] = <<<<period>>>>
      /\ Selects("locale") => "lang" \in DOMAIN listed /\ listed["lang"] = <<<<locale>>>>
      /\ DOMAIN listed \subseteq names
  OBVIOUS
<1>3. {"period", "lang"} \subseteq Params \cap names
  BY DEF Params
<1>4. \A x : /\ IsList(<<<<x>>>>) /\ <<<<x>>>> # <<>> /\ <<<<x>>>>[1][1] = x
             /\ \A i \in DOMAIN <<<<x>>>> : <<<<x>>>>[i] # <<>>
  BY OneItem
<1>5. sent.service = address.service
  BY DEF Link, AtRest
<1> HIDE DEF listed, names, here
<1>6. Alike(c.params, sent.params, Params \ names)
  <2>1. Written(c.params)
    BY DEF AtRest, Ready
  <2> QED BY <1>2, <2>1, FormCarries
<1>7. ASSUME NEW name \in {"period", "lang"}, name \in DOMAIN listed, NEW x, listed[name] = <<<<x>>>>
      PROVE  Get(sent.params, name) = x
  <2>1. name \in DOMAIN listed \cap names \cap Params
    BY <1>3, <1>7
  <2>2. IsList(listed[name]) /\ \A i \in DOMAIN listed[name] : listed[name][i] # <<>>
    BY <1>4, <1>7
  <2>3. Says(sent.params, name, listed[name])
    BY <2>1, <2>2, FormSays
  <2> HIDE DEF sent
  <2> QED BY <1>4, <1>7, <2>3 DEF Says
<1> HIDE DEF sent
<1>8. /\ Selects("period") => Get(sent.params, "period") = period
      /\ Selects("locale") => Get(sent.params, "lang") = locale
  BY <1>2, <1>7
<1> QED BY <1>1, <1>5, <1>6, <1>8 DEF names, SaysBar

LEMMA PeriodSays ==
    ASSUME NEW c, AtRest(c), Selects("period"), NEW p \in Range(IdsOf(Domain.periods))
    PROVE  DoesWhatItSays(ReadBack(address),
              Control("period", [period |-> p], "page", BarForm(c, p, c.state.locale)))
<1> DEFINE picks == [period |-> p]
           at == BarForm(c, p, c.state.locale)
           control == Control("period", picks, "page", at)
<1>1. DOMAIN picks = {"period"} /\ picks["period"] = p
  OBVIOUS
<1>2. /\ Get(at.params, "period") = p /\ (Selects("locale") => Get(at.params, "lang") = c.state.locale)
      /\ Alike(c.params, at.params, Params \ {"lang", "period", "tab"}) /\ at.service = address.service
  <2>1. SaysBar(c, at, p, c.state.locale)
    BY BarFormSays
  <2> HIDE DEF at
  <2> QED BY <2>1 DEF SaysBar
<1> HIDE DEF picks, at
<1>3. ReadBack(at)["period"] = p
  <2>1. DaysOf(Domain, p).valid
    <3>1. PICK i \in DOMAIN IdsOf(Domain.periods) : p = IdsOf(Domain.periods)[i]
      BY DEF Range
    <3>2. i \in {k \in DOMAIN Domain.periods : Domain.periods[k].id = p}
      BY <3>1 DEF IdsOf
    <3> QED BY <3>2 DEF DaysOf, Present
  <2> QED BY <1>2, <2>1 DEF ReadBack, ReadState, PeriodOr
<1>4. Selects("locale") => ReadBack(at)["locale"] = ReadBack(address)["locale"]
  <2>1. c.state.locale = ReadBack(address).locale
    BY DEF AtRest
  <2> QED BY <1>2, <2>1 DEF ReadBack, ReadState
<1>5. control.name = "period" /\ control.picks = picks /\ control.at = at
  BY ControlParts
<1>6. TakesEffect(control)
  BY <1>1, <1>3, SameAsItself, TakesOne
<1> HIDE DEF control
<1> DEFINE again == IF Selects("locale") THEN {"locale"} ELSE {}
<1>7. Rewrites(control, again)
  BY <1>4, <1>5, SameAsItself DEF Rewrites
<1>8. Spares(DOMAIN control.picks \cup again, control.name, {"lang", "period", "tab"})
  <2>1. {"period"} \cup {"locale"} = {"period", "locale"} /\ {"period"} \cup {} = {"period"}
    OBVIOUS
  <2>2. DOMAIN control.picks = {"period"} /\ control.name = "period"
    BY <1>1, <1>5
  <2> QED BY <2>1, <2>2, Spared
<1>9. KeepsService(control)
  BY <1>2, <1>5 DEF KeepsService
<1>10. Alike(c.params, control.at.params, Params \ {"lang", "period", "tab"})
  BY <1>2, <1>5
<1> HIDE DEF again
<1>11. DoesWhatItSays(ReadBack(address), control)
  BY <1>6, <1>7, <1>8, <1>9, <1>10, OnlyTouched
<1> QED BY <1>11 DEF control, picks, at

LEMMA LocaleSays ==
    ASSUME NEW c, AtRest(c), Selects("locale"), NEW l \in Range(Domain.locales)
    PROVE  DoesWhatItSays(ReadBack(address),
              Control("locale", [locale |-> l], "page", BarForm(c, c.state.period, l)))
<1> DEFINE picks == [locale |-> l]
           at == BarForm(c, c.state.period, l)
           control == Control("locale", picks, "page", at)
<1>1. DOMAIN picks = {"locale"} /\ picks["locale"] = l
  OBVIOUS
<1>2. /\ (Selects("period") => Get(at.params, "period") = c.state.period) /\ Get(at.params, "lang") = l
      /\ Alike(c.params, at.params, Params \ {"lang", "period", "tab"}) /\ at.service = address.service
  <2>1. SaysBar(c, at, c.state.period, l)
    BY BarFormSays
  <2> HIDE DEF at
  <2> QED BY <2>1 DEF SaysBar
<1> HIDE DEF picks, at
<1>3. ReadBack(at)["locale"] = l
  BY <1>2 DEF ReadBack, ReadState
<1>4. Selects("period") => ReadBack(at)["period"] = ReadBack(address)["period"]
  <2>1. c.state.period = ReadBack(address).period
    BY DEF AtRest
  <2> QED BY <1>2, <2>1 DEF ReadBack, ReadState, PeriodOr
<1>5. control.name = "locale" /\ control.picks = picks /\ control.at = at
  BY ControlParts
<1>6. TakesEffect(control)
  BY <1>1, <1>3, SameAsItself, TakesOne
<1> HIDE DEF control
<1> DEFINE again == IF Selects("period") THEN {"period"} ELSE {}
<1>7. Rewrites(control, again)
  BY <1>4, <1>5, SameAsItself DEF Rewrites
<1>8. Spares(DOMAIN control.picks \cup again, control.name, {"lang", "period", "tab"})
  <2>1. {"locale"} \cup {"period"} = {"period", "locale"} /\ {"locale"} \cup {} = {"locale"}
    OBVIOUS
  <2>2. DOMAIN control.picks = {"locale"} /\ control.name = "locale"
    BY <1>1, <1>5
  <2> QED BY <2>1, <2>2, Spared
<1>9. KeepsService(control)
  BY <1>2, <1>5 DEF KeepsService
<1>10. Alike(c.params, control.at.params, Params \ {"lang", "period", "tab"})
  BY <1>2, <1>5
<1> HIDE DEF again
<1>11. DoesWhatItSays(ReadBack(address), control)
  BY <1>6, <1>7, <1>8, <1>9, <1>10, OnlyTouched
<1> QED BY <1>11 DEF control, picks, at

(* The wordmark leads home, whatever was chosen. *)
LEMMA WordmarkSays ==
    ASSUME NEW at
    PROVE  DoesWhatItSays(ReadBack(address), Control("wordmark", None, "page", at))
<1> DEFINE control == Control("wordmark", None, "page", at)
<1>1. control.name = "wordmark" /\ control.picks = None /\ DOMAIN None = {}
  BY ControlParts DEF None
<1>2. DOMAIN ReadBack(address) = Losable("wordmark")
  BY StateFields DEF ReadBack, Losable, MayChange
<1> HIDE DEF control
<1>3. DoesWhatItSays(ReadBack(address), control)
  BY <1>1, <1>2 DEF DoesWhatItSays, Losable
<1> QED BY <1>3 DEF control

LEMMA BarSays ==
    ASSUME NEW c, AtRest(c), NEW control \in BarControls(c)
    PROVE  DoesWhatItSays(ReadBack(address), control)
<1>1. CASE control \in {Control("wordmark", None, "page", [service |-> "", params |-> None]) : x \in {y \in {1} : Offers("wordmark")}}
  BY <1>1, WordmarkSays
<1>2. CASE control \in {Control("scope", [scope |-> s], "body", Href(c, "", [scope |-> <<s>>, region |-> <<>>]))
                         : s \in {t \in Domain.scopes : Offers("scope-switch")}}
  BY <1>2, ScopeSays
<1>3. CASE control \in {Control("role", [role |-> r], "body",
                                Href(c, "", [role |-> <<r>>, status |-> <<>>, cat |-> <<>>, q |-> <<>>]))
                        : r \in {t \in Range(Domain.roles) : Offers("role-switch") /\ Len(Domain.roles) >= 2}}
  BY <1>3, RoleSays
<1>4. CASE control \in {Control("period", [period |-> p], "page", BarForm(c, p, c.state.locale))
                        : p \in {t \in Range(IdsOf(Domain.periods)) : Selects("period")}}
  BY <1>4, PeriodSays
<1>5. CASE control \in {Control("locale", [locale |-> l], "page", BarForm(c, c.state.period, l))
                        : l \in {t \in Range(Domain.locales) : Selects("locale")}}
  BY <1>5, LocaleSays
<1>6. CASE control \in {Control("theme", [theme |-> t], "page", Href(c, Here(c), [theme |-> <<t>>]))
                        : t \in {u \in {OtherTheme(c.state.theme)} : ~scripted /\ Offers("theme-toggle")}}
  <2>1. OtherTheme(c.state.theme) \in {"light", "dark"}
    BY DEF OtherTheme
  <2> QED BY <1>6, <2>1, ThemeSays
<1> QED BY <1>1, <1>2, <1>3, <1>4, <1>5, <1>6, Zenon DEF BarControls

LEMMA SignalTabSays ==
    ASSUME NEW c, AtRest(c), NEW tab \in {"attention", "opportunity"}, Domain.opportunities # <<>>
    PROVE  DoesWhatItSays(ReadBack(address),
              Control("signals", [signals |-> tab], "signals", Href(c, "", [signals |-> <<tab>>])))
<1> DEFINE changed == [signals |-> <<tab>>]
           picks == [signals |-> tab]
           at == Href(c, "", changed)
<1>1. /\ DOMAIN changed = {"signals"} /\ changed["signals"] = <<tab>>
      /\ DOMAIN picks = {"signals"} /\ picks["signals"] = tab
  OBVIOUS
<1>2. "signals" \in Params
  BY DEF Params
<1> HIDE DEF changed, picks
<1>3. Get(at.params, "signals") = tab
  <2>1. "signals" \in DOMAIN changed \cap Params /\ changed["signals"] = <<tab>>
    BY <1>1, <1>2
  <2>2. Get(Href(c, "", changed).params, "signals") = tab
    BY <2>1, LinkSays
  <2> QED BY <2>2
<1>4. ReadBack(at)["signals"] = tab
  BY <1>3 DEF ReadBack, ReadState, SignalTabFor
<1>5. TakesEffect(Control("signals", picks, "signals", at))
  <2> HIDE DEF at
  <2> QED BY <1>1, <1>4, SameAsItself, TakesOne
<1>6. Spares(DOMAIN picks, "signals", DOMAIN changed)
  BY <1>1, Spared
<1>7. "service" \in Losable("signals")
  BY DEF Losable, MayChange
<1>8. DoesWhatItSays(ReadBack(address), Control("signals", picks, "signals", Href(c, "", changed)))
  BY <1>5, <1>6, <1>7, LinkTouches
<1> QED BY <1>8 DEF changed, picks

(* A control that picks nothing takes effect as it is. *)
LEMMA TakesNothing ==
    ASSUME NEW name, NEW target, NEW at
    PROVE  TakesEffect(Control(name, None, target, at)) /\ DOMAIN None = {}
  BY ControlParts DEF TakesEffect, None

(* A finding's link opens a service or narrows the board: nothing else.      *)
LEMMA FindingSays ==
    ASSUME NEW c, AtRest(c), NEW finding
    PROVE  LET action == SignalAction(c, finding)
           IN  DoesWhatItSays(ReadBack(address),
                  Control(IF action.target = "drawer" THEN "focus" ELSE "card", None,
                          action.target, action.href))
<1> DEFINE action == SignalAction(c, finding)
           name == IF action.target = "drawer" THEN "focus" ELSE "card"
<1>1. "service" \in Losable("focus") /\ "service" \in Losable("card")
  BY DEF Losable, MayChange
<1>2. \/ \E service, changed : /\ action.target = "drawer" /\ action.href = Href(c, service, changed)
                               /\ DOMAIN changed = {"tab"}
      \/ \E service, changed : /\ action.target # "drawer" /\ action.href = Href(c, service, changed)
                               /\ DOMAIN changed = {"role", "status", "cat", "id", "q"}
      \/ \E service, changed : /\ action.target # "drawer" /\ action.href = Href(c, service, changed)
                               /\ DOMAIN changed = {"status", "cat", "id", "q"}
  <2> DEFINE filter == [status |-> finding.filter.status, cat |-> finding.filter.category,
                        id |-> finding.filter.ids, q |-> <<>>]
             sided  == [role |-> <<finding.filter.role>>, status |-> finding.filter.status,
                        cat |-> finding.filter.category, id |-> finding.filter.ids, q |-> <<>>]
             tabbed == [tab |-> IF finding.focus.tab = "" THEN <<>> ELSE <<finding.focus.tab>>]
  <2>1. /\ DOMAIN filter = {"status", "cat", "id", "q"}
        /\ DOMAIN sided = {"role", "status", "cat", "id", "q"} /\ DOMAIN tabbed = {"tab"}
    OBVIOUS
  <2>2. CASE finding.focus.service # ""
    <3>1. action = [target |-> "drawer", href |-> Href(c, finding.focus.service, tabbed)]
      BY <2>2 DEF SignalAction
    <3> HIDE DEF action, tabbed
    <3> QED BY <2>1, <3>1
  <2>3. CASE finding.focus.service = "" /\ finding.filter.role # ""
    <3>1. action = [target |-> "body", href |-> Href(c, "", sided)]
      BY <2>3 DEF SignalAction
    <3> HIDE DEF action, sided
    <3> QED BY <2>1, <3>1
  <2>4. CASE finding.focus.service = "" /\ finding.filter.role = ""
    <3>1. action = [target |-> "leaderboard", href |-> Href(c, "", filter)]
      BY <2>4 DEF SignalAction
    <3> HIDE DEF action, filter
    <3> QED BY <2>1, <3>1
  <2> QED BY <2>2, <2>3, <2>4
<1> HIDE DEF action
<1>3. PICK service, changed : /\ action.href = Href(c, service, changed)
                              /\ Spares({}, name, DOMAIN changed)
  BY <1>2, Spared
<1>4. "service" \in DOMAIN None \cup Losable(name) /\ Spares(DOMAIN None, name, DOMAIN changed)
  BY <1>1, <1>3, TakesNothing
<1>5. TakesEffect(Control(name, None, action.target, Href(c, service, changed)))
  BY TakesNothing
<1> HIDE DEF name
<1>6. DoesWhatItSays(ReadBack(address), Control(name, None, action.target, Href(c, service, changed)))
  BY <1>4, <1>5, LinkTouches
<1> QED BY <1>3, <1>6 DEF action, name

LEMMA SignalSays ==
    ASSUME NEW c, AtRest(c), NEW control \in SignalControls(c)
    PROVE  DoesWhatItSays(ReadBack(address), control)
<1>1. CASE control \in {Control("signals", [signals |-> t.tab], "signals", t.href) : t \in SignalTabs(c)}
  <2>1. PICK t \in SignalTabs(c) : control = Control("signals", [signals |-> t.tab], "signals", t.href)
    BY <1>1
  <2>2. PICK tab \in {"attention", "opportunity"} :
           t = [tab |-> tab, active |-> c.state.signals = tab, href |-> Href(c, "", [signals |-> <<tab>>])]
    BY <2>1 DEF SignalTabs
  <2>3. Domain.opportunities # <<>>
    BY <2>1 DEF SignalTabs, AtRest
  <2>4. t.tab = tab /\ t.href = Href(c, "", [signals |-> <<tab>>])
    BY <2>2
  <2> QED BY <2>1, <2>3, <2>4, SignalTabSays
<1>2. CASE control \in {Control(IF card.action.target = "drawer" THEN "focus" ELSE "card", None,
                                card.action.target, card.action.href)
                          : card \in {k \in Range(SignalCards(c)) : ~k.empty}}
  <2>1. PICK card \in Range(SignalCards(c)) :
           control = Control(IF card.action.target = "drawer" THEN "focus" ELSE "card", None,
                             card.action.target, card.action.href)
    BY <1>2
  <2>2. PICK finding : card = SignalCard(c, finding)
    BY <2>1 DEF Range, SignalCards, CardsOf
  <2>3. card.action = SignalAction(c, finding)
    BY <2>2 DEF SignalCard
  <2> QED BY <2>1, <2>3, FindingSays
<1> QED BY <1>1, <1>2, Zenon DEF SignalControls

-----------------------------------------------------------------------------
(* The drawer's controls *)

LEMMA TabSays ==
    ASSUME NEW c, AtRest(c), NEW t
    PROVE  DoesWhatItSays(ReadBack(address),
              Control("tab", [tab |-> t], "pane", Href(c, Here(c), [tab |-> <<t>>])))
<1> DEFINE changed == [tab |-> <<t>>]
           picks == [tab |-> t]
           here == Here(c)
           at == Href(c, here, changed)
<1>1. /\ DOMAIN changed = {"tab"} /\ changed["tab"] = <<t>>
      /\ DOMAIN picks = {"tab"} /\ picks["tab"] = t
  OBVIOUS
<1>2. "tab" \in Params
  BY DEF Params
<1>3. here = address.service
  BY DEF AtRest
<1> HIDE DEF changed, picks, here
<1>4. Get(at.params, "tab") = t
  <2>1. "tab" \in DOMAIN changed \cap Params /\ changed["tab"] = <<t>>
    BY <1>1, <1>2
  <2>2. Get(Href(c, here, changed).params, "tab") = t
    BY <2>1, LinkSays
  <2> QED BY <2>2
<1>5. ReadBack(at)["tab"] = t
  BY <1>4 DEF ReadBack, ReadState
<1>6. TakesEffect(Control("tab", picks, "pane", at))
  <2> HIDE DEF at
  <2> QED BY <1>1, <1>5, SameAsItself, TakesOne
<1>7. Spares(DOMAIN picks, "tab", DOMAIN changed)
  BY <1>1, Spared
<1>8. DoesWhatItSays(ReadBack(address), Control("tab", picks, "pane", Href(c, here, changed)))
  BY <1>3, <1>6, <1>7, LinkTouches
<1> QED BY <1>8 DEF changed, picks, here

(* A control that picks a service leads to it. *)
LEMMA ServiceSays ==
    ASSUME NEW c, AtRest(c), NEW service, NEW name, NEW target, NEW changed,
           Spares({"service"}, name, DOMAIN changed)
    PROVE  DoesWhatItSays(ReadBack(address),
              Control(name, [service |-> service], target, Href(c, service, changed)))
<1> DEFINE picks == [service |-> service]
           at == Href(c, service, changed)
<1>1. DOMAIN picks = {"service"} /\ picks["service"] = service
  OBVIOUS
<1> HIDE DEF picks
<1>2. at.service = service
  BY HrefService
<1>3. ReadBack(at)["service"] = service
  BY <1>2 DEF ReadBack, ReadState
<1>4. TakesEffect(Control(name, picks, target, at))
  <2> HIDE DEF at
  <2> QED BY <1>1, <1>3, SameAsItself, TakesOne
<1>5. DoesWhatItSays(ReadBack(address), Control(name, picks, target, Href(c, service, changed)))
  BY <1>1, <1>4, LinkTouches
<1> QED BY <1>5 DEF picks

LEMMA DrawerSays ==
    ASSUME NEW c, AtRest(c), NEW control \in DrawerControls(c)
    PROVE  DoesWhatItSays(ReadBack(address), control)
<1>1. \/ \E t : control = Control("tab", [tab |-> t], "pane", Href(c, Here(c), [tab |-> <<t>>]))
      \/ control = Control("close", [service |-> ""], "page", Href(c, "", [tab |-> <<>>]))
  BY DEF DrawerControls
<1>2. Spares({"service"}, "close", DOMAIN [tab |-> <<>>])
  <2>1. DOMAIN [tab |-> <<>>] = {"tab"}
    OBVIOUS
  <2> QED BY <2>1, Spared
<1> QED BY <1>1, <1>2, TabSays, ServiceSays

-----------------------------------------------------------------------------
(* The board's controls *)

(* A configuration that was accepted gives what it declares a name of its own. *)
LEMMA AcceptedNames ==
    ASSUME RuleAbiding
    PROVE  /\ \A i \in DOMAIN Domain.metrics : Domain.metrics[i].id # ""
           /\ \A i \in DOMAIN Domain.regions : Domain.regions[i].id # ""
           /\ \A i, j \in DOMAIN Domain.regions : Domain.regions[i].id = Domain.regions[j].id => i = j
           /\ Domain.regions # <<>>
<1>1. MetricProblems(Domain) = {} /\ TaxonomyProblems(Domain) = {}
  <2>1. Problems(config) = {} /\ Domain = config.domain
    BY DEF RuleAbiding, Domain
  <2> QED BY <2>1 DEF Problems, DomainProblems
<1>2. Named(Domain.metrics, "metric") = {}
  BY <1>1 DEF MetricProblems
<1>3. Named(Domain.regions, "region") = {} /\ Domain.regions # <<>>
  BY <1>1 DEF TaxonomyProblems, Unless
<1>4. ASSUME NEW items, NEW what, Named(items, what) = {}
      PROVE  /\ "" \notin Range(IdsOf(items))
             /\ \A i, j \in DOMAIN items : items[i].id = items[j].id /\ items[i].id # "" => i = j
  BY <1>4 DEF Named, Unless
<1>5. \A items : "" \notin Range(IdsOf(items)) => \A i \in DOMAIN items : items[i].id # ""
  BY DEF Range, IdsOf
<1> QED BY <1>2, <1>3, <1>4, <1>5

LEMMA RowSays ==
    ASSUME NEW c, AtRest(c), NEW row \in Range(BoardRows(c))
    PROVE  DoesWhatItSays(ReadBack(address), Control("row", [service |-> row.id], "drawer", row.href))
<1>1. PICK sv, rank, cells : row = Row(c, sv, rank, cells)
  BY Zenon DEF Range, BoardRows, RankedRows, Rows, BuildRow
<1>2. row.id = sv.id /\ row.href = Href(c, sv.id, None)
  BY <1>1 DEF Row
<1>3. Spares({"service"}, "row", DOMAIN None)
  <2>1. DOMAIN None = {}
    BY DEF None
  <2> QED BY <2>1, Spared
<1>4. DoesWhatItSays(ReadBack(address), Control("row", [service |-> sv.id], "drawer", Href(c, sv.id, None)))
  BY <1>3, ServiceSays
<1> QED BY <1>2, <1>4

LEMMA SortSays ==
    ASSUME NEW c, AtRest(c), RuleAbiding, NEW col \in Range(Columns(c))
    PROVE  DoesWhatItSays(ReadBack(address), Control("sort", [sort |-> col.key], "leaderboard", col.href))
<1>1. PICK key \in Range(Domain.columns) : col = Column(c, key)
  <2>1. c.d = Domain
    BY DEF AtRest
  <2> QED BY <2>1 DEF Range, Columns
<1>2. key # ""
  <2>1. config \in Configs /\ Problems(config) = {} /\ Domain = config.domain
    BY DEF RuleAbiding, Domain
  <2>2. key \in {"rank", "name", "status"} \cup Range(IdsOf(Domain.metrics))
    BY <2>1, AcceptedColumns
  <2>3. "" \notin Range(IdsOf(Domain.metrics))
    BY AcceptedNames DEF Range, IdsOf
  <2> QED BY <2>2, <2>3
<1>3. PICK next : col.href = Href(c, "", [sort |-> <<key>>, dir |-> <<next>>]) /\ col.key = key
  BY <1>1 DEF Column
<1> DEFINE changed == [sort |-> <<key>>, dir |-> <<next>>]
           picks == [sort |-> key]
           at == Href(c, "", changed)
<1>4. /\ DOMAIN changed = {"sort", "dir"} /\ changed["sort"] = <<key>>
      /\ DOMAIN picks = {"sort"} /\ picks["sort"] = key
  OBVIOUS
<1>5. "sort" \in Params
  BY DEF Params
<1> HIDE DEF changed, picks
<1>6. Get(at.params, "sort") = key
  <2>1. "sort" \in DOMAIN changed \cap Params /\ changed["sort"] = <<key>>
    BY <1>4, <1>5
  <2>2. Get(Href(c, "", changed).params, "sort") = key
    BY <2>1, LinkSays
  <2> QED BY <2>2
<1>7. ReadBack(at)["sort"] = key
  <2>1. ReadBack(at).sort = IF Get(at.params, "sort") = "" THEN "rank" ELSE Get(at.params, "sort")
    BY Zenon DEF ReadBack, ReadState
  <2> QED BY <1>2, <1>6, <2>1
<1>8. TakesEffect(Control("sort", picks, "leaderboard", at))
  <2> HIDE DEF at
  <2> QED BY <1>4, <1>7, SameAsItself, TakesOne
<1>9. Spares(DOMAIN picks, "sort", DOMAIN changed)
  BY <1>4, Spared
<1>10. "service" \in Losable("sort")
  BY DEF Losable, MayChange
<1>11. DoesWhatItSays(ReadBack(address), Control("sort", picks, "leaderboard", Href(c, "", changed)))
  BY <1>8, <1>9, <1>10, LinkTouches
<1> QED BY <1>3, <1>11 DEF changed, picks

(* The clear link leaves no filter, and nothing else of the state is touched. *)
LEMMA ClearSays ==
    ASSUME NEW c, AtRest(c)
    PROVE  DoesWhatItSays(ReadBack(address),
              Control("clear", [filter |-> [status |-> {}, cat |-> {}, q |-> {}, id |-> {}]],
                      "leaderboard", FilterBar(c).clearHref))
<1> DEFINE changed == [p \in {"q", "status", "cat", "id"} |-> <<>>]
           empty == [status |-> {}, cat |-> {}, q |-> {}, id |-> {}]
           picks == [filter |-> empty]
           at == Href(c, "", changed)
<1>1. /\ DOMAIN changed = {"q", "status", "cat", "id"} /\ \A p \in DOMAIN changed : changed[p] = <<>>
      /\ DOMAIN picks = {"filter"} /\ picks["filter"] = empty
  OBVIOUS
<1>2. FilterBar(c).clearHref = at
  BY DEF FilterBar
<1> HIDE DEF changed, picks
<1>3. ReadBack(at)["filter"] = empty
  <2> DEFINE left == ReadParams(ParamsWith(c.params, changed))
  <2>1. at.params = left
    BY DEF Href, Link
  <2>2. DOMAIN left \cap {"q", "status", "cat", "id"} = {}
    <3>1. DOMAIN ParamsWith(c.params, changed) = DOMAIN c.params \ {"q", "status", "cat", "id"}
      BY <1>1 DEF ParamsWith
    <3>2. DOMAIN left \subseteq DOMAIN ParamsWith(c.params, changed)
      BY DEF ReadParams
    <3> QED BY <3>1, <3>2
  <2> HIDE DEF left, at
  <2>3. Get(left, "q") = "" /\ All(left, "status") = <<>> /\ All(left, "cat") = <<>> /\ All(left, "id") = <<>>
    BY <2>2 DEF Get, All
  <2>4. ReadBack(at).filter = [status |-> KnownValues(All(left, "status"), Statuses),
                                cat |-> KnownValues(All(left, "cat"), Range(Domain.categories)),
                                id |-> SplitValues(All(left, "id")),
                                q |-> IF Get(left, "q") = "" THEN {} ELSE {Get(left, "q")}]
    BY <2>1 DEF ReadBack, ReadState
  <2> QED BY <2>3, <2>4, NoValues DEF KnownValues
<1>4. TakesEffect(Control("clear", picks, "leaderboard", at))
  <2> HIDE DEF at
  <2> QED BY <1>1, <1>3, SameAsItself, TakesOne
<1>5. Spares(DOMAIN picks, "clear", DOMAIN changed)
  BY <1>1, Spared
<1>6. "service" \in Losable("clear")
  BY DEF Losable, MayChange
<1>7. DoesWhatItSays(ReadBack(address), Control("clear", picks, "leaderboard", Href(c, "", changed)))
  BY <1>4, <1>5, <1>6, LinkTouches
<1> QED BY <1>2, <1>7 DEF picks
(* What is kept of a list begins with its first item, when that is kept. *)
LEMMA KeptFirst ==
    ASSUME NEW list, IsList(list), list # <<>>, NEW places, 1 \in places
    PROVE  1 \in DOMAIN Kept(list, places) /\ Kept(list, places)[1] = list[1]
<1> DEFINE S == Range(list)
           n == Len(list)
<1>1. list \in Seq(S) /\ n \in Nat /\ n >= 1 /\ DOMAIN list = 1 .. n
  BY DEF IsList
<1>2. \A k \in 1 .. n : list[k] \in S
  BY <1>1
<1>3. PICK f : KeptBy(f, list, places)
  BY <1>1, KeptSteps
<1>4. /\ f[0] = <<>>
      /\ \A k \in 1 .. n : f[k] = IF k \in places THEN Append(f[k - 1], list[k]) ELSE f[k - 1]
      /\ Kept(list, places) = f[n]
  BY <1>3, Zenon DEF KeptBy
<1> HIDE DEF S, n
<1> DEFINE Good == {k \in 0 .. (n - 1) : f[k + 1] \in Seq(S) /\ 1 \in DOMAIN f[k + 1] /\ f[k + 1][1] = list[1]}
<1>5. 0 \in Good
  <2>1. 1 \in 1 .. n /\ 1 - 1 = 0 /\ 0 + 1 = 1 /\ 0 \in 0 .. (n - 1)
    BY <1>1
  <2>2. f[1] = Append(<<>>, list[1])
    BY <1>4, <2>1
  <2>3. f[1] = <<list[1]>>
    BY <2>2
  <2>4. <<list[1]>> \in Seq(S) /\ DOMAIN <<list[1]>> = {1} /\ <<list[1]>>[1] = list[1]
    BY <1>2, <2>1, OneItem
  <2> QED BY <2>1, <2>3, <2>4
<1>6. ASSUME NEW k \in 0 .. ((n - 1) - 1), k \in Good PROVE k + 1 \in Good
  <2>1. (k + 1) + 1 \in 1 .. n /\ ((k + 1) + 1) - 1 = k + 1 /\ k + 1 \in 0 .. (n - 1)
    BY <1>1
  <2>2. f[(k + 1) + 1] \in {Append(f[k + 1], list[(k + 1) + 1]), f[k + 1]}
    BY <1>4, <2>1
  <2>3. f[k + 1] \in Seq(S) /\ 1 \in DOMAIN f[k + 1] /\ f[k + 1][1] = list[1]
    BY <1>6
  <2>4. \A x \in S : \A s \in Seq(S) : 1 \in DOMAIN s =>
           Append(s, x) \in Seq(S) /\ 1 \in DOMAIN Append(s, x) /\ Append(s, x)[1] = s[1]
    OBVIOUS
  <2> HIDE DEF Good
  <2>5. f[(k + 1) + 1] \in Seq(S) /\ 1 \in DOMAIN f[(k + 1) + 1] /\ f[(k + 1) + 1][1] = list[1]
    <3>1. PICK s \in Seq(S) : s = f[k + 1] /\ 1 \in DOMAIN s /\ s[1] = list[1]
      BY <2>3
    <3>2. PICK x \in S : x = list[(k + 1) + 1]
      BY <1>2, <2>1
    <3>3. PICK g : g = f[(k + 1) + 1]
      OBVIOUS
    <3>4. g = Append(s, x) \/ g = s
      BY <2>2, <3>1, <3>2, <3>3
    <3>5. g \in Seq(S) /\ 1 \in DOMAIN g /\ g[1] = list[1]
      BY <2>4, <3>1, <3>4
    <3> QED BY <3>3, <3>5
  <2> QED BY <2>1, <2>5 DEF Good
<1>7. n - 1 \in Good
  <2> HIDE DEF Good
  <2>1. n - 1 \in Nat
    BY <1>1
  <2>2. \A k \in 0 .. (n - 1) : k \in Good
    BY <1>5, <1>6, <2>1, UpTo
  <2> QED BY <2>1, <2>2
<1>8. (n - 1) + 1 = n
  BY <1>1
<1> QED BY <1>4, <1>7, <1>8

-----------------------------------------------------------------------------
(* The filter form's region *)

(* A region on offer is kept when it is chosen. *)
LEMMA OfferedIsKept ==
    ASSUME NEW c, c.d = Domain, IsList(Domain.regions), FilterBar(c).enabled,
           NEW i \in DOMAIN FilterBar(c).regions
    PROVE  RegionOr(FilterBar(c).regions[i].id, c.state.scope, Domain) = FilterBar(c).regions[i].id
<1> DEFINE places == {k \in DOMAIN Domain.regions : /\ Domain.showRegions
                                                       /\ Domain.regions[k].scope \in {c.state.scope, Domain.defaultScope}}
           named == Kept(Domain.regions, places)
           offered == FilterBar(c).regions
<1>1. offered = [k \in DOMAIN named |-> [id |-> named[k].id, active |-> named[k].id = c.state.region]]
  BY DEF FilterBar
<1>2. c.state.scope # Domain.defaultScope
  BY DEF FilterBar, RegionEnabled
<1>3. Range(named) = {Domain.regions[k] : k \in DOMAIN Domain.regions \cap places}
  BY KeptSound DEF IsList
<1> HIDE DEF named, offered
<1>4. i \in DOMAIN named /\ offered[i].id = named[i].id
  BY <1>1 DEF offered
<1>5. PICK k \in DOMAIN Domain.regions \cap places : named[i] = Domain.regions[k]
  BY <1>3, <1>4 DEF Range
<1>6. Domain.regions[k].id = offered[i].id /\ Domain.regions[k].scope \in {c.state.scope, Domain.defaultScope}
  BY <1>4, <1>5
<1> HIDE DEF places
<1>7. RegionOr(offered[i].id, c.state.scope, Domain) = offered[i].id
  BY <1>2, <1>5, <1>6 DEF RegionOr
<1> QED BY <1>7 DEF offered

LEMMA NoRegionKept == \A scope, d : RegionOr("", scope, d) = ""
  BY DEF RegionOr

LEMMA NothingInNothing == Range(<<>>) = {}
  BY DEF Range

(* The options of a select, one for each of a list. *)
Options(named, region) ==
    [k \in DOMAIN named |-> [id |-> named[k].id, active |-> named[k].id = region]]

LEMMA OptionsAre ==
    ASSUME NEW named, IsList(named), NEW region
    PROVE  LET options == Options(named, region)
           IN  /\ DOMAIN options \subseteq Nat /\ (options # <<>> => 1 \in DOMAIN options)
               /\ \A k \in DOMAIN options : options[k].active => options[k].id = region
<1> DEFINE options == Options(named, region)
<1>0. options = [k \in DOMAIN named |-> [id |-> named[k].id, active |-> named[k].id = region]]
  BY DEF Options
<1> HIDE DEF options
<1>1. Len(named) \in Nat /\ DOMAIN named = 1 .. Len(named)
  BY ListDomain
<1>2. DOMAIN options = 1 .. Len(named)
  BY <1>0, <1>1
<1>3. options # <<>> => 1 \in DOMAIN options
  <2>1. Len(named) = 0 => options = <<>>
    BY <1>0, <1>1
  <2> QED BY <1>1, <1>2, <2>1
<1>4. ASSUME NEW k \in DOMAIN options, options[k].active PROVE options[k].id = region
  <2> DEFINE yes == [id |-> named[k].id, active |-> TRUE]
             no == [id |-> named[k].id, active |-> FALSE]
  <2>1. yes.id = named[k].id /\ ~no.active
    OBVIOUS
  <2>2. /\ named[k].id # region => options[k] = no
        /\ named[k].id = region => options[k] = yes
    BY <1>0, <1>1, <1>2
  <2> HIDE DEF yes, no
  <2>3. named[k].id = region
    BY <1>4, <2>1, <2>2, Zenon
  <2> QED BY <2>1, <2>2, <2>3
<1>5. DOMAIN options \subseteq Nat
  BY <1>1, <1>2
<1> QED BY <1>3, <1>4, <1>5 DEF options

(* What a region select that nobody touched sends does not narrow the board. *)
NarrowsNoFurther(c) == c.state.region # "" \/ EveryRegion(Domain, Sent(FilterBar(c)))

(* What a select nobody touched sends leaves the region as it was, or says   *)
(* aloud that there is none, unless it narrows to a part.                   *)
LEMMA UntouchedRegion ==
    ASSUME NEW c, c.d = Domain, IsList(Domain.regions), Domain.showRegions,
           NEW got, c.state.region = RegionOr(got, c.state.scope, Domain),
           NarrowsNoFurther(c)
    PROVE  Same("region", c.state.region, RegionOr(Sent(FilterBar(c)), c.state.scope, Domain))
<1> DEFINE bar == FilterBar(c)
           options == bar.regions
           active == {i \in DOMAIN options : options[i].active}
           places == {k \in DOMAIN Domain.regions : /\ Domain.showRegions
                                                    /\ Domain.regions[k].scope \in {c.state.scope, Domain.defaultScope}}
           named == Kept(Domain.regions, places)
           sent == Sent(bar)
<1>1. /\ DOMAIN options \subseteq Nat /\ (options # <<>> => 1 \in DOMAIN options)
      /\ \A k \in DOMAIN options : options[k].active => options[k].id = c.state.region
  <2>1. options = Options(named, c.state.region)
    BY DEF FilterBar, Options
  <2>2. named \in Seq(Range(Domain.regions))
    BY KeptSound DEF IsList
  <2> HIDE DEF named, options
  <2>3. IsList(named)
    BY <2>2, SequenceIsList
  <2> QED BY <2>1, <2>3, OptionsAre
<1>2. c.state.region # "" => bar.enabled /\ \E x \in Range(options) : x.active
  BY RegionIsOffered
<1>3. ~bar.enabled \/ options = <<>> => sent = ""
  BY DEF Sent
<1>4. bar.enabled /\ options # <<>> => sent = options[IF active = {} THEN 1 ELSE Min(active)].id
  BY DEF Sent
<1>5. bar.enabled => \A i \in DOMAIN options : RegionOr(options[i].id, c.state.scope, Domain) = options[i].id
  BY OfferedIsKept
<1>6. c.state.region # "" \/ EveryRegion(Domain, sent)
  BY DEF NarrowsNoFurther
<1> HIDE DEF options, bar, sent
<1>7. SUFFICES Same("region", c.state.region, RegionOr(sent, c.state.scope, Domain))
  BY DEF sent, bar
<1>8. CASE ~bar.enabled \/ options = <<>>
  <2>1. c.state.region = ""
    BY <1>2, <1>8, NothingInNothing
  <2> QED BY <1>3, <1>8, <2>1, NoRegionKept, SameAsItself
<1>9. CASE bar.enabled /\ options # <<>> /\ active = {}
  <2>1. c.state.region = ""
    BY <1>2, <1>9, Zenon DEF Range
  <2>2. RegionOr(sent, c.state.scope, Domain) = sent
    BY <1>1, <1>4, <1>5, <1>9
  <2>3. EveryRegion(Domain, "") /\ EveryRegion(Domain, sent)
    BY <1>6, <2>1 DEF EveryRegion
  <2>4. Same("region", "", sent)
    BY <2>3 DEF Same
  <2> QED BY <2>1, <2>2, <2>4
<1>10. CASE bar.enabled /\ options # <<>> /\ active # {}
  <2>1. active \subseteq Nat
    BY <1>1
  <2> HIDE DEF active
  <2>2. Min(active) \in active
    BY <1>10, <2>1, MinIsMember
  <2>3. Min(active) \in DOMAIN options /\ options[Min(active)].active
    BY <2>2 DEF active
  <2>4. sent = options[Min(active)].id
    BY <1>4, <1>10
  <2>5. sent = c.state.region /\ RegionOr(sent, c.state.scope, Domain) = sent
    BY <1>1, <1>5, <1>10, <2>3, <2>4
  <2> QED BY <2>5, SameAsItself
<1> QED BY <1>8, <1>9, <1>10
-----------------------------------------------------------------------------
(* The filter form *)

(* What the form's fields say: what is known, and at most one word.          *)
Sayable(c, fields) ==
    /\ fields.status \subseteq Statuses /\ fields.cat \subseteq Range(Domain.categories)
    /\ fields.q = {} \/ \E w : w # "" /\ fields.q = {w}
    /\ \/ fields.region = Sent(FilterBar(c))
       \/ /\ FilterBar(c).enabled
          /\ \E i \in DOMAIN FilterBar(c).regions : fields.region = FilterBar(c).regions[i].id

LEMMA EditsSayable ==
    ASSUME NEW c, AtRest(c), RuleAbiding, NEW fields \in FieldEdits(c, FilterBar(c))
    PROVE  Sayable(c, fields)
<1> DEFINE f == c.state.filter
           bar == FilterBar(c)
           now == [status |-> f.status, cat |-> f.cat, q |-> f.q, region |-> Sent(bar)]
<1>1. /\ f.status \subseteq Statuses /\ f.cat \subseteq Range(Domain.categories)
      /\ f.q = {} \/ \E w : w # "" /\ f.q = {w}
  <2>1. c.state = ReadState(Domain, address.service, address.params, cookie)
    BY DEF AtRest, ReadBack
  <2> DEFINE status == KnownValues(All(address.params, "status"), Statuses)
             cat == KnownValues(All(address.params, "cat"), Range(Domain.categories))
             id == SplitValues(All(address.params, "id"))
             word == Get(address.params, "q")
             q == IF word = "" THEN {} ELSE {word}
  <2>2. ReadState(Domain, address.service, address.params, cookie).filter
          = [status |-> status, cat |-> cat, id |-> id, q |-> q]
    BY Zenon DEF ReadState
  <2>3. status \subseteq Statuses /\ cat \subseteq Range(Domain.categories)
    BY DEF KnownValues
  <2>4. q = {} \/ \E w : w # "" /\ q = {w}
    OBVIOUS
  <2> HIDE DEF status, cat, id, q
  <2>5. f.status = status /\ f.cat = cat /\ f.q = q
    BY <2>1, <2>2
  <2> QED BY <2>3, <2>4, <2>5
<1>2. DOMAIN bar.statuses = Statuses /\ DOMAIN bar.categories \subseteq Range(Domain.categories)
  <2>1. Range(Domain.statusOrder) = Statuses /\ c.d = Domain
    BY AcceptedBoard DEF AtRest
  <2> QED BY <2>1 DEF FilterBar
<1> HIDE DEF f, bar
<1>3. CASE \E s \in DOMAIN bar.statuses : fields = [now EXCEPT !.status = Toggle(@, s)]
  <2>1. PICK s \in DOMAIN bar.statuses : fields = [now EXCEPT !.status = Toggle(f.status, s)]
    BY <1>3
  <2>2. fields.status = Toggle(f.status, s) /\ fields.cat = f.cat /\ fields.q = f.q /\ fields.region = Sent(bar)
    BY <2>1
  <2>3. Toggle(f.status, s) \subseteq f.status \cup {s}
    BY DEF Toggle
  <2> QED BY <1>1, <1>2, <2>2, <2>3 DEF Sayable, bar
<1>4. CASE \E k \in DOMAIN bar.categories : fields = [now EXCEPT !.cat = Toggle(@, k)]
  <2>1. PICK k \in DOMAIN bar.categories : fields = [now EXCEPT !.cat = Toggle(f.cat, k)]
    BY <1>4
  <2>2. fields.status = f.status /\ fields.cat = Toggle(f.cat, k) /\ fields.q = f.q /\ fields.region = Sent(bar)
    BY <2>1
  <2>3. Toggle(f.cat, k) \subseteq f.cat \cup {k}
    BY DEF Toggle
  <2> QED BY <1>1, <1>2, <2>2, <2>3 DEF Sayable, bar
<1>5. CASE \E typed \in {{}} \cup {{w} : w \in Words} : fields = [now EXCEPT !.q = typed]
  <2>1. PICK typed \in {{}} \cup {{w} : w \in Words} : fields = [now EXCEPT !.q = typed]
    BY <1>5
  <2>2. fields.status = f.status /\ fields.cat = f.cat /\ fields.q = typed /\ fields.region = Sent(bar)
    BY <2>1
  <2>3. typed = {} \/ \E w : w # "" /\ typed = {w}
    BY WordsAssumption
  <2> QED BY <1>1, <2>2, <2>3 DEF Sayable, bar
<1>6. CASE \E i \in {j \in DOMAIN bar.regions : bar.enabled} : fields = [now EXCEPT !.region = bar.regions[i].id]
  <2>1. PICK i \in DOMAIN bar.regions : bar.enabled /\ fields = [now EXCEPT !.region = bar.regions[i].id]
    BY <1>6
  <2>2. fields.status = f.status /\ fields.cat = f.cat /\ fields.q = f.q /\ fields.region = bar.regions[i].id
    BY <2>1
  <2> QED BY <1>1, <2>1, <2>2 DEF Sayable, bar
<1> QED BY <1>3, <1>4, <1>5, <1>6 DEF FieldEdits, f, bar

(* A form whose empty fields are not sent says what its fields do. *)
LEMMA FieldSays ==
    ASSUME NEW params, NEW service, NEW names, NEW own, NEW given,
           given = {name \in DOMAIN own : own[name] # <<>>},
           NEW name \in DOMAIN own \cap names \cap Params,
           IsList(own[name]), \A i \in DOMAIN own[name] : own[name][i] # <<>>
    PROVE  Says(Link(service, Submit(HiddenExcept(params, names), [n \in given |-> own[n]])).params,
                name, own[name])
<1> DEFINE sent == [n \in given |-> own[n]]
           query == Submit(HiddenExcept(params, names), sent)
<1>1. CASE own[name] # <<>>
  <2>1. name \in DOMAIN sent \cap names \cap Params /\ sent[name] = own[name]
    BY <1>1
  <2> HIDE DEF sent
  <2>2. IsList(sent[name]) /\ \A i \in DOMAIN sent[name] : sent[name][i] # <<>>
    BY <2>1
  <2>3. Says(Link(service, Submit(HiddenExcept(params, names), sent)).params, name, sent[name])
    BY <2>1, <2>2, FormSays
  <2> QED BY <2>1, <2>3 DEF sent
<1>2. CASE own[name] = <<>>
  <2>1. name \notin DOMAIN query
    BY <1>2 DEF Submit, HiddenExcept
  <2>2. Link(service, query).params = ReadParams(query)
    BY DEF Link
  <2> HIDE DEF query
  <2>3. name \notin DOMAIN ReadParams(query)
    BY <2>1, ReadSays
  <2>4. Says(ReadParams(query), name, <<>>)
    BY <2>3 DEF Says, All, Get
  <2> QED BY <1>2, <2>2, <2>4 DEF query
<1> QED BY <1>1, <1>2

(* An empty value says nothing. *)
LEMMA EmptyIsUnsaid == SaidOf(<<<<>>>>) = <<>>
<1> DEFINE list == <<<<>>>>
           places == {i \in DOMAIN list : list[i] # <<>>}
<1>1. list \in Seq({<<>>}) /\ DOMAIN list = {1} /\ list[1] = <<>>
  BY OneItem
<1>2. DOMAIN list \cap places = {}
  BY <1>1
<1>3. SaidOf(list) = Kept(list, places)
  BY DEF SaidOf
<1> HIDE DEF list, places
<1>4. Kept(list, places) \in Seq({<<>>}) /\ Len(Kept(list, places)) = Cardinality(DOMAIN list \cap places)
  BY <1>1, KeptSound
<1>5. Len(Kept(list, places)) = 0
  BY <1>2, <1>4, FS_EmptySet
<1>6. Kept(list, places) = <<>>
  BY <1>4, <1>5
<1> QED BY <1>3, <1>6 DEF list

(* A field that says nothing is not read. *)
LEMMA UnsaidIsNotRead ==
    ASSUME NEW params, NEW service, NEW names, NEW own, NEW name \in DOMAIN own \cap names \cap Params,
           IsList(own[name]), SaidOf(own[name]) = <<>>
    PROVE  Says(Link(service, Submit(HiddenExcept(params, names), own)).params, name, <<>>)
<1> DEFINE query == Submit(HiddenExcept(params, names), own)
<1>1. Link(service, query).params = ReadParams(query)
  BY DEF Link
<1>2. name \in DOMAIN query /\ query[name] = <<>> \o own[name]
  BY DEF Submit, HiddenExcept
<1>3. <<>> \o own[name] = own[name]
  BY DEF IsList
<1> HIDE DEF query
<1>4. name \notin DOMAIN ReadParams(query)
  BY <1>2, <1>3, ReadSays
<1>5. Says(ReadParams(query), name, <<>>)
  BY <1>4 DEF Says, All, Get
<1> QED BY <1>1, <1>5 DEF query

(* The parameters the filter form has a control for, or leaves behind. *)
FilterNames == {"q", "region", "status", "cat", "filters", "tab"}

(* What an address says of the fields of a form. *)
TellsFields(params, fields) ==
    /\ SplitValues(All(params, "status")) = fields.status
    /\ SplitValues(All(params, "cat")) = fields.cat
    /\ fields.q = {} => Get(params, "q") = ""
    /\ \A w : fields.q = {w} => Get(params, "q") = w
    /\ Get(params, "region") = fields.region

LEMMA FilterFormSays ==
    ASSUME NEW c, AtRest(c), NEW fields \in FieldEdits(c, FilterBar(c))
    PROVE  /\ Alike(c.params, FilterForm(c, FilterBar(c), fields).params, Params \ FilterNames)
           /\ TellsFields(FilterForm(c, FilterBar(c), fields).params, fields)
           /\ Get(FilterForm(c, FilterBar(c), fields).params, "filters") = "open" <=> c.state.filters
<1> DEFINE open == <<IF c.state.filters THEN <<"open">> ELSE <<>>>>
           region == IF fields.region = "" THEN <<>> ELSE <<<<fields.region>>>>
           own == [filters |-> open, q |-> Boxes(fields.q), status |-> Boxes(fields.status),
                   cat |-> Boxes(fields.cat), region |-> region]
           given == {name \in DOMAIN own : own[name] # <<>>}
           sent == [name \in given |-> own[name]]
           at == Link("", Submit(HiddenExcept(c.params, FilterNames), sent))
<1>1. FilterForm(c, FilterBar(c), fields) = at
  BY DEF FilterForm, FilterBar, FilterNames
<1>2. Written(c.params) /\ Ready(c)
  BY DEF AtRest, Ready
<1>3. IsFiniteSet(fields.status) /\ IsFiniteSet(fields.cat) /\ IsFiniteSet(fields.q)
  BY <1>2, EditedFields
<1>4. /\ own["filters"] = open /\ own["q"] = Boxes(fields.q) /\ own["status"] = Boxes(fields.status)
      /\ own["cat"] = Boxes(fields.cat) /\ own["region"] = region
      /\ DOMAIN own = {"filters", "q", "status", "cat", "region"}
  OBVIOUS
<1>5. DOMAIN own \subseteq FilterNames \cap Params
  BY <1>4 DEF FilterNames, Params
<1>6. DOMAIN sent = given /\ given \subseteq DOMAIN own
  OBVIOUS
<1> HIDE DEF own, open, region
<1>7. given = {name \in DOMAIN own : own[name] # <<>>}
  OBVIOUS
<1>8. Alike(c.params, at.params, Params \ FilterNames)
  <2> HIDE DEF sent, given
  <2>1. DOMAIN sent \subseteq FilterNames
    BY <1>5, <1>6
  <2> QED BY <1>2, <2>1, FormCarries
<1>9. ASSUME NEW name \in DOMAIN own, IsList(own[name]), \A i \in DOMAIN own[name] : own[name][i] # <<>>
      PROVE  Says(at.params, name, own[name])
  <2> HIDE DEF given
  <2>1. name \in DOMAIN own \cap FilterNames \cap Params
    BY <1>5
  <2> QED BY <1>7, <1>9, <2>1, FieldSays
<1>10. ASSUME NEW S, IsFiniteSet(S), NEW name \in DOMAIN own, own[name] = Boxes(S)
       PROVE  /\ SplitValues(All(at.params, name)) = S
              /\ S = {} => Get(at.params, name) = ""
              /\ \A w : S = {w} => Get(at.params, name) = w
  <2> HIDE DEF at
  <2>1. IsList(own[name]) /\ \A i \in DOMAIN own[name] : own[name][i] # <<>>
    BY <1>10, BoxesSound
  <2>2. /\ All(at.params, name) = Boxes(S)
        /\ Get(at.params, name) = IF Boxes(S) = <<>> THEN "" ELSE Boxes(S)[1][1]
    BY <1>9, <1>10, <2>1 DEF Says
  <2>3. /\ SplitValues(Boxes(S)) = S /\ (Boxes(S) = <<>> <=> S = {})
        /\ S # {} => Boxes(S)[1][1] \in S
    BY <1>10, BoxesSound
  <2> QED BY <2>2, <2>3
<1>11. Get(at.params, "region") = fields.region
  <2> HIDE DEF at
  <2>1. CASE fields.region = ""
    <3>1. own["region"] = <<>>
      BY <1>4, <2>1 DEF region
    <3>2. IsList(own["region"]) /\ \A i \in DOMAIN own["region"] : own["region"][i] # <<>>
      BY <3>1, NothingIsList
    <3> QED BY <1>4, <1>9, <2>1, <3>1, <3>2 DEF Says
  <2>2. CASE fields.region # ""
    <3>1. own["region"] = <<<<fields.region>>>>
      BY <1>4, <2>2 DEF region
    <3>2. \A x : /\ IsList(<<<<x>>>>) /\ <<<<x>>>> # <<>> /\ <<<<x>>>>[1][1] = x
                 /\ \A i \in DOMAIN <<<<x>>>> : <<<<x>>>>[i] # <<>>
      BY OneItem
    <3>3. IsList(own["region"]) /\ \A i \in DOMAIN own["region"] : own["region"][i] # <<>>
      BY <3>1, <3>2
    <3> QED BY <1>4, <1>9, <3>1, <3>2, <3>3 DEF Says
  <2> QED BY <2>1, <2>2
<1>12. Get(at.params, "filters") = "open" <=> c.state.filters
  <2>1. CASE c.state.filters
    <3> HIDE DEF at
    <3>1. own["filters"] = <<<<"open">>>>
      BY <1>4, <2>1 DEF open
    <3>2. \A x : /\ IsList(<<<<x>>>>) /\ <<<<x>>>> # <<>> /\ <<<<x>>>>[1][1] = x
                 /\ \A i \in DOMAIN <<<<x>>>> : <<<<x>>>>[i] # <<>>
      BY OneItem
    <3>3. IsList(own["filters"]) /\ \A i \in DOMAIN own["filters"] : own["filters"][i] # <<>>
      BY <3>1, <3>2
    <3>4. Says(at.params, "filters", own["filters"])
      BY <1>4, <1>9, <3>3
    <3>5. Get(at.params, "filters") = "open"
      BY <3>1, <3>2, <3>4 DEF Says
    <3> QED BY <2>1, <3>5
  <2>2. CASE ~c.state.filters
    <3>1. own["filters"] = <<<<>>>>
      BY <1>4, <2>2 DEF open
    <3>2. <<<<>>>> # <<>> /\ IsList(<<<<>>>>)
      BY OneItem
    <3>3. "filters" \in DOMAIN sent \cap FilterNames \cap Params /\ sent["filters"] = own["filters"]
      BY <1>4, <1>5, <3>1, <3>2
    <3>0. IsList(sent["filters"]) /\ SaidOf(sent["filters"]) = <<>>
      BY <3>1, <3>2, <3>3, EmptyIsUnsaid
    <3> HIDE DEF sent, given
    <3>4. Says(at.params, "filters", <<>>)
      BY <3>0, <3>3, UnsaidIsNotRead
    <3>5. Get(at.params, "filters") = ""
      BY <3>4 DEF Says
    <3> HIDE DEF at
    <3> QED BY <2>2, <3>5
  <2> QED BY <2>1, <2>2
<1> HIDE DEF at
<1>13. TellsFields(at.params, fields)
  BY <1>3, <1>4, <1>10, <1>11 DEF TellsFields
<1> QED BY <1>1, <1>8, <1>12, <1>13
(* What the filter form sends is read back as its fields say, and the ids,   *)
(* which it carries, as they were.                                          *)
LEMMA FilterRead ==
    ASSUME NEW c, AtRest(c), NEW fields, Sayable(c, fields), NEW at,
           Alike(c.params, at.params, Params \ FilterNames), TellsFields(at.params, fields)
    PROVE  ReadBack(at).filter = [status |-> fields.status, cat |-> fields.cat, q |-> fields.q,
                                  id |-> c.state.filter.id]
<1> DEFINE word == Get(at.params, "q")
           q == IF word = "" THEN {} ELSE {word}
           id == SplitValues(All(at.params, "id"))
           status == KnownValues(All(at.params, "status"), Statuses)
           cat == KnownValues(All(at.params, "cat"), Range(Domain.categories))
<1>1. ReadBack(at).filter = [status |-> status, cat |-> cat, id |-> id, q |-> q]
  BY Zenon DEF ReadBack, ReadState
<1>2. status = fields.status /\ cat = fields.cat
  BY DEF KnownValues, TellsFields, Sayable
<1>3. q = fields.q
  <2>1. CASE fields.q = {}
    BY <2>1 DEF TellsFields
  <2>2. CASE \E w : w # "" /\ fields.q = {w}
    BY <2>2 DEF TellsFields
  <2> QED BY <2>1, <2>2 DEF Sayable
<1>4. id = c.state.filter.id
  <2>1. "id" \in Params \ FilterNames
    BY DEF Params, FilterNames
  <2>2. All(at.params, "id") = All(address.params, "id")
    BY <2>1 DEF Alike, AtRest
  <2>3. ReadBack(address).filter.id = SplitValues(All(address.params, "id"))
    BY DEF ReadBack, ReadState
  <2> QED BY <2>2, <2>3 DEF AtRest
<1> HIDE DEF q, id, status, cat
<1> QED BY <1>1, <1>2, <1>3, <1>4

LEMMA RegionRead ==
    ASSUME NEW c, AtRest(c), RuleAbiding, c = ContextOf(shown["leaderboard"]),
           NEW fields, Sayable(c, fields), NEW at,
           Alike(c.params, at.params, Params \ FilterNames), TellsFields(at.params, fields)
    PROVE  IF fields.region = Sent(FilterBar(c))
           THEN \/ "region" \in Losable("filter")
                \/ Same("region", ReadBack(address).region, ReadBack(at).region)
           ELSE Same("region", fields.region, ReadBack(at).region)
<1>1. c.d = Domain /\ IsList(Domain.regions) /\ c.state.region = ReadBack(address).region
  BY AcceptedBoard DEF AtRest
<1>2. ReadBack(at).scope = c.state.scope
  <2>1. "scope" \in Params \ FilterNames
    BY DEF Params, FilterNames
  <2>2. Get(at.params, "scope") = Get(address.params, "scope")
    BY <2>1 DEF Alike, AtRest
  <2>3. ReadBack(at).scope = ReadBack(address).scope
    BY <2>2 DEF ReadBack, ReadState
  <2> QED BY <2>3 DEF AtRest
<1>3. ReadBack(at).region = RegionOr(fields.region, c.state.scope, Domain)
  <2>1. ReadBack(at).region = RegionOr(Get(at.params, "region"), ReadBack(at).scope, Domain)
    BY DEF ReadBack, ReadState
  <2> QED BY <1>2, <2>1 DEF TellsFields
<1>4. CASE fields.region = Sent(FilterBar(c))
  <2>1. PICK got : c.state.region = RegionOr(got, c.state.scope, Domain)
    <3>1. ReadBack(address).region = RegionOr(Get(address.params, "region"), ReadBack(address).scope, Domain)
      BY DEF ReadBack, ReadState
    <3> QED BY <3>1 DEF AtRest
  <2>2. \/ "region" \in Losable("filter")
        \/ Domain.showRegions /\ ~SendsARegionUnasked(ReadBack(address))
    BY DEF Losable, MayChange
  <2>3. ~SendsARegionUnasked(ReadBack(address)) => NarrowsNoFurther(c)
    BY <1>1 DEF SendsARegionUnasked, NarrowsNoFurther
  <2>4. \/ "region" \in Losable("filter")
        \/ Same("region", c.state.region, RegionOr(Sent(FilterBar(c)), c.state.scope, Domain))
    BY <1>1, <2>1, <2>2, <2>3, UntouchedRegion
  <2> QED BY <1>1, <1>3, <1>4, <2>4
<1>5. CASE fields.region # Sent(FilterBar(c))
  <2>1. PICK i \in DOMAIN FilterBar(c).regions : fields.region = FilterBar(c).regions[i].id /\ FilterBar(c).enabled
    BY <1>5 DEF Sayable
  <2>2. RegionOr(FilterBar(c).regions[i].id, c.state.scope, Domain) = FilterBar(c).regions[i].id
    BY <1>1, <2>1, OfferedIsKept
  <2> QED BY <1>3, <1>5, <2>1, <2>2, SameAsItself
<1> QED BY <1>4, <1>5

LEMMA FilterSays ==
    ASSUME NEW c, AtRest(c), RuleAbiding, c = ContextOf(shown["leaderboard"]),
           NEW fields \in FieldEdits(c, FilterBar(c))
    PROVE  DoesWhatItSays(ReadBack(address), FilterControl(c, FilterBar(c), fields))
<1> DEFINE filter == [status |-> fields.status, cat |-> fields.cat, q |-> fields.q, id |-> c.state.filter.id]
           region == fields.region
           kept == fields.region = Sent(FilterBar(c))
           first == [filter |-> filter]
           both == [filter |-> filter, region |-> region]
           picks == IF kept THEN first ELSE both
           again == IF kept /\ "region" \notin Losable("filter") THEN {"filters", "region"} ELSE {"filters"}
           at == FilterForm(c, FilterBar(c), fields)
           control == Control("filter", picks, "leaderboard", at)
<1>1. FilterControl(c, FilterBar(c), fields) = control
  BY DEF FilterControl
<1>2. /\ kept => DOMAIN picks = {"filter"} /\ picks["filter"] = filter
      /\ ~kept => DOMAIN picks = {"filter", "region"} /\ picks["filter"] = filter /\ picks["region"] = region
  <2>1. DOMAIN first = {"filter"} /\ first["filter"] = filter
    OBVIOUS
  <2>2. DOMAIN both = {"filter", "region"} /\ both["filter"] = filter /\ both["region"] = region
    OBVIOUS
  <2> HIDE DEF first, both, kept, filter, region
  <2> QED BY <2>1, <2>2
<1>3. Sayable(c, fields)
  BY EditsSayable
<1>4. /\ Alike(c.params, at.params, Params \ FilterNames) /\ TellsFields(at.params, fields)
      /\ Get(at.params, "filters") = "open" <=> c.state.filters
  BY FilterFormSays
<1> HIDE DEF at, picks
<1>5. ReadBack(at)["filter"] = filter
  BY <1>3, <1>4, FilterRead
<1>6. IF kept THEN "region" \in Losable("filter") \/ Same("region", ReadBack(address)["region"], ReadBack(at)["region"])
      ELSE Same("region", region, ReadBack(at)["region"])
  BY <1>3, <1>4, RegionRead
<1>7. ReadBack(at)["filters"] = ReadBack(address)["filters"]
  <2>1. /\ ReadBack(at).filters = (Get(at.params, "filters") = "open")
        /\ ReadBack(address).filters = (Get(address.params, "filters") = "open")
    BY Zenon DEF ReadBack, ReadState
  <2>2. c.state.filters = ReadBack(address).filters
    BY DEF AtRest
  <2> QED BY Zenon, <1>4, <2>1, <2>2
<1>8. control.name = "filter" /\ control.picks = picks /\ control.at = at
  BY ControlParts
<1> HIDE DEF control, filter, region, kept
<1>9. TakesEffect(control)
  BY <1>2, <1>5, <1>6, <1>8, SameAsItself DEF TakesEffect
<1>10. Rewrites(control, again)
  BY <1>6, <1>7, <1>8, SameAsItself DEF Rewrites
<1>11. Spares(DOMAIN control.picks \cup again, control.name, FilterNames)
  <2>1. /\ {"filter", "region"} \cup {"filters"} = {"filter", "region", "filters"}
        /\ {"filter"} \cup {"filters"} = {"filter", "filters"}
        /\ {"filter"} \cup {"filters", "region"} = {"filter", "region", "filters"}
    OBVIOUS
  <2>2. \/ DOMAIN control.picks \cup again = {"filter", "region", "filters"}
        \/ DOMAIN control.picks \cup again = {"filter", "filters"} /\ "region" \in Losable("filter")
    BY <1>2, <1>8, <2>1
  <2> QED BY <1>8, <2>2, Spared DEF FilterNames
<1>12. KeepsService(control)
  <2>1. "service" \in Losable("filter")
    BY DEF Losable, MayChange
  <2> QED BY <1>8, <2>1 DEF KeepsService
<1>13. Alike(c.params, control.at.params, Params \ FilterNames)
  BY <1>4, <1>8
<1> HIDE DEF again
<1>14. DoesWhatItSays(ReadBack(address), control)
  BY <1>9, <1>10, <1>11, <1>12, <1>13, OnlyTouched
<1> QED BY <1>1, <1>14

LEMMA BoardSays ==
    ASSUME NEW c, AtRest(c), RuleAbiding, c = ContextOf(shown["leaderboard"]),
           NEW control \in BoardControls(c)
    PROVE  DoesWhatItSays(ReadBack(address), control)
<1>1. CASE control \in FilterControls(c, FilterBar(c))
  <2>1. \/ \E fields \in FieldEdits(c, FilterBar(c)) : control = FilterControl(c, FilterBar(c), fields)
        \/ control = Control("clear", [filter |-> [status |-> {}, cat |-> {}, q |-> {}, id |-> {}]],
                             "leaderboard", FilterBar(c).clearHref)
    BY <1>1 DEF FilterControls
  <2> QED BY <2>1, FilterSays, ClearSays
<1>2. CASE \E col \in Range(Columns(c)) : control = Control("sort", [sort |-> col.key], "leaderboard", col.href)
  BY <1>2, SortSays
<1>3. CASE \E row \in Range(BoardRows(c)) : control = Control("row", [service |-> row.id], "drawer", row.href)
  BY <1>3, RowSays
<1> QED BY <1>1, <1>2, <1>3 DEF BoardControls

-----------------------------------------------------------------------------
(* Following a control from a settled page has the effect it names and every *)
(* other choice the reader made survives it, but for the losses MayChange    *)
(* names, for every configuration, estate and address (queryWith,           *)
(* hiddenExcept, the bar's and the filter's forms).                         *)
THEOREM ControlsKeepTheRest == Spec => []ControlsDoOnlyWhatTheySay
<1>1. Requests /\ RuleAbiding /\ OpenIsServed => ControlsDoOnlyWhatTheySay
  <2> SUFFICES ASSUME Requests, RuleAbiding, OpenIsServed, Settled, NEW control \in Controls
               PROVE  DoesWhatItSays(ReadBack(address), control)
    BY DEF ControlsDoOnlyWhatTheySay
  <2>1. \A region \in {"page", "signals", "leaderboard", "drawer"} : AtRest(ContextOf(shown[region]))
    BY SettledAtRest DEF Regions
  <2>2. \/ control \in DrawerControls(ContextOf(shown["drawer"]))
        \/ control \in BarControls(ContextOf(shown["page"]))
        \/ control \in SignalControls(ContextOf(shown["signals"]))
        \/ control \in BoardControls(ContextOf(shown["leaderboard"]))
    BY DEF Controls
  <2> QED BY <2>1, <2>2, DrawerSays, BarSays, SignalSays, BoardSays
<1> QED BY InitTyped, StepTyped, InitAbides, StepAbides, InitServed, StepServed, <1>1, PTL DEF Spec
=============================================================================
