---------------------------- MODULE BoardProofs -----------------------------
(***************************************************************************)
(* Proofs about lists in an order: the sort the dashboard orders with, and *)
(* the board, the ranks and the charts that rest on it; and about where a  *)
(* figure comes from and what becomes of a service that is told and pushed *)
(* again.  For every configuration, estate and reader.                     *)
(***************************************************************************)
EXTENDS ControlProofs, SequenceTheorems

-----------------------------------------------------------------------------
(* Insertion *)

LEMMA MaxIsMember ==
    ASSUME NEW n \in Nat, NEW S, S \subseteq 0 .. n, S # {}
    PROVE  Max(S) \in S /\ \A m \in S : m <= Max(S)
<1> DEFINE Below == {k \in Nat : k <= n /\ n - k \in S}
<1>1. Below # {} /\ Below \in SUBSET Nat
  <2>1. PICK m \in S : TRUE
    OBVIOUS
  <2>2. m \in 0 .. n
    BY <2>1
  <2>3. n - m \in Nat /\ n - m <= n /\ n - (n - m) = m
    BY <2>2
  <2> QED BY <2>1, <2>3
<1>2. PICK k \in Below : \A m \in Below : k <= m
  <2> HIDE DEF Below
  <2> QED BY <1>1, HasLeast
<1>3. n - k \in S
  BY <1>2
<1>4. ASSUME NEW m \in S PROVE m <= n - k
  <2>1. m \in 0 .. n /\ k \in Nat
    BY <1>2
  <2>2. n - m \in Below
    BY <2>1
  <2>3. k <= n - m
    BY <1>2, <2>2
  <2> QED BY <2>1, <2>3
<1>5. \E x \in S : \A y \in S : x >= y
  <2>1. \A y \in S : n - k >= y
    BY <1>2, <1>4
  <2> QED BY <1>3, <2>1
<1>6. Max(S) \in S /\ \A y \in S : Max(S) >= y
  BY <1>5 DEF Max
<1>7. ASSUME NEW y \in S PROVE y <= Max(S)
  <2>1. Max(S) >= y /\ y \in 0 .. n /\ Max(S) \in 0 .. n
    BY <1>6
  <2> HIDE DEF Below
  <2> QED BY <2>1
<1> QED BY <1>6, <1>7

(* One list after another. *)
LEMMA JoinedFields ==
    ASSUME NEW S, NEW a \in Seq(S), NEW b \in Seq(S), NEW t, t = a \o b
    PROVE  /\ t \in Seq(S) /\ Len(t) = Len(a) + Len(b)
           /\ \A i \in 1 .. Len(a) : t[i] = a[i]
           /\ \A i \in 1 .. Len(b) : t[Len(a) + i] = b[i]
  OBVIOUS

(* r is s with x behind its first p items. *)
Spliced(s, p, x, r) ==
    /\ Len(r) = Len(s) + 1
    /\ r[p + 1] = x
    /\ \A i \in 1 .. p : r[i] = s[i]
    /\ \A i \in (p + 1) .. Len(s) : r[i + 1] = s[i]

LEMMA InsertAtSound ==
    ASSUME NEW S, NEW s \in Seq(S), NEW p \in 0 .. Len(s), NEW x \in S
    PROVE  InsertAt(s, p + 1, x) \in Seq(S) /\ Spliced(s, p, x, InsertAt(s, p + 1, x))
<1> DEFINE front == SubSeq(s, 1, (p + 1) - 1)
           back == SubSeq(s, p + 1, Len(s))
           mid  == <<x>>
<1>1. front \in Seq(S) /\ Len(front) = p /\ \A i \in 1 .. p : front[i] = s[i]
  OBVIOUS
<1>2. back \in Seq(S) /\ Len(back) = Len(s) - p /\ \A i \in 1 .. (Len(s) - p) : back[i] = s[p + i]
  <2>1. back \in Seq(S)
    OBVIOUS
  <2>2. Len(back) = Len(s) - p
    OBVIOUS
  <2>3. ASSUME NEW i \in 1 .. (Len(s) - p) PROVE back[i] = s[p + i]
    <3>1. back[i] = s[(p + 1) + i - 1] /\ (p + 1) + i - 1 = p + i
      OBVIOUS
    <3> QED BY <3>1
  <2> QED BY <2>1, <2>2, <2>3
<1>3. mid \in Seq(S) /\ Len(mid) = 1 /\ mid[1] = x
  OBVIOUS
<1> HIDE DEF front, back, mid
<1> DEFINE both == front \o mid
           t == both \o back
<1> HIDE DEF t
<1>4. both \in Seq(S) /\ Len(both) = p + 1 /\ both[p + 1] = x /\ \A i \in 1 .. p : both[i] = s[i]
  <2>1. both = front \o mid
    OBVIOUS
  <2> HIDE DEF both
  <2>2. /\ both \in Seq(S) /\ Len(both) = Len(front) + Len(mid)
        /\ \A i \in 1 .. Len(front) : both[i] = front[i]
        /\ \A i \in 1 .. Len(mid) : both[Len(front) + i] = mid[i]
    <3>1. front \in Seq(S) /\ mid \in Seq(S)
      BY <1>1, <1>3
    <3> QED BY <2>1, <3>1, JoinedFields
  <2> QED BY <1>1, <1>3, <2>2
<1> HIDE DEF both
<1>5. /\ t \in Seq(S) /\ Len(t) = Len(both) + Len(back)
      /\ \A i \in 1 .. Len(both) : t[i] = both[i]
      /\ \A i \in 1 .. Len(back) : t[Len(both) + i] = back[i]
  <2>1. t = both \o back
    BY DEF t
  <2>2. both \in Seq(S) /\ back \in Seq(S)
    BY <1>2, <1>4
  <2> QED BY <2>1, <2>2, JoinedFields
<1>6. InsertAt(s, p + 1, x) = t
  <2>1. InsertAt(s, p + 1, x) = SubSeq(s, 1, (p + 1) - 1) \o <<x>> \o SubSeq(s, p + 1, Len(s))
    BY DEF InsertAt
  <2> QED BY <2>1, Zenon DEF t, both, front, mid, back
<1>7. Len(s) \in Nat /\ p \in Nat /\ p <= Len(s)
  OBVIOUS
<1>8. Len(t) = Len(s) + 1
  BY <1>2, <1>4, <1>5, <1>7
<1>9. t[p + 1] = x /\ \A i \in 1 .. p : t[i] = s[i]
  BY <1>4, <1>5, <1>7
<1>10. ASSUME NEW i \in (p + 1) .. Len(s) PROVE t[i + 1] = s[i]
  <2>1. i - p \in 1 .. (Len(s) - p) /\ p + (i - p) = i /\ (p + 1) + (i - p) = i + 1
    BY <1>7
  <2>2. t[(p + 1) + (i - p)] = back[i - p]
    BY <1>2, <1>4, <1>5, <2>1
  <2> QED BY <1>2, <2>1, <2>2
<1>11. Spliced(s, p, x, t)
  BY <1>8, <1>9, <1>10 DEF Spliced
<1> QED BY <1>5, <1>6, <1>11

(* Behind the last of those it does not come before, and everything else    *)
(* stays in the order it had.                                               *)
Before(compare, a, b) == compare[a][b] <= 0

Behind(order, p, k, compare) ==
    /\ p = 0 \/ Before(compare, order[p], k)
    /\ \A i \in (p + 1) .. Len(order) : ~Before(compare, order[i], k)

LEMMA InsertedSound ==
    ASSUME NEW S, NEW order \in Seq(S), NEW k \in S, NEW compare
    PROVE  /\ Inserted(order, k, compare) \in Seq(S)
           /\ \E p \in 0 .. Len(order) :
                 Spliced(order, p, k, Inserted(order, k, compare)) /\ Behind(order, p, k, compare)
<1> DEFINE ahead == {i \in DOMAIN order : compare[order[i]][k] <= 0}
           T == {0} \cup ahead
           p == Max(T)
<1>1. Len(order) \in Nat /\ DOMAIN order = 1 .. Len(order)
  OBVIOUS
<1>2. T \subseteq 0 .. Len(order) /\ T # {}
  BY <1>1
<1>3. p \in T /\ \A m \in T : m <= p
  <2> HIDE DEF T
  <2> QED BY <1>1, <1>2, MaxIsMember
<1>4. Inserted(order, k, compare) = InsertAt(order, p + 1, k)
  BY Zenon DEF Inserted
<1>5. p \in 0 .. Len(order)
  BY <1>2, <1>3
<1>6. p = 0 \/ compare[order[p]][k] <= 0
  BY <1>3
<1>7. ASSUME NEW i \in (p + 1) .. Len(order) PROVE ~(compare[order[i]][k] <= 0)
  <2>1. i \in DOMAIN order /\ ~(i <= p)
    BY <1>1, <1>5
  <2>2. i \notin T
    BY <1>3, <2>1
  <2> QED BY <2>1, <2>2
<1> HIDE DEF p
<1>8. InsertAt(order, p + 1, k) \in Seq(S) /\ Spliced(order, p, k, InsertAt(order, p + 1, k))
  BY <1>5, InsertAtSound, Zenon
<1>9. Behind(order, p, k, compare)
  BY <1>6, <1>7 DEF Behind, Before
<1> QED BY <1>4, <1>5, <1>8, <1>9

(* Where the i-th item of a spliced list is from. *)
Source(s, p, x, r, i) ==
    \/ i = p + 1 /\ r[i] = x
    \/ i \in 1 .. p /\ i \in 1 .. Len(s) /\ r[i] = s[i]
    \/ i > p + 1 /\ i - 1 \in (p + 1) .. Len(s) /\ i - 1 \in 1 .. Len(s) /\ r[i] = s[i - 1]

LEMMA SplicedItems ==
    ASSUME NEW s, Len(s) \in Nat, NEW p \in 0 .. Len(s), NEW x, NEW r, Spliced(s, p, x, r),
           NEW i \in 1 .. Len(r)
    PROVE  Source(s, p, x, r, i)
<1>1. i \in 1 .. (Len(s) + 1)
  BY DEF Spliced
<1>2. CASE i = p + 1
  BY <1>2 DEF Spliced, Source
<1>3. CASE i \in 1 .. p
  BY <1>1, <1>3 DEF Spliced, Source
<1>4. CASE i > p + 1
  <2>1. i - 1 \in (p + 1) .. Len(s) /\ (i - 1) + 1 = i
    BY <1>1, <1>4
  <2>2. r[(i - 1) + 1] = s[i - 1]
    BY <2>1 DEF Spliced, Source
  <2> QED BY <1>4, <2>1, <2>2 DEF Source
<1> QED BY <1>1, <1>2, <1>3, <1>4

-----------------------------------------------------------------------------
(* The sort *)

(* The order grows by one place at a time. *)
LEMMA OrderSteps ==
    ASSUME NEW n \in Nat, NEW compare
    PROVE  \E f : /\ f[0] = <<>>
                  /\ \A k \in 1 .. n : f[k] = Inserted(f[k - 1], k, compare)
                  /\ InOrderOf(n, compare) = f[n]
<1> DEFINE Rest(f, k) == IF k = 0 THEN <<>> ELSE Inserted(f[k - 1], k, compare)
           Reached == {m \in 0 .. n : \E f : f = [k \in 0 .. m |-> Rest(f, k)]}
           upto == CHOOSE f : f = [k \in 0 .. n |-> Rest(f, k)]
<1>1. 0 \in Reached
  <2> DEFINE u == [k \in 0 .. 0 |-> <<>>]
  <2>1. u = [k \in 0 .. 0 |-> Rest(u, k)]
    OBVIOUS
  <2> HIDE DEF u, Rest
  <2> QED BY <2>1
<1>2. ASSUME NEW m \in 0 .. (n - 1), m \in Reached PROVE m + 1 \in Reached
  <2>1. PICK f : f = [k \in 0 .. m |-> Rest(f, k)]
    BY <1>2
  <2> DEFINE u == [k \in 0 .. (m + 1) |-> IF k = m + 1 THEN Rest(f, m + 1) ELSE f[k]]
  <2>2. ASSUME NEW k \in 0 .. (m + 1) PROVE u[k] = Rest(u, k)
    <3>1. CASE k = m + 1
      <4>1. u[k - 1] = f[m] /\ u[k] = Rest(f, k) /\ k - 1 = m /\ k # 0
        BY <3>1
      <4> HIDE DEF u
      <4> QED BY <4>1
    <3>2. CASE k \in 0 .. m
      <4>1. u[k] = f[k] /\ (k # 0 => u[k - 1] = f[k - 1])
        BY <3>2
      <4>2. f[k] = Rest(f, k)
        BY <2>1, <3>2
      <4> HIDE DEF u
      <4> QED BY <4>1, <4>2
    <3> QED BY <3>1, <3>2
  <2>3. u = [k \in 0 .. (m + 1) |-> Rest(u, k)]
    BY <2>2
  <2> HIDE DEF u, Rest
  <2> QED BY <2>3
<1>3. n \in Reached
  <2> HIDE DEF Reached
  <2>1. \A k \in 0 .. n : k \in Reached
    BY <1>1, <1>2, UpTo
  <2> QED BY <2>1
<1>4. upto = [k \in 0 .. n |-> Rest(upto, k)]
  BY <1>3
<1>5. InOrderOf(n, compare) = upto[n]
  BY DEF InOrderOf
<1> HIDE DEF upto
<1>6. \A k \in 0 .. n : upto[k] = Rest(upto, k)
  <2> HIDE DEF Rest
  <2> QED BY <1>4
<1>7. upto[0] = <<>> /\ \A k \in 1 .. n : upto[k] = Rest(upto, k)
  <2> DEFINE g == upto
  <2>1. 0 \in 0 .. n /\ \A k \in 1 .. n : k \in 0 .. n /\ k # 0
    OBVIOUS
  <2> QED BY <1>6, <2>1
<1> QED BY <1>5, <1>7

(* order has each of the places 1 .. n once. *)
Places(order, n) ==
    /\ Len(order) = n
    /\ \A i \in 1 .. n : order[i] \in 1 .. n
    /\ \A i, j \in 1 .. n : order[i] = order[j] => i = j
    /\ \A m \in 1 .. n : \E i \in 1 .. n : order[i] = m

LEMMA InsertedPlaces ==
    ASSUME NEW k \in Nat, NEW order, Places(order, k), NEW p \in 0 .. k,
           NEW r, Spliced(order, p, k + 1, r)
    PROVE  Places(r, k + 1)
<1>1. Len(order) = k /\ Len(r) = k + 1 /\ \A i \in 1 .. k : order[i] \in 1 .. k
  BY DEF Spliced, Places
<1>2. \A i \in 1 .. (k + 1) :
        \/ i = p + 1 /\ r[i] = k + 1
        \/ i \in 1 .. p /\ i \in 1 .. k /\ r[i] = order[i]
        \/ i > p + 1 /\ i - 1 \in 1 .. k /\ r[i] = order[i - 1]
  <2> DEFINE x == k + 1
  <2>1. Len(order) \in Nat /\ p \in 0 .. Len(order) /\ Spliced(order, p, x, r)
    BY <1>1
  <2> HIDE DEF x
  <2>2. ASSUME NEW i \in 1 .. Len(r)
        PROVE  Source(order, p, x, r, i)
    BY <2>1, SplicedItems
  <2> QED BY <1>1, <2>2 DEF x, Source
<1>3. \A i \in 1 .. (k + 1) : r[i] \in 1 .. (k + 1)
  BY <1>1, <1>2
<1>4. ASSUME NEW i \in 1 .. (k + 1), NEW j \in 1 .. (k + 1), r[i] = r[j] PROVE i = j
  <2>1. \A a, b \in 1 .. k : order[a] = order[b] => a = b
    BY DEF Places
  <2>2. \A a \in 1 .. k : order[a] # k + 1
    BY <1>1
  <2>3. CASE i = p + 1
    BY <1>2, <1>4, <2>2, <2>3
  <2>4. CASE j = p + 1
    BY <1>2, <1>4, <2>2, <2>4
  <2>5. CASE i # p + 1 /\ j # p + 1
    BY <1>2, <1>4, <2>1, <2>5
  <2> QED BY <2>3, <2>4, <2>5
<1>5. ASSUME NEW m \in 1 .. (k + 1) PROVE \E i \in 1 .. (k + 1) : r[i] = m
  <2>1. CASE m = k + 1
    BY <2>1 DEF Spliced
  <2>2. CASE m # k + 1
    <3>1. m \in 1 .. k
      BY <2>2
    <3>2. PICK i \in 1 .. k : order[i] = m
      BY <3>1 DEF Places
    <3>3. CASE i <= p
      BY <3>2, <3>3 DEF Spliced
    <3>4. CASE i > p
      <4>1. i \in (p + 1) .. k /\ i + 1 \in 1 .. (k + 1)
        BY <3>4
      <4>2. r[i + 1] = m
        BY <1>1, <3>2, <4>1 DEF Spliced
      <4> QED BY <4>1, <4>2
    <3> QED BY <3>3, <3>4
  <2> QED BY <2>1, <2>2
<1> QED BY <1>1, <1>3, <1>4, <1>5 DEF Places

Grows(f, n, compare) == f[0] = <<>> /\ \A k \in 1 .. n : f[k] = Inserted(f[k - 1], k, compare)

LEMMA GrownPlaces ==
    ASSUME NEW n \in Nat, NEW compare, NEW f, Grows(f, n, compare)
    PROVE  /\ \A k \in 0 .. n : Places(f[k], k)
           /\ \A k \in 0 .. (n - 1) : \E p \in 0 .. k :
                 Spliced(f[k], p, k + 1, f[k + 1]) /\ Behind(f[k], p, k + 1, compare)
<1> DEFINE N == Nat
           Good == {k \in 0 .. n : f[k] \in Seq(N) /\ Places(f[k], k)}
           Next_(k) == \E p \in 0 .. k :
                 Spliced(f[k], p, k + 1, f[k + 1]) /\ Behind(f[k], p, k + 1, compare)
<1>1. 0 \in Good
  <2>1. f[0] = <<>> /\ 0 \in 0 .. n
    BY DEF Grows
  <2>2. <<>> \in Seq(N)
    OBVIOUS
  <2>3. Places(<<>>, 0)
    BY DEF Places
  <2> HIDE DEF N
  <2> QED BY <2>1, <2>2, <2>3
<1>2. ASSUME NEW k \in 0 .. (n - 1), k \in Good PROVE k + 1 \in Good /\ Next_(k)
  <2> DEFINE x == k + 1
  <2>1. f[x] = Inserted(f[k], x, compare) /\ x \in N
    <3>1. k + 1 \in 1 .. n /\ (k + 1) - 1 = k
      OBVIOUS
    <3> QED BY <3>1 DEF Grows
  <2>2. f[k] \in Seq(N) /\ Places(f[k], k) /\ Len(f[k]) = k
    BY <1>2 DEF Places
  <2> HIDE DEF x, N
  <2>3. /\ f[x] \in Seq(N)
        /\ \E p \in 0 .. Len(f[k]) : Spliced(f[k], p, x, f[x]) /\ Behind(f[k], p, x, compare)
    BY <2>1, <2>2, InsertedSound
  <2>4. PICK p \in 0 .. k : Spliced(f[k], p, k + 1, f[k + 1]) /\ Behind(f[k], p, k + 1, compare)
    BY <2>2, <2>3 DEF x
  <2>5. Places(f[k + 1], k + 1)
    BY <2>2, <2>4, InsertedPlaces
  <2> QED BY <2>3, <2>4, <2>5 DEF x
<1> HIDE DEF Good, Next_
<1>3. \A k \in 0 .. n : k \in Good
  BY <1>1, <1>2, UpTo
<1>4. \A k \in 0 .. (n - 1) : Next_(k)
  <2>1. \A k \in 0 .. (n - 1) : k \in 0 .. n
    OBVIOUS
  <2> QED BY <1>2, <1>3, <2>1
<1> QED BY <1>3, <1>4 DEF Good, Next_

(* The sort loses no place and repeats none. *)
LEMMA SortPlaces ==
    ASSUME NEW n \in Nat, NEW compare
    PROVE  Places(InOrderOf(n, compare), n)
<1>1. PICK f : Grows(f, n, compare) /\ InOrderOf(n, compare) = f[n]
  BY OrderSteps DEF Grows
<1>2. \A k \in 0 .. n : Places(f[k], k)
  BY <1>1, GrownPlaces
<1>3. n \in 0 .. n
  OBVIOUS
<1> QED BY <1>1, <1>2, <1>3

(* A comparison that is total and transitive is what the sort sorts by. *)
LEMMA SortSorts ==
    ASSUME NEW n \in Nat, NEW compare,
           \A a, b \in 1 .. n : Before(compare, a, b) \/ Before(compare, b, a),
           \A a, b, c \in 1 .. n :
              Before(compare, a, b) /\ Before(compare, b, c) => Before(compare, a, c)
    PROVE  LET order == InOrderOf(n, compare)
           IN  \A i, j \in 1 .. n : i < j => Before(compare, order[i], order[j])
<1>1. PICK f : Grows(f, n, compare) /\ InOrderOf(n, compare) = f[n]
  BY OrderSteps DEF Grows
<1>2. /\ \A k \in 0 .. n : Places(f[k], k)
      /\ \A k \in 0 .. (n - 1) : \E p \in 0 .. k :
            Spliced(f[k], p, k + 1, f[k + 1]) /\ Behind(f[k], p, k + 1, compare)
  BY <1>1, GrownPlaces
<1> DEFINE Sorted(k) == \A i, j \in 1 .. k : i < j => Before(compare, f[k][i], f[k][j])
           Good == {k \in 0 .. n : Sorted(k)}
<1>3. 0 \in Good
  OBVIOUS
<1>4. ASSUME NEW k \in 0 .. (n - 1), k \in Good PROVE k + 1 \in Good
  <2> DEFINE s == f[k]
             r == f[k + 1]
             x == k + 1
  <2>1. Len(s) = k /\ Len(r) = k + 1 /\ k \in Nat /\ x \in 1 .. n
        /\ \A i \in 1 .. k : s[i] \in 1 .. k /\ s[i] \in 1 .. n
    <3>1. k \in 0 .. n /\ k + 1 \in 0 .. n /\ x \in 1 .. n
      OBVIOUS
    <3>2. Places(s, k) /\ Places(r, k + 1)
      BY <1>2, <3>1
    <3>3. \A m \in 1 .. k : m \in 1 .. n
      OBVIOUS
    <3> HIDE DEF s, r, x
    <3>4. Len(s) = k /\ \A i \in 1 .. k : s[i] \in 1 .. k
      BY <3>2 DEF Places
    <3>5. Len(r) = k + 1
      BY <3>2 DEF Places
    <3> QED BY <3>1, <3>3, <3>4, <3>5
  <2>2. PICK p \in 0 .. k : Spliced(s, p, x, r) /\ Behind(s, p, x, compare)
    BY <1>2
  <2>3. Sorted(k)
    BY <1>4
  <2>4. \A i, j \in 1 .. k : i < j => Before(compare, s[i], s[j])
    BY <2>3
  <2> HIDE DEF s, r, x, Sorted
  <2>5. ASSUME NEW i \in 1 .. p PROVE Before(compare, s[i], x)
    <3>1. p \in 1 .. k /\ i \in 1 .. k
      OBVIOUS
    <3>2. Before(compare, s[p], x)
      BY <2>2, <3>1 DEF Behind
    <3>3. CASE i = p
      BY <3>2, <3>3
    <3>4. CASE i < p
      <4>1. Before(compare, s[i], s[p])
        BY <2>4, <3>1, <3>4
      <4> QED BY <2>1, <3>1, <3>2, <4>1
    <3> QED BY <3>3, <3>4
  <2>6. ASSUME NEW i \in (p + 1) .. k PROVE Before(compare, x, s[i])
    <3>1. ~Before(compare, s[i], x) /\ i \in 1 .. k
      BY <2>1, <2>2 DEF Behind
    <3> QED BY <2>1, <3>1
  <2>7. \A i \in 1 .. Len(r) : Source(s, p, x, r, i)
    BY <2>1, <2>2, SplicedItems
  <2>8. ASSUME NEW i \in 1 .. (k + 1), NEW j \in 1 .. (k + 1), i < j
        PROVE  Before(compare, r[i], r[j])
    <3>1. Source(s, p, x, r, i) /\ Source(s, p, x, r, j)
      BY <2>1, <2>7
    <3>2. CASE i = p + 1
      <4>1. r[i] = x /\ j - 1 \in (p + 1) .. k /\ r[j] = s[j - 1]
        BY <2>1, <2>8, <3>1, <3>2 DEF Source
      <4> QED BY <2>6, <4>1
    <3>3. CASE i \in 1 .. p
      <4>1. i \in 1 .. k /\ r[i] = s[i]
        BY <3>1, <3>3 DEF Source
      <4>2. CASE j = p + 1
        <5>1. r[j] = x
          BY <3>1, <4>2 DEF Source
        <5> QED BY <2>5, <3>3, <4>1, <5>1
      <4>3. CASE j \in 1 .. p
        <5>1. j \in 1 .. k /\ r[j] = s[j]
          BY <3>1, <4>3 DEF Source
        <5> QED BY <2>4, <2>8, <4>1, <5>1
      <4>4. CASE j > p + 1
        <5>1. j - 1 \in 1 .. k /\ r[j] = s[j - 1] /\ i < j - 1
          BY <2>1, <3>1, <3>3, <4>4 DEF Source
        <5> QED BY <2>4, <4>1, <5>1
      <4> QED BY <4>2, <4>3, <4>4
    <3>4. CASE i > p + 1
      <4>1. /\ i - 1 \in 1 .. k /\ r[i] = s[i - 1]
            /\ j - 1 \in 1 .. k /\ r[j] = s[j - 1] /\ i - 1 < j - 1
        BY <2>1, <2>8, <3>1, <3>4 DEF Source
      <4> QED BY <2>4, <4>1
    <3> QED BY <3>2, <3>3, <3>4
  <2>9. Sorted(k + 1)
    BY <2>8 DEF Sorted, r
  <2> QED BY <2>9
<1>5. n \in Good
  <2> HIDE DEF Good
  <2>1. \A k \in 0 .. n : k \in Good
    BY <1>3, <1>4, UpTo
  <2> QED BY <2>1
<1> QED BY <1>1, <1>5

(* What comes before everything else, and has nothing else before it, is     *)
(* sorted to the front, whatever the comparison says among the rest.        *)
LEMMA SortSeparates ==
    ASSUME NEW n \in Nat, NEW compare, NEW Leaders \in SUBSET (1 .. n),
           \A a \in Leaders : \A b \in (1 .. n) \ Leaders :
              Before(compare, a, b) /\ ~Before(compare, b, a)
    PROVE  LET order == InOrderOf(n, compare)
           IN  \A i, j \in 1 .. n : order[i] \notin Leaders /\ order[j] \in Leaders => j < i
<1>1. PICK f : Grows(f, n, compare) /\ InOrderOf(n, compare) = f[n]
  BY OrderSteps DEF Grows
<1>2. /\ \A k \in 0 .. n : Places(f[k], k)
      /\ \A k \in 0 .. (n - 1) : \E p \in 0 .. k :
            Spliced(f[k], p, k + 1, f[k + 1]) /\ Behind(f[k], p, k + 1, compare)
  BY <1>1, GrownPlaces
<1> DEFINE Apart(k) == \A i, j \in 1 .. k : f[k][i] \notin Leaders /\ f[k][j] \in Leaders => j < i
           Good == {k \in 0 .. n : Apart(k)}
<1>3. 0 \in Good
  OBVIOUS
<1>4. ASSUME NEW k \in 0 .. (n - 1), k \in Good PROVE k + 1 \in Good
  <2> DEFINE s == f[k]
             r == f[k + 1]
             x == k + 1
  <2>1. Len(s) = k /\ Len(r) = k + 1 /\ k \in Nat /\ x \in 1 .. n
        /\ \A i \in 1 .. k : s[i] \in 1 .. n
    <3>1. k \in 0 .. n /\ k + 1 \in 0 .. n /\ x \in 1 .. n
      OBVIOUS
    <3>2. Places(s, k) /\ Places(r, k + 1)
      BY <1>2, <3>1
    <3>3. \A m \in 1 .. k : m \in 1 .. n
      OBVIOUS
    <3> HIDE DEF s, r, x
    <3>4. Len(s) = k /\ \A i \in 1 .. k : s[i] \in 1 .. k
      BY <3>2 DEF Places
    <3>5. Len(r) = k + 1
      BY <3>2 DEF Places
    <3> QED BY <3>1, <3>3, <3>4, <3>5
  <2>2. PICK p \in 0 .. k : Spliced(s, p, x, r) /\ Behind(s, p, x, compare)
    BY <1>2
  <2>3. Apart(k)
    BY <1>4
  <2>4. \A i, j \in 1 .. k : s[i] \notin Leaders /\ s[j] \in Leaders => j < i
    BY <2>3
  <2> HIDE DEF s, r, x, Apart
  <2>5. ASSUME x \in Leaders, NEW i \in 1 .. p PROVE s[i] \in Leaders
    <3>1. p \in 1 .. k /\ i \in 1 .. k /\ ~(p < i)
      OBVIOUS
    <3>2. Before(compare, s[p], x)
      BY <2>2, <3>1 DEF Behind
    <3>3. s[p] \in Leaders
      BY <2>1, <2>5, <3>1, <3>2
    <3> QED BY <2>4, <3>1, <3>3
  <2>6. ASSUME x \notin Leaders, NEW i \in (p + 1) .. k PROVE s[i] \notin Leaders
    <3>1. ~Before(compare, s[i], x) /\ i \in 1 .. k
      BY <2>1, <2>2 DEF Behind
    <3> QED BY <2>1, <2>6, <3>1
  <2>7. \A i \in 1 .. Len(r) : Source(s, p, x, r, i)
    BY <2>1, <2>2, SplicedItems
  <2>8. ASSUME NEW i \in 1 .. (k + 1), NEW j \in 1 .. (k + 1), r[i] \notin Leaders, r[j] \in Leaders
        PROVE  j < i
    <3>1. Source(s, p, x, r, i) /\ Source(s, p, x, r, j)
      BY <2>1, <2>7
    <3>2. CASE i = p + 1
      <4>1. x \notin Leaders
        BY <2>8, <3>1, <3>2 DEF Source
      <4>2. ~(j > p + 1) /\ j # p + 1
        BY <2>1, <2>6, <2>8, <3>1, <3>2, <4>1 DEF Source
      <4> QED BY <3>2, <4>2
    <3>3. CASE i \in 1 .. p
      <4>1. i \in 1 .. k /\ s[i] \notin Leaders
        BY <2>8, <3>1, <3>3 DEF Source
      <4>2. x \notin Leaders
        BY <2>5, <3>3, <4>1
      <4>3. j # p + 1
        BY <2>8, <3>1, <4>2 DEF Source
      <4>4. ~(j > p + 1)
        BY <2>1, <2>6, <2>8, <3>1, <4>2 DEF Source
      <4>5. j \in 1 .. p /\ j \in 1 .. k /\ s[j] \in Leaders
        BY <2>8, <3>1, <4>3, <4>4 DEF Source
      <4> QED BY <2>4, <4>1, <4>5
    <3>4. CASE i > p + 1
      <4>1. i - 1 \in 1 .. k /\ s[i - 1] \notin Leaders
        BY <2>1, <2>8, <3>1, <3>4 DEF Source
      <4>2. CASE j <= p + 1
        BY <3>4, <4>2
      <4>3. CASE j > p + 1
        <5>1. j - 1 \in 1 .. k /\ s[j - 1] \in Leaders
          BY <2>1, <2>8, <3>1, <4>3 DEF Source
        <5>2. j - 1 < i - 1
          BY <2>4, <4>1, <5>1
        <5> QED BY <5>2
      <4> QED BY <4>2, <4>3
    <3> QED BY <3>2, <3>3, <3>4
  <2>9. Apart(k + 1)
    BY <2>8 DEF Apart, r
  <2> QED BY <2>9
<1>5. n \in Good
  <2> HIDE DEF Good
  <2>1. \A k \in 0 .. n : k \in Good
    BY <1>3, <1>4, UpTo
  <2> QED BY <2>1
<1> QED BY <1>1, <1>5

(* A list with its items in the order of a comparison of their places. *)
Arranged(list, compare) ==
    LET order == InOrderOf(Len(list), compare) IN [i \in DOMAIN list |-> list[order[i]]]

(* Sorting moves what is on a list and changes nothing else of it. *)
LEMMA ArrangedSound ==
    ASSUME NEW list, IsList(list), NEW compare
    PROVE  LET sorted == Arranged(list, compare)
               order  == InOrderOf(Len(list), compare)
           IN  /\ IsList(sorted) /\ Len(sorted) = Len(list) /\ Range(sorted) = Range(list)
               /\ DOMAIN sorted = 1 .. Len(list)
               /\ Places(order, Len(list))
               /\ \A i \in DOMAIN sorted : sorted[i] = list[order[i]]
<1> DEFINE n == Len(list)
           order == InOrderOf(n, compare)
           sorted == Arranged(list, compare)
<1>1. n \in Nat /\ DOMAIN list = 1 .. n
  BY ListDomain
<1>2. Places(order, n)
  BY <1>1, SortPlaces
<1>3. sorted = [i \in 1 .. n |-> list[order[i]]]
  BY <1>1 DEF Arranged
<1> HIDE DEF order, sorted, n
<1>4. /\ DOMAIN sorted = 1 .. n /\ \A i \in 1 .. n : sorted[i] = list[order[i]]
  BY <1>3
<1>5. Range(sorted) = Range(list)
  <2>1. ASSUME NEW x \in Range(sorted) PROVE x \in Range(list)
    <3>1. PICK i \in 1 .. n : x = sorted[i]
      BY <1>4 DEF Range
    <3>2. order[i] \in 1 .. n
      BY <1>2 DEF Places
    <3> QED BY <1>1, <1>4, <3>1, <3>2 DEF Range
  <2>2. ASSUME NEW x \in Range(list) PROVE x \in Range(sorted)
    <3>1. PICK m \in 1 .. n : x = list[m]
      BY <1>1 DEF Range
    <3>2. PICK i \in 1 .. n : order[i] = m
      BY <1>2 DEF Places
    <3> QED BY <1>4, <3>1, <3>2 DEF Range
  <2> QED BY <2>1, <2>2
<1>6. sorted \in [1 .. n -> Range(sorted)]
  <2>1. \A i \in 1 .. n : sorted[i] \in Range(sorted)
    BY <1>4 DEF Range
  <2> QED BY <1>3, <1>4, <2>1
<1>7. sorted \in Seq(Range(sorted)) /\ Len(sorted) = n
  BY <1>1, <1>6
<1> QED BY <1>2, <1>4, <1>5, <1>7 DEF IsList, order, sorted, n

-----------------------------------------------------------------------------
(* Lists that name no id twice *)

LEMMA AppendOneEach ==
    ASSUME NEW S, NEW list \in Seq(S), OneEach(list), NEW x \in S,
           \A i \in DOMAIN list : list[i].id # x.id
    PROVE  OneEach(Append(list, x))
<1> DEFINE more == Append(list, x)
           n == Len(list)
<1>1. n \in Nat /\ DOMAIN list = 1 .. n /\ DOMAIN more = 1 .. (n + 1)
      /\ more[n + 1] = x /\ \A i \in 1 .. n : more[i] = list[i]
  OBVIOUS
<1> HIDE DEF more, n
<1>2. ASSUME NEW i \in 1 .. (n + 1), NEW j \in 1 .. (n + 1), more[i].id = more[j].id PROVE i = j
  <2>1. CASE i \in 1 .. n /\ j \in 1 .. n
    BY <1>1, <1>2, <2>1 DEF OneEach
  <2>2. CASE i = n + 1 /\ j \in 1 .. n
    BY <1>1, <1>2, <2>2
  <2>3. CASE i \in 1 .. n /\ j = n + 1
    BY <1>1, <1>2, <2>3
  <2> QED BY <1>1, <2>1, <2>2, <2>3
<1> QED BY <1>1, <1>2 DEF OneEach, more

LEMMA KeptOneEach ==
    ASSUME NEW list, IsList(list), OneEach(list), NEW places
    PROVE  OneEach(Kept(list, places))
<1> DEFINE S == Range(list)
<1>1. Len(list) \in Nat /\ DOMAIN list = 1 .. Len(list) /\ \A k \in 1 .. Len(list) : list[k] \in S
  BY ListDomain DEF Range
<1>0. PICK f : KeptBy(f, list, places)
  BY <1>1, KeptSteps
<1>2. /\ f[0] = <<>>
      /\ \A k \in 1 .. Len(list) :
            f[k] = IF k \in places THEN Append(f[k - 1], list[k]) ELSE f[k - 1]
      /\ Kept(list, places) = f[Len(list)]
  BY <1>0, Zenon DEF KeptBy
<1> DEFINE Good == {k \in 0 .. Len(list) :
                      /\ f[k] \in Seq(S) /\ OneEach(f[k])
                      /\ \A i \in DOMAIN f[k] : \E m \in 1 .. k : f[k][i] = list[m]}
<1> HIDE DEF S
<1>3. 0 \in Good
  <2> DEFINE none == f[0]
  <2>1. none \in Seq(S) /\ DOMAIN none = {}
    BY <1>2
  <2> HIDE DEF none
  <2>2. OneEach(none) /\ \A i \in DOMAIN none : \E m \in 1 .. 0 : none[i] = list[m]
    BY <2>1 DEF OneEach
  <2> QED BY <1>1, <2>1, <2>2 DEF none
<1>4. ASSUME NEW k \in 0 .. (Len(list) - 1), k \in Good PROVE k + 1 \in Good
  <2>0. k + 1 \in 1 .. Len(list) /\ (k + 1) - 1 = k /\ k \in Nat
        /\ \A m \in 1 .. k : m \in 1 .. Len(list) /\ m \in 1 .. (k + 1) /\ m # k + 1
    BY <1>1
  <2>1. CASE k + 1 \in places
    <3> DEFINE s == f[k]
               x == list[k + 1]
               r == f[k + 1]
    <3>1. r = Append(s, x) /\ s \in Seq(S) /\ x \in S /\ OneEach(s)
      BY <1>1, <1>2, <1>4, <2>0, <2>1
    <3>2. \A i \in DOMAIN s : \E m \in 1 .. k : s[i] = list[m]
      BY <1>4
    <3>3. \A i \in DOMAIN s : s[i].id # x.id
      BY <1>1, <2>0, <3>2 DEF OneEach
    <3> HIDE DEF s, x, r
    <3>4. r \in Seq(S) /\ OneEach(r)
      BY <3>1, <3>3, AppendOneEach
    <3>5. \A i \in DOMAIN r : r[i] = x \/ \E j \in DOMAIN s : r[i] = s[j]
      BY <3>1
    <3>6. \A i \in DOMAIN r : \E m \in 1 .. (k + 1) : r[i] = list[m]
      <4>1. k + 1 \in 1 .. (k + 1)
        BY <2>0
      <4> QED BY <2>0, <3>2, <3>5, <4>1 DEF x
    <3> QED BY <2>0, <3>4, <3>6 DEF r
  <2>2. CASE k + 1 \notin places
    <3>1. f[k + 1] = f[k]
      BY <1>2, <2>0, <2>2
    <3> QED BY <1>4, <2>0, <3>1
  <2> QED BY <2>1, <2>2
<1>5. Len(list) \in Good
  <2> HIDE DEF Good
  <2>1. \A k \in 0 .. Len(list) : k \in Good
    BY <1>1, <1>3, <1>4, UpTo
  <2> QED BY <1>1, <2>1
<1> QED BY <1>2, <1>5

LEMMA ArrangedOneEach ==
    ASSUME NEW list, IsList(list), OneEach(list), NEW compare
    PROVE  OneEach(Arranged(list, compare))
<1> DEFINE order == InOrderOf(Len(list), compare)
           sorted == Arranged(list, compare)
           n == Len(list)
<1>1. DOMAIN sorted = 1 .. n /\ Places(order, n) /\ \A i \in DOMAIN sorted : sorted[i] = list[order[i]]
  BY ArrangedSound
<1>2. DOMAIN list = 1 .. n
  BY ListDomain
<1> HIDE DEF order, sorted, n
<1>3. ASSUME NEW i \in 1 .. n, NEW j \in 1 .. n, sorted[i].id = sorted[j].id PROVE i = j
  <2>1. order[i] \in 1 .. n /\ order[j] \in 1 .. n /\ (order[i] = order[j] => i = j)
    BY <1>1 DEF Places
  <2>2. list[order[i]].id = list[order[j]].id
    BY <1>1, <1>3
  <2> QED BY <1>2, <2>1, <2>2 DEF OneEach
<1> QED BY <1>1, <1>3 DEF OneEach, sorted

-----------------------------------------------------------------------------
(* The chart of a requestor's peers *)

LEMMA ByVolumeArranges ==
    ASSUME NEW list
    PROVE  \E compare : ByVolumeDesc(list) = Arranged(list, compare)
<1> DEFINE compare == [i \in DOMAIN list |-> [j \in DOMAIN list |->
                         IF list[i].success # list[j].success THEN list[j].success - list[i].success
                         ELSE IdOrder[list[i].id] - IdOrder[list[j].id]]]
<1>1. ByVolumeDesc(list) = Arranged(list, compare)
  BY DEF ByVolumeDesc, StableSort, Arranged
<1> QED BY <1>1

Names(rows, mine) == \E i \in DOMAIN rows : rows[i].id = mine

MarkedAt(bars) == {i \in DOMAIN bars : bars[i].highlight}

(* The bars marked are of one id, and if it is named once they are one bar.  *)
MarksMine(bars, mine, once) ==
    /\ {bars[i].id : i \in MarkedAt(bars)} = {mine}
    /\ once => \E i \in MarkedAt(bars) : MarkedAt(bars) = {i}

(* Whatever is cut from a chart, the rows of one id are not. *)
LEMMA ShownKeepsMine ==
    ASSUME NEW rows, IsList(rows), NEW mine, Names(rows, mine)
    PROVE  /\ Names(Shown(rows, mine), mine)
           /\ OneEach(rows) => OneEach(Shown(rows, mine))
<1>0. PICK k \in DOMAIN rows : rows[k].id = mine
  BY DEF Names
<1> DEFINE places == {i \in DOMAIN rows : i <= ChartRows \/ rows[i].id = mine}
           cut == Kept(rows, places)
<1>1. CASE Shown(rows, mine) = rows
  BY <1>0, <1>1 DEF Names
<1>2. CASE Shown(rows, mine) = cut
  <2>1. rows \in Seq(Range(rows))
    BY DEF IsList
  <2>2. Range(cut) = {rows[i] : i \in DOMAIN rows \cap places}
    BY <2>1, KeptSound
  <2>3. k \in DOMAIN rows \cap places
    BY <1>0
  <2>4. OneEach(rows) => OneEach(cut)
    BY KeptOneEach
  <2> HIDE DEF cut, places
  <2>5. rows[k] \in Range(cut)
    BY <2>2, <2>3
  <2>6. PICK i \in DOMAIN cut : cut[i] = rows[k]
    BY <2>5 DEF Range
  <2> QED BY <1>0, <1>2, <2>4, <2>6 DEF Names
<1> QED BY <1>1, <1>2 DEF Shown

(* The bars marked are those of the open record. *)
LEMMA MarkedIsMine ==
    ASSUME NEW rows, NEW total, NEW issued, NEW mine, Names(rows, mine),
           NEW bars, bars = ShareBars(rows, total, issued, mine)
    PROVE  MarksMine(bars, mine, OneEach(rows))
<1> DEFINE Mine(j) == rows[j].id = mine \/ (j = 1 /\ \A l \in DOMAIN rows : rows[l].id # mine)
           Share(j) == IF total > 0 THEN Rounded(rows[j].success * Full, total) ELSE 0
           Many(j) == IF total > 0 THEN Rounded(rows[j].success * issued, total) ELSE 0
           Bar(j) == [id |-> rows[j].id, share |-> Share(j), count |-> Many(j), highlight |-> Mine(j)]
<1>1. DOMAIN bars = DOMAIN rows /\ \A j \in DOMAIN rows : bars[j] = Bar(j)
  BY DEF ShareBars
<1>2. ASSUME NEW j \in DOMAIN rows PROVE Bar(j).id = rows[j].id /\ (Bar(j).highlight <=> Mine(j))
  <2>1. Bar(j).highlight = Mine(j)
    <3> HIDE DEF Mine, Share, Many
    <3> QED OBVIOUS
  <2> HIDE DEF Mine, Share, Many
  <2> QED BY <2>1
<1>0. PICK k \in DOMAIN rows : rows[k].id = mine
  BY DEF Names
<1>3. ASSUME NEW j \in DOMAIN rows PROVE Mine(j) <=> rows[j].id = mine
  BY <1>0
<1> HIDE DEF Bar, Mine, Share, Many
<1>4. \A j \in DOMAIN bars : bars[j].id = rows[j].id /\ (bars[j].highlight <=> rows[j].id = mine)
  BY <1>1, <1>2, <1>3
<1>5. k \in DOMAIN bars
  BY <1>1
<1>6. bars[k].id = mine /\ bars[k].highlight
  BY <1>0, <1>4, <1>5
<1>7. k \in MarkedAt(bars) /\ \A i \in MarkedAt(bars) : bars[i].id = mine /\ rows[i].id = rows[k].id
  BY <1>0, <1>4, <1>5, <1>6 DEF MarkedAt
<1>8. {bars[i].id : i \in MarkedAt(bars)} = {mine}
  BY <1>6, <1>7
<1>9. OneEach(rows) => MarkedAt(bars) = {k}
  <2>1. MarkedAt(bars) \subseteq DOMAIN rows
    BY <1>1 DEF MarkedAt
  <2> QED BY <1>7, <2>1 DEF OneEach
<1> QED BY <1>7, <1>8, <1>9 DEF MarksMine

LEMMA ChartMarksMine ==
    ASSUME NEW rows, IsList(rows), NEW mine, Names(rows, mine),
           NEW chart, \E of, out : chart = DemandChart(rows, of, out, mine)
    PROVE  MarksMine(chart.bars, mine, OneEach(rows))
<1> DEFINE cut  == Shown(rows, mine)
           bars == chart.bars
<1>1. PICK of, out : bars = ShareBars(cut, of, out, mine)
  BY DEF DemandChart
<1>2. Names(cut, mine) /\ (OneEach(rows) => OneEach(cut))
  BY ShownKeepsMine
<1> HIDE DEF cut, bars
<1>3. MarksMine(bars, mine, OneEach(cut))
  BY <1>1, <1>2, MarkedIsMine
<1> QED BY <1>2, <1>3 DEF bars, MarksMine

LEMMA EmptyRange == Range(<<>>) = {}
<1>1. DOMAIN <<>> = {}
  OBVIOUS
<1> QED BY <1>1 DEF Range

LEMMA OwnChart ==
    ASSUME NEW all, IsList(all), NEW k \in DOMAIN all, all[k].calls # "",
           NEW chart \in Range(DemandMix(all, all[k], 30).charts)
    PROVE  MarksMine(chart.bars, all[k].id, OneEach(all))
<1> DEFINE sv == all[k]
           publisher == PublisherOf(all, sv)
           places == {i \in DOMAIN all :
                        /\ all[i].calls = sv.calls
                        /\ publisher # <<>> /\ publisher[1].scope = "state" => all[i].region = sv.region}
           siblings == SiblingsOf(all, sv, publisher)
           rows == ByVolumeDesc(siblings)
           total == Total(siblings, LAMBDA r : r.success)
           issued == IF publisher = <<>> THEN total ELSE publisher[1].success
           chart0 == DemandChart(rows, total, issued, sv.id)
<1>1. chart = chart0
  <2>1. DemandMix(all, sv, 30).charts
          = IF Len(siblings) <= 1 THEN <<>> ELSE <<chart0>>
    BY DEF DemandMix, RequestorDemand
  <2> HIDE DEF chart0, siblings, sv
  <2>2. Range(<<chart0>>) = {chart0}
    BY OneItem
  <2>3. Range(<<>>) = {}
    BY EmptyRange
  <2> QED BY <2>1, <2>2, <2>3 DEF sv
<1>2. \E of, out : chart = DemandChart(rows, of, out, sv.id)
  BY <1>1
<1>3. IsList(siblings) /\ sv \in Range(siblings) /\ (OneEach(all) => OneEach(siblings))
  <2>1. all \in Seq(Range(all)) /\ siblings = Kept(all, places)
    BY DEF IsList, SiblingsOf
  <2>2. k \in DOMAIN all \cap places
    OBVIOUS
  <2> HIDE DEF siblings, places
  <2>3. siblings \in Seq(Range(all)) /\ Range(siblings) = {all[i] : i \in DOMAIN all \cap places}
    BY <2>1, KeptSound
  <2>4. OneEach(all) => OneEach(siblings)
    BY <2>1, KeptOneEach
  <2> QED BY <2>2, <2>3, <2>4, SequenceIsList
<1> HIDE DEF siblings
<1>4. IsList(rows) /\ Range(rows) = Range(siblings) /\ (OneEach(all) => OneEach(rows))
  <2>1. PICK compare : rows = Arranged(siblings, compare)
    BY ByVolumeArranges
  <2> HIDE DEF rows
  <2> QED BY <1>3, <2>1, ArrangedSound, ArrangedOneEach
<1>5. PICK m \in DOMAIN rows : rows[m] = sv
  BY <1>3, <1>4 DEF Range
<1> HIDE DEF rows
<1>6. Names(rows, sv.id)
  BY <1>5 DEF Names
<1> DEFINE mine == sv.id
<1> HIDE DEF mine, sv
<1>7. Names(rows, mine) /\ \E of, out : chart = DemandChart(rows, of, out, mine)
  BY <1>2, <1>6 DEF mine
<1>8. MarksMine(chart.bars, mine, OneEach(rows))
  BY <1>4, <1>7, ChartMarksMine
<1>9. MarksMine(chart.bars, mine, OneEach(all))
  BY <1>4, <1>8 DEF MarksMine
<1> QED BY <1>9 DEF mine, sv

(* What a region was drawn from is a list, and a drawer opens one of it. *)
LEMMA ShownIsServed ==
    ASSUME Requests, RuleAbiding, NEW name \in Regions
    PROVE  shown[name].of \in DOMAIN served
<1>1. shown[name].of \in 1 .. Latest
  BY DEF Requests, TypeOK
<1>2. DOMAIN served = 1 .. Len(served)
  BY DEF RuleAbiding
<1> QED BY <1>1, <1>2 DEF Latest

LEMMA EstateIsList ==
    ASSUME Requests, RuleAbiding, NEW name \in Regions
    PROVE  IsList(ContextOf(shown[name]).all)
  BY ShownIsServed, ContextFields DEF RuleAbiding

LEMMA OpenedIsListed ==
    ASSUME NEW r, IsList(ContextOf(r).all), ContextOf(r).service # <<>>
    PROVE  LET c == ContextOf(r) IN \E k \in DOMAIN c.all : c.service[1] = c.all[k]
<1> DEFINE st == ReadState(Domain, r.at.service, r.at.params, cookie)
           all == served[r.of].services
           named == {i \in DOMAIN all : all[i].id = st.service}
           opened == IF named = {} THEN <<>> ELSE <<all[Min(named)]>>
<1> HIDE DEF st
<1>1. ContextOf(r) = [Selection(Domain, served[r.of].services, r.at, st) EXCEPT !.state.theme = r.theme]
  BY DEF ContextOf, Themed, Build, st
<1>2. ContextOf(r).all = all
  BY ContextFields
<1>3. ContextOf(r).service = opened
  <2> HIDE DEF opened
  <2>1. Selection(Domain, served[r.of].services, r.at, st).service = opened
    BY DEF Selection, opened
  <2> HIDE DEF all
  <2> QED BY <1>1, <2>1 DEF Selection
<1>4. named # {} /\ opened = <<all[Min(named)]>>
  BY <1>3
<1>5. named \subseteq Nat
  BY <1>2, ListDomain
<1>6. Min(named) \in named
  <2> HIDE DEF named
  <2> QED BY <1>4, <1>5, MinIsMember
<1> DEFINE k == Min(named)
           item == all[k]
<1>7. k \in DOMAIN all /\ opened = <<item>>
  BY <1>4, <1>6
<1> HIDE DEF opened, k, item, named
<1>8. opened[1] = item
  BY <1>7
<1> QED BY <1>2, <1>3, <1>7, <1>8 DEF item

(* The open requestor is drawn and marked, once if the snapshot names it     *)
(* once, whatever its rank among those that call what it calls              *)
(* (demandChart's cut against demandMix's sort).                            *)
THEOREM RequestorIsDrawn == Spec => []OpenRecordDrawn
<1>1. Requests /\ RuleAbiding => OpenRecordDrawn
  <2> SUFFICES ASSUME Requests, RuleAbiding,
                      ContextOf(shown["drawer"]).service # <<>>,
                      ContextOf(shown["drawer"]).service[1].calls # "",
                      NEW chart \in Range(DemandMix(ContextOf(shown["drawer"]).all,
                                            ContextOf(shown["drawer"]).service[1], 30).charts)
               PROVE  MarksMine(chart.bars, ContextOf(shown["drawer"]).service[1].id,
                                OneEach(ContextOf(shown["drawer"]).all))
    BY DEF OpenRecordDrawn, MarksMine, MarkedAt
  <2> DEFINE c == ContextOf(shown["drawer"])
  <2>1. IsList(c.all)
    BY EstateIsList DEF Regions
  <2>2. PICK k \in DOMAIN c.all : c.service[1] = c.all[k]
    BY <2>1, OpenedIsListed
  <2>3. c.all[k].calls # "" /\ chart \in Range(DemandMix(c.all, c.all[k], 30).charts)
    BY <2>2
  <2> HIDE DEF c
  <2>4. MarksMine(chart.bars, c.all[k].id, OneEach(c.all))
    BY <2>1, <2>3, OwnChart
  <2> QED BY <2>2, <2>4 DEF c
<1> QED BY InitTyped, StepTyped, InitAbides, StepAbides, <1>1, PTL DEF Spec

-----------------------------------------------------------------------------
(* Ranks *)

(* On a list that names no id twice the last place of an id is its place. *)
LEMMA LastPlaceOfOne ==
    ASSUME NEW list, IsList(list), OneEach(list)
    PROVE  /\ DOMAIN LastPlaces(list) = {list[i].id : i \in DOMAIN list}
           /\ \A i \in DOMAIN list : LastPlaces(list)[list[i].id] = i
<1>1. Len(list) \in Nat /\ DOMAIN list = 1 .. Len(list)
  BY ListDomain
<1>2. ASSUME NEW i \in DOMAIN list PROVE LastPlaces(list)[list[i].id] = i
  <2> DEFINE named == {j \in DOMAIN list : list[j].id = list[i].id}
  <2>1. LastPlaces(list)[list[i].id] = Max(named)
    BY DEF LastPlaces
  <2>2. named = {i}
    BY DEF OneEach
  <2>3. named \subseteq 0 .. Len(list) /\ named # {}
    BY <1>1, <2>2
  <2>4. Max(named) \in named
    <3> HIDE DEF named
    <3> QED BY <1>1, <2>3, MaxIsMember
  <2> QED BY <2>1, <2>2, <2>4
<1> QED BY <1>2 DEF LastPlaces

(* What climbs by at least one from each place to the next, among as many    *)
(* numbers as there are places, is the number of its place.                 *)
LEMMA ClimbAtLeast ==
    ASSUME NEW n \in Nat, NEW g, \A i \in 1 .. n : g[i] \in 1 .. n,
           \A i, j \in 1 .. n : i < j => g[i] < g[j]
    PROVE  \A i \in 1 .. n : g[i] >= i
<1> DEFINE Good == {k \in 0 .. n : k = 0 \/ g[k] >= k}
<1>1. 0 \in Good
  OBVIOUS
<1>2. ASSUME NEW k \in 0 .. (n - 1), k \in Good PROVE k + 1 \in Good
  <2>1. CASE k = 0
    BY <2>1
  <2>2. CASE k # 0
    <3>1. k \in 1 .. n /\ k + 1 \in 1 .. n /\ k < k + 1
      BY <2>2
    <3>2. g[k] < g[k + 1] /\ g[k] \in 1 .. n /\ g[k + 1] \in 1 .. n
      BY <3>1
    <3>3. g[k] >= k
      BY <1>2, <2>2
    <3>4. g[k + 1] >= k + 1
      BY <3>2, <3>3
    <3> QED BY <3>1, <3>4
  <2> QED BY <2>1, <2>2
<1> HIDE DEF Good
<1>3. \A k \in 0 .. n : k \in Good
  BY <1>1, <1>2, UpTo
<1> QED BY <1>3 DEF Good

LEMMA ClimbIsPlace ==
    ASSUME NEW n \in Nat, NEW g, \A i \in 1 .. n : g[i] \in 1 .. n,
           \A i, j \in 1 .. n : i < j => g[i] < g[j]
    PROVE  \A i \in 1 .. n : g[i] = i
<1>1. \A i \in 1 .. n : g[i] >= i
  BY ClimbAtLeast
<1> DEFINE h == [i \in 1 .. n |-> (n + 1) - g[(n + 1) - i]]
<1>2. \A i \in 1 .. n : (n + 1) - i \in 1 .. n /\ h[i] = (n + 1) - g[(n + 1) - i] /\ h[i] \in 1 .. n
  <2> SUFFICES ASSUME NEW i \in 1 .. n
               PROVE  (n + 1) - i \in 1 .. n /\ h[i] = (n + 1) - g[(n + 1) - i] /\ h[i] \in 1 .. n
    OBVIOUS
  <2>1. (n + 1) - i \in 1 .. n
    OBVIOUS
  <2>2. g[(n + 1) - i] \in 1 .. n
    BY <2>1
  <2> QED BY <2>1, <2>2
<1>3. ASSUME NEW i \in 1 .. n, NEW j \in 1 .. n, i < j PROVE h[i] < h[j]
  <2>1. (n + 1) - j < (n + 1) - i /\ (n + 1) - i \in 1 .. n /\ (n + 1) - j \in 1 .. n
    BY <1>3
  <2>2. g[(n + 1) - j] < g[(n + 1) - i] /\ g[(n + 1) - j] \in 1 .. n /\ g[(n + 1) - i] \in 1 .. n
    BY <2>1
  <2> QED BY <1>2, <2>2
<1> HIDE DEF h
<1>4. \A i \in 1 .. n : h[i] >= i
  BY <1>2, <1>3, ClimbAtLeast
<1>5. ASSUME NEW i \in 1 .. n PROVE g[i] = i
  <2> DEFINE m == (n + 1) - i
  <2>1. m \in 1 .. n /\ (n + 1) - m = i
    OBVIOUS
  <2> HIDE DEF m
  <2>2. h[m] = (n + 1) - g[i] /\ h[m] >= m
    BY <1>2, <1>4, <2>1
  <2>3. g[i] \in 1 .. n /\ g[i] >= i
    BY <1>1
  <2> QED BY <2>1, <2>2, <2>3 DEF m
<1> QED BY <1>5

LEMMA RankArranges ==
    ASSUME NEW services, NEW days
    PROVE  \E compare : Rank(services, days) = Arranged(services, compare)
<1> DEFINE last == LastPlaces(services)
           standing == [id \in DOMAIN last |-> Standing(services[last[id]], days)]
           compare == [i \in DOMAIN services |-> [j \in DOMAIN services |->
                         ByStanding(services[i], services[j],
                                    standing[services[i].id], standing[services[j].id])]]
<1>1. Rank(services, days) = Arranged(services, compare)
  BY DEF Rank, StableSort, Arranged
<1> QED BY <1>1

LEMMA OrderArranges ==
    ASSUME NEW d, NEW services, NEW key, NEW dir, NEW days, NEW ranks
    PROVE  LET sign == IF dir = "desc" THEN -1 ELSE 1
           IN  Order(d, services, key, dir, days, ranks)
                 = Arranged(services, [i \in DOMAIN services |-> [j \in DOMAIN services |->
                       sign * Comparator(d, key, days, ranks, services[i], services[j])]])
  BY DEF Order, StableSort, Arranged

(* Every service of a board has a rank, which is its place among the ranked. *)
RankedBy(pop, ranked, ranks) ==
    /\ IsList(ranked) /\ OneEach(ranked) /\ DOMAIN ranked = 1 .. Len(pop)
    /\ Range(ranked) = Range(pop)
    /\ DOMAIN ranks = {pop[i].id : i \in DOMAIN pop}
    /\ \A i \in DOMAIN ranked : ranks[ranked[i].id] = i
    /\ \A sv \in Range(pop) : ranks[sv.id] \in 1 .. Len(pop) /\ ranked[ranks[sv.id]] = sv

LEMMA RanksSound ==
    ASSUME NEW pop, IsList(pop), OneEach(pop), NEW days
    PROVE  RankedBy(pop, Rank(pop, days), Ranks(Rank(pop, days)))
<1> DEFINE ranked == Rank(pop, days)
           ranks  == Ranks(ranked)
<1>1. PICK compare : ranked = Arranged(pop, compare)
  BY RankArranges
<1> HIDE DEF ranked
<1>2. IsList(ranked) /\ OneEach(ranked) /\ DOMAIN ranked = 1 .. Len(pop) /\ Range(ranked) = Range(pop)
  BY <1>1, ArrangedSound, ArrangedOneEach
<1>3. /\ DOMAIN ranks = {ranked[i].id : i \in DOMAIN ranked}
      /\ \A i \in DOMAIN ranked : ranks[ranked[i].id] = i
  BY <1>2, LastPlaceOfOne DEF Ranks
<1> HIDE DEF ranks
<1>4. {ranked[i].id : i \in DOMAIN ranked} = {pop[i].id : i \in DOMAIN pop}
  <2>1. \A i \in DOMAIN ranked : \E j \in DOMAIN pop : ranked[i] = pop[j]
    BY <1>2 DEF Range
  <2>2. \A j \in DOMAIN pop : \E i \in DOMAIN ranked : ranked[i] = pop[j]
    BY <1>2 DEF Range
  <2> QED BY <2>1, <2>2
<1>5. ASSUME NEW sv \in Range(pop) PROVE ranks[sv.id] \in 1 .. Len(pop) /\ ranked[ranks[sv.id]] = sv
  <2>1. PICK i \in DOMAIN ranked : ranked[i] = sv
    BY <1>2 DEF Range
  <2>2. ranks[sv.id] = i
    BY <1>3, <2>1
  <2> QED BY <1>2, <2>1, <2>2
<1> QED BY <1>2, <1>3, <1>4, <1>5 DEF ranked, ranks, RankedBy

(* Put in the order of their ranks, services are where their ranks say. *)
LEMMA ByRankIsRanked ==
    ASSUME NEW pop, IsList(pop), OneEach(pop), NEW days, NEW d, NEW shownDays
    PROVE  LET ranks  == Ranks(Rank(pop, days))
               sorted == Order(d, pop, "rank", "asc", shownDays, ranks)
           IN  sorted = Rank(pop, days)
<1> DEFINE n == Len(pop)
           ranked == Rank(pop, days)
           ranks == Ranks(ranked)
           compare == [i \in DOMAIN pop |-> [j \in DOMAIN pop |-> 1 * (ranks[pop[i].id] - ranks[pop[j].id])]]
           order == InOrderOf(n, compare)
           sorted == Order(d, pop, "rank", "asc", shownDays, ranks)
           g == [i \in 1 .. n |-> ranks[pop[order[i]].id]]
<1>1. sorted = Arranged(pop, compare)
  <2>1. \A a, b : Comparator(d, "rank", shownDays, ranks, a, b) = ranks[a.id] - ranks[b.id]
    BY DEF Comparator
  <2>2. sorted = Arranged(pop, [i \in DOMAIN pop |-> [j \in DOMAIN pop |->
                     1 * Comparator(d, "rank", shownDays, ranks, pop[i], pop[j])]])
    BY OrderArranges
  <2>3. [i \in DOMAIN pop |-> [j \in DOMAIN pop |->
                     1 * Comparator(d, "rank", shownDays, ranks, pop[i], pop[j])]] = compare
    BY <2>1
  <2> QED BY <2>2, <2>3
<1>2. n \in Nat /\ DOMAIN pop = 1 .. n
  BY ListDomain
<1>3. /\ DOMAIN ranked = 1 .. n /\ IsList(ranked)
      /\ \A sv \in Range(pop) : ranks[sv.id] \in 1 .. n /\ ranked[ranks[sv.id]] = sv
  <2>1. RankedBy(pop, ranked, ranks)
    BY RanksSound
  <2> HIDE DEF ranked, ranks
  <2> QED BY <2>1 DEF RankedBy
<1> HIDE DEF ranks, ranked
<1>4. \A i \in 1 .. n : ranks[pop[i].id] \in 1 .. n /\ ranked[ranks[pop[i].id]] = pop[i]
  BY <1>2, <1>3 DEF Range
<1>5. \A a, b \in 1 .. n : Before(compare, a, b) <=> ranks[pop[a].id] <= ranks[pop[b].id]
  <2> SUFFICES ASSUME NEW a \in 1 .. n, NEW b \in 1 .. n
               PROVE  Before(compare, a, b) <=> ranks[pop[a].id] <= ranks[pop[b].id]
    OBVIOUS
  <2> DEFINE x == ranks[pop[a].id]
             y == ranks[pop[b].id]
  <2>1. compare[a][b] = 1 * (x - y)
    BY <1>2
  <2>2. x \in Int /\ y \in Int
    BY <1>4
  <2> HIDE DEF compare, x, y
  <2> QED BY <2>1, <2>2 DEF Before, x, y
<1> HIDE DEF compare
<1>6. /\ \A a, b \in 1 .. n : Before(compare, a, b) \/ Before(compare, b, a)
      /\ \A a, b, c \in 1 .. n :
            Before(compare, a, b) /\ Before(compare, b, c) => Before(compare, a, c)
  <2> DEFINE r == [a \in 1 .. n |-> ranks[pop[a].id]]
  <2>1. \A a \in 1 .. n : r[a] \in Int /\ r[a] = ranks[pop[a].id]
    BY <1>4
  <2> HIDE DEF r
  <2>2. \A a, b \in 1 .. n : Before(compare, a, b) <=> r[a] <= r[b]
    BY <1>5, <2>1
  <2> QED BY SMTT(40), <2>1, <2>2
<1>7. \A i, j \in 1 .. n : i < j => Before(compare, order[i], order[j])
  BY <1>2, <1>6, SortSorts
<1>8. Places(order, n)
  BY <1>2, SortPlaces
<1>9. /\ DOMAIN sorted = 1 .. n /\ IsList(sorted) /\ Len(sorted) = n
      /\ \A i \in 1 .. n : sorted[i] = pop[order[i]]
  BY <1>1, ArrangedSound
<1> HIDE DEF order, sorted
<1>10. \A i \in 1 .. n : order[i] \in 1 .. n /\ g[i] = ranks[pop[order[i]].id] /\ g[i] \in 1 .. n
                          /\ ranked[g[i]] = pop[order[i]]
  BY <1>4, <1>8 DEF Places
<1> HIDE DEF g
<1>11. ASSUME NEW i \in 1 .. n, NEW j \in 1 .. n, i < j PROVE g[i] < g[j]
  <2>1. g[i] <= g[j]
    <3>1. Before(compare, order[i], order[j]) /\ order[i] \in 1 .. n /\ order[j] \in 1 .. n
      BY <1>7, <1>10, <1>11
    <3>2. ranks[pop[order[i]].id] <= ranks[pop[order[j]].id]
      BY <1>5, <3>1
    <3> QED BY <1>10, <3>2
  <2>2. g[i] # g[j]
    <3> SUFFICES ASSUME g[i] = g[j] PROVE FALSE
      OBVIOUS
    <3>1. pop[order[i]] = pop[order[j]] /\ order[i] \in DOMAIN pop /\ order[j] \in DOMAIN pop
      BY <1>2, <1>10
    <3>2. order[i] = order[j]
      BY <3>1 DEF OneEach
    <3> QED BY <1>8, <1>11, <3>2 DEF Places
  <2> QED BY <1>10, <2>1, <2>2
<1>12. \A i \in 1 .. n : g[i] = i
  <2>1. \A i \in 1 .. n : g[i] \in 1 .. n
    BY <1>10
  <2> HIDE DEF n
  <2> QED BY <1>2, <1>11, <2>1, ClimbIsPlace
<1>13. \A i \in 1 .. n : sorted[i] = ranked[i]
  BY <1>9, <1>10, <1>12
<1>14. sorted = ranked
  <2>1. sorted \in Seq(Range(sorted)) /\ ranked \in Seq(Range(ranked))
    BY <1>3, <1>9 DEF IsList
  <2>2. Len(ranked) = n
    BY <1>2, <1>3, <2>1
  <2> QED BY <1>9, <1>13, <2>1, <2>2
<1> QED BY <1>14 DEF sorted, ranked, ranks

(* A board of an estate that names no service twice names none twice. *)
LEMMA ScopedOneEach ==
    ASSUME NEW d, NEW all, IsList(all), OneEach(all), NEW role, NEW scope, NEW region
    PROVE  OneEach(Scope(d, Role(d, all, role), scope, region))
<1>1. IsList(Role(d, all, role)) /\ OneEach(Role(d, all, role))
  BY KeptSound, KeptOneEach, SequenceIsList DEF Role, IsList
<1> QED BY <1>1, KeptOneEach DEF Scope

LEMMA PopulationSound ==
    ASSUME NEW r, IsList(ContextOf(r).all)
    PROVE  LET c == ContextOf(r)
           IN  /\ IsList(c.roleScoped)
               /\ OneEach(c.all) => OneEach(c.roleScoped)
<1> DEFINE st == ReadState(Domain, r.at.service, r.at.params, cookie)
           c == ContextOf(r)
<1>1. c.roleScoped = Scope(Domain, Role(Domain, c.all, st.role), st.scope, st.region)
  BY ContextFields
<1> HIDE DEF st, c
<1>2. IsList(c.all)
  BY DEF c
<1> QED BY <1>1, <1>2, ScopedIsList, ScopedOneEach DEF c

(* Filters leave some of a board, and none of them leaves all of it. *)
LEMMA FilteredSound ==
    ASSUME NEW c, IsList(c.roleScoped)
    PROVE  /\ IsList(Filtered(c)) /\ Range(Filtered(c)) \subseteq Range(c.roleScoped)
           /\ (\A kind \in {"status", "cat", "id", "q"} : c.state.filter[kind] = {})
                => Filtered(c) = c.roleScoped
<1> DEFINE pop == c.roleScoped
           places == {i \in DOMAIN pop : Passes(pop[i], c.state.filter)}
<1>1. pop \in Seq(Range(pop)) /\ Filtered(c) = Kept(pop, places)
  BY DEF IsList, Filtered, Apply
<1>2. (\A kind \in {"status", "cat", "id", "q"} : c.state.filter[kind] = {}) => DOMAIN pop \subseteq places
  BY DEF Passes, Chosen
<1> HIDE DEF pop, places
<1>3. /\ Kept(pop, places) \in Seq(Range(pop))
      /\ Range(Kept(pop, places)) = {pop[k] : k \in DOMAIN pop \cap places}
      /\ DOMAIN pop \subseteq places => Kept(pop, places) = pop
  BY <1>1, KeptSound
<1>4. IsList(Kept(pop, places))
  BY <1>3, SequenceIsList
<1>5. Range(Kept(pop, places)) \subseteq Range(pop)
  BY <1>3 DEF Range
<1> QED BY <1>1, <1>2, <1>3, <1>4, <1>5 DEF pop

(* The rows of a board are those the filters leave, each with its rank. *)
LEMMA RowBuilt ==
    ASSUME NEW c, IsList(c.roleScoped), NEW row \in Range(BoardRows(c))
    PROVE  \E sv \in Range(c.roleScoped) : row = BuildRow(c, sv, Ranks(Rank(c.roleScoped, c.days))[sv.id])
<1> DEFINE ranks == Ranks(Rank(c.roleScoped, c.days))
           listed == Listed(c, ranks)
           rows == Rows(c, listed, ranks)
<1>1. BoardRows(c) = rows
  BY DEF BoardRows, RankedRows, RanksOf, Ranking
<1> HIDE DEF ranks
<1>2. Range(listed) = Range(Filtered(c)) /\ Range(Filtered(c)) \subseteq Range(c.roleScoped)
  <2>1. IsList(Filtered(c)) /\ Range(Filtered(c)) \subseteq Range(c.roleScoped)
    BY FilteredSound
  <2>2. \E compare : listed = Arranged(Filtered(c), compare)
    BY OrderArranges DEF Listed
  <2> HIDE DEF listed
  <2> QED BY <2>1, <2>2, ArrangedSound
<1> HIDE DEF listed
<1>3. PICK i \in DOMAIN listed : row = BuildRow(c, listed[i], ranks[listed[i].id])
  BY <1>1 DEF Rows, Range
<1>4. listed[i] \in Range(c.roleScoped)
  BY <1>2 DEF Range
<1> QED BY <1>3, <1>4 DEF ranks

LEMMA RowFields ==
    ASSUME NEW c, IsList(c.roleScoped), NEW row \in Range(BoardRows(c))
    PROVE  \E sv \in Range(c.roleScoped) :
              row.id = sv.id /\ row.rank = Ranks(Rank(c.roleScoped, c.days))[sv.id]
<1>1. PICK sv \in Range(c.roleScoped) : row = BuildRow(c, sv, Ranks(Rank(c.roleScoped, c.days))[sv.id])
  BY RowBuilt
<1> DEFINE rank == Ranks(Rank(c.roleScoped, c.days))[sv.id]
<1> HIDE DEF rank
<1>2. row = BuildRow(c, sv, rank)
  BY <1>1 DEF rank
<1>3. row.id = sv.id /\ row.rank = rank
  BY <1>2 DEF BuildRow, Row
<1> QED BY <1>3 DEF rank

(* Asked for without filters and in its own order, a board is as ranked. *)
LEMMA WholeBoard ==
    ASSUME NEW e, IsList(e.roleScoped), OneEach(e.roleScoped),
           e.state.sort = "rank", e.state.dir = "asc",
           \A kind \in {"status", "cat", "id", "q"} : e.state.filter[kind] = {}
    PROVE  LET whole == BoardRows(e)
               ranked == Rank(e.roleScoped, e.days)
           IN  DOMAIN whole = DOMAIN ranked /\ \A i \in DOMAIN ranked : whole[i].id = ranked[i].id
<1> DEFINE pop == e.roleScoped
           ranked == Rank(pop, e.days)
           ranks == Ranks(ranked)
           listed == Listed(e, ranks)
<1>1. Filtered(e) = pop
  BY FilteredSound
<1>2. listed = Order(e.d, pop, "rank", "asc", e.days, ranks)
  BY <1>1 DEF Listed
<1>3. listed = ranked
  BY <1>2, ByRankIsRanked
<1>4. BoardRows(e) = Rows(e, listed, ranks)
  BY DEF BoardRows, RankedRows, RanksOf, Ranking
<1> HIDE DEF ranked, ranks, listed
<1>5. DOMAIN BoardRows(e) = DOMAIN listed
      /\ \A i \in DOMAIN listed : BoardRows(e)[i] = BuildRow(e, listed[i], ranks[listed[i].id])
  BY <1>4 DEF Rows
<1>6. ASSUME NEW i \in DOMAIN listed PROVE BoardRows(e)[i].id = listed[i].id
  <2>1. BuildRow(e, listed[i], ranks[listed[i].id]).id = listed[i].id
    BY DEF BuildRow, Row
  <2> QED BY <1>5, <2>1
<1> QED BY <1>3, <1>5, <1>6 DEF ranked, pop

LEMMA AskingWhole ==
    ASSUME NEW r, IsRequest(r.at), IsList(Domain.categories),
           NEW changed, DOMAIN changed = {"status", "cat", "id", "q", "sort", "dir"},
           \A name \in DOMAIN changed : changed[name] = <<>>
    PROVE  LET c == ContextOf(r)
               e == Asking(c, changed)
           IN  /\ e.roleScoped = c.roleScoped /\ e.days = c.days
               /\ e.state.sort = "rank" /\ e.state.dir = "asc"
               /\ \A kind \in {"status", "cat", "id", "q"} : e.state.filter[kind] = {}
<1> DEFINE c == ContextOf(r)
           p == ParamsWith(c.params, changed)
           st == ReadState(Domain, r.at.service, r.at.params, cookie)
           s == ReadState(Domain, "", p, "")
<1>1. c.params = r.at.params
  BY ContextReady
<1>2. /\ c.d = Domain /\ c.days = DaysFor(Domain, st.period)
      /\ c.roleScoped = Scope(Domain, Role(Domain, c.all, st.role), st.scope, st.region)
  BY ContextFields
<1>3. Asking(c, changed) = Selection(Domain, c.all, [service |-> "", params |-> p], s)
  <2>1. c.d = Domain
    BY <1>2
  <2> HIDE DEF c
  <2> QED BY <2>1 DEF Asking, Build
<1> HIDE DEF c
<1>4. \A name \in {"role", "scope", "region", "period"} : Get(p, name) = Get(r.at.params, name)
  BY <1>1 DEF ParamsWith, Get
<1>5. \A name \in {"status", "cat", "id"} : All(p, name) = <<>>
  BY DEF ParamsWith, All
<1>6. \A name \in {"q", "sort", "dir"} : Get(p, name) = ""
  BY DEF ParamsWith, Get
<1> HIDE DEF p
<1>7. s.role = st.role /\ s.scope = st.scope /\ s.region = st.region /\ s.period = st.period
  BY <1>4 DEF ReadState
<1>8. /\ s.filter.status = {} /\ s.filter.cat = {} /\ s.filter.id = {} /\ s.filter.q = {}
      /\ s.sort = "rank" /\ s.dir = "asc"
  BY <1>5, <1>6, NoValues DEF ReadState, KnownValues, DefaultDirection
<1> HIDE DEF s, st
<1>9. /\ Asking(c, changed).state = s /\ Asking(c, changed).days = DaysFor(Domain, s.period)
      /\ Asking(c, changed).roleScoped = Scope(Domain, Role(Domain, c.all, s.role), s.scope, s.region)
  BY <1>3 DEF Selection
<1> QED BY <1>2, <1>7, <1>8, <1>9 DEF c

(* Filtering and sorting never renumber the board, as long as the snapshot   *)
(* names no service twice (query.go's ranks against the board's rows).      *)
THEOREM RanksAreOfTheWholeBoard == Spec => []RanksSurviveFiltering
<1>1. Requests /\ RuleAbiding => RanksSurviveFiltering
  <2> DEFINE wiped == [name \in DOMAIN Unfiltered \cup {"sort", "dir"} |-> <<>>]
             whole == BoardRows(Asking(Board, wiped))
  <2> SUFFICES ASSUME Requests, RuleAbiding, OneEach(Board.all), NEW row \in Range(BoardRows(Board))
               PROVE  row.rank \in DOMAIN whole /\ whole[row.rank].id = row.id
    BY DEF RanksSurviveFiltering
  <2> DEFINE c == Board
             e == Asking(c, wiped)
             ranked == Rank(c.roleScoped, c.days)
  <2>1. IsList(c.roleScoped) /\ OneEach(c.roleScoped)
    BY EstateIsList, PopulationSound DEF Board, Regions
  <2>2. /\ DOMAIN wiped = {"status", "cat", "id", "q", "sort", "dir"}
        /\ \A name \in DOMAIN wiped : wiped[name] = <<>>
    BY DEF Unfiltered
  <2>3. IsRequest(shown["leaderboard"].at) /\ IsList(Domain.categories)
    BY DEF Requests, TypeOK, Regions
  <2>4. /\ e.roleScoped = c.roleScoped /\ e.days = c.days
        /\ e.state.sort = "rank" /\ e.state.dir = "asc"
        /\ \A kind \in {"status", "cat", "id", "q"} : e.state.filter[kind] = {}
    <3> HIDE DEF wiped
    <3> QED BY <2>2, <2>3, AskingWhole DEF Board
  <2> HIDE DEF e, c
  <2>5. DOMAIN BoardRows(e) = DOMAIN ranked /\ \A i \in DOMAIN ranked : BoardRows(e)[i].id = ranked[i].id
    BY <2>1, <2>4, WholeBoard
  <2>6. PICK sv \in Range(c.roleScoped) :
          row.id = sv.id /\ row.rank = Ranks(ranked)[sv.id]
    BY <2>1, RowFields DEF c
  <2>7. RankedBy(c.roleScoped, ranked, Ranks(ranked))
    BY <2>1, RanksSound
  <2> HIDE DEF ranked
  <2>8. row.rank \in DOMAIN ranked /\ ranked[row.rank] = sv
    BY <2>6, <2>7 DEF RankedBy
  <2> QED BY <2>5, <2>6, <2>8 DEF e, c
<1> QED BY InitTyped, StepTyped, InitAbides, StepAbides, <1>1, PTL DEF Spec

-----------------------------------------------------------------------------
(* Who leads *)

(* Whoever reports an availability comes before whoever does not. *)
LEMMA ReportingComesFirst ==
    ASSUME NEW a, NEW b, NEW sa, NEW sb, sa.availability.valid, ~sb.availability.valid
    PROVE  ByStanding(a, b, sa, sb) = -1 /\ ByStanding(b, a, sb, sa) = 1
<1>1. Score(sa).valid /\ ~Score(sb).valid
  BY DEF Score, Present, Absent
<1>2. Score(sa) # Score(sb)
  BY <1>1
<1>3. ByScore(Score(sa), Score(sb)) = -1 /\ ByScore(Score(sb), Score(sa)) = 1
  BY <1>1 DEF ByScore
<1> QED BY <1>2, <1>3 DEF ByStanding

LEMMA ReportingLead ==
    ASSUME NEW pop, IsList(pop), OneEach(pop), NEW days,
           NEW i \in DOMAIN Rank(pop, days), NEW j \in DOMAIN Rank(pop, days),
           Standing(Rank(pop, days)[i], days).availability.valid,
           ~Standing(Rank(pop, days)[j], days).availability.valid
    PROVE  i < j
<1> DEFINE n == Len(pop)
           last == LastPlaces(pop)
           standing == [id \in DOMAIN last |-> Standing(pop[last[id]], days)]
           compare == [x \in DOMAIN pop |-> [y \in DOMAIN pop |->
                         ByStanding(pop[x], pop[y], standing[pop[x].id], standing[pop[y].id])]]
           order == InOrderOf(n, compare)
           ranked == Rank(pop, days)
           Leaders == {x \in 1 .. n : Standing(pop[x], days).availability.valid}
<1>1. ranked = Arranged(pop, compare)
  BY DEF Rank, StableSort, Arranged
<1>2. n \in Nat /\ DOMAIN pop = 1 .. n
  BY ListDomain
<1>3. \A x \in 1 .. n : standing[pop[x].id] = Standing(pop[x], days)
  <2>1. DOMAIN last = {pop[x].id : x \in DOMAIN pop} /\ \A x \in DOMAIN pop : last[pop[x].id] = x
    BY LastPlaceOfOne
  <2> HIDE DEF last
  <2> QED BY <1>2, <2>1
<1> HIDE DEF standing
<1>4. \A x, y \in 1 .. n :
         compare[x][y] = ByStanding(pop[x], pop[y], Standing(pop[x], days), Standing(pop[y], days))
  BY <1>2, <1>3
<1> HIDE DEF compare
<1>5. ASSUME NEW x \in Leaders, NEW y \in (1 .. n) \ Leaders
      PROVE  Before(compare, x, y) /\ ~Before(compare, y, x)
  <2>1. compare[x][y] = -1 /\ compare[y][x] = 1
    BY <1>4, ReportingComesFirst
  <2> QED BY <2>1 DEF Before
<1>6. /\ DOMAIN ranked = 1 .. n /\ \A x \in 1 .. n : ranked[x] = pop[order[x]]
      /\ Places(order, n)
  BY <1>1, ArrangedSound
<1>7. i \in 1 .. n /\ j \in 1 .. n /\ order[i] \in Leaders /\ order[j] \notin Leaders
  BY <1>6 DEF Places
<1>8. Leaders \in SUBSET (1 .. n)
  OBVIOUS
<1> HIDE DEF Leaders, ranked, n
<1>9. \A x, y \in 1 .. n : order[x] \notin Leaders /\ order[y] \in Leaders => y < x
  BY <1>2, <1>5, <1>8, SortSeparates
<1> QED BY <1>7, <1>9

LEMMA ScopedRange ==
    ASSUME NEW d, NEW all, IsList(all), NEW role, NEW scope, NEW region
    PROVE  Range(Scope(d, Role(d, all, role), scope, region)) \subseteq Range(all)
<1>1. \A list, places : IsList(list) => Range(Kept(list, places)) \subseteq Range(list)
  <2> SUFFICES ASSUME NEW list, NEW places, IsList(list)
               PROVE  Range(Kept(list, places)) \subseteq Range(list)
    OBVIOUS
  <2>1. Range(Kept(list, places)) = {list[k] : k \in DOMAIN list \cap places}
    BY KeptSound DEF IsList
  <2> QED BY <2>1 DEF Range
<1>2. IsList(Role(d, all, role)) /\ Range(Role(d, all, role)) \subseteq Range(all)
  BY <1>1, KeptSound, SequenceIsList DEF Role, IsList
<1> QED BY <1>1, <1>2 DEF Scope

(* Nobody leads the board by having reported nothing, as long as the        *)
(* snapshot names no service twice (Score's infinity against Rank's order). *)
THEOREM ReportingRankFirst == Spec => []AbsentNeverLeads
<1>1. Requests /\ RuleAbiding => AbsentNeverLeads
  <2> DEFINE c == Board
             all == c.all
             pop == c.roleScoped
             ranked == Rank(pop, c.days)
             ranks == RanksOf(c)
             reporting == {sv.id : sv \in {x \in Range(all) : Standing(x, c.days).availability.valid}}
  <2> SUFFICES ASSUME Requests, RuleAbiding, OneEach(all),
                      NEW a \in DOMAIN ranks \cap reporting, NEW b \in DOMAIN ranks \ reporting
               PROVE  ranks[a] < ranks[b]
    BY DEF AbsentNeverLeads
  <2>1. IsList(all) /\ IsList(pop) /\ OneEach(pop)
    BY EstateIsList, PopulationSound DEF Board, Regions
  <2>2. Range(pop) \subseteq Range(all)
    <3> DEFINE r == shown["leaderboard"]
               st == ReadState(Domain, r.at.service, r.at.params, cookie)
               k == ContextOf(r)
    <3>1. k.roleScoped = Scope(Domain, Role(Domain, k.all, st.role), st.scope, st.region)
      BY ContextFields
    <3>2. c = k
      BY DEF Board
    <3> HIDE DEF k, st, c
    <3> QED BY <2>1, <3>1, <3>2, ScopedRange
  <2>3. ranks = Ranks(ranked) /\ RankedBy(pop, ranked, ranks)
    <3>1. ranks = Ranks(ranked)
      BY DEF RanksOf, Ranking
    <3> HIDE DEF ranks, c
    <3> QED BY <2>1, <3>1, RanksSound
  <2> HIDE DEF ranks, ranked, c
  <2>4. PICK x \in DOMAIN pop : a = pop[x].id
    BY <2>3 DEF RankedBy
  <2>5. PICK y \in DOMAIN pop : b = pop[y].id
    BY <2>3 DEF RankedBy
  <2>6. pop[x] \in Range(pop) /\ pop[y] \in Range(pop)
    BY DEF Range
  <2>7. Standing(pop[x], c.days).availability.valid
    <3>1. PICK sv \in Range(all) : sv.id = a /\ Standing(sv, c.days).availability.valid
      OBVIOUS
    <3>2. PICK k \in DOMAIN all : all[k] = sv
      BY <3>1 DEF Range
    <3>3. PICK m \in DOMAIN all : all[m] = pop[x]
      BY <2>2, <2>6 DEF Range
    <3>4. sv = pop[x]
      BY <2>4, <3>1, <3>2, <3>3 DEF OneEach
    <3> QED BY <3>1, <3>4
  <2>8. ~Standing(pop[y], c.days).availability.valid
    BY <2>2, <2>5, <2>6
  <2>9. /\ ranks[a] \in DOMAIN ranked /\ ranked[ranks[a]] = pop[x]
        /\ ranks[b] \in DOMAIN ranked /\ ranked[ranks[b]] = pop[y]
    BY <2>3, <2>4, <2>5, <2>6 DEF RankedBy
  <2> DEFINE i == ranks[a]
             j == ranks[b]
             days == c.days
  <2>10. i \in DOMAIN Rank(pop, days) /\ j \in DOMAIN Rank(pop, days)
         /\ Standing(Rank(pop, days)[i], days).availability.valid
         /\ ~Standing(Rank(pop, days)[j], days).availability.valid
    BY <2>7, <2>8, <2>9 DEF ranked
  <2> HIDE DEF i, j, days, pop
  <2>11. i < j
    BY <2>1, <2>10, ReportingLead
  <2> QED BY <2>11 DEF i, j
<1> QED BY InitTyped, StepTyped, InitAbides, StepAbides, <1>1, PTL DEF Spec

-----------------------------------------------------------------------------
(* What a push accepts is found *)

LEMMA ItemInRange == \A list, i : i \in DOMAIN list => list[i] \in Range(list)
  BY DEF Range

LEMMA LaidHolds ==
    ASSUME NEW S, NEW list \in Seq(S), NEW x \in S
    PROVE  /\ x \in Range(Laid(list, x))
           /\ \A y \in Range(list) : y.id # x.id => y \in Range(Laid(list, x))
<1> DEFINE at == {i \in DOMAIN list : list[i].id = x.id}
           laid == Laid(list, x)
<1>1. Len(list) \in Nat /\ DOMAIN list = 1 .. Len(list)
  OBVIOUS
<1>2. /\ \E j \in DOMAIN laid : laid[j] = x
      /\ \A i \in DOMAIN list : list[i].id # x.id => i \in DOMAIN laid /\ laid[i] = list[i]
  <2>1. CASE at = {}
    <3>1. laid = Append(list, x)
      BY <2>1 DEF Laid
    <3>2. /\ DOMAIN Append(list, x) = 1 .. (Len(list) + 1) /\ Append(list, x)[Len(list) + 1] = x
          /\ \A i \in 1 .. Len(list) : Append(list, x)[i] = list[i] /\ i \in 1 .. (Len(list) + 1)
          /\ Len(list) + 1 \in 1 .. (Len(list) + 1)
      BY <1>1
    <3> HIDE DEF laid
    <3>3. \E j \in DOMAIN laid : laid[j] = x
      BY <3>1, <3>2
    <3> QED BY <1>1, <3>1, <3>2, <3>3
  <2>2. CASE at # {}
    <3> DEFINE m == Max(at)
    <3>1. laid = [list EXCEPT ![m] = x]
      BY <2>2 DEF Laid
    <3>2. m \in at
      <4>1. at \subseteq 0 .. Len(list)
        BY <1>1
      <4> HIDE DEF at
      <4> QED BY <1>1, <2>2, <4>1, MaxIsMember
    <3>3. m \in DOMAIN list /\ list[m].id = x.id
      BY <3>2
    <3> HIDE DEF laid, m, at
    <3> QED BY <3>1, <3>3
  <2> QED BY <2>1, <2>2
<1>3. ASSUME NEW y \in Range(list), y.id # x.id PROVE y \in Range(laid)
  <2>1. PICK i \in DOMAIN list : list[i] = y
    BY DEF Range
  <2>2. i \in DOMAIN laid /\ laid[i] = y
    BY <1>2, <1>3, <2>1
  <2> HIDE DEF laid
  <2> QED BY <2>2, ItemInRange
<1>4. x \in Range(laid)
  <2>1. PICK j \in DOMAIN laid : laid[j] = x
    BY <1>2
  <2> HIDE DEF laid
  <2> QED BY <2>1, ItemInRange
<1> QED BY <1>3, <1>4

(* Whatever is laid over a list, the last to have an id is on it. *)
LEMMA MergeHolds ==
    ASSUME NEW existing, IsList(existing), NEW incoming, IsList(incoming), NEW i \in DOMAIN incoming,
           NEW mode \in {"REPLACE", "UPSERT"}, mode = "UPSERT" => LastOfItsId(incoming, i)
    PROVE  incoming[i] \in Range(Merge(mode, existing, incoming))
<1>1. CASE mode = "REPLACE"
  BY <1>1 DEF Merge, Range
<1>2. CASE mode = "UPSERT"
  <2> DEFINE S == Range(existing) \cup Range(incoming)
             n == Len(incoming)
             laid == Overlaid(existing, incoming)
             sv == incoming[i]
             Good == {k \in 0 .. n : laid[k] \in Seq(S) /\ (k >= i => sv \in Range(laid[k]))}
  <2>1. n \in Nat /\ DOMAIN incoming = 1 .. n /\ \A k \in 1 .. n : incoming[k] \in S
    BY ListDomain DEF Range
  <2>2. laid[0] = existing /\ \A k \in 1 .. n : laid[k] = Laid(laid[k - 1], incoming[k])
    BY <2>1, OverlaidSteps
  <2>3. existing \in Seq(S) /\ i \in 1 .. n
    BY <2>1 DEF IsList
  <2> HIDE DEF laid, S, n
  <2>4. 0 \in Good
    BY <2>1, <2>2, <2>3
  <2>5. ASSUME NEW k \in 0 .. (n - 1), k \in Good PROVE k + 1 \in Good
    <3> DEFINE x == incoming[k + 1]
               was == laid[k]
    <3>1. k + 1 \in 1 .. n /\ (k + 1) - 1 = k /\ k + 1 \in 0 .. n
      BY <2>1
    <3>2. was \in Seq(S) /\ x \in S /\ laid[k + 1] = Laid(was, x) /\ (k >= i => sv \in Range(was))
      BY <2>1, <2>2, <2>5, <3>1
    <3>3. k + 1 >= i => k + 1 = i \/ (k >= i /\ x.id # sv.id)
      BY <1>2, <2>1, <2>3, <3>1 DEF LastOfItsId
    <3>4. k + 1 = i => x = sv
      OBVIOUS
    <3> HIDE DEF x, was, sv
    <3>5. Laid(was, x) \in Seq(S) /\ x \in Range(Laid(was, x))
          /\ \A y \in Range(was) : y.id # x.id => y \in Range(Laid(was, x))
      BY <3>2, LaidSound, LaidHolds
    <3>6. k + 1 >= i => sv \in Range(laid[k + 1])
      BY <3>2, <3>3, <3>4, <3>5
    <3> QED BY <3>1, <3>2, <3>5, <3>6
  <2>6. n \in Good
    <3>1. \A k \in 0 .. (n - 1) : k \in Good => k + 1 \in Good
      BY <2>5
    <3>2. n \in 0 .. n
      BY <2>1
    <3> HIDE DEF Good
    <3> QED BY <2>1, <2>4, <3>1, <3>2, UpTo
  <2>7. sv \in Range(laid[n])
    BY <2>1, <2>3, <2>6
  <2> QED BY <1>2, <2>7 DEF Merge, laid, n
<1> QED BY <1>1, <1>2

LEMMA ListedHasRow ==
    ASSUME NEW c, IsList(c.roleScoped), NEW sv \in Range(Filtered(c))
    PROVE  \E row \in Range(BoardRows(c)) : row.id = sv.id
<1> DEFINE ranks == RanksOf(c)
           listed == Listed(c, ranks)
<1>1. Range(listed) = Range(Filtered(c))
  <2>1. IsList(Filtered(c))
    BY FilteredSound
  <2>2. \E compare : listed = Arranged(Filtered(c), compare)
    BY OrderArranges DEF Listed
  <2> HIDE DEF listed
  <2> QED BY <2>1, <2>2, ArrangedSound
<1>2. BoardRows(c) = Rows(c, listed, ranks)
  BY DEF BoardRows, RankedRows
<1> HIDE DEF ranks, listed
<1>3. PICK i \in DOMAIN listed : listed[i] = sv
  BY <1>1 DEF Range
<1>4. i \in DOMAIN BoardRows(c) /\ BoardRows(c)[i] = BuildRow(c, sv, ranks[sv.id])
  BY <1>2, <1>3 DEF Rows
<1>5. BuildRow(c, sv, ranks[sv.id]).id = sv.id
  BY DEF BuildRow, Row
<1> QED BY <1>4, <1>5 DEF Range
(* What a push accepts came in it, and is within the deployment's vocabulary. *)
LEMMA AcceptedSound ==
    ASSUME NEW d, NEW sent, IsList(sent)
    PROVE  /\ IsList(Accepted(d, sent))
           /\ \A i \in DOMAIN Accepted(d, sent) :
                 Valid(d, Accepted(d, sent)[i]) /\ \E p : Accepted(d, sent)[i] = IngestServiceToModel(p)
<1> DEFINE services == [i \in DOMAIN sent |-> IngestServiceToModel(sent[i])]
           valid == {i \in DOMAIN sent : Valid(d, services[i])}
           accepted == Accepted(d, sent)
<1>1. services \in Seq(Range(services)) /\ DOMAIN services = DOMAIN sent
  <2>1. DOMAIN sent = 1 .. Len(sent) /\ Len(sent) \in Nat
    BY ListDomain
  <2> QED BY <2>1 DEF Range
<1>2. \A k \in valid : Valid(d, services[k]) /\ \E p : services[k] = IngestServiceToModel(p)
  OBVIOUS
<1>3. accepted = Kept(services, valid)
  BY DEF Accepted
<1> HIDE DEF services, valid
<1>4. /\ accepted \in Seq(Range(services))
      /\ Range(accepted) = {services[k] : k \in DOMAIN services \cap valid}
  <2>1. /\ Kept(services, valid) \in Seq(Range(services))
        /\ Range(Kept(services, valid)) = {services[k] : k \in DOMAIN services \cap valid}
    BY <1>1, KeptSound
  <2> HIDE DEF accepted
  <2> QED BY <1>3, <2>1
<1> HIDE DEF accepted
<1>5. IsList(accepted)
  BY <1>4, SequenceIsList
<1>6. ASSUME NEW i \in DOMAIN accepted
      PROVE  Valid(d, accepted[i]) /\ \E p : accepted[i] = IngestServiceToModel(p)
  <2>1. accepted[i] \in Range(accepted)
    BY ItemInRange
  <2>2. PICK k \in DOMAIN services \cap valid : accepted[i] = services[k]
    BY <1>4, <2>1
  <2> QED BY <1>1, <1>2, <2>2
<1> QED BY <1>5, <1>6 DEF accepted

(* Of which board a service is, and under which of its chips. *)
PlacedAs(sv, other) ==
    sv.id = other.id /\ sv.scope = other.scope /\ sv.role = other.role /\ sv.category = other.category

LEMMA FinalisedKeepsPlace ==
    ASSUME NEW d, NEW sent, IsList(sent)
    PROVE  LET accepted == Accepted(d, sent)
           IN  /\ DOMAIN Finalise(accepted, d) = DOMAIN accepted
               /\ \A i \in DOMAIN accepted : PlacedAs(Finalise(accepted, d)[i], accepted[i])
<1> DEFINE accepted == Accepted(d, sent)
<1>1. DOMAIN Finalise(accepted, d) = DOMAIN accepted
  BY DEF Finalise
<1>2. ASSUME NEW i \in DOMAIN accepted PROVE PlacedAs(Finalise(accepted, d)[i], accepted[i])
  <2>1. PICK p : accepted[i] = IngestServiceToModel(p)
    BY AcceptedSound
  <2>2. PICK verdict, trends :
           Finalise(accepted, d)[i] = [accepted[i] EXCEPT !.status = verdict, !.trends = trends]
    BY DEF Finalise
  <2>3. {"id", "scope", "role", "category", "status", "trends"} \subseteq DOMAIN accepted[i]
    BY <2>1 DEF IngestServiceToModel
  <2> HIDE DEF accepted
  <2> QED BY <2>2, <2>3 DEF PlacedAs
<1> QED BY <1>1, <1>2

(* Parameters that ask for a board, and for nothing that narrows it but a    *)
(* category.                                                                *)
Asks(asked, sv) ==
    /\ DOMAIN asked \subseteq {"scope", "role", "cat"}
    /\ Get(asked, "scope") = sv.scope
    /\ Get(asked, "role") = sv.role

(* A reader who asks for the board of a service, and there for its category. *)
LEMMA BoardParams ==
    ASSUME NEW sv, sv.scope # ""
    PROVE  LET board  == BoardOf(sv)
               chosen == ParamsWith(board, [cat |-> Given(sv.category)])
           IN  /\ Asks(board, sv) /\ Asks(chosen, sv)
               /\ All(chosen, "cat") = IF sv.category = "" THEN <<>> ELSE <<<<sv.category>>>>
<1> DEFINE given == [scope |-> Given(sv.scope), role |-> Given(sv.role)]
           cat == [cat |-> Given(sv.category)]
           board  == BoardOf(sv)
           chosen == ParamsWith(board, cat)
<1>1. \A x : x # "" => Given(x) = <<x>> /\ Given(x) # <<>>
  BY OneItem DEF Given
<1>2. Given("") = <<>>
  BY DEF Given
<1>3. /\ DOMAIN given = {"scope", "role"} /\ given["scope"] = <<sv.scope>> /\ given["scope"] # <<>>
      /\ IF sv.role = "" THEN given["role"] = <<>> ELSE given["role"] = <<sv.role>> /\ given["role"] # <<>>
  BY <1>1, <1>2
<1>4. /\ DOMAIN cat = {"cat"}
      /\ IF sv.category = "" THEN cat["cat"] = <<>> ELSE cat["cat"] = <<sv.category>> /\ cat["cat"] # <<>>
  BY <1>1, <1>2
<1>5. board = ParamsWith(None, given) /\ DOMAIN None = {}
  BY DEF BoardOf, None
<1> HIDE DEF given, cat, board
<1>6. /\ DOMAIN board = {name \in DOMAIN given : given[name] # <<>>}
      /\ \A name \in DOMAIN given : given[name] # <<>> => board[name] = <<given[name]>>
  BY <1>5 DEF ParamsWith
<1>7. /\ DOMAIN board \subseteq {"scope", "role"} /\ "scope" \in DOMAIN board /\ board["scope"] = <<<<sv.scope>>>>
      /\ IF sv.role = "" THEN "role" \notin DOMAIN board
                         ELSE "role" \in DOMAIN board /\ board["role"] = <<<<sv.role>>>>
  BY <1>3, <1>6
<1>8. /\ DOMAIN chosen = (DOMAIN board \ {"cat"}) \cup {name \in {"cat"} : cat[name] # <<>>}
      /\ cat["cat"] # <<>> => chosen["cat"] = <<cat["cat"]>>
      /\ \A name \in DOMAIN board \ {"cat"} : chosen[name] = board[name]
  BY <1>4 DEF ParamsWith
<1> HIDE DEF chosen
<1>9. /\ DOMAIN chosen \subseteq {"scope", "role", "cat"}
      /\ "scope" \in DOMAIN chosen /\ chosen["scope"] = <<<<sv.scope>>>>
      /\ IF sv.role = "" THEN "role" \notin DOMAIN chosen
                         ELSE "role" \in DOMAIN chosen /\ chosen["role"] = <<<<sv.role>>>>
      /\ IF sv.category = "" THEN "cat" \notin DOMAIN chosen
                             ELSE "cat" \in DOMAIN chosen /\ chosen["cat"] = <<<<sv.category>>>>
  BY <1>4, <1>7, <1>8
<1>10. \A x : Head(<<<<x>>>>) = <<x>> /\ <<x>> # <<>> /\ <<x>>[1] = x
  BY OneItem
<1>11. \A asked, name, x : name \in DOMAIN asked /\ asked[name] = <<<<x>>>> => Get(asked, name) = x
  BY <1>10 DEF Get
<1>12. \A asked, name : name \notin DOMAIN asked => Get(asked, name) = ""
  BY DEF Get
<1>13. Asks(board, sv) /\ Asks(chosen, sv)
  BY <1>7, <1>9, <1>11, <1>12 DEF Asks
<1>14. All(chosen, "cat") = IF sv.category = "" THEN <<>> ELSE <<<<sv.category>>>>
  BY <1>9 DEF All
<1> QED BY <1>13, <1>14 DEF board, chosen, cat

(* The population of that board, and what the filter leaves of it. *)
ShowsBoard(c, d, services, sv, cats) ==
    /\ c.d = d
    /\ c.roleScoped = Scope(d, Role(d, services, RoleFor(d, sv.role)), sv.scope, "")
    /\ c.state.filter = [status |-> {}, cat |-> KnownValues(cats, Range(d.categories)), id |-> {}, q |-> {}]

LEMMA AskedBoard ==
    ASSUME NEW d, NEW services, NEW asked, NEW sv, sv.scope \in d.scopes, Asks(asked, sv)
    PROVE  ShowsBoard(Build(d, services, [service |-> "", params |-> asked], ""), d, services, sv, All(asked, "cat"))
<1> DEFINE request == [service |-> "", params |-> asked]
           st == ReadState(d, "", asked, "")
           c == Build(d, services, request, "")
<1>0. /\ Get(asked, "scope") = sv.scope /\ Get(asked, "role") = sv.role
      /\ Get(asked, "region") = "" /\ Get(asked, "q") = ""
      /\ All(asked, "status") = <<>> /\ All(asked, "id") = <<>>
  <2>1. \A name \in {"region", "q", "status", "id"} : name \notin DOMAIN asked
    BY DEF Asks
  <2>2. Get(asked, "region") = "" /\ Get(asked, "q") = "" /\ All(asked, "status") = <<>> /\ All(asked, "id") = <<>>
    BY <2>1 DEF Get, All
  <2> QED BY <2>2 DEF Asks
<1>1. /\ st.scope = sv.scope /\ st.role = RoleFor(d, sv.role) /\ st.region = ""
  BY <1>0 DEF ReadState, RegionOr
<1>2. st.filter = [status |-> {}, cat |-> KnownValues(All(asked, "cat"), Range(d.categories)),
                   id |-> {}, q |-> {}]
  <2>1. st.filter = [status |-> KnownValues(All(asked, "status"), Statuses),
                     cat |-> KnownValues(All(asked, "cat"), Range(d.categories)),
                     id |-> SplitValues(All(asked, "id")),
                     q |-> IF Get(asked, "q") = "" THEN {} ELSE {Get(asked, "q")}]
    BY DEF ReadState
  <2>2. KnownValues(<<>>, Statuses) = {}
    BY NoValues DEF KnownValues
  <2> HIDE DEF st
  <2> QED BY <1>0, <2>1, <2>2, NoValues
<1>3. c = Selection(d, services, request, st)
  BY DEF Build
<1> HIDE DEF st, c
<1>4. c.d = d /\ c.state = st /\ c.roleScoped = Scope(d, Role(d, services, st.role), st.scope, st.region)
  BY <1>3 DEF Selection
<1> QED BY <1>1, <1>2, <1>4 DEF c, ShowsBoard

(* A service within the vocabulary is on the board of its scope and role. *)
LEMMA PlacedOnBoard ==
    ASSUME NEW d, NEW services, IsList(services), NEW x \in Range(services), NEW sv, PlacedAs(x, sv),
           d.roles = <<>> \/ sv.role \in {""} \cup Range(d.roles)
    PROVE  x \in Range(Scope(d, Role(d, services, RoleFor(d, sv.role)), sv.scope, ""))
<1> DEFINE role == RoleFor(d, sv.role)
           wanted == IF role = "" THEN d.defaultRole ELSE role
           sided == Role(d, services, role)
<1>1. x \in Range(sided) /\ IsList(sided)
  <2>1. CASE d.roles = <<>>
    BY <2>1 DEF Role
  <2>2. CASE d.roles # <<>>
    <3> DEFINE places == {i \in DOMAIN services : RoleOf(d, services[i]) = wanted}
    <3>1. sided = Kept(services, places)
      BY <2>2 DEF Role
    <3>2. RoleOf(d, x) = wanted
      BY <2>2 DEF RoleOf, PlacedAs, RoleFor
    <3>3. PICK k \in DOMAIN services : services[k] = x
      BY DEF Range
    <3>4. k \in places
      BY <3>2, <3>3
    <3> HIDE DEF sided, places
    <3>5. sided \in Seq(Range(services)) /\ Range(sided) = {services[i] : i \in DOMAIN services \cap places}
      BY <3>1, KeptSound DEF IsList
    <3>6. IsList(sided)
      BY <3>5, SequenceIsList
    <3> QED BY <3>3, <3>4, <3>5, <3>6
  <2> QED BY <2>1, <2>2
<1> HIDE DEF sided
<1> DEFINE places == {i \in DOMAIN sided : sided[i].scope = sv.scope}
<1>2. Scope(d, sided, sv.scope, "") = Kept(sided, places)
  BY DEF Scope
<1>3. PICK k \in DOMAIN sided : sided[k] = x
  BY <1>1 DEF Range
<1>4. k \in places
  BY <1>3 DEF PlacedAs
<1> HIDE DEF places
<1>5. Range(Kept(sided, places)) = {sided[i] : i \in DOMAIN sided \cap places}
  BY <1>1, KeptSound DEF IsList
<1> QED BY <1>2, <1>3, <1>4, <1>5 DEF sided

(* A category that is on a board has a chip. *)
LEMMA CategoryHasChip ==
    ASSUME NEW c, IsList(c.roleScoped), NEW sv \in Range(c.roleScoped), sv.category \in Range(c.d.categories)
    PROVE  sv.category \in DOMAIN FilterBar(c).categories
<1> DEFINE pop == c.roleScoped
           cat == sv.category
           places == {i \in DOMAIN pop : pop[i].category = cat}
<1>1. IsFiniteSet(places) /\ places # {}
  <2>1. DOMAIN pop = 1 .. Len(pop) /\ Len(pop) \in Nat
    BY ListDomain
  <2>2. PICK k \in DOMAIN pop : pop[k] = sv
    BY DEF Range
  <2>3. places \subseteq DOMAIN pop /\ k \in places
    BY <2>2
  <2> HIDE DEF places, pop
  <2>4. IsFiniteSet(DOMAIN pop)
    BY <2>1, FS_Interval
  <2> QED BY <2>3, <2>4, FS_Subset
<1>2. Cardinality(places) > 0
  <2> HIDE DEF places
  <2>1. Cardinality(places) \in Nat /\ Cardinality(places) # 0
    BY <1>1, FS_CardinalityType, FS_EmptySet
  <2> QED BY <2>1
<1> HIDE DEF cat
<1>3. \A other \in {cat} :
         Cardinality({i \in DOMAIN pop : pop[i].category = other}) > 0 /\ other \in Range(c.d.categories)
           => other \in DOMAIN FilterBar(c).categories
  BY DEF FilterBar, ChipPopulation
<1> QED BY <1>2, <1>3 DEF cat

LEMMA PlacedIsFound ==
    ASSUME NEW services, IsList(services), NEW x \in Range(services), NEW sv, PlacedAs(x, sv),
           Valid(Domain, sv), sv.scope # "",
           Domain.roles = <<>> \/ sv.role \in {""} \cup Range(Domain.roles)
    PROVE  IsFound(sv, services)
<1> DEFINE Asked(params) == Build(Domain, services, [service |-> "", params |-> params], "")
           board == Asked(BoardOf(sv))
           chosen == Asked(ParamsWith(BoardOf(sv), [cat |-> Given(sv.category)]))
           pop == Scope(Domain, Role(Domain, services, RoleFor(Domain, sv.role)), sv.scope, "")
           cats == IF sv.category = "" THEN {} ELSE {sv.category}
<1>1. sv.scope \in Domain.scopes /\ (sv.category # "" => sv.category \in Range(Domain.categories))
  BY DEF Valid
<1>2. IsList(pop) /\ x \in Range(pop)
  BY ScopedIsList, PlacedOnBoard
<1>3. board.d = Domain /\ board.roleScoped = pop
  <2>1. Asks(BoardOf(sv), sv)
    BY BoardParams
  <2>2. ShowsBoard(board, Domain, services, sv, All(BoardOf(sv), "cat"))
    BY <1>1, <2>1, AskedBoard
  <2> HIDE DEF board
  <2> QED BY <2>2 DEF ShowsBoard
<1>4. chosen.roleScoped = pop
      /\ chosen.state.filter = [status |-> {}, cat |-> cats, id |-> {}, q |-> {}]
  <2>1. KnownValues(IF sv.category = "" THEN <<>> ELSE <<<<sv.category>>>>, Range(Domain.categories)) = cats
    BY <1>1, OneValue, NoValues DEF KnownValues
  <2> DEFINE asked == ParamsWith(BoardOf(sv), [cat |-> Given(sv.category)])
  <2>2. Asks(asked, sv) /\ All(asked, "cat") = IF sv.category = "" THEN <<>> ELSE <<<<sv.category>>>>
    BY BoardParams
  <2> HIDE DEF asked, cats
  <2>3. ShowsBoard(Asked(asked), Domain, services, sv, All(asked, "cat"))
    BY <1>1, <2>2, AskedBoard
  <2>4. chosen = Asked(asked)
    BY DEF asked
  <2> HIDE DEF chosen, Asked
  <2> QED BY <2>1, <2>2, <2>3, <2>4 DEF ShowsBoard
<1> HIDE DEF pop, board, chosen
<1>5. sv.category # "" => sv.category \in DOMAIN FilterBar(board).categories
  BY <1>1, <1>2, <1>3, CategoryHasChip DEF PlacedAs
<1>6. x \in Range(Filtered(chosen))
  <2> DEFINE places == {i \in DOMAIN pop : Passes(pop[i], chosen.state.filter)}
  <2> DEFINE f == chosen.state.filter
  <2>0. f.status = {} /\ f.cat = cats /\ f.id = {} /\ f.q = {}
    <3>1. f = [status |-> {}, cat |-> cats, id |-> {}, q |-> {}]
      BY <1>4
    <3> HIDE DEF f, cats
    <3> QED BY <3>1
  <2> HIDE DEF f
  <2>1. Passes(x, f)
    BY <2>0 DEF Passes, Chosen, PlacedAs
  <2>2. PICK k \in DOMAIN pop : pop[k] = x
    BY <1>2 DEF Range
  <2>3. k \in places /\ Filtered(chosen) = Kept(pop, places)
    BY <1>4, <2>1, <2>2 DEF Filtered, Apply, f
  <2> HIDE DEF places
  <2>4. Range(Kept(pop, places)) = {pop[i] : i \in DOMAIN pop \cap places}
    BY <1>2, KeptSound DEF IsList
  <2> QED BY <2>2, <2>3, <2>4
<1>7. \E row \in Range(BoardRows(chosen)) : row.id = sv.id
  BY <1>2, <1>4, <1>6, ListedHasRow DEF PlacedAs
<1> QED BY <1>5, <1>7 DEF IsFound, board, chosen

LEMMA LatestIsServed == RuleAbiding => Latest \in DOMAIN served
  BY DEF RuleAbiding, Latest

(* Whatever a push accepts, in either mode and over whatever is served, the  *)
(* board of its scope and role lists, and offers its category: what passed   *)
(* the check of the vocabulary is never out of a reader's reach              *)
(* (validateServices, merge, Finalise, Scope, Role, filterBar).              *)
THEOREM AcceptedIsWithinReach == Spec => []AcceptedIsListed
<1>1. RuleAbiding => AcceptedIsListed
  <2> SUFFICES ASSUME RuleAbiding, clicks = 0, NEW batch \in Batches, NEW mode \in {"REPLACE", "UPSERT"},
                      NEW i \in DOMAIN Accepted(Domain, batch.services),
                      mode = "UPSERT" => LastOfItsId(Accepted(Domain, batch.services), i),
                      Accepted(Domain, batch.services)[i].scope # "",
                      Domain.roles = <<>> \/ Accepted(Domain, batch.services)[i].role \in {""} \cup Range(Domain.roles)
               PROVE  IsFound(Accepted(Domain, batch.services)[i],
                              ApplyIngest(Domain, [mode |-> mode, services |-> batch.services],
                                          served[Latest].services))
    BY DEF AcceptedIsListed
  <2> DEFINE accepted == Accepted(Domain, batch.services)
             incoming == Finalise(accepted, Domain)
             existing == served[Latest].services
             merged == Merge(mode, existing, incoming)
  <2>1. config \in Configs /\ Problems(config) = {} /\ Domain = config.domain /\ IsList(batch.services)
    BY ReportsAssumption DEF RuleAbiding, Domain
  <2>2. IsList(existing) /\ Silent(existing, Domain)
    <3>1. Latest \in DOMAIN served
      BY LatestIsServed
    <3> QED BY <3>1 DEF RuleAbiding
  <2>3. IsList(incoming) /\ Silent(incoming, Domain)
    BY <2>1, PushedSilent
  <2>4. DOMAIN incoming = DOMAIN accepted /\ \A j \in DOMAIN accepted : PlacedAs(incoming[j], accepted[j])
    BY <2>1, FinalisedKeepsPlace
  <2>5. Valid(Domain, accepted[i])
    BY <2>1, AcceptedSound
  <2> HIDE DEF accepted, incoming, existing
  <2>6. mode = "UPSERT" => LastOfItsId(incoming, i)
    BY <2>4 DEF LastOfItsId, PlacedAs, accepted
  <2>7. IsList(merged) /\ incoming[i] \in Range(merged)
    BY <2>2, <2>3, <2>4, <2>6, MergedSilent, MergeHolds DEF accepted
  <2>8. ApplyIngest(Domain, [mode |-> mode, services |-> batch.services], served[Latest].services) = merged
    BY DEF ApplyIngest, accepted, incoming, existing
  <2> HIDE DEF merged
  <2>9. IsFound(accepted[i], merged)
    BY <2>4, <2>5, <2>7, PlacedIsFound DEF accepted
  <2> QED BY <2>8, <2>9 DEF accepted
<1> QED BY InitAbides, StepAbides, <1>1, PTL DEF Spec

-----------------------------------------------------------------------------
(* What the board shows was said *)

LEMMA RunSteps ==
    ASSUME NEW value, NEW chain, Len(chain) \in Nat
    PROVE  \E f : /\ f[0] = value
                  /\ \A k \in 1 .. Len(chain) : f[k] = After(f[k - 1], chain[k])
                  /\ Run(value, chain) = f[Len(chain)]
<1> DEFINE top == Len(chain)
           Rest(f, k) == IF k = 0 THEN value ELSE After(f[k - 1], chain[k])
           Reached == {m \in 0 .. top : \E f : f = [k \in 0 .. m |-> Rest(f, k)]}
           ran == CHOOSE f : f = [k \in 0 .. top |-> Rest(f, k)]
<1>1. 0 \in Reached
  <2> DEFINE u == [k \in 0 .. 0 |-> value]
  <2>1. u = [k \in 0 .. 0 |-> Rest(u, k)]
    OBVIOUS
  <2> HIDE DEF u, Rest
  <2> QED BY <2>1
<1>2. ASSUME NEW m \in 0 .. (top - 1), m \in Reached PROVE m + 1 \in Reached
  <2>1. PICK f : f = [k \in 0 .. m |-> Rest(f, k)]
    BY <1>2
  <2> DEFINE u == [k \in 0 .. (m + 1) |-> IF k = m + 1 THEN Rest(f, m + 1) ELSE f[k]]
  <2>2. ASSUME NEW k \in 0 .. (m + 1) PROVE u[k] = Rest(u, k)
    <3>1. CASE k = m + 1
      <4>1. u[k - 1] = f[m] /\ u[k] = Rest(f, k) /\ k - 1 = m /\ k # 0
        BY <3>1
      <4> HIDE DEF u
      <4> QED BY <4>1
    <3>2. CASE k \in 0 .. m
      <4>1. u[k] = f[k] /\ (k # 0 => u[k - 1] = f[k - 1])
        BY <3>2
      <4>2. f[k] = Rest(f, k)
        BY <2>1, <3>2
      <4> HIDE DEF u
      <4> QED BY <4>1, <4>2
    <3> QED BY <3>1, <3>2
  <2>3. u = [k \in 0 .. (m + 1) |-> Rest(u, k)]
    BY <2>2
  <2> HIDE DEF u, Rest
  <2> QED BY <2>3
<1>3. top \in Reached
  <2> HIDE DEF Reached, top
  <2>1. top \in Nat
    BY DEF top
  <2>2. \A k \in 0 .. top : k \in Reached
    BY <1>1, <1>2, <2>1, UpTo
  <2> QED BY <2>1, <2>2
<1>4. ran = [k \in 0 .. top |-> Rest(ran, k)]
  BY <1>3
<1>5. Run(value, chain) = ran[top]
  BY DEF Run
<1> HIDE DEF ran
<1>6. \A k \in 0 .. top : ran[k] = Rest(ran, k)
  <2> HIDE DEF Rest
  <2> QED BY <1>4
<1>7. ran[0] = value /\ \A k \in 1 .. top : ran[k] = Rest(ran, k)
  <2>1. 0 \in 0 .. top /\ \A k \in 1 .. top : k \in 0 .. top /\ k # 0
    OBVIOUS
  <2> QED BY <1>6, <2>1
<1> QED BY <1>5, <1>7

(* No transform but the default makes a number of what was none. *)
LEMMA AfterSilence ==
    ASSUME NEW v, NEW step, step.fn \in FnNames, step.fn # "default", After(v, step).num.valid
    PROVE  v.num.valid
<1>1. \A n : Numeric(v, n).num.valid => v.num.valid
  BY Zenon DEF Numeric
<1>2. \A table : Textual(v, table).num.valid => v.num.valid
  <2> SUFFICES ASSUME NEW table, Textual(v, table).num.valid PROVE v.num.valid
    OBVIOUS
  <2> DEFINE said == v.text.valid /\ v.text.value \in DOMAIN table
             node == [Node("text") EXCEPT !.text = Present(table[v.text.value])]
  <2>1. Textual(v, table) = IF said THEN node ELSE v
    BY DEF Textual
  <2>2. node.num = Absent
    BY DEF Node
  <2>3. ~node.num.valid
    BY <2>2 DEF Absent
  <2> HIDE DEF said, node
  <2> QED BY <2>1, <2>3
<1>3. After(v, step) = v \/ After(v, step) = Transform(v, step)
  BY DEF After
<1>4. (\E n : Transform(v, step) = Numeric(v, n)) \/ \E table : Transform(v, step) = Textual(v, table)
  <2> HIDE DEF FnNames
  <2>1. CASE step.fn \in TextualFns
    BY <2>1 DEF Transform, TextualFns
  <2>2. CASE step.fn \in NumericFns \cup {"round"}
    BY <2>2 DEF Transform, NumericFns
  <2> QED BY <2>1, <2>2 DEF FnNames
<1> QED BY <1>1, <1>2, <1>3, <1>4

(* A chain that fills nothing in. *)
Honest(chain) == IsList(chain) /\ \A i \in DOMAIN chain : chain[i].fn \in FnNames /\ chain[i].fn # "default"

LEMMA RunSilence ==
    ASSUME NEW value, NEW chain, Honest(chain), Run(value, chain).num.valid
    PROVE  value.num.valid
<1> DEFINE top == Len(chain)
<1>1. top \in Nat /\ DOMAIN chain = 1 .. top
  BY ListDomain DEF Honest
<1>2. PICK f : /\ f[0] = value
               /\ \A k \in 1 .. top : f[k] = After(f[k - 1], chain[k])
               /\ Run(value, chain) = f[top]
  BY <1>1, RunSteps
<1> DEFINE Good == {k \in 0 .. top : f[k].num.valid => value.num.valid}
<1>3. 0 \in Good
  BY <1>1, <1>2
<1>4. ASSUME NEW k \in 0 .. (top - 1), k \in Good PROVE k + 1 \in Good
  <2>1. k + 1 \in 1 .. top /\ (k + 1) - 1 = k /\ k + 1 \in 0 .. top
    BY <1>1
  <2>2. f[k + 1] = After(f[k], chain[k + 1])
    BY <1>2, <2>1
  <2>3. chain[k + 1].fn \in FnNames /\ chain[k + 1].fn # "default"
    BY <1>1, <2>1 DEF Honest
  <2>4. f[k + 1].num.valid => f[k].num.valid
    BY <2>2, <2>3, AfterSilence
  <2> QED BY <1>4, <2>1, <2>4
<1>5. top \in Good
  <2> HIDE DEF Good, top
  <2>1. \A k \in 0 .. top : k \in Good
    BY <1>1, <1>3, <1>4, UpTo
  <2> QED BY <1>1, <2>1
<1> QED BY <1>2, <1>5

LEMMA EmptyIsList == IsList(<<>>)
  BY EmptyRange DEF IsList

(* What validation and the shape of a configuration leave of a chain. *)
LEMMA ChainIsHonest ==
    ASSUME RuleAbiding, NEW field,
           \A i \in DOMAIN ChainOf(config.mapping, field) : ChainOf(config.mapping, field)[i].fn # "default"
    PROVE  Honest(ChainOf(config.mapping, field))
<1> DEFINE m == config.mapping
           chain == m.chains[field]
<1>1. CASE field \in DOMAIN m.chains
  <2>1. ChainOf(m, field) = chain
    BY <1>1 DEF ChainOf
  <2>2. IsList(chain)
    BY <1>1, ConfigsAssumption DEF RuleAbiding
  <2>3. MappingProblems(m) = {}
    BY DEF RuleAbiding, Problems
  <2>4. UNION {ChainProblems(m.chains[f]) : f \in DOMAIN m.chains} = {}
    BY <2>3 DEF MappingProblems
  <2>5. ChainProblems(chain) \in {ChainProblems(m.chains[f]) : f \in DOMAIN m.chains}
    BY <1>1
  <2>6. ChainProblems(chain) = {}
    <3> HIDE DEF m, chain
    <3> QED BY <2>4, <2>5, NoneOfAll
  <2>7. \A i \in DOMAIN chain : chain[i].fn \in FnNames
    BY <2>6 DEF ChainProblems
  <2> HIDE DEF chain, m
  <2> QED BY <2>1, <2>2, <2>7 DEF Honest, m
<1>2. CASE field \notin DOMAIN m.chains
  <2>1. ChainOf(m, field) = <<>>
    BY <1>2 DEF ChainOf
  <2> QED BY <2>1, EmptyIsList DEF Honest
<1> QED BY <1>1, <1>2

LEMMA ReadingSaid ==
    ASSUME NEW value, Reading(value).valid
    PROVE  value.num.valid
  BY Zenon DEF Reading, Absent

(* A day of a history has a reading only if its point has. *)
LEMMA HistorySaid ==
    ASSUME NEW m, NEW record, m.series # <<>>, IsList(AllAt(m.series[1].path, record)),
           Honest(ChainOf(m, "history.availability"))
    PROVE  /\ IsList(ReadHistory(m, record))
           /\ \A p \in Range(ReadHistory(m, record)) : p.availability.valid =>
                 \E node \in Range(AllAt(m.series[1].path, record)) :
                    GetAt(m.series[1].availability, node).num.valid
<1> DEFINE series == m.series[1]
           At(path, node, field) == Run(GetAt(path, node), ChainOf(m, field))
           nodes  == AllAt(series.path, record)
           places == {i \in DOMAIN nodes : GetAt(series.date, nodes[i]).day.valid}
           dated  == Kept(nodes, places)
           points == [i \in DOMAIN dated |->
                        [day          |-> GetAt(series.date, dated[i]).day.value,
                         availability |-> Reading(At(series.availability, dated[i], "history.availability")),
                         errorRate    |-> Percent(At(series.errorRate, dated[i], "history.errorRate")),
                         volume       |-> Whole(At(series.volume, dated[i], "history.volume"))]]
           compare == [i \in DOMAIN points |-> [j \in DOMAIN points |-> points[i].day - points[j].day]]
<1>1. ReadHistory(m, record) = Arranged(points, compare)
  BY DEF ReadHistory, StableSort, Arranged
<1>2. \A i \in DOMAIN points :
         points[i].availability = Reading(At(series.availability, dated[i], "history.availability"))
  OBVIOUS
<1>3. DOMAIN points = DOMAIN dated /\ points = [i \in DOMAIN dated |-> points[i]]
  OBVIOUS
<1>4. dated \in Seq(Range(nodes))
  <2>1. nodes \in Seq(Range(nodes))
    BY DEF IsList
  <2> HIDE DEF nodes, places
  <2> QED BY <2>1, KeptSound
<1> HIDE DEF nodes, dated, points, compare
<1>5. DOMAIN dated = 1 .. Len(dated) /\ Len(dated) \in Nat /\ \A i \in DOMAIN dated : dated[i] \in Range(nodes)
  BY <1>4
<1>6. points \in Seq(Range(points))
  BY <1>3, <1>5 DEF Range
<1>7. IsList(points)
  BY <1>6 DEF IsList
<1>8. IsList(ReadHistory(m, record)) /\ Range(ReadHistory(m, record)) = Range(points)
  BY <1>1, <1>7, ArrangedSound
<1>9. ASSUME NEW p \in Range(points), p.availability.valid
      PROVE  \E node \in Range(nodes) : GetAt(series.availability, node).num.valid
  <2>1. PICK i \in DOMAIN points : p = points[i]
    BY DEF Range
  <2>2. Reading(At(series.availability, dated[i], "history.availability")).valid
    BY <1>2, <1>9, <2>1
  <2>3. At(series.availability, dated[i], "history.availability").num.valid
    BY <2>2, ReadingSaid
  <2>4. GetAt(series.availability, dated[i]).num.valid
    BY <2>3, RunSilence
  <2> QED BY <1>3, <1>5, <2>1, <2>4
<1> QED BY <1>8, <1>9 DEF nodes

(* A mean is of days that have a reading, and what has no history stands as  *)
(* it was last read.                                                        *)
LEMMA StandingSaid ==
    ASSUME NEW sv, IsList(sv.history), NEW days \in Int, Standing(sv, days).availability.valid
    PROVE  \/ sv.history = <<>> /\ sv.availability.valid
           \/ \E p \in Range(sv.history) : p.availability.valid
<1> DEFINE history == sv.history
           window == IF days <= 0 THEN history ELSE LastDays(history, days)
<1>1. CASE history = <<>>
  BY <1>1 DEF Standing
<1>2. CASE history # <<>>
  <2>1. Standing(sv, days) = Averaged(window)
    BY <1>2 DEF Standing
  <2>2. window \in Seq(Range(history))
    <3>1. history \in Seq(Range(history)) /\ Len(history) \in Nat /\ DOMAIN history = 1 .. Len(history)
      BY ListDomain DEF IsList
    <3>2. CASE days <= 0 \/ Len(history) <= days
      BY <3>1, <3>2 DEF LastDays
    <3>3. CASE ~(days <= 0) /\ ~(Len(history) <= days)
      <4> DEFINE first == Len(history) - days + 1
                 last == Len(history)
      <4>1. first \in Int /\ last \in Int /\ window = SubSeq(history, first, last)
        BY <3>1, <3>3 DEF LastDays
      <4>2. \A i \in first .. last : history[i] \in Range(history)
        <5>1. \A i \in first .. last : i \in DOMAIN history
          BY <3>1, <3>3
        <5> QED BY <5>1, ItemInRange
      <4> HIDE DEF first, last, window, history
      <4> QED BY <4>1, <4>2, SubSeqProperties
    <3> QED BY <3>2, <3>3
  <2> HIDE DEF window
  <2> DEFINE places == {i \in DOMAIN window : window[i].availability.valid}
  <2>3. Readings(window) # <<>>
    <3>1. Averaged(window).availability.valid
      BY <2>1
    <3>2. Readings(window) = <<>> => Averaged(window).availability = Absent
      BY DEF Averaged
    <3>3. ~Absent.valid
      BY DEF Absent
    <3> QED BY <3>1, <3>2, <3>3
  <2>4. places # {}
    <3> SUFFICES ASSUME places = {} PROVE FALSE
      OBVIOUS
    <3>1. Readings(window) = Kept(window, places)
      BY DEF Readings
    <3>2. DOMAIN window \cap places = {}
      OBVIOUS
    <3> HIDE DEF places
    <3>3. /\ Kept(window, places) \in Seq(Range(history))
          /\ Len(Kept(window, places)) = Cardinality(DOMAIN window \cap places)
      BY <2>2, KeptSound
    <3>4. Len(Kept(window, places)) = 0
      BY <3>2, <3>3, FS_EmptySet
    <3> QED BY <2>3, <3>1, <3>3, <3>4
  <2>5. PICK i \in DOMAIN window : window[i].availability.valid
    BY <2>4
  <2>6. window[i] \in Range(history)
    BY <2>2
  <2> QED BY <2>5, <2>6
<1> QED BY <1>1, <1>2

(* No field whose readings the board shows is filled in by a default. *)
Undefaulted ==
    \A field \in {"metrics.availability", "history.availability"} :
       \A i \in DOMAIN ChainOf(config.mapping, field) : ChainOf(config.mapping, field)[i].fn # "default"

(* A record of a document is what a service of its snapshot came from. *)
CameFrom(sv, record) ==
    /\ sv.id = Text(Read(config.mapping, record, "id"))
    /\ sv.availability = Reading(Read(config.mapping, record, "metrics.availability"))
    /\ sv.history = ReadHistory(config.mapping, record)

LEMMA PolledFrom ==
    ASSUME RuleAbiding, NEW doc \in Documents,
           NEW sv \in Range(Finalise(Services(config.mapping, doc, Label), Domain))
    PROVE  \E record \in Range(Records(config.mapping, doc)) : CameFrom(sv, record)
<1> DEFINE m == config.mapping
           records == Records(m, doc)
           named == Kept(records, {i \in DOMAIN records : Text(Read(m, records[i], "id")) # ""})
           services == Services(m, doc, Label)
<1>1. records \in Seq(Range(records))
  BY ReportsAssumption DEF IsList, RuleAbiding
<1>2. named \in Seq(Range(records))
  <2> HIDE DEF records
  <2> QED BY <1>1, KeptSound
<1>3. services = [i \in DOMAIN named |-> ServiceOf(m, named[i], Label)]
  BY DEF Services
<1> HIDE DEF named, services, records
<1>4. PICK i \in DOMAIN named : sv = Finalise(services, Domain)[i]
  BY <1>3 DEF Range, Finalise, services
<1>5. named[i] \in Range(records)
  BY <1>2
<1>6. services[i] = ServiceOf(m, named[i], Label)
  BY <1>3
<1>7. PICK verdict, trends : sv = [services[i] EXCEPT !.status = verdict, !.trends = trends]
  BY <1>3, <1>4 DEF Finalise
<1>8. /\ {"id", "availability", "history", "status", "trends"} \subseteq DOMAIN services[i]
      /\ CameFrom(services[i], named[i])
  <2> DEFINE record == named[i]
  <2> HIDE DEF record
  <2>1. /\ {"id", "availability", "history", "status", "trends"} \subseteq DOMAIN ServiceOf(m, record, Label)
        /\ ServiceOf(m, record, Label).history = ReadHistory(m, record)
        /\ ServiceOf(m, record, Label).availability = Reading(Read(m, record, "metrics.availability"))
        /\ ServiceOf(m, record, Label).id = Text(Read(m, record, "id"))
    BY DEF ServiceOf
  <2> QED BY <1>6, <2>1 DEF CameFrom, record
<1>9. CameFrom(sv, named[i])
  BY <1>7, <1>8 DEF CameFrom
<1> QED BY <1>5, <1>9 DEF records

LEMMA ReadAsSaid ==
    ASSUME NEW record, NEW sv, CameFrom(sv, record), sv.availability.valid,
           Honest(ChainOf(config.mapping, "metrics.availability"))
    PROVE  Said(record)
<1> DEFINE m == config.mapping
           field == "metrics.availability"
<1>1. Read(m, record, field).num.valid
  BY ReadingSaid DEF CameFrom
<1>2. ~Null.num.valid
  BY DEF Null, Node, Absent
<1>3. Read(m, record, field) = Run(GetAt(m.fields[field], record), ChainOf(m, field))
  BY <1>1, <1>2 DEF Read
<1>4. GetAt(m.fields[field], record).num.valid
  BY <1>1, <1>3, RunSilence
<1> QED BY <1>4 DEF Said

(* Whoever stands with a reading was said to have one. *)
LEMMA StandsAsSaid ==
    ASSUME RuleAbiding, Undefaulted, NEW doc \in Documents,
           NEW record \in Range(Records(config.mapping, doc)),
           NEW sv, CameFrom(sv, record), NEW days \in Int, Standing(sv, days).availability.valid
    PROVE  Said(record)
<1> DEFINE m == config.mapping
<1>1. Honest(ChainOf(m, "metrics.availability")) /\ Honest(ChainOf(m, "history.availability"))
  BY ChainIsHonest DEF Undefaulted
<1>2. sv.history = ReadHistory(m, record)
  BY DEF CameFrom
<1>3. CASE m.series = <<>>
  <2>1. sv.history = <<>>
    BY <1>2, <1>3 DEF ReadHistory
  <2>2. sv.availability.valid
    BY <2>1 DEF Standing
  <2> QED BY <1>1, <2>2, ReadAsSaid
<1>4. CASE m.series # <<>>
  <2>1. IsList(AllAt(m.series[1].path, record))
    BY <1>4, ReportsAssumption DEF RuleAbiding
  <2>2. /\ IsList(sv.history)
        /\ \A p \in Range(sv.history) : p.availability.valid =>
              \E node \in Range(AllAt(m.series[1].path, record)) :
                 GetAt(m.series[1].availability, node).num.valid
    BY <1>1, <1>2, <1>4, <2>1, HistorySaid
  <2>3. \/ sv.availability.valid
        \/ \E p \in Range(sv.history) : p.availability.valid
    BY <2>2, StandingSaid
  <2>4. CASE sv.availability.valid
    BY <1>1, <2>4, ReadAsSaid
  <2>5. CASE \E p \in Range(sv.history) : p.availability.valid
    BY <2>2, <2>5 DEF Said
  <2> QED BY <2>3, <2>4, <2>5
<1> QED BY <1>3, <1>4

-----------------------------------------------------------------------------
(* A snapshot that was polled is what its document holds. *)
Polled(snapshot) ==
    snapshot.doc # <<>> =>
       \E doc \in Documents : snapshot = Arrived(Services(config.mapping, doc, Label), <<doc>>)

AsPolled == \A i \in DOMAIN served : Polled(served[i])

LEMMA InitPolled == Init => AsPolled
<1> SUFFICES ASSUME Init PROVE AsPolled
  OBVIOUS
<1>1. PICK doc \in Documents : served = <<Arrived(Services(config.mapping, doc, Label), <<doc>>)>>
  BY DEF Init
<1>2. DOMAIN served = {1} /\ served[1] = Arrived(Services(config.mapping, doc, Label), <<doc>>)
  BY <1>1
<1> QED BY <1>2 DEF AsPolled, Polled

LEMMA AppendPolled ==
    ASSUME RuleAbiding, AsPolled, NEW snapshot, Polled(snapshot),
           served' = Append(served, snapshot), UNCHANGED config
    PROVE  AsPolled'
<1>1. served \in Seq(Range(served))
  BY DEF RuleAbiding
<1>2. /\ DOMAIN served' = DOMAIN served \cup {Len(served) + 1}
      /\ served'[Len(served) + 1] = snapshot
      /\ \A i \in DOMAIN served : served'[i] = served[i]
  BY <1>1
<1>3. \A s : Polled(s) => Polled(s)'
  BY DEF Polled, Arrived, Domain
<1> QED BY <1>2, <1>3 DEF AsPolled

LEMMA StepPolled == RuleAbiding /\ AsPolled /\ [Next]_vars => AsPolled'
<1> SUFFICES ASSUME RuleAbiding, AsPolled, [Next]_vars PROVE AsPolled'
  OBVIOUS
<1>1. CASE Poll
  <2>1. PICK doc \in Documents :
           served' = Append(served, Arrived(Services(config.mapping, doc, Label), <<doc>>))
    BY <1>1 DEF Poll
  <2> DEFINE snapshot == Arrived(Services(config.mapping, doc, Label), <<doc>>)
  <2>2. Polled(snapshot)
    BY DEF Polled
  <2>3. UNCHANGED config
    BY <1>1 DEF Poll
  <2> HIDE DEF snapshot
  <2> QED BY <2>1, <2>2, <2>3, AppendPolled DEF snapshot
<1>2. CASE Push
  <2>1. PICK request \in Batches :
           served' = Append(served, [services |-> ApplyIngest(Domain, request, served[Latest].services),
                                     doc |-> <<>>])
    BY <1>2 DEF Push
  <2> DEFINE snapshot == [services |-> ApplyIngest(Domain, request, served[Latest].services), doc |-> <<>>]
  <2>2. Polled(snapshot)
    BY DEF Polled
  <2>3. UNCHANGED config
    BY <1>2 DEF Push
  <2> HIDE DEF snapshot
  <2> QED BY <2>1, <2>2, <2>3, AppendPolled DEF snapshot
<1>3. CASE UNCHANGED <<config, served>>
  BY <1>3 DEF AsPolled, Polled, Arrived, Domain
<1> QED BY <1>1, <1>2, <1>3 DEF Next, vars, Follow, Ask, Answer, ToggleTheme, CloseDrawer, Reload

-----------------------------------------------------------------------------
LEMMA DaysAreWhole ==
    ASSUME RuleAbiding, NEW period
    PROVE  DaysFor(Domain, period) \in Int
<1>1. ASSUME NEW p PROVE DaysOf(Domain, p).value \in Int
  <2> DEFINE named == {i \in DOMAIN Domain.periods : Domain.periods[i].id = p}
  <2>1. IsList(Domain.periods) /\ \A i \in DOMAIN Domain.periods : Domain.periods[i].days \in Int
    BY ConfigsAssumption DEF RuleAbiding, Domain
  <2>2. named \subseteq Nat /\ named \subseteq DOMAIN Domain.periods
    BY <2>1, ListDomain
  <2>3. DaysOf(Domain, p) = IF named = {} THEN Absent ELSE Present(Domain.periods[Min(named)].days)
    BY DEF DaysOf
  <2> HIDE DEF named
  <2>4. named # {} => Min(named) \in named
    BY <2>2, MinIsMember
  <2>5. CASE named = {}
    BY <2>3, <2>5 DEF Absent
  <2>6. CASE named # {}
    <3>1. Domain.periods[Min(named)].days \in Int
      BY <2>1, <2>2, <2>4, <2>6
    <3>2. \A n : Present(n).value = n
      BY DEF Present
    <3> QED BY <2>3, <2>6, <3>1, <3>2
  <2> QED BY <2>5, <2>6
<1> QED BY <1>1 DEF DaysFor

(* A row shows a reading only if its service stands with one. *)
LEMMA CellStands ==
    ASSUME NEW c, IsList(c.roleScoped), NEW row \in Range(BoardRows(c)), NEW i \in DOMAIN BoardKeys(c.d),
           MetricById(c.d, BoardKeys(c.d)[i])[1].field \in {"availability", "downtime"},
           row.cells[i].value.valid
    PROVE  \E sv \in Range(c.roleScoped) : row.id = sv.id /\ Standing(sv, c.days).availability.valid
<1> DEFINE key == BoardKeys(c.d)[i]
           metric == MetricById(c.d, key)[1]
<1>1. PICK sv \in Range(c.roleScoped) : \E rank : row = BuildRow(c, sv, rank)
  BY RowBuilt
<1>2. PICK rank : row = BuildRow(c, sv, rank)
  BY <1>1
<1>3. row.id = sv.id /\ row.cells[i] = BuildCell(c, sv, metric)
  BY <1>2 DEF BuildRow, Row
<1> HIDE DEF metric
<1>4. metric.field \in {"availability", "downtime"}
  BY DEF metric
<1>5. BuildCell(c, sv, metric).value.valid
  BY <1>3
<1>6. Standing(sv, c.days).availability.valid
  <2> SUFFICES ASSUME ~Standing(sv, c.days).availability.valid PROVE FALSE
    OBVIOUS
  <2>1. BuildCell(c, sv, metric) = Unreported
    BY <1>4, Zenon DEF BuildCell, Cell
  <2>2. ~Unreported.value.valid
    BY DEF Unreported, Absent
  <2> QED BY <1>5, <2>1, <2>2
<1> QED BY <1>3, <1>6

(* Where a mapping fills no reading in, no figure of availability or of      *)
(* downtime is on the board that its document does not hold, for every      *)
(* document, mapping and window (Run, ReadHistory, Standing, BuildCell).    *)
THEOREM NothingIsInvented == Spec => [](Undefaulted => NothingIsMadeUp)
<1>1. Requests /\ RuleAbiding /\ AsPolled => (Undefaulted => NothingIsMadeUp)
  <2> DEFINE r == shown["leaderboard"]
             c == ContextOf(r)
             keys == BoardKeys(Domain)
  <2> SUFFICES ASSUME Requests, RuleAbiding, AsPolled, Undefaulted, served[r.of].doc # <<>>,
                      NEW row \in Range(BoardRows(c)), NEW i \in DOMAIN keys,
                      MetricById(Domain, keys[i])[1].field \in {"availability", "downtime"},
                      row.cells[i].value.valid
               PROVE  \E record \in Record(served[r.of].doc[1], row.id) : Said(record)
    BY DEF NothingIsMadeUp
  <2>1. r.of \in DOMAIN served
    BY ShownIsServed DEF Regions
  <2>2. PICK doc \in Documents : served[r.of] = Arrived(Services(config.mapping, doc, Label), <<doc>>)
    BY <2>1 DEF AsPolled, Polled
  <2>3. /\ served[r.of].doc[1] = doc
        /\ served[r.of].services = Finalise(Services(config.mapping, doc, Label), Domain)
    BY <2>2 DEF Arrived
  <2>4. /\ c.d = Domain /\ c.all = served[r.of].services
        /\ \E period : c.days = DaysFor(Domain, period)
        /\ \E role, scope, region : c.roleScoped = Scope(Domain, Role(Domain, c.all, role), scope, region)
    <3> DEFINE st == ReadState(Domain, r.at.service, r.at.params, cookie)
    <3>1. /\ c.d = Domain /\ c.all = served[r.of].services
          /\ c.days = DaysFor(Domain, st.period)
          /\ c.roleScoped = Scope(Domain, Role(Domain, c.all, st.role), st.scope, st.region)
      BY ContextFields
    <3> HIDE DEF c, st, r
    <3> QED BY <3>1
  <2>5. IsList(c.all) /\ IsList(c.roleScoped)
    BY EstateIsList, PopulationSound DEF Regions
  <2> HIDE DEF c, r
  <2>6. PICK sv \in Range(c.roleScoped) : row.id = sv.id /\ Standing(sv, c.days).availability.valid
    BY <2>4, <2>5, CellStands
  <2>7. sv \in Range(Finalise(Services(config.mapping, doc, Label), Domain))
    BY <2>3, <2>4, <2>5, <2>6, ScopedRange
  <2>8. PICK record \in Range(Records(config.mapping, doc)) : CameFrom(sv, record)
    BY <2>7, PolledFrom
  <2>9. c.days \in Int
    BY <2>4, DaysAreWhole
  <2>10. Said(record)
    BY <2>6, <2>8, <2>9, StandsAsSaid
  <2>11. record \in Record(doc, row.id)
    BY <2>6, <2>8 DEF Record, CameFrom
  <2> QED BY <2>3, <2>10, <2>11
<1> QED BY InitTyped, StepTyped, InitAbides, StepAbides, InitPolled, StepPolled, <1>1, PTL DEF Spec

-----------------------------------------------------------------------------
(* What leaves by an API and comes back *)

ServiceFields == AsSent \cup {"status", "trends", "availability", "errorRate", "stale", "total",
                              "success", "maintenance", "history"}

IsReading(r) == r = Absent \/ r = Present(r.value)

IsPoint(p) ==
    p = [x \in DOMAIN p |-> p[x]] /\ ("availability" \in DOMAIN p => IsReading(p.availability))

IsHistory(points) == points = [i \in DOMAIN points |-> points[i]] /\ \A i \in DOMAIN points : IsPoint(points[i])

(* A service as it can be observed: an absent reading has no value. *)
Observed(sv) ==
    /\ DOMAIN sv = ServiceFields /\ sv = [field \in DOMAIN sv |-> sv[field]]
    /\ IsReading(sv.availability) /\ sv.maintenance \in BOOLEAN /\ IsHistory(sv.history)

LEMMA ReadingReturns == ASSUME NEW r, IsReading(r) PROVE OptFromProto(OptToProto(r)) = r
<1>1. CASE r = Absent
  BY <1>1 DEF OptFromProto, OptToProto, Absent
<1>2. CASE r = Present(r.value)
  <2>1. r.valid = TRUE
    BY <1>2 DEF Present
  <2>2. OptToProto(r) = <<r.value>>
    BY <2>1 DEF OptToProto
  <2>3. <<r.value>> # <<>> /\ <<r.value>>[1] = r.value
    OBVIOUS
  <2> QED BY <1>2, <2>2, <2>3 DEF OptFromProto
<1> QED BY <1>1, <1>2 DEF IsReading

LEMMA ReadingIsReading == ASSUME NEW sent PROVE IsReading(OptFromProto(sent))
  BY DEF OptFromProto, IsReading, Present

LEMMA ReadAsReading == ASSUME NEW value PROVE IsReading(Reading(value))
  BY DEF Reading, IsReading, Present

LEMMA PointReturns ==
    ASSUME NEW p, IsPoint(p),
           NEW q, q = [p EXCEPT !.availability = OptToProto(@)],
           NEW r, r = [q EXCEPT !.availability = OptFromProto(@)]
    PROVE  r = p
<1>1. DOMAIN q = DOMAIN p /\ DOMAIN r = DOMAIN p /\ r = [x \in DOMAIN r |-> r[x]]
  OBVIOUS
<1>2. ASSUME NEW x \in DOMAIN p PROVE r[x] = p[x]
  <2>1. CASE x = "availability"
    <3>1. r[x] = OptFromProto(OptToProto(p[x]))
      BY <2>1
    <3> QED BY <2>1, <3>1, ReadingReturns DEF IsPoint
  <2>2. CASE x # "availability"
    BY <2>2
  <2> QED BY <2>1, <2>2
<1> QED BY <1>1, <1>2, SameFunction DEF IsPoint

LEMMA HistoryReturns ==
    ASSUME NEW points, IsHistory(points)
    PROVE  HistoryFromProto(HistoryToProto(points)) = points
<1> DEFINE sent == HistoryToProto(points)
           back == HistoryFromProto(sent)
<1>1. DOMAIN sent = DOMAIN points /\ DOMAIN back = DOMAIN points /\ back = [i \in DOMAIN back |-> back[i]]
  BY DEF HistoryToProto, HistoryFromProto
<1>2. ASSUME NEW i \in DOMAIN points PROVE back[i] = points[i]
  <2>1. /\ sent[i] = [points[i] EXCEPT !.availability = OptToProto(@)]
        /\ back[i] = [sent[i] EXCEPT !.availability = OptFromProto(@)]
    BY DEF HistoryToProto, HistoryFromProto
  <2>2. IsPoint(points[i])
    BY DEF IsHistory
  <2> QED BY <2>1, <2>2, PointReturns
<1> QED BY <1>1, <1>2, SameFunction DEF IsHistory

LEMMA SentFields ==
    ASSUME NEW sv
    PROVE  LET p == ServiceToIngestProto(sv)
           IN  /\ \A field \in AsSent : p[field] = sv[field]
               /\ p.metrics = <<Figures(sv)>>
               /\ p.maintenance = IF sv.maintenance THEN <<TRUE>> ELSE <<>>
               /\ p.history = HistoryToProto(sv.history)
<1> DEFINE p == ServiceToIngestProto(sv)
<1>1. \A field \in Observations : p[field] = Member(sv, field)
  BY DEF ServiceToIngestProto
<1> HIDE DEF p
<1>2. \A field \in AsSent : Member(sv, field) = sv[field]
  BY DEF Member, AsSent
<1>3. /\ Member(sv, "metrics") = <<Figures(sv)>>
      /\ Member(sv, "maintenance") = IF sv.maintenance THEN <<TRUE>> ELSE <<>>
      /\ Member(sv, "history") = HistoryToProto(sv.history)
  BY DEF Member
<1> QED BY <1>1, <1>2, <1>3 DEF Observations, p

LEMMA ReadFields ==
    ASSUME NEW sv
    PROVE  LET q == ServiceToProto(sv)
           IN  /\ \A field \in Observations : q[field] = ServiceToIngestProto(sv)[field]
               /\ q.status = StatusToProto(sv.status) /\ q.trends = TrendsToProto(sv.trends)
<1> DEFINE q == ServiceToProto(sv)
<1>1. \A field \in Observations \cup {"status", "trends"} : q[field] = Member(sv, field)
  BY DEF ServiceToProto
<1>2. \A field \in Observations : ServiceToIngestProto(sv)[field] = Member(sv, field)
  BY DEF ServiceToIngestProto
<1>3. Member(sv, "status") = StatusToProto(sv.status) /\ Member(sv, "trends") = TrendsToProto(sv.trends)
  BY DEF Member
<1> HIDE DEF q
<1> QED BY <1>1, <1>2, <1>3 DEF q

(* What is told the same way is read the same way. *)
LEMMA IngestAlike ==
    ASSUME NEW p, NEW q,
           \A field \in Observations : q[field] = p[field]
    PROVE  IngestServiceToModel(q) = IngestServiceToModel(p)
<1>1. /\ q.id = p.id /\ q.key = p.key /\ q.calls = p.calls /\ q.scope = p.scope /\ q.role = p.role
      /\ q.region = p.region /\ q.category = p.category /\ q.sector = p.sector /\ q.name = p.name
      /\ q.words = p.words /\ q.ownErrors = p.ownErrors /\ q.incidents = p.incidents
      /\ q.errors = p.errors /\ q.metrics = p.metrics /\ q.maintenance = p.maintenance
      /\ q.history = p.history
  BY DEF Observations, AsSent
<1> QED BY <1>1, Zenon DEF IngestServiceToModel

LEMMA ModelObserved ==
    ASSUME NEW p
    PROVE  LET sv == IngestServiceToModel(p)
           IN  Observed(sv) /\ sv.status = "" /\ sv.trends = <<>>
<1> DEFINE sv == IngestServiceToModel(p)
<1>1. DOMAIN sv = ServiceFields /\ sv = [field \in DOMAIN sv |-> sv[field]]
  <2>1. sv = [field \in DOMAIN sv |-> sv[field]]
    BY ZenonT(60) DEF IngestServiceToModel
  <2>2. DOMAIN sv = {"id", "key", "calls", "scope", "role", "region", "category", "sector", "name", "words", "ownErrors",
                      "incidents", "errors", "status", "trends", "availability", "errorRate", "stale", "total",
                      "success", "maintenance", "history"}
    BY DEF IngestServiceToModel
  <2> HIDE DEF sv
  <2>3. DOMAIN sv = ServiceFields
    BY <2>2 DEF ServiceFields, AsSent
  <2> QED BY <2>1, <2>3
<1>2. IsReading(sv.availability)
  <2>1. \E sent : sv.availability = OptFromProto(sent)
    BY DEF IngestServiceToModel
  <2> HIDE DEF sv
  <2> QED BY <2>1, ReadingIsReading
<1>3. sv.maintenance \in BOOLEAN /\ sv.history = HistoryFromProto(p.history) /\ sv.status = "" /\ sv.trends = <<>>
  BY DEF IngestServiceToModel
<1> HIDE DEF sv
<1>4. IsHistory(sv.history)
  <2>1. \A i \in DOMAIN sv.history : sv.history[i] = [p.history[i] EXCEPT !.availability = OptFromProto(@)]
    BY <1>3 DEF HistoryFromProto
  <2>2. ASSUME NEW i \in DOMAIN sv.history PROVE IsPoint(sv.history[i])
    <3> DEFINE point == p.history[i]
               read == [point EXCEPT !.availability = OptFromProto(@)]
    <3>1. DOMAIN read = DOMAIN point /\ read = [x \in DOMAIN read |-> read[x]]
      OBVIOUS
    <3>2. "availability" \in DOMAIN read => \E sent : read.availability = OptFromProto(sent)
      OBVIOUS
    <3>3. sv.history[i] = read
      BY <2>1
    <3> HIDE DEF read
    <3> QED BY <3>1, <3>2, <3>3, ReadingIsReading DEF IsPoint
  <2>3. sv.history = [i \in DOMAIN sv.history |-> sv.history[i]]
    BY <1>3 DEF HistoryFromProto
  <2> QED BY <2>2, <2>3 DEF IsHistory
<1> QED BY <1>1, <1>2, <1>3, <1>4 DEF Observed, sv

(* An observation pushed again is the observation, without its verdict. *)
LEMMA ObservedReturns ==
    ASSUME NEW sv, Observed(sv)
    PROVE  IngestServiceToModel(ServiceToIngestProto(sv)) = [sv EXCEPT !.status = "", !.trends = <<>>]
<1> DEFINE p == ServiceToIngestProto(sv)
           back == IngestServiceToModel(p)
           bare == [sv EXCEPT !.status = "", !.trends = <<>>]
<1>1. /\ \A field \in AsSent : p[field] = sv[field]
      /\ p.metrics = <<Figures(sv)>> /\ p.maintenance = (IF sv.maintenance THEN <<TRUE>> ELSE <<>>)
      /\ p.history = HistoryToProto(sv.history)
  BY SentFields
<1>2. DOMAIN sv = ServiceFields
  BY DEF Observed
<1>3. /\ DOMAIN bare = ServiceFields /\ bare = [field \in DOMAIN bare |-> bare[field]]
      /\ bare.status = "" /\ bare.trends = <<>>
      /\ \A field \in ServiceFields \ {"status", "trends"} : bare[field] = sv[field]
  BY <1>2 DEF ServiceFields
<1>4. DOMAIN back = ServiceFields /\ back = [field \in DOMAIN back |-> back[field]]
      /\ back.status = "" /\ back.trends = <<>>
  BY ModelObserved DEF Observed
<1> HIDE DEF p
<1>5. p.metrics # <<>> /\ p.metrics[1] = Figures(sv)
  BY <1>1
<1>6. /\ \A field \in AsSent : back[field] = p[field]
      /\ back.availability = OptFromProto(p.metrics[1].availability)
      /\ \A field \in {"errorRate", "stale", "total", "success"} : back[field] = p.metrics[1][field]
      /\ back.maintenance = (p.maintenance = <<TRUE>>)
      /\ back.history = HistoryFromProto(p.history)
  BY <1>5 DEF IngestServiceToModel, AsSent
<1> HIDE DEF back, bare
<1>7. /\ p.metrics[1].availability = OptToProto(sv.availability)
      /\ \A field \in {"errorRate", "stale", "total", "success"} : p.metrics[1][field] = sv[field]
  BY <1>5 DEF Figures
<1>8. back.availability = sv.availability
  BY <1>6, <1>7, ReadingReturns DEF Observed
<1>9. back.history = sv.history
  BY <1>1, <1>6, HistoryReturns DEF Observed
<1>10. back.maintenance = sv.maintenance
  <2>1. <<TRUE>> # <<>> /\ sv.maintenance \in BOOLEAN
    BY DEF Observed
  <2> QED BY <1>1, <1>6, <2>1
<1>11. \A field \in ServiceFields : back[field] = bare[field]
  <2>1. AsSent \subseteq ServiceFields \ {"status", "trends"}
    BY DEF AsSent, ServiceFields
  <2>2. \A field \in AsSent : back[field] = bare[field]
    BY <1>1, <1>3, <1>6, <2>1
  <2>3. \A field \in {"errorRate", "stale", "total", "success"} : back[field] = bare[field]
    <3>1. \A field \in {"errorRate", "stale", "total", "success"} : field \in ServiceFields \ {"status", "trends"}
      BY DEF ServiceFields
    <3>2. \A field \in {"errorRate", "stale", "total", "success"} : bare[field] = sv[field]
      BY <1>3, <3>1
    <3> QED BY <1>6, <1>7, <3>2
  <2>4. \A field \in {"availability", "maintenance", "history"} : back[field] = bare[field]
    BY <1>3, <1>8, <1>9, <1>10 DEF ServiceFields, AsSent
  <2>5. \A field \in {"status", "trends"} : back[field] = bare[field]
    BY <1>3, <1>4
  <2> QED BY <2>2, <2>3, <2>4, <2>5 DEF ServiceFields
<1>12. back = bare
  BY <1>3, <1>4, <1>11, SameFunction
<1> QED BY <1>12 DEF back, bare, p

-----------------------------------------------------------------------------
(* Verdicts and trends *)

TrendsOf(sv, d) ==
    [field \in {"availability", "errorRate", "volume"} |-> Trend(sv.history, field, DefaultTrendDays(d))]

Restated(sv, verdict, trends) == [sv EXCEPT !.status = verdict, !.trends = trends]

Finalised(sv, d) == Restated(sv, Evaluate(sv, d), TrendsOf(sv, d))

(* A service as it is served: observed, and judged by what was observed. *)
Judged(sv, d) == Observed(sv) /\ sv.status = Evaluate(sv, d) /\ sv.trends = TrendsOf(sv, d)

(* Neither the verdict nor the trends enter into them. *)
LEMMA JudgedAlike ==
    ASSUME NEW d, NEW sv, NEW other,
           \A field \in ServiceFields \ {"status", "trends"} : other[field] = sv[field]
    PROVE  Evaluate(other, d) = Evaluate(sv, d) /\ TrendsOf(other, d) = TrendsOf(sv, d)
<1>1. /\ other.availability = sv.availability /\ other.errorRate = sv.errorRate
      /\ other.stale = sv.stale /\ other.maintenance = sv.maintenance /\ other.history = sv.history
  BY DEF ServiceFields, AsSent
<1>2. ASSUME NEW status, NEW v
      PROVE  Matches(status, other, v) = Matches(status, sv, v)
  <2>1. /\ (~other.availability.valid \/ other.stale > v.staleAbove)
             = (~sv.availability.valid \/ sv.stale > v.staleAbove)
        /\ (BelowTarget(other.availability, v.majorAvailability) \/ other.errorRate > v.majorErrors)
             = (BelowTarget(sv.availability, v.majorAvailability) \/ sv.errorRate > v.majorErrors)
        /\ (BelowTarget(other.availability, v.partialAvailability) \/ other.errorRate > v.partialErrors)
             = (BelowTarget(sv.availability, v.partialAvailability) \/ sv.errorRate > v.partialErrors)
    BY <1>1, Zenon
  <2> QED BY <1>1, <2>1, Zenon DEF Matches
<1>3. {i \in DOMAIN d.evaluationOrder : Matches(d.evaluationOrder[i], other, d.thresholds)}
        = {i \in DOMAIN d.evaluationOrder : Matches(d.evaluationOrder[i], sv, d.thresholds)}
  BY <1>2
<1> QED BY <1>1, <1>3, Zenon DEF Evaluate, TrendsOf

LEMMA RestatedFields ==
    ASSUME NEW sv, DOMAIN sv = ServiceFields, NEW verdict, NEW trends
    PROVE  LET other == Restated(sv, verdict, trends)
           IN  /\ DOMAIN other = ServiceFields /\ other = [field \in DOMAIN other |-> other[field]]
               /\ other.status = verdict /\ other.trends = trends
               /\ \A field \in ServiceFields \ {"status", "trends"} : other[field] = sv[field]
<1>1. "status" \in ServiceFields /\ "trends" \in ServiceFields
  BY DEF ServiceFields
<1> QED BY <1>1 DEF Restated

LEMMA UnjudgedFields ==
    ASSUME NEW sv, DOMAIN sv = ServiceFields
    PROVE  LET bare == Restated(sv, "", <<>>)
           IN  /\ DOMAIN bare = ServiceFields
               /\ \A field \in ServiceFields \ {"status", "trends"} : bare[field] = sv[field]
  BY DEF Restated, ServiceFields

LEMMA FinalisedIsJudged ==
    ASSUME NEW d, NEW sv, Observed(sv)
    PROVE  Judged(Finalised(sv, d), d)
<1> DEFINE other == Finalised(sv, d)
<1>1. /\ DOMAIN other = ServiceFields /\ other = [field \in DOMAIN other |-> other[field]]
      /\ other.status = Evaluate(sv, d) /\ other.trends = TrendsOf(sv, d)
      /\ \A field \in ServiceFields \ {"status", "trends"} : other[field] = sv[field]
  <2>1. DOMAIN sv = ServiceFields
    BY DEF Observed
  <2> QED BY <2>1, RestatedFields DEF Finalised
<1> HIDE DEF other
<1>2. other.availability = sv.availability /\ other.maintenance = sv.maintenance /\ other.history = sv.history
  BY <1>1 DEF ServiceFields
<1>3. Evaluate(other, d) = Evaluate(sv, d) /\ TrendsOf(other, d) = TrendsOf(sv, d)
  BY <1>1, JudgedAlike
<1> QED BY <1>1, <1>2, <1>3 DEF Judged, Observed, other

(* Judging again what was judged changes nothing. *)
LEMMA JudgedAgain ==
    ASSUME NEW d, NEW sv, Judged(sv, d)
    PROVE  Finalised(Restated(sv, "", <<>>), d) = sv
<1> DEFINE bare == Restated(sv, "", <<>>)
           other == Finalised(bare, d)
<1>1. DOMAIN sv = ServiceFields /\ sv = [field \in DOMAIN sv |-> sv[field]]
  BY DEF Judged, Observed
<1>2. DOMAIN bare = ServiceFields /\ \A field \in ServiceFields \ {"status", "trends"} : bare[field] = sv[field]
  BY <1>1, UnjudgedFields
<1> HIDE DEF bare
<1>3. /\ DOMAIN other = ServiceFields /\ other = [field \in DOMAIN other |-> other[field]]
      /\ other.status = Evaluate(bare, d) /\ other.trends = TrendsOf(bare, d)
      /\ \A field \in ServiceFields \ {"status", "trends"} : other[field] = bare[field]
  BY <1>2, RestatedFields DEF Finalised
<1>4. Evaluate(bare, d) = Evaluate(sv, d) /\ TrendsOf(bare, d) = TrendsOf(sv, d)
  BY <1>2, JudgedAlike
<1> HIDE DEF other
<1>5. \A field \in ServiceFields : other[field] = sv[field]
  BY <1>2, <1>3, <1>4 DEF Judged
<1> QED BY <1>1, <1>3, <1>5, SameFunction DEF other, bare

LEMMA VerdictIsStatus ==
    ASSUME NEW c \in Configs, Problems(c) = {}, NEW sv
    PROVE  Evaluate(sv, c.domain) \in Statuses
<1> DEFINE d == c.domain
           holds == {i \in DOMAIN d.evaluationOrder : Matches(d.evaluationOrder[i], sv, d.thresholds)}
<1>1. Range(d.evaluationOrder) = Statuses /\ d.evaluationOrder \in Seq(STRING)
  <2>1. StatusProblems(d) = {}
    BY DEF Problems, DomainProblems
  <2> QED BY <2>1, ReportsAssumption DEF StatusProblems, Unless
<1>2. CASE holds = {}
  BY <1>2 DEF Evaluate, Statuses
<1>3. CASE holds # {}
  <2>1. Min(holds) \in holds
    <3>1. DOMAIN d.evaluationOrder \subseteq Nat
      BY <1>1
    <3> QED BY <3>1, <1>3, MinIsMember
  <2>2. d.evaluationOrder[Min(holds)] \in Statuses
    BY <1>1, <2>1 DEF Range
  <2> QED BY <1>3, <2>2 DEF Evaluate
<1> QED BY <1>2, <1>3

LEMMA StatusReturns == ASSUME NEW s \in Statuses PROVE StatusFromProto(StatusToProto(s)) = s
  BY DEF StatusFromProto, StatusToProto, Statuses

Move(delta, dir, days) == [delta |-> delta, direction |-> dir, days |-> days]

LEMMA TrendMoves ==
    ASSUME NEW history, NEW field, NEW days
    PROVE  \E delta, dir : dir \in Moves /\ Trend(history, field, days) = Move(delta, dir, days)
<1>1. Flat(days) = Move(0, "flat", days)
  BY DEF Flat, Move
<1>2. "flat" \in Moves /\ "up" \in Moves /\ "down" \in Moves
  BY DEF Moves
<1> DEFINE last == Len(history)
           now  == FieldValue(history[last], field)
           past == FieldValue(history[Max({1, last - days})], field)
           delta == now.value - past.value
           dir == CASE WithinBand(delta, now.value, field) -> "flat"
                    [] ~WithinBand(delta, now.value, field) /\ delta > 0 -> "up"
                    [] OTHER -> "down"
<1>3. \/ Trend(history, field, days) = Flat(days)
      \/ Trend(history, field, days) = [delta |-> delta, days |-> days, direction |-> dir]
  BY Zenon DEF Trend
<1>4. dir \in {"flat", "up", "down"}
  <2> HIDE DEF delta, now
  <2> QED OBVIOUS
<1> HIDE DEF delta, dir
<1>5. [delta |-> delta, days |-> days, direction |-> dir] = Move(delta, dir, days)
  BY DEF Move
<1> QED BY <1>1, <1>2, <1>3, <1>4, <1>5

LEMMA TrendsReturn ==
    ASSUME NEW sv, NEW d
    PROVE  TrendsFromProto(TrendsToProto(TrendsOf(sv, d))) = TrendsOf(sv, d)
<1> DEFINE trends == TrendsOf(sv, d)
           sent == TrendsToProto(trends)
           back == TrendsFromProto(sent)
<1>1. trends = [field \in DOMAIN trends |-> trends[field]]
  BY DEF TrendsOf
<1>2. \A field \in DOMAIN trends : \E delta, dir, days : dir \in Moves /\ trends[field] = Move(delta, dir, days)
  BY TrendMoves DEF TrendsOf
<1> HIDE DEF trends
<1>3. DOMAIN sent = DOMAIN trends /\ DOMAIN back = DOMAIN trends /\ back = [field \in DOMAIN back |-> back[field]]
  BY DEF TrendsToProto, TrendsFromProto
<1>4. ASSUME NEW field \in DOMAIN trends PROVE back[field] = trends[field]
  <2>1. /\ sent[field] = [trends[field] EXCEPT !.direction = DirectionToProto(@)]
        /\ back[field] = [sent[field] EXCEPT !.direction = DirectionFromProto(@)]
    BY DEF TrendsToProto, TrendsFromProto
  <2>2. PICK delta, dir, days : dir \in Moves /\ trends[field] = Move(delta, dir, days)
    BY <1>2
  <2> HIDE DEF sent, back
  <2>3. DirectionToProto(dir) = dir /\ DirectionFromProto(dir) = dir
    BY <2>2 DEF DirectionToProto, DirectionFromProto
  <2>4. sent[field] = Move(delta, dir, days)
    BY <2>1, <2>2, <2>3 DEF Move
  <2>5. back[field] = Move(delta, dir, days)
    <3>1. sent[field].direction = dir
      BY <2>4 DEF Move
    <3>2. back[field] = [Move(delta, dir, days) EXCEPT !.direction = dir]
      BY <2>1, <2>3, <2>4, <3>1
    <3> QED BY <3>2 DEF Move
  <2> QED BY <2>2, <2>5
<1>5. back = trends
  BY <1>1, <1>3, <1>4, SameFunction
<1> QED BY <1>5 DEF trends

(* The read API tells a service that is served as it is. *)
LEMMA JudgedReturns ==
    ASSUME NEW c \in Configs, Problems(c) = {}, NEW sv, Judged(sv, c.domain)
    PROVE  ServiceFromProto(ServiceToProto(sv)) = sv
<1> DEFINE p == ServiceToIngestProto(sv)
           q == ServiceToProto(sv)
           bare == Restated(sv, "", <<>>)
           back == ServiceFromProto(q)
<1>1. /\ \A field \in Observations : q[field] = p[field]
      /\ q.status = StatusToProto(sv.status) /\ q.trends = TrendsToProto(sv.trends)
  BY ReadFields
<1>2. IngestServiceToModel(q) = bare
  BY <1>1, IngestAlike, ObservedReturns DEF Judged, Restated
<1>3. back = [bare EXCEPT !.status = StatusFromProto(q.status), !.trends = TrendsFromProto(q.trends)]
  BY <1>2 DEF ServiceFromProto
<1>4. StatusFromProto(q.status) = sv.status
  BY <1>1, VerdictIsStatus, StatusReturns DEF Judged
<1>5. TrendsFromProto(q.trends) = sv.trends
  BY <1>1, TrendsReturn DEF Judged
<1>6. DOMAIN sv = ServiceFields /\ sv = [field \in DOMAIN sv |-> sv[field]]
  BY DEF Judged, Observed
<1> HIDE DEF back, p, q
<1>7. DOMAIN bare = ServiceFields /\ \A field \in ServiceFields \ {"status", "trends"} : bare[field] = sv[field]
  BY <1>6, UnjudgedFields
<1> HIDE DEF bare
<1>8. /\ DOMAIN back = ServiceFields /\ back = [field \in DOMAIN back |-> back[field]]
      /\ back.status = sv.status /\ back.trends = sv.trends
      /\ \A field \in ServiceFields \ {"status", "trends"} : back[field] = bare[field]
  <2>1. back = Restated(bare, sv.status, sv.trends)
    BY <1>3, <1>4, <1>5 DEF Restated
  <2> QED BY <1>7, <2>1, RestatedFields
<1>9. \A field \in ServiceFields : back[field] = sv[field]
  BY <1>7, <1>8
<1> QED BY <1>6, <1>8, <1>9, SameFunction DEF back, q

-----------------------------------------------------------------------------
(* Whatever is served was observed *)

LEMMA HistoryObserved ==
    ASSUME NEW m, NEW record, m.series # <<>> => IsList(AllAt(m.series[1].path, record))
    PROVE  IsHistory(ReadHistory(m, record))
<1>1. CASE m.series = <<>>
  <2>1. ReadHistory(m, record) = <<>>
    BY <1>1 DEF ReadHistory
  <2>2. DOMAIN <<>> = {} /\ <<>> = [i \in DOMAIN <<>> |-> <<>>[i]]
    OBVIOUS
  <2> QED BY <2>1, <2>2 DEF IsHistory
<1>2. CASE m.series # <<>>
  <2> DEFINE series == m.series[1]
             At(path, node, field) == Run(GetAt(path, node), ChainOf(m, field))
             nodes  == AllAt(series.path, record)
             places == {i \in DOMAIN nodes : GetAt(series.date, nodes[i]).day.valid}
             dated  == Kept(nodes, places)
             Point(i) ==
                [day          |-> GetAt(series.date, dated[i]).day.value,
                 availability |-> Reading(At(series.availability, dated[i], "history.availability")),
                 errorRate    |-> Percent(At(series.errorRate, dated[i], "history.errorRate")),
                 volume       |-> Whole(At(series.volume, dated[i], "history.volume"))]
             points == [i \in DOMAIN dated |-> Point(i)]
             compare == [i \in DOMAIN points |-> [j \in DOMAIN points |-> points[i].day - points[j].day]]
             sorted == Arranged(points, compare)
  <2>1. ReadHistory(m, record) = sorted
    BY <1>2 DEF ReadHistory, StableSort, Arranged
  <2>2. ASSUME NEW i PROVE IsPoint(Point(i))
    <3> DEFINE reading == Reading(At(series.availability, dated[i], "history.availability"))
    <3>1. IsReading(reading)
      BY ReadAsReading
    <3>2. Point(i).availability = reading /\ Point(i) = [x \in DOMAIN Point(i) |-> Point(i)[x]]
      OBVIOUS
    <3> HIDE DEF Point, reading
    <3> QED BY <3>1, <3>2 DEF IsPoint
  <2>3. dated \in Seq(Range(nodes))
    <3>1. nodes \in Seq(Range(nodes))
      BY <1>2 DEF IsList
    <3> HIDE DEF nodes, places
    <3> QED BY <3>1, KeptSound
  <2> HIDE DEF dated, nodes, Point, compare
  <2>4. DOMAIN dated = 1 .. Len(dated) /\ Len(dated) \in Nat
    BY <2>3
  <2>5. IsList(points) /\ DOMAIN points = DOMAIN dated /\ \A i \in DOMAIN points : points[i] = Point(i)
    <3>1. DOMAIN points = 1 .. Len(dated) /\ \A i \in DOMAIN points : points[i] = Point(i)
      BY <2>4
    <3>2. points \in [1 .. Len(dated) -> Range(points)]
      BY <2>4, <3>1 DEF Range
    <3> HIDE DEF points
    <3> QED BY <2>4, <3>1, <3>2 DEF IsList
  <2> HIDE DEF points
  <2>6. IsList(sorted) /\ Range(sorted) = Range(points)
    BY <2>5, ArrangedSound
  <2> HIDE DEF sorted
  <2>7. ASSUME NEW i \in DOMAIN sorted PROVE IsPoint(sorted[i])
    <3>1. PICK k \in DOMAIN points : sorted[i] = points[k]
      BY <2>6, ItemInRange DEF Range
    <3> QED BY <2>2, <2>5, <3>1
  <2>8. sorted = [i \in DOMAIN sorted |-> sorted[i]]
    BY <2>6 DEF IsList
  <2> QED BY <2>1, <2>7, <2>8 DEF IsHistory
<1> QED BY <1>1, <1>2

LEMMA ServiceObserved ==
    ASSUME NEW m, NEW record, NEW label, m.series # <<>> => IsList(AllAt(m.series[1].path, record))
    PROVE  Observed(ServiceOf(m, record, label))
<1> DEFINE sv == ServiceOf(m, record, label)
<1>1. DOMAIN sv = ServiceFields /\ sv = [field \in DOMAIN sv |-> sv[field]]
  <2>1. sv = [field \in DOMAIN sv |-> sv[field]]
    BY ZenonT(60) DEF ServiceOf
  <2>2. DOMAIN sv = {"id", "key", "calls", "scope", "role", "region", "category", "sector", "name", "words", "ownErrors",
                      "incidents", "errors", "status", "trends", "availability", "errorRate", "stale", "total",
                      "success", "maintenance", "history"}
    BY DEF ServiceOf
  <2> HIDE DEF sv
  <2>3. DOMAIN sv = ServiceFields
    BY <2>2 DEF ServiceFields, AsSent
  <2> QED BY <2>1, <2>3
<1>2. /\ sv.availability = Reading(Read(m, record, "metrics.availability"))
      /\ sv.maintenance \in BOOLEAN /\ sv.history = ReadHistory(m, record)
  BY DEF ServiceOf
<1> HIDE DEF sv
<1>3. IsReading(sv.availability)
  BY <1>2, ReadAsReading
<1> QED BY <1>1, <1>2, <1>3, HistoryObserved DEF Observed, sv

AllJudged(services) == \A sv \in Range(services) : Judged(sv, Domain)

LEMMA FinalisedAllJudged ==
    ASSUME NEW services, \A i \in DOMAIN services : Observed(services[i])
    PROVE  AllJudged(Finalise(services, Domain))
<1>1. DOMAIN Finalise(services, Domain) = DOMAIN services
      /\ \A i \in DOMAIN services : Finalise(services, Domain)[i] = Finalised(services[i], Domain)
  BY DEF Finalise, Finalised, Restated, TrendsOf
<1>2. \A i \in DOMAIN services : Judged(Finalised(services[i], Domain), Domain)
  BY FinalisedIsJudged
<1> HIDE DEF Finalised
<1> QED BY <1>1, <1>2 DEF AllJudged, Range

LEMMA PolledJudged ==
    ASSUME RuleAbiding, NEW doc \in Documents
    PROVE  AllJudged(Arrived(Services(config.mapping, doc, Label), <<doc>>).services)
<1> DEFINE m == config.mapping
           records == Records(m, doc)
           named == Kept(records, {i \in DOMAIN records : Text(Read(m, records[i], "id")) # ""})
           services == Services(m, doc, Label)
<1>1. records \in Seq(Range(records))
  BY ReportsAssumption DEF IsList, RuleAbiding
<1>2. named \in Seq(Range(records))
  <2> HIDE DEF records
  <2> QED BY <1>1, KeptSound
<1>3. services = [i \in DOMAIN named |-> ServiceOf(m, named[i], Label)]
  BY DEF Services
<1> HIDE DEF named, services
<1>4. ASSUME NEW i \in DOMAIN services PROVE Observed(services[i])
  <2>1. named[i] \in Range(records) /\ services[i] = ServiceOf(m, named[i], Label)
    BY <1>2, <1>3
  <2>2. m.series # <<>> => IsList(AllAt(m.series[1].path, named[i]))
    BY <2>1, ReportsAssumption DEF RuleAbiding
  <2> QED BY <2>1, <2>2, ServiceObserved
<1>5. AllJudged(Finalise(services, Domain))
  BY <1>4, FinalisedAllJudged
<1> QED BY <1>5 DEF Arrived, services

LEMMA PushedJudged ==
    ASSUME RuleAbiding, NEW request \in Batches, NEW existing, IsList(existing), AllJudged(existing)
    PROVE  AllJudged(ApplyIngest(Domain, request, existing))
<1> DEFINE accepted == Accepted(Domain, request.services)
           incoming == Finalise(accepted, Domain)
           S == Range(existing) \cup Range(incoming)
<1>1. /\ IsList(accepted)
      /\ \A i \in DOMAIN accepted : \E p : accepted[i] = IngestServiceToModel(p)
  BY AcceptedSound, ReportsAssumption DEF RuleAbiding
<1> HIDE DEF accepted
<1>2. \A i \in DOMAIN accepted : Observed(accepted[i])
  BY <1>1, ModelObserved
<1>3. AllJudged(incoming)
  BY <1>2, FinalisedAllJudged
<1>4. IsList(incoming)
  <2>1. DOMAIN incoming = 1 .. Len(accepted) /\ Len(accepted) \in Nat
        /\ incoming = [i \in 1 .. Len(accepted) |-> incoming[i]]
    BY <1>1, ListDomain DEF Finalise
  <2> HIDE DEF incoming
  <2>2. incoming \in [1 .. Len(accepted) -> Range(incoming)]
    BY <2>1 DEF Range
  <2> QED BY <2>1, <2>2 DEF IsList
<1> HIDE DEF incoming
<1>5. existing \in Seq(S) /\ incoming \in Seq(S)
  BY <1>4 DEF IsList
<1>6. Merge(request.mode, existing, incoming) \in Seq(S)
  <2> HIDE DEF S
  <2> QED BY <1>5, MergeSound
<1>7. \A sv \in S : Judged(sv, Domain)
  BY <1>3 DEF AllJudged
<1>8. Range(Merge(request.mode, existing, incoming)) \subseteq S
  BY <1>6 DEF Range
<1> QED BY <1>7, <1>8 DEF AllJudged, ApplyIngest, incoming, accepted

AsJudged == \A i \in DOMAIN served : AllJudged(served[i].services)

LEMMA InitJudged == Init => AsJudged
<1> SUFFICES ASSUME Init PROVE AsJudged
  OBVIOUS
<1>1. PICK doc \in Documents : served = <<Arrived(Services(config.mapping, doc, Label), <<doc>>)>>
  BY DEF Init
<1>2. DOMAIN served = {1} /\ served[1] = Arrived(Services(config.mapping, doc, Label), <<doc>>)
  BY <1>1
<1>3. AllJudged(served[1].services)
  BY <1>2, InitAbides, PolledJudged
<1> QED BY <1>2, <1>3 DEF AsJudged

LEMMA AppendJudged ==
    ASSUME RuleAbiding, AsJudged, NEW snapshot, AllJudged(snapshot.services),
           served' = Append(served, snapshot), UNCHANGED config
    PROVE  AsJudged'
<1>1. served \in Seq(Range(served))
  BY DEF RuleAbiding
<1>2. /\ DOMAIN served' = DOMAIN served \cup {Len(served) + 1}
      /\ served'[Len(served) + 1] = snapshot
      /\ \A i \in DOMAIN served : served'[i] = served[i]
  BY <1>1
<1>3. \A services : AllJudged(services) => AllJudged(services)'
  BY DEF AllJudged, Domain
<1> QED BY <1>2, <1>3 DEF AsJudged

LEMMA StepJudged == RuleAbiding /\ AsJudged /\ [Next]_vars => AsJudged'
<1> SUFFICES ASSUME RuleAbiding, AsJudged, [Next]_vars PROVE AsJudged'
  OBVIOUS
<1>1. CASE Poll
  <2>1. PICK doc \in Documents :
           served' = Append(served, Arrived(Services(config.mapping, doc, Label), <<doc>>))
    BY <1>1 DEF Poll
  <2> DEFINE snapshot == Arrived(Services(config.mapping, doc, Label), <<doc>>)
  <2>2. AllJudged(snapshot.services)
    BY PolledJudged
  <2>3. UNCHANGED config
    BY <1>1 DEF Poll
  <2> HIDE DEF snapshot
  <2> QED BY <2>1, <2>2, <2>3, AppendJudged DEF snapshot
<1>2. CASE Push
  <2>1. PICK request \in Batches :
           served' = Append(served, [services |-> ApplyIngest(Domain, request, served[Latest].services),
                                     doc |-> <<>>])
    BY <1>2 DEF Push
  <2> DEFINE merged == ApplyIngest(Domain, request, served[Latest].services)
             snapshot == [services |-> merged, doc |-> <<>>]
  <2>2. IsList(served[Latest].services) /\ AllJudged(served[Latest].services)
    BY LatestIsServed DEF RuleAbiding, AsJudged
  <2>3. AllJudged(merged)
    BY <2>2, PushedJudged
  <2>4. UNCHANGED config
    BY <1>2 DEF Push
  <2> HIDE DEF merged
  <2>5. AllJudged(snapshot.services)
    BY <2>3
  <2> HIDE DEF snapshot
  <2> QED BY <2>1, <2>4, <2>5, AppendJudged DEF snapshot, merged
<1>3. CASE UNCHANGED <<config, served>>
  BY <1>3 DEF AsJudged, AllJudged, Domain
<1> QED BY <1>1, <1>2, <1>3 DEF Next, vars, Follow, Ask, Answer, ToggleTheme, CloseDrawer, Reload

LEMMA ListReturns ==
    ASSUME RuleAbiding, NEW services, AllJudged(services)
    PROVE  ReadsBack(services)
<1>1. ASSUME NEW i \in DOMAIN services PROVE ServiceFromProto(SnapshotToProto(services)[i]) = services[i]
  <2>1. SnapshotToProto(services)[i] = ServiceToProto(services[i])
    BY DEF SnapshotToProto
  <2>2. Judged(services[i], Domain)
    BY ItemInRange DEF AllJudged
  <2> QED BY <2>1, <2>2, JudgedReturns DEF RuleAbiding, Domain
<1> QED BY <1>1 DEF ReadsBack

(* What is served is what the read API tells of it: read back, every service *)
(* of every snapshot is the one it was, whether it was polled or pushed and  *)
(* whatever it did not report (ServiceToProto, ServiceFromProto).           *)
THEOREM ApiTellsWhatIsServed == Spec => [](\A i \in DOMAIN served : ReadsBack(served[i].services))
<1>1. RuleAbiding /\ AsJudged => \A i \in DOMAIN served : ReadsBack(served[i].services)
  BY ListReturns DEF AsJudged
<1> QED BY InitAbides, StepAbides, InitJudged, StepJudged, <1>1, PTL DEF Spec

AllValid(services) == \A sv \in Range(services) : Valid(Domain, sv)

LEMMA ListPushedBack ==
    ASSUME RuleAbiding, NEW services, IsList(services), AllJudged(services), AllValid(services)
    PROVE  PushesBack(services)
<1> DEFINE sent == SentBack(services)
           bare == [i \in DOMAIN sent |-> IngestServiceToModel(sent[i])]
           valid == {i \in DOMAIN sent : Valid(Domain, bare[i])}
<1>1. DOMAIN services = 1 .. Len(services) /\ Len(services) \in Nat
  BY ListDomain
<1>2. DOMAIN sent = DOMAIN services /\ DOMAIN bare = DOMAIN services
      /\ \A i \in DOMAIN services : bare[i] = IngestServiceToModel(ServiceToIngestProto(services[i]))
  BY DEF SentBack
<1>3. \A i \in DOMAIN services : Judged(services[i], Domain) /\ Valid(Domain, services[i])
  BY ItemInRange DEF AllJudged, AllValid
<1>4. \A i \in DOMAIN services : bare[i] = Restated(services[i], "", <<>>)
  BY <1>2, <1>3, ObservedReturns DEF Judged, Restated
<1>5. Accepted(Domain, sent) = Kept(bare, valid)
  BY DEF Accepted
<1> HIDE DEF sent
<1>6. bare \in Seq(Range(bare))
  BY <1>1, <1>2 DEF Range
<1>7. ASSUME NEW i \in DOMAIN services PROVE Valid(Domain, bare[i])
  <2>1. DOMAIN services[i] = ServiceFields
    BY <1>3 DEF Judged, Observed
  <2> HIDE DEF bare
  <2>2. \A field \in ServiceFields \ {"status", "trends"} : bare[i][field] = services[i][field]
    <3>1. \A field \in ServiceFields \ {"status", "trends"} :
             Restated(services[i], "", <<>>)[field] = services[i][field]
      BY <2>1, UnjudgedFields
    <3> QED BY <1>4, <3>1
  <2>3. /\ bare[i].id = services[i].id /\ bare[i].category = services[i].category
        /\ bare[i].region = services[i].region /\ bare[i].scope = services[i].scope
        /\ bare[i].availability = services[i].availability
        /\ bare[i].success = services[i].success /\ bare[i].total = services[i].total
    BY <2>2 DEF ServiceFields, AsSent
  <2>4. Valid(Domain, services[i])
    BY <1>3
  <2> QED BY <2>3, <2>4, Zenon DEF Valid
<1>8. DOMAIN bare \subseteq valid
  BY <1>2, <1>7
<1> HIDE DEF bare, valid
<1>9. Accepted(Domain, sent) = bare
  BY <1>5, <1>6, <1>8, KeptSound
<1>10. Finalise(bare, Domain) = [i \in DOMAIN services |-> Finalised(bare[i], Domain)]
  BY <1>2 DEF Finalise, Finalised, Restated, TrendsOf
<1>11. \A i \in DOMAIN services : Finalised(bare[i], Domain) = services[i]
  BY <1>3, <1>4, JudgedAgain
<1>12. services = [i \in DOMAIN services |-> services[i]]
  BY DEF IsList
<1>13. Finalise(bare, Domain) = services
  BY <1>10, <1>11, <1>12
<1> QED BY <1>9, <1>13 DEF PushesBack, ApplyIngest, Merge, sent

(* What the read API tells can be restored: where every service is one that  *)
(* a push accepts, pushing them all back replaces them with themselves, with *)
(* the verdicts and trends they had, which are not sent                     *)
(* (ServiceToIngestProto, validateServices, Finalise, merge).               *)
THEOREM ServedCanBePushedBack ==
    Spec => [](\A i \in DOMAIN served :
                  AllValid(served[i].services) => PushesBack(served[i].services))
<1>1. RuleAbiding /\ AsJudged =>
         \A i \in DOMAIN served : AllValid(served[i].services) => PushesBack(served[i].services)
  BY ListPushedBack DEF RuleAbiding, AsJudged
<1> QED BY InitAbides, StepAbides, InitJudged, StepJudged, <1>1, PTL DEF Spec
=============================================================================
