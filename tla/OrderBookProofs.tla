-------------------------- MODULE OrderBookProofs --------------------------
(***************************************************************************)
(* An order is owed exactly what its lines cost, and paging shows an owner *)
(* each of its orders whole and once, for any carts, prices and largest    *)
(* amount, any number of orders and any page size.                         *)
(*                                                                         *)
(* Totals and pages are made by recursion and by choice, so the facts      *)
(* about them are inductions over data; they rest on the library's theorem *)
(* that strict inclusion of finite sets is well-founded.                   *)
(***************************************************************************)
EXTENDS OrderBook, FiniteSetTheorems, SequenceTheorems, TLAPS

\* A set of natural numbers that is not empty has a least one.
LEMMA LeastOf ==
  ASSUME NEW T \in SUBSET Nat, T # {}
  PROVE  \E n \in T : \A m \in T : n <= m
<1> DEFINE F == {0 .. n : n \in T}
<1>1. F \subseteq FiniteSubsetsOf(Nat)
  <2>1. ASSUME NEW n \in T PROVE 0 .. n \in FiniteSubsetsOf(Nat)
    <3>1. n \in Nat /\ IsFiniteSet(0 .. n)
      BY FS_Interval
    <3> QED BY <3>1 DEF FiniteSubsetsOf
  <2> QED BY <2>1
<1>2. F # {}
  OBVIOUS
<1>3. IsWellFoundedOn(StrictSubsetOrdering(Nat), FiniteSubsetsOf(Nat))
  BY FS_StrictSubsetOrderingWellFounded
<1>4. PICK U \in F : \A V \in F : ~(<<V, U>> \in StrictSubsetOrdering(Nat))
  <2> HIDE DEF F
  <2> QED BY <1>1, <1>2, <1>3, WFMin
<1>5. PICK n \in T : U = 0 .. n
  BY <1>4
<1>6. ASSUME NEW m \in T, m < n PROVE FALSE
  <2>1. 0 .. m \in F /\ 0 .. m \subseteq 0 .. n /\ n \in 0 .. n /\ n \notin 0 .. m
    BY <1>6
  <2> QED BY <1>1, <1>4, <1>5, <2>1 DEF StrictSubsetOrdering, FiniteSubsetsOf
<1> QED BY <1>6

\* Induction up to a bound, over the set B of the numbers a fact holds of.
LEMMA Upwards ==
  ASSUME NEW N \in Nat, NEW B \in SUBSET Nat, 0 \in B, \A n \in 0 .. N - 1 : n \in B => n + 1 \in B
  PROVE  \A n \in 0 .. N : n \in B
<1> DEFINE T == {n \in 0 .. N : n \notin B}
<1>1. SUFFICES ASSUME T # {} PROVE FALSE
  OBVIOUS
<1>2. PICK n \in T : \A m \in T : n <= m
  <2>1. T \in SUBSET Nat
    OBVIOUS
  <2> HIDE DEF T
  <2> QED BY <1>1, <2>1, LeastOf
<1>3. n \in 1 .. N
  BY <1>2
<1>4. n - 1 \in B
  BY <1>2, <1>3
<1> QED BY <1>2, <1>3, <1>4

\* f has the value v at 0, and at n what G makes of n and the value before it.
Recurs(f, N, v, G) == f[0] = v /\ \A n \in 1 .. N : f[n] = G[<<f[n - 1], n>>]

\* What is defined by recursion on 0 .. N is defined.
LEMMA RecursionDefines ==
  ASSUME NEW N \in Nat, NEW V, NEW v \in V, NEW G \in [V \X (1 .. N) -> V]
  PROVE  \E f \in [0 .. N -> V] : Recurs(f, N, v, G)
<1> USE DEF Recurs
<1> DEFINE Upto(n) == \E f \in [0 .. n -> V] : f[0] = v /\ \A m \in 1 .. n : f[m] = G[<<f[m - 1], m>>]
           B == {n \in Nat : Upto(n)}
<1>1. Upto(0)
  <2> DEFINE g == [n \in 0 .. 0 |-> v]
  <2>1. g \in [0 .. 0 -> V] /\ g[0] = v /\ \A m \in 1 .. 0 : g[m] = G[<<g[m - 1], m>>]
    OBVIOUS
  <2> HIDE DEF g
  <2> QED BY <2>1
<1>2. ASSUME NEW n \in 0 .. N - 1, Upto(n) PROVE Upto(n + 1)
  <2>1. PICK f \in [0 .. n -> V] : f[0] = v /\ \A m \in 1 .. n : f[m] = G[<<f[m - 1], m>>]
    BY <1>2
  <2>2. n \in 0 .. n /\ n + 1 \in 1 .. N /\ f[n] \in V /\ <<f[n], n + 1>> \in V \X (1 .. N)
    OBVIOUS
  <2> DEFINE g == [m \in 0 .. n + 1 |-> IF m = n + 1 THEN G[<<f[n], n + 1>>] ELSE f[m]]
  <2>3. g \in [0 .. n + 1 -> V]
    BY <2>2
  <2>4. g[0] = v
    BY <2>1
  <2>5. ASSUME NEW m \in 1 .. n + 1 PROVE g[m] = G[<<g[m - 1], m>>]
    <3>1. CASE m = n + 1
      <4>1. m - 1 = n /\ n # n + 1 /\ n \in 0 .. n + 1 /\ n + 1 \in 0 .. n + 1
        BY <3>1
      <4>2. g[m] = G[<<f[n], m>>] /\ g[m - 1] = f[n]
        BY <3>1, <4>1
      <4> HIDE DEF g
      <4> QED BY <4>2
    <3>2. CASE m # n + 1
      <4>1. m \in 1 .. n /\ m - 1 \in 0 .. n /\ m - 1 # n + 1 /\ m \in 0 .. n + 1
        BY <3>2
      <4>2. g[m] = f[m] /\ g[m - 1] = f[m - 1]
        BY <4>1
      <4> QED BY <2>1, <4>1, <4>2
    <3> QED BY <3>1, <3>2
  <2> HIDE DEF g
  <2> QED BY <2>3, <2>4, <2>5
<1>3. N \in B
  <2>1. B \in SUBSET Nat /\ 0 \in B /\ \A n \in 0 .. N - 1 : n \in B => n + 1 \in B
    <3> HIDE DEF Upto
    <3> QED BY <1>1, <1>2
  <2> HIDE DEF B
  <2>2. N \in 0 .. N
    OBVIOUS
  <2> QED BY <2>1, <2>2, Upwards
<1> QED BY <1>3
-----------------------------------------------------------------------------
(* Totals.                                                                 *)

\* Lines as a checkout makes them: a price that is money, a quantity in range.
ArePriced(lines) ==
  /\ Len(lines) \in Nat
  /\ \A k \in 1..Len(lines) : lines[k].amount \in 0..MaxInt64 /\ lines[k].quantity \in Nat \ {0}

\* int64 arithmetic is exact on what fits.
LEMMA Int64Exact ==
  ASSUME NEW n \in 0..MaxInt64
  PROVE  Int64(n) = n
<1>1. MaxInt64 \in Nat
  BY OrderBookAssumption DEF OrderBookAssumption
<1>2. \A w, m \in Nat : m <= w => (m + w + 1) % (2 * (w + 1)) = m + w + 1
  OBVIOUS
<1> QED BY <1>1, <1>2 DEF Int64

\* A subtotal that is not refused is the product: the division bounds it.
LEMMA SubtotalExact ==
  ASSUME NEW line, line.amount \in 0..MaxInt64, line.quantity \in Nat \ {0}
  PROVE  \/ Subtotal(line) = ErrTotalOutOfRange
         \/ /\ Subtotal(line) = line.amount * line.quantity
            /\ line.amount * line.quantity \in 0..MaxInt64
<1>1. MaxInt64 \in Nat
  BY OrderBookAssumption DEF OrderBookAssumption
<1>2. \A w, a \in Nat, q \in Nat \ {0} : a <= w \div q => a * q \in 0..w
  <2> SUFFICES ASSUME NEW w \in Nat, NEW a \in Nat, NEW q \in Nat \ {0}, a <= w \div q
               PROVE  a * q \in 0..w
    OBVIOUS
  <2>1. w \div q \in Nat /\ (w \div q) * q <= w
    OBVIOUS
  <2>2. \A d \in Nat : a <= d => a * q <= d * q
    OBVIOUS
  <2>3. a * q \in Nat
    OBVIOUS
  <2> QED BY <2>1, <2>2, <2>3
<1> DEFINE a == line.amount  q == line.quantity
<1>3. a \in Nat /\ q \in Nat \ {0} /\ MaxInt64 \div q \in Nat
  BY <1>1
<1>4. CASE a > MaxInt64 \div q
  BY <1>4 DEF Subtotal
<1>5. CASE ~(a > MaxInt64 \div q)
  <2>1. a <= MaxInt64 \div q
    BY <1>3, <1>5
  <2>2. a * q \in 0..MaxInt64
    BY <1>1, <1>2, <1>3, <2>1
  <2>3. Int64(a * q) = a * q
    BY <2>2, Int64Exact
  <2> QED BY <1>5, <2>2, <2>3 DEF Subtotal
<1> QED BY <1>4, <1>5

\* What is owed, one line after the other.
LEMMA OwedDefined ==
  ASSUME NEW lines, ArePriced(lines)
  PROVE  \E f \in [0 .. Len(lines) -> Nat] :
           /\ f[0] = 0
           /\ \A n \in 1 .. Len(lines) : f[n] = f[n - 1] + lines[n].amount * lines[n].quantity
           /\ Owed(lines) = f[Len(lines)]
<1> DEFINE N == Len(lines)
           Cost(n) == lines[n].amount * lines[n].quantity
           Eq(f) == f = [n \in 0 .. N |-> IF n = 0 THEN 0 ELSE f[n - 1] + Cost(n)]
           G == [p \in Nat \X (1 .. N) |-> p[1] + Cost(p[2])]
           g == CHOOSE f : Eq(f)
<1>1. N \in Nat /\ \A n \in 1 .. N : Cost(n) \in Nat
  <2>1. \A a, q \in Nat : a * q \in Nat
    OBVIOUS
  <2>2. N \in Nat /\ \A n \in 1 .. N : lines[n].amount \in Nat /\ lines[n].quantity \in Nat
    BY OrderBookAssumption DEF ArePriced, OrderBookAssumption
  <2> QED BY <2>1, <2>2
<1>2. Owed(lines) = g[N]
  BY DEF Owed
<1> HIDE DEF Cost, N
<1>3. G \in [Nat \X (1 .. N) -> Nat]
  BY <1>1
<1>4. PICK f \in [0 .. N -> Nat] : Recurs(f, N, 0, G)
  <2>1. N \in Nat /\ 0 \in Nat
    BY <1>1
  <2> HIDE DEF G
  <2> QED BY ONLY <1>3, <2>1, RecursionDefines
<1> USE DEF Recurs
<1>5. \A n \in 1 .. N : f[n] = f[n - 1] + Cost(n)
  <2> SUFFICES ASSUME NEW n \in 1 .. N PROVE f[n] = f[n - 1] + Cost(n)
    OBVIOUS
  <2>1. n - 1 \in 0 .. N /\ f[n - 1] \in Nat
    BY <1>1
  <2>2. <<f[n - 1], n>> \in Nat \X (1 .. N)
    BY <2>1
  <2> QED BY <1>4, <2>2
<1>6. Eq(f)
  <2> DEFINE e == [n \in 0 .. N |-> IF n = 0 THEN 0 ELSE f[n - 1] + Cost(n)]
  <2>1. ASSUME NEW n \in 0 .. N PROVE f[n] = e[n]
    <3>1. CASE n = 0
      BY <1>4, <3>1
    <3>2. CASE n # 0
      BY <1>1, <1>5, <3>2
    <3> QED BY <3>1, <3>2
  <2> QED BY <2>1
<1>7. Eq(g)
  <2> HIDE DEF Eq
  <2> QED BY <1>6
<1>8. g[0] = 0 /\ \A n \in 1 .. N : g[n] = g[n - 1] + Cost(n)
  <2> HIDE DEF g
  <2> QED BY <1>1, <1>7
<1>9. \A n \in 0 .. N : g[n] \in Nat
  <2> HIDE DEF g
  <2> DEFINE B == {n \in Nat : g[n] \in Nat}
  <2>1. \A n \in 0 .. N - 1 : n \in B => n + 1 \in B
    BY <1>1, <1>8
  <2>2. \A n \in 0 .. N : n \in B
    <3>1. B \in SUBSET Nat /\ 0 \in B
      BY <1>8
    <3> HIDE DEF B
    <3> QED BY <1>1, <2>1, <3>1, Upwards
  <2> QED BY <2>2
<1>10. g \in [0 .. N -> Nat]
  <2> HIDE DEF g
  <2> QED BY <1>7, <1>9
<1> HIDE DEF g, Eq
<1> QED BY <1>2, <1>8, <1>10 DEF N, Cost

\* The total as it is computed: refused from the first line that does not fit on.
LEMMA SumDefined ==
  ASSUME NEW lines, ArePriced(lines)
  PROVE  \E f \in [0 .. Len(lines) -> (0..MaxInt64) \cup {ErrTotalOutOfRange}] :
           /\ f[0] = 0
           /\ \A n \in 1 .. Len(lines) :
                f[n] = IF \/ ErrTotalOutOfRange \in {f[n - 1], Subtotal(lines[n])}
                          \/ f[n - 1] > MaxInt64 - Subtotal(lines[n])
                       THEN ErrTotalOutOfRange
                       ELSE Int64(f[n - 1] + Subtotal(lines[n]))
           /\ sum(lines) = f[Len(lines)]
<1> DEFINE N == Len(lines)
           V == (0..MaxInt64) \cup {ErrTotalOutOfRange}
           S(n) == Subtotal(lines[n])
           Plus(v, s) == IF ErrTotalOutOfRange \in {v, s} \/ v > MaxInt64 - s
                         THEN ErrTotalOutOfRange ELSE Int64(v + s)
           Eq(f) == f = [n \in 0 .. N |-> IF n = 0 THEN 0 ELSE Plus(f[n - 1], S(n))]
           G == [p \in V \X (1 .. N) |-> Plus(p[1], S(p[2]))]
           g == CHOOSE f : Eq(f)
<1>1. N \in Nat /\ MaxInt64 \in Nat /\ 0 \in V /\ \A n \in 1 .. N : S(n) \in V
  <2>1. N \in Nat /\ MaxInt64 \in Nat
    BY OrderBookAssumption DEF ArePriced, OrderBookAssumption
  <2>2. ASSUME NEW n \in 1 .. N PROVE S(n) \in V
    <3>1. lines[n].amount \in 0..MaxInt64 /\ lines[n].quantity \in Nat \ {0}
      BY DEF ArePriced
    <3> QED BY <3>1, SubtotalExact
  <2> QED BY <2>1, <2>2
<1>2. sum(lines) = g[N]
  BY DEF sum
<1>3. \A v, s \in V : Plus(v, s) \in V
  <2> SUFFICES ASSUME NEW v \in V, NEW s \in V PROVE Plus(v, s) \in V
    OBVIOUS
  <2>1. CASE ErrTotalOutOfRange \in {v, s} \/ v > MaxInt64 - s
    BY <2>1
  <2>2. CASE ~(ErrTotalOutOfRange \in {v, s} \/ v > MaxInt64 - s)
    <3>1. v \in 0..MaxInt64 /\ s \in 0..MaxInt64 /\ v <= MaxInt64 - s
      BY <1>1, <2>2
    <3>2. v + s \in 0..MaxInt64
      BY <1>1, <3>1
    <3> QED BY <2>2, <3>2, Int64Exact
  <2> QED BY <2>1, <2>2
<1> HIDE DEF S, N, V, Plus
<1>4. G \in [V \X (1 .. N) -> V]
  BY <1>1, <1>3
<1>5. PICK f \in [0 .. N -> V] : Recurs(f, N, 0, G)
  <2>1. N \in Nat /\ 0 \in V
    BY <1>1
  <2> HIDE DEF G
  <2> QED BY ONLY <1>4, <2>1, RecursionDefines
<1> USE DEF Recurs
<1>6. \A n \in 1 .. N : f[n] = Plus(f[n - 1], S(n))
  <2> SUFFICES ASSUME NEW n \in 1 .. N PROVE f[n] = Plus(f[n - 1], S(n))
    OBVIOUS
  <2>1. n - 1 \in 0 .. N /\ f[n - 1] \in V
    BY <1>1
  <2>2. <<f[n - 1], n>> \in V \X (1 .. N)
    BY <2>1
  <2> QED BY <1>5, <2>2
<1>7. Eq(f)
  <2> DEFINE e == [n \in 0 .. N |-> IF n = 0 THEN 0 ELSE Plus(f[n - 1], S(n))]
  <2>1. ASSUME NEW n \in 0 .. N PROVE f[n] = e[n]
    <3>1. CASE n = 0
      BY <1>5, <3>1
    <3>2. CASE n # 0
      BY <1>1, <1>6, <3>2
    <3> QED BY <3>1, <3>2
  <2> QED BY <2>1
<1>8. Eq(g)
  <2> HIDE DEF Eq
  <2> QED BY <1>7
<1>9. g[0] = 0 /\ \A n \in 1 .. N : g[n] = Plus(g[n - 1], S(n))
  <2> HIDE DEF g
  <2> QED BY <1>1, <1>8
<1>10. \A n \in 0 .. N : g[n] \in V
  <2> HIDE DEF g
  <2> DEFINE B == {n \in Nat : g[n] \in V}
  <2>1. \A n \in 0 .. N - 1 : n \in B => n + 1 \in B
    <3> SUFFICES ASSUME NEW n \in 0 .. N - 1, g[n] \in V PROVE g[n + 1] \in V
      OBVIOUS
    <3>1. n + 1 \in 1 .. N /\ (n + 1) - 1 = n
      BY <1>1
    <3>2. g[n + 1] = Plus(g[n], S(n + 1))
      BY <1>9, <3>1
    <3> QED BY <1>1, <1>3, <3>1, <3>2
  <2>2. \A n \in 0 .. N : n \in B
    <3>1. B \in SUBSET Nat /\ 0 \in B
      BY <1>1, <1>9
    <3> HIDE DEF B
    <3> QED BY <1>1, <2>1, <3>1, Upwards
  <2> QED BY <2>2
<1>11. g \in [0 .. N -> V]
  <2> HIDE DEF g
  <2> QED BY <1>8, <1>10
<1> HIDE DEF g, Eq
<1> QED BY <1>2, <1>9, <1>11 DEF N, S, V, Plus

\* sum never wraps around: it is what plain arithmetic says, or refused.
LEMMA SumExact ==
  ASSUME NEW lines, ArePriced(lines), sum(lines) # ErrTotalOutOfRange
  PROVE  sum(lines) = Owed(lines) /\ sum(lines) \in 0..MaxInt64
<1> DEFINE N == Len(lines)
<1>1. N \in Nat /\ MaxInt64 \in Nat
  BY OrderBookAssumption DEF ArePriced, OrderBookAssumption
<1>2. PICK o \in [0 .. N -> Nat] :
        /\ o[0] = 0
        /\ \A n \in 1 .. N : o[n] = o[n - 1] + lines[n].amount * lines[n].quantity
        /\ Owed(lines) = o[N]
  BY OwedDefined
<1>3. PICK t \in [0 .. N -> (0..MaxInt64) \cup {ErrTotalOutOfRange}] :
        /\ t[0] = 0
        /\ \A n \in 1 .. N :
             t[n] = IF \/ ErrTotalOutOfRange \in {t[n - 1], Subtotal(lines[n])}
                       \/ t[n - 1] > MaxInt64 - Subtotal(lines[n])
                    THEN ErrTotalOutOfRange
                    ELSE Int64(t[n - 1] + Subtotal(lines[n]))
        /\ sum(lines) = t[N]
  BY SumDefined
<1> DEFINE B == {n \in Nat : t[n] = ErrTotalOutOfRange \/ (t[n] = o[n] /\ t[n] \in 0..MaxInt64)}
<1>4. ASSUME NEW n \in 0 .. N - 1, n \in B PROVE n + 1 \in B
  <2>1. n + 1 \in 1 .. N /\ (n + 1) - 1 = n /\ n \in 0 .. N
    BY <1>1
  <2> DEFINE s == Subtotal(lines[n + 1])  c == lines[n + 1].amount * lines[n + 1].quantity
  <2>2. o[n + 1] = o[n] + c
    BY <1>2, <2>1
  <2>3. t[n + 1] = IF ErrTotalOutOfRange \in {t[n], s} \/ t[n] > MaxInt64 - s
                   THEN ErrTotalOutOfRange ELSE Int64(t[n] + s)
    BY <1>3, <2>1
  <2>4. s = ErrTotalOutOfRange \/ (s = c /\ c \in 0..MaxInt64)
    <3>1. lines[n + 1].amount \in 0..MaxInt64 /\ lines[n + 1].quantity \in Nat \ {0}
      BY <2>1 DEF ArePriced
    <3> QED BY <3>1, SubtotalExact
  <2> HIDE DEF s, c
  <2>5. CASE ErrTotalOutOfRange \in {t[n], s} \/ t[n] > MaxInt64 - s
    BY <2>3, <2>5
  <2>6. CASE ~(ErrTotalOutOfRange \in {t[n], s} \/ t[n] > MaxInt64 - s)
    <3>1. s = c /\ t[n] = o[n] /\ t[n] \in 0..MaxInt64 /\ c \in 0..MaxInt64 /\ t[n] <= MaxInt64 - c
      BY <1>1, <1>4, <2>4, <2>6
    <3>2. t[n] + s \in 0..MaxInt64
      BY <1>1, <3>1
    <3>3. t[n + 1] = t[n] + s
      BY <2>3, <2>6, <3>2, Int64Exact
    <3> QED BY <2>1, <2>2, <3>1, <3>2, <3>3
  <2> QED BY <2>5, <2>6
<1>5. \A n \in 0 .. N : n \in B
  <2>1. B \in SUBSET Nat /\ 0 \in B
    BY <1>1, <1>2, <1>3
  <2> HIDE DEF B, N
  <2> QED BY <1>1, <1>4, <2>1, Upwards
<1>6. N \in 0 .. N
  BY <1>1
<1> QED BY <1>2, <1>3, <1>5, <1>6
-----------------------------------------------------------------------------
(* Pages.                                                                  *)

\* A set of orders' rows: no two of one order.
AreRows(rows) == rows \subseteq OrderRow /\ \A r, s \in rows : r.id = s.id => r = s

\* Rows are ordered by time and id as numbers are.
LEMMA RowNumbers ==
  ASSUME NEW r \in OrderRow
  PROVE  r.created \in Nat /\ r.id \in Nat
<1>1. MaxClock \in Nat /\ Ids \subseteq Nat
  BY OrderBookAssumption DEF OrderBookAssumption
<1>2. r.created \in 0..MaxClock /\ r.id \in Ids
  BY DEF OrderRow
<1>3. \A m \in Nat : 0..m \subseteq Nat
  OBVIOUS
<1> QED BY <1>1, <1>2, <1>3, Zenon

\* Rows of different orders are one before the other.
LEMMA NewerIsAnOrder ==
  ASSUME NEW r \in OrderRow, NEW s \in OrderRow, NEW t \in OrderRow
  PROVE  /\ Newer(r, s) /\ Newer(s, t) => Newer(r, t)
         /\ ~Newer(r, r)
         /\ r.id # s.id => Newer(r, s) \/ Newer(s, r)
  BY RowNumbers DEF Newer

\* Of some rows one is the oldest.
LEMMA OldestRow ==
  ASSUME NEW rows, AreRows(rows), rows # {}
  PROVE  \E r \in rows : \A s \in rows \ {r} : Newer(s, r)
<1> DEFINE Times == {s.created : s \in rows}
<1>1. PICK c \in Times : \A d \in Times : c <= d
  <2>1. Times \in SUBSET Nat /\ Times # {}
    BY RowNumbers DEF AreRows
  <2> HIDE DEF Times
  <2> QED BY <2>1, LeastOf
<1> DEFINE First == {s \in rows : s.created = c}
           Numbers == {s.id : s \in First}
<1>2. PICK i \in Numbers : \A j \in Numbers : i <= j
  <2>1. Numbers \in SUBSET Nat /\ Numbers # {}
    BY RowNumbers DEF AreRows
  <2> HIDE DEF Numbers
  <2> QED BY <2>1, LeastOf
<1>3. PICK r \in First : r.id = i
  BY <1>2
<1>4. ASSUME NEW s \in rows \ {r} PROVE Newer(s, r)
  <2>1. /\ s \in OrderRow /\ r \in OrderRow /\ s.id # r.id /\ c <= s.created /\ r.created = c
        /\ s.created = c => i <= s.id
    BY <1>1, <1>2, <1>3 DEF AreRows
  <2> QED BY <1>3, <2>1, RowNumbers DEF Newer
<1> QED BY <1>4

\* The first n numbers are given the rows T, newest first.
Sorts(f, n, T) == f \in [1 .. n -> T] /\ \A j, k \in 1 .. n : j < k => Newer(f[j], f[k])

\* There is a way to sort any rows.
LEMMA SortingExists ==
  ASSUME NEW rows, AreRows(rows), IsFiniteSet(rows)
  PROVE  \E f : Sorts(f, Cardinality(rows), rows)
<1> DEFINE Sortable(n) == \A T \in SUBSET rows : Cardinality(T) = n => \E f : Sorts(f, n, T)
           B == {n \in Nat : Sortable(n)}
<1>1. Sortable(0)
  <2> SUFFICES ASSUME NEW T \in SUBSET rows PROVE \E f : Sorts(f, 0, T)
    OBVIOUS
  <2>1. Sorts([j \in 1 .. 0 |-> 0], 0, T)
    BY DEF Sorts
  <2> QED BY <2>1
<1>2. ASSUME NEW n \in Nat, Sortable(n) PROVE Sortable(n + 1)
  <2> SUFFICES ASSUME NEW T \in SUBSET rows, Cardinality(T) = n + 1
               PROVE  \E g : Sorts(g, n + 1, T)
    OBVIOUS
  <2>1. IsFiniteSet(T) /\ AreRows(T)
    BY FS_Subset DEF AreRows
  <2>2. T # {}
    BY <2>1, FS_EmptySet
  <2>3. PICK r \in T : \A s \in T \ {r} : Newer(s, r)
    BY <2>1, <2>2, OldestRow
  <2>4. T \ {r} \in SUBSET rows /\ Cardinality(T \ {r}) = n
    <3>1. Cardinality(T \ {r}) = Cardinality(T) - 1
      BY <2>1, FS_RemoveElement
    <3> QED BY <3>1
  <2>5. PICK f : Sorts(f, n, T \ {r})
    BY <1>2, <2>4
  <2> DEFINE g == [j \in 1 .. n + 1 |-> IF j = n + 1 THEN r ELSE f[j]]
  <2>6. \A j \in 1 .. n : j \in 1 .. n + 1 /\ g[j] = f[j] /\ f[j] \in T \ {r}
    BY <2>5 DEF Sorts
  <2>7. g[n + 1] = r /\ DOMAIN g = 1 .. n + 1 /\ g \in [1 .. n + 1 -> T]
    BY <2>6
  <2>8. ASSUME NEW j \in 1 .. n + 1, NEW k \in 1 .. n + 1, j < k PROVE Newer(g[j], g[k])
    <3>1. j \in 1 .. n
      BY <2>8
    <3>2. CASE k = n + 1
      BY <2>3, <2>6, <2>7, <3>1, <3>2
    <3>3. CASE k # n + 1
      <4>1. k \in 1 .. n
        BY <3>3
      <4> HIDE DEF g
      <4> QED BY <2>5, <2>6, <2>8, <3>1, <4>1 DEF Sorts
    <3> QED BY <3>2, <3>3
  <2>9. Sorts(g, n + 1, T)
    <3> HIDE DEF g
    <3> QED BY <2>7, <2>8 DEF Sorts
  <2> QED BY <2>9
<1>3. Cardinality(rows) \in Nat
  BY FS_CardinalityType
<1>4. Cardinality(rows) \in B
  <2>1. B \in SUBSET Nat /\ 0 \in B /\ \A n \in 0 .. Cardinality(rows) - 1 : n \in B => n + 1 \in B
    <3> HIDE DEF Sortable
    <3> QED BY <1>1, <1>2
  <2>2. Cardinality(rows) \in 0 .. Cardinality(rows)
    BY <1>3
  <2> HIDE DEF B
  <2> QED BY <1>3, <2>1, <2>2, Upwards
<1> QED BY <1>4

\* A listing has every row once, newest first.
LEMMA SortedRows ==
  ASSUME NEW rows, AreRows(rows), IsFiniteSet(rows)
  PROVE  /\ Cardinality(rows) \in Nat
         /\ Sorts(Sorted(rows), Cardinality(rows), rows)
         /\ \A r \in rows : \E k \in 1 .. Cardinality(rows) : Sorted(rows)[k] = r
<1> DEFINE n == Cardinality(rows)  f == Sorted(rows)
<1>1. n \in Nat
  BY FS_CardinalityType
<1>2. Sorts(f, n, rows)
  <2>1. PICK g : Sorts(g, n, rows)
    BY SortingExists
  <2>2. \A h \in [1 .. n -> rows] : DOMAIN h = 1 .. n
    OBVIOUS
  <2>3. \E h \in [1 .. n -> rows] : \A j, k \in DOMAIN h : j < k => Newer(h[j], h[k])
    BY <2>1, <2>2 DEF Sorts
  <2>4. f \in [1 .. n -> rows] /\ \A j, k \in DOMAIN f : j < k => Newer(f[j], f[k])
    BY <2>3 DEF Sorted
  <2> HIDE DEF f
  <2> QED BY <2>2, <2>4 DEF Sorts
<1>3. f \in Injection(1 .. n, rows)
  <2> HIDE DEF f
  <2>1. \A j, k \in 1 .. n : j # k => f[j] # f[k]
    <3> SUFFICES ASSUME NEW j \in 1 .. n, NEW k \in 1 .. n, j < k PROVE f[j] # f[k]
      BY <1>1
    <3>1. Newer(f[j], f[k]) /\ f[j] \in OrderRow
      BY <1>2 DEF Sorts, AreRows
    <3> QED BY <3>1, NewerIsAnOrder
  <2> QED BY <1>2, <2>1 DEF Sorts, Injection, IsInjective
<1>4. Cardinality(1 .. n) = n
  BY <1>1, FS_Interval
<1>5. f \in Surjection(1 .. n, rows)
  <2> HIDE DEF f
  <2> QED BY <1>3, <1>4, FS_Injection
<1> QED BY <1>1, <1>2, <1>5 DEF Surjection
-----------------------------------------------------------------------------
(* The inductive invariant.                                                *)

Walks == [at : {"idle", "list", "lines", "done", "refused"}, size : 0..maxPageSize,
          token : Positions \cup {None}, page : Seq(OrderRow)]

BookType == TypeOK /\ client \in Walks

\* A committed row is what its lines make it, and appears once: a transaction that
\* is open has written nothing that can be seen.
RowsAreOrders ==
  \A i \in Ids :
    /\ stamp[i] # None => orders[i] = None /\ i \in begun
    /\ orders[i] # None =>
         /\ i \in begun
         /\ orders[i].id = i
         /\ order_lines[i] # <<>>
         /\ orders[i].total = Owed(order_lines[i])
         /\ \A k \in DOMAIN order_lines[i] : order_lines[i][k].currency = orders[i].currency

\* One of the caller's rows.
IsRow(r) == r.id \in Committed /\ orders[r.id] = r /\ OwnerOf[r.id] = Caller

\* The page in hand: rows of the caller, newest first, after what was shown.
PageIsSorted ==
  client.at = "lines" =>
    /\ Len(client.page) <= client.size + 1
    /\ \A k \in 1..Len(client.page) : IsRow(client.page[k]) /\ Before(client.page[k], client.token)
    /\ \A j, k \in 1..Len(client.page) : j < k => Newer(client.page[j], client.page[k])

\* What was shown is the caller's orders down to the token, and no order from below.
ShownDownTo(i) == listed[i] = 1 <=> ~Before(orders[i], client.token)

\* An order that is still to come is on the page or, if the page is full, below it.
OnPageOrBelow(i) ==
  \/ ~Before(orders[i], client.token)
  \/ \E k \in 1..Len(client.page) : client.page[k] = orders[i]
  \/ Len(client.page) = client.size + 1 /\ Newer(client.page[client.size + 1], orders[i])

WalkIsOnCourse ==
  /\ \A i \in Ids : listed[i] \in {0, 1}
  /\ \A i \in steady : i \in Committed /\ OwnerOf[i] = Caller
  /\ client.at = "list" => client.size > 0
  /\ client.at \in {"list", "lines"} =>
       /\ \A i \in Ids : listed[i] = 1 => i \in Committed /\ ~Before(orders[i], client.token)
       /\ \A i \in steady : ShownDownTo(i)
  /\ client.at = "lines" => \A i \in steady : OnPageOrBelow(i)
  /\ client.at = "done" /\ client.size > 0 => \A i \in steady : listed[i] = 1

BookInv == BookType /\ RowsAreOrders /\ PageIsSorted /\ WalkIsOnCourse
-----------------------------------------------------------------------------
(* Writing.                                                                *)

\* No order has been placed and nobody reads.
LEMMA InitBook == Init => BookInv
<1> SUFFICES ASSUME Init PROVE BookInv
  OBVIOUS
<1>1. MaxClock \in Nat /\ maxPageSize \in Nat \ {0}
  BY OrderBookAssumption DEF OrderBookAssumption
<1>2. client = [at |-> "idle", size |-> 0, token |-> None, page |-> <<>>]
  BY DEF Init, Idle
<1>3. client \in Walks
  BY <1>1, <1>2, EmptySeq DEF Walks
<1>4. client.page \in Seq(OrderRow) /\ Len(client.page) = 0
  BY <1>2, EmptySeq
<1>5. TypeOK
  BY <1>1, <1>2, <1>4 DEF Init, TypeOK
<1>6. RowsAreOrders /\ PageIsSorted /\ WalkIsOnCourse
  BY <1>2 DEF Init, RowsAreOrders, PageIsSorted, WalkIsOnCourse
<1> QED BY <1>3, <1>5, <1>6 DEF BookInv, BookType

\* A reader is not disturbed by rows that appear.
LEMMA ReaderUndisturbed ==
  ASSUME BookInv, UNCHANGED walk, \A i \in Committed : i \in Committed' /\ orders'[i] = orders[i]
  PROVE  PageIsSorted' /\ WalkIsOnCourse'
<1>1. client' = client /\ steady' = steady /\ listed' = listed
  BY DEF walk
<1>2. \A r : IsRow(r) => IsRow(r)'
  BY DEF IsRow
<1>3. PageIsSorted'
  BY <1>1, <1>2 DEF BookInv, PageIsSorted
<1>4. \A i \in steady : (ShownDownTo(i) => ShownDownTo(i)') /\ (OnPageOrBelow(i) => OnPageOrBelow(i)')
  BY <1>1 DEF BookInv, WalkIsOnCourse, ShownDownTo, OnPageOrBelow
<1>5. WalkIsOnCourse'
  BY <1>1, <1>4 DEF BookInv, WalkIsOnCourse
<1> QED BY <1>3, <1>5

\* Checkout takes its created_at from the clock before it writes anything.
LEMMA BeginKeeps ==
  ASSUME BookInv, NEW i \in Ids, Begin(i)
  PROVE  BookInv'
<1>1. /\ i \notin begun /\ begun' = begun \cup {i} /\ stamp' = [stamp EXCEPT ![i] = now]
      /\ now' = now /\ orders' = orders /\ order_lines' = order_lines /\ UNCHANGED walk
  BY DEF Begin, book
<1>2. BookType'
  BY <1>1 DEF BookInv, BookType, TypeOK, walk
<1>3. RowsAreOrders'
  BY <1>1 DEF BookInv, BookType, TypeOK, RowsAreOrders
<1>4. PageIsSorted' /\ WalkIsOnCourse'
  BY <1>1, ReaderUndisturbed DEF Committed
<1> QED BY <1>2, <1>3, <1>4 DEF BookInv

\* A checkout that fails leaves no row.
LEMMA NotPlacedKeeps ==
  ASSUME BookInv, NEW i \in Ids, NotPlaced(i)
  PROVE  BookInv'
<1>1. /\ begun' = begun /\ stamp' = [stamp EXCEPT ![i] = None]
      /\ now' = now /\ orders' = orders /\ order_lines' = order_lines /\ UNCHANGED walk
  BY DEF NotPlaced, book
<1>2. BookType'
  BY <1>1 DEF BookInv, BookType, TypeOK, walk
<1>3. RowsAreOrders'
  BY <1>1 DEF BookInv, BookType, TypeOK, RowsAreOrders
<1>4. PageIsSorted' /\ WalkIsOnCourse'
  BY <1>1, ReaderUndisturbed DEF Committed
<1> QED BY <1>2, <1>3, <1>4 DEF BookInv

\* The lines NewOrder accepts carry prices that are money and quantities in range.
LEMMA LinesArePriced ==
  ASSUME NEW cart \in Carts, NEW prices \in PriceLists, Sellable(cart, prices)
  PROVE  LET lines == price(cart, prices)
         IN  /\ ArePriced(lines) /\ DOMAIN lines = 1..Len(lines)
             /\ \A k \in DOMAIN lines : lines[k].currency \in Currencies
<1> DEFINE lines == price(cart, prices)
<1>1. cart \in Seq([sku : SKUs, quantity : Int])
  BY OrderBookAssumption DEF OrderBookAssumption
<1>2. Len(cart) \in Nat /\ DOMAIN cart = 1..Len(cart)
  BY <1>1, LenProperties
<1>3. ASSUME NEW k \in 1..Len(cart)
      PROVE  /\ lines[k].amount \in 0..MaxInt64 /\ lines[k].quantity \in Nat \ {0}
             /\ lines[k].currency \in Currencies
  <2>1. cart[k].quantity \in Int
    <3>1. cart[k] \in [sku : SKUs, quantity : Int]
      BY <1>1, ElementOfSeq
    <3> QED BY <3>1
  <2>2. IsMoney(prices[cart[k].sku]) /\ cart[k].quantity > 0
    BY <1>2 DEF Sellable, PriceSKUs, IsOrderLine
  <2>3. lines[k] = [sku |-> cart[k].sku, quantity |-> cart[k].quantity,
                    amount |-> prices[cart[k].sku].amount, currency |-> prices[cart[k].sku].currency]
    BY <1>2 DEF price
  <2> QED BY <2>1, <2>2, <2>3 DEF IsMoney
<1>4. DOMAIN lines = 1..Len(cart) /\ lines \in [1..Len(cart) -> {lines[k] : k \in 1..Len(cart)}]
  BY <1>2 DEF price
<1>5. lines \in Seq({lines[k] : k \in 1..Len(cart)})
  <2> DEFINE V == {lines[k] : k \in 1..Len(cart)}
  <2> HIDE DEF V, lines
  <2> QED BY <1>2, <1>4, SeqDef
<1>6. Len(lines) = Len(cart)
  <2>1. Len(lines) \in Nat /\ DOMAIN lines = 1..Len(lines)
    BY <1>5, LenProperties
  <2>2. \A m, n \in Nat : 1..m = 1..n => m = n
    OBVIOUS
  <2> QED BY <1>2, <1>4, <2>1, <2>2
<1> HIDE DEF lines
<1> QED BY <1>2, <1>3, <1>4, <1>6 DEF ArePriced, lines

\* The row and its lines appear together and agree.
LEMMA PlaceKeeps ==
  ASSUME BookInv, NEW i \in Ids, Place(i)
  PROVE  BookInv'
<1>1. PICK cart \in Carts, prices \in PriceLists :
        Sellable(cart, prices) /\ IsOrder(price(cart, prices)) /\ Create(i, price(cart, prices))
  BY DEF Place
<1> DEFINE lines == price(cart, prices)
           row == [id |-> i, created |-> stamp[i], total |-> sum(lines), currency |-> lines[1].currency]
<1>2. /\ stamp[i] # None /\ stamp' = [stamp EXCEPT ![i] = None]
      /\ now' = now /\ begun' = begun /\ UNCHANGED walk
      /\ orders' = [orders EXCEPT ![i] = row] /\ order_lines' = [order_lines EXCEPT ![i] = lines]
  BY <1>1 DEF Place, Create, CreateOrder, CreateOrderLines
<1>3. /\ ArePriced(lines) /\ DOMAIN lines = 1..Len(lines)
      /\ \A k \in DOMAIN lines : lines[k].currency \in Currencies
  BY <1>1, LinesArePriced
<1>4. /\ Len(lines) \in 1..maxLines /\ sum(lines) # ErrTotalOutOfRange
      /\ \A k \in DOMAIN lines : lines[k].currency = lines[1].currency
  BY <1>1 DEF IsOrder
<1> HIDE DEF lines
<1>5. sum(lines) = Owed(lines) /\ sum(lines) \in 0..MaxInt64
  BY <1>3, <1>4, SumExact
<1>6. 1 \in DOMAIN lines /\ lines # <<>>
  <2>1. Len(lines) \in Nat \ {0}
    BY <1>3, <1>4 DEF ArePriced
  <2> QED BY <1>3, <2>1
<1>7. row \in OrderRow
  <2>1. stamp[i] \in 0..MaxClock
    BY <1>2 DEF BookInv, BookType, TypeOK
  <2> QED BY <1>3, <1>5, <1>6, <2>1 DEF OrderRow
<1>8. /\ row.id = i /\ row.total = Owed(lines)
      /\ \A k \in DOMAIN lines : lines[k].currency = row.currency
  BY <1>4, <1>5
<1> HIDE DEF row
<1>9. orders[i] = None /\ i \in begun
  BY <1>2 DEF BookInv, RowsAreOrders
<1>10. BookType'
  BY <1>2, <1>7 DEF BookInv, BookType, TypeOK, walk
<1>11. ASSUME NEW j \in Ids
       PROVE  /\ stamp'[j] # None => orders'[j] = None /\ j \in begun'
              /\ orders'[j] # None =>
                   /\ j \in begun'
                   /\ orders'[j].id = j
                   /\ order_lines'[j] # <<>>
                   /\ orders'[j].total = Owed(order_lines'[j])
                   /\ \A k \in DOMAIN order_lines'[j] : order_lines'[j][k].currency = orders'[j].currency
  <2>1. CASE j = i
    <3>1. orders'[j] = row /\ order_lines'[j] = lines /\ stamp'[j] = None
      BY <1>2, <2>1 DEF BookInv, BookType, TypeOK
    <3> QED BY <1>2, <1>6, <1>8, <1>9, <2>1, <3>1
  <2>2. CASE j # i
    <3>1. orders'[j] = orders[j] /\ order_lines'[j] = order_lines[j] /\ stamp'[j] = stamp[j]
      BY <1>2, <2>2 DEF BookInv, BookType, TypeOK
    <3> QED BY <1>2, <3>1 DEF BookInv, RowsAreOrders
  <2> QED BY <2>1, <2>2
<1>12. RowsAreOrders'
  BY <1>11 DEF RowsAreOrders
<1>13. PageIsSorted' /\ WalkIsOnCourse'
  <2>1. \A j \in Committed : j \in Committed' /\ orders'[j] = orders[j]
    BY <1>2, <1>9 DEF Committed, BookInv, BookType, TypeOK
  <2> QED BY <1>2, <2>1, ReaderUndisturbed
<1> QED BY <1>10, <1>12, <1>13 DEF BookInv
-----------------------------------------------------------------------------
(* Reading.                                                                *)

\* What is before a token's position, in terms of the row the token was made from.
LEMMA AfterTheToken ==
  ASSUME NEW r \in OrderRow, NEW s \in OrderRow, NEW token \in Positions \cup {None}
  PROVE  /\ encodeCursor(r) \in Positions
         /\ Before(s, encodeCursor(r)) <=> Newer(r, s)
         /\ Before(r, token) /\ Newer(r, s) => Before(s, token)
<1>1. encodeCursor(r) \in Positions
  BY DEF encodeCursor, Positions, OrderRow
<1>2. encodeCursor(r) # None
  BY <1>1, OrderBookAssumption DEF OrderBookAssumption, Positions
<1>3. encodeCursor(r).created = r.created /\ encodeCursor(r).id = r.id
  BY DEF encodeCursor
<1>4. r.created \in Nat /\ r.id \in Nat /\ s.created \in Nat /\ s.id \in Nat
  BY RowNumbers
<1>5. Before(s, encodeCursor(r)) <=> Newer(r, s)
  BY <1>2, <1>3, <1>4 DEF Before, Newer
<1>6. Before(r, token) /\ Newer(r, s) => Before(s, token)
  <2>1. CASE token = None
    BY <2>1 DEF Before
  <2>2. CASE token \in Positions
    <3>1. token.created \in Nat /\ token.id \in Nat
      <4>1. token.created \in 0..MaxClock /\ token.id \in Ids
        BY <2>2 DEF Positions
      <4>2. MaxClock \in Nat /\ Ids \subseteq Nat /\ \A m \in Nat : 0..m \subseteq Nat
        BY OrderBookAssumption DEF OrderBookAssumption
      <4> QED BY <4>1, <4>2, Zenon
    <3> QED BY <1>4, <3>1 DEF Before, Newer
  <2> QED BY <2>1, <2>2
<1> QED BY <1>1, <1>5, <1>6

\* The caller's rows are rows.
LEMMA CommittedRows ==
  ASSUME BookInv, NEW i \in Committed
  PROVE  orders[i] \in OrderRow /\ orders[i].id = i /\ i \in Ids
  BY DEF BookInv, BookType, TypeOK, RowsAreOrders, Committed

\* A page: the newest rows after the token, as many as there are or as fit.
LEMMA PageIsRead ==
  ASSUME BookInv, NEW limit \in Nat \ {0}, NEW token \in Positions \cup {None}
  PROVE  LET page == ListOrdersByUser(Caller, token, limit)
         IN  /\ page \in Seq(OrderRow) /\ Len(page) <= limit
             /\ \A k \in 1..Len(page) : IsRow(page[k]) /\ Before(page[k], token)
             /\ \A j, k \in 1..Len(page) : j < k => Newer(page[j], page[k])
             /\ \A i \in Committed : OwnerOf[i] = Caller =>
                  \/ ~Before(orders[i], token)
                  \/ \E k \in 1..Len(page) : page[k] = orders[i]
                  \/ Len(page) = limit /\ Newer(page[limit], orders[i])
<1> DEFINE all == {orders[i] : i \in {j \in Committed : OwnerOf[j] = Caller}}
           rows == {r \in all : Before(r, token)}
           n == Cardinality(rows)
           found == Sorted(rows)
           page == ListOrdersByUser(Caller, token, limit)
<1>1. \A r \in rows : IsRow(r) /\ Before(r, token) /\ r \in OrderRow /\ r.id \in Ids
  BY CommittedRows DEF IsRow
<1>2. AreRows(rows)
  BY <1>1 DEF AreRows, IsRow
<1>3. IsFiniteSet(rows)
  <2> DEFINE f == [r \in rows |-> r.id]
  <2> HIDE DEF rows
  <2>1. f \in Injection(rows, Ids)
    BY <1>1, <1>2 DEF AreRows, Injection, IsInjective
  <2>2. IsFiniteSet(Ids)
    BY OrderBookAssumption DEF OrderBookAssumption
  <2> HIDE DEF f
  <2> QED BY <2>1, <2>2, FS_Injection
<1>4. /\ n \in Nat /\ Sorts(found, n, rows)
      /\ \A r \in rows : \E k \in 1 .. n : found[k] = r
  <2> HIDE DEF rows
  <2> QED BY <1>2, <1>3, SortedRows
<1>5. Len(found) = n
  <2> HIDE DEF rows, found, n
  <2>1. found \in Seq(rows)
    BY <1>4, SeqDef DEF Sorts
  <2>2. Len(found) \in Nat /\ DOMAIN found = 1..Len(found) /\ DOMAIN found = 1..n
    BY <1>4, <2>1, LenProperties DEF Sorts
  <2>3. \A m, l \in Nat : 1..m = 1..l => m = l
    OBVIOUS
  <2> QED BY <1>4, <2>2, <2>3
<1> DEFINE m == IF n < limit THEN n ELSE limit
<1>6. page = SubSeq(found, 1, m)
  BY <1>5 DEF ListOrdersByUser
<1>7. m \in Nat /\ m <= n /\ m <= limit /\ (m = n \/ (m = limit /\ limit < n))
  <2> HIDE DEF rows, found, n
  <2>1. CASE n < limit
    BY <1>4, <2>1
  <2>2. CASE ~(n < limit)
    BY <1>4, <2>2
  <2> QED BY <2>1, <2>2
<1> HIDE DEF rows, found, n, m, page
<1>8. page \in Seq(rows) /\ Len(page) = m /\ \A k \in 1..m : page[k] = found[k]
  <2>1. \A k \in 1..m : found[k] \in rows /\ k \in 1..n
    BY <1>4, <1>7 DEF Sorts
  <2>2. /\ SubSeq(found, 1, m) \in Seq(rows)
        /\ Len(SubSeq(found, 1, m)) = IF 1 <= m THEN m - 1 + 1 ELSE 0
        /\ \A k \in 1 .. m - 1 + 1 : SubSeq(found, 1, m)[k] = found[1 + k - 1]
    BY <1>7, <2>1, SubSeqProperties
  <2> QED BY <1>6, <1>7, <2>2
<1>9. page \in Seq(OrderRow)
  <2>1. rows \subseteq OrderRow
    BY <1>1
  <2> QED BY <1>8, <2>1, SeqMonotonic
<1>10. \A k \in 1..m : k \in 1..n /\ page[k] \in rows
  BY <1>4, <1>7, <1>8 DEF Sorts
<1>11. ASSUME NEW i \in Committed, OwnerOf[i] = Caller, Before(orders[i], token)
       PROVE  \/ \E k \in 1..Len(page) : page[k] = orders[i]
              \/ Len(page) = limit /\ Newer(page[limit], orders[i])
  <2>1. orders[i] \in rows
    BY <1>11 DEF rows
  <2>2. PICK k \in 1..n : found[k] = orders[i]
    BY <1>4, <2>1
  <2>3. CASE k <= m
    BY <1>7, <1>8, <2>2, <2>3
  <2>4. CASE ~(k <= m)
    <3>1. m = limit /\ limit \in 1..n /\ limit < k /\ limit \in 1..m
      BY <1>4, <1>7, <2>4
    <3>2. Newer(found[limit], found[k])
      BY <1>4, <3>1 DEF Sorts
    <3> QED BY <1>8, <2>2, <3>1, <3>2
  <2> QED BY <2>3, <2>4
<1> QED BY <1>1, <1>4, <1>7, <1>8, <1>9, <1>10, <1>11 DEF Sorts, page

\* A page's size is between one row and the most.
LEMMA SizesAreSizes ==
  ASSUME NEW asked \in AskedSizes
  PROVE  pageSize(asked) \in 1..maxPageSize
<1>1. asked \in Int /\ defaultPageSize \in Nat \ {0} /\ maxPageSize \in Nat \ {0} /\ defaultPageSize <= maxPageSize
  BY OrderBookAssumption DEF OrderBookAssumption
<1> QED BY <1>1 DEF pageSize

\* Who writes nothing leaves the rows as they were.
LEMMA RowsUndisturbed ==
  ASSUME BookInv, UNCHANGED <<now, begun, stamp, book>>,
         client' \in Walks, client'.page \in Seq(OrderRow), Len(client'.page) <= maxPageSize + 1,
         steady' \subseteq Ids, listed' \in [Ids -> 0..2]
  PROVE  BookType' /\ RowsAreOrders'
<1>1. now' = now /\ begun' = begun /\ stamp' = stamp /\ orders' = orders /\ order_lines' = order_lines
  BY DEF book
<1>2. RowsAreOrders'
  BY <1>1 DEF BookInv, RowsAreOrders
<1>3. BookType'
  <2>1. /\ client'.at \in {"idle", "list", "lines", "done", "refused"}
        /\ client'.size \in 0..maxPageSize /\ client'.token \in Positions \cup {None}
    BY DEF Walks
  <2> QED BY <1>1, <2>1 DEF BookInv, BookType, TypeOK, Walks
<1> QED BY <1>2, <1>3

\* A walk begins with nothing shown.
LEMMA ListOrdersKeeps ==
  ASSUME BookInv, ListOrders
  PROVE  BookInv'
<1>1. PICK asked \in AskedSizes : client' = [Idle EXCEPT !.at = "list", !.size = pageSize(asked)]
  BY DEF ListOrders
<1>2. /\ client' = [at |-> "list", size |-> pageSize(asked), token |-> None, page |-> <<>>]
      /\ pageSize(asked) \in 1..maxPageSize /\ maxPageSize \in Nat
  BY <1>1, SizesAreSizes, OrderBookAssumption DEF Idle, OrderBookAssumption
<1>3. /\ steady' = {i \in Committed : OwnerOf[i] = Caller} /\ listed' = [i \in Ids |-> 0]
      /\ UNCHANGED <<now, begun, stamp, book>> /\ orders' = orders
  BY DEF ListOrders, book
<1>4. client' \in Walks /\ client'.page \in Seq(OrderRow) /\ Len(client'.page) <= maxPageSize + 1
  <2>1. <<>> \in Seq(OrderRow) /\ Len(<<>>) = 0
    BY EmptySeq
  <2> QED BY <1>2, <2>1 DEF Walks
<1>5. steady' \subseteq Ids /\ listed' \in [Ids -> 0..2]
  BY <1>3 DEF Committed
<1>6. BookType' /\ RowsAreOrders'
  BY <1>3, <1>4, <1>5, RowsUndisturbed
<1>7. PageIsSorted'
  BY <1>2 DEF PageIsSorted
<1>8. WalkIsOnCourse'
  <2>1. \A i \in steady' : i \in Committed' /\ OwnerOf[i] = Caller
    BY <1>3 DEF Committed
  <2>2. \A i \in Ids : listed'[i] = 0
    BY <1>3
  <2>3. client'.at = "list" /\ client'.size > 0 /\ client'.token = None
    BY <1>2
  <2>4. \A i \in steady' : ShownDownTo(i)'
    BY <1>5, <2>2, <2>3 DEF ShownDownTo, Before
  <2> QED BY <2>1, <2>2, <2>3, <2>4 DEF WalkIsOnCourse
<1> QED BY <1>6, <1>7, <1>8 DEF BookInv

\* A page is read: what is still to come is on it or below it.
LEMMA ListRowsKeeps ==
  ASSUME BookInv, ListRows
  PROVE  BookInv'
<1> DEFINE page == ListOrdersByUser(Caller, client.token, client.size + 1)
<1>1. /\ client.at = "list" /\ client' = [client EXCEPT !.at = "lines", !.page = page]
      /\ UNCHANGED <<now, begun, stamp, book>> /\ orders' = orders /\ steady' = steady /\ listed' = listed
  BY DEF ListRows, book
<1>2. client \in Walks /\ client.size \in 0..maxPageSize /\ client.token \in Positions \cup {None} /\ maxPageSize \in Nat
  BY OrderBookAssumption DEF BookInv, BookType, Walks, OrderBookAssumption
<1>3. /\ page \in Seq(OrderRow) /\ Len(page) <= client.size + 1
      /\ \A k \in 1..Len(page) : IsRow(page[k]) /\ Before(page[k], client.token)
      /\ \A j, k \in 1..Len(page) : j < k => Newer(page[j], page[k])
      /\ \A i \in Committed : OwnerOf[i] = Caller =>
           \/ ~Before(orders[i], client.token)
           \/ \E k \in 1..Len(page) : page[k] = orders[i]
           \/ Len(page) = client.size + 1 /\ Newer(page[client.size + 1], orders[i])
  <2>1. client.size + 1 \in Nat \ {0}
    BY <1>2
  <2> QED BY <1>2, <2>1, PageIsRead
<1> HIDE DEF page
<1>4. /\ client' \in Walks /\ client'.page = page /\ client'.size = client.size /\ client'.token = client.token
      /\ client'.at = "lines"
  BY <1>1, <1>2, <1>3 DEF Walks
<1>5. BookType' /\ RowsAreOrders'
  <2>1. Len(client'.page) <= maxPageSize + 1
    <3>1. Len(page) \in Nat
      BY <1>3, LenProperties
    <3> QED BY <1>2, <1>3, <1>4, <3>1
  <2>2. steady' \subseteq Ids /\ listed' \in [Ids -> 0..2]
    BY <1>1 DEF BookInv, BookType, TypeOK
  <2> QED BY <1>1, <1>3, <1>4, <2>1, <2>2, RowsUndisturbed
<1>6. Committed' = Committed /\ \A r : IsRow(r) => IsRow(r)'
  BY <1>1 DEF Committed, IsRow
<1>7. PageIsSorted'
  BY <1>3, <1>4, <1>6 DEF PageIsSorted
<1>8. WalkIsOnCourse'
  <2>1. \A i \in steady : i \in Committed /\ OwnerOf[i] = Caller
    BY DEF BookInv, WalkIsOnCourse
  <2>2. \A i \in steady' : OnPageOrBelow(i)'
    BY <1>1, <1>3, <1>4, <2>1 DEF OnPageOrBelow
  <2>3. \A i \in steady' : ShownDownTo(i)'
    BY <1>1, <1>4 DEF BookInv, WalkIsOnCourse, ShownDownTo
  <2> QED BY <1>1, <1>4, <1>6, <2>2, <2>3 DEF BookInv, WalkIsOnCourse
<1> QED BY <1>5, <1>7, <1>8 DEF BookInv

\* ListOrders refuses a page token: the walk is over.
LEMMA ListRefusedKeeps ==
  ASSUME BookInv, ListRefused
  PROVE  BookInv'
<1>1. /\ client' = [client EXCEPT !.at = "refused"] /\ UNCHANGED <<now, begun, stamp, book>>
      /\ orders' = orders /\ steady' = steady /\ listed' = listed
  BY DEF ListRefused, book
<1>2. client \in Walks
  BY DEF BookInv, BookType
<1>3. client' \in Walks /\ client'.at = "refused" /\ client'.page = client.page
  BY <1>1, <1>2 DEF Walks
<1>4. BookType' /\ RowsAreOrders'
  <2>1. /\ client.page \in Seq(OrderRow) /\ Len(client.page) <= maxPageSize + 1
        /\ steady \subseteq Ids /\ listed \in [Ids -> 0..2]
    BY DEF BookInv, BookType, TypeOK
  <2> QED BY <1>1, <1>3, <2>1, RowsUndisturbed
<1>5. PageIsSorted'
  BY <1>3 DEF PageIsSorted
<1>6. WalkIsOnCourse'
  BY <1>1, <1>3 DEF BookInv, WalkIsOnCourse, Committed
<1> QED BY <1>4, <1>5, <1>6 DEF BookInv

\* One order is read by its id, and only by its owner.
LEMMA GetOrderKeeps ==
  ASSUME BookInv, NEW i \in Ids, GetOrder(i)
  PROVE  BookInv'
<1>1. /\ UNCHANGED <<now, begun, stamp, book>> /\ orders' = orders
      /\ steady' = {} /\ listed' = [j \in Ids |-> 0]
  BY DEF GetOrder, book
<1>2. maxPageSize \in Nat \ {0}
  BY OrderBookAssumption DEF OrderBookAssumption
<1>3. CASE FindByID(i) # <<>> /\ OwnerOf[i] = Caller
  <2>1. i \in Committed /\ client' = [at |-> "lines", size |-> 0, token |-> None, page |-> <<orders[i]>>]
    BY <1>3 DEF GetOrder, FindByID, Idle
  <2>2. orders[i] \in OrderRow /\ orders[i].id = i
    BY <2>1, CommittedRows
  <2>3. IsRow(orders[i])'
    BY <1>1, <1>3, <2>1, <2>2 DEF IsRow, Committed
  <2> DEFINE row == orders[i]
  <2> HIDE DEF row
  <2>4. <<row>> \in Seq(OrderRow) /\ Len(<<row>>) = 1 /\ <<row>>[1] = row
    BY <2>2 DEF row
  <2>5. client'.page = <<row>> /\ client' \in Walks /\ client'.at = "lines" /\ client'.size = 0 /\ client'.token = None
    BY <1>2, <2>1, <2>4 DEF Walks, row
  <2>6. BookType' /\ RowsAreOrders'
    BY <1>1, <1>2, <2>4, <2>5, RowsUndisturbed
  <2>7. PageIsSorted'
    <3>1. ASSUME NEW k \in 1..Len(client'.page)
          PROVE  IsRow(client.page[k])' /\ Before(client.page[k], client.token)'
      <4>1. k = 1 /\ client'.page[k] = orders'[i]
        BY <1>1, <2>4, <2>5 DEF row
      <4>2. IsRow(client.page[k])'
        BY <2>3, <4>1 DEF IsRow
      <4> QED BY <2>5, <4>2 DEF Before
    <3>2. \A j, k \in 1..Len(client'.page) : ~(j < k)
      BY <2>4, <2>5
    <3> QED BY <2>4, <2>5, <3>1, <3>2 DEF PageIsSorted
  <2>8. WalkIsOnCourse'
    BY <1>1, <2>5 DEF WalkIsOnCourse
  <2> QED BY <2>6, <2>7, <2>8 DEF BookInv
<1>4. CASE ~(FindByID(i) # <<>> /\ OwnerOf[i] = Caller)
  <2>1. client' = [at |-> "refused", size |-> 0, token |-> None, page |-> <<>>]
    BY <1>4 DEF GetOrder, Idle
  <2>2. <<>> \in Seq(OrderRow) /\ Len(<<>>) = 0
    BY EmptySeq
  <2>3. client' \in Walks /\ client'.page = <<>> /\ client'.at = "refused"
    BY <1>2, <2>1, <2>2 DEF Walks
  <2>4. BookType' /\ RowsAreOrders'
    BY <1>1, <1>2, <2>2, <2>3, RowsUndisturbed
  <2>5. PageIsSorted' /\ WalkIsOnCourse'
    BY <1>1, <2>3 DEF PageIsSorted, WalkIsOnCourse
  <2> QED BY <2>4, <2>5 DEF BookInv
<1> QED BY <1>3, <1>4

\* Where an order is among the first m rows of a page.
Places(page, m, i) == {k \in 1..m : page[k].id = i}

\* The first m rows of a page, newest first.
InOrder(page, m) ==
  /\ \A k \in 1..m : page[k] \in OrderRow
  /\ \A j, k \in 1..m : j < k => Newer(page[j], page[k])
  /\ \A j, k \in 1..m : page[j].id = page[k].id => page[j] = page[k]

\* Of rows in order, an order has one at most.
LEMMA CountOnce ==
  ASSUME NEW page, NEW m \in Nat, InOrder(page, m), NEW i
  PROVE  /\ (\E k \in 1..m : page[k].id = i) => Cardinality(Places(page, m, i)) = 1
         /\ ~(\E k \in 1..m : page[k].id = i) => Cardinality(Places(page, m, i)) = 0
<1> USE DEF InOrder
<1>1. CASE \E k \in 1..m : page[k].id = i
  <2>1. PICK k \in 1..m : page[k].id = i
    BY <1>1
  <2>2. ASSUME NEW j \in 1..m, page[j].id = i, j # k PROVE FALSE
    <3>1. page[j] = page[k] /\ page[j] \in OrderRow
      BY <2>1, <2>2
    <3>2. j < k \/ k < j
      BY <2>2
    <3> QED BY <3>1, <3>2, NewerIsAnOrder
  <2>3. Places(page, m, i) = {k}
    BY <2>1, <2>2 DEF Places
  <2> QED BY <1>1, <2>3, FS_Singleton
<1>2. CASE ~\E k \in 1..m : page[k].id = i
  <2>1. Places(page, m, i) = {}
    BY <1>2 DEF Places
  <2> QED BY <1>2, <2>1, FS_EmptySet
<1> QED BY <1>1, <1>2

\* The smaller of two.
LEMMA MinOfTwo == \A a, b \in Nat : Min({a, b}) = IF a <= b THEN a ELSE b
<1> SUFFICES ASSUME NEW a \in Nat, NEW b \in Nat PROVE Min({a, b}) = IF a <= b THEN a ELSE b
  OBVIOUS
<1> DEFINE least == IF a <= b THEN a ELSE b
<1>1. least \in {a, b} /\ \A y \in {a, b} : least <= y
  OBVIOUS
<1>2. \A x \in {a, b} : (\A y \in {a, b} : x <= y) => x = least
  OBVIOUS
<1> HIDE DEF least
<1> QED BY <1>1, <1>2 DEF Min

\* The history after some rows are shown.
Counted(shown) ==
  [i \in Ids |-> Min({2, listed[i] + Cardinality({k \in DOMAIN shown : shown[k].id = i})})]

\* What a page shows is counted, once for each order.
LEMMA ShownIsCounted ==
  ASSUME BookInv, client.at = "lines", NEW m \in 0..Len(client.page),
         NEW shown, Len(shown) = m, DOMAIN shown = 1..m, \A k \in 1..m : shown[k] = client.page[k],
         listed' = Counted(shown)
  PROVE  /\ listed' \in [Ids -> 0..2]
         /\ \A k \in 1..m : client.page[k].id \in Ids /\ listed[client.page[k].id] = 0
         /\ \A i \in Ids : IF \E k \in 1..m : client.page[k].id = i
                           THEN listed'[i] = 1 ELSE listed'[i] = listed[i]
         /\ \A i \in Ids : listed'[i] \in {0, 1}
<1> DEFINE page == client.page
<1>1. Len(page) \in Nat /\ \A k \in 1..Len(page) : page[k] \in OrderRow
  <2>1. page \in Seq(OrderRow)
    BY DEF BookInv, BookType, Walks
  <2> QED BY <2>1, LenProperties, ElementOfSeq
<1>2. /\ \A k \in 1..Len(page) : IsRow(page[k]) /\ Before(page[k], client.token)
      /\ \A j, k \in 1..Len(page) : j < k => Newer(page[j], page[k])
  BY DEF BookInv, PageIsSorted
<1>3. m \in Nat /\ 1..m \subseteq 1..Len(page)
  BY <1>1
<1>4. \A k \in 1..m : page[k].id \in Ids /\ listed[page[k].id] = 0
  <2> SUFFICES ASSUME NEW k \in 1..m PROVE page[k].id \in Ids /\ listed[page[k].id] = 0
    OBVIOUS
  <2>1. page[k].id \in Ids /\ orders[page[k].id] = page[k] /\ Before(page[k], client.token)
    BY <1>2, <1>3 DEF IsRow, Committed
  <2>2. listed[page[k].id] \in {0, 1} /\ listed[page[k].id] # 1
    BY <2>1 DEF BookInv, WalkIsOnCourse
  <2> QED BY <2>1, <2>2
<1>5. ASSUME NEW i \in Ids
      PROVE  /\ IF \E k \in 1..m : page[k].id = i THEN listed'[i] = 1 ELSE listed'[i] = listed[i]
             /\ listed'[i] \in {0, 1}
  <2> DEFINE count == Cardinality(Places(page, m, i))
  <2>1. {k \in DOMAIN shown : shown[k].id = i} = Places(page, m, i)
    BY DEF Places
  <2>2. listed'[i] = Min({2, listed[i] + count})
    BY <2>1 DEF Counted
  <2>3. /\ (\E k \in 1..m : page[k].id = i) => count = 1
        /\ ~(\E k \in 1..m : page[k].id = i) => count = 0
    <3>1. InOrder(page, m)
      <4>1. \A k \in 1..m : page[k] \in OrderRow
        BY <1>1, <1>3
      <4>2. \A j, k \in 1..m : j < k => Newer(page[j], page[k])
        BY <1>2, <1>3
      <4>3. \A j, k \in 1..m : page[j].id = page[k].id => page[j] = page[k]
        BY <1>2, <1>3 DEF IsRow
      <4> QED BY <4>1, <4>2, <4>3 DEF InOrder
    <3> HIDE DEF page
    <3> QED BY <1>3, <3>1, CountOnce
  <2>4. listed[i] \in {0, 1}
    BY DEF BookInv, WalkIsOnCourse
  <2> HIDE DEF count
  <2>5. CASE \E k \in 1..m : page[k].id = i
    <3>1. listed[i] = 0 /\ count = 1
      BY <1>4, <2>3, <2>5
    <3> QED BY <2>2, <2>5, <3>1, MinOfTwo
  <2>6. CASE ~\E k \in 1..m : page[k].id = i
    <3>1. count = 0
      BY <2>3, <2>6
    <3> QED BY <2>2, <2>4, <2>6, <3>1, MinOfTwo
  <2> QED BY <2>5, <2>6
<1>6. listed' \in [Ids -> 0..2]
  <2>1. listed' = [i \in Ids |-> listed'[i]]
    BY DEF Counted
  <2> QED BY <1>5, <2>1
<1> QED BY <1>4, <1>5, <1>6

\* A page that is not full is the last: every order of the walk has been shown.
LEMMA LastPage ==
  ASSUME BookInv, client.at = "lines", ~(client.size > 0 /\ Len(client.page) > client.size),
         UNCHANGED <<now, begun, stamp, book, steady>>,
         client' = [client EXCEPT !.at = "done", !.page = <<>>],
         listed' = Counted(client.page)
  PROVE  BookInv'
<1> DEFINE page == client.page
<1>1. client \in Walks /\ page \in Seq(OrderRow)
  BY DEF BookInv, BookType, Walks
<1>2. Len(page) \in Nat /\ DOMAIN page = 1..Len(page) /\ client.size \in 0..maxPageSize /\ maxPageSize \in Nat
  BY <1>1, LenProperties, OrderBookAssumption DEF Walks, OrderBookAssumption
<1>3. /\ listed' \in [Ids -> 0..2]
      /\ \A k \in 1..Len(page) : page[k].id \in Ids /\ listed[page[k].id] = 0
      /\ \A i \in Ids : IF \E k \in 1..Len(page) : page[k].id = i
                        THEN listed'[i] = 1 ELSE listed'[i] = listed[i]
      /\ \A i \in Ids : listed'[i] \in {0, 1}
  <2>1. Len(page) \in 0..Len(page)
    BY <1>2
  <2> QED BY <1>2, <2>1, ShownIsCounted
<1>4. /\ client'.at = "done" /\ client'.page = <<>> /\ client'.size = client.size
      /\ client' \in Walks /\ client'.page \in Seq(OrderRow) /\ Len(client'.page) <= maxPageSize + 1
  <2>1. <<>> \in Seq(OrderRow) /\ Len(<<>>) = 0
    BY EmptySeq
  <2>2. client' = [at |-> "done", size |-> client.size, token |-> client.token, page |-> <<>>]
    BY <1>1 DEF Walks
  <2>3. client' \in Walks
    BY <1>1, <2>1, <2>2 DEF Walks
  <2> QED BY <1>2, <2>1, <2>2, <2>3
<1>5. /\ steady' = steady /\ orders' = orders /\ Committed' = Committed
  BY DEF book, Committed
<1>6. BookType' /\ RowsAreOrders'
  <2>1. steady' \subseteq Ids /\ listed' \in [Ids -> 0..2]
    BY <1>3, <1>5 DEF BookInv, BookType, TypeOK
  <2> QED BY <1>4, <2>1, RowsUndisturbed
<1>7. PageIsSorted'
  BY <1>4 DEF PageIsSorted
<1>8. ASSUME client'.size > 0, NEW i \in steady PROVE listed'[i] = 1
  <2>1. /\ OnPageOrBelow(i) /\ ShownDownTo(i) /\ i \in Committed
    BY DEF BookInv, WalkIsOnCourse
  <2>2. ~(Len(page) = client.size + 1)
    BY <1>2, <1>4, <1>8
  <2>3. CASE ~Before(orders[i], client.token)
    <3>1. listed[i] = 1 /\ i \in Ids
      BY <2>1, <2>3 DEF ShownDownTo, Committed
    <3> QED BY <1>3, <3>1
  <2>4. CASE \E k \in 1..Len(page) : page[k] = orders[i]
    <3>1. orders[i].id = i /\ i \in Ids
      BY <2>1, CommittedRows
    <3> QED BY <1>3, <2>4, <3>1
  <2> QED BY <2>1, <2>2, <2>3, <2>4 DEF OnPageOrBelow
<1>9. WalkIsOnCourse'
  <2>1. \A i \in steady' : i \in Committed' /\ OwnerOf[i] = Caller
    BY <1>5 DEF BookInv, WalkIsOnCourse
  <2> QED BY <1>3, <1>4, <1>5, <1>8, <2>1 DEF WalkIsOnCourse
<1> QED BY <1>6, <1>7, <1>9 DEF BookInv

\* A full page is cut, and the next begins after the last order it shows.
LEMMA NextPage ==
  ASSUME BookInv, client.at = "lines", client.size > 0, Len(client.page) > client.size,
         UNCHANGED <<now, begun, stamp, book, steady>>,
         client' = [client EXCEPT !.at = "list", !.page = <<>>,
                      !.token = encodeCursor(client.page[client.size])],
         NEW shown, shown = SubSeq(client.page, 1, client.size),
         listed' = Counted(shown)
  PROVE  BookInv'
<1> DEFINE page == client.page  size == client.size  last == page[size]
<1>1. client \in Walks /\ page \in Seq(OrderRow) /\ size \in 0..maxPageSize /\ maxPageSize \in Nat
      /\ client.token \in Positions \cup {None}
  BY OrderBookAssumption DEF BookInv, BookType, Walks, OrderBookAssumption
<1>2. Len(page) = size + 1 /\ size \in 1..Len(page) /\ size \in Nat
  <2>1. Len(page) \in Nat /\ Len(page) <= size + 1
    BY <1>1, LenProperties DEF BookInv, PageIsSorted
  <2> QED BY <1>1, <2>1
<1>3. Len(shown) = size /\ DOMAIN shown = 1..size /\ \A k \in 1..size : shown[k] = page[k]
  <2>1. \A k \in 1..size : page[k] \in OrderRow
    BY <1>1, <1>2, ElementOfSeq
  <2>2. /\ shown \in Seq(OrderRow)
        /\ Len(shown) = IF 1 <= size THEN size - 1 + 1 ELSE 0
        /\ \A k \in 1 .. size - 1 + 1 : shown[k] = page[1 + k - 1]
    <3> HIDE DEF page, size
    <3> USE DEF page, size
    <3> QED BY <1>1, <1>2, <2>1, SubSeqProperties
  <2>3. DOMAIN shown = 1..Len(shown)
    BY <2>2, LenProperties
  <2> QED BY <1>2, <2>2, <2>3
<1>4. /\ listed' \in [Ids -> 0..2]
      /\ \A k \in 1..size : page[k].id \in Ids /\ listed[page[k].id] = 0
      /\ \A i \in Ids : IF \E k \in 1..size : page[k].id = i
                        THEN listed'[i] = 1 ELSE listed'[i] = listed[i]
      /\ \A i \in Ids : listed'[i] \in {0, 1}
  <2>1. size \in 0..Len(page)
    BY <1>2
  <2> QED BY <1>3, <2>1, ShownIsCounted
<1>5. /\ \A k \in 1..Len(page) : page[k] \in OrderRow /\ IsRow(page[k]) /\ Before(page[k], client.token)
      /\ \A j, k \in 1..Len(page) : j < k => Newer(page[j], page[k])
  BY <1>1, ElementOfSeq DEF BookInv, PageIsSorted
<1>6. /\ last \in OrderRow /\ encodeCursor(last) \in Positions
      /\ \A i \in Committed : Before(orders[i], encodeCursor(last)) <=> Newer(last, orders[i])
      /\ \A i \in Committed : Newer(last, orders[i]) => Before(orders[i], client.token)
  <2>1. last \in OrderRow /\ Before(last, client.token)
    BY <1>2, <1>5
  <2> HIDE DEF last
  <2> QED BY <1>1, <2>1, AfterTheToken, CommittedRows
<1>7. /\ client'.at = "list" /\ client'.page = <<>> /\ client'.size = size /\ client'.token = encodeCursor(last)
      /\ client' \in Walks /\ client'.page \in Seq(OrderRow) /\ Len(client'.page) <= maxPageSize + 1
  <2>1. <<>> \in Seq(OrderRow) /\ Len(<<>>) = 0
    BY EmptySeq
  <2>2. client' = [at |-> "list", size |-> size, token |-> encodeCursor(last), page |-> <<>>]
    BY <1>1 DEF Walks
  <2>3. client' \in Walks
    BY <1>1, <1>6, <2>1, <2>2 DEF Walks
  <2> QED BY <1>1, <2>1, <2>2, <2>3
<1>8. /\ steady' = steady /\ orders' = orders /\ Committed' = Committed
  BY DEF book, Committed
<1>9. BookType' /\ RowsAreOrders'
  <2>1. steady' \subseteq Ids /\ listed' \in [Ids -> 0..2]
    BY <1>4, <1>8 DEF BookInv, BookType, TypeOK
  <2> QED BY <1>7, <2>1, RowsUndisturbed
<1>10. PageIsSorted'
  BY <1>7 DEF PageIsSorted
<1>11. \A k \in 1..size : ~Newer(last, page[k])
  <2> SUFFICES ASSUME NEW k \in 1..size, Newer(last, page[k]) PROVE FALSE
    OBVIOUS
  <2>1. k \in 1..Len(page) /\ page[k] \in OrderRow /\ last \in OrderRow
    BY <1>2, <1>5
  <2>2. k = size \/ Newer(page[k], last)
    BY <1>2, <1>5, <2>1
  <2> HIDE DEF last
  <2>3. CASE k = size
    BY <2>1, <2>3, NewerIsAnOrder DEF last
  <2>4. CASE Newer(page[k], last)
    BY <2>1, <2>4, NewerIsAnOrder
  <2> QED BY <2>2, <2>3, <2>4
<1> HIDE DEF last
<1>12. ASSUME NEW i \in Ids, listed'[i] = 1
       PROVE  i \in Committed /\ ~Before(orders[i], client'.token)
  <2>1. CASE \E k \in 1..size : page[k].id = i
    <3>1. PICK k \in 1..size : page[k].id = i
      BY <2>1
    <3>2. k \in 1..Len(page)
      BY <1>2
    <3>3. i \in Committed /\ orders[i] = page[k]
      BY <1>5, <3>1, <3>2 DEF IsRow
    <3> QED BY <1>6, <1>7, <1>11, <3>1, <3>3
  <2>2. CASE ~\E k \in 1..size : page[k].id = i
    <3>1. listed[i] = 1
      BY <1>4, <1>12, <2>2
    <3>2. i \in Committed /\ ~Before(orders[i], client.token)
      BY <3>1 DEF BookInv, WalkIsOnCourse
    <3> QED BY <1>6, <1>7, <3>2
  <2> QED BY <2>1, <2>2
<1>13. ASSUME NEW i \in steady, ~Before(orders[i], client'.token) PROVE listed'[i] = 1
  <2>1. OnPageOrBelow(i) /\ ShownDownTo(i) /\ i \in Committed /\ i \in Ids
    BY DEF BookInv, WalkIsOnCourse, Committed
  <2>2. ~Newer(last, orders[i]) /\ orders[i] \in OrderRow /\ orders[i].id = i
    BY <1>6, <1>7, <1>13, <2>1, CommittedRows
  <2>3. CASE ~Before(orders[i], client.token)
    BY <1>4, <2>1, <2>3 DEF ShownDownTo
  <2>4. CASE \E k \in 1..Len(page) : page[k] = orders[i]
    <3>1. PICK k \in 1..Len(page) : page[k] = orders[i]
      BY <2>4
    <3>2. k \in 1..size
      <4>1. ~(size < k)
        BY <1>2, <1>5, <2>2, <3>1 DEF last
      <4> QED BY <1>2, <4>1
    <3>3. page[k].id = i
      BY <2>2, <3>1
    <3> QED BY <1>4, <2>1, <3>2, <3>3
  <2>5. CASE Newer(page[size + 1], orders[i])
    <3>1. size + 1 \in 1..Len(page) /\ size < size + 1
      BY <1>2
    <3>2. Newer(last, page[size + 1]) /\ page[size + 1] \in OrderRow
      BY <1>2, <1>5, <3>1 DEF last
    <3> QED BY <1>6, <2>2, <2>5, <3>2, NewerIsAnOrder
  <2> QED BY <2>1, <2>3, <2>4, <2>5 DEF OnPageOrBelow
<1>14. WalkIsOnCourse'
  <2>1. \A i \in steady' : i \in Committed' /\ OwnerOf[i] = Caller
    BY <1>8 DEF BookInv, WalkIsOnCourse
  <2>2. \A i \in steady' : ShownDownTo(i)'
    <3> SUFFICES ASSUME NEW i \in steady' PROVE listed'[i] = 1 <=> ~Before(orders'[i], client'.token)
      BY DEF ShownDownTo
    <3>1. i \in Ids /\ i \in steady
      BY <1>8 DEF BookInv, BookType, TypeOK
    <3> QED BY <1>8, <1>12, <1>13, <3>1
  <2> QED BY <1>2, <1>4, <1>7, <1>8, <1>12, <2>1, <2>2 DEF WalkIsOnCourse
<1> QED BY <1>9, <1>10, <1>14 DEF BookInv

\* Loading the lines ends a page, the last one or one with a token for the next.
LEMMA LinesKeeps ==
  ASSUME BookInv, Lines
  PROVE  BookInv'
<1> USE DEF Counted
<1>1. CASE client.size > 0 /\ Len(client.page) > client.size
  BY <1>1, NextPage DEF Lines
<1>2. CASE ~(client.size > 0 /\ Len(client.page) > client.size)
  BY <1>2, LastPage DEF Lines
<1> QED BY <1>1, <1>2
-----------------------------------------------------------------------------
(* The theorems.                                                           *)

\* Every step keeps the invariant.
LEMMA BookStep == BookInv /\ [Next]_vars => BookInv'
<1> SUFFICES ASSUME BookInv, [Next]_vars PROVE BookInv'
  OBVIOUS
<1>1. ASSUME NEW i \in Ids, Begin(i) \/ Place(i) \/ NotPlaced(i) \/ GetOrder(i) PROVE BookInv'
  BY <1>1, BeginKeeps, PlaceKeeps, NotPlacedKeeps, GetOrderKeeps
<1>2. CASE ListOrders \/ ListRows \/ ListRefused \/ Lines
  BY <1>2, ListOrdersKeeps, ListRowsKeeps, ListRefusedKeeps, LinesKeeps
<1>3. CASE Tick
  <2>1. /\ now < MaxClock /\ now' = now + 1 /\ begun' = begun /\ stamp' = stamp
        /\ orders' = orders /\ order_lines' = order_lines /\ UNCHANGED walk
    BY <1>3 DEF Tick, book
  <2>2. BookType'
    <3>1. MaxClock \in Nat /\ now \in 0..MaxClock
      BY OrderBookAssumption DEF BookInv, BookType, TypeOK, OrderBookAssumption
    <3>2. now' \in 0..MaxClock
      BY <2>1, <3>1
    <3> QED BY <2>1, <3>2 DEF BookInv, BookType, TypeOK, walk
  <2>3. RowsAreOrders'
    BY <2>1 DEF BookInv, RowsAreOrders
  <2>4. PageIsSorted' /\ WalkIsOnCourse'
    BY <2>1, ReaderUndisturbed DEF Committed
  <2> QED BY <2>2, <2>3, <2>4 DEF BookInv
<1>4. CASE UNCHANGED vars
  <2>1. /\ now' = now /\ begun' = begun /\ stamp' = stamp
        /\ orders' = orders /\ order_lines' = order_lines /\ UNCHANGED walk
    BY <1>4 DEF vars, walk
  <2>2. BookType' /\ RowsAreOrders'
    BY <2>1 DEF BookInv, BookType, TypeOK, RowsAreOrders, walk
  <2>3. PageIsSorted' /\ WalkIsOnCourse'
    BY <2>1, ReaderUndisturbed DEF Committed
  <2> QED BY <2>2, <2>3 DEF BookInv
<1> QED BY <1>1, <1>2, <1>3, <1>4 DEF Next

\* The rows are what their lines make them, and a walk is where its token says.
THEOREM BookInvariant == Spec => []BookInv
  BY InitBook, BookStep, PTL DEF Spec

\* An order is owed exactly what its lines cost, each in the order's currency:
\* Subtotal, sum and NewOrder leave no cart and no prices that wrap around.
THEOREM TotalsAreExact == Spec => []TotalIsExact
<1>1. BookInv => TotalIsExact
  BY DEF BookInv, RowsAreOrders, TotalIsExact, Committed
<1> QED BY <1>1, BookInvariant, PTL

\* A page in hand holds orders of the caller, whole.
LEMMA PagesAreWhole == BookInv => ShownWhole
<1> SUFFICES ASSUME BookInv, client.at = "lines", NEW x \in Answered
             PROVE  OwnerOf[x.row.id] = Caller /\ x.lines # <<>> /\ x.row.total = Owed(x.lines)
  BY DEF ShownWhole
<1>1. DOMAIN client.page = 1..Len(client.page)
  <2>1. client.page \in Seq(OrderRow)
    BY DEF BookInv, BookType, Walks
  <2> QED BY <2>1, LenProperties
<1>2. PICK k \in 1..Len(client.page) : x = [row |-> client.page[k], lines |-> order_lines[client.page[k].id]]
  BY <1>1 DEF Answered, toDomain
<1>3. IsRow(client.page[k])
  BY DEF BookInv, PageIsSorted
<1>4. x.row = client.page[k] /\ x.lines = order_lines[x.row.id]
  BY <1>2
<1>5. x.row.id \in Ids /\ orders[x.row.id] = x.row /\ orders[x.row.id] # None /\ OwnerOf[x.row.id] = Caller
  BY <1>3, <1>4 DEF IsRow, Committed
<1> QED BY <1>4, <1>5 DEF BookInv, RowsAreOrders

\* A client is shown its own orders, each whole and each once: the position the
\* token holds divides what ListOrdersByUser has returned from what it will return,
\* whatever is committed between two pages and between the statements of one.
THEOREM OrdersShownOnce == Spec => []OrdersAreShownOnce
<1>1. BookInv => EveryOrderListedOnce
  BY DEF BookInv, WalkIsOnCourse, EveryOrderListedOnce
<1>2. BookInv => TypeOK
  BY DEF BookInv, BookType
<1>3. BookInv => OrdersAreShownOnce
  BY <1>1, <1>2, PagesAreWhole DEF OrdersAreShownOnce
<1> QED BY <1>3, BookInvariant, PTL
=============================================================================
