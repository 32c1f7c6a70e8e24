-------------------------- MODULE OwnerViewProofs --------------------------
(***************************************************************************)
(* Proofs about StartupContext and OwnerView, for any memories, filters,   *)
(* budgets and tabs.                                                       *)
(*                                                                         *)
(* A list is in an order if it has everything once and puts the earlier    *)
(* first (Lists).  What a page in such an order holds is known record by   *)
(* record (PageHolds); the query's order and the balance of the scopes are *)
(* orders, so that an agent's start is fair and the owner's preview of it  *)
(* agrees with it.                                                         *)
(*                                                                         *)
(* A list that was cut into pages is the list as it was: a reference names *)
(* a version, and versions are only ever added.  What a tab needs besides  *)
(* is that the snapshot its cursor finds is the one it began with: the     *)
(* cursor is the digest of the references themselves.                      *)
(*                                                                         *)
(* The pager makes room by dropping what expires first; that ends, and it  *)
(* stays within its limits (RoomInv).                                      *)
(***************************************************************************)
EXTENDS OwnerView, FiniteSetTheorems, TLAPS

----------------------------------------------------------------------------
(* The loop of a page *)

\* What holds at 0 and of n whenever it holds of n - 1 holds up to N.
LEMMA Climbs ==
  ASSUME NEW N \in Nat, NEW G, 0 \in G, \A n \in 1 .. N : n - 1 \in G => n \in G
  PROVE  \A n \in 0 .. N : n \in G
  <1> DEFINE bad == {n \in 0 .. N : n \notin G}
             less == OpToRel(<, Nat)
  <1> SUFFICES ASSUME bad # {}
               PROVE  FALSE
    OBVIOUS
  <1>1. IsWellFoundedOn(less, Nat)
    BY NatLessThanWellFounded
  <1>2. \A x, y \in Nat : x < y => <<x, y>> \in less
    BY DEF OpToRel
  <1>3. bad \subseteq Nat
    OBVIOUS
  <1> HIDE DEF less
  <1>4. PICK n \in bad : \A m \in bad : <<m, n>> \notin less
    BY <1>1, <1>3, WFMin
  <1>5. n \in 1 .. N /\ n - 1 \in 0 .. N /\ {n, n - 1} \subseteq Nat /\ n - 1 < n
    BY <1>4
  <1>6. n - 1 \notin bad
    <2> HIDE DEF bad
    <2> QED BY <1>2, <1>4, <1>5
  <1> QED BY <1>4, <1>5, <1>6

\* One turn of the loop of boundRecords.
Takes(before, r, budget) == before \cup {s \in {r} : SizeOf(before) + s.size <= Clamped(budget)}

\* The loop has an outcome.
LEMMA LoopRuns ==
  ASSUME NEW list, Len(list) \in Nat, NEW budget
  PROVE  \E loaded : /\ loaded[0] = {} /\ BoundRecords(list, budget) = loaded[Len(list)]
                     /\ \A n \in 1 .. Len(list) : loaded[n] = Takes(loaded[n - 1], list[n], budget)
  <1> DEFINE N == Len(list)
             run(f, k) == IF k = 0 THEN {} ELSE Takes(f[k - 1], list[k], budget)
             G == {n \in 0 .. N : \E f : f = [k \in 0 .. n |-> run(f, k)]}
  <1>1. 0 \in G
    <2> DEFINE f == [k \in 0 .. 0 |-> {}]
    <2>1. f = [k \in 0 .. 0 |-> run(f, k)]
      OBVIOUS
    <2> HIDE DEF f, run
    <2> QED BY <2>1
  <1>2. ASSUME NEW n \in 1 .. N, n - 1 \in G
        PROVE  n \in G
    <2>1. PICK f : f = [k \in 0 .. n - 1 |-> run(f, k)]
      BY <1>2
    <2> DEFINE g == [k \in 0 .. n |-> IF k = n THEN Takes(f[n - 1], list[n], budget) ELSE f[k]]
    <2>2. ASSUME NEW k \in 0 .. n
          PROVE  g[k] = run(g, k)
      <3>1. CASE k = 0
        BY <2>1, <3>1
      <3>2. CASE k \in 1 .. n - 1
        <4>1. k \in 0 .. n - 1 /\ k - 1 \in 0 .. n /\ k - 1 # n /\ k # 0 /\ k # n
          BY <3>2
        <4>2. g[k] = f[k] /\ g[k - 1] = f[k - 1]
          BY <4>1
        <4>3. f[k] = run(f, k)
          BY <2>1, <4>1
        <4> QED BY <4>1, <4>2, <4>3
      <3>3. CASE k = n
        <4>1. k - 1 \in 0 .. n /\ k - 1 # n /\ k # 0
          BY <3>3
        <4>2. g[k - 1] = f[k - 1]
          BY <4>1
        <4> QED BY <3>3, <4>1, <4>2
      <3>4. n \in Nat /\ k \in Nat
        OBVIOUS
      <3> QED BY <3>1, <3>2, <3>3, <3>4
    <2>3. g = [k \in 0 .. n |-> run(g, k)]
      BY <2>2
    <2>4. n \in 0 .. N
      OBVIOUS
    <2> HIDE DEF g, run
    <2> QED BY <2>3, <2>4
  <1>3. N \in G
    <2>1. N \in 0 .. N
      OBVIOUS
    <2> HIDE DEF G
    <2> QED BY <1>1, <1>2, <2>1, Climbs
  <1> DEFINE loaded == CHOOSE f : f = [k \in 0 .. N |-> run(f, k)]
  <1>4. loaded = [k \in 0 .. N |-> run(loaded, k)]
    BY <1>3
  <1>5. BoundRecords(list, budget) = loaded[N]
    BY DEF BoundRecords, Takes
  <1> HIDE DEF loaded
  <1>6. loaded[0] = {} /\ \A n \in 1 .. N : loaded[n] = run(loaded, n)
    <2>1. \A n \in 0 .. N : loaded[n] = run(loaded, n)
      <3> HIDE DEF run
      <3> QED BY <1>4
    <2>2. 0 \in 0 .. N /\ \A n \in 1 .. N : n \in 0 .. N
      OBVIOUS
    <2> QED BY <2>1, <2>2
  <1> QED BY <1>5, <1>6

----------------------------------------------------------------------------
(* The units of records *)

Sized(records) == IsFiniteSet(records) /\ \A r \in records : r.size \in Nat

Units(r) == {r} \X (1 .. r.size)

LEMMA UnitsCount ==
  ASSUME NEW r, r.size \in Nat
  PROVE  IsFiniteSet(Units(r)) /\ Cardinality(Units(r)) = r.size
  <1>1. IsFiniteSet({r}) /\ Cardinality({r}) = 1
    BY FS_Singleton
  <1>2. IsFiniteSet(1 .. r.size) /\ Cardinality(1 .. r.size) = r.size
    <2>1. 1 \in Int /\ r.size \in Int
      OBVIOUS
    <2>2. /\ IsFiniteSet(1 .. r.size)
          /\ Cardinality(1 .. r.size) = IF 1 > r.size THEN 0 ELSE r.size - 1 + 1
      BY <2>1, FS_Interval
    <2> QED BY <2>2
  <1> QED BY <1>1, <1>2, FS_Product DEF Units

LEMMA SizeMeans == ASSUME NEW records PROVE SizeOf(records) = Cardinality(UNION {Units(r) : r \in records})
  BY DEF SizeOf, Units

LEMMA UnitsFinite ==
  ASSUME NEW records, Sized(records)
  PROVE  IsFiniteSet(UNION {Units(r) : r \in records})
  <1> DEFINE S == {Units(r) : r \in records}
             f == [r \in records |-> Units(r)]
  <1>1. f \in Surjection(records, S)
    BY DEF Surjection
  <1>2. IsFiniteSet(S)
    <2> HIDE DEF f, S
    <2> QED BY <1>1, FS_Surjection DEF Sized
  <1>3. \A T \in S : IsFiniteSet(T)
    BY UnitsCount DEF Sized
  <1> HIDE DEF S
  <1>4. IsFiniteSet(UNION S)
    BY <1>2, <1>3, FS_UNION
  <1> QED BY <1>4 DEF S

\* More records do not take less.
LEMMA SizeGrows ==
  ASSUME NEW records, Sized(records), NEW some \in SUBSET records
  PROVE  Sized(some) /\ SizeOf(some) \in Nat /\ SizeOf(some) <= SizeOf(records)
  <1> DEFINE A == UNION {Units(r) : r \in records}
             B == UNION {Units(r) : r \in some}
  <1>1. IsFiniteSet(A) /\ B \subseteq A
    BY UnitsFinite
  <1> HIDE DEF A, B
  <1>2. IsFiniteSet(B) /\ Cardinality(B) \in Nat /\ Cardinality(B) <= Cardinality(A)
    BY <1>1, FS_Subset, FS_CardinalityType
  <1>3. Sized(some)
    BY FS_Subset DEF Sized
  <1> QED BY <1>2, <1>3, SizeMeans DEF A, B

LEMMA SizeAdds ==
  ASSUME NEW records, Sized(records), NEW r, r.size \in Nat, r \notin records
  PROVE  Sized(records \cup {r}) /\ SizeOf(records \cup {r}) = SizeOf(records) + r.size
  <1> DEFINE A == UNION {Units(s) : s \in records}
             B == UNION {Units(s) : s \in records \cup {r}}
  <1>1. B = A \cup Units(r) /\ A \cap Units(r) = {}
    BY DEF Units
  <1>2. IsFiniteSet(A) /\ IsFiniteSet(Units(r)) /\ Cardinality(Units(r)) = r.size
    BY UnitsFinite, UnitsCount
  <1>3. Cardinality(A \cap Units(r)) = 0
    BY <1>1, FS_EmptySet
  <1>4. Sized(records \cup {r})
    BY FS_AddElement DEF Sized
  <1> HIDE DEF A, B
  <1>5. Cardinality(B) = Cardinality(A) + Cardinality(Units(r)) - Cardinality(A \cap Units(r)) /\ Cardinality(A) \in Nat
    BY <1>1, <1>2, FS_Union, FS_CardinalityType
  <1>6. Cardinality(B) = Cardinality(A) + r.size
    BY <1>2, <1>3, <1>5
  <1> QED BY <1>4, <1>6, SizeMeans DEF A, B

----------------------------------------------------------------------------
(* Lists in an order *)

\* A list of everything in S, in the order R.
Lists(list, S, R) ==
  /\ list \in Seq(S) /\ Len(list) = Cardinality(S)
  /\ \A x \in S : \E n \in 1 .. Len(list) : list[n] = x
  /\ \A m, n \in 1 .. Len(list) : m < n <=> <<list[m], list[n]>> \in R

LEMMA ListsOnce ==
  ASSUME NEW S, NEW R, NEW list, Lists(list, S, R), NEW m \in 1 .. Len(list), NEW n \in 1 .. Len(list),
         list[m] = list[n]
  PROVE  m = n
  <1>1. Len(list) \in Nat
    BY DEF Lists
  <1>2. ~(m < n) /\ ~(n < m)
    <2>1. m < n <=> <<list[m], list[n]>> \in R
      BY DEF Lists
    <2>2. n < m <=> <<list[n], list[m]>> \in R
      BY DEF Lists
    <2>3. n < n <=> <<list[n], list[n]>> \in R
      BY DEF Lists
    <2> QED BY <1>1, <2>1, <2>2, <2>3
  <1> QED BY <1>1, <1>2

LEMMA ClampedBudget == ASSUME NEW budget \in Nat PROVE Clamped(budget) \in Nat
  BY BudgetAssumption DEF Clamped

\* What a page holds: of every record whether it still fits after those before it.
LEMMA PageHolds ==
  ASSUME NEW S, Sized(S), NEW R, NEW list, Lists(list, S, R), NEW budget \in Nat
  PROVE  /\ BoundRecords(list, budget) \subseteq S
         /\ SizeOf(BoundRecords(list, budget)) <= Clamped(budget)
         /\ \A r \in S :
              r \in BoundRecords(list, budget) <=>
              SizeOf({s \in BoundRecords(list, budget) : <<s, r>> \in R}) + r.size <= Clamped(budget)
  <1> DEFINE N == Len(list)
             C == Clamped(budget)
             page == BoundRecords(list, budget)
  <1>1. N \in Nat /\ \A n \in 1 .. N : list[n] \in S
    BY DEF Lists
  <1>2. PICK loaded : /\ loaded[0] = {} /\ page = loaded[N]
                      /\ \A n \in 1 .. N : loaded[n] = Takes(loaded[n - 1], list[n], budget)
    <2>1. Len(list) \in Nat
      BY <1>1
    <2> QED BY <2>1, LoopRuns
  <1>3. C \in Nat
    BY ClampedBudget
  <1>4. \A m, n \in 1 .. N : list[m] = list[n] => m = n
    BY ListsOnce
  <1> HIDE DEF N, C, page
  <1> DEFINE G == {k \in 0 .. N : /\ loaded[k] \subseteq {list[m] : m \in 1 .. k} /\ SizeOf(loaded[k]) <= C
                                  /\ \A m \in 1 .. k : list[m] \in loaded[k] <=> list[m] \in loaded[m]}
  <1>5. 0 \in G
    <2>1. SizeOf({}) = 0
      <3>1. UNION {Units(r) : r \in {}} = {}
        OBVIOUS
      <3> QED BY <3>1, SizeMeans, FS_EmptySet
    <2> QED BY <1>1, <1>2, <1>3, <2>1
  <1>6. ASSUME NEW n \in 1 .. N, n - 1 \in G
        PROVE  n \in G
    <2> DEFINE before == loaded[n - 1]
               r == list[n]
    <2>1. before \subseteq {list[m] : m \in 1 .. n - 1} /\ SizeOf(before) <= C
          /\ \A m \in 1 .. n - 1 : list[m] \in before <=> list[m] \in loaded[m]
      BY <1>6
    <2>2. n \in Nat /\ 1 .. n - 1 \subseteq 1 .. N /\ n \notin 1 .. n - 1 /\ 1 .. n = 1 .. n - 1 \cup {n} /\ n \in 0 .. N
      BY <1>1
    <2>3. r \notin before
      BY <1>4, <2>1, <2>2
    <2>4. before \subseteq S /\ r \in S
      BY <1>1, <2>1, <2>2
    <2>5. Sized(before) /\ SizeOf(before) \in Nat /\ r.size \in Nat
      BY <2>4, SizeGrows DEF Sized
    <2>6. SizeOf(before \cup {r}) = SizeOf(before) + r.size
      BY <2>3, <2>5, SizeAdds
    <2>7. loaded[n] = IF SizeOf(before) + r.size <= C THEN before \cup {r} ELSE before
      <3>1. loaded[n] = before \cup {s \in {r} : SizeOf(before) + s.size <= C}
        BY <1>2 DEF Takes, C
      <3> HIDE DEF before, r
      <3> QED BY <3>1
    <2>8. SizeOf(loaded[n]) <= C
      BY <2>1, <2>6, <2>7
    <2>9. loaded[n] \subseteq {list[m] : m \in 1 .. n}
      BY <2>1, <2>2, <2>7
    <2>10. \A m \in 1 .. n : list[m] \in loaded[n] <=> list[m] \in loaded[m]
      <3>1. \A m \in 1 .. n - 1 : list[m] # r
        BY <1>4, <2>2
      <3>2. \A m \in 1 .. n - 1 : list[m] \in loaded[n] <=> list[m] \in before
        <4> HIDE DEF before, r
        <4> QED BY <2>7, <3>1
      <3> QED BY <2>1, <2>2, <3>2
    <2> QED BY <2>2, <2>8, <2>9, <2>10
  <1>7. \A k \in 0 .. N : k \in G
    <2> HIDE DEF G
    <2> QED BY <1>1, <1>5, <1>6, Climbs
  <1>8. page \subseteq S /\ SizeOf(page) <= C
    <2>1. N \in 0 .. N
      BY <1>1
    <2>2. loaded[N] \subseteq {list[m] : m \in 1 .. N} /\ SizeOf(loaded[N]) <= C
      BY <1>7, <2>1
    <2> QED BY <1>1, <1>2, <2>2
  <1>9. ASSUME NEW r \in S
        PROVE  r \in page <=> SizeOf({s \in page : <<s, r>> \in R}) + r.size <= C
    <2>1. PICK n \in 1 .. N : list[n] = r
      BY DEF Lists, N
    <2>2. /\ n - 1 \in 0 .. N /\ n \in 0 .. N /\ N \in 0 .. N /\ 1 .. n - 1 \subseteq 1 .. N
          /\ \A m \in 1 .. N : m < n <=> m \in 1 .. n - 1
      BY <1>1
    <2> DEFINE before == loaded[n - 1]
    <2>3. before \subseteq {list[m] : m \in 1 .. n - 1} /\ \A m \in 1 .. n - 1 : list[m] \in before <=> list[m] \in loaded[m]
      BY <1>7, <2>2
    <2>4. \A m \in 1 .. N : list[m] \in page <=> list[m] \in loaded[m]
      BY <1>2, <1>7, <2>2
    <2>5. \A m \in 1 .. N : m < n <=> <<list[m], r>> \in R
      BY <2>1 DEF Lists, N
    <2>6. page \subseteq {list[m] : m \in 1 .. N}
      BY <1>2, <1>7, <2>2
    <2> HIDE DEF before
    <2>7. {s \in page : <<s, r>> \in R} = before
      <3>1. ASSUME NEW s \in page, <<s, r>> \in R
            PROVE  s \in before
        BY <2>2, <2>3, <2>4, <2>5, <2>6, <3>1
      <3>2. ASSUME NEW s \in before
            PROVE  s \in page /\ <<s, r>> \in R
        BY <2>2, <2>3, <2>4, <2>5
      <3> QED BY <3>1, <3>2
    <2>8. r \notin before
      <3>1. ~(n < n)
        BY <1>1
      <3> QED BY <1>4, <2>1, <2>2, <2>3, <3>1
    <2>9. r \in loaded[n] <=> SizeOf(before) + r.size <= C
      <3>1. loaded[n] = before \cup {s \in {r} : SizeOf(before) + s.size <= C}
        BY <1>2, <2>1 DEF Takes, C, before
      <3> QED BY <2>8, <3>1
    <2> QED BY <2>1, <2>4, <2>7, <2>9
  <1> QED BY <1>8, <1>9 DEF C, page

\* R puts S in a strict order.
Orders(R, S) ==
  /\ IsFiniteSet(S)
  /\ \A x \in S : <<x, x>> \notin R
  /\ \A x, y \in S : x # y => <<x, y>> \in R \/ <<y, x>> \in R
  /\ \A x, y, z \in S : <<x, y>> \in R /\ <<y, z>> \in R => <<x, z>> \in R

\* How many come before x.
Place(x, S, R) == Cardinality({y \in S : <<y, x>> \in R})

LEMMA Places ==
  ASSUME NEW S, NEW R, Orders(R, S)
  PROVE  /\ \A x \in S : Place(x, S, R) \in 0 .. Cardinality(S) - 1
         /\ \A x, y \in S : /\ <<x, y>> \in R <=> Place(x, S, R) < Place(y, S, R)
                            /\ Place(x, S, R) = Place(y, S, R) => x = y
         /\ \A n \in 1 .. Cardinality(S) : \E x \in S : Place(x, S, R) = n - 1
  <1> DEFINE N == Cardinality(S)
             place(x) == Place(x, S, R)
             f == [x \in S |-> place(x)]
  <1>1. N \in Nat /\ IsFiniteSet(S)
    BY FS_CardinalityType DEF Orders
  <1>2. ASSUME NEW x \in S
        PROVE  place(x) \in 0 .. N - 1
    <2> DEFINE X == {y \in S : <<y, x>> \in R}
    <2>1. X \subseteq S \ {x} /\ place(x) = Cardinality(X)
      BY DEF Orders, Place
    <2>2. IsFiniteSet(S \ {x}) /\ Cardinality(S \ {x}) = N - 1
      BY <1>1, FS_RemoveElement
    <2> HIDE DEF X, N, place
    <2>3. IsFiniteSet(X) /\ Cardinality(X) <= N - 1
      BY <2>1, <2>2, FS_Subset
    <2>4. Cardinality(X) \in Nat
      BY <2>3, FS_CardinalityType
    <2> QED BY <1>1, <2>1, <2>3, <2>4
  <1>3. ASSUME NEW x \in S, NEW y \in S, <<x, y>> \in R
        PROVE  place(x) < place(y)
    <2> DEFINE X == {z \in S : <<z, x>> \in R}
               Y == {z \in S : <<z, y>> \in R}
    <2>1. X \subseteq Y /\ x \in Y /\ x \notin X
      BY <1>3 DEF Orders
    <2>2. IsFiniteSet(X) /\ IsFiniteSet(Y)
      BY <1>1, FS_Subset
    <2>3. place(x) = Cardinality(X) /\ place(y) = Cardinality(Y)
      BY DEF Place
    <2> HIDE DEF X, Y, place
    <2>4. Cardinality(X) <= Cardinality(Y) /\ Cardinality(X) # Cardinality(Y)
      BY <2>1, <2>2, FS_Subset
    <2>5. Cardinality(X) \in Nat /\ Cardinality(Y) \in Nat
      BY <2>2, FS_CardinalityType
    <2> QED BY <2>3, <2>4, <2>5
  <1> HIDE DEF N, place
  <1>4. ASSUME NEW x \in S, NEW y \in S, place(x) <= place(y), <<x, y>> \notin R
        PROVE  x = y
    <2> SUFFICES ASSUME x # y
                 PROVE  FALSE
      OBVIOUS
    <2>1. <<y, x>> \in R
      BY <1>4 DEF Orders
    <2> QED BY <1>2, <1>3, <1>4, <2>1
  <1>5. \A x, y \in S : /\ <<x, y>> \in R <=> place(x) < place(y)
                        /\ place(x) = place(y) => x = y
    <2> SUFFICES ASSUME NEW x \in S, NEW y \in S
                 PROVE  /\ <<x, y>> \in R <=> place(x) < place(y)
                        /\ place(x) = place(y) => x = y
      OBVIOUS
    <2>1. place(x) \in Nat /\ place(y) \in Nat
      BY <1>2
    <2> QED BY <1>3, <1>4, <2>1
  <1>6. f \in Surjection(S, 0 .. N - 1)
    <2>1. f \in Injection(S, 0 .. N - 1)
      BY <1>2, <1>5 DEF Injection, IsInjective
    <2>2. IsFiniteSet(0 .. N - 1) /\ Cardinality(0 .. N - 1) = N
      <3>1. 0 \in Int /\ N - 1 \in Int
        BY <1>1
      <3> QED BY <1>1, <3>1, FS_Interval
    <2> HIDE DEF f
    <2>3. Cardinality(S) = Cardinality(0 .. N - 1)
      BY <2>2 DEF N
    <2> QED BY <2>1, <2>2, <2>3, FS_Injection
  <1>7. ASSUME NEW n \in 1 .. N
        PROVE  \E x \in S : place(x) = n - 1
    <2>1. n - 1 \in 0 .. N - 1
      BY <1>1
    <2> QED BY <1>6, <2>1 DEF Surjection
  <1> QED BY <1>2, <1>5, <1>7 DEF N, place

\* Counting what comes earlier puts a set in order.
LEMMA OrderedLists ==
  ASSUME NEW S, NEW R, Orders(R, S), NEW earlier, earlier = [x \in S |-> {y \in S : <<y, x>> \in R}]
  PROVE  Lists(Ordered(earlier), S, R)
  <1> DEFINE N == Cardinality(S)
             list == Ordered(earlier)
             pick(n) == CHOOSE x \in S : Cardinality(earlier[x]) = n - 1
  <1>1. N \in Nat
    BY FS_CardinalityType DEF Orders
  <1>2. list \in [1 .. N -> S] /\ \A n \in 1 .. N : list[n] \in S /\ Place(list[n], S, R) = n - 1
    <2>1. list = [n \in 1 .. N |-> pick(n)]
      <3>1. DOMAIN earlier = S
        OBVIOUS
      <3> QED BY <3>1 DEF Ordered
    <2>2. \A x \in S : Cardinality(earlier[x]) = Place(x, S, R)
      BY DEF Place
    <2>3. ASSUME NEW n \in 1 .. N
          PROVE  pick(n) \in S /\ Place(pick(n), S, R) = n - 1
      <3>1. \E x \in S : Cardinality(earlier[x]) = n - 1
        BY <2>2, Places
      <3>2. pick(n) \in S /\ Cardinality(earlier[pick(n)]) = n - 1
        BY <3>1
      <3> HIDE DEF pick
      <3> QED BY <2>2, <3>2
    <2> HIDE DEF N, list, pick
    <2> QED BY <2>1, <2>3
  <1> HIDE DEF list
  <1>3. list \in Seq(S) /\ Len(list) = N
    BY <1>1, <1>2
  <1>4. ASSUME NEW x \in S
        PROVE  \E n \in 1 .. N : list[n] = x
    <2>1. Place(x, S, R) \in 0 .. N - 1
      BY Places
    <2>2. PICK n \in 1 .. N : n - 1 = Place(x, S, R)
      <3>1. \A k \in 0 .. N - 1 : k + 1 \in 1 .. N /\ (k + 1) - 1 = k
        BY <1>1
      <3> QED BY <2>1, <3>1
    <2>3. list[n] \in S /\ Place(list[n], S, R) = Place(x, S, R)
      BY <1>2, <2>2
    <2> QED BY <2>3, Places
  <1>5. ASSUME NEW m \in 1 .. N, NEW n \in 1 .. N
        PROVE  m < n <=> <<list[m], list[n]>> \in R
    <2>1. list[m] \in S /\ list[n] \in S /\ Place(list[m], S, R) = m - 1 /\ Place(list[n], S, R) = n - 1
      BY <1>2
    <2>2. <<list[m], list[n]>> \in R <=> m - 1 < n - 1
      BY <2>1, Places
    <2> QED BY <1>1, <2>2
  <1> QED BY <1>3, <1>4, <1>5 DEF Lists, list

----------------------------------------------------------------------------
(* The order of a query *)

LEMMA RankOrders ==
  /\ \A p \in DOMAIN Rank : Rank[p] \in Nat
  /\ \A p, q \in DOMAIN Rank : Rank[p] = Rank[q] => p = q
  BY DEF Rank

\* Rows of a table: every memory once.
Rows(rows) == rows \subseteq Record /\ IsFiniteSet(rows) /\ \A r, s \in rows : r.id = s.id => r = s

LEMMA BeforeMeans ==
  ASSUME NEW rows, Rows(rows), NEW r \in rows, NEW s \in rows
  PROVE  /\ {Rank[r.purpose], r.updated, r.id} \subseteq Nat
         /\ r.id = s.id => r = s
         /\ Before(r, s) <=> \/ Rank[r.purpose] < Rank[s.purpose]
                             \/ Rank[r.purpose] = Rank[s.purpose] /\ r.updated > s.updated
                             \/ Rank[r.purpose] = Rank[s.purpose] /\ r.updated = s.updated /\ r.id > s.id
  <1>1. r \in Record /\ s \in Record /\ (r.id = s.id => r = s)
    BY DEF Rows
  <1>2. {r.purpose, s.purpose} \subseteq DOMAIN Rank /\ {r.updated, r.id} \subseteq Nat
    BY <1>1 DEF Record
  <1>3. /\ Rank[r.purpose] \in Nat
        /\ r.purpose = s.purpose <=> Rank[r.purpose] = Rank[s.purpose]
    BY <1>2, RankOrders
  <1> QED BY <1>1, <1>2, <1>3 DEF Before, Newer

LEMMA BeforeOrders ==
  ASSUME NEW rows, Rows(rows), NEW r \in rows, NEW s \in rows, NEW t \in rows
  PROVE  /\ ~Before(r, r)
         /\ r # s => Before(r, s) \/ Before(s, r)
         /\ Before(r, s) /\ Before(s, t) => Before(r, t)
  <1>1. ~Before(r, r)
    BY BeforeMeans
  <1>2. r # s => Before(r, s) \/ Before(s, r)
    <2>1. {Rank[r.purpose], r.updated, r.id, Rank[s.purpose], s.updated, s.id} \subseteq Nat /\ (r.id = s.id => r = s)
      BY BeforeMeans
    <2> QED BY <2>1, BeforeMeans
  <1>3. Before(r, s) /\ Before(s, t) => Before(r, t)
    <2>1. {Rank[r.purpose], r.updated, r.id, Rank[s.purpose], s.updated, s.id,
           Rank[t.purpose], t.updated, t.id} \subseteq Nat
      BY BeforeMeans
    <2> QED BY <2>1, BeforeMeans
  <1> QED BY <1>1, <1>2, <1>3

InQuery(rows) == {p \in rows \X rows : Before(p[1], p[2])}

LEMMA QueryOrders == ASSUME NEW rows, Rows(rows) PROVE Orders(InQuery(rows), rows)
  <1>1. \A r, s \in rows : <<r, s>> \in InQuery(rows) <=> Before(r, s)
    BY DEF InQuery
  <1>2. \A r, s, t \in rows : /\ ~Before(r, r)
                              /\ r # s => Before(r, s) \/ Before(s, r)
                              /\ Before(r, s) /\ Before(s, t) => Before(r, t)
    BY BeforeOrders
  <1> QED BY <1>1, <1>2 DEF Orders, Rows

LEMMA SortedIsList == ASSUME NEW rows, Rows(rows) PROVE Lists(Sorted(rows), rows, InQuery(rows))
  <1> DEFINE earlier == [r \in rows |-> {s \in rows : Before(s, r)}]
  <1>1. earlier = [r \in rows |-> {s \in rows : <<s, r>> \in InQuery(rows)}]
    BY DEF InQuery
  <1>2. Sorted(rows) = Ordered(earlier)
    BY DEF Sorted
  <1> HIDE DEF earlier
  <1> QED BY <1>1, <1>2, QueryOrders, OrderedLists

\* The query gives every row once, in its order.
THEOREM SortedLists ==
  ASSUME NEW rows, Rows(rows)
  PROVE  /\ Sorted(rows) \in Seq(rows) /\ Len(Sorted(rows)) = Cardinality(rows)
         /\ \A r \in rows : \E n \in 1 .. Cardinality(rows) : Sorted(rows)[n] = r
         /\ \A m, n \in 1 .. Cardinality(rows) : m < n <=> Before(Sorted(rows)[m], Sorted(rows)[n])
  <1> DEFINE list == Sorted(rows)
  <1>1. Lists(list, rows, InQuery(rows))
    BY SortedIsList
  <1> HIDE DEF list
  <1>2. list \in Seq(rows) /\ Len(list) = Cardinality(rows)
    BY <1>1 DEF Lists
  <1>3. \A n \in 1 .. Len(list) : list[n] \in rows
    BY <1>2
  <1>4. \A m, n \in 1 .. Len(list) : <<list[m], list[n]>> \in InQuery(rows) <=> Before(list[m], list[n])
    BY <1>3 DEF InQuery
  <1>5. \A m, n \in 1 .. Len(list) : m < n <=> Before(list[m], list[n])
    BY <1>1, <1>4 DEF Lists
  <1>6. \A r \in rows : \E n \in 1 .. Len(list) : list[n] = r
    BY <1>1 DEF Lists
  <1> QED BY <1>2, <1>5, <1>6 DEF list

----------------------------------------------------------------------------
(* The balance between scopes *)

Group(r, records) == {s \in records : ~IsHandoff(s) /\ (OfProject(s) <=> OfProject(r))}

ByAge(rows) == {p \in rows \X rows : Newer(p[1], p[2])}

LEMMA NewerOrders ==
  ASSUME NEW rows, Rows(rows), NEW some \in SUBSET rows
  PROVE  Orders(ByAge(some), some)
  <1>1. \A r, s \in some : <<r, s>> \in ByAge(some) <=> Newer(r, s)
    BY DEF ByAge
  <1>2. \A r, s \in some : {r.updated, r.id} \subseteq Nat /\ (r.id = s.id => r = s)
    BY BeforeMeans
  <1>3. \A r, s, t \in some : /\ ~Newer(r, r)
                              /\ r # s => Newer(r, s) \/ Newer(s, r)
                              /\ Newer(r, s) /\ Newer(s, t) => Newer(r, t)
    BY <1>2 DEF Newer
  <1>4. IsFiniteSet(some)
    BY FS_Subset DEF Rows
  <1> QED BY <1>1, <1>3, <1>4 DEF Orders

\* In its group every record has a round of its own, the newest one the first.
LEMMA RoundsDiffer ==
  ASSUME NEW records, Rows(records), NEW r \in records, ~IsHandoff(r)
  PROVE  /\ Round(r, records) \in Nat \ {0}
         /\ Round(r, records) = 1 => \A s \in Group(r, records) : s = r \/ Newer(r, s)
         /\ (\A s \in Group(r, records) : s = r \/ Newer(r, s)) => Round(r, records) = 1
         /\ \A s \in Group(r, records) : Round(s, records) = Round(r, records) => s = r
  <1> DEFINE G == Group(r, records)
             R == ByAge(G)
             newer(s) == Cardinality({u \in G : Newer(u, s)})
             older(s) == Cardinality({u \in G : Newer(s, u)})
  <1>1. G \subseteq records /\ r \in G /\ \A s \in G : s \in records /\ ~IsHandoff(s) /\ Group(s, records) = G
    BY DEF Group
  <1>2. Orders(R, G) /\ IsFiniteSet(G)
    <2>1. Orders(R, G)
      BY <1>1, NewerOrders
    <2> QED BY <2>1 DEF Orders
  <1>3. \A s \in G : Place(s, G, R) = newer(s)
    <2>1. \A s \in G : {u \in G : Newer(u, s)} = {u \in G : <<u, s>> \in R}
      BY DEF ByAge
    <2> HIDE DEF G, R
    <2> QED BY <2>1 DEF Place
  <1>4. \A s \in G : Round(s, records) = IF newer(s) <= older(s) THEN 2 * newer(s) + 1 ELSE 2 * older(s) + 2
    BY <1>1 DEF Round, Group
  <1>5. \A s, u \in G : <<s, u>> \in R <=> Newer(s, u)
    BY DEF ByAge
  <1> HIDE DEF G, R
  <1>6. ASSUME NEW s \in G
        PROVE  newer(s) \in Nat /\ older(s) \in Nat /\ newer(s) + older(s) + 1 = Cardinality(G)
    <2> DEFINE A == {u \in G : Newer(u, s)}
               B == {u \in G : Newer(s, u)}
    <2>1. A \cap B = {} /\ A \cup B = G \ {s}
      BY <1>2, <1>5 DEF Orders
    <2>2. IsFiniteSet(A) /\ IsFiniteSet(B)
      BY <1>2, FS_Subset
    <2>a. newer(s) = Cardinality(A) /\ older(s) = Cardinality(B)
      OBVIOUS
    <2> HIDE DEF A, B, newer, older
    <2>3. Cardinality(A) \in Nat /\ Cardinality(B) \in Nat /\ Cardinality(A \cap B) = 0
      BY <2>1, <2>2, FS_CardinalityType, FS_EmptySet
    <2>4. Cardinality(A \cup B) = Cardinality(A) + Cardinality(B)
      <3>1. Cardinality(A \cup B) = Cardinality(A) + Cardinality(B) - Cardinality(A \cap B)
        BY <2>2, FS_Union
      <3> QED BY <2>3, <3>1
    <2>5. Cardinality(G \ {s}) = Cardinality(G) - 1 /\ Cardinality(G) \in Nat
      BY <1>2, FS_RemoveElement, FS_CardinalityType
    <2>6. Cardinality(A \cup B) = Cardinality(G) - 1
      BY <2>1, <2>5
    <2>7. Cardinality(A) + Cardinality(B) = Cardinality(G) - 1
      BY <2>4, <2>6
    <2>8. \A a, b, g \in Nat : a + b = g - 1 => a + b + 1 = g
      OBVIOUS
    <2> QED BY <2>a, <2>3, <2>5, <2>7, <2>8
  <1> HIDE DEF newer, older
  <1>7. Cardinality(G) \in Nat
    BY <1>2, FS_CardinalityType
  <1>8. \A s \in G : newer(s) = newer(r) => s = r
    <2>1. \A s \in G : Place(s, G, R) = Place(r, G, R) => s = r
      BY <1>1, <1>2, Places
    <2> QED BY <1>1, <1>3, <2>1
  <1>9. Round(r, records) \in Nat \ {0} /\ (Round(r, records) = 1 <=> newer(r) = 0)
    BY <1>1, <1>4, <1>6
  <1>10. ASSUME newer(r) = 0, NEW s \in G, s # r
         PROVE  Newer(r, s)
    <2>1. newer(r) < newer(s)
      BY <1>1, <1>6, <1>8, <1>10
    <2> QED BY <1>1, <1>2, <1>3, <1>5, <2>1, Places
  <1>11. ASSUME \A s \in G : s = r \/ Newer(r, s)
         PROVE  newer(r) = 0
    <2>1. {u \in G : Newer(u, r)} = {}
      BY <1>1, <1>2, <1>5, <1>11 DEF Orders
    <2> QED BY <2>1, FS_EmptySet DEF newer
  <1>12. ASSUME NEW s \in G, Round(s, records) = Round(r, records)
         PROVE  newer(s) = newer(r)
    <2> DEFINE a == newer(s)
               b == older(s)
               c == newer(r)
               d == older(r)
    <2>1. a \in Nat /\ b \in Nat /\ c \in Nat /\ d \in Nat /\ a + b = c + d
      <3>1. a \in Nat /\ b \in Nat /\ a + b + 1 = Cardinality(G)
        BY <1>6
      <3>2. c \in Nat /\ d \in Nat /\ c + d + 1 = Cardinality(G)
        BY <1>1, <1>6
      <3> HIDE DEF a, b, c, d
      <3> QED BY <1>7, <3>1, <3>2
    <2>2. (IF a <= b THEN 2 * a + 1 ELSE 2 * b + 2) = (IF c <= d THEN 2 * c + 1 ELSE 2 * d + 2)
      BY <1>1, <1>4, <1>12
    <2> HIDE DEF a, b, c, d
    <2>3. a = c
      <3>1. CASE a <= b /\ c <= d
        BY <2>1, <2>2, <3>1
      <3>2. CASE ~(a <= b) /\ ~(c <= d)
        BY <2>1, <2>2, <3>2
      <3>3. CASE a <= b /\ ~(c <= d)
        <4>1. 2 * a + 1 = 2 * d + 2
          BY <2>2, <3>3
        <4> QED BY <2>1, <4>1
      <3>4. CASE ~(a <= b) /\ c <= d
        <4>1. 2 * b + 2 = 2 * c + 1
          BY <2>2, <3>4
        <4> QED BY <2>1, <4>1
      <3> QED BY <3>1, <3>2, <3>3, <3>4
    <2> QED BY <2>3 DEF a, c
  <1> QED BY <1>8, <1>9, <1>10, <1>11, <1>12 DEF G

Turn(r, records) == [record |-> r, round |-> Round(r, records)]
Turns(some, records) == {Turn(r, records) : r \in some}

InTurn(some, records) == {p \in Turns(some, records) \X Turns(some, records) : Sooner(p[1], p[2])}

\* The records' own order that the balance gives.
Balance(some, records) == {p \in some \X some : Sooner(Turn(p[1], records), Turn(p[2], records))}

LEMMA SoonerMeans ==
  ASSUME NEW records, Rows(records), NEW r \in records, NEW s \in records
  PROVE  /\ IsHandoff(s) =>
              (Sooner(Turn(r, records), Turn(s, records)) <=> ~IsHandoff(r) \/ Before(r, s))
         /\ ~IsHandoff(s) =>
              (Sooner(Turn(r, records), Turn(s, records)) <=>
                 /\ ~IsHandoff(r)
                 /\ \/ Round(r, records) < Round(s, records)
                    \/ Round(r, records) = Round(s, records) /\ ~OfProject(r) /\ OfProject(s))
         /\ ~IsHandoff(r) => Round(r, records) \in Nat
  <1>1. /\ Turn(r, records).record = r /\ Turn(r, records).round = Round(r, records)
        /\ Turn(s, records).record = s /\ Turn(s, records).round = Round(s, records)
    BY DEF Turn
  <1>2. ~IsHandoff(r) => Round(r, records) \in Nat
    BY RoundsDiffer
  <1> QED BY <1>1, <1>2 DEF Sooner

LEMMA SoonerOrders ==
  ASSUME NEW records, Rows(records), NEW r \in records, NEW s \in records, NEW t \in records
  PROVE  /\ ~Sooner(Turn(r, records), Turn(r, records))
         /\ r # s => Sooner(Turn(r, records), Turn(s, records)) \/ Sooner(Turn(s, records), Turn(r, records))
         /\ Sooner(Turn(r, records), Turn(s, records)) /\ Sooner(Turn(s, records), Turn(t, records))
              => Sooner(Turn(r, records), Turn(t, records))
  <1> DEFINE sooner(x, y) == Sooner(Turn(x, records), Turn(y, records))
             round(x) == Round(x, records)
  <1>1. ASSUME NEW x \in records, NEW y \in records
        PROVE  /\ IsHandoff(y) => (sooner(x, y) <=> ~IsHandoff(x) \/ Before(x, y))
               /\ ~IsHandoff(y) => (sooner(x, y) <=>
                    /\ ~IsHandoff(x)
                    /\ round(x) < round(y) \/ (round(x) = round(y) /\ ~OfProject(x) /\ OfProject(y)))
               /\ ~IsHandoff(x) => round(x) \in Nat
    BY SoonerMeans
  <1>2. ASSUME NEW x \in records, NEW y \in records, ~IsHandoff(x), ~IsHandoff(y), round(x) = round(y),
               OfProject(x) <=> OfProject(y)
        PROVE  x = y
    <2>1. y \in Group(x, records)
      BY <1>2 DEF Group
    <2> QED BY <1>2, <2>1, RoundsDiffer
  <1> HIDE DEF sooner, round
  <1>3. ~sooner(r, r)
    <2>1. ~Before(r, r)
      BY BeforeOrders
    <2>2. CASE IsHandoff(r)
      BY <1>1, <2>1, <2>2
    <2>3. CASE ~IsHandoff(r)
      BY <1>1, <2>3
    <2> QED BY <2>2, <2>3
  <1>4. ASSUME r # s
        PROVE  sooner(r, s) \/ sooner(s, r)
    <2>1. Before(r, s) \/ Before(s, r)
      BY <1>4, BeforeOrders
    <2>2. CASE IsHandoff(r) \/ IsHandoff(s)
      BY <1>1, <2>1, <2>2
    <2>3. CASE ~IsHandoff(r) /\ ~IsHandoff(s)
      <3>1. round(r) \in Nat /\ round(s) \in Nat
        BY <1>1, <2>3
      <3>2. round(r) = round(s) => (OfProject(r) /\ ~OfProject(s)) \/ (~OfProject(r) /\ OfProject(s))
        BY <1>2, <1>4, <2>3
      <3>3. round(r) < round(s) \/ round(s) < round(r) \/ round(r) = round(s)
        BY <3>1
      <3> QED BY <1>1, <2>3, <3>2, <3>3
    <2> QED BY <2>2, <2>3
  <1>5. ASSUME sooner(r, s), sooner(s, t)
        PROVE  sooner(r, t)
    <2>1. Before(r, s) /\ Before(s, t) => Before(r, t)
      BY BeforeOrders
    <2>2. CASE IsHandoff(t)
      BY <1>1, <1>5, <2>1, <2>2
    <2>3. CASE ~IsHandoff(t)
      <3>1. ~IsHandoff(s) /\ ~IsHandoff(r)
        BY <1>1, <1>5, <2>3
      <3>2. round(r) \in Nat /\ round(s) \in Nat /\ round(t) \in Nat
        BY <1>1, <2>3, <3>1
      <3>3. round(r) < round(s) \/ (round(r) = round(s) /\ ~OfProject(r) /\ OfProject(s))
        BY <1>1, <1>5, <3>1
      <3>4. round(s) < round(t) \/ (round(s) = round(t) /\ ~OfProject(s) /\ OfProject(t))
        BY <1>1, <1>5, <2>3, <3>1
      <3>5. round(r) < round(t)
        <4>1. CASE round(r) < round(s) /\ (round(s) < round(t) \/ round(s) = round(t))
          BY <3>2, <4>1
        <4>2. CASE round(r) = round(s) /\ round(s) < round(t)
          BY <3>2, <4>2
        <4> QED BY <3>3, <3>4, <4>1, <4>2
      <3> QED BY <1>1, <2>3, <3>1, <3>5
    <2> QED BY <2>2, <2>3
  <1> QED BY <1>3, <1>4, <1>5 DEF sooner

LEMMA TurnsOrder ==
  ASSUME NEW records, Rows(records), NEW some \in SUBSET records
  PROVE  /\ Orders(InTurn(some, records), Turns(some, records))
         /\ Cardinality(Turns(some, records)) = Cardinality(some)
  <1> DEFINE T == Turns(some, records)
             f == [r \in some |-> Turn(r, records)]
  <1>1. \A r, s \in some : Turn(r, records) = Turn(s, records) => r = s
    BY DEF Turn
  <1>2. f \in Bijection(some, T)
    BY <1>1 DEF Turns, Bijection, Injection, IsInjective, Surjection
  <1>3. IsFiniteSet(some)
    BY FS_Subset DEF Rows
  <1> HIDE DEF f
  <1>4. IsFiniteSet(T) /\ Cardinality(T) = Cardinality(some)
    BY <1>2, <1>3, FS_Bijection DEF ExistsBijection
  <1>5. \A x \in T : \E r \in some : x = Turn(r, records)
    BY DEF Turns
  <1>6. \A x, y \in T : <<x, y>> \in InTurn(some, records) <=> Sooner(x, y)
    BY DEF InTurn
  <1> HIDE DEF T
  <1>7. \A x \in T : ~Sooner(x, x)
    BY <1>5, SoonerOrders
  <1>8. \A x, y \in T : x # y => Sooner(x, y) \/ Sooner(y, x)
    BY <1>5, SoonerOrders
  <1>9. \A x, y, z \in T : Sooner(x, y) /\ Sooner(y, z) => Sooner(x, z)
    BY <1>5, SoonerOrders
  <1>10. Orders(InTurn(some, records), T)
    BY <1>4, <1>6, <1>7, <1>8, <1>9 DEF Orders
  <1> QED BY <1>4, <1>10 DEF T

\* The balance, too, gives every record once.
LEMMA BalancedLists ==
  ASSUME NEW records, Rows(records), NEW some \in SUBSET records
  PROVE  Lists(Balanced(some, records), some, Balance(some, records))
  <1> DEFINE T == Turns(some, records)
             R == InTurn(some, records)
             earlier == [t \in T |-> {u \in T : Sooner(u, t)}]
             turns == Ordered(earlier)
             list == Balanced(some, records)
  <1>1. Orders(R, T) /\ Cardinality(T) = Cardinality(some)
    BY TurnsOrder
  <1>2. list = [n \in DOMAIN turns |-> turns[n].record]
    BY DEF Balanced, Turns, Turn
  <1>3. \A r \in some : Turn(r, records) \in T /\ Turn(r, records).record = r
    BY DEF Turns, Turn
  <1>4. \A t \in T : t.record \in some /\ t = Turn(t.record, records)
    BY DEF Turns, Turn
  <1>5. Lists(turns, T, R)
    <2>1. earlier = [t \in T |-> {u \in T : <<u, t>> \in R}]
      BY DEF InTurn
    <2> HIDE DEF earlier, T, R
    <2> QED BY <1>1, <2>1, OrderedLists
  <1> HIDE DEF T, R, turns, list
  <1>6. /\ turns \in Seq(T) /\ Len(turns) = Cardinality(some)
        /\ DOMAIN turns = 1 .. Cardinality(some) /\ Cardinality(some) \in Nat
    BY <1>1, <1>5 DEF Lists
  <1>7. \A n \in 1 .. Cardinality(some) : turns[n] \in T /\ list[n] = turns[n].record /\ list[n] \in some
    BY <1>2, <1>4, <1>6
  <1>8. list \in [1 .. Cardinality(some) -> some]
    BY <1>2, <1>6, <1>7
  <1>9. list \in Seq(some) /\ Len(list) = Cardinality(some)
    BY <1>6, <1>8
  <1>10. ASSUME NEW r \in some
         PROVE  \E n \in 1 .. Cardinality(some) : list[n] = r
    <2>1. PICK n \in 1 .. Cardinality(some) : turns[n] = Turn(r, records)
      BY <1>3, <1>5, <1>6 DEF Lists
    <2> QED BY <1>3, <1>7, <2>1
  <1>11. \A m, n \in 1 .. Cardinality(some) : m < n <=> <<list[m], list[n]>> \in Balance(some, records)
    <2> SUFFICES ASSUME NEW m \in 1 .. Cardinality(some), NEW n \in 1 .. Cardinality(some)
                 PROVE  m < n <=> <<list[m], list[n]>> \in Balance(some, records)
      OBVIOUS
    <2>1. m < n <=> <<turns[m], turns[n]>> \in R
      BY <1>5, <1>6 DEF Lists
    <2>2. <<turns[m], turns[n]>> \in R <=> Sooner(turns[m], turns[n])
      BY <1>7 DEF R, T, InTurn
    <2>3. turns[m] = Turn(list[m], records) /\ turns[n] = Turn(list[n], records)
      BY <1>4, <1>7
    <2>4. <<list[m], list[n]>> \in Balance(some, records)
            <=> Sooner(Turn(list[m], records), Turn(list[n], records))
      BY <1>7 DEF Balance
    <2> QED BY <2>1, <2>2, <2>3, <2>4
  <1>12. Lists(list, some, Balance(some, records))
    BY <1>9, <1>10, <1>11 DEF Lists
  <1> QED BY <1>12 DEF list

----------------------------------------------------------------------------
(* An agent's start *)

LEMMA RecordsSized == ASSUME NEW rows, Rows(rows), NEW some \in SUBSET rows PROVE Rows(some) /\ Sized(some)
  <1>1. IsFiniteSet(some)
    BY FS_Subset DEF Rows
  <1>2. \A r \in some : r.size \in Nat
    BY DEF Rows, Record
  <1> QED BY <1>1, <1>2 DEF Rows, Sized

\* Both turns of the page are pages of an order: the query's, which is kept if it leaves
\* nothing out, or else the balance.
LEMMA StartPage ==
  ASSUME NEW records, Rows(records), NEW budget \in Nat, NEW page, page = BoundStartup(records, budget)
  PROVE  /\ page \subseteq records
         /\ SizeOf(page) <= Clamped(budget)
         /\ \A r \in records : r \in page \/ SizeOf(page) + r.size > Clamped(budget)
         /\ \/ page = records
            \/ \A r \in records :
                 r \in page <=>
                 SizeOf({s \in page : <<s, r>> \in Balance(records, records)}) + r.size <= Clamped(budget)
  <1> DEFINE C == Clamped(budget)
             first == BoundRecords(Sorted(records), budget)
             second == BoundRecords(Balanced(records, records), budget)
  <1>1. Sized(records) /\ C \in Nat
    BY RecordsSized, ClampedBudget
  <1>2. page = IF first = records THEN first ELSE second
    BY DEF BoundStartup
  <1>3. first \subseteq records /\ SizeOf(first) <= C
    BY <1>1, SortedIsList, PageHolds
  <1>4. /\ second \subseteq records /\ SizeOf(second) <= C
        /\ \A r \in records :
             r \in second <=> SizeOf({s \in second : <<s, r>> \in Balance(records, records)}) + r.size <= C
    BY <1>1, BalancedLists, PageHolds
  <1> HIDE DEF C, first, second
  <1>5. CASE page = records
    BY <1>2, <1>3, <1>4, <1>5 DEF C
  <1>6. CASE page # records
    <2>1. page = second
      BY <1>2, <1>6
    <2>2. ASSUME NEW r \in records, r \notin page
          PROVE  SizeOf(page) + r.size > C
      <3> DEFINE before == {s \in page : <<s, r>> \in Balance(records, records)}
      <3>1. ~(SizeOf(before) + r.size <= C) /\ before \subseteq page /\ page \subseteq records /\ r.size \in Nat
        BY <1>1, <1>4, <2>1, <2>2 DEF Sized
      <3> HIDE DEF before
      <3>2. Sized(page) /\ SizeOf(page) \in Nat
        BY <1>1, <3>1, SizeGrows
      <3>3. SizeOf(before) \in Nat /\ SizeOf(before) <= SizeOf(page)
        BY <3>1, <3>2, SizeGrows
      <3> QED BY <1>1, <3>1, <3>2, <3>3
    <2> QED BY <1>4, <2>1, <2>2 DEF C
  <1> QED BY <1>5, <1>6

\* The newest of the global and of the project's memories.
Firsts(records) ==
  Newest({r \in records : ~IsHandoff(r) /\ ~OfProject(r)})
    \cup Newest({r \in records : ~IsHandoff(r) /\ OfProject(r)})

LEMMA FirstsGoFirst ==
  ASSUME NEW records, Rows(records), NEW r \in Firsts(records), NEW s \in records,
         <<s, r>> \in Balance(records, records)
  PROVE  s \in Firsts(records) /\ s # r
  <1> DEFINE globals == {u \in records : ~IsHandoff(u) /\ ~OfProject(u)}
             projects == {u \in records : ~IsHandoff(u) /\ OfProject(u)}
  <1>1. r \in records /\ ~IsHandoff(r)
    BY DEF Firsts, Newest
  <1>2. ASSUME NEW u \in records, ~IsHandoff(u)
        PROVE  /\ OfProject(u) => Group(u, records) = projects
               /\ ~OfProject(u) => Group(u, records) = globals
    BY <1>2 DEF Group
  <1>3. Round(r, records) = 1
    <2>1. \A u \in Group(r, records) : u = r \/ Newer(r, u)
      BY <1>1, <1>2 DEF Firsts, Newest
    <2> QED BY <1>1, <2>1, RoundsDiffer
  <1>4. /\ ~IsHandoff(s)
        /\ \/ Round(s, records) < Round(r, records)
           \/ Round(s, records) = Round(r, records) /\ ~OfProject(s) /\ OfProject(r)
    <2>1. Sooner(Turn(s, records), Turn(r, records))
      BY DEF Balance
    <2> QED BY <1>1, <2>1, SoonerMeans
  <1>5. Round(s, records) \in Nat \ {0}
    BY <1>4, RoundsDiffer
  <1>6. Round(s, records) = 1 /\ ~OfProject(s) /\ OfProject(r)
    BY <1>3, <1>4, <1>5
  <1>7. \A u \in globals : s = u \/ Newer(s, u)
    BY <1>2, <1>4, <1>6, RoundsDiffer
  <1>8. s \in globals
    BY <1>4, <1>6
  <1>9. s \in Newest(globals)
    <2> HIDE DEF globals
    <2> QED BY <1>7, <1>8 DEF Newest
  <1> QED BY <1>6, <1>9 DEF Firsts

\* Neither scope is crowded out.
LEMMA FirstsLoad ==
  ASSUME NEW records, Rows(records), NEW budget \in Nat, SizeOf(Firsts(records)) <= Clamped(budget)
  PROVE  Firsts(records) \subseteq BoundStartup(records, budget)
  <1> DEFINE C == Clamped(budget)
             page == BoundStartup(records, budget)
             F == Firsts(records)
  <1>1. F \subseteq records
    BY DEF Firsts, Newest
  <1>2. Sized(records) /\ C \in Nat
    BY RecordsSized, ClampedBudget
  <1>3. /\ page \subseteq records
        /\ \/ page = records
           \/ \A r \in records :
                r \in page <=> SizeOf({s \in page : <<s, r>> \in Balance(records, records)}) + r.size <= C
    BY StartPage
  <1> HIDE DEF C, page, F
  <1>4. ASSUME NEW r \in F, page # records
        PROVE  r \in page
    <2> DEFINE before == {s \in page : <<s, r>> \in Balance(records, records)}
               rest == F \ {r}
    <2>1. before \subseteq rest
      BY <1>3, FirstsGoFirst DEF F
    <2>2. rest \subseteq records /\ r \notin rest /\ rest \cup {r} = F /\ r.size \in Nat
      BY <1>1, <1>2 DEF Sized
    <2> HIDE DEF before, rest
    <2>3. Sized(rest) /\ SizeOf(rest) \in Nat
      BY <1>2, <2>2, SizeGrows
    <2>4. SizeOf(before) \in Nat /\ SizeOf(before) <= SizeOf(rest)
      BY <2>1, <2>3, SizeGrows
    <2>5. SizeOf(F) = SizeOf(rest) + r.size
      BY <2>2, <2>3, SizeAdds
    <2>6. SizeOf(F) <= C
      BY DEF F, C
    <2>7. SizeOf(before) + r.size <= C
      BY <1>2, <2>2, <2>3, <2>4, <2>5, <2>6
    <2> QED BY <1>1, <1>3, <1>4, <2>7 DEF before
  <1>5. F \subseteq page
    BY <1>1, <1>4
  <1> QED BY <1>5 DEF F, page

LEMMA ChosenIsNewest ==
  ASSUME NEW records, Rows(records)
  PROVE  LET handoffs == {r \in records : IsHandoff(r)}
         IN  Chosen(records) = IF \E r \in handoffs : OfProject(r)
                                 THEN Newest({r \in handoffs : OfProject(r)}) ELSE Newest(handoffs)
  <1> DEFINE handoffs == {r \in records : IsHandoff(r)}
             project == {r \in handoffs : OfProject(r)}
             best == IF project # {} THEN project ELSE handoffs
  <1>1. ASSUME NEW r \in handoffs, NEW s \in handoffs
        PROVE  ~Before(s, r) <=> r = s \/ Newer(r, s)
    <2>1. /\ r \in records /\ s \in records /\ r.purpose = s.purpose
      BY DEF IsHandoff
    <2>2. {Rank[r.purpose], r.updated, r.id, s.updated, s.id} \subseteq Nat /\ (r.id = s.id => r = s)
      BY <2>1, BeforeMeans
    <2>3. Before(s, r) <=> Newer(s, r)
      BY <2>1, <2>2 DEF Before
    <2>4. ~Newer(s, r) <=> r = s \/ Newer(r, s)
      BY <2>2 DEF Newer
    <2> QED BY <2>3, <2>4
  <1>2. best \subseteq handoffs /\ Chosen(records) = {r \in best : \A s \in best : ~Before(s, r)}
    BY DEF Chosen
  <1>3. best = IF \E r \in handoffs : OfProject(r) THEN project ELSE handoffs
    BY DEF project
  <1> HIDE DEF handoffs, project, best
  <1>4. Chosen(records) = Newest(best)
    BY <1>1, <1>2 DEF Newest
  <1>5. Chosen(records) = IF \E r \in handoffs : OfProject(r) THEN Newest(project) ELSE Newest(handoffs)
    BY <1>3, <1>4
  <1> QED BY <1>5 DEF handoffs, project

\* An agent's start is fair, whatever rows there are.
THEOREM StartsFair ==
  ASSUME NEW rows, Rows(rows), NEW asked, NEW budget \in Nat
  PROVE  Fair(rows, asked, budget)
  <1> DEFINE C == Clamped(budget)
             eligible == {r \in rows : ~r.archived /\ Applicable(r.scope, asked) /\ Loadable(r)}
             selected == Selected(eligible)
             page == Context(rows, asked, budget).records
             handoffs == {r \in eligible : IsHandoff(r)}
             best == IF \E r \in handoffs : OfProject(r) THEN Newest({r \in handoffs : OfProject(r)})
                                                         ELSE Newest(handoffs)
             first == Newest({r \in eligible : ~IsHandoff(r) /\ ~OfProject(r)})
                        \cup Newest({r \in eligible : ~IsHandoff(r) /\ OfProject(r)})
  <1>1. eligible = {r \in ScopedRecords(rows, asked) : Loadable(r)}
    BY DEF ScopedRecords
  <1>2. page = BoundStartup(selected, budget)
    BY <1>1 DEF Context
  <1>3. Rows(eligible) /\ Rows(selected)
    BY RecordsSized DEF Selected
  <1>4. best = Chosen(eligible)
    BY <1>3, ChosenIsNewest
  <1>5. best \subseteq handoffs
    BY DEF Newest
  <1>6. selected = {r \in eligible : IsHandoff(r) => r \in best}
    BY <1>4 DEF Selected
  <1>7. first = Firsts(selected)
    <2>1. /\ {r \in eligible : ~IsHandoff(r) /\ ~OfProject(r)} = {r \in selected : ~IsHandoff(r) /\ ~OfProject(r)}
          /\ {r \in eligible : ~IsHandoff(r) /\ OfProject(r)} = {r \in selected : ~IsHandoff(r) /\ OfProject(r)}
      BY DEF Selected
    <2> QED BY <2>1 DEF Firsts
  <1> HIDE DEF selected, best, first
  <1>8. page \subseteq selected /\ SizeOf(page) <= C /\ \A r \in selected : r \in page \/ SizeOf(page) + r.size > C
    BY <1>2, <1>3, StartPage
  <1>9. SizeOf(first) <= C => first \subseteq page
    BY <1>2, <1>3, <1>7, FirstsLoad
  <1>10. page \subseteq eligible /\ page \cap handoffs \subseteq best /\ (eligible \ handoffs) \cup best \subseteq selected
    BY <1>5, <1>6, <1>8
  <1>11. \A r \in (eligible \ handoffs) \cup best : r \in page \/ SizeOf(page) + r.size > C
    BY <1>8, <1>10
  <1> QED BY <1>8, <1>9, <1>10, <1>11 DEF Fair, best, first

----------------------------------------------------------------------------
(* The owner's preview of it *)

LEMMA ListHolds ==
  ASSUME NEW S, NEW R, NEW list, Lists(list, S, R)
  PROVE  list \in Seq(S) /\ Len(list) = Cardinality(S) /\ Cardinality(S) \in Nat /\ ToSet(list) = S
  <1>1. list \in Seq(S) /\ Len(list) = Cardinality(S) /\ \A x \in S : \E n \in 1 .. Len(list) : list[n] = x
    BY DEF Lists
  <1>2. DOMAIN list = 1 .. Len(list) /\ Len(list) \in Nat /\ \A n \in 1 .. Len(list) : list[n] \in S
    BY <1>1
  <1> QED BY <1>1, <1>2 DEF ToSet

LEMMA Joined ==
  ASSUME NEW S, NEW s \in Seq(S), NEW t \in Seq(S)
  PROVE  s \o t \in Seq(S) /\ Len(s \o t) = Len(s) + Len(t) /\ ToSet(s \o t) = ToSet(s) \cup ToSet(t)
  <1>1. s \o t \in Seq(S) /\ Len(s \o t) = Len(s) + Len(t) /\ Len(s) \in Nat /\ Len(t) \in Nat
    OBVIOUS
  <1>2. /\ \A n \in 1 .. Len(s) : (s \o t)[n] = s[n] /\ n \in 1 .. Len(s \o t)
        /\ \A n \in 1 .. Len(t) : (s \o t)[Len(s) + n] = t[n] /\ Len(s) + n \in 1 .. Len(s \o t)
        /\ \A n \in 1 .. Len(s \o t) : n \in 1 .. Len(s) \/ n - Len(s) \in 1 .. Len(t)
        /\ \A n \in 1 .. Len(s \o t) : Len(s) + (n - Len(s)) = n
    BY <1>1
  <1>3. DOMAIN s = 1 .. Len(s) /\ DOMAIN t = 1 .. Len(t) /\ DOMAIN (s \o t) = 1 .. Len(s \o t)
    OBVIOUS
  <1>4. ASSUME NEW x \in ToSet(s \o t)
        PROVE  x \in ToSet(s) \cup ToSet(t)
    <2>1. PICK n \in 1 .. Len(s \o t) : x = (s \o t)[n]
      BY <1>3 DEF ToSet
    <2>2. CASE n \in 1 .. Len(s)
      BY <1>2, <1>3, <2>1, <2>2 DEF ToSet
    <2>3. CASE n - Len(s) \in 1 .. Len(t)
      <3>1. x = t[n - Len(s)]
        BY <1>2, <2>1, <2>3
      <3> QED BY <1>3, <2>3, <3>1 DEF ToSet
    <2> QED BY <1>2, <2>2, <2>3
  <1>5. ASSUME NEW x \in ToSet(s) \cup ToSet(t)
        PROVE  x \in ToSet(s \o t)
    <2>1. CASE x \in ToSet(s)
      <3>1. PICK n \in 1 .. Len(s) : x = s[n]
        BY <1>3, <2>1 DEF ToSet
      <3> QED BY <1>2, <1>3, <3>1 DEF ToSet
    <2>2. CASE x \in ToSet(t)
      <3>1. PICK n \in 1 .. Len(t) : x = t[n]
        BY <1>3, <2>2 DEF ToSet
      <3> QED BY <1>2, <1>3, <3>1 DEF ToSet
    <2> QED BY <2>1, <2>2
  <1> QED BY <1>1, <1>4, <1>5

LEMMA DetailsOfFew ==
  ASSUME NEW S, NEW s \in Seq(S), Len(s) <= MaxDetails
  PROVE  Details(s) = s
  <1>1. Len(s) \in Nat /\ MaxDetails \in Nat
    BY BudgetAssumption
  <1>2. (IF Len(s) < MaxDetails THEN Len(s) ELSE MaxDetails) = Len(s)
    BY <1>1
  <1>3. SubSeq(s, 1, Len(s)) = s
    OBVIOUS
  <1> QED BY <1>2, <1>3 DEF Details

Reasoned(reason, S) == {[record |-> r, reason |-> reason] : r \in S}

LEMMA BecauseHolds ==
  ASSUME NEW S, NEW R, NEW list, Lists(list, S, R), NEW reason, NEW T, Reasoned(reason, S) \subseteq T
  PROVE  /\ Because(reason, list) \in Seq(T) /\ Len(Because(reason, list)) = Cardinality(S)
         /\ ToSet(Because(reason, list)) = Reasoned(reason, S)
  <1> DEFINE why == Because(reason, list)
             N == Cardinality(S)
  <1>1. N \in Nat /\ Len(list) = N /\ DOMAIN list = 1 .. N /\ \A n \in 1 .. N : list[n] \in S
    BY ListHolds
  <1>2. why = [n \in 1 .. N |-> [record |-> list[n], reason |-> reason]]
    BY <1>1 DEF Because
  <1>3. \A x \in S : \E n \in 1 .. N : list[n] = x
    BY <1>1 DEF Lists
  <1> HIDE DEF why, N
  <1>4. \A n \in 1 .. N : why[n] = [record |-> list[n], reason |-> reason] /\ why[n] \in Reasoned(reason, S)
    BY <1>1, <1>2 DEF Reasoned
  <1>5. why \in [1 .. N -> T] /\ DOMAIN why = 1 .. N
    BY <1>2, <1>4
  <1>6. why \in Seq(T) /\ Len(why) = N
    BY <1>1, <1>5
  <1>7. ToSet(why) = Reasoned(reason, S)
    <2>1. ASSUME NEW x \in ToSet(why)
          PROVE  x \in Reasoned(reason, S)
      BY <1>4, <1>5, <2>1 DEF ToSet
    <2>2. ASSUME NEW x \in Reasoned(reason, S)
          PROVE  x \in ToSet(why)
      <3>1. PICK r \in S : x = [record |-> r, reason |-> reason]
        BY <2>2 DEF Reasoned
      <3>2. PICK n \in 1 .. N : list[n] = r
        BY <1>3
      <3> QED BY <1>4, <1>5, <3>1, <3>2 DEF ToSet
    <2> QED BY <2>1, <2>2
  <1> QED BY <1>6, <1>7 DEF why, N

LEMMA Split ==
  ASSUME NEW S, IsFiniteSet(S), NEW T \in SUBSET S
  PROVE  /\ Cardinality(S) = Cardinality(T) + Cardinality(S \ T)
         /\ Cardinality(S) \in Nat /\ Cardinality(T) \in Nat /\ Cardinality(S \ T) \in Nat
  <1>1. IsFiniteSet(T) /\ IsFiniteSet(S \ T)
    BY FS_Subset
  <1>2. Cardinality(S) \in Nat /\ Cardinality(T) \in Nat /\ Cardinality(S \ T) \in Nat
    BY <1>1, FS_CardinalityType
  <1>3. Cardinality(S \ T) = Cardinality(S) - Cardinality(S \cap T) /\ S \cap T = T
    BY FS_Difference
  <1> QED BY <1>2, <1>3

LEMMA RecordsOf ==
  ASSUME NEW S, NEW T, NEW U, NEW x, NEW y, NEW z
  PROVE  /\ {l.record : l \in Reasoned(x, S) \cup Reasoned(y, T)} = S \cup T
         /\ {l.record : l \in Reasoned(x, S) \cup Reasoned(y, T) \cup Reasoned(z, U)} = S \cup T \cup U
  <1>1. ASSUME NEW reason, NEW Q
        PROVE  /\ \A l \in Reasoned(reason, Q) : l.record \in Q
               /\ \A r \in Q : \E l \in Reasoned(reason, Q) : l.record = r
    <2>1. ASSUME NEW l \in Reasoned(reason, Q)
          PROVE  l.record \in Q
      <3>1. PICK r \in Q : l = [record |-> r, reason |-> reason]
        BY <2>1 DEF Reasoned
      <3> QED BY <3>1
    <2>2. ASSUME NEW r \in Q
          PROVE  \E l \in Reasoned(reason, Q) : l.record = r
      <3>1. [record |-> r, reason |-> reason] \in Reasoned(reason, Q) /\ [record |-> r, reason |-> reason].record = r
        BY DEF Reasoned
      <3> QED BY <3>1
    <2> QED BY <2>1, <2>2
  <1>2. /\ \A l \in Reasoned(x, S) : l.record \in S
        /\ \A r \in S : \E l \in Reasoned(x, S) : l.record = r
        /\ \A l \in Reasoned(y, T) : l.record \in T
        /\ \A r \in T : \E l \in Reasoned(y, T) : l.record = r
        /\ \A l \in Reasoned(z, U) : l.record \in U
        /\ \A r \in U : \E l \in Reasoned(z, U) : l.record = r
    BY <1>1
  <1> QED BY <1>2

\* The preview agrees with the agent's context, whatever rows there are.
THEOREM PreviewsAgree ==
  ASSUME NEW rows, Rows(rows), NEW asked, NEW budget \in Nat
  PROVE  Agrees(rows, asked, budget)
  <1> DEFINE active == ScopedRecords(rows, asked)
             eligible == {r \in active : Loadable(r)}
             fresh == {r \in active : Unconfirmed(r)}
             selected == Selected(eligible)
             skipped == Skipped(eligible)
             page == BoundStartup(selected, budget)
             context == Context(rows, asked, budget)
             preview == StartupPreview(rows, asked, budget)
             out == Balanced(selected \ page, selected)
             over == Because("over_budget", Sorted(selected \ page))
             older == Because("older_handoff", Sorted(skipped))
             new == Because("unconfirmed", Sorted(fresh))
             T == [record : active, reason : {"over_budget", "older_handoff", "unconfirmed"}]
  <1>1. active \subseteq rows /\ Rows(active) /\ IsFiniteSet(active)
    <2>1. active \subseteq rows
      BY DEF ScopedRecords
    <2>2. Rows(active)
      BY <2>1, RecordsSized
    <2> QED BY <2>1, <2>2 DEF Rows
  <1>2. eligible \subseteq active /\ fresh = active \ eligible
    BY DEF Unconfirmed
  <1>3. selected \subseteq eligible /\ skipped = eligible \ selected
    BY DEF Selected, Skipped
  <1>4. context = [records |-> page, omitted |-> Len(out \o Sorted(skipped)), details |-> Details(out \o Sorted(skipped))]
    BY DEF Context
  <1>5. preview = [records |-> page, left |-> Details(over \o older \o new), total |-> Len(over \o older \o new)]
    BY DEF StartupPreview
  <1> HIDE DEF active, eligible, fresh, selected, skipped, page, context, preview
  <1>6. Rows(selected)
    BY <1>1, <1>2, <1>3, RecordsSized
  <1>7. page \subseteq selected
    BY <1>6, StartPage DEF page
  <1>8. Rows(selected \ page) /\ Rows(skipped) /\ Rows(fresh)
    <2>1. {selected \ page, skipped, fresh} \subseteq SUBSET active
      BY <1>2, <1>3
    <2> QED BY <1>1, <2>1, RecordsSized
  <1>9. /\ Cardinality(active) = Cardinality(page) + Cardinality(selected \ page) + Cardinality(skipped) + Cardinality(fresh)
        /\ Cardinality(page) \in Nat /\ Cardinality(selected \ page) \in Nat
        /\ Cardinality(skipped) \in Nat /\ Cardinality(fresh) \in Nat
    <2>1. IsFiniteSet(eligible) /\ IsFiniteSet(selected)
      BY <1>1, <1>2, <1>3, FS_Subset
    <2>2. /\ Cardinality(active) = Cardinality(eligible) + Cardinality(fresh)
          /\ Cardinality(eligible) \in Nat /\ Cardinality(fresh) \in Nat
      BY <1>1, <1>2, Split
    <2>3. /\ Cardinality(eligible) = Cardinality(selected) + Cardinality(skipped)
          /\ Cardinality(selected) \in Nat /\ Cardinality(skipped) \in Nat
      BY <1>3, <2>1, Split
    <2>4. /\ Cardinality(selected) = Cardinality(page) + Cardinality(selected \ page)
          /\ Cardinality(page) \in Nat /\ Cardinality(selected \ page) \in Nat
      BY <1>7, <2>1, Split
    <2> QED BY <2>2, <2>3, <2>4
  <1>10. /\ out \in Seq(active) /\ Len(out) = Cardinality(selected \ page) /\ ToSet(out) = selected \ page
         /\ Sorted(skipped) \in Seq(active) /\ Len(Sorted(skipped)) = Cardinality(skipped)
         /\ ToSet(Sorted(skipped)) = skipped
    <2>1. Lists(out, selected \ page, Balance(selected \ page, selected))
      BY <1>6, BalancedLists
    <2>2. Lists(Sorted(skipped), skipped, InQuery(skipped))
      BY <1>8, SortedIsList
    <2>3. out \in Seq(selected \ page) /\ Sorted(skipped) \in Seq(skipped)
      BY <2>1, <2>2, ListHolds
    <2>4. selected \ page \subseteq active /\ skipped \subseteq active
      BY <1>2, <1>3
    <2> HIDE DEF out
    <2>5. out \in Seq(active) /\ Sorted(skipped) \in Seq(active)
      BY <2>3, <2>4
    <2> QED BY <2>1, <2>2, <2>5, ListHolds
  <1>11. /\ over \in Seq(T) /\ Len(over) = Cardinality(selected \ page)
         /\ ToSet(over) = Reasoned("over_budget", selected \ page)
         /\ older \in Seq(T) /\ Len(older) = Cardinality(skipped) /\ ToSet(older) = Reasoned("older_handoff", skipped)
         /\ new \in Seq(T) /\ Len(new) = Cardinality(fresh) /\ ToSet(new) = Reasoned("unconfirmed", fresh)
    <2>1. selected \ page \subseteq active /\ skipped \subseteq active /\ fresh \subseteq active
      BY <1>2, <1>3
    <2>2. /\ Reasoned("over_budget", selected \ page) \subseteq T /\ Reasoned("older_handoff", skipped) \subseteq T
          /\ Reasoned("unconfirmed", fresh) \subseteq T
      BY <2>1 DEF Reasoned
    <2>3. /\ Lists(Sorted(selected \ page), selected \ page, InQuery(selected \ page))
          /\ Lists(Sorted(skipped), skipped, InQuery(skipped)) /\ Lists(Sorted(fresh), fresh, InQuery(fresh))
      BY <1>8, SortedIsList
    <2> HIDE DEF T
    <2> QED BY <2>2, <2>3, BecauseHolds
  <1> HIDE DEF out, over, older, new, T
  <1>12. /\ out \o Sorted(skipped) \in Seq(active)
         /\ Len(out \o Sorted(skipped)) = Cardinality(selected \ page) + Cardinality(skipped)
         /\ ToSet(out \o Sorted(skipped)) = (selected \ page) \cup skipped
    BY <1>10, Joined
  <1>13. /\ over \o older \o new \in Seq(T)
         /\ Len(over \o older \o new) = Cardinality(selected \ page) + Cardinality(skipped) + Cardinality(fresh)
         /\ ToSet(over \o older \o new) = Reasoned("over_budget", selected \ page)
              \cup Reasoned("older_handoff", skipped) \cup Reasoned("unconfirmed", fresh)
    <2> DEFINE both == over \o older
               whole == both \o new
    <2>1. both \in Seq(T) /\ Len(both) = Len(over) + Len(older) /\ ToSet(both) = ToSet(over) \cup ToSet(older)
      <3>1. over \in Seq(T) /\ older \in Seq(T)
        BY <1>11
      <3> QED BY <3>1, Joined
    <2> HIDE DEF both
    <2>2. whole \in Seq(T) /\ Len(whole) = Len(both) + Len(new) /\ ToSet(whole) = ToSet(both) \cup ToSet(new)
      <3>1. both \in Seq(T) /\ new \in Seq(T)
        BY <1>11, <2>1
      <3> QED BY <3>1, Joined
    <2> HIDE DEF whole
    <2>3. Len(whole) = Cardinality(selected \ page) + Cardinality(skipped) + Cardinality(fresh)
      BY <1>11, <2>1, <2>2
    <2>4. ToSet(whole) = Reasoned("over_budget", selected \ page)
              \cup Reasoned("older_handoff", skipped) \cup Reasoned("unconfirmed", fresh)
      BY <1>11, <2>1, <2>2
    <2> QED BY <2>2, <2>3, <2>4 DEF whole, both
  <1>14. preview.records = context.records
    BY <1>4, <1>5
  <1>15. preview.total + Cardinality(preview.records) = Cardinality(active)
    BY <1>5, <1>9, <1>13
  <1>16. preview.total = context.omitted + Cardinality(fresh)
    BY <1>4, <1>5, <1>9, <1>12, <1>13
  <1>17. ASSUME preview.total <= MaxDetails
         PROVE  /\ ToSet(context.details) =
                     {l.record : l \in {k \in ToSet(preview.left) : k.reason # "unconfirmed"}}
                /\ active = preview.records \cup {l.record : l \in ToSet(preview.left)}
    <2> DEFINE left == Reasoned("over_budget", selected \ page)
                         \cup Reasoned("older_handoff", skipped) \cup Reasoned("unconfirmed", fresh)
    <2>1. Details(over \o older \o new) = over \o older \o new
      BY <1>5, <1>13, <1>17, DetailsOfFew
    <2>2. Len(out \o Sorted(skipped)) <= MaxDetails
      BY <1>5, <1>9, <1>12, <1>13, <1>17, BudgetAssumption
    <2>3. Details(out \o Sorted(skipped)) = out \o Sorted(skipped)
      BY <1>12, <2>2, DetailsOfFew
    <2>4. ToSet(preview.left) = left /\ ToSet(context.details) = (selected \ page) \cup skipped
      BY <1>4, <1>5, <1>12, <1>13, <2>1, <2>3
    <2>5. {l.record : l \in {k \in left : k.reason # "unconfirmed"}} = (selected \ page) \cup skipped
      <3>1. {k \in left : k.reason # "unconfirmed"} =
            Reasoned("over_budget", selected \ page) \cup Reasoned("older_handoff", skipped)
        BY DEF Reasoned
      <3> HIDE DEF left
      <3> QED BY <3>1, RecordsOf
    <2>6. {l.record : l \in left} = (selected \ page) \cup skipped \cup fresh
      BY RecordsOf
    <2>7. active = page \cup ((selected \ page) \cup skipped \cup fresh)
      BY <1>2, <1>3, <1>7
    <2> HIDE DEF left
    <2> QED BY <1>5, <2>4, <2>5, <2>6, <2>7
  <1> QED BY <1>14, <1>15, <1>16, <1>17 DEF Agrees, context, preview, fresh, active

----------------------------------------------------------------------------
(* The invariant *)

\* Memories have versions of their own; versions are well-formed.
History(db) ==
  /\ db \in Seq(Seq(Record))
  /\ \A i \in DOMAIN db : db[i] # <<>> /\ \A k \in DOMAIN db[i] : db[i][k].id = i

\* References that name versions there are, and the list they stand for.
Names(db, refs, listed) ==
  /\ refs \in Seq(Reference) /\ listed \in Seq(Record) /\ Len(listed) = Len(refs)
  /\ \A n \in DOMAIN refs : /\ refs[n].id \in DOMAIN db
                            /\ refs[n].revision \in DOMAIN db[refs[n].id]
                            /\ listed[n] = db[refs[n].id][refs[n].revision]

\* The records a tab shows are the first ones of its list.
Begins(tab) ==
  /\ tab.shown \in Seq(Record) /\ tab.listed \in Seq(Record) /\ Len(tab.shown) <= Len(tab.listed)
  /\ \A n \in DOMAIN tab.shown : tab.shown[n] = tab.listed[n]

Tab == [at : {"idle", "queried", "loading"}, view : Views \cup {None}, refs : Seq(Reference),
        cursor : (Views \X Seq(Reference)) \cup {None}, start : Nat, shown : Seq(Record),
        listed : Seq(Record) \cup {None}]

\* A request under way has the references of the tab's list, and so has its cursor.
Faithful(db, tab) ==
  /\ tab \in Tab
  /\ tab.at # "idle" \/ tab.cursor # None \/ tab.listed # None => Begins(tab)
  /\ tab.at = "queried" => tab.view \in Views
  /\ tab.at \in {"queried", "loading"} => Names(db, tab.refs, tab.listed)
  /\ tab.at = "loading" => tab.cursor \in Views \X Seq(Reference)
  /\ tab.at # "queried" /\ tab.cursor # None => Names(db, tab.cursor[2], tab.listed)
  /\ tab.at = "idle" /\ tab.cursor = None /\ tab.listed # None => tab.shown = tab.listed

\* The snapshot a cursor finds has the references the cursor is made of.
Snapshot(key, list) ==
  /\ list \in [view : Views, refs : Seq(Reference), left : Nat]
  /\ key = <<list.view, list.refs>>

ListInv ==
  /\ History(versions) /\ clock \in Nat
  /\ \A key \in DOMAIN lists : Snapshot(key, lists[key])
  /\ tabs \in [Tabs -> Tab]
  /\ \A t \in Tabs : Faithful(versions, tabs[t])

LEMMA ClosedFaithful == Closed \in Tab /\ Faithful(versions, Closed)
  <1>1. Closed \in Tab
    BY DEF Closed, Tab
  <1> QED BY <1>1 DEF Closed, Faithful

LEMMA ListInit == Init => ListInv
  <1> SUFFICES ASSUME Init
               PROVE  ListInv
    OBVIOUS
  <1>1. PICK world \in Worlds : versions = [i \in DOMAIN world |-> <<world[i]>>]
    BY DEF Init
  <1>2. world \in Seq(Record) /\ \A i \in DOMAIN world : world[i].id = i
    BY PagerAssumption
  <1>3. History(versions)
    <2>1. \A i \in DOMAIN world : /\ <<world[i]>> \in Seq(Record) /\ <<world[i]>> # <<>>
                                  /\ DOMAIN <<world[i]>> = {1} /\ <<world[i]>>[1] = world[i]
      BY <1>2
    <2>2. versions \in [1 .. Len(world) -> Seq(Record)] /\ DOMAIN versions = DOMAIN world /\ Len(world) \in Nat
      BY <1>1, <1>2, <2>1
    <2>3. versions \in Seq(Seq(Record))
      BY <2>2
    <2> QED BY <1>1, <1>2, <2>1, <2>2, <2>3 DEF History
  <1>4. clock \in Nat /\ DOMAIN lists = {}
    BY DEF Init
  <1>5. tabs \in [Tabs -> Tab] /\ \A t \in Tabs : Faithful(versions, tabs[t])
    BY ClosedFaithful DEF Init
  <1> QED BY <1>3, <1>4, <1>5 DEF ListInv

----------------------------------------------------------------------------
(* Writing *)

\* Versions are only added.
Extends(old, new) ==
  /\ DOMAIN old \subseteq DOMAIN new
  /\ \A i \in DOMAIN old : DOMAIN old[i] \subseteq DOMAIN new[i] /\ \A k \in DOMAIN old[i] : new[i][k] = old[i][k]

LEMMA CurrentRow ==
  ASSUME History(versions), NEW i \in IDs
  PROVE  /\ Row(i) \in Record /\ Row(i).id = i /\ versions[i] \in Seq(Record)
         /\ Len(versions[i]) \in DOMAIN versions[i] /\ i \in DOMAIN versions
  <1>1. i \in DOMAIN versions /\ versions[i] \in Seq(Record) /\ versions[i] # <<>>
    BY DEF History, IDs
  <1>2. Len(versions[i]) \in DOMAIN versions[i]
    BY <1>1
  <1> QED BY <1>1, <1>2 DEF History, Row

LEMMA AppendVersion ==
  ASSUME NEW i, NEW s \in Seq(Record), NEW r \in Record, r.id = i, \A k \in DOMAIN s : s[k].id = i
  PROVE  /\ Append(s, r) \in Seq(Record) /\ Append(s, r) # <<>>
         /\ DOMAIN s \subseteq DOMAIN Append(s, r)
         /\ \A k \in DOMAIN s : Append(s, r)[k] = s[k]
         /\ \A k \in DOMAIN Append(s, r) : Append(s, r)[k].id = i
  OBVIOUS

LEMMA ChangeExtends ==
  ASSUME History(versions), clock \in Nat,
         NEW i \in 1 .. Len(versions) + 1, NEW scope \in Scopes, NEW says \in Says, Change(i, scope, says)
  PROVE  History(versions') /\ Extends(versions, versions') /\ clock' \in Nat
  <1> DEFINE retired == {j \in IDs \ {i} : /\ says.purpose = "handoff" /\ ~says.archived
                                           /\ IsHandoff(Row(j)) /\ Row(j).scope = scope /\ ~Row(j).archived}
             new == Version(i, scope, says, clock')
             gone(j) == [Row(j) EXCEPT !.archived = TRUE, !.updated = clock']
             after(j) == IF j \notin IDs THEN <<Version(j, scope, says, clock')>>
                         ELSE IF j = i THEN Append(versions[j], Version(j, scope, says, clock'))
                         ELSE IF j \in retired THEN Append(versions[j], gone(j)) ELSE versions[j]
  <1>1. versions' = [j \in IDs \cup {i} |-> after(j)]
    BY DEF Change
  <1>2. clock' \in Nat
    <2>1. clock' = clock \/ clock' = clock + 1
      BY DEF Change
    <2> HIDE DEF retired, new, gone, after
    <2> QED BY <2>1
  <1>3. new \in Record /\ new.id = i
    <2>1. says \in Texts
      BY PagerAssumption
    <2>2. scope \in ScopesInUse /\ i \in Nat
      BY DEF ScopesInUse
    <2> QED BY <1>2, <2>1, <2>2 DEF Version, Record, Texts
  <1>4. ASSUME NEW j \in IDs PROVE gone(j) \in Record /\ gone(j).id = j
    BY <1>2, <1>4, CurrentRow DEF Record
  <1>5. versions \in Seq(Seq(Record)) /\ IDs = DOMAIN versions /\ Len(versions) \in Nat
    BY DEF History, IDs
  <1> HIDE DEF retired, gone
  <1>6. ASSUME NEW j \in IDs
        PROVE  /\ after(j) \in Seq(Record) /\ after(j) # <<>> /\ \A k \in DOMAIN after(j) : after(j)[k].id = j
               /\ DOMAIN versions[j] \subseteq DOMAIN after(j)
               /\ \A k \in DOMAIN versions[j] : after(j)[k] = versions[j][k]
    <2>1. versions[j] \in Seq(Record) /\ versions[j] # <<>> /\ \A k \in DOMAIN versions[j] : versions[j][k].id = j
      BY <1>5 DEF History
    <2>2. CASE j = i
      <3>1. after(j) = Append(versions[j], new)
        BY <2>2
      <3> HIDE DEF after, new
      <3> QED BY <1>3, <2>1, <2>2, <3>1, AppendVersion
    <2>3. CASE j # i /\ j \in retired
      <3>1. after(j) = Append(versions[j], gone(j))
        BY <2>3
      <3> HIDE DEF after
      <3> QED BY <1>4, <2>1, <3>1, AppendVersion
    <2>4. CASE j # i /\ j \notin retired
      <3>1. after(j) = versions[j]
        BY <2>4
      <3> HIDE DEF after
      <3> QED BY <2>1, <3>1
    <2> QED BY <2>2, <2>3, <2>4
  <1>7. ASSUME i \notin IDs
        PROVE  after(i) = <<new>> /\ <<new>> \in Seq(Record) /\ <<new>> # <<>>
               /\ \A k \in DOMAIN <<new>> : <<new>>[k].id = i
    <2> HIDE DEF new
    <2>1. <<new>> \in Seq(Record) /\ <<new>> # <<>> /\ \A k \in DOMAIN <<new>> : <<new>>[k].id = i
      BY <1>3
    <2> QED BY <1>7, <2>1 DEF new
  <1> HIDE DEF after, new
  <1>8. \A j \in IDs \cup {i} : after(j) \in Seq(Record) /\ after(j) # <<>> /\ \A k \in DOMAIN after(j) : after(j)[k].id = j
    BY <1>6, <1>7
  <1>9. \E n \in Nat : IDs \cup {i} = 1 .. n
    <2>1. CASE i \in IDs
      BY <1>5, <2>1 DEF IDs
    <2>2. CASE i \notin IDs
      <3>1. i = Len(versions) + 1
        BY <1>5, <2>2 DEF IDs
      <3>2. IDs \cup {i} = 1 .. Len(versions) + 1 /\ Len(versions) + 1 \in Nat
        BY <1>5, <3>1 DEF IDs
      <3> QED BY <3>2
    <2> QED BY <2>1, <2>2
  <1>10. versions' \in Seq(Seq(Record)) /\ DOMAIN versions' = IDs \cup {i}
    <2>1. PICK n \in Nat : IDs \cup {i} = 1 .. n
      BY <1>9
    <2>2. versions' \in [1 .. n -> Seq(Record)] /\ DOMAIN versions' = 1 .. n
      BY <1>1, <1>8, <2>1
    <2>3. versions' \in Seq(Seq(Record))
      BY <2>2
    <2> QED BY <2>1, <2>2, <2>3
  <1>11. History(versions')
    BY <1>1, <1>8, <1>10 DEF History
  <1>12. Extends(versions, versions')
    BY <1>1, <1>5, <1>6, <1>10 DEF Extends
  <1> QED BY <1>2, <1>11, <1>12

\* A reference goes on naming the same version.
LEMMA FaithfulKept ==
  ASSUME NEW old, NEW new, Extends(old, new), NEW tab, Faithful(old, tab)
  PROVE  Faithful(new, tab)
  <1>1. ASSUME NEW refs, NEW listed, Names(old, refs, listed)
        PROVE  Names(new, refs, listed)
    BY <1>1 DEF Names, Extends
  <1> QED BY <1>1 DEF Faithful

----------------------------------------------------------------------------
(* Reading *)

\* A query's references name the current rows.
LEMMA ReferencesName ==
  ASSUME History(versions), NEW view
  PROVE  LET refs == References(view)
         IN  Names(versions, refs, [n \in DOMAIN refs |-> Revision(refs[n])])
  <1> DEFINE rows == {r \in RowsNow : Visible(r.scope, view) /\ Listed(r, view)}
             found == Sorted(rows)
             refs == References(view)
             listed == [n \in DOMAIN refs |-> Revision(refs[n])]
  <1>1. IsFiniteSet(RowsNow) /\ \A r \in RowsNow : r.id \in IDs /\ r = Row(r.id) /\ r \in Record
    <2>1. [i \in IDs |-> Row(i)] \in Surjection(IDs, RowsNow)
      BY DEF Surjection, RowsNow
    <2>2. IsFiniteSet(IDs)
      <3>1. 1 \in Int /\ Len(versions) \in Int
        BY DEF History
      <3> QED BY <3>1, FS_Interval DEF IDs
    <2>3. IsFiniteSet(RowsNow)
      BY <2>1, <2>2, FS_Surjection
    <2>4. \A i \in IDs : Row(i).id = i /\ Row(i) \in Record
      BY CurrentRow
    <2> QED BY <2>3, <2>4 DEF RowsNow
  <1>2. rows \subseteq RowsNow /\ Rows(rows)
    BY <1>1, FS_Subset DEF Rows
  <1> HIDE DEF rows
  <1>3. found \in Seq(rows)
    BY <1>2, SortedLists
  <1>4. refs = [n \in 1 .. Len(found) |-> [id |-> found[n].id, revision |-> Len(versions[found[n].id])]]
    BY DEF References, rows
  <1>5. ASSUME NEW n \in 1 .. Len(found)
        PROVE  /\ refs[n] \in Reference /\ refs[n].id \in DOMAIN versions
               /\ refs[n].revision \in DOMAIN versions[refs[n].id]
               /\ Revision(refs[n]) \in Record
    <2> DEFINE i == found[n].id
    <2>1. i \in IDs
      BY <1>1, <1>2, <1>3
    <2> HIDE DEF i
    <2>2. i \in DOMAIN versions /\ i \in Nat /\ versions[i] \in Seq(Record) /\ Len(versions[i]) \in DOMAIN versions[i]
      BY <2>1, CurrentRow DEF IDs
    <2>3. refs[n].id = i /\ refs[n].revision = Len(versions[i]) /\ refs[n] \in Reference
      BY <1>4, <2>2 DEF i, Reference
    <2> QED BY <2>2, <2>3 DEF Revision
  <1>6. Len(found) \in Nat
    BY <1>3
  <1> HIDE DEF found, refs
  <1>7. refs \in Seq(Reference) /\ DOMAIN refs = 1 .. Len(found)
    <2>1. refs \in [1 .. Len(found) -> Reference]
      BY <1>4, <1>5
    <2> QED BY <1>6, <2>1
  <1>8. listed \in Seq(Record) /\ Len(listed) = Len(refs) /\ \A n \in DOMAIN refs : listed[n] = Revision(refs[n])
    <2>1. listed \in [1 .. Len(found) -> Record]
      BY <1>5, <1>7
    <2>2. listed \in Seq(Record) /\ Len(listed) = Len(found) /\ Len(refs) = Len(found)
      BY <1>6, <1>7, <2>1
    <2> QED BY <2>2
  <1> HIDE DEF listed
  <1>9. Names(versions, refs, listed)
    BY <1>5, <1>7, <1>8 DEF Names, Revision
  <1> QED BY <1>9 DEF refs, listed

\* The pager's steps change one tab and keep snapshots or add the tab's.
LEMMA OneTab ==
  ASSUME ListInv, NEW t \in Tabs, NEW tab, tab \in Tab, Faithful(versions, tab),
         tabs' = [tabs EXCEPT ![t] = tab], UNCHANGED <<versions, clock>>,
         \A key \in DOMAIN lists' : Snapshot(key, lists'[key])
  PROVE  ListInv'
  <1>1. \A s \in Tabs : Faithful(versions, tabs'[s]) /\ tabs' \in [Tabs -> Tab]
    BY DEF ListInv
  <1>2. \A s \in Tabs : Faithful(versions', tabs'[s])
    <2>1. Extends(versions, versions')
      BY DEF Extends
    <2> QED BY <1>1, <2>1, FaithfulKept
  <1>3. History(versions') /\ clock' \in Nat
    BY DEF ListInv
  <1> QED BY <1>1, <1>2, <1>3 DEF ListInv

LEMMA StepList ==
  ASSUME ListInv, NEW t \in Tabs, NEW view \in Views, List(t, view)
  PROVE  ListInv'
  <1> DEFINE refs == References(view)
             listed == [n \in DOMAIN refs |-> Revision(refs[n])]
             tab == [Closed EXCEPT !.at = "queried", !.view = view, !.refs = refs, !.listed = listed]
  <1>1. Names(versions, refs, listed)
    BY ReferencesName DEF ListInv
  <1>2. tabs' = [tabs EXCEPT ![t] = tab] /\ UNCHANGED <<versions, clock, lists>>
    BY DEF List
  <1> HIDE DEF refs, listed
  <1>3. refs \in Seq(Reference) /\ listed \in Seq(Record)
    BY <1>1 DEF Names
  <1>4. tab \in Tab /\ tab.at = "queried" /\ tab.refs = refs /\ tab.listed = listed /\ tab.shown = <<>> /\ tab.view = view
    BY <1>3, ClosedFaithful DEF Closed, Tab
  <1> HIDE DEF tab
  <1>5. Begins(tab)
    BY <1>3, <1>4 DEF Begins
  <1>6. Faithful(versions, tab)
    BY <1>1, <1>4, <1>5 DEF Faithful
  <1>7. \A key \in DOMAIN lists' : Snapshot(key, lists'[key])
    BY <1>2 DEF ListInv
  <1> QED BY <1>2, <1>4, <1>6, <1>7, OneTab

LEMMA StepKeep ==
  ASSUME ListInv, NEW t \in Tabs, Keep(t)
  PROVE  ListInv'
  <1> DEFINE refs == tabs[t].refs
             key == KeyOf(tabs[t].view, refs)
             new == [view |-> tabs[t].view, refs |-> refs, left |-> Lifetime]
             tab == [tabs[t] EXCEPT !.at = "loading", !.cursor = key]
  <1>1. Faithful(versions, tabs[t]) /\ tabs[t] \in Tab /\ tabs[t].at = "queried"
    BY DEF ListInv, Keep, Faithful
  <1>2. refs \in Seq(Reference) /\ tabs[t].view \in Views /\ Names(versions, refs, tabs[t].listed) /\ Begins(tabs[t])
    BY <1>1 DEF Faithful, Tab
  <1>3. key \in Views \X Seq(Reference) /\ key[2] = refs /\ key = <<tabs[t].view, refs>>
    BY <1>2 DEF KeyOf
  <1>4. tabs' = [tabs EXCEPT ![t] = tab] /\ UNCHANGED <<versions, clock>>
    BY DEF Keep
  <1>5. \A k \in DOMAIN lists' : Snapshot(k, lists'[k])
    <2>1. \A k \in DOMAIN Unexpired : Snapshot(k, Unexpired[k])
      BY DEF Unexpired, ListInv
    <2>2. CASE lists' = Unexpired
      BY <2>1, <2>2
    <2>3. ASSUME NEW rest \in Evicted(Unexpired, refs),
                 lists' = [k \in DOMAIN rest \cup {key} |-> IF k = key THEN new ELSE rest[k]]
          PROVE  \A k \in DOMAIN lists' : Snapshot(k, lists'[k])
      <3>1. PICK keys \in SUBSET DOMAIN Unexpired : rest = [k \in keys |-> Unexpired[k]]
        BY DEF Evicted
      <3>2. \A k \in DOMAIN rest : Snapshot(k, rest[k])
        BY <2>1, <3>1
      <3>3. Snapshot(key, new)
        BY <1>2, <1>3, PagerAssumption DEF Snapshot
      <3> HIDE DEF key, new
      <3> QED BY <2>3, <3>2, <3>3
    <2>4. \/ lists' = Unexpired
          \/ \E rest \in Evicted(Unexpired, refs) :
               lists' = [k \in DOMAIN rest \cup {key} |-> IF k = key THEN new ELSE rest[k]]
      BY DEF Keep
    <2> HIDE DEF key, new, refs
    <2> QED BY <2>2, <2>3, <2>4
  <1> HIDE DEF key, refs
  <1>6. /\ tab \in Tab /\ tab.at = "loading" /\ tab.cursor = key /\ tab.refs = refs
        /\ tab.shown = tabs[t].shown /\ tab.listed = tabs[t].listed
    BY <1>1, <1>3 DEF Tab, refs
  <1> HIDE DEF tab
  <1>7. Faithful(versions, tab)
    BY <1>2, <1>3, <1>6 DEF Faithful, Begins
  <1> QED BY <1>4, <1>5, <1>6, <1>7, OneTab

LEMMA UnexpiredKept ==
  ASSUME ListInv
  PROVE  \A key \in DOMAIN Unexpired : key \in DOMAIN lists /\ Snapshot(key, Unexpired[key])
  BY DEF Unexpired, ListInv

LEMMA StepContinue ==
  ASSUME ListInv, NEW t \in Tabs, Continue(t)
  PROVE  ListInv'
  <1> DEFINE old == tabs[t]
             on == [old EXCEPT !.at = "loading", !.refs = lists[old.cursor].refs, !.start = Len(old.shown)]
             tab == IF old.cursor \in DOMAIN Unexpired THEN on ELSE Closed
  <1>1. tabs' = [tabs EXCEPT ![t] = tab] /\ UNCHANGED <<versions, clock>> /\ lists' = Unexpired
    BY DEF Continue
  <1>2. Faithful(versions, old) /\ old \in Tab /\ old.at = "idle" /\ old.cursor # None
    BY DEF ListInv, Continue, Faithful
  <1>3. ASSUME old.cursor \in DOMAIN Unexpired
        PROVE  on \in Tab /\ Faithful(versions, on)
    <2> DEFINE refs == lists[old.cursor].refs
    <2>1. Snapshot(old.cursor, lists[old.cursor])
      BY <1>3, UnexpiredKept DEF ListInv
    <2>2. old.cursor[2] = refs /\ refs \in Seq(Reference) /\ old.cursor \in Views \X Seq(Reference)
      <3> DEFINE key == old.cursor
                 list == lists[key]
      <3>1. list \in [view : Views, refs : Seq(Reference), left : Nat] /\ key = <<list.view, list.refs>>
        BY <2>1 DEF Snapshot
      <3> HIDE DEF key, list
      <3>2. list.view \in Views /\ list.refs \in Seq(Reference)
        BY <3>1
      <3>3. key[2] = list.refs /\ key \in Views \X Seq(Reference)
        BY <3>1, <3>2
      <3> QED BY <3>2, <3>3 DEF key, list
    <2>3. Names(versions, refs, old.listed) /\ Begins(old)
      BY <1>2, <2>2 DEF Faithful
    <2>4. old.shown \in Seq(Record) /\ Len(old.shown) \in Nat
      BY <2>3 DEF Begins
    <2> HIDE DEF refs
    <2>5. on = [old EXCEPT !.at = "loading", !.refs = refs, !.start = Len(old.shown)]
      BY DEF refs
    <2> HIDE DEF on, old
    <2>6. /\ on \in Tab /\ on.at = "loading" /\ on.cursor = old.cursor /\ on.refs = refs
          /\ on.shown = old.shown /\ on.listed = old.listed
      BY <1>2, <2>2, <2>4, <2>5 DEF Tab
    <2> QED BY <2>2, <2>3, <2>6 DEF Faithful, Begins
  <1> HIDE DEF on
  <1>4. tab \in Tab /\ Faithful(versions, tab)
    BY <1>3, ClosedFaithful
  <1> HIDE DEF tab
  <1> QED BY <1>1, <1>4, UnexpiredKept, OneTab

LEMMA StepLoad ==
  ASSUME ListInv, NEW t \in Tabs, Load(t)
  PROVE  ListInv'
  <1> DEFINE old == tabs[t]
             next == Revision(old.refs[Len(old.shown) + 1])
             tab == [old EXCEPT !.shown = Append(@, next)]
  <1>1. tabs' = [tabs EXCEPT ![t] = tab] /\ UNCHANGED <<versions, clock, lists>>
    BY DEF Load, Loaded
  <1>2. Faithful(versions, old) /\ old \in Tab /\ old.at = "loading" /\ Len(old.shown) < Len(old.refs)
    BY DEF ListInv, Load, HasRoom, Faithful
  <1>3. Names(versions, old.refs, old.listed) /\ Begins(old)
    BY <1>2 DEF Faithful
  <1>4. next = old.listed[Len(old.shown) + 1] /\ next \in Record /\ Len(old.shown) + 1 <= Len(old.listed)
    <2>1. Len(old.shown) + 1 \in DOMAIN old.refs
      BY <1>2, <1>3 DEF Names, Begins
    <2>2. Len(old.shown) + 1 \in DOMAIN old.listed
      BY <1>2, <1>3 DEF Names, Begins
    <2>3. next = old.listed[Len(old.shown) + 1]
      BY <1>3, <2>1 DEF Names, Revision
    <2>4. old.listed \in Seq(Record)
      BY <1>3 DEF Names
    <2> HIDE DEF old, next
    <2>5. old.listed[Len(old.shown) + 1] \in Record /\ Len(old.shown) + 1 <= Len(old.listed)
      BY <2>2, <2>4
    <2> QED BY <2>3, <2>5
  <1> HIDE DEF old, next
  <1>5. Append(old.shown, next) \in Seq(Record) /\ Len(Append(old.shown, next)) = Len(old.shown) + 1
        /\ \A n \in DOMAIN Append(old.shown, next) : Append(old.shown, next)[n] = old.listed[n]
    <2> DEFINE shown == old.shown
    <2>1. shown \in Seq(Record) /\ \A n \in DOMAIN shown : shown[n] = old.listed[n]
      BY <1>3 DEF Begins
    <2> HIDE DEF shown
    <2>2. /\ Append(shown, next) \in Seq(Record) /\ Len(Append(shown, next)) = Len(shown) + 1
          /\ \A n \in DOMAIN Append(shown, next) : n \in DOMAIN shown \/ n = Len(shown) + 1
          /\ \A n \in DOMAIN shown : Append(shown, next)[n] = shown[n]
          /\ Append(shown, next)[Len(shown) + 1] = next
      BY <1>4, <2>1
    <2>3. next = old.listed[Len(shown) + 1]
      BY <1>4 DEF shown
    <2>4. \A n \in DOMAIN Append(shown, next) : Append(shown, next)[n] = old.listed[n]
      BY <2>1, <2>2, <2>3
    <2> QED BY <2>2, <2>4 DEF shown
  <1>6. /\ tab \in Tab /\ tab.at = old.at /\ tab.cursor = old.cursor /\ tab.refs = old.refs
        /\ tab.shown = Append(old.shown, next) /\ tab.listed = old.listed
    BY <1>2, <1>5 DEF Tab
  <1> HIDE DEF tab
  <1>7. Begins(tab)
    BY <1>3, <1>4, <1>5, <1>6 DEF Begins
  <1>8. Faithful(versions, tab)
    BY <1>2, <1>3, <1>6, <1>7 DEF Faithful
  <1>9. \A key \in DOMAIN lists' : Snapshot(key, lists'[key])
    BY <1>1 DEF ListInv
  <1> QED BY <1>1, <1>6, <1>8, <1>9, OneTab DEF old

LEMMA StepFails ==
  ASSUME ListInv, NEW t \in Tabs, Fails(t)
  PROVE  ListInv'
  <1>1. tabs' = [tabs EXCEPT ![t] = Closed] /\ UNCHANGED <<versions, clock, lists>>
    BY DEF Fails
  <1>2. \A key \in DOMAIN lists' : Snapshot(key, lists'[key])
    BY <1>1 DEF ListInv
  <1> QED BY <1>1, <1>2, ClosedFaithful, OneTab

LEMMA StepSend ==
  ASSUME ListInv, NEW t \in Tabs, Send(t)
  PROVE  ListInv'
  <1> DEFINE old == tabs[t]
             cursor == IF Len(old.shown) < Len(old.refs) THEN old.cursor ELSE None
             tab == [old EXCEPT !.at = "idle", !.refs = <<>>, !.cursor = cursor]
  <1>1. tabs' = [tabs EXCEPT ![t] = tab] /\ UNCHANGED <<versions, clock, lists>>
    BY DEF Send
  <1>2. Faithful(versions, old) /\ old \in Tab /\ old.at = "loading"
    BY DEF ListInv, Send, Faithful
  <1>3. Names(versions, old.refs, old.listed) /\ Begins(old) /\ old.cursor \in Views \X Seq(Reference) /\ old.cursor # None
    BY <1>2, PagerAssumption DEF Faithful
  <1>4. Names(versions, old.cursor[2], old.listed)
    BY <1>2, <1>3 DEF Faithful
  <1>5. Len(old.shown) >= Len(old.refs) => old.shown = old.listed
    <2> SUFFICES ASSUME Len(old.shown) >= Len(old.refs)
                 PROVE  old.shown = old.listed
      OBVIOUS
    <2> DEFINE s == old.shown
               l == old.listed
    <2>1. s \in Seq(Record) /\ l \in Seq(Record) /\ Len(s) = Len(l) /\ \A n \in DOMAIN s : s[n] = l[n]
      BY <1>3 DEF Names, Begins
    <2> HIDE DEF s, l
    <2>2. s = l
      BY <2>1
    <2> QED BY <2>2 DEF s, l
  <1>6. Len(old.shown) \in Nat /\ Len(old.refs) \in Nat
    BY <1>3 DEF Names, Begins
  <1> HIDE DEF old
  <1>7. cursor \in (Views \X Seq(Reference)) \cup {None} /\ (cursor = None => old.shown = old.listed)
        /\ (cursor # None => cursor = old.cursor)
    BY <1>3, <1>5, <1>6
  <1> HIDE DEF cursor
  <1>8. /\ tab \in Tab /\ tab.at = "idle" /\ tab.cursor = cursor
        /\ tab.shown = old.shown /\ tab.listed = old.listed
    <2>1. old \in Tab /\ <<>> \in Seq(Reference) /\ cursor \in (Views \X Seq(Reference)) \cup {None}
      BY <1>2, <1>7
    <2> QED BY <2>1 DEF Tab
  <1> HIDE DEF tab
  <1>9. Faithful(versions, tab)
    BY <1>3, <1>4, <1>7, <1>8 DEF Faithful, Begins
  <1>10. \A key \in DOMAIN lists' : Snapshot(key, lists'[key])
    BY <1>1 DEF ListInv
  <1> QED BY <1>1, <1>8, <1>9, <1>10, OneTab DEF old

LEMMA ListStep == ListInv /\ [Next]_vars => ListInv'
  <1> SUFFICES ASSUME ListInv, [Next]_vars
               PROVE  ListInv'
    OBVIOUS
  <1>1. ASSUME NEW i \in 1 .. Len(versions) + 1, NEW scope \in Scopes, NEW says \in Says, Change(i, scope, says)
        PROVE  ListInv'
    <2>1. History(versions') /\ Extends(versions, versions') /\ clock' \in Nat
      BY <1>1, ChangeExtends DEF ListInv
    <2>2. UNCHANGED <<lists, tabs>>
      BY <1>1 DEF Change
    <2>3. \A t \in Tabs : Faithful(versions', tabs'[t])
      BY <2>1, <2>2, FaithfulKept DEF ListInv
    <2> QED BY <2>1, <2>2, <2>3 DEF ListInv, Snapshot
  <1>2. ASSUME NEW t \in Tabs, \/ \E view \in Views : List(t, view)
                               \/ Keep(t) \/ Continue(t) \/ Load(t) \/ Fails(t) \/ Send(t)
        PROVE  ListInv'
    BY <1>2, StepList, StepKeep, StepContinue, StepLoad, StepFails, StepSend
  <1>3. CASE Restart
    <2>1. /\ DOMAIN lists' = {} /\ UNCHANGED <<versions, clock>>
          /\ tabs' = [t \in Tabs |-> IF tabs[t].at = "idle" THEN tabs[t] ELSE Closed]
      BY <1>3 DEF Restart
    <2>2. \A t \in Tabs : tabs'[t] \in Tab /\ Faithful(versions, tabs'[t])
      BY <2>1, ClosedFaithful DEF ListInv
    <2>3. Extends(versions, versions')
      BY <2>1 DEF Extends
    <2>4. \A t \in Tabs : Faithful(versions', tabs'[t])
      BY <2>2, <2>3, FaithfulKept
    <2> QED BY <2>1, <2>2, <2>4 DEF ListInv
  <1>4. CASE Tick
    <2>1. /\ UNCHANGED <<versions, clock, tabs>> /\ DOMAIN lists' = DOMAIN lists
          /\ \A key \in DOMAIN lists :
               lists'[key] = [lists[key] EXCEPT !.left = IF @ > 0 THEN @ - 1 ELSE 0]
      BY <1>4 DEF Tick
    <2>2. ASSUME NEW key \in DOMAIN lists
          PROVE  Snapshot(key, lists'[key])
      <3>1. Snapshot(key, lists[key])
        BY DEF ListInv
      <3> QED BY <2>1, <3>1 DEF Snapshot
    <2>3. Extends(versions, versions')
      BY <2>1 DEF Extends
    <2>4. \A t \in Tabs : Faithful(versions', tabs'[t])
      BY <2>1, <2>3, FaithfulKept DEF ListInv
    <2> QED BY <2>1, <2>2, <2>4 DEF ListInv, Snapshot
  <1>5. CASE UNCHANGED vars
    <2>1. UNCHANGED <<versions, clock, lists, tabs>>
      BY <1>5 DEF vars
    <2>2. Extends(versions, versions')
      BY <2>1 DEF Extends
    <2>3. \A t \in Tabs : Faithful(versions', tabs'[t])
      BY <2>1, <2>2, FaithfulKept DEF ListInv
    <2> QED BY <2>1, <2>3 DEF ListInv, Snapshot
  <1> QED BY <1>1, <1>2, <1>3, <1>4, <1>5 DEF Next

\* A tab's pages put together are the list as it was when the tab asked for it, while
\* agents write, lists are evicted or expire and the server restarts.
THEOREM PagesStayFaithful == Spec => []PagesFaithful
  <1>1. ASSUME ListInv
        PROVE  PagesFaithful
    <2> SUFFICES ASSUME NEW t \in Tabs, tabs[t].listed # None
                 PROVE  /\ IsPrefix(tabs[t].shown, tabs[t].listed)
                        /\ tabs[t].at = "idle" /\ tabs[t].cursor = None => tabs[t].shown = tabs[t].listed
      BY DEF PagesFaithful
    <2> DEFINE s == tabs[t].shown
               l == tabs[t].listed
    <2>1. Faithful(versions, tabs[t])
      BY <1>1 DEF ListInv
    <2>2. Begins(tabs[t])
      BY <2>1 DEF Faithful
    <2>3. s \in Seq(Record) /\ l \in Seq(Record) /\ Len(s) <= Len(l) /\ \A n \in DOMAIN s : s[n] = l[n]
      BY <2>2 DEF Begins
    <2>4. IsPrefix(s, l)
      <3> HIDE DEF s, l
      <3>1. SubSeq(s, 1, Len(s)) = SubSeq(l, 1, Len(s))
        BY <2>3
      <3> QED BY <2>3, <3>1 DEF IsPrefix
    <2> QED BY <2>1, <2>4 DEF Faithful
  <1> QED BY ListInit, ListStep, <1>1, PTL DEF Spec

\* The rows of the moment are rows of a table.
LEMMA RowsOfTheMoment == ASSUME ListInv PROVE Rows(RowsNow)
  <1> DEFINE f == [i \in IDs |-> Row(i)]
  <1>1. History(versions)
    BY DEF ListInv
  <1>2. \A i \in IDs : Row(i) \in Record /\ Row(i).id = i
    BY <1>1, CurrentRow
  <1>3. IsFiniteSet(IDs)
    <2>1. 1 \in Int /\ Len(versions) \in Int
      BY <1>1 DEF History
    <2> QED BY <2>1, FS_Interval DEF IDs
  <1>4. f \in Surjection(IDs, RowsNow)
    BY DEF Surjection, RowsNow
  <1>5. IsFiniteSet(RowsNow)
    <2> HIDE DEF f
    <2> QED BY <1>3, <1>4, FS_Surjection
  <1> QED BY <1>2, <1>5 DEF Rows, RowsNow

\* Whatever was written, every agent's start keeps within its budget, wastes none of it,
\* takes one handoff and crowds out neither scope.
THEOREM BudgetsAreWellSpent == Spec => []BudgetWellSpent
  <1>1. ListInv => BudgetWellSpent
    BY RowsOfTheMoment, StartsFair, PagerAssumption DEF BudgetWellSpent
  <1> QED BY ListInit, ListStep, <1>1, PTL DEF Spec

\* Whatever was written, the owner's preview shows what the agent's context holds and
\* accounts for the rest.
THEOREM PreviewsStayTrue == Spec => []PreviewAgrees
  <1>1. ListInv => PreviewAgrees
    BY RowsOfTheMoment, PreviewsAgree, PagerAssumption DEF PreviewAgrees
  <1> QED BY ListInit, ListStep, <1>1, PTL DEF Spec
----------------------------------------------------------------------------
(* Cursors *)

\* The cursor of a page that was sent goes on after a record the page had and before a
\* record it had not: it is never answered with "page cursor does not match".
CursorsGoOn ==
  \A t \in Tabs : tabs[t].at = "idle" /\ tabs[t].cursor # None =>
    tabs[t].start < Len(tabs[t].shown) /\ Len(tabs[t].shown) < Len(tabs[t].cursor[2])

\* A page begins where there is a record to show, or with an empty list.
PageBegins(tab) ==
  /\ tab.at = "queried" => tab.start = 0 /\ tab.shown = <<>>
  /\ tab.at = "loading" => /\ tab.cursor[2] = tab.refs
                           /\ tab.start <= Len(tab.shown) /\ Len(tab.shown) <= Len(tab.refs)
                           /\ tab.start = 0 \/ tab.start < Len(tab.refs)
  /\ tab.at = "idle" /\ tab.cursor # None =>
       tab.start < Len(tab.shown) /\ Len(tab.shown) < Len(tab.cursor[2])

CursorInv == ListInv /\ \A t \in Tabs : PageBegins(tabs[t])

LEMMA ClosedBegins == PageBegins(Closed)
  BY DEF PageBegins, Closed

LEMMA OnePage ==
  ASSUME CursorInv, ListInv', NEW t \in Tabs, NEW tab, PageBegins(tab), tabs' = [tabs EXCEPT ![t] = tab]
  PROVE  CursorInv'
  <1>1. \A s \in Tabs : tabs'[s] = IF s = t THEN tab ELSE tabs[s]
    BY DEF CursorInv, ListInv
  <1> QED BY <1>1 DEF CursorInv

LEMMA CursorStep == CursorInv /\ [Next]_vars => CursorInv'
  <1> SUFFICES ASSUME CursorInv, [Next]_vars
               PROVE  CursorInv'
    OBVIOUS
  <1>1. ListInv /\ ListInv'
    BY ListStep DEF CursorInv
  <1>2. ASSUME UNCHANGED tabs
        PROVE  CursorInv'
    BY <1>1, <1>2 DEF CursorInv
  <1>3. ASSUME NEW t \in Tabs, NEW view \in Views, List(t, view)
        PROVE  CursorInv'
    <2> DEFINE refs == References(view)
               listed == [n \in DOMAIN refs |-> Revision(refs[n])]
               tab == [Closed EXCEPT !.at = "queried", !.view = view, !.refs = refs, !.listed = listed]
    <2>1. tabs' = [tabs EXCEPT ![t] = tab]
      BY <1>3 DEF List
    <2> HIDE DEF refs, listed
    <2>2. PageBegins(tab)
      BY DEF PageBegins, Closed
    <2> HIDE DEF tab
    <2> QED BY <1>1, <2>1, <2>2, OnePage
  <1>4. ASSUME NEW t \in Tabs, Keep(t)
        PROVE  CursorInv'
    <2> DEFINE old == tabs[t]
               key == KeyOf(old.view, old.refs)
               tab == [old EXCEPT !.at = "loading", !.cursor = key]
    <2>1. tabs' = [tabs EXCEPT ![t] = tab] /\ old.at = "queried" /\ old \in Tab
      BY <1>1, <1>4 DEF Keep, ListInv
    <2>2. old.start = 0 /\ old.shown = <<>> /\ old.refs \in Seq(Reference) /\ key[2] = old.refs
      BY <2>1 DEF CursorInv, PageBegins, Tab, KeyOf
    <2> HIDE DEF old, key
    <2>3. PageBegins(tab)
      BY <2>1, <2>2 DEF PageBegins, Tab
    <2> HIDE DEF tab
    <2> QED BY <1>1, <2>1, <2>3, OnePage DEF old
  <1>5. ASSUME NEW t \in Tabs, Continue(t)
        PROVE  CursorInv'
    <2> DEFINE old == tabs[t]
               refs == lists[old.cursor].refs
               on == [old EXCEPT !.at = "loading", !.refs = refs, !.start = Len(old.shown)]
               tab == IF old.cursor \in DOMAIN Unexpired THEN on ELSE Closed
    <2>1. tabs' = [tabs EXCEPT ![t] = tab] /\ old.at = "idle" /\ old.cursor # None /\ old \in Tab
      BY <1>1, <1>5 DEF Continue, ListInv
    <2>2. old.start < Len(old.shown) /\ Len(old.shown) < Len(old.cursor[2]) /\ Begins(old)
      BY <1>1, <2>1 DEF CursorInv, PageBegins, ListInv, Faithful
    <2>3. ASSUME old.cursor \in DOMAIN Unexpired
          PROVE  PageBegins(on)
      <3> DEFINE list == lists[old.cursor]
                 key == old.cursor
      <3>1. Snapshot(key, list)
        BY <1>1, <2>3, UnexpiredKept DEF ListInv
      <3> HIDE DEF list, key
      <3>2. key[2] = list.refs /\ list.refs \in Seq(Reference)
        BY <3>1 DEF Snapshot
      <3>3. old.cursor[2] = refs /\ refs \in Seq(Reference)
        BY <3>2 DEF list, key
      <3>4. Len(old.shown) \in Nat
        BY <2>2 DEF Begins
      <3> HIDE DEF old, refs
      <3>5. /\ on.at = "loading" /\ on.cursor = old.cursor /\ on.refs = refs
            /\ on.start = Len(old.shown) /\ on.shown = old.shown
        BY <2>1 DEF Tab
      <3> HIDE DEF on
      <3> QED BY <2>2, <3>3, <3>4, <3>5 DEF PageBegins
    <2> HIDE DEF on
    <2>4. PageBegins(tab)
      BY <2>3, ClosedBegins
    <2> HIDE DEF tab
    <2> QED BY <1>1, <2>1, <2>4, OnePage
  <1>6. ASSUME NEW t \in Tabs, Load(t)
        PROVE  CursorInv'
    <2> DEFINE old == tabs[t]
               next == Loaded(old.refs[Len(old.shown) + 1])
               tab == [old EXCEPT !.shown = Append(@, next)]
    <2>1. /\ tabs' = [tabs EXCEPT ![t] = tab] /\ old.at = "loading" /\ old \in Tab
          /\ Len(old.shown) < Len(old.refs)
      BY <1>1, <1>6 DEF Load, HasRoom, ListInv
    <2>2. PageBegins(old)
      BY DEF CursorInv
    <2> HIDE DEF old, next
    <2>3. old.shown \in Seq(Record) /\ old.refs \in Seq(Reference) /\ old.start \in Nat
      BY <2>1 DEF Tab
    <2>4. Len(Append(old.shown, next)) = Len(old.shown) + 1
      BY <2>3
    <2>5. /\ tab.at = old.at /\ tab.cursor = old.cursor /\ tab.refs = old.refs
          /\ tab.start = old.start /\ tab.shown = Append(old.shown, next)
      BY <2>1 DEF Tab
    <2> HIDE DEF tab
    <2>6. PageBegins(tab)
      BY <2>1, <2>2, <2>3, <2>4, <2>5 DEF PageBegins
    <2> QED BY <1>1, <2>1, <2>6, OnePage DEF old
  <1>7. ASSUME NEW t \in Tabs, Send(t)
        PROVE  CursorInv'
    <2> DEFINE old == tabs[t]
               more == Len(old.shown) < Len(old.refs)
               tab == [old EXCEPT !.at = "idle", !.refs = <<>>, !.cursor = IF more THEN @ ELSE None]
    <2>1. tabs' = [tabs EXCEPT ![t] = tab] /\ old.at = "loading" /\ old \in Tab /\ ~HasRoom(old)
      BY <1>1, <1>7 DEF Send, ListInv
    <2>2. PageBegins(old)
      BY DEF CursorInv
    <2> HIDE DEF old
    <2>3. /\ old.shown \in Seq(Record) /\ old.refs \in Seq(Reference) /\ old.start \in Nat
          /\ Len(old.shown) \in Nat /\ Len(old.refs) \in Nat
      BY <2>1 DEF Tab
    <2>4. more => old.start < Len(old.shown)
      BY <1>7, <2>3 DEF Send, old
    <2>5. /\ tab.at = "idle" /\ tab.cursor = (IF more THEN old.cursor ELSE None)
          /\ tab.start = old.start /\ tab.shown = old.shown
      BY <2>1 DEF Tab
    <2>6. more => Len(old.shown) < Len(old.cursor[2])
      BY <2>1, <2>2 DEF PageBegins
    <2> HIDE DEF tab, more
    <2>7. PageBegins(tab)
      BY <2>4, <2>5, <2>6 DEF PageBegins
    <2> QED BY <1>1, <2>1, <2>7, OnePage DEF old
  <1>8. CASE Restart
    <2>1. \A t \in Tabs : tabs'[t] = IF tabs[t].at = "idle" THEN tabs[t] ELSE Closed
      BY <1>8 DEF Restart
    <2> QED BY <1>1, <2>1, ClosedBegins DEF CursorInv
  <1>9. CASE \/ \E i \in 1 .. Len(versions) + 1, scope \in Scopes, says \in Says : Change(i, scope, says)
             \/ Tick \/ UNCHANGED vars
    BY <1>2, <1>9 DEF Change, Tick, vars
  <1>10. ASSUME NEW t \in Tabs, Fails(t)
         PROVE  CursorInv'
    BY <1>1, <1>10, ClosedBegins, OnePage DEF Fails
  <1> QED BY <1>3, <1>4, <1>5, <1>6, <1>7, <1>8, <1>9, <1>10 DEF Next

\* Every page a tab gets has a record the tab had not, or there is none left to get, and
\* every cursor sent is one the pager accepts while it has the snapshot.
THEOREM CursorsAlwaysGoOn == Spec => []CursorsGoOn
  <1>1. Init => CursorInv
    BY ListInit, ClosedBegins DEF Init, CursorInv
  <1>2. CursorInv => CursorsGoOn
    BY DEF CursorInv, CursorsGoOn, PageBegins
  <1> QED BY <1>1, <1>2, CursorStep, PTL DEF Spec
----------------------------------------------------------------------------
(* The room the pager has *)

\* Snapshots by key.
Kept(kept) == IsFiniteSet(DOMAIN kept) /\ \A key \in DOMAIN kept : kept[key].refs \in Seq(Reference)

Cells(kept) == UNION {{key} \X DOMAIN kept[key].refs : key \in DOMAIN kept}

LEMMA CellsFinite ==
  ASSUME NEW kept, Kept(kept)
  PROVE  IsFiniteSet(Cells(kept)) /\ RefsIn(kept) = Cardinality(Cells(kept)) /\ RefsIn(kept) \in Nat
  <1> DEFINE cells(key) == {key} \X DOMAIN kept[key].refs
             S == {cells(key) : key \in DOMAIN kept}
             f == [key \in DOMAIN kept |-> cells(key)]
  <1>1. IsFiniteSet(S)
    <2>1. f \in Surjection(DOMAIN kept, S)
      BY DEF Surjection
    <2> HIDE DEF f, S
    <2> QED BY <2>1, FS_Surjection DEF Kept
  <1>2. ASSUME NEW key \in DOMAIN kept
        PROVE  IsFiniteSet(cells(key))
    <2>1. IsFiniteSet(DOMAIN kept[key].refs)
      <3>1. kept[key].refs \in Seq(Reference)
        BY DEF Kept
      <3>2. DOMAIN kept[key].refs = 1 .. Len(kept[key].refs) /\ 1 \in Int /\ Len(kept[key].refs) \in Int
        BY <3>1
      <3> QED BY <3>2, FS_Interval
    <2> QED BY <2>1, FS_Singleton, FS_Product
  <1>3. IsFiniteSet(UNION S)
    <2>1. \A T \in S : IsFiniteSet(T)
      BY <1>2
    <2> HIDE DEF S
    <2> QED BY <1>1, <2>1, FS_UNION
  <1> QED BY <1>3, FS_CardinalityType DEF Cells, RefsIn

\* Fewer snapshots have fewer references.
LEMMA RefsGrow ==
  ASSUME NEW kept, Kept(kept), NEW some, DOMAIN some \subseteq DOMAIN kept,
         \A key \in DOMAIN some : some[key].refs = kept[key].refs
  PROVE  /\ Kept(some) /\ RefsIn(some) <= RefsIn(kept)
         /\ Cardinality(DOMAIN some) <= Cardinality(DOMAIN kept)
  <1>1. IsFiniteSet(DOMAIN some) /\ Cardinality(DOMAIN some) <= Cardinality(DOMAIN kept)
    BY FS_Subset DEF Kept
  <1>2. Kept(some)
    BY <1>1 DEF Kept
  <1>3. Cells(some) \subseteq Cells(kept)
    BY DEF Cells
  <1> QED BY <1>1, <1>2, <1>3, CellsFinite, FS_Subset

\* A new snapshot adds its references.
LEMMA RefsAdd ==
  ASSUME NEW kept, Kept(kept), NEW key, key \notin DOMAIN kept, NEW new, new.refs \in Seq(Reference),
         NEW more, more = [k \in DOMAIN kept \cup {key} |-> IF k = key THEN new ELSE kept[k]]
  PROVE  /\ Kept(more) /\ RefsIn(more) = RefsIn(kept) + Len(new.refs)
         /\ Cardinality(DOMAIN more) = Cardinality(DOMAIN kept) + 1
  <1> DEFINE own == {key} \X DOMAIN new.refs
  <1>1. IsFiniteSet(DOMAIN more) /\ Cardinality(DOMAIN more) = Cardinality(DOMAIN kept) + 1
    BY FS_AddElement DEF Kept
  <1>2. Kept(more)
    BY <1>1 DEF Kept
  <1>3. Cells(more) = Cells(kept) \cup own /\ Cells(kept) \cap own = {}
    <2>1. /\ DOMAIN more = DOMAIN kept \cup {key} /\ more[key] = new
          /\ \A k \in DOMAIN kept : more[k] = kept[k]
      OBVIOUS
    <2>2. \A c : c \in Cells(more) <=> \E k \in DOMAIN more : c \in {k} \X DOMAIN more[k].refs
      BY DEF Cells
    <2>3. \A c : c \in Cells(kept) <=> \E k \in DOMAIN kept : c \in {k} \X DOMAIN kept[k].refs
      BY DEF Cells
    <2>4. \A c : c \in Cells(more) <=> c \in Cells(kept) \cup own
      BY <2>1, <2>2, <2>3
    <2>5. \A c : c \in Cells(kept) => c \notin own
      BY <2>3
    <2> HIDE DEF own
    <2> QED BY <2>4, <2>5
  <1>4. IsFiniteSet(own) /\ Cardinality(own) = Len(new.refs)
    <2>1. DOMAIN new.refs = 1 .. Len(new.refs) /\ Len(new.refs) \in Nat /\ 1 \in Int /\ Len(new.refs) \in Int
      OBVIOUS
    <2>2. IsFiniteSet(1 .. Len(new.refs)) /\ Cardinality(1 .. Len(new.refs)) = Len(new.refs)
      <3> DEFINE n == Len(new.refs)
      <3>1. n \in Nat /\ 1 \in Int /\ n \in Int
        BY <2>1
      <3> HIDE DEF n
      <3>2. IsFiniteSet(1 .. n) /\ Cardinality(1 .. n) = IF 1 > n THEN 0 ELSE n - 1 + 1
        BY <3>1, FS_Interval
      <3>3. Cardinality(1 .. n) = n
        BY <3>1, <3>2
      <3> QED BY <3>2, <3>3 DEF n
    <2>3. IsFiniteSet({key}) /\ Cardinality({key}) = 1
      BY FS_Singleton
    <2>4. IsFiniteSet(own) /\ Cardinality(own) = 1 * Len(new.refs)
      <3> DEFINE I == DOMAIN new.refs
      <3>1. IsFiniteSet(I) /\ Cardinality(I) = Len(new.refs)
        BY <2>1, <2>2
      <3> HIDE DEF I
      <3>2. IsFiniteSet({key} \X I) /\ Cardinality({key} \X I) = Cardinality({key}) * Cardinality(I)
        BY <2>3, <3>1, FS_Product
      <3> QED BY <2>3, <3>1, <3>2 DEF I
    <2> QED BY <2>1, <2>4
  <1>5. IsFiniteSet(Cells(kept)) /\ RefsIn(kept) = Cardinality(Cells(kept)) /\ RefsIn(kept) \in Nat
    BY CellsFinite
  <1>6. RefsIn(more) = Cardinality(Cells(more))
    BY <1>2, CellsFinite
  <1>7. Cardinality(Cells(kept) \cap own) = 0
    BY <1>3, FS_EmptySet
  <1> HIDE DEF own
  <1>8. Cardinality(Cells(more)) = Cardinality(Cells(kept)) + Cardinality(own) - Cardinality(Cells(kept) \cap own)
    BY <1>3, <1>4, <1>5, FS_Union
  <1>9. Len(new.refs) \in Nat
    OBVIOUS
  <1> QED BY <1>1, <1>2, <1>4, <1>5, <1>6, <1>7, <1>8, <1>9

LEMMA NothingKept ==
  ASSUME NEW kept, DOMAIN kept = {}
  PROVE  Kept(kept) /\ RefsIn(kept) = 0 /\ Cardinality(DOMAIN kept) = 0
  <1>1. UNION {{key} \X DOMAIN kept[key].refs : key \in DOMAIN kept} = {}
    OBVIOUS
  <1> QED BY <1>1, FS_EmptySet DEF Kept, RefsIn

\* The pager keeps no more snapshots and no more references than it may.
ListsBounded == Cardinality(DOMAIN lists) <= MaxLists /\ RefsIn(lists) <= MaxRefs

\* A list that waits for the lock is one the query let through.
RoomInv ==
  /\ ListInv /\ IsFiniteSet(DOMAIN lists) /\ ListsBounded
  /\ \A t \in Tabs : tabs[t].at = "queried" => Len(tabs[t].refs) <= MaxRecords

LEMMA ListsKept ==
  ASSUME RoomInv
  PROVE  /\ Kept(lists) /\ Kept(Unexpired) /\ RefsIn(Unexpired) <= MaxRefs
         /\ Cardinality(DOMAIN Unexpired) <= MaxLists
  <1>1. Kept(lists)
    BY DEF RoomInv, ListInv, Snapshot, Kept
  <1>2. /\ DOMAIN Unexpired \subseteq DOMAIN lists
        /\ \A key \in DOMAIN Unexpired : Unexpired[key].refs = lists[key].refs
    BY DEF Unexpired
  <1>3. /\ Kept(Unexpired) /\ RefsIn(Unexpired) <= RefsIn(lists)
        /\ Cardinality(DOMAIN Unexpired) <= Cardinality(DOMAIN lists)
    BY <1>1, <1>2, RefsGrow
  <1>4. /\ RefsIn(lists) \in Nat /\ RefsIn(Unexpired) \in Nat /\ {MaxRefs, MaxLists} \subseteq Nat
        /\ Cardinality(DOMAIN lists) \in Nat /\ Cardinality(DOMAIN Unexpired) \in Nat
    BY <1>1, <1>3, CellsFinite, FS_CardinalityType, PagerAssumption DEF Kept
  <1> QED BY <1>1, <1>3, <1>4 DEF RoomInv, ListsBounded

\* With what may remain there is room for the new snapshot.
LEMMA NewFits ==
  ASSUME NEW kept, Kept(kept), NEW refs \in Seq(Reference), Len(refs) <= MaxRecords,
         NEW rest \in Evicted(kept, refs)
  PROVE  Kept(rest) /\ DOMAIN rest \subseteq DOMAIN kept /\ Fits(rest, refs)
  <1>1. PICK keys \in SUBSET DOMAIN kept : rest = [key \in keys |-> kept[key]]
    BY DEF Evicted
  <1>2. DOMAIN rest \subseteq DOMAIN kept /\ \A key \in DOMAIN rest : rest[key].refs = kept[key].refs
    BY <1>1
  <1>3. Kept(rest)
    BY <1>2, RefsGrow
  <1>4. CASE rest = <<>>
    <2>1. RefsIn(rest) = 0 /\ Cardinality(DOMAIN rest) = 0
      <3>1. DOMAIN rest = {}
        BY <1>4
      <3> QED BY <3>1, NothingKept
    <2>2. {MaxLists, MaxRefs, MaxRecords} \subseteq Nat \ {0} /\ MaxRecords <= MaxRefs /\ Len(refs) \in Nat
      BY PagerAssumption
    <2> QED BY <1>2, <1>3, <2>1, <2>2 DEF Fits
  <1>5. Fits(rest, refs) \/ rest = <<>>
    BY DEF Evicted
  <1> QED BY <1>2, <1>3, <1>4, <1>5

\* Steps that store nothing.
LEMMA RoomLeft ==
  ASSUME RoomInv, ListInv', DOMAIN lists' \subseteq DOMAIN lists,
         \A key \in DOMAIN lists' : lists'[key].refs = lists[key].refs,
         \A t \in Tabs : tabs'[t].at = "queried" => Len(tabs'[t].refs) <= MaxRecords
  PROVE  RoomInv'
  <1>1. /\ Kept(lists') /\ RefsIn(lists') <= RefsIn(lists)
        /\ Cardinality(DOMAIN lists') <= Cardinality(DOMAIN lists)
    BY ListsKept, RefsGrow
  <1>2. /\ RefsIn(lists) \in Nat /\ RefsIn(lists') \in Nat /\ {MaxRefs, MaxLists} \subseteq Nat
        /\ Cardinality(DOMAIN lists) \in Nat /\ Cardinality(DOMAIN lists') \in Nat
    BY <1>1, ListsKept, CellsFinite, FS_CardinalityType, PagerAssumption DEF Kept
  <1>3. ListsBounded'
    BY <1>1, <1>2 DEF RoomInv, ListsBounded
  <1> QED BY <1>1, <1>3 DEF RoomInv, Kept

LEMMA RoomInit == Init => RoomInv
  <1> SUFFICES ASSUME Init
               PROVE  RoomInv
    OBVIOUS
  <1>1. DOMAIN lists = {} /\ \A t \in Tabs : tabs[t].at = "idle"
    BY DEF Init, Closed
  <1>2. RefsIn(lists) = 0 /\ Cardinality(DOMAIN lists) = 0 /\ IsFiniteSet(DOMAIN lists)
    BY <1>1, NothingKept, FS_EmptySet
  <1> QED BY <1>1, <1>2, ListInit, PagerAssumption DEF RoomInv, ListsBounded

LEMMA RoomStep == RoomInv /\ [Next]_vars => RoomInv'
  <1> SUFFICES ASSUME RoomInv, [Next]_vars
               PROVE  RoomInv'
    OBVIOUS
  <1>1. ListInv /\ ListInv' /\ \A t \in Tabs : tabs[t].at = "queried" => Len(tabs[t].refs) <= MaxRecords
    BY ListStep DEF RoomInv
  <1>2. \A t \in Tabs : tabs[t] \in Tab
    BY <1>1 DEF ListInv
  <1>3. ASSUME UNCHANGED <<lists, tabs>>
        PROVE  RoomInv'
    BY <1>1, <1>3, RoomLeft
  <1>4. ASSUME NEW t \in Tabs, NEW view \in Views, List(t, view)
        PROVE  RoomInv'
    <2>1. Len(References(view)) <= MaxRecords /\ UNCHANGED lists
      BY <1>4 DEF List
    <2>2. \A s \in Tabs \ {t} : tabs'[s] = tabs[s]
      BY <1>4 DEF List
    <2>3. tabs'[t].refs = References(view)
      <3> DEFINE refs == References(view)
                 listed == [n \in DOMAIN refs |-> Revision(refs[n])]
      <3>1. tabs' = [tabs EXCEPT ![t] =
              [Closed EXCEPT !.at = "queried", !.view = view, !.refs = refs, !.listed = listed]]
        BY <1>4 DEF List
      <3> HIDE DEF refs, listed
      <3>2. tabs'[t].refs = refs
        BY <1>1, <3>1 DEF ListInv, Closed
      <3> QED BY <3>2 DEF refs
    <2> QED BY <1>1, <2>1, <2>2, <2>3, RoomLeft
  <1>5. ASSUME NEW t \in Tabs, Keep(t)
        PROVE  RoomInv'
    <2> DEFINE refs == tabs[t].refs
               key == KeyOf(tabs[t].view, refs)
               new == [view |-> tabs[t].view, refs |-> refs, left |-> Lifetime]
    <2>1. \A s \in Tabs : tabs'[s].at = "queried" => tabs'[s] = tabs[s]
      BY <1>1, <1>5 DEF Keep, ListInv
    <2>2. \A s \in Tabs : tabs'[s].at = "queried" => Len(tabs'[s].refs) <= MaxRecords
      BY <1>1, <2>1
    <2>3. refs \in Seq(Reference) /\ Len(refs) <= MaxRecords
      BY <1>1, <1>2, <1>5 DEF Keep, Tab
    <2>4. CASE lists' = Unexpired
      BY <1>1, <2>2, <2>4, RoomLeft DEF Unexpired
    <2>5. ASSUME key \notin DOMAIN Unexpired, NEW rest \in Evicted(Unexpired, refs),
                 lists' = [k \in DOMAIN rest \cup {key} |-> IF k = key THEN new ELSE rest[k]]
          PROVE  RoomInv'
      <3>1. Kept(rest) /\ DOMAIN rest \subseteq DOMAIN Unexpired /\ Fits(rest, refs)
        BY <2>3, <2>5, ListsKept, NewFits
      <3>2. new.refs = refs
        OBVIOUS
      <3> HIDE DEF new, key, refs
      <3>3. /\ Kept(lists') /\ RefsIn(lists') = RefsIn(rest) + Len(refs)
            /\ Cardinality(DOMAIN lists') = Cardinality(DOMAIN rest) + 1
        <4>1. key \notin DOMAIN rest /\ new.refs \in Seq(Reference)
          BY <2>3, <2>5, <3>1, <3>2
        <4>2. /\ Kept(lists') /\ RefsIn(lists') = RefsIn(rest) + Len(new.refs)
              /\ Cardinality(DOMAIN lists') = Cardinality(DOMAIN rest) + 1
          BY <2>5, <3>1, <4>1, RefsAdd
        <4> QED BY <3>2, <4>2
      <3>4. Cardinality(DOMAIN rest) \in Nat /\ MaxLists \in Nat
        BY <3>1, FS_CardinalityType, PagerAssumption DEF Kept
      <3>5. ListsBounded'
        BY <3>1, <3>3, <3>4 DEF Fits, ListsBounded
      <3> QED BY <1>1, <2>2, <3>3, <3>5 DEF RoomInv, Kept
    <2>6. \/ lists' = Unexpired
          \/ /\ key \notin DOMAIN Unexpired
             /\ \E rest \in Evicted(Unexpired, refs) :
                  lists' = [k \in DOMAIN rest \cup {key} |-> IF k = key THEN new ELSE rest[k]]
      BY <1>5 DEF Keep
    <2> HIDE DEF key, new, refs
    <2> QED BY <2>4, <2>5, <2>6
  <1>6. ASSUME NEW t \in Tabs, Continue(t)
        PROVE  RoomInv'
    <2>1. lists' = Unexpired
      BY <1>6 DEF Continue
    <2>2. \A s \in Tabs : tabs'[s].at = "queried" => tabs'[s] = tabs[s]
      BY <1>1, <1>6 DEF Continue, ListInv, Closed
    <2> QED BY <1>1, <2>1, <2>2, RoomLeft DEF Unexpired
  <1>7. ASSUME NEW t \in Tabs, Load(t) \/ Fails(t) \/ Send(t)
        PROVE  RoomInv'
    <2>1. UNCHANGED lists
      BY <1>7 DEF Load, Fails, Send
    <2>2. \A s \in Tabs \ {t} : tabs'[s] = tabs[s]
      <3>1. CASE Load(t)
        BY <1>1, <3>1 DEF Load, ListInv
      <3>2. CASE Send(t)
        BY <1>1, <3>2 DEF Send, ListInv
      <3>3. CASE Fails(t)
        BY <1>1, <3>3 DEF Fails, ListInv
      <3> QED BY <1>7, <3>1, <3>2, <3>3
    <2>3. tabs'[t].at # "queried"
      <3>1. CASE Load(t)
        BY <1>1, <3>1 DEF Load, ListInv
      <3>2. CASE Send(t)
        BY <1>1, <3>2 DEF Send, ListInv
      <3>3. CASE Fails(t)
        BY <1>1, <3>3 DEF Fails, ListInv, Closed
      <3> QED BY <1>7, <3>1, <3>2, <3>3
    <2>4. \A s \in Tabs : tabs'[s].at = "queried" => tabs'[s] = tabs[s]
      BY <2>2, <2>3
    <2> QED BY <1>1, <2>1, <2>4, RoomLeft
  <1>8. CASE Restart
    <2>1. DOMAIN lists' = {}
      BY <1>8 DEF Restart
    <2>2. \A s \in Tabs : tabs'[s].at = "queried" => tabs'[s] = tabs[s]
      BY <1>8 DEF Restart, Closed
    <2> QED BY <1>1, <2>1, <2>2, RoomLeft
  <1>9. CASE Tick
    <2>1. /\ UNCHANGED tabs /\ DOMAIN lists' = DOMAIN lists
          /\ \A key \in DOMAIN lists : lists'[key] = [lists[key] EXCEPT !.left = IF @ > 0 THEN @ - 1 ELSE 0]
      BY <1>9 DEF Tick
    <2>2. \A key \in DOMAIN lists : lists'[key].refs = lists[key].refs
      BY <1>1, <2>1 DEF ListInv, Snapshot
    <2> QED BY <1>1, <2>1, <2>2, RoomLeft
  <1>10. CASE \/ \E i \in 1 .. Len(versions) + 1, scope \in Scopes, says \in Says : Change(i, scope, says)
              \/ UNCHANGED vars
    BY <1>3, <1>10 DEF Change, vars
  <1> QED BY <1>4, <1>5, <1>6, <1>7, <1>8, <1>9, <1>10 DEF Next

\* However many lists are asked for and however they expire, the pager holds at most
\* MaxLists snapshots of together at most MaxRefs references.
THEOREM ListsStayBounded == Spec => []ListsBounded
  <1>1. RoomInv => ListsBounded
    BY DEF RoomInv
  <1> QED BY RoomInit, RoomStep, <1>1, PTL DEF Spec
----------------------------------------------------------------------------
(* Making room *)

\* Some member of a nonempty set of finite sets has the fewest members.
LEMMA Fewest ==
  ASSUME NEW F, F # {}, \A X \in F : IsFiniteSet(X)
  PROVE  \E X \in F : \A Y \in F : Cardinality(X) <= Cardinality(Y)
  <1> DEFINE sizes == {Cardinality(X) : X \in F}
             less == OpToRel(<, Nat)
  <1>1. IsWellFoundedOn(less, Nat)
    BY NatLessThanWellFounded
  <1>2. \A m, n \in Nat : m < n => <<m, n>> \in less
    BY DEF OpToRel
  <1>3. sizes \subseteq Nat /\ sizes # {}
    BY FS_CardinalityType
  <1> HIDE DEF less
  <1>4. PICK n \in sizes : \A m \in sizes : <<m, n>> \notin less
    <2> HIDE DEF sizes
    <2> QED BY <1>1, <1>3, WFMin
  <1>5. ASSUME NEW m \in sizes
        PROVE  n <= m
    <2>1. m \in Nat /\ n \in Nat /\ <<m, n>> \notin less
      BY <1>3, <1>4
    <2>2. ~(m < n)
      BY <1>2, <2>1
    <2> QED BY <2>1, <2>2
  <1> QED BY <1>5

\* A snapshot of a finite set that none of the set expires after.
LEMMA Latest ==
  ASSUME NEW kept, NEW gone, gone # {}, IsFiniteSet(gone), \A key \in gone : kept[key].left \in Nat
  PROVE  \E g \in gone : \A h \in gone : kept[h].left <= kept[g].left
  <1> DEFINE later(g) == {h \in gone : kept[h].left > kept[g].left}
             F == {later(g) : g \in gone}
  <1>1. \A X \in F : IsFiniteSet(X) /\ F # {}
    BY FS_Subset
  <1>2. PICK X \in F : \A Y \in F : Cardinality(X) <= Cardinality(Y)
    <2>1. F # {}
      OBVIOUS
    <2> HIDE DEF F
    <2> QED BY <1>1, <2>1, Fewest
  <1>3. PICK g \in gone : X = later(g)
    BY <1>2
  <1>4. ASSUME NEW h \in gone, kept[h].left > kept[g].left
        PROVE  FALSE
    <2>1. later(h) \subseteq later(g) /\ h \in later(g) /\ h \notin later(h)
      BY <1>4
    <2>2. IsFiniteSet(later(g)) /\ Cardinality(later(g)) <= Cardinality(later(h)) /\ IsFiniteSet(later(h))
      BY <1>1, <1>2, <1>3
    <2> DEFINE G == later(g)
               H == later(h)
    <2> HIDE DEF later
    <2>3. Cardinality(H) <= Cardinality(G) /\ (Cardinality(G) = Cardinality(H) => G = H)
      BY <2>1, <2>2, FS_Subset
    <2>4. Cardinality(G) \in Nat /\ Cardinality(H) \in Nat
      BY <2>2, FS_CardinalityType
    <2> QED BY <2>1, <2>2, <2>3, <2>4
  <1> QED BY <1>4

\* Whatever snapshots there are, taking those closest to expiry away ends with room or with
\* none of them.
LEMMA RoomIsMade ==
  ASSUME NEW kept, Kept(kept), \A key \in DOMAIN kept : kept[key].left \in Nat, NEW refs
  PROVE  Evicted(kept, refs) # {}
  <1> DEFINE D == DOMAIN kept
             of(keys) == [key \in keys |-> kept[key]]
             last(keys) == \A g \in D \ keys, r \in keys : kept[g].left <= kept[r].left
             stays(keys) == last(keys) /\ (Fits(of(keys), refs) \/ keys = {})
             F == {D \ keys : keys \in {k \in SUBSET D : stays(k)}}
  <1>1. D \in F
    <2>1. {} \in SUBSET D /\ stays({}) /\ D \ {} = D
      OBVIOUS
    <2> HIDE DEF D, stays
    <2> QED BY <2>1
  <1>2. \A X \in F : IsFiniteSet(X)
    BY FS_Subset DEF Kept
  <1>3. PICK X \in F : \A Y \in F : Cardinality(X) <= Cardinality(Y)
    <2> HIDE DEF F
    <2> QED BY <1>1, <1>2, Fewest
  <1>4. PICK keys \in SUBSET D : stays(keys) /\ X = D \ keys
    BY <1>3
  <1> DEFINE rest == of(keys)
             gone == D \ keys
  <1>5. DOMAIN rest = keys /\ \A key \in keys : rest[key] = kept[key]
    OBVIOUS
  <1>6. Fits(rest, refs) \/ rest = <<>>
    <2>1. CASE keys = {}
      BY <2>1
    <2> QED BY <1>4, <2>1
  <1>7. ASSUME gone # {}
        PROVE  \E g \in gone : /\ \A h \in gone : kept[h].left <= kept[g].left
                               /\ ~Fits(of(keys \cup {g}), refs)
    <2>1. PICK g \in gone : \A h \in gone : kept[h].left <= kept[g].left
      <3>1. IsFiniteSet(gone) /\ \A key \in gone : kept[key].left \in Nat
        BY <1>2, <1>3, <1>4
      <3> HIDE DEF gone
      <3> QED BY <1>7, <3>1, Latest
    <2> DEFINE more == keys \cup {g}
    <2>2. more \in SUBSET D /\ D \ more = gone \ {g}
      OBVIOUS
    <2>3. last(more)
      <3>1. last(keys)
        BY <1>4
      <3> QED BY <2>1, <3>1
    <2>4. IsFiniteSet(gone) /\ Cardinality(gone \ {g}) = Cardinality(gone) - 1 /\ Cardinality(gone) \in Nat
      <3>1. IsFiniteSet(gone)
        BY <1>2, <1>3, <1>4
      <3> HIDE DEF gone
      <3> QED BY <2>1, <3>1, FS_RemoveElement, FS_CardinalityType
    <2>5. ~stays(more)
      <3> SUFFICES ASSUME stays(more)
                   PROVE  FALSE
        OBVIOUS
      <3>1. D \ more \in F
        <4> HIDE DEF D, stays, more
        <4> QED BY <2>2
      <3>2. Cardinality(gone) <= Cardinality(gone \ {g})
        BY <1>3, <1>4, <2>2, <3>1
      <3> HIDE DEF gone
      <3> QED BY <2>4, <3>2
    <2> HIDE DEF last, of
    <2>6. ~Fits(of(more), refs)
      BY <2>3, <2>5
    <2> QED BY <2>1, <2>6
  <1>8. \A g \in gone, r \in DOMAIN rest : kept[g].left <= kept[r].left
    BY <1>4, <1>5
  <1>9. rest \in {of(k) : k \in SUBSET D}
    BY <1>4
  <1>10. rest \in Evicted(kept, refs)
    <2>1. D \ DOMAIN rest = gone /\ \A g : of(DOMAIN rest \cup {g}) = of(keys \cup {g})
      BY <1>5
    <2> HIDE DEF rest, gone
    <2> QED BY <1>5, <1>6, <1>7, <1>8, <1>9, <2>1 DEF Evicted
  <1> QED BY <1>10
\* The loop that makes room for a list ends whenever a list waits for the lock.
RoomForAll == \A t \in Tabs : tabs[t].at = "queried" => Evicted(Unexpired, tabs[t].refs) # {}

\* In every state, a list the query let through can be kept.
THEOREM RoomIsAlwaysMade == Spec => []RoomForAll
  <1>1. ASSUME RoomInv
        PROVE  RoomForAll
    <2>1. Kept(Unexpired)
      BY <1>1, ListsKept
    <2>2. \A key \in DOMAIN Unexpired : Unexpired[key].left \in Nat
      BY <1>1 DEF RoomInv, ListInv, Snapshot, Unexpired
    <2> QED BY <2>1, <2>2, RoomIsMade DEF RoomForAll
  <1> QED BY RoomInit, RoomStep, <1>1, PTL DEF Spec
============================================================================
