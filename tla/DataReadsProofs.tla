--------------------------- MODULE DataReadsProofs ---------------------------
(***************************************************************************)
(* Proofs about the endpoints that show data, for any clients, tables and  *)
(* requests: the types, that the pages of a store's alerts show each at    *)
(* its place, that the admin feed leaves no gap, and that what a client    *)
(* was shown is audited and his to see.                                    *)
(***************************************************************************)
EXTENDS DataReads, TLAPS, FiniteSetTheorems, SequenceTheorems

--------------------------------------------------------------------------------
(* The inductive invariant *)

Rows == Alerts \cup RecKinds \cup Nat
AboutStore == {"alerts", "detail", "rgm"}
Holding == {"read", "logged", "committed"}   \* a page is held

\* The domains that the type invariant leaves open.
Domains ==
  /\ wish \in [Clients -> Wish \cup {None}] /\ pc \in [Clients -> PC]
  /\ cursor \in [Clients -> Nat] /\ next \in [Clients -> Nat \cup {None}]
  /\ owner \in [Clients -> Reps \cup {None}]
  /\ page \in [Clients -> Seq(Rows)] /\ got \in [Clients -> Seq(Rows)]
  /\ accounted \in [Clients -> Nat] /\ before \in [Clients -> SUBSET Nat]
  /\ moved \in [Clients -> BOOLEAN] /\ late \in [Clients -> BOOLEAN]

\* A mock's alerts belong to the reps of their stores.
Tables == source = "mock" => \A a \in alerts : a.rep = repOf[a.store]

\* Where a handler is fits what it was asked.
Flow ==
  \A c \in Clients :
    IF pc[c] = "idle"
    THEN /\ got[c] = <<>> /\ cursor[c] = 0 /\ next[c] = None /\ accounted[c] = 0
         /\ ~moved[c]
    ELSE /\ wish[c] \in Wish
         /\ wish[c].kind = "detail" => next[c] = None /\ pc[c] # "found"
         /\ pc[c] = "more" => next[c] # None
         /\ ~Audited(wish[c]) => pc[c] \notin {"read", "logged"}

\* The audit: the events of a handler account for what its client was shown, and
\* for the page that is about to be.
Accounts ==
  \A c \in Clients : pc[c] # "idle" /\ Audited(wish[c]) =>
    /\ pc[c] = "error" => accounted[c] >= Len(got[c])
    /\ pc[c] = "committed" => accounted[c] = Len(got[c]) + Len(page[c])
    /\ pc[c] \notin {"error", "committed"} => accounted[c] = Len(got[c])
    /\ pc[c] = "logged" =>
         \E i \in DOMAIN log \ committed :
           /\ log[i].by = c /\ log[i].count = Len(page[c])
           /\ \A j \in DOMAIN log : log[j].by = c => j <= i

\* What a client holds or has been shown of a store is his.
HisOwn(w, rows) ==
  \A i \in DOMAIN rows : /\ rows[i].store = w.store
                         /\ w.role = "rep" => rows[i].rep = w.rep

Ownership ==
  \A c \in Clients : pc[c] # "idle" =>
    /\ wish[c].kind \in AboutStore =>
         /\ pc[c] \in {"found"} \cup Holding \/ got[c] # <<>> =>
              StoreAccess(wish[c], owner[c])
         /\ pc[c] = "found" /\ ~moved[c] =>
              /\ owner[c] = repOf[wish[c].store]
              /\ wish[c].role = "rep" => owner[c] = wish[c].rep
    /\ wish[c].kind = "alerts" =>
         HisOwn(wish[c], got[c]) /\ (pc[c] \in Holding => HisOwn(wish[c], page[c]))

\* The place of row x in the feed: how many committed events are newer.
Newer(x) == Cardinality({y \in committed : y > x})

\* What an admin has been shown, with the page his handler answers with.
Ahead(c) == ToSet(got[c]) \cup IF pc[c] = "committed" THEN ToSet(page[c]) ELSE {}

\* Do the events S hold the newest ones of B, without a gap?
HoldsNewest(S, B) == \A x \in B \ S, y \in B \cap S : x < y

\* The events of the start that an admin has not been shown come after those he
\* has, and the place where his list goes on is not behind them.
FeedGoesOn ==
  \A c \in Clients : pc[c] # "idle" /\ wish[c].kind = "feed" =>
    /\ before[c] \subseteq committed
    /\ HoldsNewest(ToSet(got[c]), before[c]) /\ HoldsNewest(Ahead(c), before[c])
    /\ pc[c] \in {"asked", "found"} => \A x \in before[c] \ Ahead(c) : Newer(x) >= cursor[c]
    /\ pc[c] \in {"committed", "more"} =>
         \A x \in before[c] \ Ahead(c) : next[c] # None /\ Newer(x) >= next[c]
    /\ pc[c] = "done" => before[c] \subseteq Ahead(c)

\* While no table moves a client has rows for the first places of the list that is
\* due, and his handler holds rows for the places after them.
PagesGoOn ==
  \A c \in Clients : Listing(c) /\ ~moved[c] =>
    /\ \A i \in DOMAIN got[c] : got[c][i] \in Due(c) /\ InPlace(got[c][i], i, Due(c))
    /\ pc[c] \in {"asked", "found"} \cup Holding => cursor[c] = Len(got[c])
    /\ pc[c] \in Holding =>
         /\ \A i \in DOMAIN page[c] : /\ page[c][i] \in Due(c)
                                      /\ InPlace(page[c][i], cursor[c] + i, Due(c))
         /\ next[c] # None => next[c] = cursor[c] + Len(page[c])
         /\ next[c] = None /\ ~late[c] => cursor[c] + Len(page[c]) = Cardinality(Due(c))
    /\ pc[c] = "more" => next[c] = Len(got[c])
    /\ pc[c] = "done" /\ ~late[c] => Len(got[c]) = Cardinality(Due(c))

ReadsInv ==
  /\ TypeOK /\ Domains /\ Tables /\ Flow
  /\ Accounts /\ Ownership /\ FeedGoesOn /\ PagesGoOn

--------------------------------------------------------------------------------
(* Sorting *)

\* The elements of S that come before x in the order R, a set of pairs.
Below(S, R, x) == {y \in S : <<y, x>> \in R}

StrictOrder(S, R) ==
  /\ \A x \in S : <<x, x>> \notin R
  /\ \A x, y, z \in S : <<x, y>> \in R /\ <<y, z>> \in R => <<x, z>> \in R
  /\ \A x, y \in S : x = y \/ <<x, y>> \in R \/ <<y, x>> \in R

\* In a finite ordered set the number of elements below it tells an element's
\* place, and every place is taken.
LEMMA Ranking ==
  ASSUME NEW S, IsFiniteSet(S), NEW R, StrictOrder(S, R)
  PROVE  /\ Cardinality(S) \in Nat
         /\ \A x \in S : Cardinality(Below(S, R, x)) \in 0..(Cardinality(S) - 1)
         /\ \A x, y \in S :
              Cardinality(Below(S, R, x)) < Cardinality(Below(S, R, y)) <=> <<x, y>> \in R
         /\ \A x, y \in S : Cardinality(Below(S, R, x)) = Cardinality(Below(S, R, y)) => x = y
         /\ \A i \in 0..(Cardinality(S) - 1) : \E x \in S : Cardinality(Below(S, R, x)) = i
<1> DEFINE rank(x) == Cardinality(Below(S, R, x))
<1>1. Cardinality(S) \in Nat
  BY FS_CardinalityType
<1>2. ASSUME NEW x \in S
      PROVE  rank(x) \in 0..(Cardinality(S) - 1)
  <2>1. Below(S, R, x) \subseteq S \ {x}
    BY DEF Below, StrictOrder
  <2>2. IsFiniteSet(S \ {x}) /\ Cardinality(S \ {x}) = Cardinality(S) - 1
    BY FS_RemoveElement
  <2>3. IsFiniteSet(Below(S, R, x)) /\ rank(x) <= Cardinality(S \ {x})
    BY <2>1, <2>2, FS_Subset
  <2>4. rank(x) \in Nat
    BY <2>3, FS_CardinalityType
  <2>. QED
    BY <1>1, <2>2, <2>3, <2>4
<1>3. ASSUME NEW x \in S, NEW y \in S, <<x, y>> \in R
      PROVE  rank(x) < rank(y)
  <2>1. Below(S, R, x) \subseteq Below(S, R, y) \ {x}
    BY <1>3 DEF Below, StrictOrder
  <2>2. Below(S, R, y) \subseteq S /\ x \in Below(S, R, y)
    BY <1>3 DEF Below
  <2>3. IsFiniteSet(Below(S, R, y))
    BY <2>2, FS_Subset
  <2>4. IsFiniteSet(Below(S, R, y) \ {x}) /\ Cardinality(Below(S, R, y) \ {x}) = rank(y) - 1
    BY <2>2, <2>3, FS_RemoveElement
  <2>5. rank(x) <= Cardinality(Below(S, R, y) \ {x})
    BY <2>1, <2>4, FS_Subset
  <2>. QED
    BY <1>1, <1>2, <2>4, <2>5
<1>4. \A x, y \in S : rank(x) < rank(y) <=> <<x, y>> \in R
  <2> SUFFICES ASSUME NEW x \in S, NEW y \in S, rank(x) < rank(y)
               PROVE  <<x, y>> \in R
    BY <1>3
  <2>1. rank(x) \in Int /\ rank(y) \in Int
    BY <1>2
  <2>2. x # y
    BY <2>1
  <2>3. CASE <<y, x>> \in R
    BY <1>3, <2>1, <2>3
  <2>. QED
    BY <2>2, <2>3 DEF StrictOrder
<1>5. \A x, y \in S : rank(x) = rank(y) => x = y
  <2> SUFFICES ASSUME NEW x \in S, NEW y \in S, rank(x) = rank(y), x # y
               PROVE  FALSE
    OBVIOUS
  <2>1. <<x, y>> \in R \/ <<y, x>> \in R
    BY DEF StrictOrder
  <2>2. rank(x) \in Int /\ rank(y) \in Int
    BY <1>2
  <2>3. rank(x) < rank(y) \/ rank(y) < rank(x)
    BY <1>3, <2>1
  <2>. QED
    BY <2>2, <2>3
<1>6. \A i \in 0..(Cardinality(S) - 1) : \E x \in S : rank(x) = i
  <2> DEFINE T == 0..(Cardinality(S) - 1)
             f == [x \in S |-> rank(x)]
  <2>1. f \in [S -> T]
    BY <1>2
  <2>2. f \in Injection(S, T)
    BY <1>5, <2>1 DEF Injection, IsInjective
  <2>3. IsFiniteSet(T) /\ Cardinality(T) = Cardinality(S)
    BY <1>1, FS_Interval
  <2>4. f \in Surjection(S, T)
    BY <2>2, <2>3, FS_Injection
  <2>. QED
    BY <2>4 DEF Surjection
<1>. QED
  BY <1>1, <1>2, <1>4, <1>5, <1>6

\* So the list of the elements by place is sorted, and misses none.
Listed(S, R) ==
  [i \in 1..Cardinality(S) |-> CHOOSE x \in S : Cardinality(Below(S, R, x)) = i - 1]

\* Listed has every element once, at its place.
LEMMA ListedInOrder ==
  ASSUME NEW S, IsFiniteSet(S), NEW R, StrictOrder(S, R)
  PROVE  /\ Listed(S, R) \in Seq(S)
         /\ Cardinality(S) \in Nat /\ Len(Listed(S, R)) = Cardinality(S)
         /\ \A i \in 1..Cardinality(S) :
              Listed(S, R)[i] \in S /\ Cardinality(Below(S, R, Listed(S, R)[i])) = i - 1
         /\ \A x \in S : \E i \in 1..Cardinality(S) : Listed(S, R)[i] = x
<1> DEFINE q == Listed(S, R)
           n == Cardinality(S)
           rank(x) == Cardinality(Below(S, R, x))
<1>1. n \in Nat
  BY Ranking
<1>2. \A i \in 1..n : q[i] \in S /\ rank(q[i]) = i - 1
  <2> SUFFICES ASSUME NEW i \in 1..n
               PROVE  q[i] \in S /\ rank(q[i]) = i - 1
    OBVIOUS
  <2>1. i - 1 \in 0..(n - 1)
    BY <1>1
  <2>2. \E x \in S : rank(x) = i - 1
    BY <2>1, Ranking
  <2>3. q[i] = CHOOSE x \in S : rank(x) = i - 1
    BY DEF Listed
  <2>. QED
    BY <2>2, <2>3
<1>3. q \in Seq(S) /\ Len(q) = n
  BY <1>1, <1>2 DEF Listed
<1>4. \A x \in S : \E i \in 1..n : q[i] = x
  <2> SUFFICES ASSUME NEW x \in S
               PROVE  \E i \in 1..n : q[i] = x
    OBVIOUS
  <2>1. rank(x) \in 0..(n - 1)
    BY Ranking
  <2>2. rank(x) + 1 \in 1..n /\ (rank(x) + 1) - 1 = rank(x)
    BY <1>1, <2>1
  <2>3. q[rank(x) + 1] \in S /\ rank(q[rank(x) + 1]) = rank(x)
    BY <1>2, <2>2
  <2>. QED
    BY <2>2, <2>3, Ranking
<1>. QED
  BY <1>1, <1>2, <1>3, <1>4

\* Whatever order a statement gives to rows that rank alike, its list has every
\* row, each at its place.
LEMMA ListingFacts ==
  ASSUME NEW S, S \subseteq AlertRow, IsFiniteSet(S), NEW s \in Listings(S)
  PROVE  /\ s \in Seq(S) /\ Cardinality(S) \in Nat /\ Len(s) = Cardinality(S)
         /\ \A i \in 1..Len(s) : s[i] \in S /\ InPlace(s[i], i, S)
<1> DEFINE n == Cardinality(S)
<1>1. n \in Nat
  BY FS_CardinalityType
<1>2. /\ s \in [1..n -> S] /\ \A i, j \in 1..n : i # j => s[i] # s[j]
      /\ \A i, j \in 1..n : i < j => ~Riskier(s[j], s[i])
  BY DEF Listings, SetToSeqs
<1>3. s \in Seq(S) /\ Len(s) = n
  BY <1>1, <1>2
<1>4. \A x \in S : \E j \in 1..n : s[j] = x
  <2>1. s \in Injection(1..n, S)
    BY <1>2 DEF Injection, IsInjective
  <2>2. Cardinality(1..n) = Cardinality(S)
    BY <1>1, FS_Interval
  <2>3. s \in Surjection(1..n, S)
    BY <2>1, <2>2, FS_Injection
  <2>. QED
    BY <2>3 DEF Surjection
<1>5. \A a \in S : ~Riskier(a, a)
  BY DEF Riskier, AlertRow
<1>6. ASSUME NEW i \in 1..n
      PROVE  InPlace(s[i], i, S)
  <2> DEFINE up == {b \in S : Riskier(b, s[i])}
             notDown == {b \in S : ~Riskier(s[i], b)}
  <2>1. i \in Nat \ {0} /\ i - 1 \in Nat /\ s[i] \in S
    BY <1>1, <1>2
  <2>2. Cardinality(up) < i
    <3> DEFINE above == {s[j] : j \in 1..(i - 1)}
               g == [j \in 1..(i - 1) |-> s[j]]
    <3>1. \A b \in up : \E j \in 1..(i - 1) : s[j] = b
      <4> SUFFICES ASSUME NEW b \in S, Riskier(b, s[i])
                   PROVE  \E j \in 1..(i - 1) : s[j] = b
        OBVIOUS
      <4>1. PICK j \in 1..n : s[j] = b
        BY <1>4
      <4>2. ~(i < j) /\ j # i
        BY <1>2, <1>5, <2>1, <4>1
      <4>. QED
        BY <1>1, <2>1, <4>1, <4>2
    <3>2. up \subseteq above
      BY <3>1
    <3>3. IsFiniteSet(1..(i - 1)) /\ Cardinality(1..(i - 1)) = i - 1
      BY <2>1, FS_Interval
    <3>4. IsFiniteSet(above) /\ Cardinality(above) <= Cardinality(1..(i - 1))
      <4>1. g \in Surjection(1..(i - 1), above)
        BY DEF Surjection
      <4> HIDE DEF g, above
      <4>. QED
        BY <3>3, <4>1, FS_Surjection
    <3>5. Cardinality(up) <= Cardinality(above)
      BY <3>2, <3>4, FS_Subset
    <3>6. Cardinality(above) \in Nat /\ Cardinality(up) \in Nat
      BY <3>2, <3>4, FS_Subset, FS_CardinalityType
    <3>. QED
      BY <2>1, <3>3, <3>4, <3>5, <3>6
  <2>3. i <= Cardinality(notDown)
    <3> DEFINE f == [j \in 1..i |-> s[j]]
    <3>1. \A j \in 1..i : j \in 1..n /\ (j < i \/ j = i)
      BY <1>1, <2>1
    <3>2. \A j \in 1..i : s[j] \in notDown
      BY <1>2, <1>5, <2>1, <3>1
    <3>3. f \in [1..i -> notDown]
      BY <3>2
    <3>4. \A j, k \in 1..i : f[j] = f[k] => j = k
      BY <1>2, <3>1
    <3>5. f \in Injection(1..i, notDown)
      BY <3>3, <3>4 DEF Injection, IsInjective
    <3>6. IsFiniteSet(notDown)
      BY FS_Subset
    <3>7. Cardinality(1..i) = i
      BY <2>1, FS_Interval
    <3> HIDE DEF f, notDown
    <3>. QED
      BY <3>5, <3>6, <3>7, FS_Injection
  <2>. QED
    BY <2>2, <2>3 DEF InPlace
<1>. QED
  BY <1>1, <1>2, <1>3, <1>6

\* The newest event comes first in the feed.
LEMMA EventsInOrder ==
  ASSUME NEW S, S \subseteq Nat, IsFiniteSet(S)
  PROVE  LET q == Sorted(S, LAMBDA i, j : i > j) IN
         /\ q \in Seq(S) /\ Cardinality(S) \in Nat /\ Len(q) = Cardinality(S)
         /\ \A i \in 1..Len(q) : q[i] \in S /\ Cardinality({y \in S : y > q[i]}) = i - 1
         /\ \A x \in S : \E i \in 1..Len(q) : q[i] = x
<1> DEFINE R == {p \in S \X S : p[1] > p[2]}
<1>0. StrictOrder(S, R)
  <2>1. \A a, b \in S : <<a, b>> \in R <=> a > b
    OBVIOUS
  <2> HIDE DEF R
  <2>. QED
    BY <2>1 DEF StrictOrder
<1>1. \A x \in S : {y \in S : y > x} = Below(S, R, x)
  BY DEF Below
<1> DEFINE place(i) == CHOOSE x \in S : Cardinality({y \in S : y > x}) = i - 1
           below(i) == CHOOSE x \in S : Cardinality(Below(S, R, x)) = i - 1
<1>2. ASSUME NEW i \in 1..Cardinality(S)
      PROVE  place(i) = below(i)
  <2>1. \A x : /\ x \in S /\ Cardinality({y \in S : y > x}) = i - 1
               <=> x \in S /\ Cardinality(Below(S, R, x)) = i - 1
    BY <1>1
  <2>. QED
    BY <2>1, Zenon
<1>3. Sorted(S, LAMBDA i, j : i > j) = [i \in 1..Cardinality(S) |-> place(i)]
  BY DEF Sorted
<1>4. Listed(S, R) = [i \in 1..Cardinality(S) |-> below(i)]
  BY DEF Listed
<1> HIDE DEF place, below
<1>5. Sorted(S, LAMBDA i, j : i > j) = Listed(S, R)
  BY <1>2, <1>3, <1>4
<1>6. \A x \in S : Cardinality({y \in S : y > x}) = Cardinality(Below(S, R, x))
  BY <1>1
<1> DEFINE q == Sorted(S, LAMBDA i, j : i > j)
<1> HIDE DEF R, q
<1>7. /\ q \in Seq(S) /\ Cardinality(S) \in Nat /\ Len(q) = Cardinality(S)
      /\ \A i \in 1..Len(q) : q[i] \in S /\ Cardinality(Below(S, R, q[i])) = i - 1
      /\ \A x \in S : \E i \in 1..Len(q) : q[i] = x
  <2>1. q = Listed(S, R)
    BY <1>5 DEF q
  <2>. QED
    BY <1>0, <2>1, ListedInOrder
<1>8. \A i \in 1..Len(q) : Cardinality({y \in S : y > q[i]}) = i - 1
  BY <1>6, <1>7
<1>. QED
  BY <1>7, <1>8 DEF q

\* The stores of a rep or a territory are listed by their score.
LEMMA StoresInOrder ==
  ASSUME NEW S, S \subseteq Stores
  PROVE  Sorted(S, LAMBDA s, t : Score[s] > Score[t] \/ (Score[s] = Score[t] /\ s < t))
           \in Seq(S)
<1> DEFINE R == {p \in S \X S : \/ Score[p[1]] > Score[p[2]]
                                \/ Score[p[1]] = Score[p[2]] /\ p[1] < p[2]}
<1>0. StrictOrder(S, R) /\ IsFiniteSet(S)
  <2>1. IsFiniteSet(S) /\ \A s \in S : s \in Nat /\ Score[s] \in Nat
    BY ConstantsTyped, FS_Subset
  <2>2. \A s, t \in S :
          <<s, t>> \in R <=> Score[s] > Score[t] \/ (Score[s] = Score[t] /\ s < t)
    OBVIOUS
  <2> HIDE DEF R
  <2>. QED
    BY <2>1, <2>2 DEF StrictOrder
<1>1. \A x \in S :
        {y \in S : Score[y] > Score[x] \/ (Score[y] = Score[x] /\ y < x)} = Below(S, R, x)
  BY DEF Below
<1> DEFINE place(i) ==
             CHOOSE x \in S :
               Cardinality({y \in S : Score[y] > Score[x] \/ (Score[y] = Score[x] /\ y < x)})
                 = i - 1
           below(i) == CHOOSE x \in S : Cardinality(Below(S, R, x)) = i - 1
<1>2. ASSUME NEW i \in 1..Cardinality(S)
      PROVE  place(i) = below(i)
  <2>1. \A x : /\ x \in S
               /\ Cardinality({y \in S : Score[y] > Score[x] \/ (Score[y] = Score[x] /\ y < x)})
                    = i - 1
               <=> x \in S /\ Cardinality(Below(S, R, x)) = i - 1
    BY <1>1
  <2>. QED
    BY <2>1, Zenon
<1>3. Sorted(S, LAMBDA s, t : Score[s] > Score[t] \/ (Score[s] = Score[t] /\ s < t))
        = [i \in 1..Cardinality(S) |-> place(i)]
  BY DEF Sorted
<1>4. Listed(S, R) = [i \in 1..Cardinality(S) |-> below(i)]
  BY DEF Listed
<1> HIDE DEF place, below
<1>5. Sorted(S, LAMBDA s, t : Score[s] > Score[t] \/ (Score[s] = Score[t] /\ s < t))
        = Listed(S, R)
  BY <1>2, <1>3, <1>4
<1> HIDE DEF R
<1>. QED
  BY <1>0, <1>5, ListedInOrder

\* A window on q shows the limit rows behind the offset, or what there is of them.
IsWindow(w, q, S, offset, limit) ==
  /\ w \in Seq(S) /\ Len(w) \in Nat /\ Len(w) <= limit
  /\ offset + Len(w) <= Len(q) \/ Len(w) = 0
  /\ offset + Len(w) = Len(q) \/ offset >= Len(q) \/ Len(w) = limit
  /\ \A i \in 1..Len(w) : offset + i \in 1..Len(q) /\ w[i] = q[offset + i]

\* The slice of the adapters is such a window.
LEMMA WindowFacts ==
  ASSUME NEW S, NEW q \in Seq(S), NEW offset \in Nat, NEW limit \in Nat
  PROVE  IsWindow(Window(q, offset, limit), q, S, offset, limit)
<1> DEFINE n == IF offset + limit < Len(q) THEN offset + limit ELSE Len(q)
           w == SubSeq(q, offset + 1, n)
<1>1. n \in Nat /\ n <= Len(q) /\ Len(q) \in Nat
  OBVIOUS
<1>2. Len(w) = IF offset + 1 <= n THEN n - offset ELSE 0
  BY <1>1
<1>3. \A i \in 1..Len(w) : w[i] = q[offset + i]
  BY <1>1, <1>2
<1>4. w \in Seq(S)
  BY <1>1
<1>5. Window(q, offset, limit) = w
  BY DEF Window
<1> HIDE DEF w
<1>. QED
  BY <1>1, <1>2, <1>3, <1>4, <1>5 DEF IsWindow

\* One sequence after another.
LEMMA ConcatFacts ==
  ASSUME NEW S, NEW p \in Seq(S), NEW q \in Seq(S)
  PROVE  /\ p \o q \in Seq(S) /\ Len(p \o q) = Len(p) + Len(q)
         /\ \A i \in DOMAIN (p \o q) :
              \/ i \in DOMAIN p /\ (p \o q)[i] = p[i]
              \/ /\ i \in Nat /\ i - Len(p) \in DOMAIN q
                 /\ (p \o q)[i] = q[i - Len(p)]
         /\ ToSet(p \o q) = ToSet(p) \cup ToSet(q)
<1>1. p \o q \in Seq(S) /\ Len(p \o q) = Len(p) + Len(q)
  OBVIOUS
<1>2. /\ DOMAIN p = 1..Len(p) /\ DOMAIN q = 1..Len(q)
      /\ DOMAIN (p \o q) = 1..(Len(p) + Len(q))
      /\ Len(p) \in Nat /\ Len(q) \in Nat
  OBVIOUS
<1>3. \A i \in 1..(Len(p) + Len(q)) :
        (p \o q)[i] = IF i <= Len(p) THEN p[i] ELSE q[i - Len(p)]
  OBVIOUS
<1>4. \A i \in DOMAIN (p \o q) :
        \/ i \in DOMAIN p /\ (p \o q)[i] = p[i]
        \/ i \in Nat /\ i - Len(p) \in DOMAIN q /\ (p \o q)[i] = q[i - Len(p)]
  BY <1>2, <1>3
<1>5. \A i \in DOMAIN p : i \in DOMAIN (p \o q) /\ (p \o q)[i] = p[i]
  BY <1>2, <1>3
<1>6. \A i \in DOMAIN q :
        /\ Len(p) + i \in DOMAIN (p \o q) /\ (p \o q)[Len(p) + i] = q[i]
  BY <1>2, <1>3
<1>7. ToSet(p \o q) = ToSet(p) \cup ToSet(q)
  <2>1. /\ \A x : x \in ToSet(p \o q) <=> \E i \in DOMAIN (p \o q) : x = (p \o q)[i]
        /\ \A x : x \in ToSet(p) <=> \E i \in DOMAIN p : x = p[i]
        /\ \A x : x \in ToSet(q) <=> \E i \in DOMAIN q : x = q[i]
    BY DEF ToSet
  <2>2. \A x : x \in ToSet(p \o q) => x \in ToSet(p) \cup ToSet(q)
    BY <1>4, <2>1, Zenon
  <2>3. ASSUME NEW x, x \in ToSet(p)
        PROVE  x \in ToSet(p \o q)
    <3>1. PICK i \in DOMAIN p : x = p[i]
      BY <2>1, <2>3
    <3>2. i \in DOMAIN (p \o q) /\ (p \o q)[i] = x
      BY <1>5, <3>1
    <3>. QED
      BY <2>1, <3>2, Zenon
  <2>4. \A x : x \in ToSet(q) => x \in ToSet(p \o q)
    BY <1>6, <2>1, Zenon
  <2>. QED
    BY <2>2, <2>3, <2>4
<1>. QED
  BY <1>1, <1>4, <1>7

\* A list of a finite set, in any order.
LEMMA SetToSeqType ==
  ASSUME NEW S, IsFiniteSet(S)
  PROVE  SetToSeq(S) \in Seq(S)
<1>1. Cardinality(S) \in Nat /\ ExistsBijection(1..Cardinality(S), S)
  BY FS_CountingElements, FS_CardinalityType
<1>2. PICK f \in [1..Cardinality(S) -> S] : IsInjective(f)
  BY <1>1 DEF ExistsBijection, Bijection, Injection
<1>3. SetToSeq(S) \in [1..Cardinality(S) -> S]
  BY <1>2 DEF SetToSeq
<1>. QED
  BY <1>1, <1>3

\* A page of the feed holds the committed events whose places it covers, and its
\* cursor leads behind them if there are more.
LEMMA FeedRows ==
  ASSUME NEW w, w.limit \in Nat \ {0}, NEW offset \in Nat,
         committed \subseteq Nat, IsFiniteSet(committed)
  PROVE  LET f == Feed(w, offset) IN
         /\ f.rows \in Seq(committed)
         /\ \A x \in committed :
              x \in ToSet(f.rows) <=> offset <= Newer(x) /\ Newer(x) < offset + w.limit
         /\ f.next = None \/ f.next = offset + w.limit
         /\ f.next = None => \A x \in committed : Newer(x) < offset + w.limit
<1> DEFINE q == Sorted(committed, LAMBDA i, j : i > j)
           more == Window(q, offset, w.limit + 1)
           rows == Window(more, 0, w.limit)
           go == IF Len(more) > w.limit THEN offset + w.limit ELSE None
<1>1. Feed(w, offset) = [rows |-> rows, next |-> go]
  BY Zenon DEF Feed
<1>2. /\ q \in Seq(committed) /\ Len(q) \in Nat
      /\ \A i \in 1..Len(q) : q[i] \in committed /\ Newer(q[i]) = i - 1
      /\ \A x \in committed : \E i \in 1..Len(q) : q[i] = x
  BY EventsInOrder DEF Newer
<1> HIDE DEF q
<1>3. IsWindow(more, q, committed, offset, w.limit + 1)
  <2>1. w.limit + 1 \in Nat
    OBVIOUS
  <2>. QED
    BY <1>2, <2>1, WindowFacts
<1> HIDE DEF more
<1>4. /\ rows \in Seq(committed) /\ Len(rows) \in Nat /\ Len(rows) <= w.limit
      /\ Len(rows) <= Len(more)
      /\ Len(rows) = Len(more) \/ Len(rows) = w.limit
      /\ \A i \in 1..Len(rows) : i \in 1..Len(more) /\ rows[i] = more[i]
  <2>1. more \in Seq(committed) /\ Len(more) \in Nat
    BY <1>3 DEF IsWindow
  <2>2. IsWindow(rows, more, committed, 0, w.limit)
    <3>1. 0 \in Nat /\ w.limit \in Nat
      OBVIOUS
    <3>. QED
      BY <2>1, <3>1, WindowFacts
  <2> HIDE DEF rows
  <2>. QED
    BY <2>1, <2>2 DEF IsWindow
<1> HIDE DEF rows
<1>5. ASSUME NEW i \in 1..Len(rows)
      PROVE  rows[i] \in committed /\ Newer(rows[i]) = offset + i - 1
  BY <1>2, <1>3, <1>4 DEF IsWindow
<1>6. ASSUME NEW x \in committed, x \in ToSet(rows)
      PROVE  offset <= Newer(x) /\ Newer(x) < offset + w.limit
  <2>1. PICK i \in 1..Len(rows) : x = rows[i]
    BY <1>4, <1>6 DEF ToSet
  <2>. QED
    BY <1>4, <1>5, <2>1
<1>7. ASSUME NEW x \in committed, offset <= Newer(x), Newer(x) < offset + w.limit
      PROVE  x \in ToSet(rows)
  <2>1. PICK k \in 1..Len(q) : q[k] = x
    BY <1>2
  <2>2. Newer(x) = k - 1 /\ k - offset \in Nat \ {0} /\ k - offset <= w.limit
    BY <1>2, <1>7, <2>1
  <2>3. k - offset <= Len(more)
    BY <1>2, <1>3, <2>2 DEF IsWindow
  <2>4. k - offset \in 1..Len(rows)
    BY <1>3, <1>4, <2>2, <2>3 DEF IsWindow
  <2>5. rows[k - offset] = q[offset + (k - offset)] /\ offset + (k - offset) = k
    BY <1>3, <1>4, <2>4 DEF IsWindow
  <2>. QED
    BY <1>4, <2>1, <2>4, <2>5 DEF ToSet
<1>8. ASSUME go = None, NEW x \in committed
      PROVE  Newer(x) < offset + w.limit
  <2>1. PICK k \in 1..Len(q) : q[k] = x
    BY <1>2
  <2>2. Newer(x) = k - 1
    BY <1>2, <2>1
  <2>3. Len(more) <= w.limit
    BY <1>3, <1>8, ConstantsTyped DEF IsWindow
  <2>4. Len(q) <= offset + w.limit
    BY <1>2, <1>3, <2>3 DEF IsWindow
  <2>. QED
    BY <1>2, <2>2, <2>4
<1>9. go = None \/ go = offset + w.limit
  OBVIOUS
<1> HIDE DEF go
<1>10. Feed(w, offset).rows = rows /\ Feed(w, offset).next = go
  BY <1>1
<1>. QED
  BY <1>4, <1>6, <1>7, <1>8, <1>9, <1>10

\* Events that are newer have an earlier place in the feed.
LEMMA NewerFirst ==
  ASSUME committed \subseteq Nat, IsFiniteSet(committed)
  PROVE  \A x, y \in committed : /\ Newer(x) \in Nat
                                 /\ Newer(y) < Newer(x) <=> x < y
<1> DEFINE R == {p \in committed \X committed : p[1] > p[2]}
<1>1. \A x, y \in committed : <<x, y>> \in R <=> x > y
  OBVIOUS
<1>2. \A x \in committed : Below(committed, R, x) = {y \in committed : y > x}
  BY DEF Below
<1> HIDE DEF R
<1>3. StrictOrder(committed, R)
  BY <1>1 DEF StrictOrder
<1>4. \A x, y \in committed :
        /\ Cardinality(Below(committed, R, x)) \in 0..(Cardinality(committed) - 1)
        /\ Cardinality(Below(committed, R, y)) < Cardinality(Below(committed, R, x))
             <=> <<y, x>> \in R
  BY <1>3, Ranking
<1>5. \A x \in committed : Cardinality(Below(committed, R, x)) = Newer(x)
  BY <1>2 DEF Newer
<1> SUFFICES ASSUME NEW x \in committed, NEW y \in committed
             PROVE  Newer(x) \in Nat /\ (Newer(y) < Newer(x) <=> x < y)
  OBVIOUS
<1>6. Newer(x) \in 0..(Cardinality(committed) - 1)
  BY <1>4, <1>5
<1>7. Newer(y) < Newer(x) <=> y > x
  <2>1. Cardinality(Below(committed, R, y)) < Cardinality(Below(committed, R, x))
          <=> <<y, x>> \in R
    BY <1>4
  <2>. QED
    BY <1>1, <1>5, <2>1
<1>. QED
  BY <1>6, <1>7

\* A page r of the alerts S, n of them on a full page, begins behind the offset; it
\* names the place where the list goes on, and none at its end.
IsPage(r, S, offset, n) ==
  /\ r.rows \in Seq(S) /\ Len(r.rows) \in Nat
  /\ \A i \in DOMAIN r.rows :
       /\ i \in Nat \ {0} /\ r.rows[i] \in S
       /\ InPlace(r.rows[i], offset + i, S)
  /\ r.next # None => r.next = offset + n /\ Len(r.rows) = n
  /\ r.next = None /\ offset <= Cardinality(S) => offset + Len(r.rows) = Cardinality(S)

\* Both adapters answer with such a page, however they find its successor.
LEMMA AlertPages ==
  ASSUME NEW S, S \subseteq AlertRow, IsFiniteSet(S),
         NEW q \in Listings(S), NEW offset \in Nat, NEW n \in Nat \ {0}
  PROVE  LET p == Window(q, offset, n)
         IN /\ IsPage([rows |-> p,
                       next |-> IF offset + n < Len(q) THEN offset + n ELSE None],
                      S, offset, n)
            /\ IsPage([rows |-> p, next |-> IF Len(p) = n THEN offset + n ELSE None],
                      S, offset, n)
<1> DEFINE p == Window(q, offset, n)
<1>1. /\ q \in Seq(S) /\ Cardinality(S) \in Nat /\ Len(q) = Cardinality(S)
      /\ \A i \in 1..Len(q) : q[i] \in S /\ InPlace(q[i], i, S)
  BY ListingFacts
<1>2. IsWindow(p, q, S, offset, n)
  BY <1>1, WindowFacts
<1> HIDE DEF p
<1>3. /\ p \in Seq(S) /\ Len(p) \in Nat /\ Len(p) <= n
      /\ offset + Len(p) <= Len(q) \/ Len(p) = 0
      /\ offset + Len(p) = Len(q) \/ offset >= Len(q) \/ Len(p) = n
      /\ \A i \in 1..Len(p) : offset + i \in 1..Len(q) /\ p[i] = q[offset + i]
  BY <1>2 DEF IsWindow
<1>4. ASSUME NEW i \in DOMAIN p
      PROVE  i \in Nat \ {0} /\ p[i] \in S /\ InPlace(p[i], offset + i, S)
  <2>1. i \in 1..Len(p)
    BY <1>3
  <2>2. offset + i \in 1..Len(q) /\ p[i] = q[offset + i]
    BY <1>3, <2>1
  <2>. QED
    BY <1>1, <2>1, <2>2
<1>5. offset + n \in Nat /\ offset + n # None
  BY ConstantsTyped
<1> DEFINE byCount == IF offset + n < Len(q) THEN offset + n ELSE None
           byFull == IF Len(p) = n THEN offset + n ELSE None
<1>6. /\ byCount # None => byCount = offset + n /\ Len(p) = n
      /\ byCount = None /\ offset <= Cardinality(S) => offset + Len(p) = Cardinality(S)
  BY <1>1, <1>3, <1>5
<1>7. /\ byFull # None => byFull = offset + n /\ Len(p) = n
      /\ byFull = None /\ offset <= Cardinality(S) => offset + Len(p) = Cardinality(S)
  BY <1>1, <1>3, <1>5
<1> HIDE DEF byCount, byFull
<1>8. IsPage([rows |-> p, next |-> byCount], S, offset, n)
  BY <1>3, <1>4, <1>6 DEF IsPage
<1>9. IsPage([rows |-> p, next |-> byFull], S, offset, n)
  BY <1>3, <1>4, <1>7 DEF IsPage
<1>. QED
  BY <1>8, <1>9 DEF p, byCount, byFull

\* What the alerts handler of client c reads: a page of rows that are his to see,
\* and, if no table has moved, the next page of the list that is due.
LEMMA ListingPage ==
  ASSUME ReadsInv, NEW c \in Clients, pc[c] = "found", wish[c].kind = "alerts",
         NEW r \in Results(c)
  PROVE  /\ r.rows \in Seq(Alerts)
         /\ r.next \in Nat \cup {None} /\ (r.next # None => r.next > cursor[c])
         /\ HisOwn(wish[c], r.rows)
         /\ ~moved[c] => IsPage(r, Due(c), cursor[c], wish[c].limit)
<1> DEFINE w == wish[c]
           rep == IF w.role = "rep" THEN w.rep ELSE owner[c]
           M == {a \in alerts : a.store = w.store /\ a.risk >= w.min}
           D == Matching(w, rep)
<1>1. /\ w \in Wish /\ w.limit \in Nat \ {0} /\ w.store \in Stores /\ cursor[c] \in Nat
      /\ source \in Sources /\ alerts \subseteq Alerts /\ alerts \subseteq AlertRow
      /\ IsFiniteSet(alerts)
  BY FS_Subset, ConstantsTyped DEF ReadsInv, TypeOK, Domains, Flow, Wish
<1>2. M \subseteq alerts /\ D \subseteq alerts /\ IsFiniteSet(M) /\ IsFiniteSet(D)
  <2>1. M \subseteq alerts /\ D \subseteq alerts
    BY DEF Matching
  <2>. QED
    BY <1>1, <2>1, FS_Subset
<1>4. ~moved[c] => repOf[w.store] = rep
  BY DEF ReadsInv, Ownership, AboutStore
<1>5. ASSUME NEW S, S \subseteq alerts, IsPage(r, S, cursor[c], w.limit)
      PROVE  /\ r.rows \in Seq(Alerts) /\ r.next \in Nat \cup {None}
             /\ r.next # None => r.next > cursor[c]
  <2>1. r.rows \in Seq(S) /\ S \subseteq Alerts
    BY <1>1, <1>5 DEF IsPage
  <2>2. r.rows \in Seq(Alerts)
    BY <2>1
  <2>. QED
    BY <1>1, <1>5, <2>2 DEF IsPage
<1>6. CASE source = "mock"
  <2>1. r \in MockAlerts(w, rep, cursor[c])
    BY <1>6 DEF Results
  <2>2. CASE repOf[w.store] # rep
    <3>1. r = [rows |-> <<>>, next |-> None]
      BY <2>1, <2>2 DEF MockAlerts
    <3>. QED
      BY <1>4, <2>2, <3>1 DEF HisOwn
  <2>3. CASE repOf[w.store] = rep
    <3>1. IsPage(r, M, cursor[c], w.limit)
      <4>1. PICK s \in Listings(M) :
              r = [rows |-> Window(s, cursor[c], w.limit),
                   next |-> IF cursor[c] + w.limit < Len(s) THEN cursor[c] + w.limit
                            ELSE None]
        BY <2>1, <2>3 DEF MockAlerts
      <4> HIDE DEF M, rep, w
      <4>2. M \subseteq AlertRow
        BY <1>1, <1>2
      <4>. QED
        BY <1>1, <1>2, <4>1, <4>2, AlertPages
    <3>2. \A a \in M : a.rep = rep /\ a.rep = repOf[a.store]
      BY <1>6, <2>3 DEF ReadsInv, Tables
    <3>3. M = Due(c)
      BY <3>2 DEF Due
    <3>4. HisOwn(w, r.rows)
      <4>1. \A i \in DOMAIN r.rows : r.rows[i] \in M
        BY <3>1 DEF IsPage
      <4>. QED
        BY <3>2, <4>1 DEF HisOwn
    <3>. QED
      BY <1>5, <1>2, <3>1, <3>3, <3>4
  <2>. QED
    BY <2>2, <2>3
<1>7. CASE source # "mock"
  <2>1. IsPage(r, D, cursor[c], w.limit)
    <3>1. r \in DatabricksAlerts(w, rep, cursor[c])
      BY <1>7 DEF Results
    <3>2. PICK s \in Listings(D) :
            r = [rows |-> Window(s, cursor[c], w.limit),
                 next |-> IF Len(Window(s, cursor[c], w.limit)) = w.limit
                          THEN cursor[c] + w.limit ELSE None]
      BY <3>1 DEF DatabricksAlerts
    <3> HIDE DEF D, rep, w
    <3>3. D \subseteq AlertRow
      BY <1>1, <1>2
    <3>. QED
      BY <1>1, <1>2, <3>2, <3>3, AlertPages
  <2>2. ~moved[c] => D = Due(c)
    BY <1>4 DEF Due, Matching
  <2>3. HisOwn(w, r.rows)
    <3>1. \A i \in DOMAIN r.rows : r.rows[i] \in D
      BY <2>1 DEF IsPage
    <3>. QED
      BY <3>1 DEF HisOwn, Matching
  <2>. QED
    BY <1>5, <1>2, <2>1, <2>2, <2>3
<1>. QED
  BY <1>6, <1>7

\* What the feed handler of an admin reads.
LEMMA EventPage ==
  ASSUME ReadsInv, NEW c \in Clients, pc[c] = "found", wish[c].kind = "feed",
         NEW r \in Results(c)
  PROVE  /\ r.rows \in Seq(committed) /\ r.next \in Nat \cup {None}
         /\ r.next # None => r.next > cursor[c]
         /\ \A x \in committed :
              /\ Newer(x) \in Nat
              /\ x \in ToSet(r.rows) <=>
                   cursor[c] <= Newer(x) /\ Newer(x) < cursor[c] + wish[c].limit
              /\ r.next = None => Newer(x) < cursor[c] + wish[c].limit
         /\ r.next # None => r.next = cursor[c] + wish[c].limit
<1>1. /\ wish[c].limit \in Nat \ {0} /\ cursor[c] \in Nat
      /\ committed \subseteq Nat /\ IsFiniteSet(committed)
  <2>1. log \in Seq([by : Clients, count : Nat]) /\ committed \subseteq DOMAIN log
    BY DEF ReadsInv, TypeOK
  <2>2. DOMAIN log = 1..Len(log) /\ Len(log) \in Nat
    BY <2>1
  <2>3. IsFiniteSet(1..Len(log))
    BY <2>2, FS_Interval
  <2>4. committed \subseteq Nat /\ IsFiniteSet(committed)
    BY <2>1, <2>2, <2>3, FS_Subset
  <2>. QED
    BY <2>4 DEF ReadsInv, TypeOK, Flow, Wish, Domains
<1>2. r = Feed(wish[c], cursor[c])
  BY DEF Results
<1> DEFINE f == Feed(wish[c], cursor[c])
<1>3. /\ f.rows \in Seq(committed)
      /\ \A x \in committed :
           x \in ToSet(f.rows) <=>
             cursor[c] <= Newer(x) /\ Newer(x) < cursor[c] + wish[c].limit
      /\ f.next = None \/ f.next = cursor[c] + wish[c].limit
      /\ f.next = None => \A x \in committed : Newer(x) < cursor[c] + wish[c].limit
  BY <1>1, FeedRows
<1>4. \A x \in committed : Newer(x) \in Nat
  BY <1>1, NewerFirst
<1> HIDE DEF f
<1>. QED
  BY <1>1, <1>2, <1>3, <1>4 DEF f

\* What any handler reads is of the kind that was asked for, and a cursor leads on.
LEMMA ResultTyped ==
  ASSUME ReadsInv, NEW c \in Clients, pc[c] = "found", NEW r \in Results(c)
  PROVE  /\ r.rows \in Seq(Items(wish[c].kind))
         /\ r.next \in Nat \cup {None}
         /\ r.next # None => r.next > cursor[c]
<1>1. /\ wish[c] \in Wish
      /\ wish[c].kind \in {"alerts", "rgm", "visits", "territory", "feed"}
  BY DEF ReadsInv, Flow, Wish
<1>2. CASE wish[c].kind = "alerts"
  BY <1>2, ListingPage DEF Items
<1>3. CASE wish[c].kind = "feed"
  <2>1. r.rows \in Seq(committed) /\ committed \subseteq DOMAIN log
    BY <1>3, EventPage DEF ReadsInv, TypeOK
  <2>2. r.rows \in Seq(DOMAIN log)
    BY <2>1
  <2>. QED
    BY <1>3, <2>2, EventPage DEF Items
<1>4. CASE wish[c].kind = "rgm"
  <2> DEFINE K == IF source = "mock" THEN RecKinds ELSE Recs[wish[c].store] \cap RecKinds
  <2>1. K \subseteq RecKinds
    OBVIOUS
  <2>2. IsFiniteSet(RecKinds)
    <3>1. IsFiniteSet({"promo"})
      BY FS_Singleton
    <3>2. IsFiniteSet({"promo"} \cup {"assortment_gap"})
      BY <3>1, FS_AddElement
    <3>3. IsFiniteSet(({"promo"} \cup {"assortment_gap"}) \cup {"upsell"})
      BY <3>2, FS_AddElement
    <3>4. RecKinds = ({"promo"} \cup {"assortment_gap"}) \cup {"upsell"}
      BY DEF RecKinds
    <3>. QED
      BY <3>3, <3>4
  <2>3. IsFiniteSet(K)
    BY <2>1, <2>2, FS_Subset
  <2>4. SetToSeq(K) \in Seq(K)
    BY <2>3, SetToSeqType
  <2>5. SetToSeq(K) \in Seq(RecKinds)
    BY <2>1, <2>4
  <2>6. Recommendations(wish[c]) = SetToSeq(K)
    BY DEF Recommendations
  <2> HIDE DEF K
  <2>7. r = [rows |-> Recommendations(wish[c]), next |-> None]
    BY <1>4 DEF Results
  <2>. QED
    BY <1>4, <2>5, <2>6, <2>7 DEF Items
<1>5. CASE wish[c].kind = "visits"
  <2>1. Visits(wish[c]) \in Seq(Stores)
    <3> DEFINE S == {s \in Stores : /\ repOf[s] = wish[c].rep
                                    /\ Territory[s] = wish[c].territory_code}
    <3>1. S \subseteq Stores
      OBVIOUS
    <3>2. Visits(wish[c]) \in Seq(S)
      BY <3>1, StoresInOrder, Zenon DEF Visits
    <3> HIDE DEF S
    <3>. QED
      BY <3>1, <3>2
  <2>2. r = [rows |-> Visits(wish[c]), next |-> None]
    BY <1>5 DEF Results
  <2>. QED
    BY <1>5, <2>1, <2>2 DEF Items
<1>6. CASE wish[c].kind = "territory"
  <2>1. TerritoryStores(wish[c]) \in Seq(Stores)
    <3> DEFINE S == {s \in Stores : /\ repOf[s] # None
                                    /\ Territory[s] = wish[c].territory_code}
    <3>1. S \subseteq Stores
      OBVIOUS
    <3>2. TerritoryStores(wish[c]) \in Seq(S)
      BY <3>1, StoresInOrder, Zenon DEF TerritoryStores
    <3> HIDE DEF S
    <3>. QED
      BY <3>1, <3>2
  <2>2. r = [rows |-> TerritoryStores(wish[c]), next |-> None]
    BY <1>6 DEF Results
  <2>. QED
    BY <1>6, <2>1, <2>2 DEF Items
<1>. QED
  BY <1>1, <1>2, <1>3, <1>4, <1>5, <1>6

\* The row that a handler logged and has not committed yet.
LEMMA LoggedRow ==
  ASSUME ReadsInv, NEW c \in Clients, pc[c] = "logged"
  PROVE  /\ Logged(c) \in DOMAIN log \ committed
         /\ log[Logged(c)].by = c /\ log[Logged(c)].count = Len(page[c])
<1>1. Audited(wish[c])
  BY DEF ReadsInv, Flow
<1>2. PICK i \in DOMAIN log \ committed :
        /\ log[i].by = c /\ log[i].count = Len(page[c])
        /\ \A j \in DOMAIN log : log[j].by = c => j <= i
  BY <1>1 DEF ReadsInv, Accounts
<1>3. /\ Logged(c) \in DOMAIN log /\ log[Logged(c)].by = c
      /\ \A j \in DOMAIN log : log[j].by = c => j <= Logged(c)
  BY <1>2 DEF Logged
<1>4. DOMAIN log \subseteq Nat
  BY DEF ReadsInv, TypeOK
<1>5. Logged(c) = i
  BY <1>2, <1>3, <1>4
<1>. QED
  BY <1>2, <1>5

--------------------------------------------------------------------------------
(* The types *)

\* What a handler does with the answer r of its query.
Reads(c, r) ==
  /\ page' = [page EXCEPT ![c] = r.rows] /\ next' = [next EXCEPT ![c] = r.next]
  /\ Goes(c, IF Audited(wish[c]) THEN "read" ELSE "committed")

\* The answer of a query is the result, or none if the statement is too slow; the
\* handler reads it or gives up.
LEMMA QueryEffect ==
  ASSUME ReadsInv, NEW c \in Clients, NEW outcome \in Outcomes, Query(c, outcome)
  PROVE  /\ pc[c] = "found"
         /\ late' \in [Clients -> BOOLEAN]
         /\ \A d \in Clients : late'[d] = late[d] \/ (d = c /\ late'[d])
         /\ UNCHANGED <<tables, wish, cursor, owner, got, trail, before, moved, refreshes>>
         /\ \/ UNCHANGED <<page, next>> /\ Goes(c, "error")
            \/ \E r : /\ Reads(c, r)
                      /\ r.rows \in Seq(Items(wish[c].kind)) /\ r.next \in Nat \cup {None}
                      /\ r.next # None => r.next > cursor[c]
                      /\ \/ r \in Results(c)
                         \/ /\ r.rows = <<>> /\ r.next = None
                            /\ wish[c].kind # "feed" /\ late'[c]
<1>1. /\ pc[c] = "found"
      /\ UNCHANGED <<tables, wish, cursor, owner, got, trail, before, moved, refreshes>>
      /\ wish[c].kind = "feed" => outcome = "rows"
      /\ late' = [late EXCEPT ![c] = @ \/ outcome = "running"]
      /\ outcome \in {"rows", "running", "fails"}
  BY DEF Query, Outcomes
<1>2. late \in [Clients -> BOOLEAN]
  BY DEF ReadsInv, Domains
<1>3. /\ late' \in [Clients -> BOOLEAN]
      /\ \A d \in Clients : d # c => late'[d] = late[d]
      /\ late'[c] = (late[c] \/ outcome = "running")
  BY <1>1, <1>2
<1>4. \A d \in Clients : late'[d] = late[d] \/ (d = c /\ late'[d])
  BY <1>2, <1>3
<1> DEFINE R == IF outcome = "rows" THEN Results(c)
                ELSE {[rows |-> <<>>, next |-> None]}
<1>5. \/ UNCHANGED <<page, next>> /\ Goes(c, "error")
      \/ outcome # "fails" /\ \E r \in R : Reads(c, r)
  BY DEF Query, Reads
<1>6. ASSUME NEW r \in R
      PROVE  /\ r.rows \in Seq(Items(wish[c].kind)) /\ r.next \in Nat \cup {None}
             /\ r.next # None => r.next > cursor[c]
  <2>1. CASE outcome = "rows"
    BY <1>1, <2>1, ResultTyped
  <2>2. CASE outcome # "rows"
    <3>1. r.rows = <<>> /\ r.next = None
      BY <2>2
    <3>. QED
      BY <3>1
  <2>. QED
    BY <2>1, <2>2
<1>7. ASSUME NEW r \in R, outcome # "fails"
      PROVE  \/ r \in Results(c)
             \/ r.rows = <<>> /\ r.next = None /\ wish[c].kind # "feed" /\ late'[c]
  <2>1. CASE outcome = "rows"
    BY <2>1
  <2>2. CASE outcome = "running"
    <3>1. r.rows = <<>> /\ r.next = None
      BY <2>2
    <3>2. late'[c] /\ wish[c].kind # "feed"
      BY <1>1, <1>3, <2>2
    <3>. QED
      BY <3>1, <3>2
  <2>. QED
    BY <1>1, <1>7, <2>1, <2>2
<1> HIDE DEF R
<1>8. \/ UNCHANGED <<page, next>> /\ Goes(c, "error")
      \/ \E r : /\ Reads(c, r)
                /\ r.rows \in Seq(Items(wish[c].kind)) /\ r.next \in Nat \cup {None}
                /\ r.next # None => r.next > cursor[c]
                /\ \/ r \in Results(c)
                   \/ r.rows = <<>> /\ r.next = None /\ wish[c].kind # "feed" /\ late'[c]
  <2>1. CASE outcome # "fails" /\ \E r \in R : Reads(c, r)
    <3>1. PICK r \in R : Reads(c, r)
      BY <2>1
    <3>. QED
      BY <1>6, <1>7, <2>1, <3>1
  <2>. QED
    BY <1>5, <2>1
<1>. QED
  BY <1>1, <1>3, <1>4, <1>8

\* Every step takes the domains to themselves.
LEMMA DomainsStep ==
  ASSUME ReadsInv, [Next]_vars
  PROVE  Domains'
<1>1. /\ Domains /\ committed \subseteq Nat
      /\ \A c \in Clients : wish[c] # None => wish[c].store \in Stores
  <2>1. log \in Seq([by : Clients, count : Nat]) /\ committed \subseteq DOMAIN log
    BY DEF ReadsInv, TypeOK
  <2>2. DOMAIN log \subseteq Nat
    BY <2>1
  <2>. QED
    BY <2>1, <2>2 DEF ReadsInv, Domains, Wish
<1>2. ASSUME NEW k
      PROVE  Seq(Items(k)) \subseteq Seq(Rows)
  <2>1. DOMAIN log \subseteq Nat /\ Stores \subseteq Nat
    BY ConstantsTyped DEF ReadsInv, TypeOK
  <2>2. Items(k) \subseteq Rows
    BY <2>1 DEF Items, Rows
  <2>. QED
    BY <2>2
<1> USE DEF Goes, tables, handlers, trail, history
<1>3. ASSUME NEW c \in Clients, Ask(c)
      PROVE  Domains'
  BY <1>1, <1>3 DEF Domains, Ask, PC, Working
<1>4. ASSUME NEW c \in Clients, NEW outcome \in Outcomes, FindStore(c, outcome)
      PROVE  Domains'
  <2>1. wish[c].store \in Stores /\ repOf[wish[c].store] \in Reps \cup {None}
    BY <1>4 DEF ReadsInv, TypeOK, Flow, Wish, FindStore
  <2>2. owner' \in [Clients -> Reps \cup {None}]
    BY <1>1, <1>4, <2>1 DEF Domains, FindStore
  <2>3. <<wish[c].store>> \in Seq(Rows) /\ <<>> \in Seq(Rows)
    <3>1. wish[c].store \in Rows
      BY <2>1, ConstantsTyped DEF Rows
    <3>. QED
      BY <3>1
  <2>4. page' \in [Clients -> Seq(Rows)]
    BY <1>1, <1>4, <2>3 DEF Domains, FindStore
  <2>5. pc' \in [Clients -> PC]
    BY <1>1, <1>4 DEF Domains, FindStore, PC, Working
  <2>. QED
    BY <1>1, <1>4, <2>2, <2>4, <2>5 DEF Domains, FindStore
<1>5. ASSUME NEW c \in Clients, Admit(c)
      PROVE  Domains'
  BY <1>1, <1>5 DEF Domains, Admit, PC, Working
<1>6. ASSUME NEW c \in Clients, NEW outcome \in Outcomes, Query(c, outcome)
      PROVE  Domains'
  <2>1. /\ late' \in [Clients -> BOOLEAN]
        /\ UNCHANGED <<tables, wish, cursor, owner, got, trail, before, moved, refreshes>>
    BY <1>6, QueryEffect
  <2>2. CASE UNCHANGED <<page, next>> /\ Goes(c, "error")
    BY <1>1, <2>1, <2>2 DEF Domains, PC
  <2>3. ASSUME NEW r, Reads(c, r), r.rows \in Seq(Items(wish[c].kind)),
               r.next \in Nat \cup {None}
        PROVE  Domains'
    <3>1. r.rows \in Seq(Rows)
      BY <1>2, <2>3
    <3>2. page' \in [Clients -> Seq(Rows)] /\ next' \in [Clients -> Nat \cup {None}]
      BY <1>1, <2>3, <3>1 DEF Domains, Reads
    <3>3. pc' \in [Clients -> PC]
      BY <1>1, <2>3 DEF Domains, Reads, PC, Working
    <3>. QED
      BY <1>1, <2>1, <3>2, <3>3 DEF Domains
  <2>. QED
    BY <1>6, <2>2, <2>3, QueryEffect
<1>7. ASSUME NEW c \in Clients, Log(c)
      PROVE  Domains'
  BY <1>1, <1>7 DEF Domains, Log, PC, Working
<1>8. ASSUME NEW c \in Clients, Commit(c)
      PROVE  Domains'
  <2>1. log[Logged(c)].count \in Nat
    <3>1. log[Logged(c)].count = Len(page[c])
      BY <1>8, LoggedRow DEF Commit
    <3>. QED
      BY <1>1, <3>1 DEF Domains
  <2>2. accounted' \in [Clients -> Nat]
    BY <1>1, <1>8, <2>1 DEF Domains, Commit
  <2>. QED
    BY <1>1, <1>8, <2>2 DEF Domains, Commit, PC, Working
<1>9. ASSUME NEW c \in Clients, Answer(c)
      PROVE  Domains'
  <2>1. got[c] \o page[c] \in Seq(Rows)
    BY <1>1 DEF Domains
  <2>2. got' \in [Clients -> Seq(Rows)]
    BY <1>1, <1>9, <2>1 DEF Domains, Answer
  <2>. QED
    BY <1>1, <1>9, <2>2 DEF Domains, Answer, PC, Working
<1>10. ASSUME NEW c \in Clients, Follow(c)
       PROVE  Domains'
  <2>1. next[c] \in Nat
    BY <1>1, <1>10 DEF Follow, ReadsInv, Flow, Domains
  <2>2. cursor' \in [Clients -> Nat]
    BY <1>1, <1>10, <2>1 DEF Domains, Follow
  <2>. QED
    BY <1>1, <1>10, <2>2 DEF Domains, Follow, PC, Working
<1>11. ASSUME NEW c \in Clients, Fail(c)
       PROVE  Domains'
  BY <1>1, <1>11 DEF Domains, Fail, PC, Working
<1>12. ASSUME NEW a \in Alerts, RefreshAlert(a)
       PROVE  Domains'
  BY <1>1, <1>12 DEF Domains, RefreshAlert, Moves
<1>13. ASSUME NEW st \in Stores, NEW rep \in Reps \cup {None}, RefreshStore(st, rep)
       PROVE  Domains'
  BY <1>1, <1>13 DEF Domains, RefreshStore, Moves
<1>14. CASE UNCHANGED vars
  BY <1>1, <1>14 DEF Domains, vars
<1>. QED
  BY <1>3, <1>4, <1>5, <1>6, <1>7, <1>8, <1>9, <1>10, <1>11, <1>12, <1>13, <1>14
  DEF Next, Handler

\* The steps of client c, and what is not changed of client d.
Acts(c) == Ask(c) \/ Handler(c) \/ Follow(c)

Kept(d) ==
  /\ pc'[d] = pc[d] /\ cursor'[d] = cursor[d] /\ owner'[d] = owner[d]
  /\ page'[d] = page[d] /\ next'[d] = next[d] /\ got'[d] = got[d]
  /\ accounted'[d] = accounted[d] /\ before'[d] = before[d] /\ late'[d] = late[d]

\* A step of a client leaves the tables and the other clients as they are.
LEMMA ClientFrame ==
  ASSUME ReadsInv, NEW c \in Clients, Acts(c)
  PROVE  /\ UNCHANGED <<tables, wish, moved, refreshes>>
         /\ \A d \in Clients \ {c} : Kept(d)
<1>1. Domains
  BY DEF ReadsInv
<1> USE DEF Goes, handlers, trail, history
<1>2. CASE Ask(c)
  BY <1>1, <1>2 DEF Ask, Domains, Kept
<1>3. ASSUME NEW outcome \in Outcomes, FindStore(c, outcome)
      PROVE  /\ UNCHANGED <<tables, wish, moved, refreshes>>
             /\ \A d \in Clients \ {c} : Kept(d)
  BY <1>1, <1>3 DEF FindStore, Domains, Kept
<1>4. CASE Admit(c)
  BY <1>1, <1>4 DEF Admit, Domains, Kept
<1>5. ASSUME NEW outcome \in Outcomes, Query(c, outcome)
      PROVE  /\ UNCHANGED <<tables, wish, moved, refreshes>>
             /\ \A d \in Clients \ {c} : Kept(d)
  <2>1. /\ UNCHANGED <<tables, wish, cursor, owner, got, trail, before, moved, refreshes>>
        /\ \A d \in Clients : late'[d] = late[d] \/ (d = c /\ late'[d])
        /\ \/ UNCHANGED <<page, next>> /\ Goes(c, "error")
           \/ \E r : Reads(c, r)
    BY <1>5, QueryEffect
  <2>2. \A d \in Clients \ {c} : pc'[d] = pc[d] /\ page'[d] = page[d] /\ next'[d] = next[d]
    BY <1>1, <2>1 DEF Domains, Reads
  <2>. QED
    BY <2>1, <2>2 DEF Kept
<1>6. CASE Log(c)
  BY <1>1, <1>6 DEF Log, Domains, Kept
<1>7. CASE Commit(c)
  BY <1>1, <1>7 DEF Commit, Domains, Kept
<1>8. CASE Answer(c)
  BY <1>1, <1>8 DEF Answer, Domains, Kept
<1>9. CASE Follow(c)
  BY <1>1, <1>9 DEF Follow, Domains, Kept
<1>10. CASE Fail(c)
  BY <1>1, <1>10 DEF Fail, Domains, Kept
<1>. QED
  BY <1>2, <1>3, <1>4, <1>5, <1>6, <1>7, <1>8, <1>9, <1>10 DEF Acts, Handler

\* A refresh leaves the clients as they are, but for the mark that a table moved.
Refreshes ==
  \/ \E a \in Alerts : RefreshAlert(a)
  \/ \E st \in Stores, rep \in Reps \cup {None} : RefreshStore(st, rep)

\* It comes with the warehouse only.
LEMMA RefreshFrame ==
  ASSUME ReadsInv, Refreshes
  PROVE  /\ UNCHANGED <<source, wish, log, committed>> /\ source = "databricks"
         /\ \A d \in Clients : Kept(d) /\ moved'[d] = (moved[d] \/ pc[d] # "idle")
<1> USE DEF Kept, Moves, handlers, trail
<1>1. ASSUME NEW a \in Alerts, RefreshAlert(a)
      PROVE  /\ UNCHANGED <<source, wish, log, committed>> /\ source = "databricks"
             /\ \A d \in Clients : Kept(d) /\ moved'[d] = (moved[d] \/ pc[d] # "idle")
  BY <1>1 DEF RefreshAlert
<1>2. ASSUME NEW st \in Stores, NEW rep \in Reps \cup {None}, RefreshStore(st, rep)
      PROVE  /\ UNCHANGED <<source, wish, log, committed>> /\ source = "databricks"
             /\ \A d \in Clients : Kept(d) /\ moved'[d] = (moved[d] \/ pc[d] # "idle")
  BY <1>2 DEF RefreshStore
<1>. QED
  BY <1>1, <1>2 DEF Refreshes

\* Every step is a client's, a refresh, or changes nothing.
LEMMA StepKinds ==
  ASSUME [Next]_vars
  PROVE  (\E c \in Clients : Acts(c)) \/ Refreshes \/ UNCHANGED vars
BY DEF Next, Acts, Refreshes

\* The items of a kind, when there are n events.
Shows(k, n) ==
  CASE k = "alerts" -> Alerts [] k = "rgm" -> RecKinds
    [] k = "feed" -> 1..n [] OTHER -> Stores

\* Every step takes the types to themselves.
LEMMA TypeStep ==
  ASSUME ReadsInv, [Next]_vars
  PROVE  TypeOK'
<1>1. Domains /\ TypeOK /\ Flow /\ Domains'
  BY DomainsStep DEF ReadsInv
<1>2. /\ source' \in Sources /\ alerts' \subseteq Alerts
      /\ repOf' \in [Stores -> Reps \cup {None}] /\ refreshes' \in 0..MaxRefreshes
      /\ wish' = wish
  <2>1. ASSUME NEW c \in Clients, Acts(c)
        PROVE  UNCHANGED <<tables, wish, refreshes>>
    BY <2>1, ClientFrame
  <2>2. ASSUME NEW a \in Alerts, RefreshAlert(a)
        PROVE  /\ source' \in Sources /\ alerts' \subseteq Alerts
               /\ repOf' \in [Stores -> Reps \cup {None}] /\ refreshes' \in 0..MaxRefreshes
               /\ wish' = wish
    BY <1>1, <2>2, ConstantsTyped DEF TypeOK, RefreshAlert, Moves, handlers
  <2>3. ASSUME NEW st \in Stores, NEW rep \in Reps \cup {None}, RefreshStore(st, rep)
        PROVE  /\ source' \in Sources /\ alerts' \subseteq Alerts
               /\ repOf' \in [Stores -> Reps \cup {None}] /\ refreshes' \in 0..MaxRefreshes
               /\ wish' = wish
    BY <1>1, <2>3, ConstantsTyped DEF TypeOK, RefreshStore, Moves, handlers
  <2>4. UNCHANGED <<tables, wish, refreshes>> =>
          /\ source' \in Sources /\ alerts' \subseteq Alerts
          /\ repOf' \in [Stores -> Reps \cup {None}] /\ refreshes' \in 0..MaxRefreshes
          /\ wish' = wish
    BY <1>1 DEF TypeOK, tables
  <2>5. UNCHANGED vars => UNCHANGED <<tables, wish, refreshes>>
    BY DEF vars, handlers, history
  <2>. QED
    BY <2>1, <2>2, <2>3, <2>4, <2>5, StepKinds DEF Refreshes
<1>3. /\ log' \in Seq([by : Clients, count : Nat]) /\ Len(log) <= Len(log')
      /\ committed' \subseteq DOMAIN log'
      /\ DOMAIN log = 1..Len(log) /\ DOMAIN log' = 1..Len(log')
      /\ Len(log) \in Nat /\ Len(log') \in Nat
  <2>1. /\ log \in Seq([by : Clients, count : Nat]) /\ committed \subseteq DOMAIN log
        /\ DOMAIN log = 1..Len(log) /\ Len(log) \in Nat
    BY <1>1 DEF TypeOK
  <2>2. ASSUME NEW c \in Clients, Log(c)
        PROVE  /\ log' \in Seq([by : Clients, count : Nat]) /\ Len(log) <= Len(log')
               /\ committed' \subseteq DOMAIN log'
               /\ DOMAIN log = 1..Len(log) /\ DOMAIN log' = 1..Len(log')
               /\ Len(log) \in Nat /\ Len(log') \in Nat
    <3>1. [by |-> c, count |-> Len(page[c])] \in [by : Clients, count : Nat]
      BY <1>1 DEF Domains
    <3>2. log' = Append(log, [by |-> c, count |-> Len(page[c])]) /\ committed' = committed
      BY <2>2 DEF Log
    <3>. QED
      BY <2>1, <3>1, <3>2
  <2>3. ASSUME NEW c \in Clients, Commit(c)
        PROVE  /\ log' \in Seq([by : Clients, count : Nat]) /\ Len(log) <= Len(log')
               /\ committed' \subseteq DOMAIN log'
               /\ DOMAIN log = 1..Len(log) /\ DOMAIN log' = 1..Len(log')
               /\ Len(log) \in Nat /\ Len(log') \in Nat
    <3>1. Logged(c) \in DOMAIN log
      BY <2>3, LoggedRow DEF Commit
    <3>. QED
      BY <2>1, <2>3, <3>1 DEF Commit
  <2>4. ASSUME UNCHANGED <<log, committed>>
        PROVE  /\ log' \in Seq([by : Clients, count : Nat]) /\ Len(log) <= Len(log')
               /\ committed' \subseteq DOMAIN log'
               /\ DOMAIN log = 1..Len(log) /\ DOMAIN log' = 1..Len(log')
               /\ Len(log) \in Nat /\ Len(log') \in Nat
    BY <2>1, <2>4
  <2>5. \/ \E c \in Clients : Log(c) \/ Commit(c)
        \/ UNCHANGED <<log, committed>>
    BY DEF Next, Handler, Ask, FindStore, Admit, Query, Answer, Follow, Fail,
           RefreshAlert, RefreshStore, trail, vars
  <2>. QED
    BY <2>2, <2>3, <2>4, <2>5

\* Pages are of their kind still, although the log grows.
<1>4. \A d \in Clients : wish'[d].kind = wish[d].kind
  BY <1>2
<1>5. ASSUME NEW k
      PROVE  Seq(Shows(k, Len(log))) \subseteq Seq(Shows(k, Len(log')))
  <2>1. 1..Len(log) \subseteq 1..Len(log')
    BY <1>3
  <2>2. Shows(k, Len(log)) \subseteq Shows(k, Len(log'))
    BY <2>1 DEF Shows
  <2>. QED
    BY <2>2
<1>6. \A d \in Clients :
        /\ pc[d] # "idle" => got[d] \in Seq(Shows(wish[d].kind, Len(log)))
        /\ pc[d] \in {"read", "logged", "committed", "more"} =>
             /\ page[d] \in Seq(Shows(wish[d].kind, Len(log)))
             /\ next[d] # None => next[d] > cursor[d]
  BY <1>1, <1>3 DEF TypeOK, Items, Shows
<1> DEFINE Good(d) ==
             /\ pc'[d] # "idle" => got'[d] \in Seq(Shows(wish[d].kind, Len(log')))
             /\ pc'[d] \in {"read", "logged", "committed", "more"} =>
                  /\ page'[d] \in Seq(Shows(wish[d].kind, Len(log')))
                  /\ next'[d] # None => next'[d] > cursor'[d]
<1>7. ASSUME NEW d \in Clients, Kept(d)
      PROVE  Good(d)
  BY <1>5, <1>6, <1>7 DEF Kept
<1>8. ASSUME NEW c \in Clients, Acts(c)
      PROVE  Good(c)
  <2> DEFINE k == wish[c].kind
  <2>1. /\ got[c] = <<>> \/ got[c] \in Seq(Shows(k, Len(log')))
        /\ <<>> \in Seq(Shows(k, Len(log')))
        /\ pc[c] # "idle" => got[c] \in Seq(Shows(k, Len(log')))
    BY <1>1, <1>5, <1>6 DEF Flow
  <2>2. pc[c] \in {"read", "logged", "committed", "more"} =>
          page[c] \in Seq(Shows(k, Len(log')))
    BY <1>5, <1>6
  <2> USE DEF Goes
  <2>3. CASE Ask(c)
    BY <1>1, <2>1, <2>3 DEF Domains, Ask
  <2>4. ASSUME NEW outcome \in Outcomes, FindStore(c, outcome)
        PROVE  Good(c)
    <3>1. wish[c].kind = "detail" =>
            next[c] = None /\ <<wish[c].store>> \in Seq(Shows(k, Len(log')))
      <4>1. wish[c] \in Wish /\ (k = "detail" => next[c] = None)
        BY <1>1, <2>4 DEF Flow, FindStore
      <4>2. k = "detail" => wish[c].store \in Shows(k, Len(log'))
        BY <4>1 DEF Wish, Shows
      <4>. QED
        BY <4>1, <4>2
    <3>2. /\ pc'[c] \in {"read", "found", "error"} /\ got' = got /\ next' = next
          /\ pc'[c] = "read" => wish[c].kind = "detail" /\ page'[c] = <<wish[c].store>>
          /\ pc[c] = "asked"
      BY <1>1, <2>4 DEF Domains, FindStore, handlers
    <3>. QED
      BY <2>1, <3>1, <3>2
  <2>5. CASE Admit(c)
    BY <1>1, <2>1, <2>5 DEF Domains, Admit
  <2>6. ASSUME NEW outcome \in Outcomes, Query(c, outcome)
        PROVE  Good(c)
    <3>1. got' = got /\ cursor' = cursor /\ log' = log /\ pc[c] = "found"
      BY <2>6, QueryEffect DEF trail
    <3>2. CASE Goes(c, "error")
      BY <1>1, <2>1, <3>1, <3>2 DEF Domains
    <3>3. ASSUME NEW r, Reads(c, r), r.rows \in Seq(Items(wish[c].kind)),
                 r.next # None => r.next > cursor[c]
          PROVE  Good(c)
      <4>1. r.rows \in Seq(Shows(k, Len(log')))
        BY <1>3, <3>1, <3>3 DEF Items, Shows
      <4>2. page'[c] = r.rows /\ next'[c] = r.next
        BY <1>1, <3>3 DEF Reads, Domains
      <4>. QED
        BY <2>1, <3>1, <3>3, <4>1, <4>2
    <3>. QED
      BY <2>6, <3>2, <3>3, QueryEffect
  <2>7. CASE Log(c)
    BY <1>1, <1>6, <2>1, <2>2, <2>7 DEF Domains, Log
  <2>8. CASE Commit(c)
    BY <1>1, <1>6, <2>1, <2>2, <2>8 DEF Domains, Commit
  <2>9. CASE Answer(c)
    <3>1. got[c] \o page[c] \in Seq(Shows(k, Len(log')))
      BY <2>1, <2>2, <2>9, ConcatFacts DEF Answer
    <3>2. /\ got'[c] = got[c] \o page[c] /\ page' = page /\ next' = next /\ cursor' = cursor
          /\ pc[c] = "committed"
      BY <1>1, <2>9 DEF Domains, Answer
    <3>. QED
      BY <1>6, <2>2, <3>1, <3>2
  <2>10. CASE Follow(c)
    BY <1>1, <2>1, <2>10 DEF Domains, Follow
  <2>11. CASE Fail(c)
    BY <1>1, <2>1, <2>11 DEF Domains, Fail, Working
  <2>. QED
    BY <1>8, <2>3, <2>4, <2>5, <2>6, <2>7, <2>8, <2>9, <2>10, <2>11 DEF Acts, Handler
<1>9. UNCHANGED vars => \A d \in Clients : Kept(d)
  BY DEF vars, handlers, trail, history, Kept
<1>10. \A d \in Clients : Good(d)
  BY <1>7, <1>8, <1>9, StepKinds, ClientFrame, RefreshFrame
<1>11. \A d \in Clients :
         /\ wish'[d] \in Wish \cup {None} /\ pc'[d] \in PC
         /\ cursor'[d] \in Nat /\ next'[d] \in Nat \cup {None}
         /\ owner'[d] \in Reps \cup {None}
  BY <1>1 DEF Domains
<1>. QED
  BY <1>2, <1>3, <1>4, <1>10, <1>11 DEF TypeOK, Items, Shows

--------------------------------------------------------------------------------
(* The tables, the flow of the handlers and their events *)

\* No step makes the tables inconsistent.
LEMMA TablesStep ==
  ASSUME ReadsInv, [Next]_vars
  PROVE  Tables'
<1>1. Tables
  BY DEF ReadsInv
<1>2. UNCHANGED tables => Tables'
  BY <1>1 DEF Tables, tables
<1>3. ASSUME NEW a \in Alerts, RefreshAlert(a)
      PROVE  Tables'
  <2>1. source' # "mock" /\ repOf' = repOf
    BY <1>3 DEF RefreshAlert, Moves
  <2>2. CASE a \in alerts
    <3>1. alerts' = alerts \ {a}
      BY <1>3, <2>2 DEF RefreshAlert
    <3>. QED
      BY <1>1, <2>1, <3>1 DEF Tables
  <2>3. CASE a \notin alerts
    <3>1. alerts' = {b \in alerts : b.id # a.id} \cup {a}
      BY <1>3, <2>3 DEF RefreshAlert
    <3>. QED
      BY <1>1, <2>1, <3>1 DEF Tables
  <2>. QED
    BY <2>2, <2>3
<1>4. ASSUME NEW st \in Stores, NEW rep \in Reps \cup {None}, RefreshStore(st, rep)
      PROVE  Tables'
  BY <1>1, <1>4 DEF Tables, RefreshStore, Moves
<1>. QED
  BY <1>2, <1>3, <1>4, StepKinds, ClientFrame DEF Refreshes, vars

\* No step takes a handler where its request does not lead.
LEMMA FlowStep ==
  ASSUME ReadsInv, [Next]_vars
  PROVE  Flow'
<1>1. Domains /\ Flow
  BY DEF ReadsInv
<1> DEFINE Good(d) ==
      IF pc'[d] = "idle"
      THEN /\ got'[d] = <<>> /\ cursor'[d] = 0 /\ next'[d] = None /\ accounted'[d] = 0
           /\ ~moved'[d]
      ELSE /\ wish[d] \in Wish
           /\ wish[d].kind = "detail" => next'[d] = None /\ pc'[d] # "found"
           /\ pc'[d] = "more" => next'[d] # None
           /\ ~Audited(wish[d]) => pc'[d] \notin {"read", "logged"}
<1>2. ASSUME NEW d \in Clients, Kept(d), moved'[d] => moved[d] \/ pc[d] # "idle"
      PROVE  Good(d)
  BY <1>1, <1>2 DEF Flow, Kept
<1>3. ASSUME NEW c \in Clients, Acts(c)
      PROVE  Good(c)
  <2> USE DEF Goes
  <2>1. CASE Ask(c)
    BY <1>1, <2>1 DEF Domains, Flow, Ask
  <2>2. ASSUME NEW outcome \in Outcomes, FindStore(c, outcome)
        PROVE  Good(c)
    <3>1. /\ pc'[c] \in {"read", "found", "error"} /\ next' = next /\ pc[c] = "asked"
          /\ wish[c].kind \in {"alerts", "detail", "rgm"}
          /\ pc'[c] = "found" => wish[c].kind # "detail"
      BY <1>1, <2>2 DEF Domains, FindStore
    <3>. QED
      BY <1>1, <3>1 DEF Flow, Audited
  <2>3. CASE Admit(c)
    BY <1>1, <2>3 DEF Domains, Flow, Admit
  <2>4. ASSUME NEW outcome \in Outcomes, Query(c, outcome)
        PROVE  Good(c)
    <3>1. /\ pc[c] = "found"
          /\ pc'[c] = "error" \/ (pc'[c] = IF Audited(wish[c]) THEN "read" ELSE "committed")
      BY <1>1, <2>4, QueryEffect DEF Domains, Reads
    <3>. QED
      BY <1>1, <3>1 DEF Flow
  <2>5. CASE Log(c)
    BY <1>1, <2>5 DEF Domains, Flow, Log
  <2>6. CASE Commit(c)
    BY <1>1, <2>6 DEF Domains, Flow, Commit
  <2>7. CASE Answer(c)
    BY <1>1, <2>7 DEF Domains, Flow, Answer
  <2>8. CASE Follow(c)
    BY <1>1, <2>8 DEF Domains, Flow, Follow
  <2>9. CASE Fail(c)
    BY <1>1, <2>9 DEF Domains, Flow, Fail, Working
  <2>. QED
    BY <1>3, <2>1, <2>2, <2>3, <2>4, <2>5, <2>6, <2>7, <2>8, <2>9 DEF Acts, Handler
<1>4. wish' = wish /\ \A d \in Clients : Good(d)
  <2>1. ASSUME NEW c \in Clients, Acts(c)
        PROVE  wish' = wish /\ \A d \in Clients : Good(d)
    BY <1>2, <1>3, <2>1, ClientFrame
  <2>2. CASE Refreshes
    BY <1>2, <2>2, RefreshFrame
  <2>3. CASE UNCHANGED vars
    BY <1>2, <2>3 DEF vars, handlers, trail, history, Kept
  <2>. QED
    BY <2>1, <2>2, <2>3, StepKinds
<1>. QED
  BY <1>4 DEF Flow, Audited

\* The events of a client account for his pages after every step.
LEMMA AccountsStep ==
  ASSUME ReadsInv, [Next]_vars
  PROVE  Accounts'
<1>1. Domains /\ Accounts /\ Flow
  BY DEF ReadsInv
<1>2. /\ Len(log) \in Nat /\ DOMAIN log = 1..Len(log)
      /\ committed \subseteq DOMAIN log /\ log \in Seq([by : Clients, count : Nat])
      /\ \A d \in Clients : /\ Len(got[d]) \in Nat /\ Len(page[d]) \in Nat
                            /\ accounted[d] \in Nat /\ got[d] \in Seq(Rows)
                            /\ page[d] \in Seq(Rows)
  BY DEF ReadsInv, TypeOK, Domains
<1> DEFINE Balanced(d) ==
             pc[d] # "idle" /\ Audited(wish[d]) =>
               /\ accounted[d] >= Len(got[d])
               /\ pc[d] = "committed" => accounted[d] = Len(got[d]) + Len(page[d])
               /\ pc[d] \notin {"error", "committed"} => accounted[d] = Len(got[d])
<1>3. ASSUME NEW d \in Clients
      PROVE  Balanced(d)
  <2> DEFINE shown == Len(got[d])
             held == Len(page[d])
             sum == accounted[d]
  <2>1. shown \in Nat /\ held \in Nat /\ sum \in Nat
    BY <1>2
  <2>2. pc[d] # "idle" /\ Audited(wish[d]) =>
          /\ pc[d] = "error" => sum >= shown
          /\ pc[d] = "committed" => sum = shown + held
          /\ pc[d] \notin {"error", "committed"} => sum = shown
    BY <1>1 DEF Accounts
  <2> HIDE DEF shown, held, sum
  <2>3. pc[d] # "idle" /\ Audited(wish[d]) => sum >= shown
    BY <2>1, <2>2
  <2>. QED
    BY <2>2, <2>3 DEF shown, held, sum
\* There is an event for the page of d that is not committed, his last.
<1> DEFINE Pending(d, l, s, n) ==
             \E i \in DOMAIN l \ s : /\ l[i].by = d /\ l[i].count = n
                                     /\ \A j \in DOMAIN l : l[j].by = d => j <= i
           Good(d) ==
             pc'[d] # "idle" /\ Audited(wish[d]) =>
               /\ pc'[d] = "error" => accounted'[d] >= Len(got'[d])
               /\ pc'[d] = "committed" => accounted'[d] = Len(got'[d]) + Len(page'[d])
               /\ pc'[d] \notin {"error", "committed"} => accounted'[d] = Len(got'[d])
               /\ pc'[d] = "logged" => Pending(d, log', committed', Len(page'[d]))
<1>4. ASSUME NEW d \in Clients, Kept(d),
             \A n \in Nat : Pending(d, log, committed, n) => Pending(d, log', committed', n)
      PROVE  Good(d)
  <2> HIDE DEF Pending
  <2>1. pc[d] = "logged" /\ Audited(wish[d]) => Pending(d, log, committed, Len(page[d]))
    BY <1>1 DEF Accounts, Pending
  <2>. QED
    BY <1>1, <1>2, <1>4, <2>1 DEF Accounts, Kept
<1>5. ASSUME NEW c \in Clients, Acts(c)
      PROVE  Good(c)
  <2> USE DEF Goes
  <2> HIDE DEF Pending
  <2>1. CASE Ask(c)
    BY <1>1, <2>1 DEF Domains, Accounts, Flow, Ask, trail
  <2>2. ASSUME NEW outcome \in Outcomes, FindStore(c, outcome)
        PROVE  Good(c)
    <3>1. /\ pc'[c] \in {"read", "found", "error"} /\ UNCHANGED <<got, accounted>>
          /\ pc[c] = "asked"
      BY <1>1, <2>2 DEF Domains, FindStore, trail
    <3>. QED
      BY <1>2, <1>3, <3>1
  <2>3. CASE Admit(c)
    <3>1. /\ pc'[c] \in {"found", "error"} /\ UNCHANGED <<got, accounted>>
          /\ pc[c] = "asked"
      BY <1>1, <2>3 DEF Domains, Admit, trail
    <3>. QED
      BY <1>2, <1>3, <3>1
  <2>4. ASSUME NEW outcome \in Outcomes, Query(c, outcome)
        PROVE  Good(c)
    <3>1. /\ pc[c] = "found" /\ UNCHANGED <<got, accounted>>
          /\ pc'[c] = "error" \/ (pc'[c] = IF Audited(wish[c]) THEN "read" ELSE "committed")
      BY <1>1, <2>4, QueryEffect DEF Domains, Reads, trail
    <3>. QED
      BY <1>2, <1>3, <3>1
  <2>5. CASE Log(c)
    <3>1. /\ pc[c] = "read" /\ pc'[c] = "logged" /\ UNCHANGED <<got, page, committed, accounted>>
          /\ log' = Append(log, [by |-> c, count |-> Len(page[c])])
      BY <1>1, <2>5 DEF Domains, Log
    <3>2. /\ DOMAIN log' = 1..(Len(log) + 1)
          /\ log'[Len(log) + 1] = [by |-> c, count |-> Len(page[c])]
      BY <1>2, <3>1
    <3>3. Len(log) + 1 \in DOMAIN log' \ committed'
      BY <1>2, <3>1, <3>2
    <3>4. Pending(c, log', committed', Len(page'[c]))
      BY <1>2, <3>1, <3>2, <3>3 DEF Pending
    <3>. QED
      BY <1>1, <1>2, <3>1, <3>4 DEF Accounts
  <2>6. CASE Commit(c)
    <3>1. /\ pc[c] = "logged" /\ pc'[c] = "committed" /\ UNCHANGED <<got, page>>
          /\ accounted'[c] = accounted[c] + log[Logged(c)].count
      BY <1>1, <2>6 DEF Domains, Commit
    <3>2. log[Logged(c)].count = Len(page[c])
      BY <3>1, LoggedRow
    <3>. QED
      BY <1>1, <1>2, <3>1, <3>2 DEF Accounts
  <2>7. CASE Answer(c)
    <3>1. /\ pc[c] = "committed" /\ pc'[c] \in {"done", "more"} /\ accounted' = accounted
          /\ got'[c] = got[c] \o page[c]
      BY <1>1, <2>7 DEF Domains, Answer, trail
    <3>2. Len(got'[c]) = Len(got[c]) + Len(page[c])
      BY <1>2, <3>1, ConcatFacts
    <3>. QED
      BY <1>1, <1>2, <3>1, <3>2 DEF Accounts
  <2>8. CASE Follow(c)
    BY <1>1, <1>2, <2>8 DEF Domains, Accounts, Follow, trail
  <2>9. CASE Fail(c)
    <3>1. /\ pc[c] \in Working /\ pc'[c] = "error" /\ UNCHANGED <<got, accounted>>
      BY <1>1, <2>9 DEF Domains, Fail, trail
    <3>. QED
      BY <1>2, <1>3, <3>1 DEF Working
  <2>. QED
    BY <1>5, <2>1, <2>2, <2>3, <2>4, <2>5, <2>6, <2>7, <2>8, <2>9 DEF Acts, Handler
\* The step of another leaves a client's last event alone.
<1>6. ASSUME NEW c \in Clients, Acts(c), NEW d \in Clients \ {c}, NEW n \in Nat,
             Pending(d, log, committed, n)
      PROVE  Pending(d, log', committed', n)
  <2>1. PICK i \in DOMAIN log \ committed :
          /\ log[i].by = d /\ log[i].count = n
          /\ \A j \in DOMAIN log : log[j].by = d => j <= i
    BY <1>6
  <2>2. CASE UNCHANGED <<log, committed>>
    BY <1>6, <2>2
  <2>3. CASE Log(c)
    <3>1. /\ committed' = committed
          /\ log' = Append(log, [by |-> c, count |-> Len(page[c])])
      BY <2>3 DEF Log
    <3>2. /\ DOMAIN log' = 1..(Len(log) + 1) /\ \A j \in DOMAIN log : log'[j] = log[j]
          /\ log'[Len(log) + 1].by = c
      BY <1>2, <3>1
    <3>3. i \in DOMAIN log' \ committed' /\ log'[i] = log[i]
      BY <1>2, <2>1, <3>1, <3>2
    <3>4. \A j \in DOMAIN log' : log'[j].by = d => j <= i
      BY <1>2, <1>6, <2>1, <3>2
    <3>. QED
      BY <2>1, <3>3, <3>4
  <2>4. CASE Commit(c)
    <3>1. log' = log /\ committed' = committed \cup {Logged(c)}
      BY <2>4 DEF Commit
    <3>2. log[Logged(c)].by = c
      BY <2>4, LoggedRow DEF Commit
    <3>. QED
      BY <1>6, <2>1, <3>1, <3>2
  <2>. QED
    BY <1>6, <2>2, <2>3, <2>4
    DEF Acts, Handler, Ask, FindStore, Admit, Query, Answer, Follow, Fail, trail
<1>7. wish' = wish /\ \A d \in Clients : Good(d)
  <2> HIDE DEF Pending
  <2>1. ASSUME NEW c \in Clients, Acts(c)
        PROVE  wish' = wish /\ \A d \in Clients : Good(d)
    <3>1. wish' = wish /\ \A d \in Clients \ {c} : Kept(d)
      BY <2>1, ClientFrame
    <3>2. \A d \in Clients \ {c} : Good(d)
      BY <1>4, <1>6, <2>1, <3>1
    <3>. QED
      BY <1>5, <2>1, <3>1, <3>2
  <2>2. CASE Refreshes
    BY <1>4, <2>2, RefreshFrame
  <2>3. CASE UNCHANGED vars
    BY <1>4, <2>3 DEF vars, handlers, trail, history, Kept
  <2>. QED
    BY <2>1, <2>2, <2>3, StepKinds
<1>. QED
  BY <1>7 DEF Accounts, Audited

--------------------------------------------------------------------------------
(* Whose data a client is shown *)

\* A client holds and is shown only what is his, after every step.
LEMMA OwnershipStep ==
  ASSUME ReadsInv, [Next]_vars
  PROVE  Ownership'
<1>1. Domains /\ Ownership /\ Flow
  BY DEF ReadsInv
<1> DEFINE Good(d) ==
      pc'[d] # "idle" =>
        /\ wish[d].kind \in AboutStore =>
             /\ pc'[d] \in {"found"} \cup Holding \/ got'[d] # <<>> =>
                  StoreAccess(wish[d], owner'[d])
             /\ pc'[d] = "found" /\ ~moved'[d] =>
                  /\ owner'[d] = repOf'[wish[d].store]
                  /\ wish[d].role = "rep" => owner'[d] = wish[d].rep
        /\ wish[d].kind = "alerts" =>
             HisOwn(wish[d], got'[d]) /\ (pc'[d] \in Holding => HisOwn(wish[d], page'[d]))
<1>2. ASSUME NEW d \in Clients, Kept(d),
             (moved' = moved /\ repOf' = repOf) \/ moved'[d] \/ pc[d] = "idle"
      PROVE  Good(d)
  BY <1>1, <1>2 DEF Ownership, Kept
<1>3. ASSUME NEW c \in Clients, Acts(c)
      PROVE  Good(c)
  <2>1. repOf' = repOf /\ moved' = moved
    BY <1>3, ClientFrame DEF tables
  <2> USE DEF Goes
  <2>2. CASE Ask(c)
    <3>1. /\ pc'[c] = "asked" /\ got'[c] = <<>>
      BY <1>1, <2>2 DEF Domains, Flow, Ask
    <3>. QED
      BY <3>1 DEF Holding, HisOwn
  <2>3. ASSUME NEW outcome \in Outcomes, FindStore(c, outcome)
        PROVE  Good(c)
    <3>1. /\ pc[c] = "asked" /\ got' = got /\ pc'[c] \in {"found", "read", "error"}
          /\ pc'[c] = "error" => owner' = owner
          /\ pc'[c] # "error" => /\ owner'[c] = repOf[wish[c].store]
                                 /\ StoreFound(wish[c])
                                 /\ StoreAccess(wish[c], repOf[wish[c].store])
          /\ pc'[c] = "read" => wish[c].kind = "detail"
      BY <1>1, <2>3 DEF Domains, FindStore
    <3>. QED
      BY <1>1, <2>1, <3>1 DEF Ownership, Holding, StoreFound
  <2>4. CASE Admit(c)
    <3>1. /\ pc[c] = "asked" /\ UNCHANGED <<got, owner>> /\ pc'[c] \in {"found", "error"}
          /\ wish[c].kind \in {"visits", "territory", "feed"}
      BY <1>1, <2>4 DEF Domains, Admit
    <3>. QED
      BY <3>1 DEF AboutStore
  <2>5. ASSUME NEW outcome \in Outcomes, Query(c, outcome)
        PROVE  Good(c)
    <3>1. pc[c] = "found" /\ UNCHANGED <<got, owner>>
      BY <2>5, QueryEffect
    <3>2. CASE Goes(c, "error")
      BY <1>1, <3>1, <3>2 DEF Ownership, Domains, Holding
    <3>3. ASSUME NEW r, Reads(c, r), r \in Results(c) \/ r.rows = <<>>
          PROVE  Good(c)
      <4>1. wish[c].kind = "alerts" => HisOwn(wish[c], r.rows)
        <5>1. r.rows = <<>> => HisOwn(wish[c], r.rows)
          BY DEF HisOwn
        <5>. QED
          BY <3>1, <3>3, <5>1, ListingPage
      <4>2. page'[c] = r.rows /\ pc'[c] # "found"
        BY <1>1, <3>3 DEF Reads, Domains
      <4>. QED
        BY <1>1, <3>1, <4>1, <4>2 DEF Ownership
    <3>. QED
      BY <2>5, <3>2, <3>3, QueryEffect
  <2>6. CASE Log(c)
    <3>1. /\ pc[c] = "read" /\ UNCHANGED <<got, owner, page>> /\ pc'[c] = "logged"
      BY <1>1, <2>6 DEF Domains, Log
    <3>. QED
      BY <1>1, <3>1 DEF Ownership, Holding
  <2>7. CASE Commit(c)
    <3>1. /\ pc[c] = "logged" /\ UNCHANGED <<got, owner, page>> /\ pc'[c] = "committed"
      BY <1>1, <2>7 DEF Domains, Commit
    <3>. QED
      BY <1>1, <3>1 DEF Ownership, Holding
  <2>8. CASE Answer(c)
    <3>1. /\ pc[c] = "committed" /\ owner' = owner /\ pc'[c] \in {"done", "more"}
          /\ got'[c] = got[c] \o page[c]
          /\ got[c] \in Seq(Rows) /\ page[c] \in Seq(Rows)
      BY <1>1, <2>8 DEF Domains, Answer
    <3>2. wish[c].kind = "alerts" => HisOwn(wish[c], got'[c])
      <4>1. wish[c].kind = "alerts" => HisOwn(wish[c], got[c]) /\ HisOwn(wish[c], page[c])
        BY <1>1, <3>1 DEF Ownership, Holding
      <4>2. \A i \in DOMAIN got'[c] :
              \/ i \in DOMAIN got[c] /\ got'[c][i] = got[c][i]
              \/ i - Len(got[c]) \in DOMAIN page[c] /\ got'[c][i] = page[c][i - Len(got[c])]
        <5>1. \A i \in DOMAIN (got[c] \o page[c]) :
                \/ i \in DOMAIN got[c] /\ (got[c] \o page[c])[i] = got[c][i]
                \/ /\ i \in Nat /\ i - Len(got[c]) \in DOMAIN page[c]
                   /\ (got[c] \o page[c])[i] = page[c][i - Len(got[c])]
          BY <3>1, ConcatFacts
        <5>. QED
          BY <3>1, <5>1, Zenon
      <4>. QED
        BY <4>1, <4>2, Zenon DEF HisOwn
    <3>. QED
      BY <1>1, <3>1, <3>2 DEF Ownership, Holding
  <2>9. CASE Follow(c)
    <3>1. /\ pc[c] = "more" /\ UNCHANGED <<got, owner>> /\ pc'[c] = "asked"
      BY <1>1, <2>9 DEF Domains, Follow
    <3>. QED
      BY <1>1, <3>1 DEF Ownership, Holding
  <2>10. CASE Fail(c)
    <3>1. /\ pc[c] # "idle" /\ UNCHANGED <<got, owner>> /\ pc'[c] = "error"
      BY <1>1, <2>10 DEF Domains, Fail, Working
    <3>. QED
      BY <1>1, <3>1 DEF Ownership, Holding
  <2>. QED
    BY <1>3, <2>2, <2>3, <2>4, <2>5, <2>6, <2>7, <2>8, <2>9, <2>10 DEF Acts, Handler
<1>4. wish' = wish /\ \A d \in Clients : Good(d)
  <2>1. ASSUME NEW c \in Clients, Acts(c)
        PROVE  wish' = wish /\ \A d \in Clients : Good(d)
    <3>1. /\ wish' = wish /\ moved' = moved /\ repOf' = repOf
          /\ \A d \in Clients \ {c} : Kept(d)
      BY <2>1, ClientFrame DEF tables
    <3>2. \A d \in Clients \ {c} : Good(d)
      BY <1>2, <3>1
    <3>. QED
      BY <1>3, <2>1, <3>1, <3>2
  <2>2. CASE Refreshes
    <3>1. wish' = wish /\ \A d \in Clients : Kept(d) /\ (moved'[d] \/ pc[d] = "idle")
      BY <2>2, RefreshFrame
    <3>. QED
      BY <1>2, <3>1
  <2>3. CASE UNCHANGED vars
    BY <1>2, <2>3 DEF vars, tables, handlers, trail, history, Kept
  <2>. QED
    BY <2>1, <2>2, <2>3, StepKinds
<1>. QED
  BY <1>4 DEF Ownership, HisOwn, StoreAccess

--------------------------------------------------------------------------------
(* The feed *)

\* Events that commit move the others to later places, never to earlier ones.
LEMMA NewerGrows ==
  ASSUME ReadsInv, [Next]_vars
  PROVE  /\ committed \subseteq committed' /\ committed \subseteq Nat
         /\ IsFiniteSet(committed)
         /\ \A x \in committed : Newer(x) \in Nat /\ Newer(x)' \in Nat /\ Newer(x) <= Newer(x)'
<1>1. /\ TypeOK /\ TypeOK'
  BY TypeStep DEF ReadsInv
<1>2. /\ DOMAIN log = 1..Len(log) /\ Len(log) \in Nat /\ committed \subseteq DOMAIN log
      /\ DOMAIN log' = 1..Len(log') /\ Len(log') \in Nat /\ committed' \subseteq DOMAIN log'
  BY <1>1 DEF TypeOK
<1>3. /\ IsFiniteSet(committed) /\ committed \subseteq Nat
      /\ IsFiniteSet(committed') /\ committed' \subseteq Nat
  <2>1. IsFiniteSet(1..Len(log)) /\ IsFiniteSet(1..Len(log'))
    BY <1>2, FS_Interval
  <2>2. /\ committed \subseteq 1..Len(log) /\ committed' \subseteq 1..Len(log')
        /\ 1..Len(log) \subseteq Nat /\ 1..Len(log') \subseteq Nat
    BY <1>2
  <2>. QED
    BY <2>1, <2>2, FS_Subset
<1>4. committed \subseteq committed'
  BY DEF Next, Handler, Ask, FindStore, Admit, Query, Log, Commit, Answer, Follow, Fail,
         RefreshAlert, RefreshStore, trail, vars
<1>5. ASSUME NEW x \in committed
      PROVE  Newer(x) \in Nat /\ Newer(x)' \in Nat /\ Newer(x) <= Newer(x)'
  <2> DEFINE N == {y \in committed : y > x}
             M == {y \in committed' : y > x}
  <2>1. N \subseteq M /\ M \subseteq committed' /\ N \subseteq committed
    BY <1>4
  <2>2. Newer(x) = Cardinality(N) /\ Newer(x)' = Cardinality(M)
    BY DEF Newer
  <2> HIDE DEF N, M
  <2>3. IsFiniteSet(M) /\ IsFiniteSet(N)
    BY <1>3, <2>1, FS_Subset
  <2>4. Cardinality(N) <= Cardinality(M)
    BY <2>1, <2>3, FS_Subset
  <2>5. Cardinality(N) \in Nat /\ Cardinality(M) \in Nat
    BY <2>3, FS_CardinalityType
  <2>. QED
    BY <2>2, <2>4, <2>5
<1>. QED
  BY <1>3, <1>4, <1>5

\* After every step an admin's list goes on where it leaves no gap.
LEMMA FeedStep ==
  ASSUME ReadsInv, [Next]_vars
  PROVE  FeedGoesOn'
<1>1. Domains /\ FeedGoesOn /\ Flow
  BY DEF ReadsInv
<1>2. /\ committed \subseteq committed' /\ committed \subseteq Nat
      /\ IsFiniteSet(committed)
      /\ \A x \in committed : Newer(x) \in Nat /\ Newer(x)' \in Nat /\ Newer(x) <= Newer(x)'
  BY NewerGrows
<1> DEFINE Good(d) ==
      pc'[d] # "idle" /\ wish[d].kind = "feed" =>
        /\ before'[d] \subseteq committed'
        /\ HoldsNewest(ToSet(got'[d]), before'[d]) /\ HoldsNewest(Ahead(d)', before'[d])
        /\ pc'[d] \in {"asked", "found"} =>
             \A x \in before'[d] \ Ahead(d)' : Newer(x)' >= cursor'[d]
        /\ pc'[d] \in {"committed", "more"} =>
             \A x \in before'[d] \ Ahead(d)' : next'[d] # None /\ Newer(x)' >= next'[d]
        /\ pc'[d] = "done" => before'[d] \subseteq Ahead(d)'
<1>3. ASSUME NEW d \in Clients, pc[d] # "idle", wish[d].kind = "feed"
      PROVE  /\ before[d] \subseteq committed /\ cursor[d] \in Nat
             /\ HoldsNewest(ToSet(got[d]), before[d]) /\ HoldsNewest(Ahead(d), before[d])
             /\ pc[d] \in {"asked", "found"} =>
                  \A x \in before[d] \ Ahead(d) : Newer(x) >= cursor[d]
             /\ pc[d] \in {"committed", "more"} =>
                  \A x \in before[d] \ Ahead(d) : /\ next[d] # None /\ next[d] \in Nat
                                                  /\ Newer(x) >= next[d]
             /\ pc[d] = "done" => before[d] \subseteq Ahead(d)
  BY <1>1, <1>3 DEF FeedGoesOn, Domains
<1>4. ASSUME NEW d \in Clients, Kept(d)
      PROVE  Good(d)
  <2> SUFFICES ASSUME pc[d] # "idle", wish[d].kind = "feed"
               PROVE  Good(d)
    BY <1>4 DEF Kept
  <2>1. Ahead(d)' = Ahead(d) /\ before'[d] = before[d]
    BY <1>4 DEF Ahead, Kept
  <2>2. pc[d] \in {"asked", "found"} =>
          \A x \in before[d] \ Ahead(d) : Newer(x)' >= cursor[d]
    <3> SUFFICES ASSUME pc[d] \in {"asked", "found"}, NEW x \in before[d] \ Ahead(d)
                 PROVE  Newer(x)' >= cursor[d]
      OBVIOUS
    <3>1. x \in committed /\ cursor[d] \in Nat /\ Newer(x) >= cursor[d]
      BY <1>3
    <3>2. Newer(x) \in Nat /\ Newer(x)' \in Nat /\ Newer(x) <= Newer(x)'
      BY <1>2, <3>1
    <3>. QED
      BY <3>1, <3>2
  <2>3. pc[d] \in {"committed", "more"} =>
          \A x \in before[d] \ Ahead(d) : next[d] # None /\ Newer(x)' >= next[d]
    <3> SUFFICES ASSUME pc[d] \in {"committed", "more"}, NEW x \in before[d] \ Ahead(d)
                 PROVE  next[d] # None /\ Newer(x)' >= next[d]
      OBVIOUS
    <3>1. x \in committed /\ next[d] \in Nat /\ Newer(x) >= next[d] /\ next[d] # None
      BY <1>3
    <3>2. Newer(x) \in Nat /\ Newer(x)' \in Nat /\ Newer(x) <= Newer(x)'
      BY <1>2, <3>1
    <3>. QED
      BY <3>1, <3>2
  <2>4. /\ before[d] \subseteq committed'
        /\ HoldsNewest(ToSet(got[d]), before[d]) /\ HoldsNewest(Ahead(d), before[d])
        /\ pc[d] = "done" => before[d] \subseteq Ahead(d)
    BY <1>2, <1>3
  <2>. QED
    BY <1>4, <2>1, <2>2, <2>3, <2>4 DEF Kept
<1>5. ASSUME NEW c \in Clients, Acts(c)
      PROVE  Good(c)
  <2> SUFFICES ASSUME wish[c].kind = "feed"
               PROVE  Good(c)
    OBVIOUS
  <2>1. pc[c] \notin {"read", "logged"}
    BY <1>1 DEF Flow, Audited
  <2> USE DEF Goes
  <2>2. ASSUME committed' = committed, NEW x
        PROVE  Newer(x)' = Newer(x)
    BY <2>2 DEF Newer
  <2>3. CASE Ask(c)
    <3>1. /\ pc'[c] = "asked" /\ got'[c] = <<>> /\ cursor'[c] = 0
          /\ before'[c] = committed /\ committed' = committed
      BY <1>1, <2>3 DEF Domains, Flow, Ask, trail
    <3>2. Ahead(c)' = {} /\ ToSet(got'[c]) = {}
      BY <3>1 DEF Ahead, ToSet
    <3>3. \A x \in committed : Newer(x)' >= 0
      BY <1>2
    <3>. QED
      BY <3>1, <3>2, <3>3 DEF HoldsNewest
  <2>4. CASE Admit(c)
    <3>1. /\ pc[c] = "asked" /\ pc'[c] \in {"found", "error"}
          /\ UNCHANGED <<got, cursor, before, committed>>
      BY <1>1, <2>4 DEF Domains, Admit, trail, history
    <3>2. Ahead(c)' = Ahead(c)
      BY <3>1 DEF Ahead
    <3>. QED
      BY <1>3, <2>2, <3>1, <3>2
  <2>5. ASSUME NEW outcome \in Outcomes, Query(c, outcome)
        PROVE  Good(c)
    <3>1. pc[c] = "found" /\ UNCHANGED <<got, cursor, before, committed>>
      BY <2>5, QueryEffect DEF trail
    <3>2. CASE Goes(c, "error")
      <4>1. pc'[c] = "error" /\ Ahead(c)' = ToSet(got[c])
        BY <1>1, <3>1, <3>2 DEF Domains, Ahead
      <4>. QED
        BY <1>3, <3>1, <4>1
    <3>3. ASSUME NEW r \in Results(c), Reads(c, r)
          PROVE  Good(c)
      <4> DEFINE B == before[c]
                 G == ToSet(got[c])
                 P == ToSet(r.rows)
                 bound == cursor[c] + wish[c].limit
      <4>1. /\ r.next # None => r.next = bound
            /\ \A x \in committed :
                 /\ Newer(x) \in Nat
                 /\ x \in P <=> cursor[c] <= Newer(x) /\ Newer(x) < bound
                 /\ r.next = None => Newer(x) < bound
        BY <3>1, EventPage
      <4>2. /\ page'[c] = r.rows /\ next'[c] = r.next /\ pc'[c] = "committed"
        BY <1>1, <3>3 DEF Reads, Domains, Audited
      <4>3. Ahead(c)' = G \cup P
        BY <3>1, <4>2 DEF Ahead
      <4>4. /\ B \subseteq committed /\ cursor[c] \in Nat /\ HoldsNewest(G, B)
            /\ \A x \in B \ G : Newer(x) >= cursor[c]
        BY <1>3, <3>1 DEF Ahead
      <4>5. bound \in Nat
        BY <1>1, <3>1, <4>4 DEF Flow, Wish
      <4> HIDE DEF B, G, P, bound
      <4>6. \A x \in B \ (G \cup P) : Newer(x) \in Nat /\ Newer(x) >= bound
        BY <4>1, <4>4, <4>5
      <4>7. ASSUME NEW x \in B \ (G \cup P), NEW y \in B \cap (G \cup P)
            PROVE  x < y
        <5>1. CASE y \in G
          BY <4>4, <5>1 DEF HoldsNewest
        <5>2. CASE y \in P
          <6>1. Newer(y) \in Nat /\ Newer(y) < bound
            BY <4>1, <4>4, <5>2
          <6>2. Newer(y) < Newer(x)
            BY <4>5, <4>6, <6>1
          <6>. QED
            BY <1>2, <4>4, <6>2, NewerFirst
        <5>. QED
          BY <5>1, <5>2
      <4>8. \A x \in B \ (G \cup P) : r.next # None /\ Newer(x) >= r.next
        BY <4>1, <4>4, <4>5, <4>6
      <4>9. HoldsNewest(G \cup P, B)
        BY <4>7 DEF HoldsNewest
      <4>10. got'[c] = got[c] /\ before'[c] = B /\ committed' = committed
        BY <3>1 DEF B
      <4>. QED
        BY <2>2, <4>2, <4>3, <4>4, <4>8, <4>9, <4>10 DEF G
    <3>. QED
      BY <2>5, <3>2, <3>3, QueryEffect
  <2>6. CASE Answer(c)
    <3>1. /\ pc[c] = "committed" /\ pc'[c] \in {"done", "more"}
          /\ pc'[c] = "done" => next[c] = None
          /\ got'[c] = got[c] \o page[c] /\ got[c] \in Seq(Rows) /\ page[c] \in Seq(Rows)
          /\ UNCHANGED <<next, before, committed>>
      BY <1>1, <2>6 DEF Domains, Answer, trail, history
    <3>2. ToSet(got'[c]) = ToSet(got[c]) \cup ToSet(page[c])
      BY <3>1, ConcatFacts
    <3>3. Ahead(c)' = Ahead(c) /\ ToSet(got'[c]) = Ahead(c)
      BY <3>1, <3>2 DEF Ahead
    <3>. QED
      BY <1>3, <2>2, <3>1, <3>3
  <2>7. CASE Follow(c)
    <3>1. /\ pc[c] = "more" /\ pc'[c] = "asked" /\ cursor'[c] = next[c]
          /\ UNCHANGED <<got, before, committed>>
      BY <1>1, <2>7 DEF Domains, Follow, trail, history
    <3>2. Ahead(c)' = Ahead(c)
      BY <3>1 DEF Ahead
    <3>. QED
      BY <1>3, <2>2, <3>1, <3>2
  <2>8. CASE Fail(c)
    <3>1. /\ pc[c] # "idle" /\ pc'[c] = "error" /\ UNCHANGED <<got, before, committed>>
      BY <1>1, <2>8 DEF Domains, Fail, Working, trail, history
    <3>2. Ahead(c)' = ToSet(got[c])
      BY <3>1 DEF Ahead
    <3>. QED
      BY <1>3, <3>1, <3>2
  <2>. QED
    BY <1>5, <2>1, <2>3, <2>4, <2>5, <2>6, <2>7, <2>8
    DEF Acts, Handler, FindStore, Log, Commit
<1>6. wish' = wish /\ \A d \in Clients : Good(d)
  <2>1. UNCHANGED vars => wish' = wish /\ \A d \in Clients : Kept(d)
    BY DEF vars, handlers, trail, history, Kept
  <2>. QED
    BY <1>4, <1>5, <2>1, StepKinds, ClientFrame, RefreshFrame
<1>. QED
  BY <1>6 DEF FeedGoesOn

--------------------------------------------------------------------------------
(* The pages of a store's alerts *)

\* There are finitely many alerts due, and no place behind the last of them.
LEMMA Places ==
  ASSUME ReadsInv, NEW c \in Clients
  PROVE  /\ Cardinality(Due(c)) \in Nat
         /\ \A a, i : i \in Nat /\ InPlace(a, i, Due(c)) => i <= Cardinality(Due(c))
<1>1. IsFiniteSet(Due(c))
  <2>1. IsFiniteSet(alerts) /\ Due(c) \subseteq alerts
    BY ConstantsTyped, FS_Subset DEF ReadsInv, TypeOK, Due
  <2>. QED
    BY <2>1, FS_Subset
<1> DEFINE S == Due(c)
<1> HIDE DEF S
<1>2. IsFiniteSet(S) /\ Cardinality(S) \in Nat
  BY <1>1, FS_CardinalityType DEF S
<1>3. ASSUME NEW a, NEW i \in Nat, InPlace(a, i, S)
      PROVE  i <= Cardinality(S)
  <2> DEFINE T == {b \in S : ~Riskier(a, b)}
  <2>1. i <= Cardinality(T)
    BY <1>3 DEF InPlace
  <2>2. T \subseteq S
    OBVIOUS
  <2> HIDE DEF T
  <2>3. Cardinality(T) <= Cardinality(S) /\ IsFiniteSet(T)
    BY <1>2, <2>2, FS_Subset
  <2>4. Cardinality(T) \in Nat
    BY <2>3, FS_CardinalityType
  <2>. QED
    BY <1>2, <2>1, <2>3, <2>4
<1>. QED
  BY <1>2, <1>3 DEF S

\* After every step the pages of a store's alerts go on where they stopped.
LEMMA PagesStep ==
  ASSUME ReadsInv, [Next]_vars
  PROVE  PagesGoOn'
<1>1. Domains /\ PagesGoOn /\ Flow
  BY DEF ReadsInv
<1> DEFINE Shown(d, G) == \A i \in DOMAIN G : G[i] \in Due(d) /\ InPlace(G[i], i, Due(d))
           Held(d, P, from) ==
             \A i \in DOMAIN P : P[i] \in Due(d) /\ InPlace(P[i], from + i, Due(d))
           Good(d) ==
             pc'[d] # "idle" /\ wish[d].kind = "alerts" /\ ~moved'[d] =>
               /\ Shown(d, got'[d])
               /\ pc'[d] \in {"asked", "found"} \cup Holding => cursor'[d] = Len(got'[d])
               /\ pc'[d] \in Holding =>
                    /\ Held(d, page'[d], cursor'[d])
                    /\ next'[d] # None => next'[d] = cursor'[d] + Len(page'[d])
                    /\ next'[d] = None /\ ~late'[d] =>
                         cursor'[d] + Len(page'[d]) = Cardinality(Due(d))
               /\ pc'[d] = "more" => next'[d] = Len(got'[d])
               /\ pc'[d] = "done" /\ ~late'[d] => Len(got'[d]) = Cardinality(Due(d))
<1>2. ASSUME NEW d \in Clients, pc[d] # "idle", wish[d].kind = "alerts", ~moved[d]
      PROVE  /\ Shown(d, got[d])
             /\ pc[d] \in {"asked", "found"} \cup Holding => cursor[d] = Len(got[d])
             /\ pc[d] \in Holding =>
                  /\ Held(d, page[d], cursor[d])
                  /\ next[d] # None => next[d] = cursor[d] + Len(page[d])
                  /\ next[d] = None /\ ~late[d] =>
                       cursor[d] + Len(page[d]) = Cardinality(Due(d))
             /\ pc[d] = "more" => next[d] = Len(got[d])
             /\ pc[d] = "done" /\ ~late[d] => Len(got[d]) = Cardinality(Due(d))
  BY <1>1, <1>2 DEF PagesGoOn, Listing
<1>3. ASSUME NEW d \in Clients
      PROVE  /\ got[d] \in Seq(Rows) /\ page[d] \in Seq(Rows)
             /\ cursor[d] \in Nat /\ Len(got[d]) \in Nat /\ Len(page[d]) \in Nat
  BY <1>1 DEF Domains
<1> HIDE DEF Shown, Held
<1>4. ASSUME NEW d \in Clients, Kept(d), moved' = moved \/ moved'[d] \/ pc[d] = "idle"
      PROVE  Good(d)
  BY <1>2, <1>4 DEF Kept
<1>5. ASSUME NEW c \in Clients, Acts(c)
      PROVE  Good(c)
  <2> SUFFICES ASSUME wish[c].kind = "alerts", ~moved[c]
               PROVE  Good(c)
    BY <1>5, ClientFrame
  <2> USE DEF Goes
  <2>1. CASE Ask(c)
    <3>1. pc'[c] = "asked" /\ got'[c] = <<>> /\ cursor'[c] = 0
      BY <1>1, <2>1 DEF Domains, Flow, Ask
    <3>2. Shown(c, <<>>)
      BY DEF Shown
    <3>. QED
      BY <3>1, <3>2 DEF Holding
  <2>2. ASSUME NEW outcome \in Outcomes, FindStore(c, outcome)
        PROVE  Good(c)
    <3>1. pc[c] = "asked" /\ pc'[c] \in {"found", "error"} /\ UNCHANGED <<got, cursor>>
      BY <1>1, <2>2 DEF Domains, FindStore
    <3>. QED
      BY <1>2, <3>1 DEF Holding
  <2>3. ASSUME NEW outcome \in Outcomes, Query(c, outcome)
        PROVE  Good(c)
    <3>1. pc[c] = "found" /\ UNCHANGED <<got, cursor>>
      BY <2>3, QueryEffect
    <3>2. Shown(c, got[c]) /\ cursor[c] = Len(got[c])
      BY <1>2, <3>1
    <3>3. CASE Goes(c, "error")
      BY <1>1, <3>1, <3>2, <3>3 DEF Domains, Holding
    <3>4. ASSUME NEW r, Reads(c, r),
                 r \in Results(c) \/ (r.rows = <<>> /\ r.next = None /\ late'[c])
          PROVE  Good(c)
      <4>1. page'[c] = r.rows /\ next'[c] = r.next /\ pc'[c] = "read"
        BY <1>1, <3>4 DEF Reads, Domains, Audited
      <4>2. CASE r.rows = <<>> /\ r.next = None /\ late'[c]
        <5>1. Held(c, r.rows, cursor[c])
          BY <4>2 DEF Held
        <5>. QED
          BY <3>1, <3>2, <4>1, <4>2, <5>1 DEF Holding
      <4>3. CASE r \in Results(c)
        <5>1. IsPage(r, Due(c), cursor[c], wish[c].limit)
          BY <3>1, <4>3, ListingPage
        <5>2. Held(c, r.rows, cursor[c])
          BY <5>1 DEF IsPage, Held
        <5>3. cursor[c] <= Cardinality(Due(c))
          <6>1. Cardinality(Due(c)) \in Nat
            BY <3>1, Places
          <6>2. CASE cursor[c] = 0
            BY <6>1, <6>2
          <6>3. CASE cursor[c] # 0
            <7>1. cursor[c] \in DOMAIN got[c]
              BY <1>3, <3>2, <6>3
            <7>2. InPlace(got[c][cursor[c]], cursor[c], Due(c))
              BY <3>2, <7>1 DEF Shown
            <7>. QED
              BY <1>3, <7>2, Places
          <6>. QED
            BY <6>2, <6>3
        <5>4. /\ r.next # None => r.next = cursor[c] + Len(r.rows)
              /\ r.next = None => cursor[c] + Len(r.rows) = Cardinality(Due(c))
          BY <5>1, <5>3 DEF IsPage
        <5>. QED
          BY <3>1, <3>2, <4>1, <5>2, <5>4 DEF Holding
      <4>. QED
        BY <3>4, <4>2, <4>3
    <3>. QED
      BY <2>3, <3>3, <3>4, QueryEffect
  <2>4. CASE Log(c)
    <3>1. /\ pc[c] = "read" /\ pc'[c] = "logged" /\ UNCHANGED <<got, cursor, page, next, late>>
      BY <1>1, <2>4 DEF Domains, Log, history
    <3>. QED
      BY <1>2, <3>1 DEF Holding
  <2>5. CASE Commit(c)
    <3>1. /\ pc[c] = "logged" /\ pc'[c] = "committed"
          /\ UNCHANGED <<got, cursor, page, next, late>>
      BY <1>1, <2>5 DEF Domains, Commit, history
    <3>. QED
      BY <1>2, <3>1 DEF Holding
  <2>6. CASE Answer(c)
    <3>1. /\ pc[c] = "committed" /\ pc'[c] = (IF next[c] = None THEN "done" ELSE "more")
          /\ got'[c] = got[c] \o page[c] /\ UNCHANGED <<next, late>>
      BY <1>1, <2>6 DEF Domains, Answer, history
    <3>2. /\ Shown(c, got[c]) /\ cursor[c] = Len(got[c]) /\ Held(c, page[c], cursor[c])
          /\ next[c] # None => next[c] = cursor[c] + Len(page[c])
          /\ next[c] = None /\ ~late[c] => cursor[c] + Len(page[c]) = Cardinality(Due(c))
      BY <1>2, <3>1 DEF Holding
    <3>3. Len(got'[c]) = Len(got[c]) + Len(page[c])
      BY <1>3, <3>1, ConcatFacts
    <3>4. Shown(c, got'[c])
      <4> SUFFICES ASSUME NEW i \in DOMAIN got'[c]
                   PROVE  got'[c][i] \in Due(c) /\ InPlace(got'[c][i], i, Due(c))
        BY DEF Shown
      <4>1. \/ i \in DOMAIN got[c] /\ got'[c][i] = got[c][i]
            \/ /\ i \in Nat /\ i - Len(got[c]) \in DOMAIN page[c]
               /\ got'[c][i] = page[c][i - Len(got[c])]
        <5>1. \A k \in DOMAIN (got[c] \o page[c]) :
                \/ k \in DOMAIN got[c] /\ (got[c] \o page[c])[k] = got[c][k]
                \/ /\ k \in Nat /\ k - Len(got[c]) \in DOMAIN page[c]
                   /\ (got[c] \o page[c])[k] = page[c][k - Len(got[c])]
          BY <1>3, ConcatFacts
        <5>. QED
          BY <3>1, <5>1, Zenon
      <4>2. CASE i \in DOMAIN got[c] /\ got'[c][i] = got[c][i]
        BY <3>2, <4>2 DEF Shown
      <4>3. CASE /\ i \in Nat /\ i - Len(got[c]) \in DOMAIN page[c]
                 /\ got'[c][i] = page[c][i - Len(got[c])]
        <5>1. /\ page[c][i - Len(got[c])] \in Due(c)
              /\ InPlace(page[c][i - Len(got[c])], cursor[c] + (i - Len(got[c])), Due(c))
          BY <3>2, <4>3 DEF Held
        <5>2. cursor[c] + (i - Len(got[c])) = i
          BY <1>3, <3>2, <4>3
        <5>. QED
          BY <4>3, <5>1, <5>2
      <4>. QED
        BY <4>1, <4>2, <4>3
    <3>. QED
      BY <3>1, <3>2, <3>3, <3>4 DEF Holding
  <2>7. CASE Follow(c)
    <3>1. /\ pc[c] = "more" /\ pc'[c] = "asked" /\ got' = got /\ cursor'[c] = next[c]
      BY <1>1, <2>7 DEF Domains, Follow
    <3>. QED
      BY <1>2, <3>1 DEF Holding
  <2>8. CASE Fail(c)
    <3>1. pc[c] # "idle" /\ pc'[c] = "error" /\ got' = got
      BY <1>1, <2>8 DEF Domains, Fail, Working
    <3>. QED
      BY <1>2, <3>1 DEF Holding
  <2>. QED
    BY <1>5, <2>1, <2>2, <2>3, <2>4, <2>5, <2>6, <2>7, <2>8 DEF Acts, Handler, Admit
\* What is due changes with the tables only.
<1>6. /\ wish' = wish
      /\ \A d \in Clients : /\ Good(d)
                            /\ pc'[d] # "idle" /\ ~moved'[d] => Due(d)' = Due(d)
  <2>1. ASSUME wish' = wish, tables' = tables, NEW d \in Clients
        PROVE  Due(d)' = Due(d)
    BY <2>1 DEF Due, tables
  <2>2. ASSUME NEW c \in Clients, Acts(c)
        PROVE  /\ wish' = wish
               /\ \A d \in Clients : /\ Good(d)
                                     /\ pc'[d] # "idle" /\ ~moved'[d] => Due(d)' = Due(d)
    <3>1. /\ wish' = wish /\ moved' = moved /\ tables' = tables
          /\ \A d \in Clients \ {c} : Kept(d)
      BY <2>2, ClientFrame
    <3>2. \A d \in Clients \ {c} : Good(d)
      BY <1>4, <3>1
    <3>3. Good(c)
      BY <1>5, <2>2
    <3> HIDE DEF Good
    <3>. QED
      BY <2>1, <3>1, <3>2, <3>3
  <2>3. CASE Refreshes
    <3>1. wish' = wish /\ \A d \in Clients : Kept(d) /\ (moved'[d] \/ pc[d] = "idle")
      BY <2>3, RefreshFrame
    <3>2. \A d \in Clients : Good(d) /\ (moved'[d] \/ pc'[d] = "idle")
      <4> SUFFICES ASSUME NEW d \in Clients
                   PROVE  Good(d) /\ (moved'[d] \/ pc'[d] = "idle")
        OBVIOUS
      <4>1. Kept(d) /\ (moved'[d] \/ pc[d] = "idle")
        BY <3>1
      <4>2. moved'[d] \/ pc'[d] = "idle"
        BY <4>1 DEF Kept
      <4>. QED
        BY <1>4, <4>1, <4>2
    <3> HIDE DEF Good
    <3>. QED
      BY <3>1, <3>2
  <2>4. CASE UNCHANGED vars
    <3>1. wish' = wish /\ moved' = moved /\ tables' = tables /\ \A d \in Clients : Kept(d)
      BY <2>4 DEF vars, handlers, trail, history, Kept
    <3>2. \A d \in Clients : Good(d)
      BY <1>4, <3>1
    <3> HIDE DEF Good
    <3>. QED
      BY <2>1, <3>1, <3>2
  <2>. QED
    BY <2>2, <2>3, <2>4, StepKinds
<1>7. ASSUME NEW d \in Clients, Listing(d)', ~moved'[d]
      PROVE  /\ \A i \in DOMAIN got'[d] : /\ got'[d][i] \in Due(d)'
                                          /\ InPlace(got'[d][i], i, Due(d)')
             /\ pc'[d] \in {"asked", "found"} \cup Holding => cursor'[d] = Len(got'[d])
             /\ pc'[d] \in Holding =>
                  /\ \A i \in DOMAIN page'[d] :
                       /\ page'[d][i] \in Due(d)'
                       /\ InPlace(page'[d][i], cursor'[d] + i, Due(d)')
                  /\ next'[d] # None => next'[d] = cursor'[d] + Len(page'[d])
                  /\ next'[d] = None /\ ~late'[d] =>
                       cursor'[d] + Len(page'[d]) = Cardinality(Due(d)')
             /\ pc'[d] = "more" => next'[d] = Len(got'[d])
             /\ pc'[d] = "done" /\ ~late'[d] => Len(got'[d]) = Cardinality(Due(d)')
  <2>1. Good(d) /\ pc'[d] # "idle" /\ wish[d].kind = "alerts" /\ Due(d)' = Due(d)
    BY <1>6, <1>7 DEF Listing
  <2>. QED
    BY <1>7, <2>1 DEF Shown, Held
<1>. QED
  BY <1>7 DEF PagesGoOn, InPlace

--------------------------------------------------------------------------------
(* The theorems *)

\* The endpoints begin with nothing read, shown or logged.
LEMMA InitReads ==
  ASSUME Init
  PROVE  ReadsInv
<1>1. PICK start \in Starts : /\ source = start.source /\ wish = start.wish
                              /\ alerts = start.alerts /\ repOf = start.repOf
  BY DEF Init
<1>2. /\ source \in Sources /\ alerts \subseteq Alerts
      /\ repOf \in [Stores -> Reps] /\ wish \in [Clients -> Wish \cup {None}]
  BY <1>1, ConstantsTyped
<1>3. source = "mock" => \A a \in alerts : a.rep = repOf[a.store]
  BY DEF Init
<1>4. /\ pc = [c \in Clients |-> "idle"]
      /\ cursor = [c \in Clients |-> 0] /\ owner = [c \in Clients |-> None]
      /\ page = [c \in Clients |-> <<>>] /\ next = [c \in Clients |-> None]
      /\ got = [c \in Clients |-> <<>>]
      /\ log = <<>> /\ committed = {} /\ accounted = [c \in Clients |-> 0]
      /\ before = [c \in Clients |-> {}] /\ moved = [c \in Clients |-> FALSE]
      /\ late = [c \in Clients |-> FALSE] /\ refreshes = 0
  BY DEF Init
<1>5. \A c \in Clients : pc[c] = "idle"
  BY <1>4
<1>6. <<>> \in Seq(Rows) /\ log \in Seq([by : Clients, count : Nat])
  BY <1>4
<1>7. Domains
  BY <1>2, <1>4, <1>6 DEF Domains, PC
<1>8. TypeOK
  <2>1. repOf \in [Stores -> Reps \cup {None}]
    BY <1>2
  <2>2. \A c \in Clients :
          /\ wish[c] \in Wish \cup {None} /\ pc[c] \in PC
          /\ cursor[c] \in Nat /\ next[c] \in Nat \cup {None}
          /\ owner[c] \in Reps \cup {None}
    BY <1>7 DEF Domains
  <2>3. committed \subseteq DOMAIN log /\ refreshes \in 0..MaxRefreshes
    BY <1>4, ConstantsTyped
  <2>. QED
    BY <1>2, <1>5, <1>6, <2>1, <2>2, <2>3 DEF TypeOK
<1>9. Tables
  BY <1>3 DEF Tables
<1>10. Flow
  BY <1>4 DEF Flow
<1>. QED
  BY <1>5, <1>7, <1>8, <1>9, <1>10
  DEF ReadsInv, Accounts, Ownership, FeedGoesOn, PagesGoOn, Listing

\* The inductive invariant of the endpoints that show data holds always.
THEOREM ReadsCorrect == Spec => []ReadsInv
<1>1. Init => ReadsInv
  BY InitReads
<1>2. ReadsInv /\ [Next]_vars => ReadsInv'
  <2> SUFFICES ASSUME ReadsInv, [Next]_vars
               PROVE  ReadsInv'
    OBVIOUS
  <2>. QED
    BY DomainsStep, TypeStep, TablesStep, FlowStep, AccountsStep, OwnershipStep, FeedStep,
       PagesStep
    DEF ReadsInv
<1>. QED
  BY <1>1, <1>2, PTL DEF Spec

\* Requests, pages, cursors and events have their types always, and a cursor that
\* a client is given leads on.
THEOREM TypeCorrect == Spec => []TypeOK
<1>1. ReadsInv => TypeOK
  BY DEF ReadsInv
<1>. QED
  BY <1>1, ReadsCorrect, PTL

\* Whatever the adapter, the page size and the number of alerts, and however many
\* rank alike, while no table moves every alert a client is shown is due and at its
\* place, and a list that ended has as many as are due.
THEOREM PagesAreInOrder == Spec => []PagesInOrder
<1>1. ReadsInv => PagesInOrder
  BY DEF ReadsInv, PagesGoOn, PagesInOrder
<1>. QED
  BY <1>1, ReadsCorrect, PTL

\* However many events are written and committed meanwhile, in whatever order, an
\* admin who follows the cursors of the feed misses none of those there were.
THEOREM FeedIsComplete == Spec => []FeedComplete
<1>1. ReadsInv => FeedComplete
  <2> SUFFICES ASSUME ReadsInv, NEW c \in Clients, pc[c] # "idle", wish[c].kind = "feed"
               PROVE  /\ \A i \in before[c] \ ToSet(got[c]), j \in before[c] \cap ToSet(got[c]) :
                           i < j
                      /\ pc[c] = "done" => before[c] \ ToSet(got[c]) = {}
    BY DEF FeedComplete
  <2>1. /\ HoldsNewest(ToSet(got[c]), before[c])
        /\ pc[c] = "done" => before[c] \subseteq Ahead(c)
    BY DEF ReadsInv, FeedGoesOn
  <2>. QED
    BY <2>1 DEF HoldsNewest, Ahead
<1>. QED
  BY <1>1, ReadsCorrect, PTL

\* What a client has been shown is covered by committed events and his to see,
\* whatever moves between the two reads of a handler and wherever one fails.
THEOREM AnswersAreAudited == Spec => []AnswersAudited
<1>1. ReadsInv => AnswersAudited
  <2> SUFFICES ASSUME ReadsInv, NEW c \in Clients, got[c] # <<>>
               PROVE  /\ Audited(wish[c]) =>
                           /\ accounted[c] >= Len(got[c])
                           /\ pc[c] = "done" => accounted[c] = Len(got[c])
                      /\ wish[c].kind \in {"alerts", "detail", "rgm"} =>
                           StoreAccess(wish[c], owner[c])
                      /\ Listing(c) => \A i \in DOMAIN got[c] :
                           /\ got[c][i].store = wish[c].store
                           /\ wish[c].role = "rep" => got[c][i].rep = wish[c].rep
    BY DEF AnswersAudited
  <2>1. pc[c] # "idle"
    BY DEF ReadsInv, Flow
  <2> DEFINE shown == Len(got[c])
             held == Len(page[c])
             sum == accounted[c]
  <2>2. shown \in Nat /\ held \in Nat /\ sum \in Nat
    BY DEF ReadsInv, Domains
  <2>3. Audited(wish[c]) =>
          /\ pc[c] = "error" => sum >= shown
          /\ pc[c] = "committed" => sum = shown + held
          /\ pc[c] \notin {"error", "committed"} => sum = shown
    BY <2>1 DEF ReadsInv, Accounts
  <2> HIDE DEF shown, held, sum
  <2>4. Audited(wish[c]) => sum >= shown /\ (pc[c] = "done" => sum = shown)
    BY <2>2, <2>3
  <2>5. /\ wish[c].kind \in {"alerts", "detail", "rgm"} => StoreAccess(wish[c], owner[c])
        /\ wish[c].kind = "alerts" => HisOwn(wish[c], got[c])
    BY <2>1 DEF ReadsInv, Ownership, AboutStore
  <2>. QED
    BY <2>4, <2>5 DEF shown, sum, HisOwn, Listing
<1>. QED
  BY <1>1, ReadsCorrect, PTL

===============================================================================
