------------------------- MODULE QuotaLedger_proofs -------------------------
(***************************************************************************)
(* Proofs about the spend ledger, for every set of requests, every plan,   *)
(* every configuration and every calendar.                                 *)
(***************************************************************************)
EXTENDS QuotaLedger, FiniteSetTheorems, TLAPS

-----------------------------------------------------------------------------
(* What a sum of Tally does when one summand changes. *)

\* A pile of n coins of one element has n coins.
LEMMA PileCardinality ==
  ASSUME NEW x, NEW n \in Nat
  PROVE  /\ IsFiniteSet({x} \X (1..n))
         /\ Cardinality({x} \X (1..n)) = n
<1>1. IsFiniteSet({x}) /\ Cardinality({x}) = 1
  BY FS_Singleton
<1>2. IsFiniteSet(1..n) /\ Cardinality(1..n) = n
  BY FS_Interval
<1>3. /\ IsFiniteSet({x} \X (1..n))
      /\ Cardinality({x} \X (1..n)) = Cardinality({x}) * Cardinality(1..n)
  BY <1>1, <1>2, FS_Product
<1>4. QED
  BY <1>1, <1>2, <1>3

\* The coins of w are finite.
LEMMA CoinsFinite ==
  ASSUME NEW S, IsFiniteSet(S), NEW cap \in Nat, NEW w \in [S -> 0..cap]
  PROVE  IsFiniteSet(Coins(w, cap)) /\ Total(w, cap) \in Nat
<1>1. IsFiniteSet(1..cap)
  BY FS_Interval
<1>2. IsFiniteSet(S \X (1..cap))
  BY <1>1, FS_Product
<1>3. Coins(w, cap) \subseteq S \X (1..cap)
  BY DEF Coins
<1>4. IsFiniteSet(Coins(w, cap))
  BY <1>2, <1>3, FS_Subset
<1>5. QED
  BY <1>4, FS_CardinalityType DEF Total

\* A sum is at least each of its summands.
LEMMA TotalAtLeast ==
  ASSUME NEW S, IsFiniteSet(S), NEW cap \in Nat, NEW w \in [S -> 0..cap],
         NEW x \in S
  PROVE  w[x] <= Total(w, cap)
<1>1. w[x] \in Nat
  OBVIOUS
<1>2. {x} \X (1..w[x]) \subseteq Coins(w, cap)
  BY DEF Coins
<1>3. Cardinality({x} \X (1..w[x])) <= Cardinality(Coins(w, cap))
  BY <1>2, CoinsFinite, FS_Subset
<1>4. QED
  BY <1>1, <1>3, PileCardinality DEF Total

\* The sum without the coins of x.
LEMMA TotalSplit ==
  ASSUME NEW S, IsFiniteSet(S), NEW cap \in Nat, NEW w \in [S -> 0..cap],
         NEW x \in S
  PROVE  Total(w, cap) =
           Cardinality({c \in S \X (1..cap) : c[1] # x /\ c[2] <= w[c[1]]}) + w[x]
<1> DEFINE rest == {c \in S \X (1..cap) : c[1] # x /\ c[2] <= w[c[1]]}
           pile == {x} \X (1..w[x])
<1>1. w[x] \in Nat /\ w[x] <= cap
  OBVIOUS
<1>2. Coins(w, cap) = rest \cup pile
  BY <1>1 DEF Coins
<1>3. rest \cap pile = {}
  OBVIOUS
<1>4. IsFiniteSet(rest)
  <2>1. rest \subseteq Coins(w, cap)
    BY DEF Coins
  <2>2. QED
    BY <2>1, CoinsFinite, FS_Subset
<1>5. IsFiniteSet(pile) /\ Cardinality(pile) = w[x]
  BY <1>1, PileCardinality
<1>6. Cardinality(rest \cap pile) = 0
  BY <1>3, FS_EmptySet
<1>7. Cardinality(rest) \in Nat
  BY <1>4, FS_CardinalityType
<1>8. Cardinality(rest \cup pile) = Cardinality(rest) + Cardinality(pile) - Cardinality(rest \cap pile)
  BY <1>4, <1>5, FS_Union
<1>9. Cardinality(Coins(w, cap)) = Cardinality(rest) + w[x]
  BY <1>1, <1>2, <1>5, <1>6, <1>7, <1>8
<1>10. QED
  BY <1>9 DEF Total

\* Two functions that differ at x only have sums that differ by what they
\* hold at x.
THEOREM TotalChange ==
  ASSUME NEW S, IsFiniteSet(S), NEW cap \in Nat,
         NEW v \in [S -> 0..cap], NEW w \in [S -> 0..cap], NEW x \in S,
         \A y \in S \ {x} : w[y] = v[y]
  PROVE  Total(w, cap) = Total(v, cap) - v[x] + w[x]
<1> DEFINE restv == {c \in S \X (1..cap) : c[1] # x /\ c[2] <= v[c[1]]}
           restw == {c \in S \X (1..cap) : c[1] # x /\ c[2] <= w[c[1]]}
<1>1. restv = restw
  OBVIOUS
<1>2. Total(v, cap) = Cardinality(restv) + v[x]
  BY TotalSplit
<1>3. Total(w, cap) = Cardinality(restw) + w[x]
  BY TotalSplit
<1>4. Total(v, cap) \in Nat /\ Total(w, cap) \in Nat
  BY CoinsFinite
<1>5. IsFiniteSet(restv)
  <2>1. restv \subseteq Coins(v, cap)
    BY DEF Coins
  <2>2. QED
    BY <2>1, CoinsFinite, FS_Subset
<1>6. Cardinality(restv) \in Nat
  BY <1>5, FS_CardinalityType
<1>7. v[x] \in Nat /\ w[x] \in Nat
  OBVIOUS
<1> HIDE DEF restv, restw
<1>8. QED
  BY <1>1, <1>2, <1>3, <1>4, <1>6, <1>7

\* The sum of nothing is nothing.
LEMMA TotalZero ==
  ASSUME NEW S, NEW cap \in Nat, NEW w \in [S -> {0}]
  PROVE  Total(w, cap) = 0
<1>1. Coins(w, cap) = {}
  BY DEF Coins
<1>2. QED
  BY <1>1, FS_EmptySet DEF Total

-----------------------------------------------------------------------------
(* The ledger. *)

(***************************************************************************)
(* The shape of the ledger rows that typing alone does not give: a row     *)
(* that exists has its columns, a waiting request has none yet, and only a *)
(* settled or orphaned row carries a charge.                               *)
(***************************************************************************)
RowsShaped ==
  \A r \in Requests :
    /\ state[r] # "absent" => row[r] \in RowType
    /\ entry[r] # None => state[r] = "absent"
    /\ state[r] \in {"absent", "open", "rolled_back"} => charged[r] = 0

Shape == TypeOK /\ RowsShaped

LEMMA MaxIntNat == MaxInt \in Nat /\ MaxInt > 0
  BY LedgerAssumption DEF LedgerAssumption

\* A plan's reservation and units are amounts the integer columns can hold.
LEMMA PlanAmounts ==
  ASSUME NEW p \in Plans
  PROVE  /\ p \in PlanType
         /\ p.reserved \in 1..MaxInt
         /\ p.quote \in 0..MaxInt
         /\ p.provider \in Providers
         /\ UnitsOf(p) \in 0..MaxInt
         /\ HasCategory(p) => CategoryOf[p.class] \in Categories
<1>1. p \in PlanType
  BY LedgerAssumption DEF LedgerAssumption
<1>2. /\ p.reserved \in 1..MaxInt
      /\ p.quote \in 0..MaxInt
      /\ p.provider \in Providers
      /\ p.class \in InputClasses
  BY <1>1 DEF PlanType
<1>3. UnitsOf(p) \in 0..MaxInt
  BY <1>2, LedgerAssumption DEF UnitsOf, LedgerAssumption
<1>4. HasCategory(p) => CategoryOf[p.class] \in Categories
  BY <1>2 DEF HasCategory, CategoryOf, Categories, InputClasses
<1>5. QED
  BY <1>1, <1>2, <1>3, <1>4

\* The keys a row or an entry is booked under are keys of the tables.
LEMMA Keys ==
  ASSUME NEW x, x.install \in Installs, x.plan \in Plans, x.day \in Days
  PROVE  /\ MonthOf[x.day] \in Months
         /\ InstallMonth(x) \in Installs \X Months
         /\ InstallToday(x) \in Installs \X Days
         /\ ProviderToday(x) \in Providers \X Days
         /\ HasCategory(x.plan) => CategoryToday(x) \in Installs \X Categories \X Days
<1>1. MonthOf[x.day] \in Months
  BY LedgerAssumption DEF LedgerAssumption
<1>2. QED
  BY <1>1, PlanAmounts
  DEF InstallMonth, InstallToday, ProviderToday, CategoryToday

\* A limits snapshot is four non-negative limits.
LEMMA LimitAmounts ==
  ASSUME NEW l \in LimitSets
  PROVE  /\ l.monthly \in 0..MaxInt
         /\ l.wallet \in 0..MaxInt
         /\ l.sublimit \in 0..MaxInt
         /\ \A c \in Categories : l.cap[c] \in 0..MaxInt
<1>1. l \in LimitType
  BY LedgerAssumption DEF LedgerAssumption
<1>2. QED
  BY <1>1 DEF LimitType

\* Posting an amount that stays in range keeps an account an account.
LEMMA PostAccount ==
  ASSUME NEW a \in Account, NEW s \in Int, NEW n \in Int,
         a.spend + s \in 0..MaxInt, a.requests + n \in Nat
  PROVE  Post(a, s, n) \in Account
  BY DEF Post, Account

LEMMA ShapeInit == Init => Shape
<1> SUFFICES ASSUME Init PROVE Shape
  OBVIOUS
<1>1. Zero \in Account
  BY LedgerAssumption DEF Zero, Account, LedgerAssumption
<1>2. limits.wallet \in 0..MaxInt
  BY LimitAmounts DEF Init
<1>3. 0 \in 0..MaxInt
  BY LedgerAssumption DEF LedgerAssumption
<1>4. TypeOK
  BY <1>1, <1>2, <1>3 DEF Init, TypeOK
<1>5. RowsShaped
  BY DEF Init, RowsShaped
<1>6. QED
  BY <1>4, <1>5 DEF Shape

\* Updating a typed function at one of its keys keeps it typed.
LEMMA UpdateTyped ==
  ASSUME NEW S, NEW T, NEW f \in [S -> T], NEW k \in S, NEW y \in T
  PROVE  [f EXCEPT ![k] = y] \in [S -> T]
  OBVIOUS

LEMMA ShapeReserve ==
  ASSUME Shape, NEW r \in Requests, Reserve(r)
  PROVE  Shape'
<1> USE DEF Shape
<1> DEFINE e == entry[r]
<1>1. e \in EntryType /\ e.lim \in LimitSets
  BY DEF TypeOK, Reserve, EntryType
<1>2. e.install \in Installs /\ e.plan \in Plans /\ e.day \in Days
  BY <1>1 DEF EntryType
<1>3. Admits(e) /\ Book(r, e)
  BY DEF Reserve
<1> HIDE DEF e
<1>4. e.plan.reserved \in 1..MaxInt
  BY <1>2, PlanAmounts
<1>5. state' \in [Requests -> Terminal \cup {"absent", "open"}]
  BY <1>3 DEF Book, TypeOK
<1>6. /\ row' = [row EXCEPT ![r] = [install |-> e.install, plan |-> e.plan,
                                    day |-> e.day, sublimit |-> e.lim.sublimit > 0]]
      /\ row'[r] \in RowType
      /\ row' \in [Requests -> RowType \cup {None}]
  BY <1>2, <1>3 DEF Book, TypeOK, RowType
<1>7. quotaMonthly' \in [Installs \X Months -> Nat]
  BY <1>2, <1>3, Keys DEF Book, TypeOK
<1>8. installDay' \in [Installs \X Days -> Account]
  <2>1. InstallToday(e) \in Installs \X Days
    BY <1>2, Keys
  <2>2. installDay[InstallToday(e)] \in Account
    BY <2>1 DEF TypeOK
  <2>3. Post(installDay[InstallToday(e)], e.plan.reserved,
             IF e.lim.sublimit > 0 THEN 1 ELSE 0) \in Account
    BY <2>2, <1>3, <1>4, MaxIntNat DEF Admits, CeilingGate, Post, Account
  <2>4. installDay' = [installDay EXCEPT ![InstallToday(e)] =
                          Post(installDay[InstallToday(e)], e.plan.reserved,
                               IF e.lim.sublimit > 0 THEN 1 ELSE 0)]
    BY <1>3 DEF Book
  <2>5. installDay \in [Installs \X Days -> Account]
    BY DEF TypeOK
  <2>6. QED
    BY <2>1, <2>3, <2>4, <2>5, UpdateTyped
<1>9. categoryDay' \in [Installs \X Categories \X Days -> 0..MaxInt]
  <2>1. CASE ~ HasCategory(e.plan)
    BY <2>1, <1>3 DEF Book, TypeOK
  <2>2. CASE HasCategory(e.plan)
    <3>1. /\ CategoryToday(e) \in Installs \X Categories \X Days
          /\ CategoryOf[e.plan.class] \in Categories
          /\ UnitsOf(e.plan) \in 0..MaxInt
      BY <2>2, <1>2, Keys, PlanAmounts
    <3>2. categoryDay[CategoryToday(e)] \in 0..MaxInt
      BY <3>1 DEF TypeOK
    <3>3. e.lim.cap[CategoryOf[e.plan.class]] \in 0..MaxInt
      BY <3>1, <1>1, LimitAmounts
    <3>4. categoryDay[CategoryToday(e)] + UnitsOf(e.plan) \in 0..MaxInt
      BY <2>2, <3>1, <3>2, <3>3, <1>3, MaxIntNat DEF Admits, CategoryGate
    <3>5. categoryDay' = [categoryDay EXCEPT ![CategoryToday(e)] =
                            categoryDay[CategoryToday(e)] + UnitsOf(e.plan)]
      BY <2>2, <1>3 DEF Book
    <3>6. categoryDay \in [Installs \X Categories \X Days -> 0..MaxInt]
      BY DEF TypeOK
    <3>7. QED
      BY <3>1, <3>4, <3>5, <3>6, UpdateTyped
  <2>3. QED
    BY <2>1, <2>2
<1>10. providerDay' \in [Providers \X Days -> Account]
  <2>1. ProviderToday(e) \in Providers \X Days
    BY <1>2, Keys
  <2>2. providerDay[ProviderToday(e)] \in Account
    BY <2>1 DEF TypeOK
  <2>3. Post(providerDay[ProviderToday(e)], e.plan.reserved, 1) \in Account
    BY <2>2, <1>3, <1>4, MaxIntNat DEF Admits, CeilingGate, Post, Account
  <2>4. providerDay' = [providerDay EXCEPT ![ProviderToday(e)] =
                           Post(providerDay[ProviderToday(e)], e.plan.reserved, 1)]
    BY <1>3 DEF Book
  <2>5. providerDay \in [Providers \X Days -> Account]
    BY DEF TypeOK
  <2>6. QED
    BY <2>1, <2>3, <2>4, <2>5, UpdateTyped
<1>11. globalDay' \in [Days -> Account]
  <2>1. globalDay[e.day] \in Account
    BY <1>2 DEF TypeOK
  <2>2. Post(globalDay[e.day], e.plan.reserved, 1) \in Account
    BY <2>1, <1>3, <1>4, MaxIntNat DEF Admits, CeilingGate, Post, Account
  <2>3. globalDay' = [globalDay EXCEPT ![e.day] =
                         Post(globalDay[e.day], e.plan.reserved, 1)]
    BY <1>3 DEF Book
  <2>4. globalDay \in [Days -> Account]
    BY DEF TypeOK
  <2>5. QED
    BY <1>2, <2>2, <2>3, <2>4, UpdateTyped
<1>12. globalMonth' \in [Months -> Account]
  <2>1. MonthOf[e.day] \in Months
    BY <1>2, Keys
  <2>2. globalMonth[MonthOf[e.day]] \in Account
    BY <2>1 DEF TypeOK
  <2>3. e.lim.wallet \in 0..MaxInt
    BY <1>1, LimitAmounts
  <2>4. Post(globalMonth[MonthOf[e.day]], e.plan.reserved, 1) \in Account
    BY <2>2, <2>3, <1>3, <1>4, MaxIntNat DEF Admits, BudgetGate, Post, Account
  <2>5. globalMonth' = [globalMonth EXCEPT ![MonthOf[e.day]] =
                           Post(globalMonth[MonthOf[e.day]], e.plan.reserved, 1)]
    BY <1>3 DEF Book
  <2>6. globalMonth \in [Months -> Account]
    BY DEF TypeOK
  <2>7. QED
    BY <2>1, <2>4, <2>5, <2>6, UpdateTyped
<1>13. TypeOK'
  BY <1>5, <1>6, <1>7, <1>8, <1>9, <1>10, <1>11, <1>12
  DEF TypeOK, Reserve, env, scanner, history
<1>14. RowsShaped'
  <2>1. charged[r] = 0
    BY DEF RowsShaped, TypeOK, Reserve
  <2>2. QED
    BY <2>1, <1>3, <1>6 DEF RowsShaped, Reserve, Book, TypeOK
<1>15. QED
  BY <1>13, <1>14

\* The columns and keys of an open row.
LEMMA OpenRow ==
  ASSUME Shape, NEW r \in Requests, state[r] = "open"
  PROVE  /\ row[r] \in RowType
         /\ row[r].install \in Installs
         /\ row[r].plan \in Plans
         /\ row[r].day \in Days
         /\ row[r].sublimit \in BOOLEAN
         /\ row[r].plan.reserved \in 1..MaxInt
         /\ UnitsOf(row[r].plan) \in 0..MaxInt
         /\ charged[r] = 0
         /\ entry[r] = None
         /\ installDay[InstallToday(row[r])] \in Account
         /\ providerDay[ProviderToday(row[r])] \in Account
         /\ globalDay[row[r].day] \in Account
         /\ globalMonth[MonthOf[row[r].day]] \in Account
<1>1. row[r] \in RowType /\ charged[r] = 0 /\ entry[r] = None
  BY DEF Shape, RowsShaped
<1>2. /\ row[r].install \in Installs
      /\ row[r].plan \in Plans
      /\ row[r].day \in Days
      /\ row[r].sublimit \in BOOLEAN
  BY <1>1 DEF RowType
<1>3. row[r].plan.reserved \in 1..MaxInt /\ UnitsOf(row[r].plan) \in 0..MaxInt
  BY <1>2, PlanAmounts
<1>4. /\ InstallToday(row[r]) \in Installs \X Days
      /\ ProviderToday(row[r]) \in Providers \X Days
      /\ MonthOf[row[r].day] \in Months
  BY <1>2, Keys
<1>5. /\ installDay[InstallToday(row[r])] \in Account
      /\ providerDay[ProviderToday(row[r])] \in Account
      /\ globalDay[row[r].day] \in Account
      /\ globalMonth[MonthOf[row[r].day]] \in Account
  BY <1>2, <1>4 DEF Shape, TypeOK
<1>6. QED
  BY <1>1, <1>2, <1>3, <1>5

LEMMA ShapeSettle ==
  ASSUME Shape, NEW r \in Requests, NEW actual \in 0..MaxInt, Settle(r, actual)
  PROVE  Shape'
<1> DEFINE x == row[r]
           delta == actual - x.plan.reserved
<1>1. /\ state[r] = "open"
      /\ CanAdjust(x, delta)
      /\ state' = [state EXCEPT ![r] = "settled"]
      /\ charged' = [charged EXCEPT ![r] = actual]
      /\ AdjustSpend(x, delta)
      /\ UNCHANGED <<env, entry, row, scanner, history>>
  BY DEF Settle
<1>2. /\ x.install \in Installs /\ x.plan \in Plans /\ x.day \in Days
      /\ x.plan.reserved \in 1..MaxInt
      /\ installDay[InstallToday(x)] \in Account
      /\ providerDay[ProviderToday(x)] \in Account
      /\ globalDay[x.day] \in Account
      /\ globalMonth[MonthOf[x.day]] \in Account
  BY <1>1, OpenRow
<1>3. /\ InstallToday(x) \in Installs \X Days
      /\ ProviderToday(x) \in Providers \X Days
      /\ MonthOf[x.day] \in Months
  BY <1>2, Keys
<1>4. delta \in Int
  BY <1>2, MaxIntNat
<1> HIDE DEF x, delta
<1>5. /\ Post(installDay[InstallToday(x)], delta, 0) \in Account
      /\ Post(providerDay[ProviderToday(x)], delta, 0) \in Account
      /\ Post(globalDay[x.day], delta, 0) \in Account
      /\ Post(globalMonth[MonthOf[x.day]], delta, 0) \in Account
  BY <1>1, <1>2, <1>4 DEF CanAdjust, SpendAccounts, Post, Account
<1>6. /\ installDay' = [installDay EXCEPT ![InstallToday(x)] =
                           Post(installDay[InstallToday(x)], delta, 0)]
      /\ providerDay' = [providerDay EXCEPT ![ProviderToday(x)] =
                            Post(providerDay[ProviderToday(x)], delta, 0)]
      /\ globalDay' = [globalDay EXCEPT ![x.day] = Post(globalDay[x.day], delta, 0)]
      /\ globalMonth' = [globalMonth EXCEPT ![MonthOf[x.day]] =
                            Post(globalMonth[MonthOf[x.day]], delta, 0)]
      /\ UNCHANGED <<quotaMonthly, categoryDay>>
  BY <1>1 DEF AdjustSpend
<1>7. /\ installDay \in [Installs \X Days -> Account]
      /\ providerDay \in [Providers \X Days -> Account]
      /\ globalDay \in [Days -> Account]
      /\ globalMonth \in [Months -> Account]
  BY DEF Shape, TypeOK
<1>8. /\ installDay' \in [Installs \X Days -> Account]
      /\ providerDay' \in [Providers \X Days -> Account]
      /\ globalDay' \in [Days -> Account]
      /\ globalMonth' \in [Months -> Account]
  BY <1>2, <1>3, <1>5, <1>6, <1>7, UpdateTyped
<1>9. TypeOK'
  BY <1>1, <1>6, <1>8 DEF Shape, TypeOK, Terminal, env, scanner, history
<1>10. RowsShaped'
  BY <1>1 DEF Shape, TypeOK, RowsShaped
<1>11. QED
  BY <1>9, <1>10 DEF Shape

LEMMA ShapeRollback ==
  ASSUME Shape, NEW r \in Requests, Rollback(r)
  PROVE  Shape'
<1> DEFINE x == row[r]
           amt == x.plan.reserved
           n == IF x.sublimit THEN -1 ELSE 0
<1>1. /\ state[r] = "open"
      /\ CanRollback(x)
      /\ state' = [state EXCEPT ![r] = "rolled_back"]
      /\ quotaMonthly' = [quotaMonthly EXCEPT ![InstallMonth(x)] =
                             quotaMonthly[InstallMonth(x)] - 1]
      /\ installDay' = [installDay EXCEPT ![InstallToday(x)] =
                           Post(installDay[InstallToday(x)], -amt, n)]
      /\ categoryDay' = IF HasCategory(x.plan)
                         THEN [categoryDay EXCEPT ![CategoryToday(x)] =
                                 categoryDay[CategoryToday(x)] - UnitsOf(x.plan)]
                         ELSE categoryDay
      /\ providerDay' = [providerDay EXCEPT ![ProviderToday(x)] =
                            Post(providerDay[ProviderToday(x)], -amt, -1)]
      /\ globalDay' = [globalDay EXCEPT ![x.day] = Post(globalDay[x.day], -amt, -1)]
      /\ globalMonth' = [globalMonth EXCEPT ![MonthOf[x.day]] =
                            Post(globalMonth[MonthOf[x.day]], -amt, -1)]
      /\ UNCHANGED <<env, entry, row, charged, scanner, history>>
  BY DEF Rollback
<1>2. /\ x.install \in Installs /\ x.plan \in Plans /\ x.day \in Days
      /\ x.sublimit \in BOOLEAN
      /\ amt \in 1..MaxInt
      /\ UnitsOf(x.plan) \in 0..MaxInt
      /\ charged[r] = 0
      /\ installDay[InstallToday(x)] \in Account
      /\ providerDay[ProviderToday(x)] \in Account
      /\ globalDay[x.day] \in Account
      /\ globalMonth[MonthOf[x.day]] \in Account
  BY <1>1, OpenRow
<1>3. /\ InstallToday(x) \in Installs \X Days
      /\ InstallMonth(x) \in Installs \X Months
      /\ ProviderToday(x) \in Providers \X Days
      /\ MonthOf[x.day] \in Months
      /\ HasCategory(x.plan) => CategoryToday(x) \in Installs \X Categories \X Days
  BY <1>2, Keys
<1>4. amt \in Int /\ -amt \in Int
  BY <1>2, MaxIntNat
<1>a. /\ n = -1 => installDay[InstallToday(x)].requests >= 1
      /\ n \in {0, -1}
  BY <1>1, <1>2 DEF CanRollback
<1>b. \A a \in SpendAccounts(x) : a.spend + (-amt) \in 0..MaxInt
  BY <1>1 DEF CanRollback, CanAdjust
<1> HIDE DEF x, amt, n
<1>5. /\ Post(installDay[InstallToday(x)], -amt, n) \in Account
      /\ Post(providerDay[ProviderToday(x)], -amt, -1) \in Account
      /\ Post(globalDay[x.day], -amt, -1) \in Account
      /\ Post(globalMonth[MonthOf[x.day]], -amt, -1) \in Account
  BY <1>1, <1>2, <1>4, <1>a, <1>b DEF CanRollback, SpendAccounts, Post, Account
<1>6. /\ installDay \in [Installs \X Days -> Account]
      /\ providerDay \in [Providers \X Days -> Account]
      /\ globalDay \in [Days -> Account]
      /\ globalMonth \in [Months -> Account]
      /\ quotaMonthly \in [Installs \X Months -> Nat]
      /\ categoryDay \in [Installs \X Categories \X Days -> 0..MaxInt]
  BY DEF Shape, TypeOK
<1>7. /\ installDay' \in [Installs \X Days -> Account]
      /\ providerDay' \in [Providers \X Days -> Account]
      /\ globalDay' \in [Days -> Account]
      /\ globalMonth' \in [Months -> Account]
  BY <1>1, <1>2, <1>3, <1>5, <1>6, UpdateTyped
<1>8. quotaMonthly' \in [Installs \X Months -> Nat]
  <2>1. quotaMonthly[InstallMonth(x)] - 1 \in Nat
    BY <1>1, <1>3, <1>6 DEF CanRollback
  <2>2. QED
    BY <1>1, <1>3, <1>6, <2>1, UpdateTyped
<1>9. categoryDay' \in [Installs \X Categories \X Days -> 0..MaxInt]
  <2>1. CASE ~ HasCategory(x.plan)
    BY <2>1, <1>1, <1>6
  <2>2. CASE HasCategory(x.plan)
    <3>1. categoryDay[CategoryToday(x)] - UnitsOf(x.plan) \in 0..MaxInt
      BY <2>2, <1>1, <1>2, <1>3, <1>6, MaxIntNat DEF CanRollback
    <3>2. categoryDay' = [categoryDay EXCEPT ![CategoryToday(x)] =
                            categoryDay[CategoryToday(x)] - UnitsOf(x.plan)]
      BY <2>2, <1>1
    <3>3. QED
      BY <2>2, <1>3, <1>6, <3>1, <3>2, UpdateTyped
  <2>3. QED
    BY <2>1, <2>2
<1>10. TypeOK'
  BY <1>1, <1>7, <1>8, <1>9 DEF Shape, TypeOK, Terminal, env, scanner, history
<1>11. RowsShaped'
  BY <1>1, <1>2 DEF Shape, TypeOK, RowsShaped
<1>12. QED
  BY <1>10, <1>11 DEF Shape

LEMMA ShapeNext == Shape /\ [Next]_vars => Shape'
<1> SUFFICES ASSUME Shape, [Next]_vars
             PROVE  Shape'
  OBVIOUS
<1>1. ASSUME NEW r \in Requests, NEW i \in Installs, NEW p \in Plans,
             SnapshotPeriod(r, i, p)
      PROVE  Shape'
  <2>1. [install |-> i, plan |-> p, day |-> today, lim |-> None] \in EntryType
    BY DEF Shape, TypeOK, EntryType
  <2>2. TypeOK'
    BY <1>1, <2>1
    DEF SnapshotPeriod, Shape, TypeOK, env, ledger, balances, scanner, history
  <2>3. RowsShaped'
    BY <1>1 DEF SnapshotPeriod, Shape, TypeOK, RowsShaped, ledger
  <2>4. QED
    BY <2>2, <2>3 DEF Shape
<1>2. ASSUME NEW r \in Requests, SnapshotLimits(r)
      PROVE  Shape'
  <2>1. entry[r] \in EntryType /\ limits \in LimitSets
    BY <1>2 DEF SnapshotLimits, Shape, TypeOK
  <2>2. [entry[r] EXCEPT !.lim = limits] \in EntryType
    BY <2>1 DEF EntryType
  <2>3. TypeOK'
    BY <1>2, <2>2
    DEF SnapshotLimits, Shape, TypeOK, env, ledger, balances, scanner, history
  <2>4. RowsShaped'
    BY <1>2 DEF SnapshotLimits, Shape, TypeOK, RowsShaped, ledger
  <2>5. QED
    BY <2>3, <2>4 DEF Shape
<1>3. ASSUME NEW r \in Requests, ReserveFails(r)
      PROVE  Shape'
  BY <1>3
  DEF ReserveFails, Shape, TypeOK, RowsShaped, env, ledger, balances, scanner, history
<1>4. ASSUME NEW r \in Requests, Age(r)
      PROVE  Shape'
  BY <1>4 DEF Age, Shape, TypeOK, RowsShaped, env, ledger, balances, history
<1>5. ASSUME Scan
      PROVE  Shape'
  BY <1>5 DEF Scan, Shape, TypeOK, RowsShaped, env, ledger, balances, history
<1>6. ASSUME NEW r \in Requests, ReconcileOne(r)
      PROVE  Shape'
  <2>1. CASE state[r] = "open"
    <3>1. row[r].plan.reserved \in 0..MaxInt
      BY <2>1, OpenRow, MaxIntNat
    <3>2. TypeOK'
      BY <1>6, <2>1, <3>1
      DEF ReconcileOne, Shape, TypeOK, Terminal, env, balances, history
    <3>3. RowsShaped'
      BY <1>6, <2>1 DEF ReconcileOne, Shape, TypeOK, RowsShaped
    <3>4. QED
      BY <3>2, <3>3 DEF Shape
  <2>2. CASE state[r] # "open"
    BY <1>6, <2>2 DEF ReconcileOne, Shape, TypeOK, RowsShaped, env, balances, history
  <2>3. QED
    BY <2>1, <2>2
<1>7. ASSUME NEW m \in Months, ResetMonthlyRequests(m)
      PROVE  Shape'
  <2>1. quotaMonthly' \in [Installs \X Months -> Nat]
    BY <1>7 DEF ResetMonthlyRequests, Shape, TypeOK
  <2>2. QED
    BY <1>7, <2>1
    DEF ResetMonthlyRequests, Shape, TypeOK, RowsShaped, env, ledger, scanner
<1>8. ASSUME NEW l \in LimitSets, Reload(l)
      PROVE  Shape'
  <2>1. l.wallet \in 0..MaxInt
    BY LimitAmounts
  <2>2. QED
    BY <1>8, <2>1
    DEF Reload, Shape, TypeOK, RowsShaped, ledger, balances, scanner
<1>9. ASSUME NextDay
      PROVE  Shape'
  BY <1>9
  DEF NextDay, Shape, TypeOK, RowsShaped, ledger, balances, scanner, history
<1>10. ASSUME Crash
       PROVE  Shape'
  BY <1>10 DEF Crash, Shape, TypeOK, RowsShaped, env, ledger, balances, history
<1>11. ASSUME UNCHANGED vars
       PROVE  Shape'
  BY <1>11
  DEF vars, env, ledger, balances, scanner, history, Shape, TypeOK, RowsShaped
<1>12. QED
  BY <1>1, <1>2, <1>3, <1>4, <1>5, <1>6, <1>7, <1>8, <1>9, <1>10, <1>11,
     ShapeReserve, ShapeSettle, ShapeRollback
  DEF Next

(***************************************************************************)
(* Type correctness of the ledger: no column of spend_ledger or of a       *)
(* balance table ever leaves 0..MaxInt, because every UPDATE carries its   *)
(* own bound (the ceiling gates, the wallet gate, the adjustment guards).  *)
(***************************************************************************)
THEOREM LedgerTypeCorrect == Spec => []TypeOK
<1>1. Init => Shape
  BY ShapeInit
<1>2. Shape /\ [Next]_vars => Shape'
  BY ShapeNext
<1>3. Shape => TypeOK
  BY DEF Shape
<1>4. QED
  BY <1>1, <1>2, <1>3, PTL DEF Spec

(***************************************************************************)
(* One terminal winner: Settle, Rollback and the reconciler all leave from *)
(* "open", and a waiting request has no row yet, so no step touches a      *)
(* closed row.                                                             *)
(***************************************************************************)
THEOREM TerminalIsFinal == Spec => OneTerminalWinner
<1> DEFINE Frozen == \A r \in Requests : state[r] \in Terminal =>
                       state'[r] = state[r] /\ charged'[r] = charged[r] /\ row'[r] = row[r]
<1>1. Shape /\ [Next]_vars => [Frozen]_vars
  <2> SUFFICES ASSUME Shape, Next PROVE Frozen
    OBVIOUS
  <2>1. ASSUME NEW r \in Requests, Reserve(r)
        PROVE  Frozen
    <3>1. state[r] = "absent"
      BY <2>1 DEF Reserve, Shape, RowsShaped
    <3>2. QED
      BY <2>1, <3>1 DEF Reserve, Book, Shape, TypeOK, Terminal
  <2>2. ASSUME NEW r \in Requests, NEW actual \in 0..MaxInt, Settle(r, actual)
        PROVE  Frozen
    BY <2>2 DEF Settle, Shape, TypeOK, Terminal
  <2>3. ASSUME NEW r \in Requests, Rollback(r)
        PROVE  Frozen
    BY <2>3 DEF Rollback, Shape, TypeOK, Terminal
  <2>4. ASSUME NEW r \in Requests, ReconcileOne(r)
        PROVE  Frozen
    BY <2>4 DEF ReconcileOne, Shape, TypeOK, Terminal
  <2>5. CASE UNCHANGED ledger
    BY <2>5 DEF ledger
  <2>6. QED
    BY <2>1, <2>2, <2>3, <2>4, <2>5
    DEF Next, SnapshotPeriod, SnapshotLimits, ReserveFails, Age, Scan,
        ResetMonthlyRequests, Reload, NextDay, Crash
<1>2. QED
  BY <1>1, ShapeInit, ShapeNext, PTL DEF Spec, OneTerminalWinner

-----------------------------------------------------------------------------
(***************************************************************************)
(* Conservation.  A step changes the weight of one row only, so the sum    *)
(* over the rows booked under a key moves by that row's change if the row  *)
(* is booked under the key and stays put otherwise.                        *)
(***************************************************************************)
LEMMA SumMove ==
  ASSUME NEW v \in [Requests -> 0..MaxInt], NEW w \in [Requests -> 0..MaxInt],
         NEW r \in Requests, NEW R \in SUBSET Requests, NEW Q \in SUBSET Requests,
         \A q \in Requests \ {r} : w[q] = v[q] /\ (q \in Q <=> q \in R),
         r \in R => r \in Q,
         r \in Q \ R => v[r] = 0
  PROVE  SumOver(Q, w) = SumOver(R, v) + (IF r \in Q THEN w[r] - v[r] ELSE 0)
<1> DEFINE f == [q \in Requests |-> IF q \in R THEN v[q] ELSE 0]
           g == [q \in Requests |-> IF q \in Q THEN w[q] ELSE 0]
<1>1. IsFiniteSet(Requests) /\ MaxInt \in Nat
  BY LedgerAssumption DEF LedgerAssumption
<1>2. f \in [Requests -> 0..MaxInt] /\ g \in [Requests -> 0..MaxInt]
  BY <1>1
<1>3. \A q \in Requests \ {r} : g[q] = f[q]
  OBVIOUS
<1>4. Total(g, MaxInt) = Total(f, MaxInt) - f[r] + g[r]
  <2> HIDE DEF f, g
  <2>1. QED
    BY <1>1, <1>2, <1>3, TotalChange
<1>5. Total(f, MaxInt) \in Nat
  <2> HIDE DEF f
  <2>1. QED
    BY <1>1, <1>2, CoinsFinite
<1>6. SumOver(Q, w) = Total(g, MaxInt) /\ SumOver(R, v) = Total(f, MaxInt)
  BY DEF SumOver
<1>7. f[r] = (IF r \in R THEN v[r] ELSE 0) /\ g[r] = (IF r \in Q THEN w[r] ELSE 0)
  OBVIOUS
<1>8. v[r] \in Int /\ w[r] \in Int
  BY <1>1
<1>9. QED
  <2> HIDE DEF f, g
  <2>1. QED
    BY <1>4, <1>5, <1>6, <1>7, <1>8

CostOf == [q \in Requests |-> Cost(q)]

LEMMA CostTyped == Shape => CostOf \in [Requests -> 0..MaxInt]
<1> SUFFICES ASSUME Shape PROVE CostOf \in [Requests -> 0..MaxInt]
  OBVIOUS
<1>1. ASSUME NEW q \in Requests PROVE Cost(q) \in 0..MaxInt
  <2>1. CASE state[q] = "open"
    BY <2>1, OpenRow, MaxIntNat DEF Cost
  <2>2. CASE state[q] # "open"
    BY <2>2 DEF Cost, Shape, TypeOK
  <2>3. QED
    BY <2>1, <2>2
<1>2. QED
  BY <1>1 DEF CostOf

LEMMA SpendInit == Init => SpendConserved
<1> SUFFICES ASSUME Init PROVE SpendConserved
  OBVIOUS
<1>1. ASSUME NEW R PROVE SpendIn(R) = 0
  <2>1. [q \in Requests |-> IF q \in R THEN CostOf[q] ELSE 0] \in [Requests -> {0}]
    BY DEF CostOf, Cost, Init
  <2>2. QED
    BY <2>1, TotalZero, MaxIntNat DEF SpendIn, SumOver, CostOf
<1>2. QED
  BY <1>1, LedgerAssumption DEF SpendConserved, Init, Zero

(***************************************************************************)
(* What one step does to the spend columns: row r moves from cost Cost(r)  *)
(* to Cost(r)', every other row stays, and the columns of r's keys move by *)
(* the difference.                                                         *)
(***************************************************************************)
OnlyRow(r) ==
  /\ \A q \in Requests \ {r} :
       state'[q] = state[q] /\ row'[q] = row[q] /\ charged'[q] = charged[q]
  /\ state'[r] # "absent"
  /\ state[r] # "absent" => row'[r] = row[r]

Moves(r, delta) ==
  /\ \A i \in Installs, d \in Days :
       installDay'[<<i, d>>].spend = installDay[<<i, d>>].spend
         + (IF <<i, d>> = InstallToday(row[r])' THEN delta ELSE 0)
  /\ \A v \in Providers, d \in Days :
       providerDay'[<<v, d>>].spend = providerDay[<<v, d>>].spend
         + (IF <<v, d>> = ProviderToday(row[r])' THEN delta ELSE 0)
  /\ \A d \in Days :
       globalDay'[d].spend = globalDay[d].spend
         + (IF d = row'[r].day THEN delta ELSE 0)
  /\ \A m \in Months :
       globalMonth'[m].spend = globalMonth[m].spend
         + (IF m = MonthOf[row'[r].day] THEN delta ELSE 0)

LEMMA SpendMoves ==
  ASSUME Shape, Shape', SpendConserved, NEW r \in Requests, OnlyRow(r),
         Moves(r, Cost(r)' - Cost(r))
  PROVE  SpendConserved'
<1>1. CostOf \in [Requests -> 0..MaxInt]
  BY CostTyped
<1>2. (CostOf \in [Requests -> 0..MaxInt])'
  BY CostTyped, PTL
<1>3. \A q \in Requests \ {r} : CostOf'[q] = CostOf[q]
  BY DEF CostOf, Cost, OnlyRow
<1>4. state[r] = "absent" => Cost(r) = 0
  BY DEF Cost, Shape, RowsShaped
<1>5. ASSUME NEW R, NEW Q, R \subseteq Requests, Q \subseteq Requests,
             \A q \in Requests \ {r} : q \in Q <=> q \in R,
             r \in R => r \in Q, r \in Q \ R => state[r] = "absent"
      PROVE  SumOver(Q, CostOf') =
               SumOver(R, CostOf) + (IF r \in Q THEN Cost(r)' - Cost(r) ELSE 0)
  <2>1. CostOf[r] = Cost(r) /\ CostOf'[r] = Cost(r)'
    BY DEF CostOf
  <2>2. r \in Q \ R => CostOf[r] = 0
    BY <1>4, <1>5, <2>1
  <2>3. SumOver(Q, CostOf') =
          SumOver(R, CostOf) + (IF r \in Q THEN CostOf'[r] - CostOf[r] ELSE 0)
    BY <1>1, <1>2, <1>3, <1>5, <2>2, SumMove
  <2>4. QED
    BY <2>1, <2>3
<1>6. ASSUME NEW i \in Installs, NEW d \in Days
      PROVE  (installDay[<<i, d>>].spend = SpendIn({q \in Rows : InstallToday(row[q]) = <<i, d>>}))'
  <2> DEFINE R == {q \in Rows : InstallToday(row[q]) = <<i, d>>}
             Q == {q \in Rows' : InstallToday(row[q])' = <<i, d>>}
  <2>1. SumOver(Q, CostOf') =
          SumOver(R, CostOf) + (IF r \in Q THEN Cost(r)' - Cost(r) ELSE 0)
    BY <1>5 DEF Rows, OnlyRow, InstallToday
  <2>2. r \in Q <=> <<i, d>> = InstallToday(row[r])'
    BY DEF Rows, OnlyRow
  <2>3. installDay[<<i, d>>].spend = SumOver(R, CostOf)
    BY <1>6 DEF SpendConserved, SpendIn, CostOf
  <2>4. installDay'[<<i, d>>].spend = SumOver(Q, CostOf')
    BY <1>6, <2>1, <2>2, <2>3 DEF Moves
  <2>5. QED
    BY <2>4 DEF SpendIn, CostOf, SumOver
<1>7. ASSUME NEW v \in Providers, NEW d \in Days
      PROVE  (providerDay[<<v, d>>].spend = SpendIn({q \in Rows : ProviderToday(row[q]) = <<v, d>>}))'
  <2> DEFINE R == {q \in Rows : ProviderToday(row[q]) = <<v, d>>}
             Q == {q \in Rows' : ProviderToday(row[q])' = <<v, d>>}
  <2>1. SumOver(Q, CostOf') =
          SumOver(R, CostOf) + (IF r \in Q THEN Cost(r)' - Cost(r) ELSE 0)
    BY <1>5 DEF Rows, OnlyRow, ProviderToday
  <2>2. r \in Q <=> <<v, d>> = ProviderToday(row[r])'
    BY DEF Rows, OnlyRow
  <2>3. providerDay[<<v, d>>].spend = SumOver(R, CostOf)
    BY <1>7 DEF SpendConserved, SpendIn, CostOf
  <2>4. providerDay'[<<v, d>>].spend = SumOver(Q, CostOf')
    BY <1>7, <2>1, <2>2, <2>3 DEF Moves
  <2>5. QED
    BY <2>4 DEF SpendIn, CostOf, SumOver
<1>8. ASSUME NEW d \in Days
      PROVE  (globalDay[d].spend = SpendIn({q \in Rows : row[q].day = d}))'
  <2> DEFINE R == {q \in Rows : row[q].day = d}
             Q == {q \in Rows' : row'[q].day = d}
  <2>1. SumOver(Q, CostOf') =
          SumOver(R, CostOf) + (IF r \in Q THEN Cost(r)' - Cost(r) ELSE 0)
    BY <1>5 DEF Rows, OnlyRow
  <2>2. r \in Q <=> d = row'[r].day
    BY DEF Rows, OnlyRow
  <2>3. globalDay[d].spend = SumOver(R, CostOf)
    BY <1>8 DEF SpendConserved, SpendIn, CostOf
  <2>4. globalDay'[d].spend = SumOver(Q, CostOf')
    BY <1>8, <2>1, <2>2, <2>3 DEF Moves
  <2>5. QED
    BY <2>4 DEF SpendIn, CostOf, SumOver
<1>9. ASSUME NEW m \in Months
      PROVE  (globalMonth[m].spend = SpendIn({q \in Rows : MonthOf[row[q].day] = m}))'
  <2> DEFINE R == {q \in Rows : MonthOf[row[q].day] = m}
             Q == {q \in Rows' : MonthOf[row'[q].day] = m}
  <2>1. SumOver(Q, CostOf') =
          SumOver(R, CostOf) + (IF r \in Q THEN Cost(r)' - Cost(r) ELSE 0)
    BY <1>5 DEF Rows, OnlyRow
  <2>2. r \in Q <=> m = MonthOf[row'[r].day]
    BY DEF Rows, OnlyRow
  <2>3. globalMonth[m].spend = SumOver(R, CostOf)
    BY <1>9 DEF SpendConserved, SpendIn, CostOf
  <2>4. globalMonth'[m].spend = SumOver(Q, CostOf')
    BY <1>9, <2>1, <2>2, <2>3 DEF Moves
  <2>5. QED
    BY <2>4 DEF SpendIn, CostOf, SumOver
<1>10. QED
  BY <1>6, <1>7, <1>8, <1>9 DEF SpendConserved

LEMMA ReserveMoves ==
  ASSUME Shape, NEW r \in Requests, Reserve(r)
  PROVE  /\ OnlyRow(r)
         /\ Moves(r, entry[r].plan.reserved)
         /\ Cost(r)' - Cost(r) = entry[r].plan.reserved
         /\ state[r] = "absent"
         /\ state' = [state EXCEPT ![r] = "open"]
         /\ entry[r] \in EntryType
         /\ entry[r].plan.reserved \in 1..MaxInt
         /\ row'[r].day = entry[r].day /\ row'[r].plan = entry[r].plan
<1> DEFINE e == entry[r]
<1>1. e \in EntryType /\ state[r] = "absent" /\ charged[r] = 0
  BY DEF Shape, TypeOK, RowsShaped, Reserve
<1>2. e.install \in Installs /\ e.plan \in Plans /\ e.day \in Days
  BY <1>1 DEF EntryType
<1>3. /\ InstallToday(e) \in Installs \X Days
      /\ ProviderToday(e) \in Providers \X Days
      /\ MonthOf[e.day] \in Months
      /\ e.plan.reserved \in 1..MaxInt
      /\ e.plan.reserved \in Int
  BY <1>2, Keys, PlanAmounts, MaxIntNat
<1>4. /\ row' = [row EXCEPT ![r] = [install |-> e.install, plan |-> e.plan,
                                    day |-> e.day, sublimit |-> e.lim.sublimit > 0]]
      /\ state' = [state EXCEPT ![r] = "open"]
      /\ charged' = charged
      /\ installDay' = [installDay EXCEPT ![InstallToday(e)] =
                          Post(installDay[InstallToday(e)], e.plan.reserved,
                               IF e.lim.sublimit > 0 THEN 1 ELSE 0)]
      /\ providerDay' = [providerDay EXCEPT ![ProviderToday(e)] =
                           Post(providerDay[ProviderToday(e)], e.plan.reserved, 1)]
      /\ globalDay' = [globalDay EXCEPT ![e.day] =
                         Post(globalDay[e.day], e.plan.reserved, 1)]
      /\ globalMonth' = [globalMonth EXCEPT ![MonthOf[e.day]] =
                           Post(globalMonth[MonthOf[e.day]], e.plan.reserved, 1)]
  BY DEF Reserve, Book
<1> HIDE DEF e
<1>5. /\ row'[r].day = e.day /\ row'[r].plan = e.plan
      /\ InstallToday(row[r])' = InstallToday(e)
      /\ ProviderToday(row[r])' = ProviderToday(e)
  BY <1>4 DEF Shape, TypeOK, InstallToday, ProviderToday
<1>6. OnlyRow(r)
  BY <1>1, <1>4 DEF OnlyRow, Shape, TypeOK
<1>7. Cost(r)' - Cost(r) = e.plan.reserved
  BY <1>1, <1>3, <1>4, <1>5 DEF Cost, Shape, TypeOK
<1>8. Moves(r, e.plan.reserved)
  <2>1. /\ installDay \in [Installs \X Days -> Account]
        /\ providerDay \in [Providers \X Days -> Account]
        /\ globalDay \in [Days -> Account]
        /\ globalMonth \in [Months -> Account]
    BY DEF Shape, TypeOK
  <2>2. ASSUME NEW k \in Installs \X Days
        PROVE  installDay'[k].spend = installDay[k].spend
                 + (IF k = InstallToday(e) THEN e.plan.reserved ELSE 0)
    BY <1>2, <1>3, <1>4, <2>1 DEF Post, Account
  <2>3. ASSUME NEW k \in Providers \X Days
        PROVE  providerDay'[k].spend = providerDay[k].spend
                 + (IF k = ProviderToday(e) THEN e.plan.reserved ELSE 0)
    BY <1>2, <1>3, <1>4, <2>1 DEF Post, Account
  <2>4. ASSUME NEW d \in Days
        PROVE  globalDay'[d].spend = globalDay[d].spend
                 + (IF d = e.day THEN e.plan.reserved ELSE 0)
    BY <1>2, <1>3, <1>4, <2>1 DEF Post, Account
  <2>5. ASSUME NEW m \in Months
        PROVE  globalMonth'[m].spend = globalMonth[m].spend
                 + (IF m = MonthOf[e.day] THEN e.plan.reserved ELSE 0)
    BY <1>2, <1>3, <1>4, <2>1 DEF Post, Account
  <2>6. QED
    BY <1>5, <2>2, <2>3, <2>4, <2>5 DEF Moves
<1>9. QED
  BY <1>1, <1>3, <1>4, <1>5, <1>6, <1>7, <1>8 DEF e

LEMMA SpendReserve ==
  ASSUME Shape, Shape', SpendConserved, NEW r \in Requests, Reserve(r)
  PROVE  SpendConserved'
  BY ReserveMoves, SpendMoves

(***************************************************************************)
(* Settle and Rollback post one delta to the four spend columns of the     *)
(* row's keys; n1, n2 are what they post to the request counters.          *)
(***************************************************************************)
LEMMA PostMoves ==
  ASSUME Shape, NEW r \in Requests, state[r] = "open", row' = row,
         NEW delta \in Int, NEW n1, NEW n2,
         installDay' = [installDay EXCEPT ![InstallToday(row[r])] =
                          Post(installDay[InstallToday(row[r])], delta, n1)],
         providerDay' = [providerDay EXCEPT ![ProviderToday(row[r])] =
                           Post(providerDay[ProviderToday(row[r])], delta, n2)],
         globalDay' = [globalDay EXCEPT ![row[r].day] =
                         Post(globalDay[row[r].day], delta, n2)],
         globalMonth' = [globalMonth EXCEPT ![MonthOf[row[r].day]] =
                           Post(globalMonth[MonthOf[row[r].day]], delta, n2)]
  PROVE  Moves(r, delta)
<1> DEFINE x == row[r]
<1>1. x.install \in Installs /\ x.plan \in Plans /\ x.day \in Days
  BY OpenRow
<1>2. /\ InstallToday(x) \in Installs \X Days
      /\ ProviderToday(x) \in Providers \X Days
      /\ MonthOf[x.day] \in Months
  BY <1>1, Keys
<1>3. /\ InstallToday(row[r])' = InstallToday(x)
      /\ ProviderToday(row[r])' = ProviderToday(x)
      /\ row'[r].day = x.day
  BY DEF InstallToday, ProviderToday
<1> HIDE DEF x
<1>4. /\ installDay \in [Installs \X Days -> Account]
      /\ providerDay \in [Providers \X Days -> Account]
      /\ globalDay \in [Days -> Account]
      /\ globalMonth \in [Months -> Account]
  BY DEF Shape, TypeOK
<1>5. /\ installDay' = [installDay EXCEPT ![InstallToday(x)] =
                          Post(installDay[InstallToday(x)], delta, n1)]
      /\ providerDay' = [providerDay EXCEPT ![ProviderToday(x)] =
                           Post(providerDay[ProviderToday(x)], delta, n2)]
      /\ globalDay' = [globalDay EXCEPT ![x.day] = Post(globalDay[x.day], delta, n2)]
      /\ globalMonth' = [globalMonth EXCEPT ![MonthOf[x.day]] =
                           Post(globalMonth[MonthOf[x.day]], delta, n2)]
  BY DEF x
<1>6. ASSUME NEW k \in Installs \X Days
      PROVE  installDay'[k].spend = installDay[k].spend
               + (IF k = InstallToday(x) THEN delta ELSE 0)
  BY <1>1, <1>2, <1>4, <1>5 DEF Post, Account
<1>7. ASSUME NEW k \in Providers \X Days
      PROVE  providerDay'[k].spend = providerDay[k].spend
               + (IF k = ProviderToday(x) THEN delta ELSE 0)
  BY <1>1, <1>2, <1>4, <1>5 DEF Post, Account
<1>8. ASSUME NEW d \in Days
      PROVE  globalDay'[d].spend = globalDay[d].spend
               + (IF d = x.day THEN delta ELSE 0)
  BY <1>1, <1>2, <1>4, <1>5 DEF Post, Account
<1>9. ASSUME NEW m \in Months
      PROVE  globalMonth'[m].spend = globalMonth[m].spend
               + (IF m = MonthOf[x.day] THEN delta ELSE 0)
  BY <1>1, <1>2, <1>4, <1>5 DEF Post, Account
<1>10. QED
  BY <1>3, <1>6, <1>7, <1>8, <1>9 DEF Moves

LEMMA SettleMoves ==
  ASSUME Shape, NEW r \in Requests, NEW actual \in 0..MaxInt, Settle(r, actual)
  PROVE  /\ OnlyRow(r)
         /\ Moves(r, actual - row[r].plan.reserved)
         /\ Cost(r)' - Cost(r) = actual - row[r].plan.reserved
         /\ actual - row[r].plan.reserved \in Int
<1>1. /\ state[r] = "open"
      /\ state' = [state EXCEPT ![r] = "settled"]
      /\ charged' = [charged EXCEPT ![r] = actual]
      /\ AdjustSpend(row[r], actual - row[r].plan.reserved)
      /\ row' = row
  BY DEF Settle
<1>2. actual - row[r].plan.reserved \in Int
  BY <1>1, OpenRow, MaxIntNat
<1>3. OnlyRow(r)
  BY <1>1 DEF OnlyRow, Shape, TypeOK
<1>4. Cost(r)' - Cost(r) = actual - row[r].plan.reserved
  BY <1>1 DEF Cost, Shape, TypeOK
<1>5. Moves(r, actual - row[r].plan.reserved)
  BY <1>1, <1>2, PostMoves DEF AdjustSpend
<1>6. QED
  BY <1>2, <1>3, <1>4, <1>5

LEMMA SpendSettle ==
  ASSUME Shape, Shape', SpendConserved, NEW r \in Requests,
         NEW actual \in 0..MaxInt, Settle(r, actual)
  PROVE  SpendConserved'
  BY SettleMoves, SpendMoves

LEMMA RollbackMoves ==
  ASSUME Shape, NEW r \in Requests, Rollback(r)
  PROVE  /\ OnlyRow(r)
         /\ Moves(r, -row[r].plan.reserved)
         /\ Cost(r)' - Cost(r) = -row[r].plan.reserved
         /\ -row[r].plan.reserved \in Int
<1>1. /\ state[r] = "open"
      /\ state' = [state EXCEPT ![r] = "rolled_back"]
      /\ charged' = charged
      /\ row' = row
  BY DEF Rollback
<1>2. row[r].plan.reserved \in Int /\ -row[r].plan.reserved \in Int /\ charged[r] = 0
  BY <1>1, OpenRow, MaxIntNat
<1>3. OnlyRow(r)
  BY <1>1 DEF OnlyRow, Shape, TypeOK
<1>4. Cost(r)' - Cost(r) = -row[r].plan.reserved
  BY <1>1, <1>2 DEF Cost, Shape, TypeOK
<1>5. Moves(r, -row[r].plan.reserved)
  BY <1>1, <1>2, PostMoves DEF Rollback
<1>6. QED
  BY <1>2, <1>3, <1>4, <1>5

LEMMA SpendRollback ==
  ASSUME Shape, Shape', SpendConserved, NEW r \in Requests, Rollback(r)
  PROVE  SpendConserved'
  BY RollbackMoves, SpendMoves

LEMMA SpendReconcile ==
  ASSUME Shape, Shape', SpendConserved, NEW r \in Requests, ReconcileOne(r)
  PROVE  SpendConserved'
<1>1. row' = row /\ UNCHANGED balances
  BY DEF ReconcileOne
<1>2. CASE state[r] = "open"
  <2>1. /\ state' = [state EXCEPT ![r] = "orphaned"]
        /\ charged' = [charged EXCEPT ![r] = row[r].plan.reserved]
    BY <1>2 DEF ReconcileOne
  <2>2. OnlyRow(r)
    BY <1>1, <1>2, <2>1 DEF OnlyRow, Shape, TypeOK
  <2>3. row[r].plan.reserved \in Int
    BY <1>2, OpenRow, MaxIntNat
  <2>4. Cost(r)' - Cost(r) = 0
    BY <1>1, <1>2, <2>1, <2>3 DEF Cost, Shape, TypeOK
  <2>5. Moves(r, 0)
    BY <1>1 DEF Moves, balances, Shape, TypeOK, Account
  <2>6. QED
    BY <2>2, <2>4, <2>5, SpendMoves
<1>3. CASE state[r] # "open"
  <2>1. UNCHANGED <<state, charged>>
    BY <1>3 DEF ReconcileOne
  <2>2. QED
    BY <1>1, <2>1
    DEF SpendConserved, SpendIn, Cost, Rows, balances, InstallToday, ProviderToday
<1>4. QED
  BY <1>2, <1>3

LEMMA SpendNext == Shape /\ Shape' /\ SpendConserved /\ [Next]_vars => SpendConserved'
<1> SUFFICES ASSUME Shape, Shape', SpendConserved, [Next]_vars
             PROVE  SpendConserved'
  OBVIOUS
<1>1. CASE UNCHANGED <<ledger, installDay, providerDay, globalDay, globalMonth>>
  BY <1>1
  DEF SpendConserved, SpendIn, Cost, Rows, ledger, InstallToday, ProviderToday
<1>2. QED
  BY <1>1, SpendReserve, SpendSettle, SpendRollback, SpendReconcile
  DEF Next, vars, balances, SnapshotPeriod, SnapshotLimits, ReserveFails, Age,
      Scan, ResetMonthlyRequests, Reload, NextDay, Crash

(***************************************************************************)
(* Spend conservation: through every interleaving of reservations,         *)
(* settlements, rollbacks, reconciler visits, hot reloads, rollovers and   *)
(* crashes, each spend column is exactly the sum of the costs of the       *)
(* ledger rows booked under its key.                                       *)
(***************************************************************************)
THEOREM SpendIsConserved == Spec => []SpendConserved
<1>1. Init => Shape /\ SpendConserved
  BY ShapeInit, SpendInit
<1>2. Shape /\ SpendConserved /\ [Next]_vars => (Shape /\ SpendConserved)'
  BY ShapeNext, SpendNext
<1>3. QED
  BY <1>1, <1>2, PTL DEF Spec

-----------------------------------------------------------------------------
(***************************************************************************)
(* Usage.  The same argument for the request counters, the category units  *)
(* and the monthly entitlements.  A reset forgives closed rows only, since *)
(* it is refused while a row is open: the rows that may still be rolled    *)
(* back are all counted.                                                   *)
(***************************************************************************)
ForgivenClosed == \A r \in forgiven : state[r] \in Terminal

CountOf == [q \in Requests |-> IF Counts(q) THEN 1 ELSE 0]

UnitOf == [q \in Requests |-> IF Counts(q) THEN UnitsOf(row[q].plan) ELSE 0]

LEMMA UsageTyped ==
  ASSUME Shape
  PROVE  CountOf \in [Requests -> 0..MaxInt] /\ UnitOf \in [Requests -> 0..MaxInt]
<1>1. 0 \in 0..MaxInt /\ 1 \in 0..MaxInt
  BY MaxIntNat
<1>2. ASSUME NEW q \in Requests, Counts(q) PROVE UnitsOf(row[q].plan) \in 0..MaxInt
  <2>1. row[q] \in RowType
    BY <1>2 DEF Shape, RowsShaped, Counts
  <2>2. QED
    BY <2>1, PlanAmounts DEF RowType
<1>3. QED
  BY <1>1, <1>2 DEF CountOf, UnitOf

LEMMA UsageInit == Init => UsageConserved /\ ForgivenClosed
<1> SUFFICES ASSUME Init PROVE UsageConserved /\ ForgivenClosed
  OBVIOUS
<1>1. ASSUME NEW R PROVE CountIn(R) = 0 /\ UnitsIn(R) = 0
  <2>1. /\ [q \in Requests |-> IF q \in R THEN CountOf[q] ELSE 0] \in [Requests -> {0}]
        /\ [q \in Requests |-> IF q \in R THEN UnitOf[q] ELSE 0] \in [Requests -> {0}]
    BY DEF CountOf, UnitOf, Counts, Init
  <2>2. QED
    BY <2>1, TotalZero, MaxIntNat DEF CountIn, UnitsIn, SumOver, CountOf, UnitOf
<1>2. CountsConserved
  BY <1>1, LedgerAssumption DEF CountsConserved, Init, Zero
<1>3. UnitsConserved /\ EntitlementConserved /\ ForgivenClosed
  BY <1>1 DEF UnitsConserved, EntitlementConserved, ForgivenClosed, Init
<1>4. QED
  BY <1>2, <1>3 DEF UsageConserved

\* What one step does to the counters when row r's count moves by n and its
\* units by u.
UsageMoves(r, n, u) ==
  /\ \A i \in Installs, d \in Days :
       installDay'[<<i, d>>].requests = installDay[<<i, d>>].requests
         + (IF <<i, d>> = InstallToday(row[r])' /\ row'[r].sublimit THEN n ELSE 0)
  /\ \A v \in Providers, d \in Days :
       providerDay'[<<v, d>>].requests = providerDay[<<v, d>>].requests
         + (IF <<v, d>> = ProviderToday(row[r])' THEN n ELSE 0)
  /\ \A d \in Days :
       globalDay'[d].requests = globalDay[d].requests
         + (IF d = row'[r].day THEN n ELSE 0)
  /\ \A m \in Months :
       globalMonth'[m].requests = globalMonth[m].requests
         + (IF m = MonthOf[row'[r].day] THEN n ELSE 0)
  /\ \A i \in Installs, c \in Categories, d \in Days :
       categoryDay'[<<i, c, d>>] = categoryDay[<<i, c, d>>]
         + (IF HasCategory(row'[r].plan) /\ <<i, c, d>> = CategoryToday(row[r])'
            THEN u ELSE 0)
  /\ \A i \in Installs, m \in Months :
       quotaMonthly'[<<i, m>>] = quotaMonthly[<<i, m>>]
         + (IF <<i, m>> = InstallMonth(row[r])' THEN n ELSE 0)

LEMMA UsageStep ==
  ASSUME Shape, Shape', UsageConserved, NEW r \in Requests, OnlyRow(r),
         forgiven' = forgiven, r \notin forgiven,
         UsageMoves(r, CountOf'[r] - CountOf[r], UnitOf'[r] - UnitOf[r])
  PROVE  UsageConserved'
<1> DEFINE n == CountOf'[r] - CountOf[r]
           u == UnitOf'[r] - UnitOf[r]
<1>1. CountOf \in [Requests -> 0..MaxInt] /\ UnitOf \in [Requests -> 0..MaxInt]
  BY UsageTyped
<1>2. (CountOf \in [Requests -> 0..MaxInt] /\ UnitOf \in [Requests -> 0..MaxInt])'
  BY UsageTyped, PTL
<1>3. \A q \in Requests \ {r} : CountOf'[q] = CountOf[q] /\ UnitOf'[q] = UnitOf[q]
  BY DEF CountOf, UnitOf, Counts, OnlyRow
<1>4. state[r] = "absent" => CountOf[r] = 0 /\ UnitOf[r] = 0
  BY DEF CountOf, UnitOf, Counts
<1>5. ASSUME NEW R, NEW Q, R \subseteq Requests, Q \subseteq Requests,
             \A q \in Requests \ {r} : q \in Q <=> q \in R,
             r \in R => r \in Q, r \in Q \ R => state[r] = "absent"
      PROVE  /\ SumOver(Q, CountOf') = SumOver(R, CountOf) + (IF r \in Q THEN n ELSE 0)
             /\ SumOver(Q, UnitOf') = SumOver(R, UnitOf) + (IF r \in Q THEN u ELSE 0)
  <2>1. r \in Q \ R => CountOf[r] = 0 /\ UnitOf[r] = 0
    BY <1>4, <1>5
  <2>2. SumOver(Q, CountOf') = SumOver(R, CountOf) + (IF r \in Q THEN n ELSE 0)
    BY <1>1, <1>2, <1>3, <1>5, <2>1, SumMove
  <2>3. SumOver(Q, UnitOf') = SumOver(R, UnitOf) + (IF r \in Q THEN u ELSE 0)
    <3>1. \A q \in Requests \ {r} : UnitOf'[q] = UnitOf[q] /\ (q \in Q <=> q \in R)
      BY <1>3, <1>5
    <3>2. UnitOf \in [Requests -> 0..MaxInt] /\ UnitOf' \in [Requests -> 0..MaxInt]
      BY <1>1, <1>2
    <3>3. /\ R \in SUBSET Requests /\ Q \in SUBSET Requests
          /\ r \in R => r \in Q
          /\ r \in Q \ R => UnitOf[r] = 0
      BY <1>5, <2>1
    <3>4. QED
      BY <3>1, <3>2, <3>3, SumMove
  <2>4. QED
    BY <2>2, <2>3
<1>6. UsageMoves(r, n, u)
  OBVIOUS
<1> HIDE DEF n, u
<1>7. ASSUME NEW i \in Installs, NEW d \in Days
      PROVE  (installDay[<<i, d>>].requests =
               CountIn({q \in Rows : InstallToday(row[q]) = <<i, d>> /\ row[q].sublimit}))'
  <2> DEFINE R == {q \in Rows : InstallToday(row[q]) = <<i, d>> /\ row[q].sublimit}
             Q == {q \in Rows' : InstallToday(row[q])' = <<i, d>> /\ row'[q].sublimit}
  <2>1. SumOver(Q, CountOf') = SumOver(R, CountOf) + (IF r \in Q THEN n ELSE 0)
    BY <1>5 DEF Rows, OnlyRow, InstallToday
  <2>2. r \in Q <=> <<i, d>> = InstallToday(row[r])' /\ row'[r].sublimit
    BY DEF Rows, OnlyRow
  <2>3. installDay[<<i, d>>].requests = SumOver(R, CountOf)
    BY <1>7 DEF UsageConserved, CountsConserved, CountIn, CountOf
  <2>4. installDay'[<<i, d>>].requests = SumOver(Q, CountOf')
    BY <1>6, <1>7, <2>1, <2>2, <2>3 DEF UsageMoves
  <2>5. QED
    BY <2>4 DEF CountIn, CountOf, SumOver
<1>8. ASSUME NEW v \in Providers, NEW d \in Days
      PROVE  (providerDay[<<v, d>>].requests =
               CountIn({q \in Rows : ProviderToday(row[q]) = <<v, d>>}))'
  <2> DEFINE R == {q \in Rows : ProviderToday(row[q]) = <<v, d>>}
             Q == {q \in Rows' : ProviderToday(row[q])' = <<v, d>>}
  <2>1. SumOver(Q, CountOf') = SumOver(R, CountOf) + (IF r \in Q THEN n ELSE 0)
    BY <1>5 DEF Rows, OnlyRow, ProviderToday
  <2>2. r \in Q <=> <<v, d>> = ProviderToday(row[r])'
    BY DEF Rows, OnlyRow
  <2>3. providerDay[<<v, d>>].requests = SumOver(R, CountOf)
    BY <1>8 DEF UsageConserved, CountsConserved, CountIn, CountOf
  <2>4. providerDay'[<<v, d>>].requests = SumOver(Q, CountOf')
    BY <1>6, <1>8, <2>1, <2>2, <2>3 DEF UsageMoves
  <2>5. QED
    BY <2>4 DEF CountIn, CountOf, SumOver
<1>9. ASSUME NEW d \in Days
      PROVE  (globalDay[d].requests = CountIn({q \in Rows : row[q].day = d}))'
  <2> DEFINE R == {q \in Rows : row[q].day = d}
             Q == {q \in Rows' : row'[q].day = d}
  <2>1. SumOver(Q, CountOf') = SumOver(R, CountOf) + (IF r \in Q THEN n ELSE 0)
    BY <1>5 DEF Rows, OnlyRow
  <2>2. r \in Q <=> d = row'[r].day
    BY DEF Rows, OnlyRow
  <2>3. globalDay[d].requests = SumOver(R, CountOf)
    BY <1>9 DEF UsageConserved, CountsConserved, CountIn, CountOf
  <2>4. globalDay'[d].requests = SumOver(Q, CountOf')
    BY <1>6, <1>9, <2>1, <2>2, <2>3 DEF UsageMoves
  <2>5. QED
    BY <2>4 DEF CountIn, CountOf, SumOver
<1>10. ASSUME NEW m \in Months
      PROVE  (globalMonth[m].requests = CountIn({q \in Rows : MonthOf[row[q].day] = m}))'
  <2> DEFINE R == {q \in Rows : MonthOf[row[q].day] = m}
             Q == {q \in Rows' : MonthOf[row'[q].day] = m}
  <2>1. SumOver(Q, CountOf') = SumOver(R, CountOf) + (IF r \in Q THEN n ELSE 0)
    BY <1>5 DEF Rows, OnlyRow
  <2>2. r \in Q <=> m = MonthOf[row'[r].day]
    BY DEF Rows, OnlyRow
  <2>3. globalMonth[m].requests = SumOver(R, CountOf)
    BY <1>10 DEF UsageConserved, CountsConserved, CountIn, CountOf
  <2>4. globalMonth'[m].requests = SumOver(Q, CountOf')
    BY <1>6, <1>10, <2>1, <2>2, <2>3 DEF UsageMoves
  <2>5. QED
    BY <2>4 DEF CountIn, CountOf, SumOver
<1>11. ASSUME NEW i \in Installs, NEW c \in Categories, NEW d \in Days
       PROVE  (categoryDay[<<i, c, d>>] =
                 UnitsIn({q \in Rows : /\ HasCategory(row[q].plan)
                                       /\ CategoryToday(row[q]) = <<i, c, d>>}))'
  <2> DEFINE R == {q \in Rows : /\ HasCategory(row[q].plan)
                                /\ CategoryToday(row[q]) = <<i, c, d>>}
             Q == {q \in Rows' : /\ HasCategory(row'[q].plan)
                                 /\ CategoryToday(row[q])' = <<i, c, d>>}
  <2>1. SumOver(Q, UnitOf') = SumOver(R, UnitOf) + (IF r \in Q THEN u ELSE 0)
    BY <1>5 DEF Rows, OnlyRow, CategoryToday
  <2>2. r \in Q <=> HasCategory(row'[r].plan) /\ <<i, c, d>> = CategoryToday(row[r])'
    BY DEF Rows, OnlyRow
  <2>3. categoryDay[<<i, c, d>>] = SumOver(R, UnitOf)
    BY <1>11 DEF UsageConserved, UnitsConserved, UnitsIn, UnitOf
  <2>4. categoryDay'[<<i, c, d>>] = SumOver(Q, UnitOf')
    BY <1>6, <1>11, <2>1, <2>2, <2>3 DEF UsageMoves
  <2>5. QED
    BY <2>4 DEF UnitsIn, UnitOf, SumOver, HasCategory
<1>12. ASSUME NEW i \in Installs, NEW m \in Months
       PROVE  (quotaMonthly[<<i, m>>] =
                 CountIn({q \in Rows \ forgiven : InstallMonth(row[q]) = <<i, m>>}))'
  <2> DEFINE R == {q \in Rows \ forgiven : InstallMonth(row[q]) = <<i, m>>}
             Q == {q \in Rows' \ forgiven' : InstallMonth(row[q])' = <<i, m>>}
  <2>1. SumOver(Q, CountOf') = SumOver(R, CountOf) + (IF r \in Q THEN n ELSE 0)
    BY <1>5 DEF Rows, OnlyRow, InstallMonth
  <2>2. r \in Q <=> <<i, m>> = InstallMonth(row[r])'
    BY DEF Rows, OnlyRow
  <2>3. quotaMonthly[<<i, m>>] = SumOver(R, CountOf)
    BY <1>12 DEF UsageConserved, EntitlementConserved, CountIn, CountOf
  <2>4. quotaMonthly'[<<i, m>>] = SumOver(Q, CountOf')
    BY <1>6, <1>12, <2>1, <2>2, <2>3 DEF UsageMoves
  <2>5. QED
    BY <2>4 DEF CountIn, CountOf, SumOver
<1>13. CountsConserved'
  BY <1>7, <1>8, <1>9, <1>10 DEF CountsConserved
<1>14. UnitsConserved' /\ EntitlementConserved'
  BY <1>11, <1>12 DEF UnitsConserved, EntitlementConserved
<1>15. QED
  BY <1>13, <1>14 DEF UsageConserved

\* A waiting or open request is not forgiven.
LEMMA OpenUnforgiven ==
  ASSUME ForgivenClosed, NEW r \in Requests, state[r] \in {"absent", "open"}
  PROVE  r \notin forgiven
  BY DEF ForgivenClosed, Terminal

LEMMA UsageReserve ==
  ASSUME Shape, Shape', UsageConserved, ForgivenClosed, NEW r \in Requests, Reserve(r)
  PROVE  UsageConserved'
<1> DEFINE e == entry[r]
           sub == e.lim.sublimit > 0
<1>1. e \in EntryType /\ state[r] = "absent"
  BY DEF Shape, TypeOK, RowsShaped, Reserve
<1>2. e.install \in Installs /\ e.plan \in Plans /\ e.day \in Days
  BY <1>1 DEF EntryType
<1>3. /\ InstallToday(e) \in Installs \X Days
      /\ InstallMonth(e) \in Installs \X Months
      /\ ProviderToday(e) \in Providers \X Days
      /\ MonthOf[e.day] \in Months
      /\ HasCategory(e.plan) => CategoryToday(e) \in Installs \X Categories \X Days
      /\ UnitsOf(e.plan) \in Int
  BY <1>2, Keys, PlanAmounts, MaxIntNat
<1>4. /\ row' = [row EXCEPT ![r] = [install |-> e.install, plan |-> e.plan,
                                    day |-> e.day, sublimit |-> sub]]
      /\ state' = [state EXCEPT ![r] = "open"]
      /\ charged' = charged /\ forgiven' = forgiven
      /\ quotaMonthly' = [quotaMonthly EXCEPT ![InstallMonth(e)] =
                            quotaMonthly[InstallMonth(e)] + 1]
      /\ installDay' = [installDay EXCEPT ![InstallToday(e)] =
                          Post(installDay[InstallToday(e)], e.plan.reserved,
                               IF sub THEN 1 ELSE 0)]
      /\ categoryDay' = IF HasCategory(e.plan)
                        THEN [categoryDay EXCEPT ![CategoryToday(e)] =
                                categoryDay[CategoryToday(e)] + UnitsOf(e.plan)]
                        ELSE categoryDay
      /\ providerDay' = [providerDay EXCEPT ![ProviderToday(e)] =
                           Post(providerDay[ProviderToday(e)], e.plan.reserved, 1)]
      /\ globalDay' = [globalDay EXCEPT ![e.day] =
                         Post(globalDay[e.day], e.plan.reserved, 1)]
      /\ globalMonth' = [globalMonth EXCEPT ![MonthOf[e.day]] =
                           Post(globalMonth[MonthOf[e.day]], e.plan.reserved, 1)]
  BY DEF Reserve, Book, history
<1> HIDE DEF e, sub
<1>5. /\ row'[r].day = e.day /\ row'[r].plan = e.plan /\ row'[r].sublimit = sub
      /\ InstallToday(row[r])' = InstallToday(e)
      /\ InstallMonth(row[r])' = InstallMonth(e)
      /\ ProviderToday(row[r])' = ProviderToday(e)
      /\ CategoryToday(row[r])' = CategoryToday(e)
  BY <1>4 DEF Shape, TypeOK, InstallToday, InstallMonth, ProviderToday, CategoryToday
<1>6. OnlyRow(r)
  BY <1>1, <1>4 DEF OnlyRow, Shape, TypeOK
<1>7. CountOf'[r] - CountOf[r] = 1 /\ UnitOf'[r] - UnitOf[r] = UnitsOf(e.plan)
  <2>1. state'[r] = "open"
    BY <1>4 DEF Shape, TypeOK
  <2>2. /\ CountOf[r] = 0 /\ CountOf'[r] = 1
        /\ UnitOf[r] = 0 /\ UnitOf'[r] = UnitsOf(row'[r].plan)
    BY <1>1, <2>1 DEF CountOf, UnitOf, Counts
  <2>3. QED
    BY <1>3, <1>5, <2>2
<1>8. UsageMoves(r, 1, UnitsOf(e.plan))
  <2>1. /\ installDay \in [Installs \X Days -> Account]
        /\ providerDay \in [Providers \X Days -> Account]
        /\ globalDay \in [Days -> Account]
        /\ globalMonth \in [Months -> Account]
        /\ categoryDay \in [Installs \X Categories \X Days -> 0..MaxInt]
        /\ quotaMonthly \in [Installs \X Months -> Nat]
    BY DEF Shape, TypeOK
  <2>2. ASSUME NEW k \in Installs \X Days
        PROVE  installDay'[k].requests = installDay[k].requests
                 + (IF k = InstallToday(e) /\ sub THEN 1 ELSE 0)
    BY <1>2, <1>3, <1>4, <2>1 DEF Post, Account
  <2>3. ASSUME NEW k \in Providers \X Days
        PROVE  providerDay'[k].requests = providerDay[k].requests
                 + (IF k = ProviderToday(e) THEN 1 ELSE 0)
    BY <1>2, <1>3, <1>4, <2>1 DEF Post, Account
  <2>4. ASSUME NEW d \in Days
        PROVE  globalDay'[d].requests = globalDay[d].requests
                 + (IF d = e.day THEN 1 ELSE 0)
    BY <1>2, <1>3, <1>4, <2>1 DEF Post, Account
  <2>5. ASSUME NEW m \in Months
        PROVE  globalMonth'[m].requests = globalMonth[m].requests
                 + (IF m = MonthOf[e.day] THEN 1 ELSE 0)
    BY <1>2, <1>3, <1>4, <2>1 DEF Post, Account
  <2>6. ASSUME NEW k \in Installs \X Categories \X Days
        PROVE  categoryDay'[k] = categoryDay[k]
                 + (IF HasCategory(e.plan) /\ k = CategoryToday(e)
                    THEN UnitsOf(e.plan) ELSE 0)
    <3>1. categoryDay[k] \in Int
      BY <2>1, MaxIntNat
    <3>2. QED
      BY <1>3, <1>4, <2>1, <3>1
  <2>7. ASSUME NEW k \in Installs \X Months
        PROVE  quotaMonthly'[k] = quotaMonthly[k]
                 + (IF k = InstallMonth(e) THEN 1 ELSE 0)
    BY <1>3, <1>4, <2>1
  <2>8. QED
    BY <1>5, <2>2, <2>3, <2>4, <2>5, <2>6, <2>7 DEF UsageMoves
<1>9. r \notin forgiven /\ forgiven' = forgiven
  BY <1>1, <1>4, OpenUnforgiven
<1>10. QED
  BY <1>6, <1>7, <1>8, <1>9, UsageStep

LEMMA UsageRollback ==
  ASSUME Shape, Shape', UsageConserved, ForgivenClosed, NEW r \in Requests, Rollback(r)
  PROVE  UsageConserved'
<1> DEFINE x == row[r]
           amt == x.plan.reserved
<1>1. /\ state[r] = "open"
      /\ state' = [state EXCEPT ![r] = "rolled_back"]
      /\ row' = row /\ charged' = charged /\ forgiven' = forgiven
      /\ quotaMonthly' = [quotaMonthly EXCEPT ![InstallMonth(x)] =
                            quotaMonthly[InstallMonth(x)] - 1]
      /\ installDay' = [installDay EXCEPT ![InstallToday(x)] =
                          Post(installDay[InstallToday(x)], -amt,
                               IF x.sublimit THEN -1 ELSE 0)]
      /\ categoryDay' = IF HasCategory(x.plan)
                        THEN [categoryDay EXCEPT ![CategoryToday(x)] =
                                categoryDay[CategoryToday(x)] - UnitsOf(x.plan)]
                        ELSE categoryDay
      /\ providerDay' = [providerDay EXCEPT ![ProviderToday(x)] =
                           Post(providerDay[ProviderToday(x)], -amt, -1)]
      /\ globalDay' = [globalDay EXCEPT ![x.day] = Post(globalDay[x.day], -amt, -1)]
      /\ globalMonth' = [globalMonth EXCEPT ![MonthOf[x.day]] =
                           Post(globalMonth[MonthOf[x.day]], -amt, -1)]
  BY DEF Rollback, history
<1>2. /\ x.install \in Installs /\ x.plan \in Plans /\ x.day \in Days
      /\ UnitsOf(x.plan) \in Int
  BY <1>1, OpenRow, MaxIntNat
<1>3. /\ InstallToday(x) \in Installs \X Days
      /\ InstallMonth(x) \in Installs \X Months
      /\ ProviderToday(x) \in Providers \X Days
      /\ MonthOf[x.day] \in Months
      /\ HasCategory(x.plan) => CategoryToday(x) \in Installs \X Categories \X Days
  BY <1>2, Keys
<1>4. OnlyRow(r)
  BY <1>1 DEF OnlyRow, Shape, TypeOK
<1>5. CountOf'[r] - CountOf[r] = -1 /\ UnitOf'[r] - UnitOf[r] = -UnitsOf(x.plan)
  <2>1. state'[r] = "rolled_back"
    BY <1>1 DEF Shape, TypeOK
  <2>2. /\ CountOf[r] = 1 /\ CountOf'[r] = 0
        /\ UnitOf[r] = UnitsOf(x.plan) /\ UnitOf'[r] = 0
    BY <1>1, <2>1 DEF CountOf, UnitOf, Counts
  <2>3. QED
    BY <1>2, <2>2
<1>6. /\ InstallToday(row[r])' = InstallToday(x)
      /\ InstallMonth(row[r])' = InstallMonth(x)
      /\ ProviderToday(row[r])' = ProviderToday(x)
      /\ CategoryToday(row[r])' = CategoryToday(x)
      /\ row'[r] = x
  BY <1>1 DEF InstallToday, InstallMonth, ProviderToday, CategoryToday
<1> HIDE DEF x, amt
<1>7. UsageMoves(r, -1, -UnitsOf(x.plan))
  <2>1. /\ installDay \in [Installs \X Days -> Account]
        /\ providerDay \in [Providers \X Days -> Account]
        /\ globalDay \in [Days -> Account]
        /\ globalMonth \in [Months -> Account]
        /\ categoryDay \in [Installs \X Categories \X Days -> 0..MaxInt]
        /\ quotaMonthly \in [Installs \X Months -> Nat]
    BY DEF Shape, TypeOK
  <2>2. ASSUME NEW k \in Installs \X Days
        PROVE  installDay'[k].requests = installDay[k].requests
                 + (IF k = InstallToday(x) /\ x.sublimit THEN -1 ELSE 0)
    BY <1>1, <1>3, <2>1 DEF Post, Account
  <2>3. ASSUME NEW k \in Providers \X Days
        PROVE  providerDay'[k].requests = providerDay[k].requests
                 + (IF k = ProviderToday(x) THEN -1 ELSE 0)
    BY <1>1, <1>3, <2>1 DEF Post, Account
  <2>4. ASSUME NEW d \in Days
        PROVE  globalDay'[d].requests = globalDay[d].requests
                 + (IF d = x.day THEN -1 ELSE 0)
    BY <1>1, <1>2, <2>1 DEF Post, Account
  <2>5. ASSUME NEW m \in Months
        PROVE  globalMonth'[m].requests = globalMonth[m].requests
                 + (IF m = MonthOf[x.day] THEN -1 ELSE 0)
    BY <1>1, <1>3, <2>1 DEF Post, Account
  <2>6. ASSUME NEW k \in Installs \X Categories \X Days
        PROVE  categoryDay'[k] = categoryDay[k]
                 + (IF HasCategory(x.plan) /\ k = CategoryToday(x)
                    THEN -UnitsOf(x.plan) ELSE 0)
    <3>1. categoryDay[k] \in Int
      BY <2>1, MaxIntNat
    <3>2. QED
      BY <1>1, <1>2, <1>3, <2>1, <3>1
  <2>7. ASSUME NEW k \in Installs \X Months
        PROVE  quotaMonthly'[k] = quotaMonthly[k]
                 + (IF k = InstallMonth(x) THEN -1 ELSE 0)
    BY <1>1, <1>3, <2>1
  <2>8. QED
    BY <1>6, <2>2, <2>3, <2>4, <2>5, <2>6, <2>7 DEF UsageMoves
<1>8. r \notin forgiven /\ forgiven' = forgiven
  BY <1>1, OpenUnforgiven
<1>9. QED
  BY <1>4, <1>5, <1>7, <1>8, UsageStep

\* Settle and the reconciler keep the row's count and units.
LEMMA UsageClose ==
  ASSUME Shape, Shape', UsageConserved, ForgivenClosed, NEW r \in Requests,
         state[r] = "open", NEW t \in {"settled", "orphaned"},
         state' = [state EXCEPT ![r] = t], OnlyRow(r), forgiven' = forgiven,
         UNCHANGED <<quotaMonthly, categoryDay>>,
         \A k \in Installs \X Days : installDay'[k].requests = installDay[k].requests,
         \A k \in Providers \X Days : providerDay'[k].requests = providerDay[k].requests,
         \A d \in Days : globalDay'[d].requests = globalDay[d].requests,
         \A m \in Months : globalMonth'[m].requests = globalMonth[m].requests
  PROVE  UsageConserved'
<1>1. state'[r] = t /\ row'[r] = row[r]
  BY DEF Shape, TypeOK, OnlyRow
<1>2. UnitsOf(row[r].plan) \in Int
  BY OpenRow, MaxIntNat
<1>3. CountOf'[r] - CountOf[r] = 0 /\ UnitOf'[r] - UnitOf[r] = 0
  BY <1>1, <1>2 DEF CountOf, UnitOf, Counts
<1>4. UsageMoves(r, 0, 0)
  <2>1. /\ \A k \in Installs \X Days : installDay[k].requests \in Int
        /\ \A k \in Providers \X Days : providerDay[k].requests \in Int
        /\ \A d \in Days : globalDay[d].requests \in Int
        /\ \A m \in Months : globalMonth[m].requests \in Int
        /\ \A k \in Installs \X Categories \X Days : categoryDay[k] \in Int
        /\ \A k \in Installs \X Months : quotaMonthly[k] \in Int
    BY MaxIntNat DEF Shape, TypeOK, Account
  <2>2. \A i \in Installs, d \in Days :
          installDay'[<<i, d>>].requests = installDay[<<i, d>>].requests + 0
    BY <2>1
  <2>3. \A v \in Providers, d \in Days :
          providerDay'[<<v, d>>].requests = providerDay[<<v, d>>].requests + 0
    BY <2>1
  <2>4. /\ \A d \in Days : globalDay'[d].requests = globalDay[d].requests + 0
        /\ \A m \in Months : globalMonth'[m].requests = globalMonth[m].requests + 0
    BY <2>1
  <2>5. \A i \in Installs, c \in Categories, d \in Days :
          categoryDay'[<<i, c, d>>] = categoryDay[<<i, c, d>>] + 0
    BY <2>1
  <2>6. \A i \in Installs, m \in Months :
          quotaMonthly'[<<i, m>>] = quotaMonthly[<<i, m>>] + 0
    BY <2>1
  <2>7. QED
    BY <2>2, <2>3, <2>4, <2>5, <2>6 DEF UsageMoves
<1>5. r \notin forgiven
  BY OpenUnforgiven
<1>6. QED
  BY <1>3, <1>4, <1>5, UsageStep

LEMMA UsageSettle ==
  ASSUME Shape, Shape', UsageConserved, ForgivenClosed, NEW r \in Requests,
         NEW actual \in 0..MaxInt, Settle(r, actual)
  PROVE  UsageConserved'
<1> DEFINE x == row[r]
           delta == actual - x.plan.reserved
<1>1. /\ state[r] = "open" /\ state' = [state EXCEPT ![r] = "settled"]
      /\ charged' = [charged EXCEPT ![r] = actual]
      /\ row' = row /\ forgiven' = forgiven
      /\ AdjustSpend(x, delta)
  BY DEF Settle, history
<1>2. OnlyRow(r)
  BY <1>1 DEF OnlyRow, Shape, TypeOK
<1>3. x.install \in Installs /\ x.plan \in Plans /\ x.day \in Days
  BY <1>1, OpenRow
<1>4. /\ InstallToday(x) \in Installs \X Days
      /\ ProviderToday(x) \in Providers \X Days
      /\ MonthOf[x.day] \in Months
  BY <1>3, Keys
<1> HIDE DEF x, delta
<1>5. /\ installDay \in [Installs \X Days -> Account]
      /\ providerDay \in [Providers \X Days -> Account]
      /\ globalDay \in [Days -> Account]
      /\ globalMonth \in [Months -> Account]
  BY DEF Shape, TypeOK
<1>6. \A k \in Installs \X Days : installDay'[k].requests = installDay[k].requests
  BY <1>1, <1>4, <1>5 DEF AdjustSpend, Post, Account
<1>7. \A k \in Providers \X Days : providerDay'[k].requests = providerDay[k].requests
  BY <1>1, <1>4, <1>5 DEF AdjustSpend, Post, Account
<1>8. \A d \in Days : globalDay'[d].requests = globalDay[d].requests
  BY <1>1, <1>3, <1>5 DEF AdjustSpend, Post, Account
<1>9. \A m \in Months : globalMonth'[m].requests = globalMonth[m].requests
  BY <1>1, <1>4, <1>5 DEF AdjustSpend, Post, Account
<1>10. UNCHANGED <<quotaMonthly, categoryDay>>
  BY <1>1 DEF AdjustSpend
<1>11. QED
  BY <1>1, <1>2, <1>6, <1>7, <1>8, <1>9, <1>10, UsageClose

LEMMA UnitsUnchanged ==
  ASSUME UnitsConserved, UNCHANGED <<state, row, categoryDay>>
  PROVE  UnitsConserved'
<1>1. Rows' = Rows /\ UnitOf' = UnitOf
  BY DEF Rows, UnitOf, Counts
<1>2. ASSUME NEW i \in Installs, NEW c \in Categories, NEW d \in Days
      PROVE  (categoryDay[<<i, c, d>>] =
                UnitsIn({q \in Rows : /\ HasCategory(row[q].plan)
                                      /\ CategoryToday(row[q]) = <<i, c, d>>}))'
  <2> DEFINE R == {q \in Rows : /\ HasCategory(row[q].plan)
                                /\ CategoryToday(row[q]) = <<i, c, d>>}
  <2>1. categoryDay[<<i, c, d>>] = SumOver(R, UnitOf)
    BY DEF UnitsConserved, UnitsIn, UnitOf
  <2>2. R' = R
    BY <1>1 DEF CategoryToday, HasCategory
  <2>3. categoryDay'[<<i, c, d>>] = SumOver(R', UnitOf')
    BY <1>1, <2>1, <2>2
  <2>4. QED
    BY <2>3 DEF UnitsIn, UnitOf, SumOver
<1>3. QED
  BY <1>2 DEF UnitsConserved

LEMMA UsageUnchanged ==
  ASSUME UsageConserved, UNCHANGED <<state, row, forgiven, balances>>
  PROVE  UsageConserved'
<1>1. CountsConserved'
  BY DEF UsageConserved, CountsConserved, CountIn, Counts, Rows, balances,
         InstallToday, ProviderToday
<1>2. UnitsConserved'
  BY UnitsUnchanged DEF UsageConserved, balances
<1>3. EntitlementConserved'
  BY DEF UsageConserved, EntitlementConserved, CountIn, Counts, Rows, balances,
         InstallMonth
<1>4. QED
  BY <1>1, <1>2, <1>3 DEF UsageConserved

LEMMA UsageReconcile ==
  ASSUME Shape, Shape', UsageConserved, ForgivenClosed, NEW r \in Requests,
         ReconcileOne(r)
  PROVE  UsageConserved'
<1>1. row' = row /\ UNCHANGED balances /\ forgiven' = forgiven
  BY DEF ReconcileOne, history
<1>2. CASE state[r] = "open"
  <2>1. /\ state' = [state EXCEPT ![r] = "orphaned"]
        /\ charged' = [charged EXCEPT ![r] = row[r].plan.reserved]
    BY <1>2 DEF ReconcileOne
  <2>2. OnlyRow(r)
    BY <1>1, <1>2, <2>1 DEF OnlyRow, Shape, TypeOK
  <2>3. QED
    BY <1>1, <1>2, <2>1, <2>2, UsageClose DEF balances
<1>3. CASE state[r] # "open"
  BY <1>1, <1>3, UsageUnchanged DEF ReconcileOne
<1>4. QED
  BY <1>2, <1>3

\* The reset clears the month's counters and forgives exactly its rows.
LEMMA UsageReset ==
  ASSUME Shape, UsageConserved, NEW m \in Months, ResetMonthlyRequests(m)
  PROVE  UsageConserved'
<1>1. /\ quotaMonthly' = [k \in Installs \X Months |->
                            IF k[2] = m THEN 0 ELSE quotaMonthly[k]]
      /\ forgiven' = forgiven \cup {q \in Rows : MonthOf[row[q].day] = m}
      /\ UNCHANGED <<state, row, installDay, categoryDay, providerDay, globalDay,
                     globalMonth>>
  BY DEF ResetMonthlyRequests, ledger, Rows
<1>2. CountsConserved'
  BY <1>1 DEF UsageConserved, CountsConserved, CountIn, Counts, Rows,
         InstallToday, ProviderToday
<1>3. UnitsConserved'
  BY <1>1, UnitsUnchanged DEF UsageConserved
<1>4. ASSUME NEW i \in Installs, NEW n \in Months
      PROVE  (quotaMonthly[<<i, n>>] =
                CountIn({q \in Rows \ forgiven : InstallMonth(row[q]) = <<i, n>>}))'
  <2> DEFINE R == {q \in Rows \ forgiven : InstallMonth(row[q]) = <<i, n>>}
             Q == {q \in Rows \ forgiven' : InstallMonth(row[q]) = <<i, n>>}
  <2>1. CountIn({q \in Rows \ forgiven : InstallMonth(row[q]) = <<i, n>>})'
          = SumOver(Q, CountOf)
    BY <1>1 DEF CountIn, CountOf, Counts, Rows, InstallMonth
  <2>2. CASE n = m
    <3>1. Q = {}
      BY <1>1, <2>2 DEF InstallMonth
    <3>2. [q \in Requests |-> IF q \in Q THEN CountOf[q] ELSE 0] \in [Requests -> {0}]
      BY <3>1
    <3>3. SumOver(Q, CountOf) = 0
      BY <3>2, TotalZero, MaxIntNat DEF SumOver
    <3>4. quotaMonthly'[<<i, n>>] = 0
      BY <1>1, <2>2
    <3>5. QED
      BY <2>1, <3>3, <3>4
  <2>3. CASE n # m
    <3>1. Q = R
      BY <1>1, <2>3 DEF InstallMonth
    <3>2. quotaMonthly'[<<i, n>>] = quotaMonthly[<<i, n>>]
      BY <1>1, <2>3
    <3>3. quotaMonthly[<<i, n>>] = SumOver(R, CountOf)
      BY DEF UsageConserved, EntitlementConserved, CountIn, CountOf
    <3>4. QED
      BY <2>1, <3>1, <3>2, <3>3
  <2>4. QED
    BY <2>2, <2>3
<1>5. QED
  BY <1>2, <1>3, <1>4 DEF UsageConserved, EntitlementConserved

LEMMA ForgivenNext == Shape /\ ForgivenClosed /\ [Next]_vars => ForgivenClosed'
<1> SUFFICES ASSUME Shape, ForgivenClosed, [Next]_vars PROVE ForgivenClosed'
  OBVIOUS
<1>1. CASE UNCHANGED <<state, forgiven>>
  BY <1>1 DEF ForgivenClosed
<1>2. ASSUME NEW r \in Requests, Reserve(r) PROVE ForgivenClosed'
  <2>1. state[r] = "absent"
    BY <1>2 DEF Reserve, Shape, RowsShaped
  <2>2. QED
    BY <1>2, <2>1 DEF Reserve, Book, history, Shape, TypeOK, ForgivenClosed, Terminal
<1>3. ASSUME NEW r \in Requests, NEW actual \in 0..MaxInt, Settle(r, actual)
      PROVE  ForgivenClosed'
  BY <1>3 DEF Settle, history, Shape, TypeOK, ForgivenClosed, Terminal
<1>4. ASSUME NEW r \in Requests, Rollback(r) PROVE ForgivenClosed'
  BY <1>4 DEF Rollback, history, Shape, TypeOK, ForgivenClosed, Terminal
<1>5. ASSUME NEW r \in Requests, ReconcileOne(r) PROVE ForgivenClosed'
  BY <1>5 DEF ReconcileOne, history, Shape, TypeOK, ForgivenClosed, Terminal
<1>6. ASSUME NEW m \in Months, ResetMonthlyRequests(m) PROVE ForgivenClosed'
  BY <1>6 DEF ResetMonthlyRequests, ledger, Shape, TypeOK, ForgivenClosed, Terminal
<1>7. QED
  BY <1>1, <1>2, <1>3, <1>4, <1>5, <1>6
  DEF Next, vars, ledger, history, SnapshotPeriod, SnapshotLimits, ReserveFails,
      Age, Scan, Reload, NextDay, Crash

LEMMA UsageNext ==
  Shape /\ Shape' /\ UsageConserved /\ ForgivenClosed /\ [Next]_vars => UsageConserved'
<1> SUFFICES ASSUME Shape, Shape', UsageConserved, ForgivenClosed, [Next]_vars
             PROVE  UsageConserved'
  OBVIOUS
<1>1. CASE UNCHANGED <<state, row, forgiven, balances>>
  BY <1>1, UsageUnchanged
<1>2. QED
  BY <1>1, UsageReserve, UsageSettle, UsageRollback, UsageReconcile, UsageReset
  DEF Next, vars, ledger, history, SnapshotPeriod, SnapshotLimits, ReserveFails,
      Age, Scan, Reload, NextDay, Crash

(***************************************************************************)
(* Everything the columns stand for, as one inductive invariant.           *)
(***************************************************************************)
LedgerInv == Shape /\ SpendConserved /\ UsageConserved /\ ForgivenClosed

LEMMA LedgerInvariant == Spec => []LedgerInv
<1>1. Init => LedgerInv
  BY ShapeInit, SpendInit, UsageInit DEF LedgerInv
<1>2. LedgerInv /\ [Next]_vars => LedgerInv'
  BY ShapeNext, SpendNext, UsageNext, ForgivenNext DEF LedgerInv
<1>3. QED
  BY <1>1, <1>2, PTL DEF Spec

(***************************************************************************)
(* Usage conservation: what Rollback gives back is what Reserve took, from *)
(* the period it was taken from, whatever was reloaded, reset or rolled    *)
(* over in between.                                                        *)
(***************************************************************************)
THEOREM UsageIsConserved == Spec => []UsageConserved
<1>1. LedgerInv => UsageConserved
  BY DEF LedgerInv
<1>2. QED
  BY <1>1, LedgerInvariant, PTL

-----------------------------------------------------------------------------
(***************************************************************************)
(* No corruption: a column that is the sum over its rows holds at least    *)
(* what an open row put there.                                             *)
(***************************************************************************)
LEMMA SumHolds ==
  ASSUME NEW v \in [Requests -> 0..MaxInt], NEW R \in SUBSET Requests, NEW r \in R
  PROVE  v[r] <= SumOver(R, v)
<1> DEFINE f == [q \in Requests |-> IF q \in R THEN v[q] ELSE 0]
<1>1. IsFiniteSet(Requests) /\ MaxInt \in Nat
  BY LedgerAssumption DEF LedgerAssumption
<1>2. f \in [Requests -> 0..MaxInt] /\ f[r] = v[r]
  BY <1>1
<1>3. f[r] <= Total(f, MaxInt)
  <2> HIDE DEF f
  <2>1. QED
    BY <1>1, <1>2, TotalAtLeast
<1>4. QED
  BY <1>2, <1>3 DEF SumOver

LEMMA OpenRowHeld ==
  ASSUME LedgerInv, NEW r \in Requests, state[r] = "open"
  PROVE  /\ \A a \in SpendAccounts(row[r]) : row[r].plan.reserved <= a.spend
         /\ row[r].sublimit => installDay[InstallToday(row[r])].requests >= 1
         /\ HasCategory(row[r].plan) =>
              categoryDay[CategoryToday(row[r])] >= UnitsOf(row[r].plan)
         /\ providerDay[ProviderToday(row[r])].requests >= 1
         /\ globalDay[row[r].day].requests >= 1
         /\ globalMonth[MonthOf[row[r].day]].requests >= 1
         /\ quotaMonthly[InstallMonth(row[r])] >= 1
<1> USE DEF LedgerInv
<1> DEFINE x == row[r]
           c == CategoryOf[x.plan.class]
           RI == {q \in Rows : InstallToday(row[q]) = <<x.install, x.day>>}
           RS == {q \in Rows : InstallToday(row[q]) = <<x.install, x.day>> /\ row[q].sublimit}
           RP == {q \in Rows : ProviderToday(row[q]) = <<x.plan.provider, x.day>>}
           RD == {q \in Rows : row[q].day = x.day}
           RM == {q \in Rows : MonthOf[row[q].day] = MonthOf[x.day]}
           RC == {q \in Rows : /\ HasCategory(row[q].plan)
                               /\ CategoryToday(row[q]) = <<x.install, c, x.day>>}
           RQ == {q \in Rows \ forgiven : InstallMonth(row[q]) = <<x.install, MonthOf[x.day]>>}
<1>1. /\ x.install \in Installs /\ x.plan \in Plans /\ x.day \in Days
      /\ MonthOf[x.day] \in Months
      /\ x.plan.provider \in Providers
      /\ HasCategory(x.plan) => c \in Categories
      /\ x.plan.reserved \in 1..MaxInt
  BY OpenRow, Keys, PlanAmounts
<1>2. r \in Rows /\ r \notin forgiven
  BY OpenUnforgiven DEF Rows
<1>3. /\ r \in RI /\ r \in RP /\ r \in RD /\ r \in RM /\ r \in RQ
      /\ x.sublimit => r \in RS
      /\ HasCategory(x.plan) => r \in RC
  BY <1>2 DEF InstallToday, ProviderToday, CategoryToday, InstallMonth
<1>4. CostOf[r] = x.plan.reserved /\ CountOf[r] = 1 /\ UnitOf[r] = UnitsOf(x.plan)
  BY DEF CostOf, Cost, CountOf, UnitOf, Counts
<1>5. /\ CostOf \in [Requests -> 0..MaxInt]
      /\ CountOf \in [Requests -> 0..MaxInt]
      /\ UnitOf \in [Requests -> 0..MaxInt]
  BY CostTyped, UsageTyped
<1>6. /\ RI \in SUBSET Requests /\ RS \in SUBSET Requests /\ RP \in SUBSET Requests
      /\ RD \in SUBSET Requests /\ RM \in SUBSET Requests /\ RC \in SUBSET Requests
      /\ RQ \in SUBSET Requests
  BY DEF Rows
<1>7. /\ installDay[InstallToday(x)].spend = SumOver(RI, CostOf)
      /\ providerDay[ProviderToday(x)].spend = SumOver(RP, CostOf)
      /\ globalDay[x.day].spend = SumOver(RD, CostOf)
      /\ globalMonth[MonthOf[x.day]].spend = SumOver(RM, CostOf)
  BY <1>1 DEF SpendConserved, SpendIn, CostOf, InstallToday, ProviderToday
<1>8. /\ installDay[InstallToday(x)].requests = SumOver(RS, CountOf)
      /\ providerDay[ProviderToday(x)].requests = SumOver(RP, CountOf)
      /\ globalDay[x.day].requests = SumOver(RD, CountOf)
      /\ globalMonth[MonthOf[x.day]].requests = SumOver(RM, CountOf)
  BY <1>1 DEF UsageConserved, CountsConserved, CountIn, CountOf, InstallToday, ProviderToday
<1>9. HasCategory(x.plan) => categoryDay[CategoryToday(x)] = SumOver(RC, UnitOf)
  BY <1>1 DEF UsageConserved, UnitsConserved, UnitsIn, UnitOf, CategoryToday
<1>10. quotaMonthly[InstallMonth(x)] = SumOver(RQ, CountOf)
  BY <1>1 DEF UsageConserved, EntitlementConserved, CountIn, CountOf, InstallMonth
<1> HIDE DEF RI, RS, RP, RD, RM, RC, RQ, x, c
<1>11. /\ CostOf[r] <= SumOver(RI, CostOf) /\ CostOf[r] <= SumOver(RP, CostOf)
       /\ CostOf[r] <= SumOver(RD, CostOf) /\ CostOf[r] <= SumOver(RM, CostOf)
  BY <1>3, <1>5, <1>6, SumHolds
<1>12. /\ x.sublimit => CountOf[r] <= SumOver(RS, CountOf)
       /\ CountOf[r] <= SumOver(RP, CountOf) /\ CountOf[r] <= SumOver(RD, CountOf)
       /\ CountOf[r] <= SumOver(RM, CountOf) /\ CountOf[r] <= SumOver(RQ, CountOf)
  BY <1>3, <1>5, <1>6, SumHolds
<1>13. HasCategory(x.plan) => UnitOf[r] <= SumOver(RC, UnitOf)
  BY <1>3, <1>5, <1>6, SumHolds
<1>14. \A a \in SpendAccounts(x) : x.plan.reserved <= a.spend
  BY <1>4, <1>7, <1>11 DEF SpendAccounts
<1>15. /\ installDay[InstallToday(x)] \in Account
       /\ providerDay[ProviderToday(x)] \in Account
       /\ globalDay[x.day] \in Account
       /\ globalMonth[MonthOf[x.day]] \in Account
  BY OpenRow DEF x
<1>16. /\ x.sublimit => installDay[InstallToday(x)].requests >= 1
       /\ providerDay[ProviderToday(x)].requests >= 1
       /\ globalDay[x.day].requests >= 1
       /\ globalMonth[MonthOf[x.day]].requests >= 1
  BY <1>4, <1>8, <1>12, <1>15 DEF Account
<1>17. quotaMonthly[InstallMonth(x)] >= 1
  <2>1. quotaMonthly[InstallMonth(x)] \in Nat
    BY <1>1 DEF Shape, TypeOK, InstallMonth
  <2>2. QED
    BY <1>4, <1>10, <1>12, <2>1
<1>18. HasCategory(x.plan) => categoryDay[CategoryToday(x)] >= UnitsOf(x.plan)
  <2>1. HasCategory(x.plan) => categoryDay[CategoryToday(x)] \in 0..MaxInt
    BY <1>1 DEF Shape, TypeOK, CategoryToday, c
  <2>2. UnitsOf(x.plan) \in 0..MaxInt
    BY OpenRow DEF x
  <2>3. QED
    BY <1>4, <1>9, <1>13, <2>1, <2>2, MaxIntNat
<1>19. QED
  BY <1>14, <1>16, <1>17, <1>18 DEF x

(***************************************************************************)
(* Rollback, and Settle at or below the reservation, of an open row always *)
(* find what the row booked: the store's corruption errors are dead code.  *)
(***************************************************************************)
THEOREM CorruptionUnreachable == Spec => []NeverCorrupt
<1>1. LedgerInv => NeverCorrupt
  <2> SUFFICES ASSUME LedgerInv, NEW r \in Requests, state[r] = "open"
               PROVE  /\ CanRollback(row[r])
                      /\ \A actual \in 0..row[r].plan.reserved :
                           CanAdjust(row[r], actual - row[r].plan.reserved)
    BY DEF NeverCorrupt
  <2> DEFINE x == row[r]
             amt == x.plan.reserved
  <2>1. /\ amt \in 1..MaxInt /\ MaxInt \in Nat
        /\ \A a \in SpendAccounts(x) : a.spend \in 0..MaxInt /\ amt <= a.spend
    BY OpenRow, OpenRowHeld, MaxIntNat DEF LedgerInv, SpendAccounts, Account
  <2>2. ASSUME NEW actual \in 0..amt PROVE CanAdjust(x, actual - amt)
    <3> SUFFICES ASSUME NEW a \in SpendAccounts(x) PROVE a.spend + (actual - amt) \in 0..MaxInt
      BY DEF CanAdjust
    <3>1. a.spend \in 0..MaxInt /\ amt <= a.spend
      BY <2>1
    <3> HIDE DEF amt
    <3>2. QED
      BY <2>1, <2>2, <3>1
  <2>3. CanAdjust(x, -amt)
    <3> SUFFICES ASSUME NEW a \in SpendAccounts(x) PROVE a.spend + (-amt) \in 0..MaxInt
      BY DEF CanAdjust
    <3>1. a.spend \in 0..MaxInt /\ amt <= a.spend
      BY <2>1
    <3> HIDE DEF amt
    <3>2. QED
      BY <2>1, <3>1
  <2>4. CanRollback(x)
    BY <2>3, OpenRowHeld DEF CanRollback
  <2>5. QED
    BY <2>2, <2>4
<1>2. QED
  BY <1>1, LedgerInvariant, PTL

-----------------------------------------------------------------------------
(***************************************************************************)
(* The wallet.  Every limits snapshot a waiting request carries was in     *)
(* force at some time, so it is at most the largest limit ever in force.   *)
(***************************************************************************)
SnapshotsBounded ==
  /\ limits.wallet <= walletHigh
  /\ \A r \in Requests : entry[r] # None /\ entry[r].lim # None =>
       entry[r].lim.wallet <= walletHigh

LEMMA SnapshotsInit == Init => SnapshotsBounded
<1> SUFFICES ASSUME Init PROVE SnapshotsBounded
  OBVIOUS
<1>1. limits.wallet \in 0..MaxInt
  BY LimitAmounts DEF Init
<1>2. QED
  BY <1>1, MaxIntNat DEF Init, SnapshotsBounded

LEMMA SnapshotsNext == Shape /\ SnapshotsBounded /\ [Next]_vars => SnapshotsBounded'
<1> SUFFICES ASSUME Shape, SnapshotsBounded, [Next]_vars PROVE SnapshotsBounded'
  OBVIOUS
<1>1. ASSUME UNCHANGED <<env, history>>,
             \A r \in Requests : entry'[r] \in {entry[r], None}
      PROVE  SnapshotsBounded'
  BY <1>1 DEF SnapshotsBounded, env, history
<1>2. ASSUME NEW r \in Requests, NEW i \in Installs, NEW p \in Plans,
             SnapshotPeriod(r, i, p)
      PROVE  SnapshotsBounded'
  BY <1>2 DEF SnapshotPeriod, SnapshotsBounded, Shape, TypeOK, env, history
<1>3. ASSUME NEW r \in Requests, SnapshotLimits(r) PROVE SnapshotsBounded'
  <2>1. entry[r] \in EntryType /\ UNCHANGED <<limits, walletHigh>>
    BY <1>3 DEF SnapshotLimits, Shape, TypeOK, env, history
  <2>2. /\ entry'[r].lim = limits
        /\ \A q \in Requests \ {r} : entry'[q] = entry[q]
    BY <1>3, <2>1 DEF SnapshotLimits, Shape, TypeOK, EntryType
  <2>3. QED
    BY <2>1, <2>2 DEF SnapshotsBounded
<1>4. ASSUME NEW l \in LimitSets, Reload(l) PROVE SnapshotsBounded'
  <2>1. l.wallet \in 0..MaxInt /\ walletHigh \in 0..MaxInt
    BY LimitAmounts DEF Shape, TypeOK
  <2>2. /\ limits' = l /\ entry' = entry
        /\ walletHigh' = IF l.wallet > walletHigh THEN l.wallet ELSE walletHigh
    BY <1>4 DEF Reload
  <2>3. walletHigh <= walletHigh' /\ l.wallet <= walletHigh' /\ walletHigh' \in 0..MaxInt
    BY <2>1, <2>2, MaxIntNat
  <2>4. ASSUME NEW r \in Requests, entry[r] # None, entry[r].lim # None
        PROVE  entry[r].lim.wallet <= walletHigh'
    <3>1. entry[r].lim \in LimitSets
      BY <2>4 DEF Shape, TypeOK, EntryType
    <3>2. entry[r].lim.wallet \in 0..MaxInt /\ entry[r].lim.wallet <= walletHigh
      BY <2>4, <3>1, LimitAmounts DEF SnapshotsBounded
    <3>3. QED
      BY <2>1, <2>3, <3>2, MaxIntNat
  <2>5. QED
    BY <2>2, <2>3, <2>4 DEF SnapshotsBounded
<1>5. CASE NextDay
  BY <1>5 DEF NextDay, SnapshotsBounded, history
<1>6. ASSUME NEW m \in Months, ResetMonthlyRequests(m) PROVE SnapshotsBounded'
  BY <1>6 DEF ResetMonthlyRequests, SnapshotsBounded, env
<1>7. ASSUME NEW r \in Requests, Reserve(r) \/ ReserveFails(r) PROVE SnapshotsBounded'
  BY <1>1, <1>7 DEF Reserve, ReserveFails, Shape, TypeOK
<1>8. CASE Crash
  BY <1>1, <1>8 DEF Crash
<1>9. CASE UNCHANGED <<env, entry, history>>
  BY <1>1, <1>9
<1>10. QED
  BY <1>2, <1>3, <1>4, <1>5, <1>6, <1>7, <1>8, <1>9
  DEF Next, vars, Settle, Rollback, Age, Scan, ReconcileOne

TopUpOf == [q \in Requests |-> TopUp(q)]

LEMMA TopUpTyped == Shape => TopUpOf \in [Requests -> 0..MaxInt]
<1> SUFFICES ASSUME Shape, NEW q \in Requests PROVE TopUp(q) \in 0..MaxInt
  BY DEF TopUpOf
<1>1. charged[q] \in 0..MaxInt
  BY DEF Shape, TypeOK
<1>2. CASE state[q] = "settled"
  <2>1. row[q] \in RowType
    BY <1>2 DEF Shape, RowsShaped
  <2>2. row[q].plan.reserved \in 1..MaxInt
    BY <2>1, PlanAmounts DEF RowType
  <2>3. QED
    BY <1>1, <2>2, MaxIntNat DEF TopUp
<1>3. CASE state[q] # "settled"
  BY <1>3, MaxIntNat DEF TopUp
<1>4. QED
  BY <1>2, <1>3

\* What a month's rows have settled beyond their reservations.
ToppedUp(m) == SumOver({q \in Rows : MonthOf[row[q].day] = m}, TopUpOf)

\* A step that touches row r only moves a month's top-ups by r's.
LEMMA ToppedUpMoves ==
  ASSUME Shape, Shape', NEW r \in Requests, OnlyRow(r), NEW m \in Months
  PROVE  /\ ToppedUp(m)' = ToppedUp(m)
              + (IF m = MonthOf[row'[r].day] THEN TopUp(r)' - TopUp(r) ELSE 0)
         /\ ToppedUp(m) \in Nat
<1> DEFINE R == {q \in Rows : MonthOf[row[q].day] = m}
           Q == {q \in Rows' : MonthOf[row'[q].day] = m}
<1>1. TopUpOf \in [Requests -> 0..MaxInt]
  BY TopUpTyped
<1>2. (TopUpOf \in [Requests -> 0..MaxInt])'
  BY TopUpTyped, PTL
<1>3. \A q \in Requests \ {r} : TopUpOf'[q] = TopUpOf[q] /\ (q \in Q <=> q \in R)
  BY DEF TopUpOf, TopUp, OnlyRow, Rows
<1>4. /\ R \in SUBSET Requests /\ Q \in SUBSET Requests
      /\ r \in R => r \in Q
      /\ r \in Q \ R => TopUpOf[r] = 0
      /\ r \in Q <=> m = MonthOf[row'[r].day]
  BY DEF Rows, OnlyRow, TopUpOf, TopUp
<1>5. TopUpOf[r] = TopUp(r) /\ TopUpOf'[r] = TopUp(r)'
  BY DEF TopUpOf
<1>6. ToppedUp(m) = SumOver(R, TopUpOf) /\ ToppedUp(m)' = SumOver(Q, TopUpOf')
  BY DEF ToppedUp, SumOver, TopUpOf
<1> HIDE DEF R, Q
<1>7. SumOver(Q, TopUpOf') =
        SumOver(R, TopUpOf) + (IF r \in Q THEN TopUpOf'[r] - TopUpOf[r] ELSE 0)
  BY <1>1, <1>2, <1>3, <1>4, SumMove
<1>8. SumOver(R, TopUpOf) \in Nat
  <2>1. [q \in Requests |-> IF q \in R THEN TopUpOf[q] ELSE 0] \in [Requests -> 0..MaxInt]
    BY <1>1, MaxIntNat
  <2>2. QED
    BY <2>1, MaxIntNat, CoinsFinite, LedgerAssumption DEF SumOver, LedgerAssumption
<1>9. QED
  BY <1>4, <1>5, <1>6, <1>7, <1>8

\* A month's wallet and its top-ups after a step that touches row r only.
LEMMA WalletMoves ==
  ASSUME Shape, Shape', WalletNotOversold, NEW r \in Requests, OnlyRow(r),
         walletHigh' = walletHigh, NEW delta \in Int,
         Moves(r, delta),
         TopUp(r)' \in Int, TopUp(r) \in Int,
         \/ delta <= TopUp(r)' - TopUp(r)
         \/ /\ globalMonth[MonthOf[row'[r].day]].spend + delta <= walletHigh
            /\ TopUp(r) <= TopUp(r)'
  PROVE  WalletNotOversold'
<1> SUFFICES ASSUME NEW m \in Months
             PROVE  globalMonth'[m].spend <= walletHigh' + ToppedUp(m)'
  BY DEF WalletNotOversold, ToppedUp, TopUpOf, SumOver
<1>1. /\ ToppedUp(m)' = ToppedUp(m)
           + (IF m = MonthOf[row'[r].day] THEN TopUp(r)' - TopUp(r) ELSE 0)
      /\ ToppedUp(m) \in Nat
  BY ToppedUpMoves
<1>2. globalMonth'[m].spend = globalMonth[m].spend
        + (IF m = MonthOf[row'[r].day] THEN delta ELSE 0)
  BY DEF Moves
<1>3. globalMonth[m].spend <= walletHigh + ToppedUp(m)
  BY DEF WalletNotOversold, ToppedUp, TopUpOf, SumOver
<1>4. globalMonth[m].spend \in Nat /\ walletHigh \in Nat
  BY MaxIntNat DEF Shape, TypeOK, Account
<1>5. CASE m # MonthOf[row'[r].day]
  BY <1>1, <1>2, <1>3, <1>4, <1>5
<1>6. CASE m = MonthOf[row'[r].day] /\ delta <= TopUp(r)' - TopUp(r)
  BY <1>1, <1>2, <1>3, <1>4, <1>6
<1>7. CASE /\ m = MonthOf[row'[r].day]
           /\ globalMonth[m].spend + delta <= walletHigh
           /\ TopUp(r) <= TopUp(r)'
  BY <1>1, <1>2, <1>3, <1>4, <1>7
<1>8. QED
  BY <1>5, <1>6, <1>7

LEMMA WalletReserve ==
  ASSUME Shape, Shape', WalletNotOversold, SnapshotsBounded, NEW r \in Requests,
         Reserve(r)
  PROVE  WalletNotOversold'
<1> DEFINE e == entry[r]
           a == e.plan.reserved
<1>1. /\ OnlyRow(r) /\ Moves(r, a) /\ a \in Int
      /\ state[r] = "absent" /\ state'[r] = "open"
      /\ row'[r].day = e.day /\ e \in EntryType
  BY ReserveMoves, MaxIntNat DEF Shape, TypeOK
<1>2. e.lim \in LimitSets /\ MonthOf[e.day] \in Months
  BY <1>1, Keys DEF Reserve, EntryType
<1>3. /\ globalMonth[MonthOf[e.day]].spend <= e.lim.wallet - a
      /\ e.lim.wallet <= walletHigh /\ walletHigh' = walletHigh
  BY DEF Reserve, Admits, BudgetGate, SnapshotsBounded, history
<1>4. /\ globalMonth[MonthOf[e.day]].spend \in Int
      /\ e.lim.wallet \in Int /\ walletHigh \in Int
  BY <1>2, LimitAmounts, MaxIntNat DEF Shape, TypeOK, Account
<1>5. TopUp(r) = 0 /\ TopUp(r)' = 0
  BY <1>1 DEF TopUp
<1> HIDE DEF a
<1>6. globalMonth[MonthOf[row'[r].day]].spend + a <= walletHigh
  BY <1>1, <1>3, <1>4
<1>7. QED
  BY <1>1, <1>3, <1>5, <1>6, WalletMoves

LEMMA WalletSettle ==
  ASSUME Shape, Shape', WalletNotOversold, NEW r \in Requests,
         NEW actual \in 0..MaxInt, Settle(r, actual)
  PROVE  WalletNotOversold'
<1> DEFINE a == row[r].plan.reserved
<1>1. /\ OnlyRow(r) /\ Moves(r, actual - a) /\ actual - a \in Int
      /\ walletHigh' = walletHigh
  BY SettleMoves DEF Settle, history
<1>2. a \in 1..MaxInt /\ actual \in Int /\ a \in Int
  BY OpenRow, MaxIntNat DEF Settle
<1>3. /\ state[r] = "open" /\ state'[r] = "settled" /\ charged'[r] = actual
      /\ row'[r] = row[r]
  BY DEF Settle, Shape, TypeOK
<1>4. TopUp(r) = 0 /\ TopUp(r)' = IF actual > a THEN actual - a ELSE 0
  BY <1>3 DEF TopUp
<1> HIDE DEF a
<1>5. TopUp(r)' \in Int /\ actual - a <= TopUp(r)' - TopUp(r)
  BY <1>2, <1>4
<1>6. QED
  BY <1>1, <1>4, <1>5, WalletMoves

LEMMA WalletRollback ==
  ASSUME Shape, Shape', WalletNotOversold, NEW r \in Requests, Rollback(r)
  PROVE  WalletNotOversold'
<1> DEFINE a == row[r].plan.reserved
<1>1. OnlyRow(r) /\ Moves(r, -a) /\ -a \in Int /\ walletHigh' = walletHigh
  BY RollbackMoves DEF Rollback, history
<1>2. a \in 1..MaxInt
  BY OpenRow DEF Rollback
<1>3. state[r] = "open" /\ state'[r] = "rolled_back"
  BY DEF Rollback, Shape, TypeOK
<1>4. TopUp(r) = 0 /\ TopUp(r)' = 0
  BY <1>3 DEF TopUp
<1> HIDE DEF a
<1>5. -a <= TopUp(r)' - TopUp(r)
  BY <1>2, <1>4, MaxIntNat
<1>6. QED
  BY <1>1, <1>4, <1>5, WalletMoves

LEMMA WalletReconcile ==
  ASSUME Shape, Shape', WalletNotOversold, NEW r \in Requests, ReconcileOne(r)
  PROVE  WalletNotOversold'
<1>1. row' = row /\ UNCHANGED balances /\ walletHigh' = walletHigh
  BY DEF ReconcileOne, history
<1>2. CASE state[r] = "open"
  <2>1. /\ state' = [state EXCEPT ![r] = "orphaned"]
        /\ charged' = [charged EXCEPT ![r] = row[r].plan.reserved]
    BY <1>2 DEF ReconcileOne
  <2>2. OnlyRow(r)
    BY <1>1, <1>2, <2>1 DEF OnlyRow, Shape, TypeOK
  <2>3. TopUp(r) = 0 /\ TopUp(r)' = 0
    BY <1>2, <2>1 DEF TopUp, Shape, TypeOK
  <2>4. Moves(r, 0)
    BY <1>1 DEF Moves, balances, Shape, TypeOK, Account
  <2>5. QED
    BY <1>1, <2>2, <2>3, <2>4, WalletMoves
<1>3. CASE state[r] # "open"
  <2>1. UNCHANGED <<state, charged>>
    BY <1>3 DEF ReconcileOne
  <2>2. QED
    BY <1>1, <2>1 DEF WalletNotOversold, TopUp, Rows, balances
<1>4. QED
  BY <1>2, <1>3

LEMMA WalletReload ==
  ASSUME Shape, Shape', WalletNotOversold, NEW l \in LimitSets, Reload(l)
  PROVE  WalletNotOversold'
<1> SUFFICES ASSUME NEW m \in Months
             PROVE  globalMonth'[m].spend <= walletHigh' + ToppedUp(m)'
  BY DEF WalletNotOversold, ToppedUp, TopUpOf, SumOver
<1>1. UNCHANGED <<state, row, charged, globalMonth>>
  BY DEF Reload, ledger, balances
<1>2. ToppedUp(m)' = ToppedUp(m)
  BY <1>1 DEF ToppedUp, TopUpOf, TopUp, Rows
<1>3. globalMonth[m].spend <= walletHigh + ToppedUp(m)
  BY DEF WalletNotOversold, ToppedUp, TopUpOf, SumOver
<1>4. l.wallet \in 0..MaxInt /\ walletHigh \in 0..MaxInt
  BY LimitAmounts DEF Shape, TypeOK
<1>5. walletHigh <= walletHigh' /\ walletHigh' \in Int /\ walletHigh \in Int
  BY <1>4, MaxIntNat DEF Reload
<1>6. globalMonth[m].spend \in Int
  BY MaxIntNat DEF Shape, TypeOK, Account
<1>7. ToppedUp(m) \in Int
  <2>1. TopUpOf \in [Requests -> 0..MaxInt]
    BY TopUpTyped
  <2>2. [q \in Requests |-> IF q \in {p \in Rows : MonthOf[row[p].day] = m}
                            THEN TopUpOf[q] ELSE 0] \in [Requests -> 0..MaxInt]
    BY <2>1, MaxIntNat
  <2>3. ToppedUp(m) \in Nat
    BY <2>2, MaxIntNat, CoinsFinite, LedgerAssumption DEF ToppedUp, SumOver, LedgerAssumption
  <2>4. QED
    BY <2>3
<1>8. QED
  BY <1>1, <1>2, <1>3, <1>5, <1>6, <1>7

LEMMA WalletInitially == Init => WalletNotOversold
<1> SUFFICES ASSUME Init, NEW m \in Months
             PROVE  globalMonth[m].spend <= walletHigh + ToppedUp(m)
  BY DEF WalletNotOversold, ToppedUp, TopUpOf
<1>1. [q \in Requests |-> IF q \in {p \in Rows : MonthOf[row[p].day] = m}
                          THEN TopUpOf[q] ELSE 0] \in [Requests -> {0}]
  BY DEF TopUpOf, TopUp, Init
<1>2. ToppedUp(m) = 0
  BY <1>1, TotalZero, MaxIntNat DEF ToppedUp, SumOver
<1>3. globalMonth[m].spend = 0 /\ walletHigh \in 0..MaxInt
  BY LimitAmounts DEF Init, Zero
<1>4. QED
  BY <1>2, <1>3, MaxIntNat

LEMMA WalletNext ==
  Shape /\ Shape' /\ SnapshotsBounded /\ WalletNotOversold /\ [Next]_vars
    => WalletNotOversold'
<1> SUFFICES ASSUME Shape, Shape', SnapshotsBounded, WalletNotOversold, [Next]_vars
             PROVE  WalletNotOversold'
  OBVIOUS
<1>1. CASE UNCHANGED <<state, row, charged, globalMonth, walletHigh>>
  BY <1>1 DEF WalletNotOversold, TopUp, Rows
<1>2. QED
  BY <1>1, WalletReserve, WalletSettle, WalletRollback, WalletReconcile, WalletReload
  DEF Next, vars, ledger, balances, history, SnapshotPeriod, SnapshotLimits,
      ReserveFails, Age, Scan, ResetMonthlyRequests, NextDay, Crash

(***************************************************************************)
(* The monthly wallet is never oversold by the gate: what it holds beyond  *)
(* the largest limit ever in force is at most what settlements above their *)
(* reservations added.                                                     *)
(***************************************************************************)
THEOREM WalletIsNotOversold == Spec => []WalletNotOversold
<1>1. Init => Shape /\ SnapshotsBounded /\ WalletNotOversold
  BY ShapeInit, SnapshotsInit, WalletInitially
<1>2. Shape /\ SnapshotsBounded /\ WalletNotOversold /\ [Next]_vars
        => (Shape /\ SnapshotsBounded /\ WalletNotOversold)'
  BY ShapeNext, SnapshotsNext, WalletNext
<1>3. QED
  BY <1>1, <1>2, PTL DEF Spec

-----------------------------------------------------------------------------
(***************************************************************************)
(* The refinement.  The wallet of a month, which the abstract              *)
(* specification computes from the requests, is the month's column.        *)
(***************************************************************************)
LEMMA CommittedIsColumn ==
  ASSUME Shape, SpendConserved, NEW m \in Months
  PROVE  AbstractWallet!Committed(m) = globalMonth[m].spend
<1> DEFINE R == {q \in Rows : MonthOf[row[q].day] = m}
           f == [q \in Requests |->
                   IF [p \in Requests |->
                         IF state[p] = "absent" THEN None ELSE MonthOf[row[p].day]][q] = m
                   THEN CostOf[q] ELSE 0]
           g == [q \in Requests |-> IF q \in R THEN CostOf[q] ELSE 0]
<1>1. \A q \in Requests : state[q] = "absent" => CostOf[q] = 0
  BY DEF CostOf, Cost, Shape, RowsShaped
<1>2. f = g
  BY <1>1 DEF Rows
<1>3. AbstractWallet!Committed(m) = Cardinality(Coins(f, MaxInt))
  <2>1. ASSUME NEW S PROVE AbstractWallet!Cardinality(S) = Cardinality(S)
    BY DEF AbstractWallet!Cardinality, Cardinality
  <2>2. AbstractWallet!Committed(m) = AbstractWallet!Cardinality(Coins(f, MaxInt))
    BY DEF AbstractWallet!Committed, AbstractWallet!Total, AbstractWallet!Coins, Coins, CostOf
  <2>3. QED
    BY <2>1, <2>2
<1>4. globalMonth[m].spend = Cardinality(Coins(g, MaxInt))
  BY DEF SpendConserved, SpendIn, SumOver, Total, CostOf
<1>5. QED
  BY <1>2, <1>3, <1>4

\* The refinement mapping of AbstractWallet.
Phase ==
  [r \in Requests |-> CASE state[r] = "absent" -> "new"
                        [] state[r] = "open" -> "held"
                        [] OTHER -> "closed"]

Month == [r \in Requests |-> IF state[r] = "absent" THEN None ELSE MonthOf[row[r].day]]

LEMMA RefinesInit == Init => AbstractWallet!WalletInit
<1> SUFFICES ASSUME Init PROVE AbstractWallet!WalletInit
  OBVIOUS
<1>1. Phase = [r \in Requests |-> "new"]
  BY DEF Init, Phase
<1>2. Month = [r \in Requests |-> None]
  BY DEF Init, Month
<1>3. CostOf = [r \in Requests |-> 0]
  BY DEF Init, CostOf, Cost
<1>4. walletHigh \in {l.wallet : l \in LimitSets}
  BY DEF Init
<1>5. QED
  BY <1>1, <1>2, <1>3, <1>4 DEF AbstractWallet!WalletInit, Phase, Month, CostOf

\* A step that touches row r only changes r's phase, month and amount only.
LEMMA MappedStep ==
  ASSUME NEW r \in Requests, OnlyRow(r)
  PROVE  /\ Phase' = [Phase EXCEPT ![r] = Phase'[r]]
         /\ Month' = [Month EXCEPT ![r] = Month'[r]]
         /\ CostOf' = [CostOf EXCEPT ![r] = CostOf'[r]]
         /\ state[r] # "absent" => Month' = Month
<1>1. \A q \in Requests \ {r} :
        Phase'[q] = Phase[q] /\ Month'[q] = Month[q] /\ CostOf'[q] = CostOf[q]
  BY DEF OnlyRow, Phase, Month, CostOf, Cost
<1>2. /\ Phase = [q \in Requests |-> Phase[q]] /\ Phase' = [q \in Requests |-> Phase'[q]]
      /\ Month = [q \in Requests |-> Month[q]] /\ Month' = [q \in Requests |-> Month'[q]]
      /\ CostOf = [q \in Requests |-> CostOf[q]] /\ CostOf' = [q \in Requests |-> CostOf'[q]]
  BY DEF Phase, Month, CostOf
<1>3. /\ Phase' = [Phase EXCEPT ![r] = Phase'[r]]
      /\ Month' = [Month EXCEPT ![r] = Month'[r]]
      /\ CostOf' = [CostOf EXCEPT ![r] = CostOf'[r]]
  BY <1>1, <1>2
<1>4. state[r] # "absent" => Month'[r] = Month[r]
  BY DEF OnlyRow, Month
<1>5. QED
  BY <1>1, <1>2, <1>3, <1>4

\* Reserve is the abstract Hold: the gate on the column is the gate on the sum.
LEMMA ReserveHolds ==
  ASSUME Shape, Shape', SpendConserved, SnapshotsBounded, NEW r \in Requests, Reserve(r)
  PROVE  AbstractWallet!WalletNext
<1> DEFINE e == entry[r]
           a == e.plan.reserved
           m == MonthOf[e.day]
<1>1. /\ OnlyRow(r) /\ Cost(r)' - Cost(r) = a /\ a \in 1..MaxInt
      /\ state[r] = "absent" /\ state'[r] = "open"
      /\ row'[r].day = e.day /\ e \in EntryType /\ row'[r].plan = e.plan
  BY ReserveMoves DEF Shape, TypeOK
<1>2. e.lim \in LimitSets /\ m \in Months
  BY <1>1, Keys DEF Reserve, EntryType
<1>3. /\ globalMonth[m].spend <= e.lim.wallet - a
      /\ e.lim.wallet <= walletHigh /\ walletHigh' = walletHigh
  BY DEF Reserve, Admits, BudgetGate, SnapshotsBounded, history
<1>4. /\ globalMonth[m].spend \in Int
      /\ e.lim.wallet \in Int /\ walletHigh \in Int /\ a \in Int
  BY <1>1, <1>2, LimitAmounts, MaxIntNat DEF Shape, TypeOK, Account
<1>5. Phase[r] = "new" /\ Phase'[r] = "held"
  BY <1>1 DEF Phase
<1>6. CostOf'[r] = a /\ Month'[r] = m
  BY <1>1 DEF CostOf, Cost, Month
<1> HIDE DEF a, m
<1>7. AbstractWallet!Committed(m) + a <= walletHigh
  BY <1>2, <1>3, <1>4, CommittedIsColumn
<1>8. /\ Phase' = [Phase EXCEPT ![r] = "held"]
      /\ Month' = [Month EXCEPT ![r] = m]
      /\ CostOf' = [CostOf EXCEPT ![r] = a]
  BY <1>1, <1>5, <1>6, MappedStep
<1>9. PICK held \in 1..MaxInt, in \in Months : held = a /\ in = m
  BY <1>1, <1>2
<1>10. AbstractWallet!Hold(r, in, held)
  BY <1>3, <1>5, <1>7, <1>8, <1>9 DEF AbstractWallet!Hold, Phase, Month, CostOf
<1>11. QED
  BY <1>10 DEF AbstractWallet!WalletNext

\* A step that closes the open row r at amount a is the abstract Close.
LEMMA ClosesOnce ==
  ASSUME Shape, SpendConserved, NEW r \in Requests, OnlyRow(r),
         state[r] = "open", state'[r] \in Terminal, walletHigh' = walletHigh,
         NEW a \in 0..MaxInt, Cost(r)' = a,
         globalMonth[MonthOf[row[r].day]].spend - row[r].plan.reserved + a <= MaxInt
  PROVE  AbstractWallet!WalletNext
<1> DEFINE m == MonthOf[row[r].day]
<1>1. Phase[r] = "held" /\ Phase'[r] = "closed"
  BY DEF Phase, Terminal
<1>2. CostOf'[r] = a /\ CostOf[r] = row[r].plan.reserved /\ Month[r] = m
  BY DEF CostOf, Cost, Month
<1>3. m \in Months
  BY OpenRow, Keys
<1>4. AbstractWallet!Committed(Month[r]) - CostOf[r] + a <= MaxInt
  BY <1>2, <1>3, CommittedIsColumn
<1>5. /\ Phase' = [Phase EXCEPT ![r] = "closed"]
      /\ Month' = Month
      /\ CostOf' = [CostOf EXCEPT ![r] = a]
  BY <1>1, <1>2, MappedStep
<1>6. AbstractWallet!Close(r, a)
  BY <1>1, <1>4, <1>5 DEF AbstractWallet!Close, Phase, Month, CostOf
<1>7. QED
  BY <1>6 DEF AbstractWallet!WalletNext

LEMMA SettleCloses ==
  ASSUME Shape, SpendConserved, NEW r \in Requests, NEW actual \in 0..MaxInt,
         Settle(r, actual)
  PROVE  AbstractWallet!WalletNext
<1> DEFINE a == row[r].plan.reserved
           s == globalMonth[MonthOf[row[r].day]].spend
<1>1. /\ state[r] = "open" /\ state'[r] = "settled" /\ charged'[r] = actual
      /\ walletHigh' = walletHigh /\ OnlyRow(r)
  BY SettleMoves DEF Settle, Shape, TypeOK, history
<1>2. s + (actual - a) \in 0..MaxInt
  BY DEF Settle, CanAdjust, SpendAccounts
<1>3. s \in Int /\ a \in Int /\ actual \in Int
  BY <1>1, OpenRow, MaxIntNat DEF Account
<1>4. Cost(r)' = actual
  BY <1>1 DEF Cost
<1> HIDE DEF a, s
<1>5. s - a + actual <= MaxInt
  BY <1>2, <1>3, MaxIntNat
<1>6. QED
  BY <1>1, <1>4, <1>5, ClosesOnce DEF a, s, Terminal

LEMMA RollbackCloses ==
  ASSUME Shape, SpendConserved, NEW r \in Requests, Rollback(r)
  PROVE  AbstractWallet!WalletNext
<1> DEFINE a == row[r].plan.reserved
           s == globalMonth[MonthOf[row[r].day]].spend
<1>1. /\ state[r] = "open" /\ state'[r] = "rolled_back" /\ charged'[r] = charged[r]
      /\ walletHigh' = walletHigh /\ OnlyRow(r)
  BY RollbackMoves DEF Rollback, Shape, TypeOK, history
<1>2. s \in 0..MaxInt /\ a \in 1..MaxInt /\ charged[r] = 0
  BY <1>1, OpenRow DEF Account
<1>3. Cost(r)' = 0 /\ 0 \in 0..MaxInt
  BY <1>1, <1>2, MaxIntNat DEF Cost
<1> HIDE DEF a, s
<1>4. s - a + 0 <= MaxInt
  BY <1>2, MaxIntNat
<1>5. QED
  BY <1>1, <1>3, <1>4, ClosesOnce DEF a, s, Terminal

LEMMA ReconcileCloses ==
  ASSUME Shape, SpendConserved, NEW r \in Requests, ReconcileOne(r), state[r] = "open"
  PROVE  AbstractWallet!WalletNext
<1> DEFINE a == row[r].plan.reserved
           s == globalMonth[MonthOf[row[r].day]].spend
<1>1. /\ state'[r] = "orphaned" /\ charged'[r] = a
      /\ walletHigh' = walletHigh /\ OnlyRow(r)
  BY DEF ReconcileOne, Shape, TypeOK, history, OnlyRow
<1>2. s \in 0..MaxInt /\ a \in 1..MaxInt
  BY OpenRow DEF Account
<1>3. Cost(r)' = a /\ a \in 0..MaxInt
  BY <1>1, <1>2, MaxIntNat DEF Cost
<1> HIDE DEF a, s
<1>4. s - a + a <= MaxInt
  BY <1>2, MaxIntNat
<1>5. QED
  BY <1>1, <1>3, <1>4, ClosesOnce DEF a, s, Terminal

LEMMA RefinesNext ==
  Shape /\ Shape' /\ SpendConserved /\ SnapshotsBounded /\ [Next]_vars
    => [AbstractWallet!WalletNext]_(AbstractWallet!walletVars)
<1> SUFFICES ASSUME Shape, Shape', SpendConserved, SnapshotsBounded, [Next]_vars
             PROVE  AbstractWallet!WalletNext \/ UNCHANGED AbstractWallet!walletVars
  OBVIOUS
<1>1. ASSUME UNCHANGED <<state, row, charged, walletHigh>>
      PROVE  UNCHANGED AbstractWallet!walletVars
  BY <1>1 DEF AbstractWallet!walletVars, Cost
<1>2. ASSUME NEW r \in Requests, ReconcileOne(r)
      PROVE  AbstractWallet!WalletNext \/ UNCHANGED AbstractWallet!walletVars
  BY <1>1, <1>2, ReconcileCloses DEF ReconcileOne, history
<1>3. ASSUME NEW l \in LimitSets, Reload(l)
      PROVE  AbstractWallet!WalletNext \/ UNCHANGED AbstractWallet!walletVars
  <2>1. UNCHANGED <<state, row, charged>>
    BY <1>3 DEF Reload, ledger
  <2>2. CASE l.wallet > walletHigh
    <3>1. Phase' = Phase /\ Month' = Month /\ CostOf' = CostOf
      BY <2>1 DEF Phase, Month, CostOf, Cost
    <3>2. walletHigh' = l.wallet /\ l.wallet \in {x.wallet : x \in LimitSets}
      BY <1>3, <2>2 DEF Reload
    <3>3. AbstractWallet!Raise(l.wallet)
      BY <2>2, <3>1, <3>2 DEF AbstractWallet!Raise, Phase, Month, CostOf
    <3>4. QED
      BY <3>2, <3>3 DEF AbstractWallet!WalletNext
  <2>3. CASE ~(l.wallet > walletHigh)
    BY <1>1, <1>3, <2>1, <2>3 DEF Reload
  <2>4. QED
    BY <2>2, <2>3
<1>4. QED
  BY <1>1, <1>2, <1>3, ReserveHolds, SettleCloses, RollbackCloses
  DEF Next, vars, ledger, history, SnapshotPeriod, SnapshotLimits, ReserveFails, Age,
      Scan, ResetMonthlyRequests, NextDay, Crash

(***************************************************************************)
(* The ledger implements the wallet: gating on the aggregate column of     *)
(* global_spend_monthly admits exactly what gating on the sum of the rows  *)
(* would, for every interleaving, reload, rollover and crash.              *)
(***************************************************************************)
THEOREM LedgerImplementsWallet == Spec => ImplementsWallet
<1> DEFINE Inv == Shape /\ SpendConserved /\ SnapshotsBounded
<1>1. Init => Inv
  BY ShapeInit, SpendInit, SnapshotsInit
<1>2. Inv /\ [Next]_vars => Inv'
  BY ShapeNext, SpendNext, SnapshotsNext
<1>3. Inv /\ Inv' /\ [Next]_vars => [AbstractWallet!WalletNext]_(AbstractWallet!walletVars)
  BY RefinesNext
<1> HIDE DEF Inv
<1>4. QED
  BY <1>1, <1>2, <1>3, RefinesInit, PTL DEF Spec, ImplementsWallet, AbstractWallet!WalletSpec
=============================================================================
