---------------------------- MODULE QuotaLedger -----------------------------
(***************************************************************************)
(* The spend ledger of the gateway: infra/store/quotastore, driven by      *)
(* app/quota.  A request takes an entry snapshot of the period and of the  *)
(* limits, then reserves, settles or rolls back in transactions that the   *)
(* single SQLite writer serialises, so each transaction is one action.     *)
(* Between two transactions anything may happen: a limit is hot-reloaded,  *)
(* the day or the month rolls over, the process dies, or the orphan        *)
(* reconciler closes a row it listed earlier.                              *)
(***************************************************************************)
EXTENDS Integers, FiniteSets, Tally

CONSTANTS
  Requests,    \* request ids (the primary key of spend_ledger)
  Installs,    \* install ids
  Providers,   \* provider ids
  Days,        \* period_day values, an interval of integers
  Months,      \* period_month values
  MonthOf,     \* the month a day lies in
  Plans,       \* billing plans that pass Plan.Validate
  LimitSets,   \* the Limits snapshots the configuration can be reloaded to
  MaxInt,      \* math.MaxInt64
  None         \* no ledger row, no entry snapshot, no limits read yet

Categories == {"image", "speech", "video", "voice"}

InputClasses ==
  {"standard", "audio_seconds", "images", "characters", "video_seconds", "voices"}

PlanType ==
  [provider : Providers, class : InputClasses, quote : 0..MaxInt,
   reserved : 1..MaxInt]

LimitType ==
  [monthly : 0..MaxInt, wallet : 0..MaxInt, sublimit : 0..MaxInt,
   cap : [Categories -> 0..MaxInt]]

ASSUME LedgerAssumption ==
  /\ IsFiniteSet(Requests)
  /\ MaxInt \in Nat \ {0}
  /\ Days \subseteq Int
  /\ MonthOf \in [Days -> Months]
  /\ Plans \subseteq PlanType
  /\ LimitSets \subseteq LimitType
  /\ None \notin LimitSets
  /\ None \notin [install : Installs, plan : Plans, day : Days, sublimit : BOOLEAN]
  /\ None \notin [install : Installs, plan : Plans, day : Days,
                 lim : LimitSets \cup {None}]

VARIABLES
  today,        \* the wall clock's day in the configured zone
  limits,       \* the configuration's current Limits
  entry,        \* per request: its entry snapshot while it waits for the writer
  state,        \* spend_ledger.state ("absent" before the insert)
  row,          \* the other columns of spend_ledger fixed by the insert
  charged,      \* spend_ledger.charged_pusd (0 while it is NULL)
  quotaMonthly, \* quota_monthly.requests
  installDay,   \* install_spend_daily: spend and requests
  categoryDay,  \* install_category_daily.units
  providerDay,  \* provider_spend_daily: spend and requests
  globalDay,    \* global_spend_daily: spend and requests
  globalMonth,  \* global_spend_monthly: spend and requests
  aged,         \* rows created before the reconciler's cutoff
  scanned,      \* ids the reconciler read and has not visited yet
  forgiven,     \* history: requests whose monthly count a reset has cleared
  walletHigh    \* history: the largest wallet limit ever in force

env       == <<today, limits>>
ledger    == <<state, row, charged>>
balances  == <<quotaMonthly, installDay, categoryDay, providerDay, globalDay,
               globalMonth>>
scanner   == <<aged, scanned>>
history   == <<forgiven, walletHigh>>
vars      == <<env, entry, ledger, balances, scanner, history>>

RowType == [install : Installs, plan : Plans, day : Days, sublimit : BOOLEAN]

Account == [spend : 0..MaxInt, requests : Nat]

\* The period is snapshotted at request entry, the limits when Reserve is called.
EntryType ==
  [install : Installs, plan : Plans, day : Days, lim : LimitSets \cup {None}]

Terminal == {"settled", "rolled_back", "orphaned"}

(***************************************************************************)
(* What a plan consumes of the per-category daily unit ledger.  A video    *)
(* plan is quoted in seconds but consumes one clip.                        *)
(***************************************************************************)
CategoryOf ==
  [images |-> "image", characters |-> "speech", video_seconds |-> "video",
   voices |-> "voice"]

HasCategory(p) == p.class \in DOMAIN CategoryOf

UnitsOf(p) == IF p.class = "video_seconds" THEN 1 ELSE p.quote

-----------------------------------------------------------------------------
TypeOK ==
  /\ today \in Days
  /\ limits \in LimitSets
  /\ entry \in [Requests -> EntryType \cup {None}]
  /\ state \in [Requests -> Terminal \cup {"absent", "open"}]
  /\ row \in [Requests -> RowType \cup {None}]
  /\ charged \in [Requests -> 0..MaxInt]
  /\ quotaMonthly \in [Installs \X Months -> Nat]
  /\ installDay \in [Installs \X Days -> Account]
  /\ categoryDay \in [Installs \X Categories \X Days -> 0..MaxInt]
  /\ providerDay \in [Providers \X Days -> Account]
  /\ globalDay \in [Days -> Account]
  /\ globalMonth \in [Months -> Account]
  /\ aged \subseteq Requests
  /\ scanned \subseteq Requests
  /\ forgiven \subseteq Requests
  /\ walletHigh \in 0..MaxInt

Zero == [spend |-> 0, requests |-> 0]

Init ==
  /\ today \in Days
  /\ limits \in LimitSets
  /\ entry = [r \in Requests |-> None]
  /\ state = [r \in Requests |-> "absent"]
  /\ row = [r \in Requests |-> None]
  /\ charged = [r \in Requests |-> 0]
  /\ quotaMonthly = [k \in Installs \X Months |-> 0]
  /\ installDay = [k \in Installs \X Days |-> Zero]
  /\ categoryDay = [k \in Installs \X Categories \X Days |-> 0]
  /\ providerDay = [k \in Providers \X Days |-> Zero]
  /\ globalDay = [d \in Days |-> Zero]
  /\ globalMonth = [m \in Months |-> Zero]
  /\ aged = {}
  /\ scanned = {}
  /\ forgiven = {}
  /\ walletHigh = limits.wallet

-----------------------------------------------------------------------------
(* The keys a row is booked under. *)
InstallMonth(x) == <<x.install, MonthOf[x.day]>>
InstallToday(x) == <<x.install, x.day>>
CategoryToday(x) == <<x.install, CategoryOf[x.plan.class], x.day>>
ProviderToday(x) == <<x.plan.provider, x.day>>

Post(account, spend, requests) ==
  [spend |-> account.spend + spend, requests |-> account.requests + requests]

(***************************************************************************)
(* app/quota Service: the entry snapshots, taken outside the transaction.  *)
(***************************************************************************)
SnapshotPeriod(r, i, p) ==
  /\ state[r] = "absent"
  /\ entry[r] = None
  /\ entry' = [entry EXCEPT ![r] =
                 [install |-> i, plan |-> p, day |-> today, lim |-> None]]
  /\ UNCHANGED <<env, ledger, balances, scanner, history>>

SnapshotLimits(r) ==
  /\ entry[r] # None
  /\ entry[r].lim = None
  /\ entry' = [entry EXCEPT ![r].lim = limits]
  /\ UNCHANGED <<env, ledger, balances, scanner, history>>

(***************************************************************************)
(* The gates of Reserve, each one a conditional UPDATE of the transaction. *)
(***************************************************************************)
MonthlyGate(e) == quotaMonthly[InstallMonth(e)] < e.lim.monthly

SublimitGate(e) ==
  e.lim.sublimit > 0 => installDay[InstallToday(e)].requests < e.lim.sublimit

\* A disabled cap (0) still records consumption, up to the integer ceiling.
CategoryGate(e) ==
  HasCategory(e.plan) =>
    LET cap == e.lim.cap[CategoryOf[e.plan.class]]
    IN  categoryDay[CategoryToday(e)] + UnitsOf(e.plan)
          <= IF cap > 0 THEN cap ELSE MaxInt

\* Mutant: the budget gate ignores the reservation it is about to add.
BudgetGateIgnoresRequest(e) ==
  globalMonth[MonthOf[e.day]].spend <= e.lim.wallet

BudgetGate(e) ==
  globalMonth[MonthOf[e.day]].spend <= e.lim.wallet - e.plan.reserved

CeilingGate(e) ==
  \A a \in {installDay[InstallToday(e)], providerDay[ProviderToday(e)],
            globalDay[e.day]} :
    a.spend <= MaxInt - e.plan.reserved

Admits(e) ==
  MonthlyGate(e) /\ CeilingGate(e) /\ SublimitGate(e) /\ CategoryGate(e)
    /\ BudgetGate(e)

\* One transaction books the reservation in every table and inserts the row.
Book(r, e) ==
  LET sub == e.lim.sublimit > 0
      amt == e.plan.reserved
  IN  /\ state' = [state EXCEPT ![r] = "open"]
      /\ row' = [row EXCEPT ![r] = [install |-> e.install, plan |-> e.plan,
                                    day |-> e.day, sublimit |-> sub]]
      /\ quotaMonthly' = [quotaMonthly EXCEPT ![InstallMonth(e)] = @ + 1]
      /\ installDay' = [installDay EXCEPT ![InstallToday(e)] =
                          Post(@, amt, IF sub THEN 1 ELSE 0)]
      /\ categoryDay' = IF HasCategory(e.plan)
                        THEN [categoryDay EXCEPT ![CategoryToday(e)] =
                                @ + UnitsOf(e.plan)]
                        ELSE categoryDay
      /\ providerDay' = [providerDay EXCEPT ![ProviderToday(e)] = Post(@, amt, 1)]
      /\ globalDay' = [globalDay EXCEPT ![e.day] = Post(@, amt, 1)]
      /\ globalMonth' = [globalMonth EXCEPT ![MonthOf[e.day]] = Post(@, amt, 1)]

Reserve(r) ==
  /\ entry[r] # None
  /\ entry[r].lim # None
  /\ Admits(entry[r])
  /\ Book(r, entry[r])
  /\ entry' = [entry EXCEPT ![r] = None]
  /\ UNCHANGED <<env, charged, scanner, history>>

\* A gate denies the request, or its transaction fails: nothing is booked.
ReserveFails(r) ==
  /\ entry[r] # None
  /\ entry' = [entry EXCEPT ![r] = None]
  /\ UNCHANGED <<env, ledger, balances, scanner, history>>

(***************************************************************************)
(* Settle: the compare-and-set from open picks the one terminal winner;    *)
(* then every spend column moves by actual - reserved.  A refund must not  *)
(* underflow and a top-up must not overflow, or the transaction aborts and *)
(* the row stays open.                                                     *)
(***************************************************************************)
SpendAccounts(x) ==
  {installDay[InstallToday(x)], providerDay[ProviderToday(x)], globalDay[x.day],
   globalMonth[MonthOf[x.day]]}

\* Mutant: the arithmetic guards of the settle UPDATEs are dropped.
CanAdjustUnguarded(x, delta) == TRUE

CanAdjust(x, delta) ==
  \A a \in SpendAccounts(x) : a.spend + delta \in 0..MaxInt

\* Mutant: the settle delta never reaches the monthly wallet.
AdjustSpendSkipsWallet(x, delta) ==
  /\ installDay' = [installDay EXCEPT ![InstallToday(x)] = Post(@, delta, 0)]
  /\ providerDay' = [providerDay EXCEPT ![ProviderToday(x)] = Post(@, delta, 0)]
  /\ globalDay' = [globalDay EXCEPT ![x.day] = Post(@, delta, 0)]
  /\ UNCHANGED <<quotaMonthly, categoryDay, globalMonth>>

AdjustSpend(x, delta) ==
  /\ installDay' = [installDay EXCEPT ![InstallToday(x)] = Post(@, delta, 0)]
  /\ providerDay' = [providerDay EXCEPT ![ProviderToday(x)] = Post(@, delta, 0)]
  /\ globalDay' = [globalDay EXCEPT ![x.day] = Post(@, delta, 0)]
  /\ globalMonth' = [globalMonth EXCEPT ![MonthOf[x.day]] = Post(@, delta, 0)]
  /\ UNCHANGED <<quotaMonthly, categoryDay>>

Settle(r, actual) ==
  LET delta == actual - row[r].plan.reserved
  IN  /\ state[r] = "open"
      /\ CanAdjust(row[r], delta)
      /\ state' = [state EXCEPT ![r] = "settled"]
      /\ charged' = [charged EXCEPT ![r] = actual]
      /\ AdjustSpend(row[r], delta)
      /\ UNCHANGED <<env, entry, row, scanner, history>>

(***************************************************************************)
(* Rollback: reverses exactly what the row recorded.  A missing unit in    *)
(* any table is accounting corruption and aborts the transaction.          *)
(***************************************************************************)
CanRollback(x) ==
  /\ CanAdjust(x, -x.plan.reserved)
  /\ x.sublimit => installDay[InstallToday(x)].requests >= 1
  /\ HasCategory(x.plan) => categoryDay[CategoryToday(x)] >= UnitsOf(x.plan)
  /\ providerDay[ProviderToday(x)].requests >= 1
  /\ globalDay[x.day].requests >= 1
  /\ globalMonth[MonthOf[x.day]].requests >= 1
  /\ quotaMonthly[InstallMonth(x)] >= 1

\* Mutant: the sublimit to reverse is read from the live configuration.
RollbackReadsConfig(r) ==
  LET x   == row[r]
      amt == x.plan.reserved
  IN  /\ state[r] = "open"
      /\ CanRollback(x)
      /\ state' = [state EXCEPT ![r] = "rolled_back"]
      /\ quotaMonthly' = [quotaMonthly EXCEPT ![InstallMonth(x)] = @ - 1]
      /\ installDay' = [installDay EXCEPT ![InstallToday(x)] =
                          Post(@, -amt, IF limits.sublimit > 0 THEN -1 ELSE 0)]
      /\ categoryDay' = IF HasCategory(x.plan)
                        THEN [categoryDay EXCEPT ![CategoryToday(x)] =
                                @ - UnitsOf(x.plan)]
                        ELSE categoryDay
      /\ providerDay' = [providerDay EXCEPT ![ProviderToday(x)] = Post(@, -amt, -1)]
      /\ globalDay' = [globalDay EXCEPT ![x.day] = Post(@, -amt, -1)]
      /\ globalMonth' = [globalMonth EXCEPT ![MonthOf[x.day]] = Post(@, -amt, -1)]
      /\ UNCHANGED <<env, entry, row, charged, scanner, history>>

Rollback(r) ==
  LET x   == row[r]
      amt == x.plan.reserved
  IN  /\ state[r] = "open"
      /\ CanRollback(x)
      /\ state' = [state EXCEPT ![r] = "rolled_back"]
      /\ quotaMonthly' = [quotaMonthly EXCEPT ![InstallMonth(x)] = @ - 1]
      /\ installDay' = [installDay EXCEPT ![InstallToday(x)] =
                          Post(@, -amt, IF x.sublimit THEN -1 ELSE 0)]
      /\ categoryDay' = IF HasCategory(x.plan)
                        THEN [categoryDay EXCEPT ![CategoryToday(x)] =
                                @ - UnitsOf(x.plan)]
                        ELSE categoryDay
      /\ providerDay' = [providerDay EXCEPT ![ProviderToday(x)] = Post(@, -amt, -1)]
      /\ globalDay' = [globalDay EXCEPT ![x.day] = Post(@, -amt, -1)]
      /\ globalMonth' = [globalMonth EXCEPT ![MonthOf[x.day]] = Post(@, -amt, -1)]
      /\ UNCHANGED <<env, entry, row, charged, scanner, history>>

(***************************************************************************)
(* ReconcileOrphans: one read lists the aged open rows, then each id is    *)
(* closed in a transaction of its own at its full reserved cost.           *)
(***************************************************************************)
Age(r) ==
  /\ state[r] = "open"
  /\ aged' = aged \cup {r}
  /\ UNCHANGED <<env, entry, ledger, balances, scanned, history>>

Scan ==
  /\ scanned = {}
  /\ scanned' = {r \in aged : state[r] = "open"}
  /\ UNCHANGED <<env, entry, ledger, balances, aged, history>>

\* Mutant: the reconciler trusts its list and skips the compare-and-set.
ReconcileOneNoCAS(r) ==
  /\ r \in scanned
  /\ scanned' = scanned \ {r}
  /\ state' = [state EXCEPT ![r] = "orphaned"]
  /\ charged' = [charged EXCEPT ![r] = row[r].plan.reserved]
  /\ UNCHANGED <<env, entry, row, balances, aged, history>>

ReconcileOne(r) ==
  /\ r \in scanned
  /\ scanned' = scanned \ {r}
  /\ IF state[r] = "open"
     THEN /\ state' = [state EXCEPT ![r] = "orphaned"]
          /\ charged' = [charged EXCEPT ![r] = row[r].plan.reserved]
     ELSE UNCHANGED <<state, charged>>
  /\ UNCHANGED <<env, entry, row, balances, aged, history>>

(***************************************************************************)
(* ResetMonthlyRequests: refused while any row is open.  Its period is a   *)
(* snapshot too, so the month may already be over.                         *)
(***************************************************************************)
\* Mutant: the reset does not wait for open reservations.
ResetUnguarded(m) ==
  /\ \E d \in Days : d <= today /\ MonthOf[d] = m
  /\ quotaMonthly' = [k \in Installs \X Months |->
                        IF k[2] = m THEN 0 ELSE quotaMonthly[k]]
  /\ forgiven' = forgiven \cup
       {r \in Requests : state[r] # "absent" /\ MonthOf[row[r].day] = m}
  /\ UNCHANGED <<env, entry, ledger, installDay, categoryDay, providerDay,
                 globalDay, globalMonth, scanner, walletHigh>>

ResetMonthlyRequests(m) ==
  /\ \E d \in Days : d <= today /\ MonthOf[d] = m
  /\ \A r \in Requests : state[r] # "open"
  /\ quotaMonthly' = [k \in Installs \X Months |->
                        IF k[2] = m THEN 0 ELSE quotaMonthly[k]]
  /\ forgiven' = forgiven \cup
       {r \in Requests : state[r] # "absent" /\ MonthOf[row[r].day] = m}
  /\ UNCHANGED <<env, entry, ledger, installDay, categoryDay, providerDay,
                 globalDay, globalMonth, scanner, walletHigh>>

(***************************************************************************)
(* The surroundings: configuration reload, the clock, a process crash.     *)
(***************************************************************************)
Reload(l) ==
  /\ limits' = l
  /\ walletHigh' = IF l.wallet > walletHigh THEN l.wallet ELSE walletHigh
  /\ UNCHANGED <<today, entry, ledger, balances, scanner, forgiven>>

NextDay ==
  /\ today + 1 \in Days
  /\ today' = today + 1
  /\ UNCHANGED <<limits, entry, ledger, balances, scanner, history>>

\* Requests waiting for the writer and the reconciler's list live in memory.
Crash ==
  /\ entry' = [r \in Requests |-> None]
  /\ scanned' = {}
  /\ UNCHANGED <<env, ledger, balances, aged, history>>

Next ==
  \/ \E r \in Requests, i \in Installs, p \in Plans : SnapshotPeriod(r, i, p)
  \/ \E r \in Requests : SnapshotLimits(r)
  \/ \E r \in Requests : Reserve(r)
  \/ \E r \in Requests : ReserveFails(r)
  \/ \E r \in Requests, actual \in 0..MaxInt : Settle(r, actual)
  \/ \E r \in Requests : Rollback(r)
  \/ \E r \in Requests : Age(r)
  \/ Scan
  \/ \E r \in Requests : ReconcileOne(r)
  \/ \E m \in Months : ResetMonthlyRequests(m)
  \/ \E l \in LimitSets : Reload(l)
  \/ NextDay
  \/ Crash

Spec == Init /\ [][Next]_vars

-----------------------------------------------------------------------------
(* The cost a row stands for: its reservation while open, then its charge. *)
Cost(r) == IF state[r] = "open" THEN row[r].plan.reserved ELSE charged[r]

\* A row keeps its request counts unless it was rolled back.
Counts(r) == state[r] \in {"open", "settled", "orphaned"}

Rows == {r \in Requests : state[r] # "absent"}

SumOver(R, w) == Total([r \in Requests |-> IF r \in R THEN w[r] ELSE 0], MaxInt)

SpendIn(R) == SumOver(R, [r \in Requests |-> Cost(r)])

CountIn(R) == SumOver(R, [r \in Requests |-> IF Counts(r) THEN 1 ELSE 0])

UnitsIn(R) ==
  SumOver(R, [r \in Requests |-> IF Counts(r) THEN UnitsOf(row[r].plan) ELSE 0])

(***************************************************************************)
(* Every spend column equals the sum of the costs of the ledger rows       *)
(* booked under its key.  Reserve, Settle, Rollback and ReconcileOrphans   *)
(* run in any order, across a month rollover, and keep it.                 *)
(***************************************************************************)
SpendConserved ==
  /\ \A i \in Installs, d \in Days :
       installDay[<<i, d>>].spend =
         SpendIn({r \in Rows : InstallToday(row[r]) = <<i, d>>})
  /\ \A v \in Providers, d \in Days :
       providerDay[<<v, d>>].spend =
         SpendIn({r \in Rows : ProviderToday(row[r]) = <<v, d>>})
  /\ \A d \in Days :
       globalDay[d].spend = SpendIn({r \in Rows : row[r].day = d})
  /\ \A m \in Months :
       globalMonth[m].spend = SpendIn({r \in Rows : MonthOf[row[r].day] = m})

(***************************************************************************)
(* Every request counter equals the number of rows that were not rolled    *)
(* back; the install's daily counter counts the rows whose sublimit +1     *)
(* fired, whatever the sublimit was reloaded to since.                     *)
(***************************************************************************)
CountsConserved ==
  /\ \A i \in Installs, d \in Days :
       installDay[<<i, d>>].requests =
         CountIn({r \in Rows : InstallToday(row[r]) = <<i, d>> /\ row[r].sublimit})
  /\ \A v \in Providers, d \in Days :
       providerDay[<<v, d>>].requests =
         CountIn({r \in Rows : ProviderToday(row[r]) = <<v, d>>})
  /\ \A d \in Days :
       globalDay[d].requests = CountIn({r \in Rows : row[r].day = d})
  /\ \A m \in Months :
       globalMonth[m].requests = CountIn({r \in Rows : MonthOf[row[r].day] = m})

(***************************************************************************)
(* The category ledger holds the units of the rows not rolled back.        *)
(***************************************************************************)
UnitsConserved ==
  \A i \in Installs, c \in Categories, d \in Days :
    categoryDay[<<i, c, d>>] =
      UnitsIn({r \in Rows : /\ HasCategory(row[r].plan)
                            /\ CategoryToday(row[r]) = <<i, c, d>>})

(***************************************************************************)
(* An install's monthly counter is the number of its rows not rolled back  *)
(* since the last manual reset: a reset never lets an earlier reservation  *)
(* roll back into the new window.                                          *)
(***************************************************************************)
EntitlementConserved ==
  \A i \in Installs, m \in Months :
    quotaMonthly[<<i, m>>] =
      CountIn({r \in Rows \ forgiven : InstallMonth(row[r]) = <<i, m>>})

(***************************************************************************)
(* Request counters, category units and monthly entitlements are each the  *)
(* sum over the rows behind them: what a rollback gives back is what was   *)
(* taken, in the period it was taken from, whatever was reloaded, reset or *)
(* rolled over in between.                                                 *)
(***************************************************************************)
UsageConserved == CountsConserved /\ UnitsConserved /\ EntitlementConserved

(***************************************************************************)
(* Rollback, and Settle at or below the reservation, of an open row never  *)
(* meet the missing row or underflow that the store calls accounting       *)
(* corruption.                                                             *)
(***************************************************************************)
NeverCorrupt ==
  \A r \in Requests : state[r] = "open" =>
    /\ CanRollback(row[r])
    /\ \A actual \in 0..row[r].plan.reserved :
         CanAdjust(row[r], actual - row[r].plan.reserved)

(***************************************************************************)
(* The operator's monthly wallet exceeds the largest limit ever configured *)
(* only by what settled top-ups added beyond their reservations.           *)
(***************************************************************************)
TopUp(r) ==
  IF state[r] = "settled" /\ charged[r] > row[r].plan.reserved
  THEN charged[r] - row[r].plan.reserved ELSE 0

WalletNotOversold ==
  \A m \in Months :
    globalMonth[m].spend <=
      walletHigh + SumOver({r \in Rows : MonthOf[row[r].day] = m},
                           [r \in Requests |-> TopUp(r)])

(***************************************************************************)
(* A reservation has one terminal winner: once a row is settled, rolled    *)
(* back or orphaned, its state and its charge never change again, and no   *)
(* balance moves for it.                                                   *)
(***************************************************************************)
OneTerminalWinner ==
  [][\A r \in Requests : state[r] \in Terminal =>
       state'[r] = state[r] /\ charged'[r] = charged[r] /\ row'[r] = row[r]]_vars

(***************************************************************************)
(* The ledger implements the wallet: gating on the aggregate row of        *)
(* global_spend_monthly admits exactly what gating on the sum of the rows  *)
(* would, through every interleaving, reload, rollover and crash.          *)
(***************************************************************************)
AbstractWallet ==
  INSTANCE Wallet WITH
    WalletLimits <- {l.wallet : l \in LimitSets},
    phase  <- [r \in Requests |->
                 CASE state[r] = "absent" -> "new"
                   [] state[r] = "open" -> "held"
                   [] OTHER -> "closed"],
    month  <- [r \in Requests |->
                 IF state[r] = "absent" THEN None ELSE MonthOf[row[r].day]],
    amount <- [r \in Requests |-> Cost(r)],
    ceiling <- walletHigh

ImplementsWallet == AbstractWallet!WalletSpec
=============================================================================
