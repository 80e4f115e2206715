------------------------------- MODULE Cutover -------------------------------
(***************************************************************************)
(* The documents of one office and everything that turns them into pay:    *)
(* the rebuild of the ledger (rebuild.go), the reconciliation that compares*)
(* ledger and documents (reconciliation.go), the reports of commissions,   *)
(* rider payables and petrol (static/beautician_commission.go,             *)
(* static/rider_commission.go, static/petrol_weekly.go), which read the    *)
(* documents in shadow mode and the ledger in authoritative mode, and the  *)
(* change of the mode (http.go).                                           *)
(*                                                                         *)
(* A rebuild and a report are each one step: their interleavings are in    *)
(* EarningsControl and SourceEvents.  Days are numbers, a month has        *)
(* DaysPerMonth of them, amounts are paise.  An amount that is missing or  *)
(* that validMoney rejects is None.                                        *)
(***************************************************************************)
EXTENDS Leaderboard

CONSTANTS
    Beauticians, Riders,
    Orders, Trips,          \* the ids of the documents
    Days, DaysPerMonth,
    OrderDocs, TripDocs,    \* the documents there may be; None is no document
    Boards, BeauticianProfiles, RiderProfiles, Offices,
    Ranges,                 \* what promotions and reports ask for
    Jobs,                   \* the rebuild jobs: [scope, range]
    Sources,                \* the documents at the start
    MaxEdits, MaxRebuilds, MaxPayments

ASSUME CutoverAssumption ==
    /\ DaysPerMonth \in Nat \ {0}
    /\ \A range \in Ranges : range.from \in Days /\ range.to \in Days /\ range.from <= range.to
    /\ \A job \in Jobs :
        job.range \in Ranges /\ job.scope \in {"all", "commissions", "petrol", "leaderboards"}
    /\ {MaxEdits, MaxRebuilds, MaxPayments} \subseteq Nat

VARIABLES
    source,                 \* the documents: orders, trips, board, profiles, office
    ledger,                 \* idempotency key -> ledger row
    mode,                   \* "shadow" or "authoritative", and the range that was
    verified,               \*   reconciled for the promotion
    left                    \* how many edits, rebuilds and payments are left

vars == <<source, ledger, mode, verified, left>>
-----------------------------------------------------------------------------
(* Days and documents.                                                     *)

Workers == Beauticians \cup Riders
OrderComponents == {"special", "general", "upgrade"}

\* Amounts that validMoney accepts; numbers that may be missing.
Money == Nat \cup {None}
Number == Int \cup {None}

OrderDoc ==
    [day : Days, beautician : Beauticians \cup {None}, status : STRING, complaint : BOOLEAN,
     snapshot : [special : Money, general : Money, upgrade : Money, cost : Money, paid : BOOLEAN]
                    \cup {None},
     details : [special : Money, general : Money, upgrade : Money, cost : Money]]

TripDoc ==
    [day : Days, completed : BOOLEAN, manual : BOOLEAN, auto : Int, extra : Int, twoWay : BOOLEAN,
     fareKm : Int, commissionable : BOOLEAN, override : Number, fareCost : Int, fareMileage : Int,
     calculatedFare : Int, driver : Beauticians \cup {None}, selfDrive : BOOLEAN,
     beautician : Beauticians \cup {None}, rider : Riders \cup {None},
     snapshot : [distance : Number, rate : Number, cost : Number, mileage : Number,
                 commission : Money, petrol : Money, paid : BOOLEAN] \cup {None}]

Roles == {"beautician", "rider"}

OfficeDoc ==
    [prizes : [Roles -> Seq(Nat)],
     settings : [Roles -> [Genders -> [enabled : BOOLEAN \cup {None}, prizes : Seq(Nat)]]],
     bonus : Nat, rates : [cost : Int, mileage : Int]]

ProfilesOf(w) == IF w \in Beauticians THEN BeauticianProfiles ELSE RiderProfiles

SourceDoc ==
    [orders : [Orders -> OrderDocs], trips : [Trips -> TripDocs], board : Boards,
     profiles : {p \in [Workers -> BeauticianProfiles \cup RiderProfiles] :
                    \A w \in Workers : p[w] \in ProfilesOf(w)},
     office : Offices]

\* Ids are ObjectIDs: nobody is both a beautician and a rider.  Amounts, prizes
\* and targets that are no money make jobs and reconciliation fail.
ASSUME CutoverDocuments ==
    /\ IsFiniteSet(Orders) /\ IsFiniteSet(Trips)
    /\ IsFiniteSet(Beauticians) /\ IsFiniteSet(Riders) /\ Beauticians \cap Riders = {}
    /\ Days \subseteq Int /\ None \notin Int \cup Workers \cup BOOLEAN \cup Ranges
    /\ OrderDocs \subseteq OrderDoc \cup {None} /\ TripDocs \subseteq TripDoc \cup {None}
    /\ Offices \subseteq OfficeDoc
    /\ \A p \in BeauticianProfiles : p.target1 \in Nat /\ p.target2 \in Nat
    /\ Sources \subseteq SourceDoc

In(range, day) == range.from <= day /\ day <= range.to
Month(day) == (day - 1) \div DaysPerMonth
WholeMonth(day) == [from |-> Month(day) * DaysPerMonth + 1, to |-> (Month(day) + 1) * DaysPerMonth]

LoadOrderSources(range) ==
    {o \in Orders :
        /\ source.orders[o] # None
        /\ source.orders[o].status = "completed"
        /\ In(range, source.orders[o].day)}

\* The date from which orders count towards the targets.
ApplicableFrom(b) == OrElse(source.profiles[b].from, 0)

LoadWorkerTargets ==
    [b \in {b \in Beauticians : ~source.profiles[b].deleted} |->
        [target1 |-> source.profiles[b].target1, target2 |-> source.profiles[b].target2,
         from |-> ApplicableFrom(b)]]

\* What the maps of rebuild.go say of a worker without targets.
TargetOf(b) ==
    IF b \in DOMAIN LoadWorkerTargets THEN LoadWorkerTargets[b]
    ELSE [target1 |-> 0, target2 |-> 0, from |-> 0]

LoadTripSources(range) ==
    {t \in Trips :
        /\ source.trips[t] # None
        /\ source.trips[t].completed
        /\ In(range, source.trips[t].day)}

LoadBeauticianLeaderboardSources(range) ==
    LET days(b) == {d \in source.board :
                      d.beautician = b /\ In(range, d.day) /\ d.day >= ApplicableFrom(b)}
    IN  {[worker |-> b,
          revenue |-> SumOver([d \in days(b) |-> d.revenue]),
          orders |-> SumOver([d \in days(b) |-> d.orders])] :
            b \in {b \in Beauticians : days(b) # {}}}

TripsOf(w, range) ==
    {t \in LoadTripSources(range) : AllowanceWorkerIDExpr(source.trips[t]) = w}

TripScore(w, range) ==
    [worker |-> w,
     trips |-> Cardinality(TripsOf(w, range)),
     distance |-> SumOver([t \in TripsOf(w, range) |-> ReportedDistance(source.trips[t])])]

LoadRiderLeaderboardSources(range) ==
    {TripScore(w, range) : w \in {w \in Workers : TripsOf(w, range) # {}}}

\* The group of a worker's trips has the type of one of them.
WorkerType(w, range) ==
    AllowanceWorkerTypeExpr(source.trips[CHOOSE t \in TripsOf(w, range) : TRUE])
-----------------------------------------------------------------------------
(* The rebuild: the rows a job puts.                                       *)

Entry(key, worker, type, day, component, amount, paid) ==
    [key |-> key, worker |-> worker, type |-> type, day |-> day,
     component |-> component, amount |-> amount, settled |-> paid]

CountedOrders(b, day) ==
    {o \in LoadOrderSources(WholeMonth(day)) :
        source.orders[o].beautician = b /\ source.orders[o].day >= TargetOf(b).from}

InvalidMonth(b, day) ==
    \E o \in CountedOrders(b, day) :
        source.orders[o].snapshot = None \/ source.orders[o].snapshot.cost = None

Revenue(b, day) ==
    SumOver([o \in CountedOrders(b, day) |-> source.orders[o].snapshot.cost])

GeneralDue(o) ==
    LET b   == source.orders[o].beautician
        day == source.orders[o].day
    IN  \/ day < TargetOf(b).from
        \/ ~InvalidMonth(b, day) /\ Revenue(b, day) >= TargetOf(b).target1

OrderAmount(o, component) ==
    IF source.orders[o].snapshot = None THEN None ELSE source.orders[o].snapshot[component]

OrderEntries(range) ==
    {LET order == source.orders[put[1]]
     IN  Entry(<<"orders", put[1], put[2]>>, order.beautician, "beautician", order.day,
               put[2], OrderAmount(put[1], put[2]), order.snapshot.paid) :
        put \in {put \in LoadOrderSources(range) \X OrderComponents :
                    /\ OrderAmount(put[1], put[2]) \notin {None, 0}
                    /\ put[2] = "general" => GeneralDue(put[1])}}

TargetEntries(range) ==
    {Entry(<<"targets", b, Month(range.to)>>, b, "beautician", WholeMonth(range.to).to,
           "target_bonus", source.office.bonus, FALSE) :
        b \in {b \in DOMAIN LoadWorkerTargets :
                 /\ TargetOf(b).target2 > 0 /\ source.office.bonus # 0
                 /\ ~InvalidMonth(b, range.to)
                 /\ Revenue(b, range.to) >= TargetOf(b).target2}}

\* The trips that pay: those with somebody to pay and a snapshot.
TripPays(t, range) ==
    EffectiveTripPayables(source.trips[t],
        LoadedRates({source.trips[u] : u \in LoadTripSources(range)}, source.office.rates))

PaidTrips(range) ==
    {t \in LoadTripSources(range) :
        AllowanceWorker(source.trips[t])[1] # None /\ source.trips[t].snapshot # None}

TripEntries(range, scope) ==
    {LET trip == source.trips[put[1]]
     IN  Entry(<<"trips", put[1], put[2]>>, AllowanceWorker(trip)[1], AllowanceWorker(trip)[2],
               trip.day, put[2], TripPays(put[1], range)[put[2]],
               trip.snapshot.paid /\ put[2] = "petrol") :
        put \in {put \in PaidTrips(range) \X {"commission", "petrol"} :
                    /\ put[2] = "commission" => scope # "petrol"
                    /\ TripPays(put[1], range)[put[2]] \notin {None, 0}}}

BeauticianAwards(range) ==
    UNION {RankBeauticians(
               OfGender(LoadBeauticianLeaderboardSources(range), source.profiles, g),
               GenderPrizes(source.office, "beautician", g)) : g \in Genders}

RiderAwards(range) ==
    UNION {RankRiders(OfGender(LoadRiderLeaderboardSources(range), source.profiles, g),
                      GenderPrizes(source.office, "rider", g)) : g \in Genders}

AwardEntry(award, type, board, range) ==
    Entry(<<"leaderboards", board, range.from, range.to, award.worker>>, award.worker, type,
          range.to, "leaderboard_bonus", award.bonus, FALSE)

AwardEntries(range) ==
    {AwardEntry(a, "beautician", "beautician", range) :
        a \in {a \in BeauticianAwards(range) : a.bonus # 0}}
    \cup
    {AwardEntry(a, WorkerType(a.worker, range), "rider", range) :
        a \in {a \in RiderAwards(range) : a.bonus # 0}}

RebuildEntries(scope, range) ==
    (IF scope \in {"all", "commissions"} THEN OrderEntries(range) \cup TargetEntries(range) ELSE {})
    \cup
    (IF scope \in {"all", "commissions", "petrol"} THEN TripEntries(range, scope) ELSE {})
    \cup
    (IF scope \in {"all", "leaderboards"} THEN AwardEntries(range) ELSE {})

\* The ledger after the puts: a row of which something is settled stays.
Put(rows, entries) ==
    LET keys   == {e.key : e \in entries}
        open(k) == IF k \in DOMAIN rows THEN ~rows[k].settled ELSE TRUE
    IN  [k \in DOMAIN rows \cup keys |->
            IF k \in keys /\ open(k) THEN CHOOSE e \in entries : e.key = k ELSE rows[k]]

EmptyLedger == << >>
-----------------------------------------------------------------------------
(* The reconciliation of a ledger with the documents.                      *)

Amount(worker, type, scope, component, amount) ==
    [key |-> <<worker, type, scope, component>>, amount |-> amount]

ExpectedMonth(b, day) ==
    {o \in LoadOrderSources(WholeMonth(day)) :
        source.orders[o].beautician = b /\ source.orders[o].day >= TargetOf(b).from}

RevenueReaches(b, day, target) ==
    LET month == ExpectedMonth(b, day)
    IN  /\ \A o \in month : OrderAmount(o, "cost") # None
        /\ SumOver([o \in month |-> OrderAmount(o, "cost")]) >= target

ReconciledOrders(range) ==
    {o \in LoadOrderSources(range) :
        source.orders[o].beautician # None /\ source.orders[o].snapshot # None}

\* mutant of ExpectsGeneral: the target has to be passed.
ExpectsGeneralPassed(o) ==
    LET order == source.orders[o]
    IN  \/ order.day < TargetOf(order.beautician).from
        \/ RevenueReaches(order.beautician, order.day, TargetOf(order.beautician).target1 + 1)

ExpectsGeneral(o) ==
    LET order == source.orders[o]
    IN  \/ order.day < TargetOf(order.beautician).from
        \/ RevenueReaches(order.beautician, order.day, TargetOf(order.beautician).target1)

\* The expected amounts, each with what it comes from.
ExpectedOrderAmounts(range) ==
    {<<put, Amount(source.orders[put[1]].beautician, "beautician", "orders", put[2],
                   OrderAmount(put[1], put[2]))>> :
        put \in {put \in ReconciledOrders(range) \X OrderComponents :
                    /\ OrderAmount(put[1], put[2]) # None
                    /\ put[2] = "general" => ExpectsGeneral(put[1])}}

ExpectedTargetAmounts(range) ==
    {<<b, Amount(b, "beautician", "targets", "target_bonus", source.office.bonus)>> :
        b \in {b \in DOMAIN LoadWorkerTargets :
                 /\ TargetOf(b).target2 > 0
                 /\ RevenueReaches(b, range.to, TargetOf(b).target2)}}

ExpectedTripAmounts(range) ==
    {<<put, Amount(AllowanceWorker(source.trips[put[1]])[1], AllowanceWorker(source.trips[put[1]])[2],
                   "trips", put[2], TripPays(put[1], range)[put[2]])>> :
        put \in {put \in PaidTrips(range) \X {"commission", "petrol"} :
                    TripPays(put[1], range)[put[2]] # None}}

ExpectedAwardAmounts(range) ==
    {<<<<"beautician", a.worker>>,
       Amount(a.worker, "beautician", "beautician_leaderboard", "leaderboard_bonus", a.bonus)>> :
        a \in UNION {RankBeauticians(
                         OfGender(LoadBeauticianLeaderboardSources(range), source.profiles, g),
                         GenderPrizes(source.office, "beautician", g)) : g \in Genders}}
    \cup
    {<<<<"rider", a.worker>>,
       Amount(a.worker, WorkerType(a.worker, range), "rider_leaderboard", "leaderboard_bonus",
              a.bonus)>> :
        a \in UNION {RankRiders(
                         OfGender(LoadRiderLeaderboardSources(range), source.profiles, g),
                         GenderPrizes(source.office, "rider", g)) : g \in Genders}}

ExpectedAmounts(range) ==
    ExpectedOrderAmounts(range) \cup ExpectedTargetAmounts(range)
        \cup ExpectedTripAmounts(range) \cup ExpectedAwardAmounts(range)

LedgerAmount(row, scope) ==
    Amount(row.worker, row.type, scope, row.component, row.amount)

ScopeOf(k) ==
    IF k[1] # "leaderboards" THEN k[1]
    ELSE IF k[2] = "rider" THEN "rider_leaderboard" ELSE "beautician_leaderboard"

\* The rows that belong to the range, whatever they are paid for.
InScope(k, row, range) ==
    /\ row.worker # None
    /\ \/ k[1] \in {"orders", "trips"} /\ In(range, row.day)
       \/ k[1] = "targets" /\ k[3] = Month(range.to)
       \/ k[1] = "leaderboards" /\ k[3] = range.from /\ k[4] = range.to

LedgerAmounts(rows, range) ==
    {<<k, LedgerAmount(rows[k], ScopeOf(k))>> :
        k \in {k \in DOMAIN rows : InScope(k, rows[k], range)}}

TotalOf(amounts, key) ==
    SumOver([a \in {a \in amounts : a[2].key = key} |-> a[2].amount])

Mismatched(rows, range) ==
    LET expected == ExpectedAmounts(range)
        actual   == LedgerAmounts(rows, range)
    IN  {k \in {a[2].key : a \in expected \cup actual} :
            TotalOf(actual, k) # TotalOf(expected, k)}

MissingOrders(range) ==
    {o \in LoadOrderSources(range) :
        \/ source.orders[o].beautician = None
        \/ source.orders[o].snapshot = None
        \/ \E c \in OrderComponents : OrderAmount(o, c) = None}

MissingTrips(range) ==
    {t \in LoadTripSources(range) :
        /\ AllowanceWorker(source.trips[t])[1] # None
        /\ \/ source.trips[t].snapshot = None
           \/ TripPays(t, range).commission = None
           \/ TripPays(t, range).petrol = None}

Ready(rows, range) ==
    MissingOrders(range) = {} /\ MissingTrips(range) = {} /\ Mismatched(rows, range) = {}
-----------------------------------------------------------------------------
(* The beautician commission report.                                       *)

\* What $ifNull takes: the snapshot, then the order, then default.
Recorded(o, field, default) ==
    LET order == source.orders[o]
    IN  OrElse(OrderAmount(o, field), OrElse(order.details[field], default))

\* Refunded orders give a beautician a line as well.
ReportedOrders(b, range) ==
    {o \in Orders :
        source.orders[o] # None /\ source.orders[o].beautician = b /\ In(range, source.orders[o].day)}

Completed(orders) == {o \in orders : source.orders[o].status = "completed"}
Eligible(orders)  == {o \in Completed(orders) : ~source.orders[o].complaint}
Issues(orders)    == {o \in Completed(orders) : source.orders[o].complaint}

SumOf(component, orders) == SumOver([o \in orders |-> Recorded(o, component, 0)])

MonthlyTargetRevenue(b, day) ==
    SumOf("cost", {o \in Eligible(ReportedOrders(b, WholeMonth(day))) :
                     source.orders[o].day >= ApplicableFrom(b)})

TargetAchieved(b, day, target) == MonthlyTargetRevenue(b, day) >= source.profiles[b][target]

Target2Achieved(b, day) ==
    source.profiles[b].target2 > 0 /\ TargetAchieved(b, day, "target2")

PreTarget(b, orders) == {o \in orders : source.orders[o].day < ApplicableFrom(b)}

LeaderboardBonus(b, range) ==
    LET rows   == OfGender(LoadBeauticianLeaderboardSources(range), source.profiles,
                           GenderGroup(source.profiles[b].gender))
        prizes == GenderPrizes(source.office, "beautician", GenderGroup(source.profiles[b].gender))
    IN  SumOver([a \in {a \in RankBeauticians(rows, prizes) : a.worker = b} |-> a.bonus])

ShadowCommission(b, range) ==
    LET eligible == Eligible(ReportedOrders(b, range))
    IN  SumOf("special", eligible)
        + SumOf("general", IF TargetAchieved(b, range.to, "target1") THEN eligible
                           ELSE PreTarget(b, eligible))
        + SumOf("upgrade", eligible)
        + (IF Target2Achieved(b, range.to) THEN source.office.bonus ELSE 0)
        + LeaderboardBonus(b, range)

\* mutant of LedgerRowsOf: awards by their day instead of by their period.
LedgerRowsByDay(b, range) ==
    {k \in DOMAIN ledger :
        /\ ledger[k].worker = b /\ ledger[k].type = "beautician"
        /\ \/ k[1] = "orders" /\ In(range, ledger[k].day)
           \/ k[1] = "targets" /\ ledger[k].day = WholeMonth(range.to).to
           \/ k[1] = "leaderboards" /\ k[2] = "beautician" /\ In(range, ledger[k].day)}

LedgerRowsOf(b, range) ==
    {k \in DOMAIN ledger :
        /\ ledger[k].worker = b /\ ledger[k].type = "beautician"
        /\ \/ k[1] = "orders" /\ In(range, ledger[k].day)
           \/ k[1] = "targets" /\ ledger[k].day = WholeMonth(range.to).to
           \/ k[1] = "leaderboards" /\ k[2] = "beautician" /\ k[3] = range.from /\ k[4] = range.to}

LedgerTotal(rows, component) ==
    SumOver([k \in {k \in rows : ledger[k].component = component} |-> ledger[k].amount])

NotNegative(amount) == IF amount < 0 THEN 0 ELSE amount

LedgerCommission(b, range) ==
    LET rows   == LedgerRowsOf(b, range)
        issues == Issues(ReportedOrders(b, range))
        net(component) == NotNegative(LedgerTotal(rows, component) - SumOf(component, issues))
    IN  net("special") + net("general") + net("upgrade")
        + (IF Target2Achieved(b, range.to) THEN LedgerTotal(rows, "target_bonus") ELSE 0)
        + LedgerTotal(rows, "leaderboard_bonus")

\* The lines of the report, with the commission of each.
BeauticianReport(range) ==
    LET listed == {b \in Beauticians :
                     \/ ReportedOrders(b, range) # {}
                     \/ mode = "authoritative" /\ LedgerRowsOf(b, range) # {}}
    IN  [b \in listed |->
            IF mode = "authoritative" THEN LedgerCommission(b, range) ELSE ShadowCommission(b, range)]
-----------------------------------------------------------------------------
(* The rider commission report: commission, petrol and prize.              *)

RiderBonus(w, range) ==
    LET scores == {TripScore(v, range) : v \in {v \in Workers : TripsOf(v, range) # {}}}
        gender == GenderGroup(source.profiles[w].gender)
        ranked == RankRiders(OfGender(scores, source.profiles, gender),
                             GenderPrizes(source.office, "rider", gender))
    IN  SumOver([a \in {a \in ranked : a.worker = w} |-> a.bonus])

ShadowPayable(w, range) ==
    SumOver([t \in TripsOf(w, range) |-> ReportedCommission(source.trips[t])
                             + ReportedPetrol(source.trips[t], source.office.rates)])
    + RiderBonus(w, range)

\* mutant of RiderRowsOf: the awards of both boards.
RiderRowsOfAnyBoard(w, range) ==
    {k \in DOMAIN ledger :
        /\ ledger[k].worker = w /\ In(range, ledger[k].day)
        /\ k[1] = "trips" \/ (k[1] = "leaderboards" /\ k[3] = range.from /\ k[4] = range.to)}

RiderRowsOf(w, range) ==
    {k \in DOMAIN ledger :
        /\ ledger[k].worker = w /\ In(range, ledger[k].day)
        /\ \/ k[1] = "trips"
           \/ k[1] = "leaderboards" /\ k[2] = "rider" /\ k[3] = range.from /\ k[4] = range.to}

LedgerPayable(w, range) == SumOver([k \in RiderRowsOf(w, range) |-> ledger[k].amount])

RiderReport(range) ==
    LET listed == {w \in Workers :
                     \/ TripsOf(w, range) # {}
                     \/ mode = "authoritative" /\ RiderRowsOf(w, range) # {}}
    IN  [w \in listed |->
            IF mode = "authoritative" THEN LedgerPayable(w, range) ELSE ShadowPayable(w, range)]
-----------------------------------------------------------------------------
(* The weekly petrol report: distance and petrol of a worker.              *)

PetrolOfTrips(trips) ==
    [distance |-> SumOver([t \in trips |-> ReportedDistance(source.trips[t])]),
     amount |-> SumOver([t \in trips |-> ReportedPetrol(source.trips[t], source.office.rates)])]

\* mutant of PetrolRowsOf: whatever the trips pay.
TripRowsOf(w, range) ==
    {k \in DOMAIN ledger : k[1] = "trips" /\ ledger[k].worker = w /\ In(range, ledger[k].day)}

PetrolRowsOf(w, range) ==
    {k \in DOMAIN ledger :
        /\ k[1] = "trips" /\ ledger[k].component = "petrol"
        /\ ledger[k].worker = w /\ In(range, ledger[k].day)}

\* The distance is that of the trip a row refers to, if there still is one.
PetrolOfRows(rows) ==
    [distance |-> SumOver([k \in rows |-> IF source.trips[k[2]] = None THEN 0
                                           ELSE ReportedDistance(source.trips[k[2]])]),
     amount |-> SumOver([k \in rows |-> ledger[k].amount])]

PetrolReport(range) ==
    IF mode = "authoritative"
    THEN [w \in {w \in Workers : PetrolRowsOf(w, range) # {}} |-> PetrolOfRows(PetrolRowsOf(w, range))]
    ELSE [w \in {w \in Workers : TripsOf(w, range) # {}} |-> PetrolOfTrips(TripsOf(w, range))]
-----------------------------------------------------------------------------
Init ==
    /\ source \in Sources
    /\ ledger = EmptyLedger
    /\ mode = "shadow" /\ verified = None
    /\ left = [edits |-> MaxEdits, rebuilds |-> MaxRebuilds, payments |-> MaxPayments]

Spend(what) == left[what] > 0 /\ left' = [left EXCEPT ![what] = @ - 1]

\* The booking application writes the documents.
EditOrder(o, document) ==
    /\ Spend("edits")
    /\ source' = [source EXCEPT !.orders[o] = document]
    /\ UNCHANGED <<ledger, mode, verified>>

EditTrip(t, document) ==
    /\ Spend("edits")
    /\ source' = [source EXCEPT !.trips[t] = document]
    /\ UNCHANGED <<ledger, mode, verified>>

EditProfile(w, document) ==
    /\ Spend("edits")
    /\ source' = [source EXCEPT !.profiles[w] = document]
    /\ UNCHANGED <<ledger, mode, verified>>

EditOffice(document) ==
    /\ Spend("edits")
    /\ source' = [source EXCEPT !.office = document]
    /\ UNCHANGED <<ledger, mode, verified>>

EditBoard(days) ==
    /\ Spend("edits")
    /\ source' = [source EXCEPT !.board = days]
    /\ UNCHANGED <<ledger, mode, verified>>

\* A rebuild job, from its claim to its end.
Rebuild(job) ==
    /\ Spend("rebuilds")
    /\ ledger' = Put(ledger, RebuildEntries(job.scope, job.range))
    /\ UNCHANGED <<source, mode, verified>>

\* A settlement pays a row.
Settle(k) ==
    /\ Spend("payments")
    /\ ~ledger[k].settled
    /\ ledger' = [ledger EXCEPT ![k].settled = TRUE]
    /\ UNCHANGED <<source, mode, verified>>

\* changeMode to authoritative, with the range that is verified.
Promote(range) ==
    /\ mode = "shadow"
    /\ Ready(ledger, range)
    /\ mode' = "authoritative" /\ verified' = range
    /\ UNCHANGED <<source, ledger, left>>

\* changeMode back to shadow.
RollBack ==
    /\ mode = "authoritative"
    /\ mode' = "shadow" /\ verified' = None
    /\ UNCHANGED <<source, ledger, left>>

\* changeMode to the mode the office has: nothing is written.
KeepMode == UNCHANGED vars

Next ==
    \/ \E o \in Orders, document \in OrderDocs : EditOrder(o, document)
    \/ \E t \in Trips, document \in TripDocs : EditTrip(t, document)
    \/ \E b \in Beauticians, document \in BeauticianProfiles : EditProfile(b, document)
    \/ \E r \in Riders, document \in RiderProfiles : EditProfile(r, document)
    \/ \E document \in Offices : EditOffice(document)
    \/ \E days \in Boards : EditBoard(days)
    \/ \E job \in Jobs : Rebuild(job)
    \/ \E k \in DOMAIN ledger : Settle(k)
    \/ \E range \in Ranges : Promote(range)
    \/ RollBack
    \/ KeepMode

Spec == Init /\ [][Next]_vars
-----------------------------------------------------------------------------
(* Properties.                                                             *)

\* Types: a ledger row has a worker of its type or none, a day of a month the
\* model has, and an amount that pays something.
TypeOK ==
    /\ mode \in {"shadow", "authoritative"}
    /\ verified \in Ranges \cup {None} /\ (mode = "shadow" <=> verified = None)
    /\ source \in SourceDoc
    /\ \A k \in DOMAIN ledger :
        /\ ledger[k].key = k /\ ledger[k].settled \in BOOLEAN
        /\ ledger[k].worker \in (IF ledger[k].type = "rider" THEN Riders ELSE Beauticians) \cup {None}
        /\ ledger[k].amount \in Nat \ {0}

\* Reconciliation calculates what the documents pay by itself.  Whatever the
\* documents are, it must find nothing wrong with the ledger that a rebuild of
\* everything makes from nothing: otherwise no rebuild can make an office ready
\* (README: the response is ready only when every amount matches).
ReconcilerAgreesWithRebuild ==
    ledger = EmptyLedger =>
        \A range \in Ranges :
            Mismatched(Put(ledger, RebuildEntries("all", range)), range) = {}

\* The beauticians whose pay has one reading: not deleted; every completed
\* order of the month has a complete snapshot; target 1 is reached without the
\* orders deducted for a complaint, or there are none.
PlainBeautician(b, range) ==
    LET month == Completed(ReportedOrders(b, WholeMonth(range.to)))
    IN  /\ ~source.profiles[b].deleted
        /\ \A o \in month, c \in OrderComponents \cup {"cost"} : OrderAmount(o, c) # None
        /\ Issues(month) = {} \/ TargetAchieved(b, range.to, "target1")

\* Promotion to authoritative mode changes from where the beautician report
\* takes its amounts.  For a range within a month, the one that was verified,
\* it changes no plain beautician's total on a line the shadow report has.
CutoverKeepsCommissions ==
    [][\A range \in Ranges :
        verified # range /\ verified' = range /\ Month(range.from) = Month(range.to) =>
            \A b \in DOMAIN BeauticianReport(range) :
                PlainBeautician(b, range) =>
                    BeauticianReport(range)'[b] = BeauticianReport(range)[b]]_vars

\* The trips that the rules of ledger and report treat alike: final, or to be
\* calculated, at a rate of 1, from rates of the snapshot, without a half.
PlainTrip(trip) ==
    LET s == trip.snapshot
    IN  \/ s.paid /\ s.commission # None /\ s.petrol # None
        \/ /\ ~s.paid
           /\ Distance(trip) > 0 /\ Rate(trip) = 1
           /\ trip.override = None \/ Positive(trip.override)
           /\ Positive(s.cost) /\ Positive(s.mileage)
           /\ (200 * Distance(trip) * s.cost) % (2 * s.mileage) # s.mileage

\* The same for the rider report, over any verified range: commission, petrol
\* and prize of who made plain trips stay what they were, and nobody joins.
CutoverKeepsPayables ==
    [][\A range \in Ranges :
        verified # range /\ verified' = range =>
            /\ DOMAIN RiderReport(range)' = DOMAIN RiderReport(range)
            /\ \A w \in DOMAIN RiderReport(range) :
                (\A t \in TripsOf(w, range) : PlainTrip(source.trips[t])) =>
                    RiderReport(range)'[w] = RiderReport(range)[w]]_vars

\* The same for the weekly petrol report, which besides the amount shows the
\* distance it is paid for.  The amount stays what it was.  The distance does if
\* the rows are those of the worker's trips: reconciliation compares totals, and
\* rows of other trips may add up to the same amount.
CutoverKeepsPetrol ==
    [][\A range \in Ranges :
        verified # range /\ verified' = range =>
            \A w \in DOMAIN PetrolReport(range) :
                /\ PetrolReport(range)[w].amount > 0
                /\ \A t \in TripsOf(w, range) : PlainTrip(source.trips[t])
                => /\ w \in DOMAIN PetrolReport(range)'
                   /\ PetrolReport(range)'[w].amount = PetrolReport(range)[w].amount
                   /\ {k[2] : k \in PetrolRowsOf(w, range)} = TripsOf(w, range) =>
                        PetrolReport(range)'[w] = PetrolReport(range)[w]]_vars

\* The board of the riders shows the prize that the rebuild of the same period
\* makes a ledger row of, when riders drive every trip and none is deleted.
BoardShowsAwards ==
    ledger = EmptyLedger =>
    \A range \in Ranges :
        LET trips == [t \in LoadTripSources(range) |-> source.trips[t]]
        IN  (\A t \in DOMAIN trips :
                /\ AllowanceWorkerTypeExpr(trips[t]) = "rider"
                /\ trips[t].rider # None => ~source.profiles[trips[t].rider].deleted)
            => RiderBoard(trips, source.profiles, source.office, "all") = RiderAwards(range)
=============================================================================
