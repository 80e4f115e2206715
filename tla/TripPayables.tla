---------------------------- MODULE TripPayables -----------------------------
(***************************************************************************)
(* What a trip pays: the rule that the trip issues and the repair of       *)
(* snapshots use (trip_issues.go), the rule that makes ledger rows         *)
(* (rebuild.go), and the MongoDB expressions of the reports that read the  *)
(* trips themselves (payables/trip_expr.go, static/trip_expr.go).          *)
(*                                                                         *)
(* Distances, rates, costs and mileages are small integers, amounts are    *)
(* hundredths.  A field that may be missing has the value None.  A trip is *)
(* a record with the fields manual, auto, extra, twoWay, fareKm,           *)
(* commissionable, override, fareCost, fareMileage, calculatedFare, driver,*)
(* selfDrive, beautician, rider and snapshot; a snapshot has the fields    *)
(* distance, rate, cost, mileage, commission, petrol and paid.             *)
(***************************************************************************)
EXTENDS Integers

CONSTANT None

OrElse(value, default) == IF value = None THEN default ELSE value
Positive(value) == value # None /\ value > 0

\* math.Round: halves go up (amounts are not negative).
Round(num, den) == (2 * num + den) \div (2 * den)

\* $round: halves go to the even neighbour.
RoundEven(num, den) ==
    LET up == Round(num, den)
    IN  IF (2 * num) % (2 * den) = den /\ up % 2 = 1 THEN up - 1 ELSE up
-----------------------------------------------------------------------------
(* Who is paid.                                                            *)

AllowanceWorker(trip) ==
    IF trip.driver # None THEN <<trip.driver, "beautician">>
    ELSE IF trip.selfDrive /\ trip.beautician # None THEN <<trip.beautician, "beautician">>
    ELSE <<trip.rider, "rider">>

AllowanceWorkerIDExpr(trip) ==
    OrElse(trip.driver,
           IF trip.selfDrive /\ trip.beautician # None THEN trip.beautician ELSE trip.rider)

AllowanceWorkerTypeExpr(trip) ==
    IF trip.driver # None \/ (trip.selfDrive /\ trip.beautician # None)
    THEN "beautician" ELSE "rider"
-----------------------------------------------------------------------------
(* The rule in Go.  A distance of 0 means that there is none.              *)

Automatic(trip) == (IF trip.twoWay THEN 2 * trip.auto ELSE trip.auto) + trip.extra

Distance(trip) ==
    IF ~trip.manual /\ trip.auto > 0 THEN Automatic(trip) ELSE trip.fareKm

SnapshotField(trip, field, default) ==
    IF trip.snapshot # None /\ Positive(trip.snapshot[field]) THEN trip.snapshot[field] ELSE default

Rate(trip) == SnapshotField(trip, "rate", 1)

Commission(trip) ==
    IF ~trip.commissionable THEN 0
    ELSE IF Positive(trip.override) THEN 100 * trip.override
    ELSE 100 * Distance(trip) * Rate(trip)

\* The snapshot's own rate, else the fare's, else the office's of today.
Cost(trip, office) ==
    LET own == SnapshotField(trip, "cost", trip.fareCost)
    IN  IF own <= 0 THEN office.cost ELSE own

Mileage(trip, office) ==
    LET own == SnapshotField(trip, "mileage", trip.fareMileage)
    IN  IF own <= 0 THEN office.mileage ELSE own

Petrol(trip, office) == Round(100 * Distance(trip) * Cost(trip, office), Mileage(trip, office))

Calculable(trip, office) ==
    Distance(trip) > 0 /\ Cost(trip, office) > 0 /\ Mileage(trip, office) > 0

CanonicalTripCalculation(trip, office) ==
    IF ~Calculable(trip, office) THEN [valid |-> FALSE]
    ELSE [valid |-> TRUE, distance |-> Distance(trip), commission |-> Commission(trip),
          petrol |-> Petrol(trip, office),
          cost |-> Cost(trip, office), mileage |-> Mileage(trip, office)]

NoRates == [cost |-> 0, mileage |-> 0]

\* The trips a rebuild or an event loads get the rates of the office when one
\* of them needs them.
LoadedRates(trips, office) ==
    IF \E t \in trips :
        /\ t.snapshot # None /\ t.snapshot.petrol = None
        /\ t.fareCost <= 0 \/ t.fareMileage <= 0
    THEN office ELSE NoRates

Payables(commission, petrol) == [commission |-> commission, petrol |-> petrol]

\* What goes to the ledger.  A paid snapshot is final; of a snapshot that
\* cannot be recalculated what it says is taken.
EffectiveTripPayables(trip, office) ==
    LET s == trip.snapshot
        settled(field, calculated) == IF s.paid THEN OrElse(s[field], calculated) ELSE calculated
    IN  IF s = None THEN Payables(None, None)
        ELSE IF s.paid /\ s.commission # None /\ s.petrol # None
        THEN Payables(s.commission, s.petrol)
        ELSE IF Distance(trip) <= 0 THEN Payables(s.commission, s.petrol)
        ELSE IF Cost(trip, office) <= 0 \/ Mileage(trip, office) <= 0
        THEN Payables(Commission(trip), s.petrol)
        ELSE Payables(settled("commission", Commission(trip)),
                      settled("petrol", Petrol(trip, office)))
-----------------------------------------------------------------------------
(* The expressions of the reports.                                         *)

PayableDistanceExpr(trip) ==
    IF trip.manual /\ trip.fareKm > 0 THEN trip.fareKm
    ELSE IF trip.auto > 0 THEN Automatic(trip)
    ELSE trip.fareKm

PaidSnapshotOrCanonicalExpr(trip, field, canonical) ==
    IF trip.snapshot # None /\ trip.snapshot.paid /\ trip.snapshot[field] # None
    THEN trip.snapshot[field] ELSE canonical

ReportedDistance(trip) ==
    PaidSnapshotOrCanonicalExpr(trip, "distance", PayableDistanceExpr(trip))

TripPetrolPayableExpr(trip, office) ==
    LET rate(field) == IF trip.snapshot = None THEN office[field]
                       ELSE OrElse(trip.snapshot[field], office[field])
    IN  IF rate("cost") > 0 /\ rate("mileage") > 0
        THEN RoundEven(100 * ReportedDistance(trip) * rate("cost"), rate("mileage"))
        ELSE 100 * trip.calculatedFare

ReportedPetrol(trip, office) ==
    PaidSnapshotOrCanonicalExpr(trip, "petrol", TripPetrolPayableExpr(trip, office))

ReportedCommission(trip) ==
    PaidSnapshotOrCanonicalExpr(trip, "commission",
        IF trip.commissionable THEN 100 * OrElse(trip.override, ReportedDistance(trip)) ELSE 0)
=============================================================================
