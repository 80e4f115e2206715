------------------------------ MODULE MCCutover ------------------------------
(***************************************************************************)
(* Bounds for Cutover: months of two days; b1 has the orders and may reach *)
(* both targets with two of them, b2 is on the board and may drive; r1 and *)
(* r2 ride.  The documents at the start differ from one base in one part.  *)
(***************************************************************************)
EXTENDS Cutover, TLC

CONSTANTS b1, b2, r1, r2, o1, o2, t1, t2

MCHexOf == b1 :> 1 @@ b2 :> 2 @@ r1 :> 3 @@ r2 :> 4
Span(from, to) == [from |-> from, to |-> to]
MCRanges == {Span(1, 2), Span(2, 2), Span(2, 3)}
MCJobs == {[scope |-> "all", range |-> Span(1, 2)],
           [scope |-> "leaderboards", range |-> Span(2, 2)],
           [scope |-> "all", range |-> Span(2, 3)],
           [scope |-> "petrol", range |-> Span(1, 2)]}

NoDetails == [special |-> None, general |-> None, upgrade |-> None, cost |-> None]
OrderSnapshot == [special |-> 100, general |-> 200, upgrade |-> 0, cost |-> 1, paid |-> FALSE]
Order == [day |-> 1, beautician |-> b1, status |-> "completed", snapshot |-> OrderSnapshot,
          details |-> NoDetails, complaint |-> FALSE]
SecondOrder  == [Order EXCEPT !.day = 2]
ThirdOrder   == [Order EXCEPT !.day = 3]
RaisedOrder  == [Order EXCEPT !.snapshot.special = 300, !.snapshot.cost = 2]
PaidOrder    == [Order EXCEPT !.snapshot.paid = TRUE]
Complained   == [Order EXCEPT !.complaint = TRUE]
Refunded     == [Order EXCEPT !.status = "cancelled_and_refunded"]
NoSnapshot   == [Order EXCEPT !.snapshot = None,
                    !.details = [special |-> 100, general |-> 200, upgrade |-> 0, cost |-> 1]]
NoCost       == [Order EXCEPT !.snapshot.cost = None, !.details.cost = 1]
NoBeautician == [Order EXCEPT !.beautician = None]
MCOrderDocs == {None, Order, SecondOrder, ThirdOrder, RaisedOrder, PaidOrder, Complained,
                Refunded, NoSnapshot, NoCost, NoBeautician}

TripSnapshot == [distance |-> 4, rate |-> None, cost |-> 5, mileage |-> 3,
                 commission |-> 400, petrol |-> 667, paid |-> FALSE]
Trip == [day |-> 1, completed |-> TRUE, manual |-> FALSE, auto |-> 4, extra |-> 0, twoWay |-> FALSE,
         fareKm |-> 0, commissionable |-> TRUE, override |-> None, fareCost |-> 0,
         fareMileage |-> 0, calculatedFare |-> 0, driver |-> None, selfDrive |-> FALSE,
         beautician |-> b2, rider |-> r1, snapshot |-> TripSnapshot]
SecondTrip  == [Trip EXCEPT !.day = 2, !.rider = r2, !.extra = 1]
DrivenTrip  == [Trip EXCEPT !.day = 2, !.selfDrive = TRUE]
RatedTrip   == [Trip EXCEPT !.manual = TRUE, !.fareKm = 9, !.snapshot.rate = 2]
PaidTrip    == [Trip EXCEPT !.snapshot.paid = TRUE, !.snapshot.distance = 2, !.snapshot.commission = 150]
PartTrip    == [Trip EXCEPT !.snapshot.petrol = None, !.snapshot.mileage = None]
BareTrip    == [Trip EXCEPT !.snapshot = None]
OpenTrip    == [Trip EXCEPT !.completed = FALSE]
MCTripDocs == {None, Trip, SecondTrip, DrivenTrip, RatedTrip, PaidTrip, PartTrip, BareTrip, OpenTrip}

BoardDay(b, day, revenue) == [beautician |-> b, day |-> day, revenue |-> revenue, orders |-> 1]
Board == {BoardDay(b1, 1, 2), BoardDay(b2, 2, 1), BoardDay(b1, 2, 1)}
MCBoards == {Board, Board \cup {BoardDay(b2, 1, 3)}, {}}

Profile == [target1 |-> 2, target2 |-> 2, from |-> None, gender |-> None, deleted |-> FALSE]
MCBeauticianProfiles ==
    {Profile, [Profile EXCEPT !.gender = "male"], [Profile EXCEPT !.from = 2],
     [Profile EXCEPT !.deleted = TRUE], [Profile EXCEPT !.target1 = 1]}
RiderProfile == [gender |-> "female", deleted |-> FALSE]
MCRiderProfiles == {RiderProfile, [RiderProfile EXCEPT !.gender = "male"], [RiderProfile EXCEPT !.deleted = TRUE]}

Setting(enabled, prizes) == [enabled |-> enabled, prizes |-> prizes]
NoSettings == [g \in Genders |-> Setting(None, << >>)]
Office == [prizes |-> [beautician |-> <<50, 30>>, rider |-> <<40>>],
           settings |-> [beautician |-> NoSettings, rider |-> NoSettings],
           bonus |-> 70, rates |-> [cost |-> 5, mileage |-> 3]]
MCOffices ==
    {Office,
     [Office EXCEPT !.bonus = 0, !.settings.beautician["male"] = Setting(TRUE, <<20>>),
                    !.settings.beautician["female"] = Setting(FALSE, <<60>>)],
     [Office EXCEPT !.prizes.beautician = <<90>>, !.rates.cost = 7,
                    !.settings.rider["male"] = Setting(TRUE, <<10>>)]}

Base ==
    [orders   |-> o1 :> Order @@ o2 :> SecondOrder,
     trips    |-> t1 :> Trip @@ t2 :> SecondTrip,
     board    |-> Board,
     profiles |-> [w \in Workers |-> IF w \in Beauticians THEN Profile ELSE RiderProfile],
     office   |-> Office]
MCSources ==
    {[Base EXCEPT !.orders[o1] = d] : d \in {Order, Complained, PaidOrder}}
    \cup {[Base EXCEPT !.trips[t2] = DrivenTrip]}
    \cup {[Base EXCEPT !.office = d] : d \in MCOffices}
=============================================================================
