----------------------------- MODULE MCTripIssues ----------------------------
(***************************************************************************)
(* One trip for TLC, of 3 km at a cost of 5 and a mileage of 2.  Its       *)
(* snapshot says too little, has gaps or is missing; later the distance or *)
(* the date change, or the worker is taken off.                            *)
(***************************************************************************)
EXTENDS TripIssues, TLC

CONSTANTS trip1, worker, c1, c2

Snapshot(distance, commission, petrol) ==
    [distance |-> distance, rate |-> 2, cost |-> 5, mileage |-> 2,
     commission |-> commission, petrol |-> petrol, paid |-> FALSE]

TripWith(snapshot) ==
    [date |-> 1, payable |-> TRUE, manual |-> FALSE, auto |-> 1, extra |-> 1, twoWay |-> TRUE,
     fareKm |-> 2, commissionable |-> TRUE, override |-> None, fareCost |-> 0,
     fareMileage |-> 0, calculatedFare |-> 1, driver |-> None, selfDrive |-> FALSE,
     beautician |-> None, rider |-> worker, snapshot |-> snapshot]

\* What the trip is worth by its snapshot's rates: 3 km, 6, 7.50.
Short == Snapshot(3, 500, 750)
Gaps == [Snapshot(2, None, 750) EXCEPT !.cost = None, !.mileage = 0, !.rate = 0]

MCInitialTrips == [Trip -> {TripWith(Short), TripWith(Gaps), TripWith(None)}]

MCRevisions ==
    {[fareKm |-> 4, manual |-> TRUE, snapshot |-> Snapshot(4, 800, 1000)],
     [date |-> 2, snapshot |-> Snapshot(3, 600, 800)],
     [rider |-> None, auto |-> 0, fareKm |-> 0, snapshot |-> Short]}

MCOffice == [cost |-> 6, mileage |-> 3]

MCRanges == {[from |-> 1, to |-> 1]}

Symmetry == Permutations(Client)
=============================================================================
