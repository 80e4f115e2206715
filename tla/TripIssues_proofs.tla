------------------------- MODULE TripIssues_proofs --------------------------
(***************************************************************************)
(* The safety of the trip issues and of the repair of snapshots, for every *)
(* number of trips, handlers, edits and faults, and every rate.            *)
(*                                                                         *)
(* SourcesInv is about the trips and their way to the ledger, HandlersInv  *)
(* about the index and the handlers, and AloneInv says what a handler that *)
(* nobody disturbed knows.                                                 *)
(***************************************************************************)
EXTENDS TripIssues, TLAPS

-----------------------------------------------------------------------------
(* Trips and what they pay *)

LEMMA NatProduct ==
    ASSUME NEW m \in Nat, NEW n \in Nat
    PROVE  m * n \in Nat /\ (m > 0 /\ n > 0 => m * n > 0)
  BY SMT

LEMMA NatQuotient ==
    ASSUME NEW m \in Nat, NEW n \in Nat, n > 0
    PROVE  m \div n \in Nat
  BY SMT

LEMMA FieldTypes ==
    /\ DOMAIN TripField = {"date", "payable", "manual", "auto", "extra", "twoWay", "fareKm",
          "commissionable", "override", "fareCost", "fareMileage", "calculatedFare",
          "driver", "selfDrive", "beautician", "rider", "snapshot"}
    /\ TripField["auto"] = Nat /\ TripField["extra"] = Nat /\ TripField["fareKm"] = Nat
    /\ TripField["fareCost"] = Nat /\ TripField["fareMileage"] = Nat
    /\ TripField["override"] = Int \cup {None}
    /\ TripField["snapshot"] = SnapshotDocument \cup {None}
  BY DEF TripField

LEMMA TripTypes ==
    ASSUME NEW trip, IsTrip(trip)
    PROVE  /\ {"auto", "extra", "fareKm", "fareCost", "fareMileage", "override", "snapshot",
               "payable", "driver", "selfDrive", "beautician", "rider", "manual", "twoWay",
               "commissionable"} \subseteq DOMAIN trip
           /\ trip.auto \in Nat /\ trip.extra \in Nat /\ trip.fareKm \in Nat
           /\ trip.fareCost \in Nat /\ trip.fareMileage \in Nat
           /\ trip.override \in Int \cup {None}
           /\ trip.snapshot \in SnapshotDocument \cup {None}
<1>1. DOMAIN trip = DOMAIN TripField /\ \A x \in DOMAIN trip : trip[x] \in TripField[x]
  BY DEF IsTrip, FieldsOK
<1> QED
  BY <1>1, FieldTypes

LEMMA SnapshotTypes ==
    ASSUME NEW s \in SnapshotDocument
    PROVE  /\ DOMAIN s = {"distance", "rate", "cost", "mileage", "commission", "petrol", "paid"}
           /\ \A x \in DOMAIN s \ {"paid"} : s[x] \in Nat \cup {None}
           /\ s.paid \in BOOLEAN
           /\ s # None
  BY ConstantsAssumption DEF SnapshotDocument

\* Positive fields of a snapshot are natural numbers.
LEMMA PositiveField ==
    ASSUME NEW trip, IsTrip(trip), NEW field \in {"rate", "cost", "mileage"}, NEW default \in Nat
    PROVE  SnapshotField(trip, field, default) \in Nat
<1>1. CASE trip.snapshot # None /\ Positive(trip.snapshot[field])
  <2>1. trip.snapshot \in SnapshotDocument
    BY <1>1, TripTypes
  <2>2. trip.snapshot[field] \in Nat \cup {None}
    BY <2>1, SnapshotTypes
  <2> QED
    BY <1>1, <2>2 DEF SnapshotField, Positive
<1> QED
  BY <1>1 DEF SnapshotField

LEMMA RatesPositive ==
    ASSUME NEW trip, IsTrip(trip)
    PROVE  /\ Rate(trip) \in Nat /\ Rate(trip) > 0
           /\ Distance(trip) \in Nat
           /\ Cost(trip, Office) \in Nat /\ Mileage(trip, Office) \in Nat
<1>1. Rate(trip) \in Nat
  BY PositiveField DEF Rate
<1>2. Rate(trip) > 0
  BY DEF Rate, SnapshotField, Positive
<1>3. Distance(trip) \in Nat
  BY TripTypes DEF Distance, Automatic
<1>4. Office.cost \in Nat /\ Office.mileage \in Nat
  BY ConstantsAssumption
<1>5. Cost(trip, Office) \in Nat
  BY <1>4, TripTypes, PositiveField DEF Cost
<1>6. Mileage(trip, Office) \in Nat
  BY <1>4, TripTypes, PositiveField DEF Mileage
<1> QED
  BY <1>1, <1>2, <1>3, <1>5, <1>6

LEMMA AmountsAreNumbers ==
    ASSUME NEW trip, IsTrip(trip), Calculable(trip, Office)
    PROVE  Commission(trip) \in Nat /\ Petrol(trip, Office) \in Nat
<1>1. /\ Rate(trip) \in Nat /\ Distance(trip) \in Nat
      /\ Cost(trip, Office) \in Nat /\ Mileage(trip, Office) \in Nat
      /\ Mileage(trip, Office) > 0
  BY RatesPositive DEF Calculable
<1>2. 100 * Distance(trip) \in Nat
  BY <1>1
<1>3. Commission(trip) \in Nat
  <2>1. 100 * Distance(trip) * Rate(trip) \in Nat
    BY <1>1, <1>2, NatProduct
  <2>2. Positive(trip.override) => 100 * trip.override \in Nat
    BY TripTypes, ConstantsAssumption DEF Positive
  <2> QED
    BY <2>1, <2>2 DEF Commission
<1>4. Petrol(trip, Office) \in Nat
  <2> DEFINE num == 100 * Distance(trip) * Cost(trip, Office)
             den == Mileage(trip, Office)
  <2>1. num \in Nat
    BY <1>1, <1>2, NatProduct
  <2>2. den \in Nat /\ den > 0
    BY <1>1
  <2> HIDE DEF num, den
  <2>3. 2 * num + den \in Nat /\ 2 * den \in Nat /\ 2 * den > 0
    BY <2>1, <2>2
  <2>4. Round(num, den) \in Nat
    BY <2>3, NatQuotient DEF Round
  <2> QED
    BY <2>4 DEF Petrol, num, den
<1> QED
  BY <1>3, <1>4

LEMMA CalculationOf ==
    ASSUME NEW trip, CanonicalTripCalculation(trip, Office).valid
    PROVE  /\ Calculable(trip, Office)
           /\ LET c == CanonicalTripCalculation(trip, Office)
              IN  /\ c.distance = Distance(trip) /\ c.commission = Commission(trip)
                  /\ c.petrol = Petrol(trip, Office)
                  /\ c.cost = Cost(trip, Office) /\ c.mileage = Mileage(trip, Office)
  BY DEF CanonicalTripCalculation

LEMMA RebuiltIsSnapshot ==
    ASSUME NEW trip, IsTrip(trip), CanonicalTripCalculation(trip, Office).valid
    PROVE  RebuiltSnapshot(trip) \in SnapshotDocument
<1>1. Calculable(trip, Office)
  BY CalculationOf
<1> QED
  BY <1>1, CalculationOf, RatesPositive, AmountsAreNumbers DEF RebuiltSnapshot, SnapshotDocument

\* A trip whose snapshot is replaced is a trip.
LEMMA SnapshotReplaced ==
    ASSUME NEW trip, IsTrip(trip), NEW s \in SnapshotDocument
    PROVE  LET new == WithSnapshot(trip, s)
           IN  /\ IsTrip(new)
               /\ new.snapshot = s
               /\ DOMAIN new = DOMAIN trip
               /\ \A x \in DOMAIN trip \ {"snapshot"} : new[x] = trip[x]
<1> DEFINE new == WithSnapshot(trip, s)
<1>1. /\ new.snapshot = s /\ DOMAIN new = DOMAIN trip
      /\ \A x \in DOMAIN trip \ {"snapshot"} : new[x] = trip[x]
  BY TripTypes DEF WithSnapshot
<1> HIDE DEF new
<1>2. IsTrip(new)
  BY <1>1, FieldTypes DEF IsTrip, FieldsOK
<1> QED
  BY <1>1, <1>2 DEF new

\* So is a trip that another service overwrites.
LEMMA OverwrittenIsTrip ==
    ASSUME NEW trip, IsTrip(trip), NEW r \in Revisions
    PROVE  IsTrip(Overwritten(trip, r))
<1> DEFINE new == Overwritten(trip, r)
<1>1. /\ DOMAIN new = DOMAIN trip \cup DOMAIN r
      /\ \A x \in DOMAIN new : new[x] = IF x \in DOMAIN r THEN r[x] ELSE trip[x]
  BY DEF Overwritten
<1>2. FieldsOK(r)
  BY ConstantsAssumption
<1> HIDE DEF new
<1> QED
  BY <1>1, <1>2 DEF IsTrip, FieldsOK, new

\* What a repaired trip pays is what its new snapshot says, by every rate.
LEMMA RepairSettles ==
    ASSUME NEW docs, IsTrip(docs), CanonicalTripCalculation(docs, Office).valid
    PROVE  LET trip == WithSnapshot(docs, RebuiltSnapshot(docs))
           IN  /\ CalculationIssues(trip, TRUE) = {}
               /\ \A rates \in {Office, NoRates} :
                    EffectiveTripPayables(trip, rates)
                    = Payables(trip.snapshot.commission, trip.snapshot.petrol)
<1> DEFINE s == RebuiltSnapshot(docs)
           trip == WithSnapshot(docs, s)
<1>1. s \in SnapshotDocument /\ s # None
  BY RebuiltIsSnapshot, SnapshotTypes
<1>2. /\ Calculable(docs, Office)
      /\ s.distance = Distance(docs) /\ s.rate = Rate(docs)
      /\ s.cost = Cost(docs, Office) /\ s.mileage = Mileage(docs, Office)
      /\ s.commission = Commission(docs) /\ s.petrol = Petrol(docs, Office)
      /\ s.paid = FALSE
  BY CalculationOf DEF RebuiltSnapshot
<1> HIDE DEF s
<1>3. /\ trip.snapshot = s
      /\ \A x \in DOMAIN docs \ {"snapshot"} : trip[x] = docs[x]
  BY <1>1, SnapshotReplaced
<1> HIDE DEF trip
<1>4. /\ trip.manual = docs.manual /\ trip.auto = docs.auto /\ trip.twoWay = docs.twoWay
      /\ trip.extra = docs.extra /\ trip.fareKm = docs.fareKm
      /\ trip.commissionable = docs.commissionable /\ trip.override = docs.override
      /\ trip.fareCost = docs.fareCost /\ trip.fareMileage = docs.fareMileage
  BY <1>3, TripTypes
<1>5. Distance(trip) = Distance(docs)
  BY <1>4 DEF Distance, Automatic
<1>6. /\ Rate(docs) \in Nat /\ Rate(docs) > 0 /\ Distance(docs) \in Nat /\ Distance(docs) > 0
      /\ Cost(docs, Office) \in Nat /\ Cost(docs, Office) > 0
      /\ Mileage(docs, Office) \in Nat /\ Mileage(docs, Office) > 0
      /\ None \notin Int
  BY <1>2, RatesPositive, ConstantsAssumption DEF Calculable
<1>7. Rate(trip) = Rate(docs)
  <2>1. Positive(s.rate)
    BY <1>2, <1>6 DEF Positive
  <2>2. Rate(trip) = s.rate
    BY <1>1, <1>3, <2>1 DEF Rate, SnapshotField
  <2> QED
    BY <1>2, <2>2
<1>8. Commission(trip) = Commission(docs)
  BY <1>4, <1>5, <1>7 DEF Commission
<1>9. \A office : Cost(trip, office) = Cost(docs, Office)
  <2>1. Positive(s.cost)
    BY <1>2, <1>6 DEF Positive
  <2>2. SnapshotField(trip, "cost", trip.fareCost) = s.cost
    BY <1>1, <1>3, <2>1 DEF SnapshotField
  <2> QED
    BY <1>2, <1>6, <2>2 DEF Cost
<1>10. \A office : Mileage(trip, office) = Mileage(docs, Office)
  <2>1. Positive(s.mileage)
    BY <1>2, <1>6 DEF Positive
  <2>2. SnapshotField(trip, "mileage", trip.fareMileage) = s.mileage
    BY <1>1, <1>3, <2>1 DEF SnapshotField
  <2> QED
    BY <1>2, <1>6, <2>2 DEF Mileage
<1>11. \A office : Petrol(trip, office) = Petrol(docs, Office)
  BY <1>5, <1>9, <1>10 DEF Petrol
<1>12. CalculationIssues(trip, TRUE) = {}
  <2>1. Calculable(trip, Office)
    BY <1>2, <1>5, <1>9, <1>10 DEF Calculable
  <2> DEFINE c == CanonicalTripCalculation(trip, Office)
  <2>2. /\ c.valid /\ c.distance = Distance(trip) /\ c.commission = Commission(trip)
        /\ c.petrol = Petrol(trip, Office)
    BY <2>1 DEF CanonicalTripCalculation
  <2> HIDE DEF c
  <2>3. c.distance = s.distance /\ c.petrol = s.petrol /\ c.commission = s.commission
    BY <1>2, <1>5, <1>8, <1>11, <2>2
  <2>4. \A fixable : SnapshotIssues(s, c, fixable) = {}
    BY <2>3 DEF SnapshotIssues
  <2> QED
    BY <1>1, <1>3, <2>2, <2>4 DEF CalculationIssues, c
<1>13. ASSUME NEW rates PROVE EffectiveTripPayables(trip, rates) = Payables(s.commission, s.petrol)
  <2>1. ~(Distance(trip) <= 0) /\ ~(Cost(trip, rates) <= 0) /\ ~(Mileage(trip, rates) <= 0)
    BY <1>5, <1>6, <1>9, <1>10
  <2>2. Commission(trip) = s.commission /\ Petrol(trip, rates) = s.petrol
    BY <1>2, <1>8, <1>11
  <2> QED
    BY <1>1, <1>2, <1>3, <2>1, <2>2 DEF EffectiveTripPayables
<1> QED
  BY <1>3, <1>12, <1>13 DEF trip, s

-----------------------------------------------------------------------------
(* The invariants *)

Status == {"open", "resolved", "accepted"}

IssueOK(issue) ==
    /\ DOMAIN issue = {"status", "date", "expected", "actual", "fixable", "history"}
    /\ issue.status \in Status

ScanOK(h) ==
    /\ DOMAIN h = {"pc", "op", "range", "todo", "docs", "detected"}
    /\ DOMAIN h.docs \subseteq Trip
    /\ \A f \in h.todo : f.key[1] \in Trip

UpsertOK(h) ==
    /\ h.op = "scan" => ScanOK(h)
    /\ \A f \in h.todo : f.key[1] \in Trip

HandlerOK(h, keys) ==
    /\ h.pc \in {"idle", "detect", "find", "write", "stale", "load", "close", "count", "update"}
    /\ h.pc \in {"load", "close", "count", "update"} => h.key \in keys
    /\ h.pc = "close" => h.status \in Status
    /\ h.pc = "detect" => IF h.op = "scan" THEN ScanOK(h) ELSE h.key \in keys
    /\ h.pc = "find" => UpsertOK(h)
    /\ h.pc = "write" => /\ h.handler.pc = "find" /\ UpsertOK(h.handler)
                         /\ h.of.key[1] \in Trip
    /\ h.pc \in {"count", "update"} =>
          {"pc", "key", "docs"} = DOMAIN h
          /\ IsTrip(h.docs) /\ CanonicalTripCalculation(h.docs, Office).valid

IndexOK == \A k \in DOMAIN issues : k[1] \in Trip /\ IssueOK(issues[k])

HandlersInv ==
    /\ DOMAIN client = Client
    /\ alone \in [Client -> BOOLEAN]
    /\ faults \in Nat
    /\ IndexOK
    /\ \A c \in Client : HandlerOK(client[c], DOMAIN issues)

\* An event that is not consumed is of a version there was; the newest one is
\* still to come when the rows do not say what an unpaid snapshot, which is
\* not the work of a repair, is worth.
Pays(t) == trips[t].payable /\ PaidWorker(trips[t]) # None /\ ~Settled(t)

SourcesInv ==
    /\ DOMAIN trips = Trip /\ \A t \in Trip : IsTrip(trips[t])
    /\ DOMAIN captured = Trip /\ DOMAIN announced = Trip
    /\ DOMAIN rows = Trip /\ DOMAIN repaired = Trip
    /\ \A t \in Trip : captured[t] \in Nat /\ announced[t] \subseteq 1 .. captured[t]
    /\ \A t \in Trip : Pays(t) /\ ~repaired[t] => captured[t] \in announced[t] \/ UpToDate(t)

\* The rows of a trip without a snapshot say all there is to say.
LEMMA NoSnapshotNoRows ==
    ASSUME NEW t, trips[t].snapshot = None
    PROVE  UpToDate(t)
<1>1. RowsOf(t) = Payables(None, None)
  BY DEF RowsOf, EffectiveTripPayables
<1>2. \A field \in {"commission", "petrol"} : RowsOf(t)[field] = None
  BY <1>1 DEF Payables
<1> QED
  BY <1>2 DEF UpToDate

LEMMA InitInvs == Init => HandlersInv /\ SourcesInv
<1> SUFFICES ASSUME Init PROVE HandlersInv /\ SourcesInv
  OBVIOUS
<1>1. HandlersInv
  BY DEF Init, HandlersInv, IndexOK, HandlerOK, Idle
<1>2. DOMAIN trips = Trip /\ \A t \in Trip : IsTrip(trips[t])
  BY ConstantsAssumption DEF Init
<1>3. \A t \in Trip : captured[t] = 1 /\ announced[t] = IF trips[t].snapshot = None THEN {} ELSE {1}
  BY DEF Init
<1>4. \A t \in Trip : captured[t] \in Nat /\ announced[t] \subseteq 1 .. captured[t]
  BY <1>3
<1>5. \A t \in Trip : captured[t] \in announced[t] \/ UpToDate(t)
  BY <1>3, NoSnapshotNoRows
<1> QED
  BY <1>1, <1>2, <1>4, <1>5 DEF Init, SourcesInv

\* A handler's command on the index.
LEMMA HandlerStep ==
    ASSUME HandlersInv, NEW c \in Client, NEW state, client' = [client EXCEPT ![c] = state],
           alone' \in [Client -> BOOLEAN], faults' \in Nat,
           DOMAIN issues \subseteq DOMAIN issues', IndexOK', HandlerOK(state, DOMAIN issues')
    PROVE  HandlersInv'
<1>1. DOMAIN client' = Client /\ client'[c] = state /\ \A d \in Client \ {c} : client'[d] = client[d]
  BY DEF HandlersInv
<1>2. \A d \in Client : HandlerOK(client'[d], DOMAIN issues')
  BY <1>1 DEF HandlersInv, HandlerOK
<1> QED
  BY <1>1, <1>2 DEF HandlersInv

LEMMA LookStep ==
    ASSUME HandlersInv, UNCHANGED issues, NEW c \in Client, NEW state,
           Begin(c, state) \/ Continue(c, state), HandlerOK(state, DOMAIN issues)
    PROVE  HandlersInv'
<1>1. alone' \in [Client -> BOOLEAN] /\ faults' \in Nat /\ client' = [client EXCEPT ![c] = state]
  BY DEF Begin, Continue, HandlersInv
<1>2. IndexOK' /\ HandlerOK(state, DOMAIN issues')
  BY DEF HandlersInv, IndexOK
<1> QED
  BY <1>1, <1>2, HandlerStep

\* Where a scan goes on keeps its fields.
LEMMA NextTripFields ==
    ASSUME NEW h, DOMAIN h = {"pc", "op", "range", "todo", "docs", "detected"}
    PROVE  LET g == NextTrip(h)
           IN  /\ DOMAIN g = DOMAIN h
               /\ g.pc = (IF h.docs = <<>> THEN "stale" ELSE "detect")
               /\ g.op = h.op /\ g.range = h.range /\ g.todo = h.todo /\ g.docs = h.docs
               /\ g.detected = h.detected
  BY DEF NextTrip

LEMMA NextTripOK ==
    ASSUME NEW h, ScanOK(h), h.op = "scan", NEW keys
    PROVE  HandlerOK(NextTrip(h), keys)
<1> DEFINE g == NextTrip(h)
<1>1. /\ DOMAIN g = DOMAIN h /\ g.pc \in {"stale", "detect"}
      /\ g.op = "scan" /\ g.todo = h.todo /\ g.docs = h.docs
  BY NextTripFields DEF ScanOK
<1> HIDE DEF g
<1>2. HandlerOK(g, keys)
  BY <1>1 DEF HandlerOK, ScanOK
<1> QED
  BY <1>2 DEF g

LEMMA FoundKeys ==
    ASSUME NEW t, NEW trip, NEW f \in Found(t, trip)
    PROVE  f.key[1] = t
  BY DEF Found

LEMMA ScanStep ==
    ASSUME HandlersInv, NEW c \in Client, ScanTrips(c) \/ DetectInScan(c)
    PROVE  HandlersInv'
<1>1. CASE ScanTrips(c)
  <2>1. PICK range \in Ranges :
          Begin(c, NextTrip([pc |-> "detect", op |-> "scan", range |-> range, todo |-> {},
                             docs |-> [t \in {u \in Trip : InScan(u, range)} |-> trips[t]],
                             detected |-> {}]))
    BY <1>1 DEF ScanTrips
  <2> DEFINE docs == [t \in {u \in Trip : InScan(u, range)} |-> trips[t]]
  <2>2. DOMAIN docs \subseteq Trip
    OBVIOUS
  <2>3. Begin(c, NextTrip([pc |-> "detect", op |-> "scan", range |-> range, todo |-> {},
                           docs |-> docs, detected |-> {}]))
    BY <2>1
  <2> HIDE DEF docs
  <2> DEFINE h == [pc |-> "detect", op |-> "scan", range |-> range, todo |-> {},
                   docs |-> docs, detected |-> {}]
  <2>4. ScanOK(h) /\ h.op = "scan"
    BY <2>2 DEF ScanOK
  <2>5. Begin(c, NextTrip(h)) /\ UNCHANGED issues
    BY <1>1, <2>3 DEF ScanTrips
  <2> HIDE DEF h
  <2>6. HandlerOK(NextTrip(h), DOMAIN issues)
    BY <2>4, NextTripOK
  <2> QED
    BY <2>5, <2>6, LookStep
<1>2. CASE DetectInScan(c)
  <2>1. client[c].pc = "detect" /\ client[c].op = "scan" /\ ScanOK(client[c])
        /\ UNCHANGED issues
    BY <1>2, ZenonT(60) DEF DetectInScan, HandlersInv, HandlerOK
  <2> DEFINE h == client[c]
             docs(t) == [u \in DOMAIN h.docs \ {t} |-> h.docs[u]]
             next(t, found) == [h EXCEPT !.docs = docs(t), !.todo = found, !.pc = "find",
                                         !.detected = h.detected \cup {f.key : f \in found}]
  <2>2. PICK t \in DOMAIN h.docs :
          Continue(c, IF Found(t, h.docs[t]) = {} THEN NextTrip(next(t, Found(t, h.docs[t])))
                                                  ELSE next(t, Found(t, h.docs[t])))
    BY <1>2 DEF DetectInScan
  <2> DEFINE found == Found(t, h.docs[t])
             new == next(t, found)
  <2>3. t \in Trip /\ DOMAIN docs(t) \subseteq Trip /\ \A f \in found : f.key[1] \in Trip
    BY <2>1, FoundKeys DEF ScanOK
  <2>4. Continue(c, IF found = {} THEN NextTrip(new) ELSE new)
    BY <2>2
  <2> HIDE DEF found
  <2>5. /\ DOMAIN new = DOMAIN h /\ new.docs = docs(t) /\ new.todo = found
        /\ new.pc = "find" /\ new.op = "scan"
    <3> HIDE DEF docs, h
    <3>1. DOMAIN h = {"pc", "op", "range", "todo", "docs", "detected"} /\ h.op = "scan"
      BY <2>1 DEF ScanOK, h
    <3> QED
      BY <3>1
  <2> HIDE DEF new, docs
  <2>6. ScanOK(new)
    BY <2>1, <2>3, <2>5 DEF ScanOK
  <2>7. HandlerOK(new, DOMAIN issues)
    BY <2>3, <2>5, <2>6 DEF HandlerOK, UpsertOK
  <2>8. HandlerOK(NextTrip(new), DOMAIN issues)
    BY <2>5, <2>6, NextTripOK
  <2> QED
    BY <2>1, <2>4, <2>7, <2>8, LookStep
<1> QED
  BY <1>1, <1>2

LEMMA FindStep ==
    ASSUME HandlersInv, NEW c \in Client, UpsertFind(c)
    PROVE  HandlersInv'
<1>1. PICK f \in client[c].todo :
        Continue(c, [pc |-> "write", of |-> f, handler |-> client[c],
                     existing |-> IF f.key \in DOMAIN issues THEN issues[f.key] ELSE NoIssue])
  BY DEF UpsertFind
<1> DEFINE state == [pc |-> "write", of |-> f, handler |-> client[c],
                     existing |-> IF f.key \in DOMAIN issues THEN issues[f.key] ELSE NoIssue]
<1>2. /\ client[c].pc = "find" /\ UpsertOK(client[c]) /\ UNCHANGED issues
      /\ state.pc = "write" /\ state.handler = client[c] /\ state.of = f
  BY DEF UpsertFind, HandlersInv, HandlerOK
<1>3. Continue(c, state)
  BY <1>1
<1> HIDE DEF state
<1>4. HandlerOK(state, DOMAIN issues)
  BY <1>2 DEF HandlerOK, UpsertOK
<1> QED
  BY <1>2, <1>3, <1>4, LookStep

LEMMA IssueStep ==
    ASSUME HandlersInv, NEW c \in Client, ActOnTripIssue(c) \/ LoadTrip(c) \/ RecheckTripIssue(c)
    PROVE  HandlersInv'
<1>1. CASE ActOnTripIssue(c)
  <2>1. PICK k \in DOMAIN issues, op \in {"recheck", "accept", "rebuild"} :
          Begin(c, IF op = "accept" THEN Closing(k, "accepted", "accept_variance")
                    ELSE [pc |-> "load", op |-> op, key |-> k])
    BY <1>1 DEF ActOnTripIssue
  <2> QED
    BY <1>1, <2>1, LookStep DEF ActOnTripIssue, HandlerOK, Closing, Status
<1>2. CASE LoadTrip(c)
  <2>1. /\ client[c].op \in {"recheck", "repaired"} /\ client[c].key \in DOMAIN issues
        /\ Continue(c, [pc |-> "detect", op |-> client[c].op, key |-> client[c].key,
                        docs |-> trips[client[c].key[1]]])
        /\ UNCHANGED issues
    BY <1>2 DEF LoadTrip, HandlersInv, HandlerOK
  <2> QED
    BY <2>1, LookStep DEF HandlerOK
<1>3. CASE RecheckTripIssue(c)
  <2> DEFINE h == client[c]
             same == {f \in Found(h.key[1], h.docs) : f.key = h.key}
  <2>1. /\ h.key \in DOMAIN issues /\ h.key[1] \in Trip /\ UNCHANGED issues /\ h.op # "scan"
        /\ Continue(c, IF same # {} THEN [pc |-> "find", op |-> h.op, todo |-> same]
                       ELSE Closing(h.key, "resolved", IF h.op = "recheck" THEN "recheck"
                                                       ELSE "rebuild_payable_snapshot"))
    BY <1>3 DEF RecheckTripIssue, HandlersInv, HandlerOK, IndexOK
  <2>2. \A f \in same : f.key[1] \in Trip
    BY <2>1
  <2> HIDE DEF same
  <2> QED
    BY <2>1, <2>2, LookStep DEF HandlerOK, UpsertOK, Closing, Status
<1> QED
  BY <1>1, <1>2, <1>3

LEMMA RebuildReadStep ==
    ASSUME HandlersInv, SourcesInv, NEW c \in Client, LoadForRebuild(c) \/ CountActiveWorkers(c)
    PROVE  HandlersInv'
<1>1. HandlerOK(Idle, DOMAIN issues) /\ UNCHANGED issues
  BY DEF LoadForRebuild, CountActiveWorkers, HandlerOK, Idle
<1>2. CASE LoadForRebuild(c)
  <2> DEFINE k == client[c].key
             trip == trips[k[1]]
  <2>1. k \in DOMAIN issues /\ IsTrip(trip)
    BY <1>2 DEF LoadForRebuild, HandlersInv, HandlerOK, IndexOK, SourcesInv
  <2>2. \/ Continue(c, Idle)
        \/ /\ Continue(c, [pc |-> "count", key |-> k, docs |-> trip])
           /\ CanonicalTripCalculation(trip, Office).valid
    BY <1>2 DEF LoadForRebuild
  <2> HIDE DEF trip
  <2> QED
    BY <1>1, <2>1, <2>2, LookStep DEF HandlerOK
<1>3. CASE CountActiveWorkers(c)
  <2> DEFINE h == client[c]
             g == [h EXCEPT !.pc = "update"]
  <2>1. h.pc = "count" /\ HandlerOK(h, DOMAIN issues)
    BY <1>3 DEF CountActiveWorkers, HandlersInv
  <2>2. Continue(c, Idle) \/ Continue(c, g)
    BY <1>3 DEF CountActiveWorkers
  <2>3. g.pc = "update" /\ g.key = h.key /\ g.docs = h.docs /\ DOMAIN g = DOMAIN h
    BY <2>1 DEF HandlerOK
  <2> HIDE DEF g
  <2>4. HandlerOK(g, DOMAIN issues)
    BY <2>1, <2>3 DEF HandlerOK
  <2> QED
    BY <1>1, <2>2, <2>4, LookStep
<1> QED
  BY <1>2, <1>3

LEMMA UpdatedIssue ==
    ASSUME NEW issue, IssueOK(issue), NEW f, NEW reopen
    PROVE  LET new == Updated(issue, f, reopen)
           IN  /\ IssueOK(new)
               /\ new.status = IF reopen THEN "open" ELSE issue.status
               /\ new.expected = f.expected /\ new.actual = f.actual /\ new.fixable = f.fixable
<1> DEFINE new == Updated(issue, f, reopen)
<1>1. /\ DOMAIN new = DOMAIN issue
      /\ new.status = IF reopen THEN "open" ELSE issue.status
      /\ new.expected = f.expected /\ new.actual = f.actual /\ new.fixable = f.fixable
  BY DEF IssueOK, Updated
<1> HIDE DEF new
<1>2. IssueOK(new)
  BY <1>1 DEF IssueOK, Status
<1> QED
  BY <1>1, <1>2 DEF new

LEMMA ClosedIssue ==
    ASSUME NEW issue, IssueOK(issue), NEW status \in Status, NEW action
    PROVE  IssueOK(Closed(issue, status, action)) /\ Closed(issue, status, action).status = status
<1> DEFINE new == Closed(issue, status, action)
<1>1. DOMAIN new = DOMAIN issue /\ new.status = status
  BY DEF IssueOK, Closed
<1> HIDE DEF new
<1>2. IssueOK(new)
  BY <1>1 DEF IssueOK
<1> QED
  BY <1>1, <1>2 DEF new

\* What is left to upsert is where the handler goes on.
LEMMA UpsertedOK ==
    ASSUME HandlersInv, NEW c \in Client, client[c].pc = "write", NEW keys
    PROVE  HandlerOK(Upserted(c), keys) /\ HandlerOK(client[c].handler, keys)
<1> DEFINE h == client[c].handler
           todo == h.todo \ {client[c].of}
           g == [h EXCEPT !.todo = todo]
<1>1. h.pc = "find" /\ UpsertOK(h)
  BY DEF HandlersInv, HandlerOK
<1> HIDE DEF h
<1>2. HandlerOK(h, keys)
  BY <1>1 DEF HandlerOK
<1>3. ASSUME h.op = "scan" PROVE HandlerOK(NextTrip(g), keys) /\ HandlerOK(g, keys)
  <2>1. ScanOK(h) /\ todo \subseteq h.todo
    BY <1>1, <1>3 DEF UpsertOK
  <2>2. /\ DOMAIN g = DOMAIN h /\ g.pc = "find" /\ g.op = "scan" /\ g.todo = todo
        /\ g.docs = h.docs
    BY <1>1, <1>3, <2>1 DEF ScanOK
  <2> HIDE DEF g, todo
  <2>3. ScanOK(g)
    BY <2>1, <2>2 DEF ScanOK
  <2>4. HandlerOK(g, keys)
    BY <2>2, <2>3 DEF HandlerOK, UpsertOK, ScanOK
  <2> QED
    BY <2>2, <2>3, <2>4, NextTripOK
<1> HIDE DEF g
<1>4. HandlerOK(Idle, keys)
  BY DEF HandlerOK, Idle
<1> QED
  BY <1>2, <1>3, <1>4 DEF Upserted, h, g

LEMMA UpsertStep ==
    ASSUME HandlersInv, NEW c \in Client, UpsertInsert(c) \/ UpsertUpdate(c)
    PROVE  HandlersInv'
<1> DEFINE f == client[c].of
<1>0. client[c].pc = "write" /\ f.key[1] \in Trip /\ IndexOK /\ faults \in Nat
  BY DEF UpsertInsert, UpsertUpdate, HandlersInv, HandlerOK
<1>1. CASE Continue(c, client[c].handler) /\ UNCHANGED issues
  BY <1>0, <1>1, LookStep, UpsertedOK
<1>2. CASE Continue(c, Upserted(c)) /\ \E issue : IssueOK(issue) /\ issues' = Put(issues, f.key, issue)
  <2>1. PICK issue : IssueOK(issue) /\ issues' = Put(issues, f.key, issue)
    BY <1>2
  <2>2. \A index : /\ DOMAIN Put(index, f.key, issue) = DOMAIN index \cup {f.key}
                   /\ Put(index, f.key, issue)[f.key] = issue
                   /\ \A l \in DOMAIN index : l # f.key => Put(index, f.key, issue)[l] = index[l]
    BY DEF Put
  <2>3. /\ DOMAIN issues' = DOMAIN issues \cup {f.key} /\ issues'[f.key] = issue
        /\ \A l \in DOMAIN issues : l # f.key => issues'[l] = issues[l]
    BY <2>1, <2>2
  <2>4. IndexOK'
    BY <1>0, <2>1, <2>3 DEF IndexOK
  <2>5. HandlerOK(Upserted(c), DOMAIN issues')
    BY <1>0, UpsertedOK
  <2>6. alone' \in [Client -> BOOLEAN] /\ faults' \in Nat /\ client' = [client EXCEPT ![c] = Upserted(c)]
    BY <1>0, <1>2 DEF Continue
  <2> QED
    BY <2>3, <2>4, <2>5, <2>6, HandlerStep
<1>3. CASE Continue(c, Upserted(c))
           /\ \E reopen : issues' = [issues EXCEPT ![f.key] = Updated(issues[f.key], f, reopen)]
  <2>1. PICK reopen : issues' = [issues EXCEPT ![f.key] = Updated(issues[f.key], f, reopen)]
    BY <1>3
  <2>2. IndexOK' /\ DOMAIN issues' = DOMAIN issues
    BY <1>0, <2>1, UpdatedIssue DEF IndexOK
  <2>3. HandlerOK(Upserted(c), DOMAIN issues')
    BY <1>0, UpsertedOK
  <2>4. alone' \in [Client -> BOOLEAN] /\ faults' \in Nat /\ client' = [client EXCEPT ![c] = Upserted(c)]
    BY <1>0, <1>3 DEF Continue
  <2> QED
    BY <2>2, <2>3, <2>4, HandlerStep
<1>4. CASE UpsertInsert(c)
  <2> DEFINE issue == [status |-> "open", date |-> f.date, expected |-> f.expected,
                       actual |-> f.actual, fixable |-> f.fixable, history |-> <<>>]
  <2>1. IssueOK(issue)
    BY DEF IssueOK, Status
  <2>2. \/ Continue(c, client[c].handler) /\ UNCHANGED issues
        \/ Continue(c, Upserted(c)) /\ issues' = Put(issues, f.key, issue)
    BY <1>4 DEF UpsertInsert
  <2> HIDE DEF issue
  <2> QED
    BY <1>1, <1>2, <2>1, <2>2
<1>5. CASE UpsertUpdate(c)
  BY <1>3, <1>5 DEF UpsertUpdate
<1> QED
  BY <1>4, <1>5

LEMMA CloseStep ==
    ASSUME HandlersInv, NEW c \in Client, CloseStale(c) \/ CloseTripIssue(c)
    PROVE  HandlersInv'
<1>1. /\ alone' \in [Client -> BOOLEAN] /\ faults' \in Nat /\ client' = [client EXCEPT ![c] = Idle]
      /\ \A keys : HandlerOK(Idle, keys)
  <2>1. Continue(c, Idle)
    BY DEF CloseStale, CloseTripIssue
  <2>2. alone' \in [Client -> BOOLEAN] /\ faults' = faults /\ client' = [client EXCEPT ![c] = Idle]
    BY <2>1 DEF Continue
  <2>3. faults \in Nat
    BY DEF HandlersInv
  <2>4. \A keys : HandlerOK(Idle, keys)
    BY DEF HandlerOK, Idle
  <2> QED
    BY <2>2, <2>3, <2>4
<1>2. IndexOK' /\ DOMAIN issues' = DOMAIN issues
  <2>1. CASE CloseStale(c)
    <3>1. "resolved" \in Status
      BY DEF Status
    <3>2. DOMAIN issues' = DOMAIN issues
          /\ \A k \in DOMAIN issues : \/ issues'[k] = Closed(issues[k], "resolved", "auto_recheck")
                                      \/ issues'[k] = issues[k]
      BY <2>1 DEF CloseStale
    <3> QED
      BY <3>1, <3>2, ClosedIssue DEF HandlersInv, IndexOK
  <2>2. CASE CloseTripIssue(c)
    <3>1. client[c].status \in Status
      BY <2>2 DEF CloseTripIssue, HandlersInv, HandlerOK
    <3>2. issues' = [issues EXCEPT ![client[c].key] =
                        Closed(issues[client[c].key], client[c].status, client[c].action)]
      BY <2>2 DEF CloseTripIssue
    <3> QED
      BY <3>1, <3>2, ClosedIssue DEF HandlersInv, IndexOK
  <2> QED
    BY <2>1, <2>2
<1> QED
  BY <1>1, <1>2, HandlerStep

LEMMA RebuildHandlersStep ==
    ASSUME HandlersInv, NEW c \in Client, RebuildTripSnapshot(c)
    PROVE  HandlersInv'
<1>1. client[c].key \in DOMAIN issues /\ UNCHANGED issues
  BY DEF RebuildTripSnapshot, HandlersInv, HandlerOK
<1>2. PICK state \in {Idle, [pc |-> "load", op |-> "repaired", key |-> client[c].key]} :
        Continue(c, state)
  BY DEF RebuildTripSnapshot
<1>3. HandlerOK(state, DOMAIN issues)
  BY <1>1, <1>2 DEF HandlerOK, Idle
<1> QED
  BY <1>1, <1>2, <1>3, LookStep

LEMMA AbandonStep ==
    ASSUME HandlersInv, NEW c \in Client, Abandon(c)
    PROVE  HandlersInv'
<1>1. /\ client' = [client EXCEPT ![c] = Idle] /\ alone' \in [Client -> BOOLEAN]
      /\ faults' \in Nat /\ UNCHANGED issues
  BY DEF Abandon, Disturb, HandlersInv
<1>2. HandlerOK(Idle, DOMAIN issues') /\ IndexOK'
  BY <1>1 DEF HandlerOK, Idle, HandlersInv, IndexOK
<1> QED
  BY <1>1, <1>2, HandlerStep

\* Steps that touch neither the handlers nor the index.
LEMMA OtherHandlersStep ==
    ASSUME HandlersInv, UNCHANGED <<client, issues, faults>>, alone' \in [Client -> BOOLEAN]
    PROVE  HandlersInv'
  BY DEF HandlersInv, IndexOK

-----------------------------------------------------------------------------
(* Trips on their way to the ledger *)

\* A step that changes one trip at most.
LEMMA TripStep ==
    ASSUME SourcesInv, NEW t \in Trip,
           DOMAIN trips' = Trip, IsTrip(trips'[t]),
           \A u \in Trip : u # t => trips'[u] = trips[u],
           DOMAIN captured' = Trip, DOMAIN announced' = Trip,
           DOMAIN rows' = Trip, DOMAIN repaired' = Trip,
           \A u \in Trip : u # t => /\ captured'[u] = captured[u] /\ announced'[u] = announced[u]
                                    /\ rows'[u] = rows[u] /\ repaired'[u] = repaired[u],
           captured'[t] \in Nat, announced'[t] \subseteq 1 .. captured'[t],
           Pays(t)' /\ ~repaired'[t] => captured'[t] \in announced'[t] \/ UpToDate(t)'
    PROVE  SourcesInv'
<1>1. ASSUME NEW u \in Trip, u # t, Pays(u)', ~repaired'[u]
      PROVE  captured'[u] \in announced'[u] \/ UpToDate(u)'
  BY <1>1 DEF SourcesInv, Pays, Settled, UpToDate, RowsOf
<1> QED
  BY <1>1 DEF SourcesInv

LEMMA RebuildSourcesStep ==
    ASSUME HandlersInv, SourcesInv, NEW c \in Client, RebuildTripSnapshot(c)
    PROVE  SourcesInv'
<1> DEFINE t == client[c].key[1]
           s == RebuiltSnapshot(client[c].docs)
<1>1. /\ client[c].key \in DOMAIN issues /\ t \in Trip /\ IsTrip(client[c].docs)
      /\ CanonicalTripCalculation(client[c].docs, Office).valid
  BY DEF RebuildTripSnapshot, HandlersInv, HandlerOK, IndexOK
<1>2. s \in SnapshotDocument
  BY <1>1, RebuiltIsSnapshot
<1>3. CASE UNCHANGED <<trips, captured, repaired>>
  BY <1>3 DEF RebuildTripSnapshot, SourcesInv, Pays, Settled, UpToDate, RowsOf
<1>4. CASE /\ trips' = [trips EXCEPT ![t] = WithSnapshot(trips[t], s)]
           /\ captured' = [captured EXCEPT ![t] = captured[t] + 1]
           /\ repaired' = [repaired EXCEPT ![t] = TRUE]
  <2> HIDE DEF s
  <2>1. IsTrip(WithSnapshot(trips[t], s))
    BY <1>1, <1>2, SnapshotReplaced DEF SourcesInv
  <2>2. UNCHANGED <<announced, rows>>
    BY DEF RebuildTripSnapshot
  <2>3. captured[t] \in Nat /\ announced[t] \subseteq 1 .. captured[t]
    BY <1>1 DEF SourcesInv
  <2>4. /\ DOMAIN trips' = Trip /\ trips'[t] = WithSnapshot(trips[t], s)
        /\ \A u \in Trip : u # t => trips'[u] = trips[u]
        /\ DOMAIN captured' = Trip /\ captured'[t] = captured[t] + 1
        /\ \A u \in Trip : u # t => captured'[u] = captured[u]
        /\ DOMAIN repaired' = Trip /\ repaired'[t] = TRUE
        /\ \A u \in Trip : u # t => repaired'[u] = repaired[u]
    BY <1>1, <1>4 DEF SourcesInv
  <2> HIDE DEF t
  <2>5. captured'[t] \in Nat /\ announced'[t] \subseteq 1 .. captured'[t]
    BY <2>2, <2>3, <2>4
  <2>6. DOMAIN announced' = Trip /\ DOMAIN rows' = Trip
    BY <2>2 DEF SourcesInv
  <2> QED
    BY <1>1, <2>1, <2>2, <2>4, <2>5, <2>6, TripStep
<1> QED
  BY <1>3, <1>4 DEF RebuildTripSnapshot

LEMMA EditTripStep ==
    ASSUME SourcesInv, NEW t \in Trip, EditTrip(t)
    PROVE  SourcesInv'
<1>1. PICK r \in Revisions : trips' = [trips EXCEPT ![t] = Overwritten(trips[t], r)]
  BY DEF EditTrip
<1>2. /\ captured' = [captured EXCEPT ![t] = captured[t] + 1]
      /\ announced' = [announced EXCEPT ![t] = announced[t] \cup {captured[t] + 1}]
      /\ repaired' = [repaired EXCEPT ![t] = FALSE]
      /\ rows' = rows
  BY DEF EditTrip, Edit
<1>3. IsTrip(Overwritten(trips[t], r))
  BY OverwrittenIsTrip DEF SourcesInv
<1> DEFINE new == Overwritten(trips[t], r)
<1> HIDE DEF new
<1>4. /\ DOMAIN trips' = Trip /\ trips'[t] = new
      /\ \A u \in Trip : u # t => trips'[u] = trips[u]
  BY <1>1 DEF SourcesInv, new
<1>5. /\ DOMAIN captured' = Trip /\ captured'[t] = captured[t] + 1
      /\ DOMAIN announced' = Trip /\ announced'[t] = announced[t] \cup {captured[t] + 1}
      /\ DOMAIN repaired' = Trip /\ DOMAIN rows' = Trip
      /\ \A u \in Trip : u # t => /\ captured'[u] = captured[u] /\ announced'[u] = announced[u]
                                  /\ rows'[u] = rows[u] /\ repaired'[u] = repaired[u]
  BY <1>2 DEF SourcesInv
<1>6. captured[t] \in Nat /\ announced[t] \subseteq 1 .. captured[t]
  BY DEF SourcesInv
<1>7. captured'[t] \in Nat /\ announced'[t] \subseteq 1 .. captured'[t]
      /\ captured'[t] \in announced'[t]
  BY <1>5, <1>6
<1> QED
  BY <1>3, <1>4, <1>5, <1>7, TripStep DEF new

LEMMA PayTripStep ==
    ASSUME SourcesInv, NEW t \in Trip, PayTrip(t)
    PROVE  SourcesInv'
<1> DEFINE s == [trips[t].snapshot EXCEPT !.paid = TRUE]
<1>1. /\ trips[t].snapshot \in SnapshotDocument /\ IsTrip(trips[t])
      /\ trips' = [trips EXCEPT ![t] = WithSnapshot(trips[t], s)]
      /\ UNCHANGED <<captured, announced, repaired, rows>>
  BY TripTypes DEF PayTrip, Edit, SourcesInv
<1>2. s \in SnapshotDocument /\ s.paid
  BY <1>1 DEF SnapshotDocument
<1> HIDE DEF s
<1> DEFINE new == WithSnapshot(trips[t], s)
<1>3. IsTrip(new) /\ new.snapshot = s /\ s # None
  BY <1>1, <1>2, SnapshotReplaced, SnapshotTypes
<1> HIDE DEF new
<1>4. /\ DOMAIN trips' = Trip /\ trips'[t] = new
      /\ \A u \in Trip : u # t => trips'[u] = trips[u]
  BY <1>1 DEF SourcesInv, new
<1>5. ~Pays(t)'
  BY <1>2, <1>3, <1>4 DEF Pays, Settled
<1> QED
  BY <1>1, <1>3, <1>4, <1>5, TripStep DEF SourcesInv

\* An event of the version there is puts the rows; an older one puts nothing.
LEMMA ConsumeStep ==
    ASSUME SourcesInv, NEW t \in Trip, ConsumeEvent(t)
    PROVE  SourcesInv'
<1> DEFINE puts(version) == /\ ~Stale(t, version) /\ trips[t].payable
                            /\ PaidWorker(trips[t]) # None /\ trips[t].snapshot # None
           new == Payables(Materialized(rows[t].commission, RowsOf(t).commission),
                           Materialized(rows[t].petrol, RowsOf(t).petrol))
<1>1. PICK version \in announced[t] :
        /\ announced' = [announced EXCEPT ![t] = announced[t] \ {version}]
        /\ rows' = IF puts(version) THEN [rows EXCEPT ![t] = new] ELSE rows
  BY DEF ConsumeEvent, RowsOf
<1>2. UNCHANGED <<trips, captured, repaired>>
  BY DEF ConsumeEvent
<1>3. captured[t] \in Nat /\ announced[t] \subseteq 1 .. captured[t]
  BY DEF SourcesInv
<1>4. /\ DOMAIN announced' = Trip /\ announced'[t] = announced[t] \ {version}
      /\ DOMAIN rows' = Trip /\ rows'[t] = (IF puts(version) THEN new ELSE rows[t])
      /\ \A u \in Trip : u # t => announced'[u] = announced[u] /\ rows'[u] = rows[u]
  <2> HIDE DEF new, puts
  <2> QED
    BY <1>1 DEF SourcesInv
<1>5. RowsOf(t)' = RowsOf(t) /\ (Pays(t)' <=> Pays(t))
  BY <1>2 DEF RowsOf, Pays, Settled
<1>6. ASSUME Pays(t), ~repaired[t]
      PROVE  captured[t] \in announced'[t] \/ UpToDate(t)'
  <2>1. CASE version = captured[t]
    <3>1. ~Stale(t, version)
      BY <1>3, <2>1 DEF Stale
    <3>2. CASE trips[t].snapshot = None
      <4>1. trips'[t].snapshot = None
        BY <1>2, <3>2
      <4> QED
        BY <1>2, <3>2, NoSnapshotNoRows, <1>5 DEF UpToDate, RowsOf, EffectiveTripPayables, Payables
    <3>3. CASE trips[t].snapshot # None
      <4>1. rows'[t] = new
        BY <1>4, <1>6, <3>1, <3>3 DEF Pays
      <4>2. \A field \in {"commission", "petrol"} :
              RowsOf(t)[field] \notin {None, 0} => new[field] = RowsOf(t)[field]
        BY DEF Payables, Materialized
      <4> HIDE DEF new
      <4> QED
        BY <1>5, <4>1, <4>2 DEF UpToDate
    <3> QED
      BY <3>2, <3>3
  <2>2. CASE version # captured[t] /\ captured[t] \in announced[t]
    BY <1>4, <2>2
  <2>3. CASE version # captured[t] /\ captured[t] \notin announced[t]
    <3>1. UpToDate(t)
      BY <1>6, <2>3 DEF SourcesInv
    <3>2. Stale(t, version)
      BY <1>3, <2>3 DEF Stale
    <3>3. rows'[t] = rows[t]
      BY <1>4, <3>2
    <3> QED
      BY <1>5, <3>1, <3>3 DEF UpToDate
  <2> QED
    BY <2>1, <2>2, <2>3
<1>7. DOMAIN trips' = Trip /\ IsTrip(trips'[t]) /\ DOMAIN captured' = Trip /\ DOMAIN repaired' = Trip
  BY <1>2 DEF SourcesInv
<1>8. captured'[t] \in Nat /\ announced'[t] \subseteq 1 .. captured'[t]
  BY <1>2, <1>3, <1>4
<1> HIDE DEF new, puts
<1> QED
  BY <1>2, <1>4, <1>5, <1>6, <1>7, <1>8, TripStep

\* Other steps leave the trips and their rows alone.
LEMMA SameSources ==
    ASSUME SourcesInv, UNCHANGED <<trips, captured, announced, rows, repaired>>
    PROVE  SourcesInv'
  BY Zenon DEF SourcesInv, Pays, Settled, UpToDate, RowsOf

Looking(c) ==
    \/ ScanTrips(c) \/ ActOnTripIssue(c) \/ DetectInScan(c) \/ UpsertFind(c) \/ UpsertInsert(c)
    \/ UpsertUpdate(c) \/ CloseStale(c) \/ LoadTrip(c) \/ RecheckTripIssue(c)
    \/ LoadForRebuild(c) \/ CountActiveWorkers(c) \/ CloseTripIssue(c) \/ Abandon(c)

LEMMA LookingLeavesSources ==
    ASSUME NEW c, Looking(c)
    PROVE  UNCHANGED sources
  BY DEF Looking, ScanTrips, ActOnTripIssue, DetectInScan, UpsertFind, UpsertInsert,
     UpsertUpdate, CloseStale, LoadTrip, RecheckTripIssue, LoadForRebuild, CountActiveWorkers,
     CloseTripIssue, Abandon

LEMMA NextInvs == HandlersInv /\ SourcesInv /\ [Next]_vars => (HandlersInv /\ SourcesInv)'
<1> SUFFICES ASSUME HandlersInv, SourcesInv, [Next]_vars PROVE HandlersInv' /\ SourcesInv'
  OBVIOUS
<1>1. ASSUME NEW c \in Client, Looking(c) PROVE HandlersInv' /\ SourcesInv'
  <2>1. UNCHANGED <<trips, captured, announced, rows, repaired>>
    BY <1>1, LookingLeavesSources DEF sources
  <2> QED
    BY <1>1, <2>1, SameSources, ScanStep, FindStep, IssueStep, RebuildReadStep, UpsertStep,
       CloseStep, AbandonStep DEF Looking
<1>2. ASSUME NEW c \in Client, RebuildTripSnapshot(c) PROVE HandlersInv' /\ SourcesInv'
  BY <1>2, RebuildHandlersStep, RebuildSourcesStep
<1>3. ASSUME NEW t \in Trip, EditTrip(t) \/ PayTrip(t) \/ ConsumeEvent(t)
      PROVE  HandlersInv' /\ SourcesInv'
  <2>1. UNCHANGED <<client, issues, faults>> /\ alone' \in [Client -> BOOLEAN]
    BY <1>3 DEF EditTrip, PayTrip, ConsumeEvent, Edit, Disturb, HandlersInv
  <2> QED
    BY <1>3, <2>1, OtherHandlersStep, EditTripStep, PayTripStep, ConsumeStep
<1>4. ASSUME NEW w \in Worker, DeleteWorker(w) PROVE HandlersInv' /\ SourcesInv'
  BY <1>4, OtherHandlersStep, SameSources DEF DeleteWorker, Edit, Disturb
<1>5. CASE UNCHANGED vars
  BY <1>5, OtherHandlersStep, SameSources DEF vars, sources, HandlersInv
<1> QED
  BY <1>1, <1>2, <1>3, <1>4, <1>5 DEF Next, Handle, Looking

\* The invariants hold of every behaviour.
THEOREM Invariance == Spec => [](HandlersInv /\ SourcesInv)
  BY InitInvs, NextInvs, PTL DEF Spec

\* When the events of a trip are consumed, in whatever order, its rows say
\* what its snapshot is worth, unless the snapshot is the work of a repair.
THEOREM RowsCatchUp == Spec => []RowsFollowSnapshots
<1>1. SourcesInv => RowsFollowSnapshots
  BY DEF SourcesInv, RowsFollowSnapshots, Materializable, Pays
<1> QED
  BY <1>1, Invariance, PTL

LEMMA PaidStep ==
    ASSUME SourcesInv, [Next]_vars, NEW t \in Trip, trips[t].snapshot # None, trips[t].snapshot.paid
    PROVE  trips'[t].snapshot = trips[t].snapshot
<1>1. DOMAIN trips = Trip
  BY DEF SourcesInv
<1>2. ASSUME NEW c \in Client, RebuildTripSnapshot(c) PROVE trips'[t] = trips[t]
  <2> DEFINE u == client[c].key[1]
  <2>1. \/ trips' = trips
        \/ Unpaid(trips[u]) /\ trips' = [trips EXCEPT ![u] = WithSnapshot(trips[u], RebuiltSnapshot(client[c].docs))]
    BY <1>2 DEF RebuildTripSnapshot
  <2> HIDE DEF u
  <2> QED
    BY <1>1, <2>1 DEF Unpaid
<1>3. ASSUME NEW u \in Trip, EditTrip(u) PROVE trips'[t] = trips[t]
  <2>1. PICK new : trips' = [trips EXCEPT ![u] = new] /\ Unpaid(trips[u])
    BY <1>3 DEF EditTrip
  <2> QED
    BY <1>1, <2>1 DEF Unpaid
<1>4. ASSUME NEW u \in Trip, PayTrip(u) PROVE trips'[t] = trips[t]
  <2>1. PICK new : trips' = [trips EXCEPT ![u] = new] /\ ~trips[u].snapshot.paid
    BY <1>4 DEF PayTrip
  <2> QED
    BY <1>1, <2>1
<1>5. CASE UNCHANGED trips
  BY <1>5
<1>6. ASSUME NEW c \in Client, Looking(c) PROVE UNCHANGED trips
  BY <1>6, LookingLeavesSources DEF sources
<1> QED
  BY <1>2, <1>3, <1>4, <1>5, <1>6
     DEF Next, Handle, Looking, vars, sources, ConsumeEvent, DeleteWorker

\* The service never touches a paid snapshot, although it may have read the
\* trip before it was paid.
THEOREM PaidStaysPaid == Spec => PaidSnapshotsImmutable
<1>1. HandlersInv /\ SourcesInv /\ [Next]_vars =>
        [\A t \in Trip :
            trips[t].snapshot # None /\ trips[t].snapshot.paid
            => trips'[t].snapshot = trips[t].snapshot]_vars
  BY PaidStep
<1> QED
  BY <1>1, Invariance, PTL DEF Spec, PaidSnapshotsImmutable

-----------------------------------------------------------------------------
(* What a handler knows that nobody disturbed *)

ScanTripsOf(range) == {t \in Trip : InScan(t, range)}

\* What detection finds in these trips.
FoundIn(ts) == UNION {Found(t, trips[t]) : t \in ts}

\* The trips of a scan it is done with, but for the detections in todo.
Done(h) == ScanTripsOf(h.range) \ DOMAIN h.docs

\* The index says of a discrepancy what the scan found.
Told(f, index) ==
    /\ f.key \in DOMAIN index
    /\ index[f.key].status \in {"open", "accepted"}
    /\ index[f.key].expected = f.expected /\ index[f.key].actual = f.actual
    /\ index[f.key].fixable = f.fixable

Reporting(h, index) ==
    /\ DOMAIN h = {"pc", "op", "range", "todo", "docs", "detected"}
    /\ h.op = "scan"
    /\ DOMAIN h.docs \subseteq ScanTripsOf(h.range)
    /\ \A t \in DOMAIN h.docs : h.docs[t] = trips[t]
    /\ h.todo \subseteq FoundIn(Done(h))
    /\ h.detected = {f.key : f \in FoundIn(Done(h))}
    /\ \A f \in FoundIn(Done(h)) \ h.todo : Told(f, index)

Knows(c) ==
    LET h == client[c]
    IN  /\ h.pc = "write" =>
              /\ h.existing = IF h.of.key \in DOMAIN issues THEN issues[h.of.key] ELSE NoIssue
              /\ h.handler.op = "scan" =>
                    h.of \in h.handler.todo /\ Reporting(h.handler, issues)
        /\ h.pc = "find" /\ h.op = "scan" => Reporting(h, issues)
        /\ h.pc = "detect" /\ h.op = "scan" => Reporting(h, issues) /\ h.todo = {}
        /\ h.pc = "stale" => Reporting(h, issues) /\ h.todo = {} /\ DOMAIN h.docs = {}
        /\ h.pc \in {"count", "update"} => h.docs = trips[h.key[1]]

AloneInv == \A c \in Client : alone[c] => Knows(c)

\* Detection reports a type of issue once.
LEMMA OneCalculationPerType ==
    ASSUME NEW trip, NEW valid,
           NEW i \in CalculationIssues(trip, valid), NEW j \in CalculationIssues(trip, valid),
           i.type = j.type
    PROVE  i = j
<1> DEFINE c == CanonicalTripCalculation(trip, Office)
           s == trip.snapshot
<1>1. CASE ~c.valid
  BY <1>1 DEF CalculationIssues
<1>2. CASE c.valid /\ s = None
  BY <1>2 DEF CalculationIssues
<1>3. CASE c.valid /\ s # None
  <2> DEFINE fixable == valid /\ ~s.paid
  <2>1. CalculationIssues(trip, valid) = SnapshotIssues(s, c, fixable)
    BY <1>3 DEF CalculationIssues
  <2> HIDE DEF c, s, fixable
  <2>2. SnapshotIssues(s, c, fixable) \subseteq
          {Issue(DistanceMismatch, 0, 0, fixable),
           Issue(PetrolMismatch, c.petrol, Amount(s.petrol), fixable),
           Issue(CommissionMismatch, c.commission, Amount(s.commission), fixable)}
    BY DEF SnapshotIssues
  <2> QED
    BY <2>1, <2>2 DEF Issue, DistanceMismatch, PetrolMismatch, CommissionMismatch
<1> QED
  BY <1>1, <1>2, <1>3

LEMMA CalculationTypes ==
    ASSUME NEW trip, NEW valid, NEW i \in CalculationIssues(trip, valid)
    PROVE  i.type \notin {MissingWorker, DeletedWorker}
<1> DEFINE c == CanonicalTripCalculation(trip, Office)
           s == trip.snapshot
<1>1. \/ i.type \in {InvalidConfig, MissingSnapshot}
      \/ \E fixable : i \in SnapshotIssues(s, c, fixable)
  BY DEF CalculationIssues, Issue
<1> HIDE DEF c, s
<1>2. \A fixable : \A k \in SnapshotIssues(s, c, fixable) :
        k.type \in {DistanceMismatch, PetrolMismatch, CommissionMismatch}
  BY DEF SnapshotIssues, Issue
<1>3. i.type \in {InvalidConfig, MissingSnapshot, DistanceMismatch, PetrolMismatch,
                  CommissionMismatch}
  BY <1>1, <1>2
<1> QED
  BY <1>3 DEF MissingWorker, DeletedWorker, InvalidConfig, MissingSnapshot, DistanceMismatch,
     PetrolMismatch, CommissionMismatch

LEMMA OnePerType ==
    ASSUME NEW trip, NEW i \in DetectTripIssues(trip), NEW j \in DetectTripIssues(trip),
           i.type = j.type
    PROVE  i = j
<1> DEFINE W == {Issue(type, 0, 0, FALSE) : type \in WorkerIssues(trip)}
           C == CalculationIssues(trip, WorkerIssues(trip) = {})
<1>1. DetectTripIssues(trip) = W \cup C
  BY DEF DetectTripIssues
<1>2. \A k \in W : k = Issue(k.type, 0, 0, FALSE) /\ k.type \in {MissingWorker, DeletedWorker}
  BY DEF WorkerIssues, Issue
<1>3. \A k \in C : k.type \notin {MissingWorker, DeletedWorker}
  BY CalculationTypes
<1>4. \A k, l \in C : k.type = l.type => k = l
  BY OneCalculationPerType
<1> HIDE DEF W, C
<1> QED
  BY <1>1, <1>2, <1>3, <1>4

LEMMA FoundOnce ==
    ASSUME NEW ts, NEW f \in FoundIn(ts), NEW g \in FoundIn(ts), f.key = g.key
    PROVE  f = g
<1> DEFINE Document(t, i) == [key |-> <<t, i.type>>, date |-> trips[t].date,
                              expected |-> i.expected, actual |-> i.actual,
                              fixable |-> i.fixable]
<1>1. ASSUME NEW e \in FoundIn(ts)
      PROVE  \E t \in ts : \E i \in DetectTripIssues(trips[t]) : e = Document(t, i)
  BY <1>1 DEF FoundIn, Found
<1>2. PICK t \in ts : \E i \in DetectTripIssues(trips[t]) : f = Document(t, i)
  BY <1>1
<1>3. PICK i \in DetectTripIssues(trips[t]) : f = Document(t, i)
  BY <1>2
<1>4. PICK u \in ts : \E j \in DetectTripIssues(trips[u]) : g = Document(u, j)
  BY <1>1
<1>5. PICK j \in DetectTripIssues(trips[u]) : g = Document(u, j)
  BY <1>4
<1>6. t = u /\ i.type = j.type
  BY <1>3, <1>5
<1>7. i = j
  BY <1>6, OnePerType
<1> QED
  BY <1>3, <1>5, <1>6, <1>7

\* What is found depends on the trips and on the profiles.
LEMMA SameFound ==
    ASSUME UNCHANGED <<trips, profiles>>
    PROVE  \A h, index : Reporting(h, index)' <=> Reporting(h, index)
<1>1. /\ \A range : ScanTripsOf(range)' = ScanTripsOf(range)
      /\ \A ts : FoundIn(ts)' = FoundIn(ts)
  BY DEF ScanTripsOf, InScan, FoundIn, Found, DetectTripIssues, WorkerIssues
<1> QED
  BY <1>1 DEF Reporting, Done

\* Only the handler itself takes a step that leaves it alone.
LEMMA Solo ==
    ASSUME NEW c \in Client, NEW state, Continue(c, state), NEW d \in Client, alone'[d]
    PROVE  d = c /\ alone[c] /\ state # Idle
  BY DEF Continue

LEMMA BeginAlone ==
    ASSUME NEW c \in Client, NEW state, Begin(c, state), NEW d \in Client, alone'[d]
    PROVE  d = c
  BY DEF Begin

LEMMA NextClient ==
    ASSUME HandlersInv, NEW c \in Client, NEW state, Continue(c, state) \/ Begin(c, state)
    PROVE  client'[c] = state /\ \A d \in Client : d # c => client'[d] = client[d]
  BY DEF HandlersInv, Continue, Begin

LEMMA InitAloneInv == Init => AloneInv
  BY DEF Init, AloneInv

\* What goes on to load, count or close, or is done, knows nothing.
LEMMA NothingToKnow ==
    ASSUME HandlersInv, NEW c \in Client, NEW state, Begin(c, state) \/ Continue(c, state),
           state.pc \notin {"write", "stale", "count", "update"},
           state.pc \in {"find", "detect"} => state.op # "scan",
           NEW d \in Client, alone'[d]
    PROVE  Knows(d)'
<1>1. d = c
  BY Solo, BeginAlone
<1>2. client'[c] = state
  BY NextClient
<1> QED
  BY <1>1, <1>2 DEF Knows

\* Where a scan goes on reports what it reported.
LEMMA NextTripReports ==
    ASSUME NEW h, NEW index, Reporting(h, index), h.todo = {}
    PROVE  LET g == NextTrip(h)
           IN  /\ Reporting(g, index) /\ g.todo = {}
               /\ g.pc \in {"stale", "detect"}
               /\ g.pc = "stale" => DOMAIN g.docs = {}
<1> DEFINE g == NextTrip(h)
<1>1. /\ DOMAIN g = DOMAIN h
      /\ g.pc = (IF h.docs = <<>> THEN "stale" ELSE "detect")
      /\ g.op = h.op /\ g.range = h.range /\ g.todo = h.todo /\ g.docs = h.docs
      /\ g.detected = h.detected
  BY NextTripFields DEF Reporting
<1> HIDE DEF g
<1>2. Reporting(g, index)
  BY <1>1 DEF Reporting, Done
<1>3. DOMAIN <<>> = {}
  OBVIOUS
<1> QED
  BY <1>1, <1>2, <1>3 DEF g

\* A scan that is alone has read its trips as they are.
LEMMA ScanKnows ==
    ASSUME HandlersInv, NEW c \in Client, ScanTrips(c), NEW d \in Client, alone'[d]
    PROVE  Knows(d)'
<1> DEFINE docs(range) == [t \in {u \in Trip : InScan(u, range)} |-> trips[t]]
           Start(range) == [pc |-> "detect", op |-> "scan", range |-> range, todo |-> {},
                            docs |-> docs(range), detected |-> {}]
<1>1. PICK range \in Ranges : Begin(c, NextTrip(Start(range)))
  BY DEF ScanTrips
<1>2. UNCHANGED <<trips, profiles>> /\ issues' = issues
  BY DEF ScanTrips, sources
<1> DEFINE ts == ScanTripsOf(range)
<1>3. DOMAIN docs(range) = ts /\ \A t \in ts : docs(range)[t] = trips[t]
  BY DEF ScanTripsOf
<1> DEFINE h == Start(range)
<1> HIDE DEF docs
<1>4. /\ DOMAIN h = {"pc", "op", "range", "todo", "docs", "detected"}
      /\ h.op = "scan" /\ h.range = range /\ h.todo = {} /\ h.docs = docs(range)
      /\ h.detected = {}
  OBVIOUS
<1> HIDE DEF h
<1>5. Done(h) = {}
  BY <1>3, <1>4 DEF Done
<1>6. FoundIn(Done(h)) = {}
  BY <1>5 DEF FoundIn
<1>7. Reporting(h, issues)
  BY <1>3, <1>4, <1>6 DEF Reporting
<1>8. Begin(c, NextTrip(h))
  BY <1>1 DEF h
<1> DEFINE g == NextTrip(h)
<1>9. /\ Reporting(g, issues) /\ g.todo = {} /\ g.pc \in {"stale", "detect"}
      /\ g.pc = "stale" => DOMAIN g.docs = {}
  BY <1>4, <1>7, NextTripReports
<1>10. d = c /\ client'[c] = g
  BY <1>8, BeginAlone, NextClient
<1> HIDE DEF g
<1> QED
  BY <1>2, <1>9, <1>10, SameFound DEF Knows

\* Detecting one more trip.
LEMMA DetectKnows ==
    ASSUME HandlersInv, AloneInv, NEW c \in Client, DetectInScan(c), NEW d \in Client, alone'[d]
    PROVE  Knows(d)'
<1> DEFINE h == client[c]
           docs(t) == [u \in DOMAIN h.docs \ {t} |-> h.docs[u]]
           next(t, found) == [h EXCEPT !.docs = docs(t), !.todo = found, !.pc = "find",
                                       !.detected = h.detected \cup {f.key : f \in found}]
<1>1. /\ UNCHANGED <<trips, profiles>> /\ issues' = issues
      /\ h.pc = "detect" /\ h.op = "scan"
  BY DEF DetectInScan, sources
<1>2. PICK t \in DOMAIN h.docs :
        Continue(c, IF Found(t, h.docs[t]) = {} THEN NextTrip(next(t, Found(t, h.docs[t])))
                                                ELSE next(t, Found(t, h.docs[t])))
  BY DEF DetectInScan
<1> DEFINE found == Found(t, trips[t])
           new == next(t, found)
<1>3. d = c /\ alone[c]
  BY <1>2, Solo
<1>4. Reporting(h, issues) /\ h.todo = {}
  BY <1>1, <1>3 DEF AloneInv, Knows
<1>5. h.docs[t] = trips[t] /\ t \in ScanTripsOf(h.range)
  BY <1>4 DEF Reporting
<1>6. Continue(c, IF found = {} THEN NextTrip(new) ELSE new)
  BY <1>2, <1>5
<1>7. client'[c] = IF found = {} THEN NextTrip(new) ELSE new
  BY <1>6, NextClient
<1>8. DOMAIN docs(t) = DOMAIN h.docs \ {t} /\ \A u \in DOMAIN docs(t) : docs(t)[u] = h.docs[u]
  OBVIOUS
<1> DEFINE told == h.detected \cup {f.key : f \in found}
<1> HIDE DEF found, told
<1>9. /\ DOMAIN new = DOMAIN h /\ new.op = "scan" /\ new.range = h.range
      /\ new.docs = docs(t) /\ new.todo = found /\ new.pc = "find" /\ new.detected = told
  <2>1. DOMAIN h = {"pc", "op", "range", "todo", "docs", "detected"} /\ h.op = "scan"
    BY <1>4 DEF Reporting
  <2>2. new = [h EXCEPT !.docs = docs(t), !.todo = found, !.pc = "find", !.detected = told]
    BY DEF told
  <2> HIDE DEF h, docs, new
  <2> QED
    BY <2>1, <2>2
<1> HIDE DEF new, docs
<1>10. Done(new) = Done(h) \cup {t}
  BY <1>5, <1>8, <1>9 DEF Done
<1>11. FoundIn(Done(new)) = FoundIn(Done(h)) \cup found
  BY <1>10 DEF FoundIn, found
<1>12. Reporting(new, issues)
  <2>1. DOMAIN new.docs \subseteq ScanTripsOf(new.range)
        /\ \A u \in DOMAIN new.docs : new.docs[u] = trips[u]
    BY <1>4, <1>8, <1>9 DEF Reporting
  <2>2. new.detected = {f.key : f \in FoundIn(Done(new))}
    BY <1>4, <1>9, <1>11 DEF Reporting, told
  <2>3. new.todo \subseteq FoundIn(Done(new))
        /\ \A f \in FoundIn(Done(new)) \ new.todo : Told(f, issues)
    BY <1>4, <1>9, <1>11 DEF Reporting
  <2> QED
    BY <1>4, <1>9, <2>1, <2>2, <2>3 DEF Reporting
<1>13. CASE found = {}
  <2> DEFINE g == NextTrip(new)
  <2>1. /\ Reporting(g, issues) /\ g.todo = {} /\ g.pc \in {"stale", "detect"}
        /\ g.pc = "stale" => DOMAIN g.docs = {}
    BY <1>9, <1>12, <1>13, NextTripReports
  <2>2. client'[c] = g
    BY <1>7, <1>13
  <2> HIDE DEF g
  <2> QED
    BY <1>1, <1>3, <2>1, <2>2, SameFound DEF Knows
<1>14. CASE found # {}
  <2>1. client'[c] = new
    BY <1>7, <1>14
  <2> QED
    BY <1>1, <1>3, <1>9, <1>12, <2>1, SameFound DEF Knows
<1> QED
  BY <1>13, <1>14

\* Finding the issue of one detection.
LEMMA FindKnows ==
    ASSUME HandlersInv, AloneInv, NEW c \in Client, UpsertFind(c), NEW d \in Client, alone'[d]
    PROVE  Knows(d)'
<1>1. PICK f \in client[c].todo :
        Continue(c, [pc |-> "write", of |-> f, handler |-> client[c],
                     existing |-> IF f.key \in DOMAIN issues THEN issues[f.key] ELSE NoIssue])
  BY DEF UpsertFind
<1>2. client[c].pc = "find" /\ UNCHANGED <<trips, profiles>> /\ issues' = issues
  BY DEF UpsertFind, sources
<1> DEFINE state == [pc |-> "write", of |-> f, handler |-> client[c],
                     existing |-> IF f.key \in DOMAIN issues THEN issues[f.key] ELSE NoIssue]
<1>3. /\ state.pc = "write" /\ state.of = f /\ state.handler = client[c]
      /\ state.existing = IF f.key \in DOMAIN issues THEN issues[f.key] ELSE NoIssue
  OBVIOUS
<1>4. Continue(c, state)
  BY <1>1
<1> HIDE DEF state
<1>5. d = c /\ alone[c] /\ client'[c] = state
  BY <1>4, Solo, NextClient
<1>6. client[c].op = "scan" => Reporting(client[c], issues)
  BY <1>2, <1>5 DEF AloneInv, Knows
<1> QED
  BY <1>2, <1>3, <1>5, <1>6, SameFound DEF Knows

\* The index after an upsert tells what was upserted.
LEMMA UpsertTells ==
    ASSUME HandlersInv, AloneInv, NEW c \in Client, alone[c], UpsertInsert(c) \/ UpsertUpdate(c)
    PROVE  LET f == client[c].of
           IN  /\ Continue(c, Upserted(c))
               /\ Told(f, issues')
               /\ \A k \in DOMAIN issues : k # f.key => k \in DOMAIN issues' /\ issues'[k] = issues[k]
<1> DEFINE f == client[c].of
<1>1. /\ client[c].pc = "write"
      /\ client[c].existing = IF f.key \in DOMAIN issues THEN issues[f.key] ELSE NoIssue
  BY DEF AloneInv, Knows, UpsertInsert, UpsertUpdate
<1>2. \A k \in DOMAIN issues : IssueOK(issues[k])
  BY DEF HandlersInv, IndexOK
<1>3. f.key \in DOMAIN issues => issues[f.key] # NoIssue
  <2>1. DOMAIN NoIssue = {}
    BY DEF NoIssue
  <2> QED
    BY <1>2, <2>1 DEF IssueOK
<1>4. CASE f.key \notin DOMAIN issues
  <2> DEFINE issue == [status |-> "open", date |-> f.date, expected |-> f.expected,
                       actual |-> f.actual, fixable |-> f.fixable, history |-> <<>>]
  <2>1. Continue(c, Upserted(c)) /\ issues' = Put(issues, f.key, issue)
    BY <1>1, <1>4 DEF UpsertInsert, UpsertUpdate
  <2>2. /\ issue.status = "open" /\ issue.expected = f.expected
        /\ issue.actual = f.actual /\ issue.fixable = f.fixable
    OBVIOUS
  <2> HIDE DEF issue
  <2>3. \A index : /\ DOMAIN Put(index, f.key, issue) = DOMAIN index \cup {f.key}
                   /\ Put(index, f.key, issue)[f.key] = issue
                   /\ \A l \in DOMAIN index : l # f.key => Put(index, f.key, issue)[l] = index[l]
    BY DEF Put
  <2>4. /\ DOMAIN issues' = DOMAIN issues \cup {f.key} /\ issues'[f.key] = issue
        /\ \A l \in DOMAIN issues : l # f.key => issues'[l] = issues[l]
    BY <2>1, <2>3
  <2> QED
    BY <1>4, <2>1, <2>2, <2>4 DEF Told
<1>5. CASE f.key \in DOMAIN issues
  <2> DEFINE reopen == Reopens(issues[f.key], f)
             new == Updated(issues[f.key], f, reopen)
  <2>1. /\ Continue(c, Upserted(c))
        /\ issues' = [issues EXCEPT ![f.key] = Updated(issues[f.key], f, reopen)]
    BY <1>1, <1>3, <1>5 DEF UpsertInsert, UpsertUpdate
  <2>2. /\ new.status = (IF reopen THEN "open" ELSE issues[f.key].status)
        /\ new.expected = f.expected /\ new.actual = f.actual /\ new.fixable = f.fixable
    BY <1>2, <1>5, UpdatedIssue
  <2>3. issues[f.key].status \in Status
    BY <1>2, <1>5 DEF IssueOK
  <2>4. new.status \in {"open", "accepted"}
    BY <2>2, <2>3 DEF Status, Reopens
  <2> HIDE DEF new
  <2>5. DOMAIN issues' = DOMAIN issues /\ issues'[f.key] = new
        /\ \A l \in DOMAIN issues : l # f.key => issues'[l] = issues[l]
    BY <1>5, <2>1 DEF new
  <2> QED
    BY <1>5, <2>1, <2>2, <2>4, <2>5 DEF Told
<1> QED
  BY <1>4, <1>5

\* One thing less to do, and told.
LEMMA UpsertKnows ==
    ASSUME HandlersInv, AloneInv, NEW c \in Client, UpsertInsert(c) \/ UpsertUpdate(c),
           NEW d \in Client, alone'[d]
    PROVE  Knows(d)'
<1> DEFINE f == client[c].of
           h == client[c].handler
           todo == h.todo \ {f}
           new == [h EXCEPT !.todo = todo]
<1>1. alone[c] /\ d = c /\ client[c].pc = "write" /\ UNCHANGED <<trips, profiles>>
  BY Solo DEF UpsertInsert, UpsertUpdate, sources
<1>2. /\ Continue(c, Upserted(c)) /\ Told(f, issues')
      /\ \A k \in DOMAIN issues : k # f.key => k \in DOMAIN issues' /\ issues'[k] = issues[k]
  BY <1>1, UpsertTells
<1>3. client'[c] = Upserted(c)
  BY <1>2, NextClient
<1>4. h.pc = "find"
  BY <1>1 DEF HandlersInv, HandlerOK
<1>5. CASE h.op # "scan"
  <2>1. client'[c] = Idle
    BY <1>3, <1>5 DEF Upserted
  <2> QED
    BY <1>1, <2>1 DEF Knows, Idle
<1>6. CASE h.op = "scan"
  <2>1. f \in h.todo /\ Reporting(h, issues)
    BY <1>1, <1>6 DEF AloneInv, Knows
  <2>2. client'[c] = IF todo = {} THEN NextTrip(new) ELSE new
    BY <1>3, <1>6 DEF Upserted
  <2>3. /\ DOMAIN new = DOMAIN h /\ new.todo = todo /\ new.op = "scan" /\ new.range = h.range
        /\ new.detected = h.detected /\ new.docs = h.docs /\ new.pc = "find"
    <3> HIDE DEF todo, h
    <3> QED
      BY <1>4, <1>6, <2>1 DEF Reporting
  <2> HIDE DEF new
  <2> DEFINE found == FoundIn(Done(h))
  <2>4. FoundIn(Done(new)) = found
    BY <2>3 DEF Done
  <2>5. ASSUME NEW g \in found \ todo PROVE Told(g, issues')
    <3>1. CASE g = f
      BY <1>2, <3>1
    <3>2. CASE g # f
      <4>1. g \in found /\ f \in found /\ Told(g, issues)
        BY <2>1, <3>2 DEF Reporting
      <4>2. g.key # f.key
        BY <3>2, <4>1, FoundOnce
      <4> QED
        BY <1>2, <4>1, <4>2 DEF Told
    <3> QED
      BY <3>1, <3>2
  <2>6. \A index : index = issues' => Reporting(new, index)
    <3>1. todo \subseteq found
      BY <2>1 DEF Reporting
    <3> HIDE DEF todo, found, h
    <3> QED
      BY <2>1, <2>3, <2>4, <2>5, <3>1 DEF Reporting, found
  <2> HIDE DEF todo, found
  <2>7. CASE todo = {}
    <3> DEFINE g == NextTrip(new)
    <3>1. \A index : index = issues' => Reporting(g, index)
      BY <2>3, <2>6, <2>7, NextTripReports
    <3>2. g.todo = {} /\ g.pc \in {"stale", "detect"} /\ (g.pc = "stale" => DOMAIN g.docs = {})
      BY <2>3, <2>6, <2>7, NextTripReports
    <3>3. client'[c] = g
      BY <2>2, <2>7
    <3> HIDE DEF g
    <3> QED
      BY <1>1, <3>1, <3>2, <3>3, SameFound DEF Knows
  <2>8. CASE todo # {}
    <3>1. client'[c] = new
      BY <2>2, <2>8
    <3> QED
      BY <1>1, <2>3, <2>6, <3>1, SameFound DEF Knows
  <2> QED
    BY <2>7, <2>8
<1> QED
  BY <1>5, <1>6

\* A rebuild that is alone works on the trip as it is.
LEMMA RebuildKnows ==
    ASSUME HandlersInv, AloneInv, NEW c \in Client, LoadForRebuild(c) \/ CountActiveWorkers(c),
           NEW d \in Client, alone'[d]
    PROVE  Knows(d)'
<1>1. UNCHANGED <<trips, profiles>>
  BY DEF LoadForRebuild, CountActiveWorkers, sources
<1>2. CASE LoadForRebuild(c)
  <2> DEFINE state == [pc |-> "count", key |-> client[c].key,
                       docs |-> trips[client[c].key[1]]]
  <2>1. Continue(c, Idle) \/ Continue(c, state)
    BY <1>2 DEF LoadForRebuild
  <2>2. state.pc = "count" /\ state.key = client[c].key /\ state.docs = trips[state.key[1]]
    OBVIOUS
  <2> HIDE DEF state
  <2>3. d = c /\ client'[c] = state
    BY <2>1, Solo, NextClient
  <2> QED
    BY <1>1, <2>2, <2>3 DEF Knows
<1>3. CASE CountActiveWorkers(c)
  <2> DEFINE h == client[c]
             g == [h EXCEPT !.pc = "update"]
  <2>1. h.pc = "count" /\ DOMAIN h = {"pc", "key", "docs"}
    BY <1>3 DEF CountActiveWorkers, HandlersInv, HandlerOK
  <2>2. Continue(c, Idle) \/ Continue(c, g)
    BY <1>3 DEF CountActiveWorkers
  <2>3. g.pc = "update" /\ g.key = h.key /\ g.docs = h.docs
    BY <2>1
  <2> HIDE DEF g
  <2>4. d = c /\ alone[c] /\ client'[c] = g
    BY <2>2, Solo, NextClient
  <2>5. h.docs = trips[h.key[1]]
    BY <2>1, <2>4 DEF AloneInv, Knows
  <2> QED
    BY <1>1, <2>3, <2>4, <2>5 DEF Knows
<1> QED
  BY <1>2, <1>3

LEMMA NextAloneInv == HandlersInv /\ AloneInv /\ [Next]_vars => AloneInv'
<1> SUFFICES ASSUME HandlersInv, AloneInv, [Next]_vars, NEW d \in Client, alone'[d]
             PROVE  Knows(d)'
  BY DEF AloneInv
<1>1. ASSUME NEW c \in Client, ActOnTripIssue(c) PROVE Knows(d)'
  <2>1. PICK k \in DOMAIN issues, op \in {"recheck", "accept", "rebuild"} :
          Begin(c, IF op = "accept" THEN Closing(k, "accepted", "accept_variance")
                    ELSE [pc |-> "load", op |-> op, key |-> k])
    BY <1>1 DEF ActOnTripIssue
  <2> QED
    BY <2>1, NothingToKnow DEF Closing
<1>2. ASSUME NEW c \in Client, CloseStale(c) \/ CloseTripIssue(c) PROVE Knows(d)'
  BY <1>2, NothingToKnow DEF CloseStale, CloseTripIssue, Idle
<1>3. ASSUME NEW c \in Client, LoadTrip(c) PROVE Knows(d)'
  <2>1. /\ client[c].op # "scan"
        /\ Continue(c, [pc |-> "detect", op |-> client[c].op, key |-> client[c].key,
                        docs |-> trips[client[c].key[1]]])
    BY <1>3 DEF LoadTrip
  <2> QED
    BY <2>1, NothingToKnow
<1>4. ASSUME NEW c \in Client, RecheckTripIssue(c) PROVE Knows(d)'
  <2> DEFINE h == client[c]
             same == {f \in Found(h.key[1], h.docs) : f.key = h.key}
  <2>1. /\ h.op # "scan"
        /\ Continue(c, IF same # {} THEN [pc |-> "find", op |-> h.op, todo |-> same]
                       ELSE Closing(h.key, "resolved", IF h.op = "recheck" THEN "recheck"
                                                       ELSE "rebuild_payable_snapshot"))
    BY <1>4 DEF RecheckTripIssue
  <2> HIDE DEF same
  <2> QED
    BY <2>1, NothingToKnow DEF Closing
<1>5. ASSUME NEW c \in Client, RebuildTripSnapshot(c) PROVE Knows(d)'
  <2>1. PICK state \in {Idle, [pc |-> "load", op |-> "repaired", key |-> client[c].key]} :
          Continue(c, state)
    BY <1>5 DEF RebuildTripSnapshot
  <2> QED
    BY <2>1, NothingToKnow DEF Idle
<1>6. ASSUME NEW c \in Client, Abandon(c) PROVE FALSE
  BY <1>6 DEF Abandon, Disturb
<1>7. ASSUME NEW t \in Trip, EditTrip(t) \/ PayTrip(t) PROVE FALSE
  BY <1>7 DEF EditTrip, PayTrip, Edit, Disturb
<1>8. ASSUME NEW w \in Worker, DeleteWorker(w) PROVE FALSE
  BY <1>8 DEF DeleteWorker, Edit, Disturb
<1>9. CASE UNCHANGED <<trips, profiles, client, alone, issues>>
  <2>1. Knows(d)
    BY <1>9 DEF AloneInv
  <2> QED
    BY <1>9, <2>1, SameFound DEF Knows
<1> QED
  BY <1>1, <1>2, <1>3, <1>4, <1>5, <1>6, <1>7, <1>8, <1>9, ScanKnows, DetectKnows, FindKnows,
     UpsertKnows, RebuildKnows DEF Next, Handle, ConsumeEvent, vars, sources

LEMMA AloneInvariance == Spec => [](HandlersInv /\ SourcesInv /\ AloneInv)
<1>1. Init => HandlersInv /\ SourcesInv /\ AloneInv
  BY InitInvs, InitAloneInv
<1>2. HandlersInv /\ SourcesInv /\ AloneInv /\ [Next]_vars
        => (HandlersInv /\ SourcesInv /\ AloneInv)'
  BY NextInvs, NextAloneInv
<1> QED
  BY <1>1, <1>2, PTL DEF Spec

-----------------------------------------------------------------------------
(* The two promises of a handler that nobody disturbed *)

\* A handler at work goes on by a command of its own or is cut off.
LEMMA OwnCommand ==
    ASSUME HandlersInv, [Next]_vars, NEW c \in Client, client'[c] # client[c], client[c] # Idle
    PROVE  Handle(c) \/ (Abandon(c) /\ client'[c] = Idle)
<1>1. ASSUME NEW d \in Client, ScanTrips(d) \/ ActOnTripIssue(d) PROVE FALSE
  <2>1. PICK state : Begin(d, state)
    BY <1>1 DEF ScanTrips, ActOnTripIssue
  <2> QED
    BY <2>1, NextClient DEF Begin
<1>2. ASSUME NEW d \in Client, Handle(d), d # c PROVE FALSE
  <2>1. PICK state : Continue(d, state)
    <3>1. ASSUME RebuildTripSnapshot(d) PROVE \E state : Continue(d, state)
      BY <3>1 DEF RebuildTripSnapshot
    <3>2. ASSUME UpsertInsert(d) PROVE \E state : Continue(d, state)
      BY <3>2 DEF UpsertInsert
    <3>3. ASSUME DetectInScan(d) PROVE \E state : Continue(d, state)
      BY <3>3 DEF DetectInScan
    <3> QED
      BY <1>2, <3>1, <3>2, <3>3 DEF Handle, UpsertFind, UpsertUpdate, CloseStale, LoadTrip,
         RecheckTripIssue, LoadForRebuild, CountActiveWorkers, CloseTripIssue
  <2> QED
    BY <1>2, <2>1, NextClient
<1>3. ASSUME NEW d \in Client, Abandon(d) PROVE d = c /\ client'[c] = Idle
  BY <1>3 DEF Abandon, HandlersInv
<1>4. UNCHANGED client => FALSE
  OBVIOUS
<1> QED
  BY <1>1, <1>2, <1>3, <1>4 DEF Next, vars, EditTrip, PayTrip, ConsumeEvent, DeleteWorker, Edit

LEMMA RepairStep ==
    ASSUME HandlersInv, SourcesInv, AloneInv, [Next]_vars, NEW c \in Client,
           client[c].pc = "update", alone[c], client'[c].pc = "load"
    PROVE  LET trip == trips'[client[c].key[1]]
           IN  /\ CalculationIssues(trip, TRUE) = {}
               /\ \A rates \in {Office, NoRates} :
                    EffectiveTripPayables(trip, rates)
                    = Payables(trip.snapshot.commission, trip.snapshot.petrol)
<1> DEFINE t == client[c].key[1]
<1>1. RebuildTripSnapshot(c)
  <2>1. Handle(c)
    BY OwnCommand DEF Idle
  <2> QED
    BY <2>1 DEF Handle, DetectInScan, UpsertFind, UpsertInsert, UpsertUpdate, CloseStale,
       LoadTrip, RecheckTripIssue, LoadForRebuild, CountActiveWorkers, CloseTripIssue
<1>2. /\ client[c].docs = trips[t] /\ t \in Trip
      /\ IsTrip(trips[t]) /\ CanonicalTripCalculation(trips[t], Office).valid
  BY DEF AloneInv, Knows, HandlersInv, HandlerOK, IndexOK
<1>3. client'[c] # Idle
  BY DEF Idle
<1>4. trips' = [trips EXCEPT ![t] = WithSnapshot(trips[t], RebuiltSnapshot(client[c].docs))]
  <2>1. Continue(c, Idle) => client'[c] = Idle
    BY NextClient
  <2> QED
    BY <1>1, <1>3, <2>1 DEF RebuildTripSnapshot
<1> DEFINE new == WithSnapshot(trips[t], RebuiltSnapshot(trips[t]))
<1>5. /\ CalculationIssues(new, TRUE) = {}
      /\ \A rates \in {Office, NoRates} :
           EffectiveTripPayables(new, rates)
           = Payables(new.snapshot.commission, new.snapshot.petrol)
  BY <1>2, RepairSettles
<1> HIDE DEF new
<1>6. trips'[t] = new
  BY <1>2, <1>4 DEF SourcesInv, new
<1> QED
  BY <1>5, <1>6

\* A repair that runs by itself leaves nothing to repair, and what the ledger
\* makes of the trip, by every rate, is what the snapshot now says.
THEOREM RepairSettlesIt == Spec => RepairSettlesTrip
<1>1. HandlersInv /\ SourcesInv /\ AloneInv /\ [Next]_vars =>
        [\A c \in Client :
            /\ client[c].pc = "update" /\ alone[c] /\ client'[c].pc = "load"
            => LET trip == trips'[client[c].key[1]]
               IN  /\ CalculationIssues(trip, TRUE) = {}
                   /\ \A rates \in {Office, NoRates} :
                        EffectiveTripPayables(trip, rates)
                        = Payables(trip.snapshot.commission, trip.snapshot.petrol)]_vars
  BY RepairStep
<1> QED
  BY <1>1, AloneInvariance, PTL DEF Spec, RepairSettlesTrip

LEMMA ClosingCompletes ==
    ASSUME HandlersInv, AloneInv, [Next]_vars, NEW c \in Client, NEW range \in Ranges,
           client[c].pc = "stale", client[c].range = range, alone[c],
           client'[c] = Idle, faults' = faults
    PROVE  IndexComplete(range)'
<1> DEFINE h == client[c]
           ts == ScanTripsOf(range)
           found == FoundIn(ts)
<1>1. CloseStale(c)
  <2>1. ~Abandon(c)
    <3>1. faults \in Nat
      BY DEF HandlersInv
    <3> QED
      BY <3>1 DEF Abandon
  <2>2. Handle(c)
    BY <2>1, OwnCommand DEF Idle
  <2> QED
    BY <2>2 DEF Handle, DetectInScan, UpsertFind, UpsertInsert, UpsertUpdate, LoadTrip,
       RecheckTripIssue, LoadForRebuild, CountActiveWorkers, RebuildTripSnapshot, CloseTripIssue
<1>2. h.detected = {f.key : f \in found} /\ \A f \in found : Told(f, issues)
  <2>1. Reporting(h, issues) /\ h.todo = {} /\ DOMAIN h.docs = {}
    BY DEF AloneInv, Knows
  <2>2. Done(h) = ts
    BY <2>1 DEF Done
  <2> QED
    BY <2>1, <2>2 DEF Reporting
<1>3. /\ UNCHANGED <<trips, profiles>> /\ DOMAIN issues' = DOMAIN issues
      /\ \A k \in DOMAIN issues :
            issues'[k] = IF /\ issues[k].status = "open"
                            /\ InRange(issues[k].date, range)
                            /\ k \notin h.detected
                         THEN Closed(issues[k], "resolved", "auto_recheck")
                         ELSE issues[k]
  BY <1>1 DEF CloseStale, sources
<1>4. ASSUME NEW t \in Trip, InScan(t, range), NEW i \in DetectTripIssues(trips[t])
      PROVE  LET k == <<t, i.type>>
             IN  /\ k \in DOMAIN issues'
                 /\ issues'[k].status \in {"open", "accepted"}
                 /\ issues'[k].expected = i.expected /\ issues'[k].actual = i.actual
                 /\ issues'[k].fixable = i.fixable
  <2> DEFINE f == [key |-> <<t, i.type>>, date |-> trips[t].date, expected |-> i.expected,
                   actual |-> i.actual, fixable |-> i.fixable]
  <2>1. f \in found
    <3>1. f \in Found(t, trips[t])
      BY DEF Found
    <3> HIDE DEF f
    <3> QED
      BY <1>4, <3>1 DEF FoundIn, ScanTripsOf
  <2>2. /\ f.key = <<t, i.type>> /\ f.actual = i.actual /\ f.expected = i.expected
        /\ f.fixable = i.fixable
    OBVIOUS
  <2> HIDE DEF f, found
  <2>3. Told(f, issues) /\ f.key \in h.detected
    BY <1>2, <2>1
  <2>4. f.key \in DOMAIN issues' /\ issues'[f.key] = issues[f.key]
    BY <1>3, <2>3 DEF Told
  <2> QED
    BY <2>2, <2>3, <2>4 DEF Told
<1>5. ASSUME NEW k \in DOMAIN issues', issues'[k].status = "open", InRange(issues'[k].date, range)
      PROVE  InScan(k[1], range) /\ \E i \in DetectTripIssues(trips[k[1]]) : i.type = k[2]
  <2>1. Closed(issues[k], "resolved", "auto_recheck").status = "resolved"
    BY <1>3, <1>5, ClosedIssue DEF HandlersInv, IndexOK, Status
  <2>2. issues'[k] = issues[k] /\ k \in h.detected
    BY <1>3, <1>5, <2>1
  <2>3. PICK f \in found : f.key = k
    BY <1>2, <2>2
  <2>4. PICK t \in ts : f \in Found(t, trips[t])
    BY <2>3 DEF FoundIn
  <2>5. PICK i \in DetectTripIssues(trips[t]) : f.key = <<t, i.type>>
    BY <2>4 DEF Found
  <2> QED
    BY <2>3, <2>4, <2>5 DEF ScanTripsOf
<1>6. \A t : /\ InScan(t, range)' <=> InScan(t, range)
             /\ DetectTripIssues(trips[t])' = DetectTripIssues(trips[t])
  BY <1>3 DEF InScan, DetectTripIssues, WorkerIssues
<1> QED
  BY <1>3, <1>4, <1>5, <1>6 DEF IndexComplete

\* A scan that runs by itself leaves a complete index of its range, whatever
\* interleavings, faults and edits it starts from.
THEOREM ScanCompletesIndex == Spec => ScanRecreatesIndex
<1>1. HandlersInv /\ AloneInv /\ [Next]_vars =>
        [\A c \in Client, range \in Ranges :
            /\ client[c].pc = "stale" /\ client[c].range = range /\ alone[c]
            /\ client'[c] = Idle /\ faults' = faults
            => IndexComplete(range)']_vars
  BY ClosingCompletes
<1> QED
  BY <1>1, AloneInvariance, PTL DEF Spec, ScanRecreatesIndex
=============================================================================
