----------------------------- MODULE TripIssues ------------------------------
(***************************************************************************)
(* The index of trip reconciliation issues (trip_issues.go,                *)
(* trip_issues_repository.go), the repair of payable snapshots, and what   *)
(* the repair means for the source events that are on their way to the     *)
(* ledger (source_events.go, modelled in full in SourceEvents).            *)
(*                                                                         *)
(* As in OrderIssues a step is one database command; what a trip pays is   *)
(* taken from TripPayables.  The rates of the office do not change here.   *)
(***************************************************************************)
EXTENDS TripPayables, Sequences

CONSTANTS
    Trip, Worker, Client,
    InitialTrips,   \* the documents of the trips at first, one function each
    Revisions,      \* fields another service may overwrite in a trip
    Office,         \* petrol cost and mileage of the office
    Ranges,         \* ranges of dates an admin scans
    MaxRequests, MaxEdits, MaxFaults    \* bounds

MissingWorker == "missing_worker"
DeletedWorker == "deleted_worker_profile"
MissingSnapshot == "missing_payable_snapshot"
InvalidConfig == "invalid_payable_configuration"
DistanceMismatch == "payable_distance_mismatch"
PetrolMismatch == "petrol_payable_mismatch"
CommissionMismatch == "trip_commission_mismatch"
IssueType == {MissingWorker, DeletedWorker, MissingSnapshot, InvalidConfig,
              DistanceMismatch, PetrolMismatch, CommissionMismatch}

NoIssue == <<>>

\* What is read of a payable snapshot and of a trip.
SnapshotDocument ==
    [distance : Nat \cup {None}, rate : Nat \cup {None}, cost : Nat \cup {None},
     mileage : Nat \cup {None}, commission : Nat \cup {None}, petrol : Nat \cup {None},
     paid : BOOLEAN]

TripField ==
    [date |-> Nat, payable |-> BOOLEAN, manual |-> BOOLEAN, auto |-> Nat, extra |-> Nat,
     twoWay |-> BOOLEAN, fareKm |-> Nat, commissionable |-> BOOLEAN, override |-> Int \cup {None},
     fareCost |-> Nat, fareMileage |-> Nat, calculatedFare |-> Nat,
     driver |-> Worker \cup {None}, selfDrive |-> BOOLEAN, beautician |-> Worker \cup {None},
     rider |-> Worker \cup {None}, snapshot |-> SnapshotDocument \cup {None}]

FieldsOK(trip) == \A x \in DOMAIN trip : x \in DOMAIN TripField /\ trip[x] \in TripField[x]

IsTrip(trip) == DOMAIN TripField \subseteq DOMAIN trip /\ FieldsOK(trip)

ASSUME ConstantsAssumption ==
    /\ \A trips0 \in InitialTrips : DOMAIN trips0 = Trip /\ \A t \in Trip : IsTrip(trips0[t])
    /\ \A r \in Revisions : FieldsOK(r)
    /\ None \notin Int /\ None \notin SnapshotDocument
    /\ \A r \in Ranges : r.from \in Nat /\ r.to \in Nat
    /\ {Office.cost, Office.mileage, MaxRequests, MaxEdits, MaxFaults} \subseteq Nat

VARIABLES
    trips,      \* the documents of the trips
    profiles,   \* per worker, the profile: "unknown", "deleted" or "active"
    captured,   \* per trip, the version (captured_at) of its snapshot
    announced,  \* per trip, the versions whose source event is not consumed yet
    rows,       \* per trip, its payables in the ledger
    repaired,   \* per trip, whether the snapshot is the work of a repair
    issues,     \* the documents of the issues, by trip and type
    client,     \* per request handler, where it is and what it keeps
    alone,      \* per handler, whether nothing else happened since it began
    requests, edits, faults     \* how many there were

sources == <<trips, profiles, captured, announced, rows, repaired>>
vars == <<sources, issues, client, alone, requests, edits, faults>>
-----------------------------------------------------------------------------
(* Detection, from one reading of a trip and of the profile of its worker. *)

PaidWorker(trip) == AllowanceWorker(trip)[1]

WorkerIssues(trip) ==
    IF PaidWorker(trip) = None \/ profiles[PaidWorker(trip)] = "unknown" THEN {MissingWorker}
    ELSE IF profiles[PaidWorker(trip)] = "deleted" THEN {DeletedWorker}
    ELSE {}

Issue(type, expected, actual, fixable) ==
    [type |-> type, expected |-> expected, actual |-> actual, fixable |-> fixable]

\* A missing amount counts as 0.
Amount(value) == OrElse(value, 0)

\* Where a snapshot differs from what it should say; a missing amount differs
\* from 0, too.
SnapshotIssues(s, c, fixable) ==
    (IF s.distance = c.distance THEN {} ELSE {Issue(DistanceMismatch, 0, 0, fixable)})
    \cup (IF s.petrol = c.petrol THEN {}
          ELSE {Issue(PetrolMismatch, c.petrol, Amount(s.petrol), fixable)})
    \cup (IF s.commission = c.commission THEN {}
          ELSE {Issue(CommissionMismatch, c.commission, Amount(s.commission), fixable)})

CalculationIssues(trip, workerValid) ==
    LET c == CanonicalTripCalculation(trip, Office)
    IN  IF ~c.valid THEN {Issue(InvalidConfig, 0, 0, FALSE)}
        ELSE IF trip.snapshot = None
        THEN {Issue(MissingSnapshot, c.commission + c.petrol, 0, workerValid)}
        ELSE SnapshotIssues(trip.snapshot, c, workerValid /\ ~trip.snapshot.paid)

DetectTripIssues(trip) ==
    LET ofWorker == WorkerIssues(trip)
    IN  {Issue(type, 0, 0, FALSE) : type \in ofWorker}
        \cup CalculationIssues(trip, ofWorker = {})

InRange(date, range) == range.from <= date /\ date <= range.to
-----------------------------------------------------------------------------
(* Handlers.  A handler that is done forgets everything.                   *)

Idle == [pc |-> "idle"]

Init ==
    /\ trips \in InitialTrips
    /\ profiles = [w \in Worker |-> "active"]
    /\ captured = [t \in Trip |-> 1]
    /\ announced = [t \in Trip |-> IF trips[t].snapshot = None THEN {} ELSE {1}]
    /\ rows = [t \in Trip |-> Payables(0, 0)]
    /\ repaired = [t \in Trip |-> FALSE]
    /\ issues = <<>>
    /\ client = [c \in Client |-> Idle]
    /\ alone = [c \in Client |-> FALSE]
    /\ requests = 0 /\ edits = 0 /\ faults = 0

\* The handler goes on; whoever else is at work is not alone any more.
Continue(c, state) ==
    /\ client' = [client EXCEPT ![c] = state]
    /\ alone' = [d \in Client |-> d = c /\ state # Idle /\ alone[c]]
    /\ UNCHANGED <<requests, edits, faults>>

Begin(c, state) ==
    /\ client[c] = Idle
    /\ requests < MaxRequests
    /\ requests' = requests + 1
    /\ client' = [client EXCEPT ![c] = state]
    /\ alone' = [d \in Client |-> d = c /\ \A e \in Client \ {c} : client[e] = Idle]
    /\ UNCHANGED <<edits, faults>>

InScan(t, range) == trips[t].payable /\ InRange(trips[t].date, range)

\* What a handler of a scan does when it has nothing to upsert.
NextTrip(h) == [h EXCEPT !.pc = IF h.docs = <<>> THEN "stale" ELSE "detect"]

\* The cursor's first batch of trips is read at once.
ScanTrips(c) ==
    /\ \E range \in Ranges :
        Begin(c, NextTrip([pc |-> "detect", op |-> "scan", range |-> range, todo |-> {},
                           docs |-> [t \in {u \in Trip : InScan(u, range)} |-> trips[t]],
                           detected |-> {}]))
    /\ UNCHANGED <<sources, issues>>

Found(t, trip) ==
    {[key |-> <<t, i.type>>, date |-> trip.date, expected |-> i.expected,
      actual |-> i.actual, fixable |-> i.fixable] : i \in DetectTripIssues(trip)}

\* Looks up the worker of a trip that was read and detects.
DetectInScan(c) ==
    /\ client[c].pc = "detect" /\ client[c].op = "scan"
    /\ LET h == client[c] IN \E t \in DOMAIN h.docs :
        LET found == Found(t, h.docs[t])
            next == [h EXCEPT !.docs = [u \in DOMAIN h.docs \ {t} |-> h.docs[u]],
                              !.todo = found, !.pc = "find",
                              !.detected = @ \cup {f.key : f \in found}]
        IN  Continue(c, IF found = {} THEN NextTrip(next) ELSE next)
    /\ UNCHANGED <<sources, issues>>

\* upsertTripIssue first looks for the issue of one detection.
UpsertFind(c) ==
    /\ client[c].pc = "find"
    /\ \E f \in client[c].todo :
        Continue(c, [pc |-> "write", of |-> f, handler |-> client[c],
                     existing |-> IF f.key \in DOMAIN issues THEN issues[f.key] ELSE NoIssue])
    /\ UNCHANGED <<sources, issues>>

Upserted(c) ==
    LET h == client[c].handler
        todo == h.todo \ {client[c].of}
    IN  IF h.op # "scan" THEN Idle
        ELSE IF todo = {} THEN NextTrip([h EXCEPT !.todo = todo])
        ELSE [h EXCEPT !.todo = todo]

Put(index, key, issue) ==
    [k \in DOMAIN index \cup {key} |-> IF k = key THEN issue ELSE index[k]]

\* A duplicate key makes it look again.
UpsertInsert(c) ==
    /\ client[c].pc = "write" /\ client[c].existing = NoIssue
    /\ LET f == client[c].of
       IN  IF f.key \in DOMAIN issues
           THEN Continue(c, client[c].handler) /\ UNCHANGED issues
           ELSE /\ Continue(c, Upserted(c))
                /\ issues' = Put(issues, f.key,
                    [status |-> "open", date |-> f.date, expected |-> f.expected,
                     actual |-> f.actual, fixable |-> f.fixable, history |-> <<>>])
    /\ UNCHANGED sources

Difference(issue) == issue.actual - issue.expected

\* mutant of Reopens: what was resolved stays resolved.
ReopensAccepted(existing, f) ==
    existing.status = "accepted" /\ Difference(existing) # Difference(f)

\* Decided on the issue as it was found.
Reopens(existing, f) ==
    \/ existing.status = "resolved"
    \/ existing.status = "accepted" /\ Difference(existing) # Difference(f)

Updated(issue, f, reopen) ==
    [issue EXCEPT !.status = IF reopen THEN "open" ELSE @, !.date = f.date,
                  !.expected = f.expected, !.actual = f.actual, !.fixable = f.fixable]

UpsertUpdate(c) ==
    /\ client[c].pc = "write" /\ client[c].existing # NoIssue
    /\ LET f == client[c].of
       IN  issues' = [issues EXCEPT ![f.key] = Updated(@, f, Reopens(client[c].existing, f))]
    /\ Continue(c, Upserted(c))
    /\ UNCHANGED sources

Closed(issue, status, action) ==
    [issue EXCEPT !.status = status, !.history = Append(@, action)]

\* The last command of a scan resolves the open issues of its dates that it
\* did not detect.
CloseStale(c) ==
    /\ client[c].pc = "stale"
    /\ issues' = [k \in DOMAIN issues |->
            IF /\ issues[k].status = "open"
               /\ InRange(issues[k].date, client[c].range)
               /\ k \notin client[c].detected
            THEN Closed(issues[k], "resolved", "auto_recheck")
            ELSE issues[k]]
    /\ Continue(c, Idle)
    /\ UNCHANGED sources

Closing(k, status, action) == [pc |-> "close", key |-> k, status |-> status, action |-> action]

\* ActOnTripIssue reads the issue, refuses to act on a closed one, and to
\* rebuild for one that is not fixable.
ActOnTripIssue(c) ==
    /\ \E k \in DOMAIN issues, op \in {"recheck", "accept", "rebuild"} :
        /\ issues[k].status = "open" \/ op = "recheck"
        /\ op = "rebuild" => issues[k].fixable
        /\ Begin(c, IF op = "accept" THEN Closing(k, "accepted", "accept_variance")
                    ELSE [pc |-> "load", op |-> op, key |-> k])
    /\ UNCHANGED <<sources, issues>>

\* recheckTripIssue reads the trip ...
LoadTrip(c) ==
    /\ client[c].pc = "load" /\ client[c].op \in {"recheck", "repaired"}
    /\ Continue(c, [pc |-> "detect", op |-> client[c].op, key |-> client[c].key,
                    docs |-> trips[client[c].key[1]]])
    /\ UNCHANGED <<sources, issues>>

\* ... and then its worker; it upserts the issue or closes it.
RecheckTripIssue(c) ==
    /\ client[c].pc = "detect" /\ client[c].op # "scan"
    /\ LET h == client[c]
           same == {f \in Found(h.key[1], h.docs) : f.key = h.key}
       IN  Continue(c,
            IF same # {} THEN [pc |-> "find", op |-> h.op, todo |-> same]
            ELSE Closing(h.key, "resolved", IF h.op = "recheck" THEN "recheck"
                                            ELSE "rebuild_payable_snapshot"))
    /\ UNCHANGED <<sources, issues>>

\* A rebuild reads the trip first; a paid snapshot is refused, and so is a
\* trip without a worker or that cannot be calculated.
LoadForRebuild(c) ==
    /\ client[c].pc = "load" /\ client[c].op = "rebuild"
    /\ LET trip == trips[client[c].key[1]]
       IN  Continue(c,
            IF \/ trip.snapshot # None /\ trip.snapshot.paid
               \/ PaidWorker(trip) = None
               \/ ~CanonicalTripCalculation(trip, Office).valid
            THEN Idle
            ELSE [pc |-> "count", key |-> client[c].key, docs |-> trip])
    /\ UNCHANGED <<sources, issues>>

CountActiveWorkers(c) ==
    /\ client[c].pc = "count"
    /\ Continue(c, IF profiles[PaidWorker(client[c].docs)] = "active"
                   THEN [client[c] EXCEPT !.pc = "update"] ELSE Idle)
    /\ UNCHANGED <<sources, issues>>

\* mutant of RebuiltSnapshot: the rates of the office replace those of the trip.
SnapshotAtOfficeRates(trip) ==
    LET c == CanonicalTripCalculation(trip, Office)
    IN  [distance |-> c.distance, rate |-> Rate(trip), cost |-> Office.cost,
         mileage |-> Office.mileage, commission |-> c.commission, petrol |-> c.petrol,
         paid |-> FALSE]

RebuiltSnapshot(trip) ==
    LET c == CanonicalTripCalculation(trip, Office)
    IN  [distance |-> c.distance, rate |-> Rate(trip), cost |-> c.cost,
         mileage |-> c.mileage, commission |-> c.commission, petrol |-> c.petrol,
         paid |-> FALSE]

\* mutant of Unpaid: the update is not conditional.
AnyTrip(trip) == trip = trip

Unpaid(trip) == trip.snapshot # None => ~trip.snapshot.paid

WithSnapshot(trip, snapshot) == [trip EXCEPT !.snapshot = snapshot]

\* The update, conditional on the snapshot being unpaid still.  It gives the
\* snapshot a new version that no source event announces.
RebuildTripSnapshot(c) ==
    /\ client[c].pc = "update"
    /\ LET t == client[c].key[1]
       IN  IF Unpaid(trips[t])
           THEN /\ trips' = [trips EXCEPT ![t] = WithSnapshot(@, RebuiltSnapshot(client[c].docs))]
                /\ captured' = [captured EXCEPT ![t] = @ + 1]
                /\ repaired' = [repaired EXCEPT ![t] = TRUE]
                /\ Continue(c, [pc |-> "load", op |-> "repaired", key |-> client[c].key])
           ELSE /\ Continue(c, Idle)
                /\ UNCHANGED <<trips, captured, repaired>>
    /\ UNCHANGED <<profiles, announced, rows, issues>>

\* Whatever the issue has become since it was read.
CloseTripIssue(c) ==
    /\ client[c].pc = "close"
    /\ issues' = [issues EXCEPT ![client[c].key] =
                    Closed(@, client[c].status, client[c].action)]
    /\ Continue(c, Idle)
    /\ UNCHANGED sources
-----------------------------------------------------------------------------
(* Around the handlers.                                                    *)

Disturb ==
    /\ alone' = [d \in Client |-> FALSE]
    /\ UNCHANGED requests

\* A command fails, or the instance stops: the handler is gone.
Abandon(c) ==
    /\ client[c] # Idle
    /\ faults < MaxFaults
    /\ faults' = faults + 1
    /\ client' = [client EXCEPT ![c] = Idle]
    /\ Disturb
    /\ UNCHANGED <<sources, issues, edits>>

Edit ==
    /\ edits < MaxEdits
    /\ edits' = edits + 1
    /\ Disturb
    /\ UNCHANGED <<issues, client, faults, rows>>

\* The trip with the fields of r.
Overwritten(trip, r) ==
    [x \in DOMAIN trip \cup DOMAIN r |-> IF x \in DOMAIN r THEN r[x] ELSE trip[x]]

\* Another service edits an unpaid trip, captures its snapshot anew and says so.
EditTrip(t) ==
    /\ Edit
    /\ Unpaid(trips[t])
    /\ \E r \in Revisions : trips' = [trips EXCEPT ![t] = Overwritten(@, r)]
    /\ captured' = [captured EXCEPT ![t] = @ + 1]
    /\ announced' = [announced EXCEPT ![t] = @ \cup {captured[t] + 1}]
    /\ repaired' = [repaired EXCEPT ![t] = FALSE]
    /\ UNCHANGED profiles

PayTrip(t) ==
    /\ Edit
    /\ trips[t].snapshot # None /\ ~trips[t].snapshot.paid
    /\ trips' = [trips EXCEPT ![t] = WithSnapshot(@, [@.snapshot EXCEPT !.paid = TRUE])]
    /\ UNCHANGED <<profiles, captured, announced, repaired>>

DeleteWorker(w) ==
    /\ Edit
    /\ profiles[w] = "active"
    /\ profiles' = [profiles EXCEPT ![w] = "deleted"]
    /\ UNCHANGED <<trips, captured, announced, repaired>>

\* An amount that is missing or zero puts no row.
Materialized(row, amount) == IF amount \in {None, 0} THEN row ELSE amount

\* mutant of Stale: an event is stale as soon as its version is there.
StaleOrCurrent(t, version) == captured[t] >= version

\* The snapshot is newer than the event: the event of the newer one will do.
Stale(t, version) == captured[t] > version

\* The consumer of source events reloads the trip.  An event of a trip that
\* is not payable or has no worker is a dead letter.
ConsumeEvent(t) ==
    /\ \E version \in announced[t] :
        LET due == EffectiveTripPayables(trips[t], LoadedRates({trips[t]}, Office))
            puts == ~Stale(t, version) /\ trips[t].payable /\ PaidWorker(trips[t]) # None
                        /\ trips[t].snapshot # None
        IN  /\ announced' = [announced EXCEPT ![t] = @ \ {version}]
            /\ rows' = IF puts
                       THEN [rows EXCEPT ![t] = Payables(Materialized(@.commission, due.commission),
                                                         Materialized(@.petrol, due.petrol))]
                       ELSE rows
    /\ UNCHANGED <<trips, profiles, captured, repaired, issues, client, alone,
                   requests, edits, faults>>

Handle(c) ==
    \/ DetectInScan(c) \/ UpsertFind(c) \/ UpsertInsert(c) \/ UpsertUpdate(c) \/ CloseStale(c)
    \/ LoadTrip(c) \/ RecheckTripIssue(c) \/ LoadForRebuild(c) \/ CountActiveWorkers(c)
    \/ RebuildTripSnapshot(c) \/ CloseTripIssue(c)

Next ==
    \/ \E c \in Client : ScanTrips(c) \/ ActOnTripIssue(c) \/ Handle(c) \/ Abandon(c)
    \/ \E t \in Trip : EditTrip(t) \/ PayTrip(t) \/ ConsumeEvent(t)
    \/ \E w \in Worker : DeleteWorker(w)

Spec == Init /\ [][Next]_vars
-----------------------------------------------------------------------------
(* Properties.                                                             *)

\* Types of the documents, of the ledger rows and of the ghosts.
TypeOK ==
    /\ DOMAIN trips = Trip /\ \A t \in Trip : IsTrip(trips[t])
    /\ profiles \in [Worker -> {"unknown", "deleted", "active"}]
    /\ \A t \in Trip : captured[t] \in Nat /\ announced[t] \subseteq 1..captured[t]
    /\ rows \in [Trip -> [commission : Nat, petrol : Nat]]
    /\ repaired \in [Trip -> BOOLEAN]
    /\ DOMAIN issues \subseteq Trip \X IssueType
    /\ \A k \in DOMAIN issues :
        /\ issues[k].status \in {"open", "resolved", "accepted"}
        /\ {issues[k].date, issues[k].expected, issues[k].actual} \subseteq Int
        /\ issues[k].fixable \in BOOLEAN
    /\ alone \in [Client -> BOOLEAN]
    /\ requests \in 0..MaxRequests /\ edits \in 0..MaxEdits /\ faults \in 0..MaxFaults

\* The service never touches a paid snapshot, although it may have read the
\* trip before it was paid: "Paid snapshots are immutable".
PaidSnapshotsImmutable ==
    [][\A t \in Trip :
        trips[t].snapshot # None /\ trips[t].snapshot.paid
        => trips'[t].snapshot = trips[t].snapshot]_vars

\* A repair that runs by itself leaves nothing to repair, and what the ledger
\* makes of the trip, with or without the rates of the office, is what the
\* snapshot now says.
RepairSettlesTrip ==
    [][\A c \in Client :
        /\ client[c].pc = "update" /\ alone[c] /\ client'[c].pc = "load"
        => LET trip == trips'[client[c].key[1]]
           IN  /\ CalculationIssues(trip, TRUE) = {}
               /\ \A rates \in {Office, NoRates} :
                    EffectiveTripPayables(trip, rates)
                    = Payables(trip.snapshot.commission, trip.snapshot.petrol)]_vars

IndexComplete(range) ==
    /\ \A t \in Trip : InScan(t, range) => \A i \in DetectTripIssues(trips[t]) :
        LET k == <<t, i.type>>
        IN  /\ k \in DOMAIN issues
            /\ issues[k].status \in {"open", "accepted"}
            /\ issues[k].expected = i.expected /\ issues[k].actual = i.actual
            /\ issues[k].fixable = i.fixable
    /\ \A k \in DOMAIN issues :
        issues[k].status = "open" /\ InRange(issues[k].date, range) =>
            InScan(k[1], range) /\ \E i \in DetectTripIssues(trips[k[1]]) : i.type = k[2]

\* A scan that runs by itself leaves a complete index of its range, whatever
\* interleavings, faults and edits it starts from: every discrepancy of a
\* payable trip is open or accepted with its amounts and whether it can be
\* repaired, and nothing else is open.
ScanRecreatesIndex ==
    [][\A c \in Client, range \in Ranges :
        /\ client[c].pc = "stale" /\ client[c].range = range /\ alone[c]
        /\ client'[c] = Idle /\ faults' = faults
        => IndexComplete(range)']_vars

Settled(t) == trips[t].snapshot # None /\ trips[t].snapshot.paid

RowsOf(t) == EffectiveTripPayables(trips[t], LoadedRates({trips[t]}, Office))

UpToDate(t) ==
    \A field \in {"commission", "petrol"} :
        RowsOf(t)[field] \notin {None, 0} => rows[t][field] = RowsOf(t)[field]

Materializable(t) ==
    announced[t] = {} /\ trips[t].payable /\ PaidWorker(trips[t]) # None /\ ~Settled(t)

\* When the events of a trip are consumed, in whatever order, its rows say
\* what its snapshot is worth, unless the snapshot is the work of a repair.
RowsFollowSnapshots ==
    \A t \in Trip : Materializable(t) /\ ~repaired[t] => UpToDate(t)
=============================================================================
