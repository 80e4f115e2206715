---------------------------- MODULE SourceEvents -----------------------------
(***************************************************************************)
(* How orders and trips become ledger rows: the consumer of source events  *)
(* (source_events.go, source_event_worker.go) and the rebuild processor    *)
(* (rebuild.go), which both reload the sources and put rows one by one,    *)
(* while the sources change, periods close and rows are paid.              *)
(*                                                                         *)
(* An event only names a source, its date and a version; what it says of   *)
(* money is read from the database.  The module follows the orders of one  *)
(* beautician and the trips of one office.  The two commands of            *)
(* PutSourceEntry are one step here (Settlements has both): the first only *)
(* decides whether there is anything to do for the second.                 *)
(***************************************************************************)
EXTENDS Integers, Sequences, FiniteSetsExt

CONSTANTS
    Order, Trip,        \* sources
    History,            \* per source, the states it goes through, as persisted
    Partition,          \* of the topic; each has one consumer at a time
    PartitionOf,        \* where the events of a source go
    EligibleFrom,       \* commission_applicable_from
    Target1, Target2,   \* monthly revenue targets
    Bonus,              \* what reaching the second is worth
    MonthLength,
    ClosePeriods,       \* ranges of days an admin may close
    Rebuilds,           \* ranges of days an admin may rebuild
    MaxCopies,          \* bound: deliveries of one event to the topic
    MaxFaults,          \* bound: failing commands and stops
    MaxRebuilds         \* bound: rebuilds

Source == Order \cup Trip

\* The cost of an order whose snapshot has no usable cost.
Invalid == -1

\* What is kept of a source: its date, whether it is completed (not deleted,
\* with a worker), whether its snapshot says it was paid, the amount that
\* depends on nothing else (special and upgrade commission; trip commission
\* and petrol), and for orders the target-dependent amount and the cost.
\* The amount 0 stands for one that is zero, missing or invalid: no row.
SourceState == [date : Nat \ {0}, eligible : BOOLEAN, paid : BOOLEAN,
                own : Nat, general : Nat, cost : Nat \cup {Invalid}]

ASSUME ConstantsAssumption ==
    /\ Order \cap Trip = {}
    /\ History \in [Source -> Seq(SourceState)]
    /\ PartitionOf \in [Source -> Partition]
    /\ {EligibleFrom, Target1, Target2, Bonus} \subseteq Nat
    /\ MonthLength \in Nat \ {0}
    /\ \A r \in ClosePeriods \cup Rebuilds : {r.from, r.to} \subseteq Nat \ {0} /\ r.from <= r.to
    /\ {MaxCopies, MaxFaults, MaxRebuilds} \subseteq Nat

VARIABLES
    version,       \* per source, how far its history is in the database
    topic,         \* per partition, the events delivered to it
    committed,     \* per partition, the committed offset
    deadLetters,   \* events sent to the dead-letter topic, and whether for conflicts
    consumer,      \* per partition, the event in hand and what comes next
    rebuild,       \* the rebuild job that runs
    rebuilds,      \* how many were started
    ledger,        \* rows by key
    overtaken,     \* history: keys of rows that were last put from an old source
    closed,        \* closed periods
    faults

vars == <<version, topic, committed, deadLetters, consumer, rebuild, rebuilds,
          ledger, overtaken, closed, faults>>
kafka == <<topic, committed, deadLetters>>
environment == <<version, closed>>

-----------------------------------------------------------------------------
(* Rows *)

Month(d) == (d - 1) \div MonthLength
MonthEnd(d) == (Month(d) + 1) * MonthLength

Within(d, r) == r.from <= d /\ d <= r.to
IsDateClosed(d) == \E p \in closed : Within(d, p)

\* What a query returns of the sources S: those that exist.
Read(S) == {[id |-> s, state |-> History[s][version[s]]] : s \in {t \in S : version[t] > 0}}

\* Orders that count for a month's revenue, and whether all of them can be used.
Counted(orders, d) ==
    {o \in orders : o.state.eligible /\ o.state.date >= EligibleFrom
                                     /\ Month(o.state.date) = Month(d)}
Valid(orders, d) == \A o \in Counted(orders, d) : o.state.cost # Invalid
Revenue(orders, d) == MapThenSumSet(LAMBDA o : o.state.cost, Counted(orders, d))

Row(key, rank, date, amount, settled, revenue) ==
    [key |-> key, rank |-> rank,
     row |-> [date |-> date, amount |-> amount, settled |-> settled, revenue |-> revenue]]

Nonzero(rows) == {r \in rows : r.row.amount # 0}

\* The rows are put in the order of their rank.
OwnRow(s) == Row(<<s.id, "own">>, 1, s.state.date, s.state.own, s.state.paid, 0)
GeneralRow(s) == Row(<<s.id, "general">>, 2, s.state.date, s.state.general, s.state.paid, 0)
BonusRow(d, revenue) ==
    Row(<<Month(d), "target_bonus">>, 3, MonthEnd(d), Bonus, FALSE, revenue)

OwnRows(sources) == Nonzero({OwnRow(s) : s \in sources})

\* General commission: without condition before the first day of the targets,
\* and afterwards once the month reaches the first target.
GeneralEarned(orders, o) ==
    \/ o.state.date < EligibleFrom
    \/ /\ Valid(orders, o.state.date)
       /\ Revenue(orders, o.state.date) >= Target1

GeneralRows(orders, S) ==
    Nonzero({GeneralRow(o) : o \in {x \in S : x.state.eligible /\ GeneralEarned(orders, x)}})

BonusRows(orders, d) ==
    IF Target2 > 0 /\ Valid(orders, d) /\ Revenue(orders, d) >= Target2
      THEN Nonzero({BonusRow(d, Revenue(orders, d))})
      ELSE {}

\* mutant of Refreshed: an existing row is never repaired.
NeverRefreshed(stored, new) == stored

\* PutSourceEntry on an existing row: repaired while nothing was paid on it.
Refreshed(stored, new) == IF stored.settled THEN stored ELSE new

With(rows, r) ==
    [k \in DOMAIN rows \cup {r.key} |->
        CASE k # r.key -> rows[k]
          [] k = r.key /\ k \in DOMAIN rows -> Refreshed(rows[k], r.row)
          [] OTHER -> r.row]

\* A row that stays different from its source is a conflict.
Conflicts(rows, r) == r.key \in DOMAIN rows /\ Refreshed(rows[r.key], r.row) # r.row

Current(s) == [id |-> s, state |-> History[s][version[s]]]

\* A row that one of the sources gave in an earlier state than its present one.
Superseded(r, S) ==
    \E s \in S : /\ r.key \in {<<s, "own">>, <<s, "general">>}
                 /\ r \notin {OwnRow(Current(s)), GeneralRow(Current(s))}

\* A writer that does not get the events of the sources S puts r: noted if that
\* was too late, until somebody puts the row once more.
Overtaken(r, S) ==
    IF Superseded(r, S) THEN overtaken \cup {r.key} ELSE overtaken \ {r.key}

\* The rows that can be put next.
First(todo) == {r \in todo : \A s \in todo : r.rank <= s.rank}

-----------------------------------------------------------------------------
(* The outside: sources change, events are delivered, rows are paid *)

\* The order service persists the next state of a source.
ChangeSource(s) ==
    /\ version[s] < Len(History[s])
    /\ version' = [version EXCEPT ![s] = @ + 1]
    /\ UNCHANGED <<kafka, consumer, rebuild, rebuilds, ledger, overtaken, closed, faults>>

Event(s, v) == [source |-> s, version |-> v, date |-> History[s][v].date]

\* The event of a state is delivered once or more, in any order, and perhaps
\* before the state is visible.
Deliver(s, v) ==
    LET p == PartitionOf[s]
        copies == {n \in DOMAIN topic[p] : topic[p][n] = Event(s, v)}
    IN  /\ v \in DOMAIN History[s] /\ v <= version[s] + 1
        /\ Cardinality(copies) < MaxCopies
        /\ topic' = [topic EXCEPT ![p] = Append(@, Event(s, v))]
        /\ UNCHANGED <<environment, committed, deadLetters, consumer, rebuild, rebuilds,
                       ledger, overtaken, faults>>

\* A payout settles a row; closed periods have none.
Pay(k) ==
    /\ ~ledger[k].settled /\ ~IsDateClosed(ledger[k].date)
    /\ ledger' = [ledger EXCEPT ![k].settled = TRUE]
    /\ UNCHANGED <<environment, kafka, consumer, rebuild, rebuilds, overtaken, faults>>

-----------------------------------------------------------------------------
(* The consumer of a partition *)

Idle == [at |-> "fetch"]

At(p, step) == consumer[p].at = step
Continue(p, step) == consumer' = [consumer EXCEPT ![p].at = step]

InHand(p) == consumer[p].event

\* mutant of Fetch: the offset is committed before the event is processed.
FetchAndCommit(p) ==
    /\ At(p, "fetch") /\ committed[p] < Len(topic[p])
    /\ committed' = [committed EXCEPT ![p] = @ + 1]
    /\ consumer' = [consumer EXCEPT ![p] =
            [at |-> "closed?", event |-> topic[p][committed[p] + 1], todo |-> {},
             conflicts |-> FALSE]]
    /\ UNCHANGED <<environment, topic, deadLetters, rebuild, rebuilds, ledger, overtaken, faults>>

\* FetchMessage: the message after the committed offset.
Fetch(p) ==
    /\ At(p, "fetch") /\ committed[p] < Len(topic[p])
    /\ consumer' = [consumer EXCEPT ![p] =
            [at |-> "closed?", event |-> topic[p][committed[p] + 1], todo |-> {},
             conflicts |-> FALSE]]
    /\ UNCHANGED <<environment, kafka, rebuild, rebuilds, ledger, overtaken, faults>>

\* mutant of CheckClosed: the refusal is taken for a store error.
RetryWhenClosed(p) ==
    /\ At(p, "closed?")
    /\ Continue(p, IF IsDateClosed(InHand(p).date) THEN "closed?" ELSE "source?")
    /\ UNCHANGED <<environment, kafka, rebuild, rebuilds, ledger, overtaken, faults>>

\* Process asks for closed periods on the date of the event.
CheckClosed(p) ==
    /\ At(p, "closed?")
    /\ Continue(p, IF IsDateClosed(InHand(p).date) THEN "dead letter" ELSE "source?")
    /\ UNCHANGED <<environment, kafka, rebuild, rebuilds, ledger, overtaken, faults>>

\* A trip needs no context.
Accepted(s) == IF s \in Trip THEN "put" ELSE "context?"

\* mutant of Judge: an event ahead of the database is taken with what is there.
JudgeEarly(e, loaded) ==
    CASE loaded.date # e.date \/ ~loaded.eligible -> "dead letter"
      [] OTHER -> IF version[e.source] > e.version THEN "commit" ELSE Accepted(e.source)

\* validateReloadedSource: the date and the state are judged before the version.
\* Stale events are committed and ignored; events ahead of the database are
\* tried again.
Judge(e, loaded) ==
    CASE loaded.date # e.date \/ ~loaded.eligible -> "dead letter"
      [] OTHER -> CASE version[e.source] > e.version -> "commit"
                    [] version[e.source] < e.version -> "closed?"
                    [] OTHER -> Accepted(e.source)

\* The source does not exist yet: an error of the store, tried again.
SourceMissing(p) ==
    /\ At(p, "source?") /\ version[InHand(p).source] = 0
    /\ Continue(p, "closed?")
    /\ UNCHANGED <<environment, kafka, rebuild, rebuilds, ledger, overtaken, faults>>

\* LoadOrderSource, LoadTripSource.
LoadSource(p) ==
    LET e == InHand(p)
        loaded == History[e.source][version[e.source]]
    IN  /\ At(p, "source?") /\ version[e.source] > 0
        /\ consumer' = [consumer EXCEPT
                ![p].at = Judge(e, loaded),
                ![p].todo = OwnRows({[id |-> e.source, state |-> loaded]})]
        /\ UNCHANGED <<environment, kafka, rebuild, rebuilds, ledger, overtaken, faults>>

\* mutant of Dependent: only the order of the event gets its commission.
DependentOfOne(orders, e) ==
    GeneralRows(orders, {o \in orders : o.id = e.source}) \cup BonusRows(orders, e.date)

\* What the month of an order's event earns: also the commission of the other
\* orders, which may just have become due, and the bonus.
Dependent(orders, e) ==
    GeneralRows(orders, {o \in orders : Month(o.state.date) = Month(e.date)})
        \cup BonusRows(orders, e.date)

\* LoadOrderSources for the month of the event.
LoadContext(p) ==
    LET e == InHand(p)
        orders == Read(Order)
    IN  /\ At(p, "context?")
        /\ consumer' = IF ~Valid(orders, e.date) /\ e.date >= EligibleFrom
                         THEN [consumer EXCEPT ![p].at = "dead letter", ![p].todo = {}]
                         ELSE [consumer EXCEPT ![p].at = "put",
                                               ![p].todo = @ \cup Dependent(orders, e)]
        /\ UNCHANGED <<environment, kafka, rebuild, rebuilds, ledger, overtaken, faults>>

\* putLedgerEntry
PutRow(p) ==
    /\ At(p, "put")
    /\ \E r \in First(consumer[p].todo) :
          /\ ledger' = With(ledger, r)
          /\ overtaken' = Overtaken(r, {s \in Source : PartitionOf[s] # p})
          /\ consumer' = [consumer EXCEPT ![p].todo = @ \ {r},
                                          ![p].conflicts = @ \/ Conflicts(ledger, r)]
    /\ UNCHANGED <<environment, kafka, rebuild, rebuilds, faults>>

\* Conflicts with immutable rows make the event a permanent failure.
Processed(p) ==
    /\ At(p, "put") /\ consumer[p].todo = {}
    /\ Continue(p, IF consumer[p].conflicts THEN "dead letter" ELSE "commit")
    /\ UNCHANGED <<environment, kafka, rebuild, rebuilds, ledger, overtaken, faults>>

SendDeadLetter(p) ==
    /\ At(p, "dead letter")
    /\ deadLetters' = deadLetters \cup
            {[event |-> InHand(p), conflicts |-> consumer[p].conflicts]}
    /\ Continue(p, "commit")
    /\ UNCHANGED <<environment, topic, committed, rebuild, rebuilds, ledger, overtaken, faults>>

Commit(p) ==
    /\ At(p, "commit")
    /\ committed' = [committed EXCEPT ![p] = @ + 1]
    /\ consumer' = [consumer EXCEPT ![p] = Idle]
    /\ UNCHANGED <<environment, topic, deadLetters, rebuild, rebuilds, ledger, overtaken, faults>>

\* A command fails.  Whatever it was, processing starts over with the event.
Fail(p) ==
    /\ ~At(p, "fetch") /\ faults < MaxFaults
    /\ faults' = faults + 1
    /\ consumer' = [consumer EXCEPT ![p].at = "closed?", ![p].todo = {}, ![p].conflicts = FALSE]
    /\ UNCHANGED <<environment, kafka, rebuild, rebuilds, ledger, overtaken>>

\* The instance stops, or the partition is assigned to another one.
Stop(p) ==
    /\ ~At(p, "fetch") /\ faults < MaxFaults
    /\ faults' = faults + 1
    /\ consumer' = [consumer EXCEPT ![p] = Idle]
    /\ UNCHANGED <<environment, kafka, rebuild, rebuilds, ledger, overtaken>>

-----------------------------------------------------------------------------
(* Rebuilds *)

NoRebuild == [at |-> "none"]

Overlap(r, s) == r.from <= s.to /\ s.from <= r.to

\* queueRebuild refuses closed ranges; the job is claimed.
StartRebuild(r) ==
    /\ rebuild = NoRebuild /\ rebuilds < MaxRebuilds
    /\ \A p \in closed : ~Overlap(p, r)
    /\ rebuild' = [at |-> "orders?", from |-> r.from, to |-> r.to, todo |-> {}]
    /\ rebuilds' = rebuilds + 1
    /\ UNCHANGED <<environment, kafka, consumer, ledger, overtaken, faults>>

\* closePeriod refuses a range that is being rebuilt.
ClosePeriod(r) ==
    /\ r \notin closed
    /\ (rebuild # NoRebuild => ~Overlap(rebuild, r))
    /\ closed' = closed \cup {r}
    /\ UNCHANGED <<version, kafka, consumer, rebuild, rebuilds, ledger, overtaken, faults>>

\* What processOrders makes of the orders of the job's months.
OrderRows(orders, r) ==
    LET S == {o \in orders : o.state.eligible /\ Within(o.state.date, r)}
    IN  OwnRows(S) \cup GeneralRows(orders, S) \cup BonusRows(orders, r.to)

TripRows(trips, r) == OwnRows({t \in trips : t.state.eligible /\ Within(t.state.date, r)})

\* processOrders and processTrips load what they need, and then put the rows.
LoadRebuild ==
    /\ \/ /\ rebuild.at = "orders?"
          /\ rebuild' = [rebuild EXCEPT !.at = "orders", !.todo = OrderRows(Read(Order), rebuild)]
       \/ /\ rebuild.at = "trips?"
          /\ rebuild' = [rebuild EXCEPT !.at = "trips", !.todo = TripRows(Read(Trip), rebuild)]
    /\ UNCHANGED <<environment, kafka, consumer, rebuilds, ledger, overtaken, faults>>

PutRebuilt ==
    /\ rebuild.at \in {"orders", "trips"}
    /\ \E r \in rebuild.todo :
          /\ ledger' = With(ledger, r)
          /\ overtaken' = Overtaken(r, Source)
          /\ rebuild' = [rebuild EXCEPT !.todo = @ \ {r}]
    /\ UNCHANGED <<environment, kafka, consumer, rebuilds, faults>>

\* The next part of the job, or its end.
NextPart ==
    /\ rebuild.at \in {"orders", "trips"} /\ rebuild.todo = {}
    /\ rebuild' = IF rebuild.at = "orders" THEN [rebuild EXCEPT !.at = "trips?"] ELSE NoRebuild
    /\ UNCHANGED <<environment, kafka, consumer, rebuilds, ledger, overtaken, faults>>

\* A command of the job fails, or its instance stops.
FailRebuild ==
    /\ rebuild # NoRebuild /\ faults < MaxFaults
    /\ faults' = faults + 1
    /\ rebuild' = NoRebuild
    /\ UNCHANGED <<environment, kafka, consumer, rebuilds, ledger, overtaken>>

-----------------------------------------------------------------------------

Init ==
    /\ version = [s \in Source |-> 0]
    /\ topic = [p \in Partition |-> <<>>]
    /\ committed = [p \in Partition |-> 0]
    /\ deadLetters = {}
    /\ consumer = [p \in Partition |-> Idle]
    /\ rebuild = NoRebuild
    /\ rebuilds = 0
    /\ ledger = <<>>
    /\ overtaken = {}
    /\ closed = {}
    /\ faults = 0

Consume(p) ==
    \/ Fetch(p) \/ CheckClosed(p) \/ SourceMissing(p) \/ LoadSource(p) \/ LoadContext(p)
    \/ PutRow(p) \/ Processed(p) \/ SendDeadLetter(p) \/ Commit(p)

Rebuild == LoadRebuild \/ PutRebuilt \/ NextPart

Next ==
    \/ \E s \in Source : ChangeSource(s)
    \/ \E s \in Source : \E v \in DOMAIN History[s] : Deliver(s, v)
    \/ \E k \in DOMAIN ledger : Pay(k)
    \/ \E p \in Partition : Consume(p) \/ Fail(p) \/ Stop(p)
    \/ \E r \in Rebuilds : StartRebuild(r)
    \/ \E r \in ClosePeriods : ClosePeriod(r)
    \/ Rebuild \/ FailRebuild

Spec == Init /\ [][Next]_vars

\* Every partition has a running consumer, and a state whose event was
\* delivered becomes visible: the producer writes both in one transaction.
Announced(s) ==
    \E n \in DOMAIN topic[PartitionOf[s]] :
        LET e == topic[PartitionOf[s]][n] IN e.source = s /\ e.version > version[s]

Fairness ==
    /\ \A p \in Partition : WF_vars(Consume(p))
    /\ \A s \in Source : WF_vars(Announced(s) /\ ChangeSource(s))

FairSpec == Spec /\ Fairness

-----------------------------------------------------------------------------
(* Properties *)

Key == (Source \X {"own", "general"}) \cup (Nat \X {"target_bonus"})

Step == {"fetch", "closed?", "source?", "context?", "put", "dead letter", "commit"}

\* Type invariant.  Offsets never pass the end of a partition, and a row keeps
\* an amount: zero amounts never become rows.
TypeOK ==
    /\ \A s \in Source : version[s] \in 0 .. Len(History[s])
    /\ \A p \in Partition :
          /\ committed[p] \in 0 .. Len(topic[p])
          /\ consumer[p].at \in Step
          /\ consumer[p] # Idle =>
                /\ committed[p] < Len(topic[p])
                /\ consumer[p].event = topic[p][committed[p] + 1]
    /\ DOMAIN ledger \subseteq Key
    /\ \A k \in DOMAIN ledger : ledger[k].amount > 0 /\ ledger[k].settled \in BOOLEAN
    /\ closed \subseteq ClosePeriods
    /\ rebuilds \in 0 .. MaxRebuilds /\ faults \in 0 .. MaxFaults

Latest(s) == Event(s, version[s])

Committed(e) ==
    LET p == PartitionOf[e.source]
    IN  \E n \in 1 .. committed[p] : topic[p][n] = e

Refused(e) == [event |-> e, conflicts |-> FALSE] \in deadLetters

\* The newest event of a source was accepted.
UpToDate(s) == version[s] > 0 /\ Committed(Latest(s)) /\ ~Refused(Latest(s))

\* No event is lost: once the offset has passed the newest event of a source
\* and the event was not refused, the rows that depend on the source alone are
\* in the ledger, whatever failed, stopped or was delivered twice meanwhile.
CommittedEventsMaterialized ==
    \A s \in Source : UpToDate(s) =>
        \A r \in OwnRows({Current(s)}) : r.key \in DOMAIN ledger

\* Orders that make a month together: when the newest events of its orders were
\* all accepted, in whatever order and by whichever consumers, the general
\* commission of every order and the bonus are in the ledger if they are due,
\* also those of orders processed before the targets were reached.
MonthComplete ==
    \A o \in Order : UpToDate(o) =>
        LET orders == Read(Order)
            date == Current(o).state.date
            others == {x \in orders : x.state.eligible /\ Month(x.state.date) = Month(date)}
            due == GeneralRows(orders, others) \cup BonusRows(orders, date)
        IN  (\A x \in others : UpToDate(x.id)) => \A r \in due : r.key \in DOMAIN ledger

Quiet ==
    /\ rebuild = NoRebuild
    /\ \A p \in Partition : committed[p] = Len(topic[p])
    /\ \A s \in Source : UpToDate(s)

\* The ledger converges: when all events were processed and nothing runs, every
\* row of a current source that nothing was paid on has the amount and the date
\* the source has now.  The only way out is the one nothing in the code closes:
\* a rebuild, or the consumer of another partition, that loaded the source before
\* it changed put its row last.  The source's own consumer never leaves an old
\* row behind, however often events are repeated, late or cut off.
RowsFollowSources ==
    Quiet =>
        LET orders == Read(Order)
            rows == OwnRows({Current(s) : s \in Source}) \cup GeneralRows(orders, orders)
        IN  \A r \in rows :
                ledger[r.key] = r.row \/ ledger[r.key].settled \/ r.key \in overtaken

\* The consumer gets through what it is sent: every partition is processed to
\* its end again and again, however many events are refused.
EventsDrain == \A p \in Partition : []<>(committed[p] = Len(topic[p]))
=============================================================================
