-------------------------- MODULE EarningsControl ----------------------------
(***************************************************************************)
(* The earnings control plane of one office: closed periods, the rebuild   *)
(* queue, the calculation mode, and the admin calls that change them.      *)
(*                                                                         *)
(* A call of http.go is a sequence of database commands: it reads what     *)
(* could forbid the write (a closed period, an active rebuild, the mode)   *)
(* and writes afterwards.  Other calls, and the instances that work off    *)
(* the rebuild queue, take their steps in between.  An action is one       *)
(* command.  How a payout allocates is the subject of Settlements; here a  *)
(* payout is its range.                                                    *)
(*                                                                         *)
(* Dates are numbers; a month has MonthLength days.                        *)
(*                                                                         *)
(* What a call could know of closed periods and rebuilds when it arrived,  *)
(* or later looked, is kept beside the documents, for the properties only. *)
(***************************************************************************)
EXTENDS Integers, Sequences, FiniteSets

CONSTANTS
    Client,        \* admin requests that can be in flight at the same time
    Instance,      \* instances of the service, each with a rebuild ticker
    Request,       \* admin requests
    SourceRow,     \* ledger rows the sources evaluate to: [source, date]
    MonthLength,
    DefaultMode,   \* EARNINGS_MODE: the mode of an office without a document
    MaxChanges,    \* bound: mode changes
    MaxEdits,      \* bound: edits of a payout
    MaxStops       \* bound: instances that stop, or fail to record the end

Modes == {"shadow", "authoritative"}

ASSUME ConstantsAssumption ==
    /\ DefaultMode \in Modes
    /\ MonthLength \in Nat \ {0} /\ MaxChanges \in Nat
    /\ MaxEdits \in Nat /\ MaxStops \in Nat
    /\ \A r \in Request :
          r.op \in {"adjust", "settle", "edit", "close", "queue", "mode"}
    /\ \A r \in Request : r.from \in Nat /\ r.to \in Nat /\ r.from <= r.to
    /\ \A r \in Request : r.op = "mode" => r.mode \in Modes
    /\ \A row \in SourceRow : row.date \in Nat /\ row.source # "target_bonus"

VARIABLES
    periods,       \* earning_periods: closed ranges
    jobs,          \* earnings_rebuild_jobs, in the order they were requested
    mode,          \* the mode document of the office, with its history
    adjustments,   \* manual ledger rows: [key, date]
    materialized,  \* ledger rows the rebuilds wrote: [source, date]
    payouts,       \* settlements: [key, from, to, edits]
    calls,         \* per client, the request in flight and its next command
    work,          \* per instance, the job it processes
    stops,
    closedBefore,  \* history: per job, the periods its request could know of
    queuedBefore   \* history: per period, how many jobs its request could know of

vars == <<periods, jobs, mode, adjustments, materialized, payouts, calls, work, stops,
          closedBefore, queuedBefore>>
history == <<closedBefore, queuedBefore>>
documents == <<periods, jobs, mode, adjustments, materialized, payouts, history>>

-----------------------------------------------------------------------------
(* Ranges *)

Overlap(r, s) == r.from <= s.to /\ s.from <= r.to

MonthEnd(d) == (((d - 1) \div MonthLength) + 1) * MonthLength

ActiveStatus == {"queued", "running"}
FinalStatus == {"completed", "completed_with_issues", "failed"}

\* HasClosedPeriodOverlap; IsDateClosed for a range of one day.
ClosedOverlap(r) == \E p \in periods : Overlap(p, r)

\* mutant of RebuildOverlap: a claimed job no longer counts.
QueuedOverlap(r) == \E n \in DOMAIN jobs : jobs[n].status = "queued" /\ Overlap(jobs[n], r)

\* HasActiveRebuildOverlap
RebuildOverlap(r) == \E n \in DOMAIN jobs : jobs[n].status \in ActiveStatus /\ Overlap(jobs[n], r)

-----------------------------------------------------------------------------
(* Calls *)

Idle == [at |-> "idle"]

\* The first command of a handler, in the order of its code.
FirstCommand(r) ==
    CASE r.op \in {"adjust", "queue"} -> "closed?"
      [] r.op \in {"settle", "edit"}  -> "find"
      [] r.op = "close"               -> "rebuild?"
      [] r.op = "mode"                -> "mode?"

At(c, command) == calls[c].at = command

\* The call of client c goes on with another command, or is answered.
Continue(c, command) == calls' = [calls EXCEPT ![c].at = command]
Answer(c) == calls' = [calls EXCEPT ![c] = Idle]

\* Closed and queued are what the call could know.
Receive(c, r) ==
    /\ calls[c] = Idle
    /\ calls' = [calls EXCEPT ![c] =
            [at |-> FirstCommand(r), request |-> r, from |-> r.from, to |-> r.to,
             seen |-> "none", closed |-> periods, queued |-> Len(jobs)]]
    /\ UNCHANGED <<documents, work, stops>>

\* A command fails, or the client gives up: the handler returns.
Abandon(c) ==
    /\ calls[c] # Idle
    /\ Answer(c)
    /\ UNCHANGED <<documents, work, stops>>

\* createSettlement returns the settlement with the request's key.
FindReplay(c) ==
    /\ At(c, "find") /\ calls[c].request.op = "settle"
    /\ IF \E s \in payouts : s.key = calls[c].request.key
         THEN Answer(c)
         ELSE Continue(c, "closed?")
    /\ UNCHANGED <<documents, work, stops>>

\* updateSettlement checks the range of the settlement it edits.
FindEdited(c) ==
    /\ At(c, "find") /\ calls[c].request.op = "edit"
    /\ LET found == {s \in payouts : s.key = calls[c].request.key}
       IN  \/ found = {} /\ Answer(c)
           \/ \E s \in found :
                 calls' = [calls EXCEPT ![c].at = "closed?", ![c].from = s.from, ![c].to = s.to]
    /\ UNCHANGED <<documents, work, stops>>

AfterClosed(r) == IF r.op \in {"settle", "edit"} THEN "rebuild?" ELSE "write"
AfterRebuild(r) == IF r.op = "mode" THEN "reconcile" ELSE "write"

\* mutant of CheckClosed: the answer is not looked at.
IgnoreClosed(c) ==
    /\ At(c, "closed?")
    /\ calls' = [calls EXCEPT ![c].at = AfterClosed(calls[c].request), ![c].closed = periods]
    /\ UNCHANGED <<documents, work, stops>>

CheckClosed(c) ==
    /\ At(c, "closed?")
    /\ IF ClosedOverlap(calls[c])
         THEN Answer(c)
         ELSE calls' = [calls EXCEPT ![c].at = AfterClosed(calls[c].request),
                                     ![c].closed = periods]
    /\ UNCHANGED <<documents, work, stops>>

CheckRebuild(c) ==
    /\ At(c, "rebuild?")
    /\ IF RebuildOverlap(calls[c])
         THEN Answer(c)
         ELSE calls' = [calls EXCEPT ![c].at = AfterRebuild(calls[c].request),
                                     ![c].queued = Len(jobs)]
    /\ UNCHANGED <<documents, work, stops>>

\* changeMode: nothing to do, a rollback, or a promotion that needs checking.
ReadMode(c) ==
    /\ At(c, "mode?")
    /\ LET wanted == calls[c].request.mode
       IN  CASE mode.mode = wanted -> Answer(c)
             [] mode.mode # wanted /\ wanted = "authoritative" -> Continue(c, "rebuild?")
             [] OTHER -> Continue(c, "current?")
    /\ UNCHANGED <<documents, work, stops>>

\* What the reconciliation finds depends on the data, which is not kept here.
Reconcile(c) ==
    /\ At(c, "reconcile")
    /\ Continue(c, "current?") \/ Answer(c)
    /\ UNCHANGED <<documents, work, stops>>

\* The read of SetMode.
ReadCurrentMode(c) ==
    /\ At(c, "current?")
    /\ IF mode.mode = calls[c].request.mode
         THEN Answer(c)
         ELSE calls' = [calls EXCEPT ![c].at = "write", ![c].seen = mode.mode]
    /\ UNCHANGED <<documents, work, stops>>

\* The upsert of SetMode.
WriteMode(c) ==
    /\ At(c, "write") /\ calls[c].request.op = "mode"
    /\ Len(mode.history) < MaxChanges
    /\ mode' = [mode EXCEPT !.mode = calls[c].request.mode,
                            !.history = Append(@, [previous |-> calls[c].seen,
                                                   mode |-> calls[c].request.mode])]
    /\ Answer(c)
    /\ UNCHANGED <<periods, jobs, adjustments, materialized, payouts, work, stops, history>>

\* CreateAdjustment: an upsert on the key.
WriteAdjustment(c) ==
    /\ At(c, "write") /\ calls[c].request.op = "adjust"
    /\ LET r == calls[c].request
       IN  adjustments' = IF \E a \in adjustments : a.key = r.key
                            THEN adjustments
                            ELSE adjustments \cup {[key |-> r.key, date |-> r.from]}
    /\ Answer(c)
    /\ UNCHANGED <<periods, jobs, mode, materialized, payouts, work, stops, history>>

\* AllocateSettlement: looks for the key again; may refuse for lack of funds.
WritePayout(c) ==
    /\ At(c, "write") /\ calls[c].request.op = "settle"
    /\ LET r == calls[c].request
           new == [key |-> r.key, from |-> r.from, to |-> r.to, edits |-> 0]
       IN  \/ /\ \A s \in payouts : s.key # r.key
              /\ payouts' = payouts \cup {new}
           \/ UNCHANGED payouts
    /\ Answer(c)
    /\ UNCHANGED <<periods, jobs, mode, adjustments, materialized, work, stops, history>>

\* UpdateSettlement
EditPayout(c) ==
    /\ At(c, "write") /\ calls[c].request.op = "edit"
    /\ \E s \in payouts :
          /\ s.key = calls[c].request.key
          /\ payouts' = IF s.edits < MaxEdits
                          THEN (payouts \ {s}) \cup {[s EXCEPT !.edits = @ + 1]}
                          ELSE payouts
    /\ Answer(c)
    /\ UNCHANGED <<periods, jobs, mode, adjustments, materialized, work, stops, history>>

\* ClosePeriod: an upsert on kind and range; a period is never reopened.
WithPeriod(r) == periods \cup {[kind |-> r.kind, from |-> r.from, to |-> r.to]}

WritePeriod(c) ==
    /\ At(c, "write") /\ calls[c].request.op = "close"
    /\ periods' = WithPeriod(calls[c].request)
    /\ queuedBefore' = [p \in periods' |-> IF p \in periods THEN queuedBefore[p]
                                           ELSE calls[c].queued]
    /\ Answer(c)
    /\ UNCHANGED <<jobs, mode, adjustments, materialized, payouts, work, stops, closedBefore>>

\* mutant of WithJob: a used key queues its job again.
RequeueJob(r) ==
    LET used == {n \in DOMAIN jobs : jobs[n].key = r.key}
        new  == [key |-> r.key, from |-> r.from, to |-> r.to, status |-> "queued"]
    IN  IF used = {}
          THEN Append(jobs, new)
          ELSE [n \in DOMAIN jobs |-> IF n \in used THEN new ELSE jobs[n]]

\* QueueRebuild: a key that was used returns its job, finished or not.
WithJob(r) ==
    IF \E n \in DOMAIN jobs : jobs[n].key = r.key
      THEN jobs
      ELSE Append(jobs, [key |-> r.key, from |-> r.from, to |-> r.to, status |-> "queued"])

WriteJob(c) ==
    /\ At(c, "write") /\ calls[c].request.op = "queue"
    /\ jobs' = WithJob(calls[c].request)
    /\ closedBefore' = IF Len(jobs') > Len(jobs) THEN Append(closedBefore, calls[c].closed)
                       ELSE closedBefore
    /\ Answer(c)
    /\ UNCHANGED <<periods, mode, adjustments, materialized, payouts, work, stops, queuedBefore>>

-----------------------------------------------------------------------------
(* The rebuild queue *)

NoJob == [job |-> 0, todo |-> {}, issues |-> FALSE]

\* What a job materializes: the rows of its range, and the target bonus of the
\* month of its last day, which is dated at the end of that month.
RowsOf(job) ==
    {row \in SourceRow : job.from <= row.date /\ row.date <= job.to}
        \cup {[source |-> "target_bonus", date |-> MonthEnd(job.to)]}

\* mutant of Claimable: a running job can be claimed once more.
ClaimableAgain(n) == jobs[n].status \in ActiveStatus

\* The oldest queued job.
Claimable(n) ==
    /\ jobs[n].status = "queued"
    /\ \A m \in 1 .. n - 1 : jobs[m].status # "queued"

\* ClaimNextRebuild, on a tick of the instance.
Claim(i) ==
    /\ work[i] = NoJob
    /\ \E n \in DOMAIN jobs :
          /\ Claimable(n)
          /\ jobs' = [jobs EXCEPT ![n].status = "running"]
          /\ work' = [work EXCEPT ![i] = [job |-> n, todo |-> RowsOf(jobs[n]), issues |-> FALSE]]
    /\ UNCHANGED <<periods, mode, adjustments, materialized, payouts, calls, stops, history>>

\* PutSourceEntry for a row of the job; an existing row stays one row.
Materialize(i) ==
    /\ \E row \in work[i].todo :
          /\ materialized' = materialized \cup {row}
          /\ work' = [work EXCEPT ![i].todo = @ \ {row}]
    /\ UNCHANGED <<periods, jobs, mode, adjustments, payouts, calls, stops, history>>

\* The source has no usable snapshot, or a paid row differs from it: counted.
CountIssue(i) ==
    /\ \E row \in work[i].todo :
          work' = [work EXCEPT ![i].todo = @ \ {row}, ![i].issues = TRUE]
    /\ UNCHANGED <<documents, calls, stops>>

EndJob(i, status) ==
    /\ jobs' = [jobs EXCEPT ![work[i].job].status = status]
    /\ work' = [work EXCEPT ![i] = NoJob]
    /\ UNCHANGED <<periods, mode, adjustments, materialized, payouts, calls, stops, history>>

\* mutant of Finish: issues do not show in the status.
FinishQuietly(i) ==
    /\ work[i] # NoJob /\ work[i].todo = {}
    /\ EndJob(i, "completed")

\* FinishRebuild after every row was tried.
Finish(i) ==
    /\ work[i] # NoJob /\ work[i].todo = {}
    /\ EndJob(i, IF work[i].issues THEN "completed_with_issues" ELSE "completed")

\* mutant of FailJob: a failed job is left as it is.
DropJob(i) ==
    /\ work[i] # NoJob
    /\ work' = [work EXCEPT ![i] = NoJob]
    /\ UNCHANGED <<documents, calls, stops>>

\* FinishRebuild after a command of the job failed.
FailJob(i) ==
    /\ work[i] # NoJob
    /\ EndJob(i, "failed")

\* The instance stops (a shutdown cancels the context of FinishRebuild too),
\* or FinishRebuild itself fails.  Nothing takes up a running job again.
Stop(i) ==
    /\ work[i] # NoJob /\ stops < MaxStops
    /\ stops' = stops + 1
    /\ work' = [work EXCEPT ![i] = NoJob]
    /\ UNCHANGED <<documents, calls>>

-----------------------------------------------------------------------------
Init ==
    /\ periods = {} /\ jobs = <<>>
    /\ mode = [mode |-> DefaultMode, history |-> <<>>]
    /\ adjustments = {} /\ materialized = {} /\ payouts = {}
    /\ calls = [c \in Client |-> Idle]
    /\ work = [i \in Instance |-> NoJob]
    /\ stops = 0
    /\ closedBefore = <<>> /\ queuedBefore = <<>>

CallStep(c) ==
    \/ \E r \in Request : Receive(c, r)
    \/ Abandon(c) \/ FindReplay(c) \/ FindEdited(c) \/ CheckClosed(c) \/ CheckRebuild(c)
    \/ ReadMode(c) \/ Reconcile(c) \/ ReadCurrentMode(c) \/ WriteMode(c)
    \/ WriteAdjustment(c) \/ WritePayout(c) \/ EditPayout(c) \/ WritePeriod(c) \/ WriteJob(c)

RebuildStep(i) == Claim(i) \/ Materialize(i) \/ CountIssue(i) \/ Finish(i) \/ FailJob(i)

Next ==
    \/ \E c \in Client : CallStep(c)
    \/ \E i \in Instance : RebuildStep(i) \/ Stop(i)

Spec == Init /\ [][Next]_vars

\* The ticker fires every two seconds, and a command returns or fails.
Fairness == \A i \in Instance : WF_vars(RebuildStep(i))

FairSpec == Spec /\ Fairness

-----------------------------------------------------------------------------
(* Properties *)

Commands == {"idle", "find", "closed?", "rebuild?", "mode?", "reconcile", "current?", "write"}

\* Types.  What a mode change was made from is a mode that was read.
TypeOK ==
    /\ \A p \in periods : p.from <= p.to
    /\ \A n \in DOMAIN jobs : jobs[n].status \in {"queued", "running"} \cup FinalStatus
    /\ mode.mode \in Modes
    /\ mode.history \in Seq([previous : Modes, mode : Modes])
    /\ \A s \in payouts : s.edits \in 0 .. MaxEdits
    /\ \A c \in Client : calls[c].at \in Commands
    /\ \A i \in Instance : work[i].job \in 0 .. Len(jobs) /\ work[i].issues \in BOOLEAN
    /\ stops \in 0 .. MaxStops

\* "Keeping the transition in Mongo prevents two reporting instances from
\* processing the same job concurrently" (ClaimNextRebuild).
OneInstancePerJob ==
    /\ \A i, j \in Instance : work[i].job = work[j].job /\ work[i].job # 0 => i = j
    /\ \A i \in Instance : work[i].job # 0 => jobs[work[i].job].status = "running"

\* A job that reports completion has every row of its range in the ledger, also
\* when rows of overlapping jobs were written by other instances meanwhile.
CompletedJobsMaterialized ==
    \A n \in DOMAIN jobs : jobs[n].status = "completed" => RowsOf(jobs[n]) \subseteq materialized

\* A job is requested once and started once: its key and range never change,
\* and it never goes back to an earlier status, whatever keys are replayed.
JobsMoveForward ==
    [][\A n \in DOMAIN jobs :
          LET old == jobs[n]
              new == jobs'[n]
          IN  /\ new.key = old.key /\ new.from = old.from /\ new.to = old.to
              /\ \/ new.status = old.status
                 \/ old.status = "queued" /\ new.status = "running"
                 \/ old.status = "running" /\ new.status \in FinalStatus]_vars

On(date, r) == r.from <= date /\ date <= r.to

\* Nothing gets into a period that was closed when its request came, or when the
\* call looked: no adjustment, no payout or edit.  A rebuild writes a row of
\* the range it was asked for into a closed period only when the two requests
\* crossed: neither could know of the other.  (The target bonus of the month is
\* dated outside the range that was checked.)
PeriodsSealed ==
    [][/\ \A c \in Client : calls'[c] # calls[c] =>
            /\ \A a \in adjustments' \ adjustments : \A p \in calls[c].closed : ~On(a.date, p)
            /\ \A s \in payouts' \ payouts : \A p \in calls[c].closed : ~Overlap(p, s)
       /\ \A i \in Instance : work'[i] # work[i] =>
            \A row \in SourceRow \cap (materialized' \ materialized) : \A p \in periods :
                On(row.date, p) => /\ p \notin closedBefore[work[i].job]
                                   /\ queuedBefore[p] < work[i].job]_vars

\* A rebuild of the range that the call could know of has not ended.
BeingRebuilt(c, r) ==
    \E n \in 1 .. calls[c].queued : jobs[n].status \notin FinalStatus /\ Overlap(jobs[n], r)

\* No payout is made or edited, no period closed and no office promoted over a
\* rebuild that was requested before the call came, or before it looked, and
\* has not ended, in the queue or at an instance, or left behind by one.
WritesAvoidRebuilds ==
    [][\A c \in Client : calls'[c] # calls[c] =>
          /\ \A s \in payouts' \ payouts : ~BeingRebuilt(c, s)
          /\ \A p \in periods' \ periods : ~BeingRebuilt(c, p)
          /\ mode' # mode /\ mode'.mode = "authoritative" => ~BeingRebuilt(c, calls[c])]_vars

\* A requested rebuild comes to an end.
JobsEnd ==
    \A n \in 1 .. Cardinality(Request) :
        n \in DOMAIN jobs ~> n \in DOMAIN jobs /\ jobs[n].status \in FinalStatus
=============================================================================
