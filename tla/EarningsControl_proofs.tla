---------------------- MODULE EarningsControl_proofs -------------------------
(***************************************************************************)
(* The safety of the earnings control plane.                               *)
(*                                                                         *)
(* The rebuild queue is safe for every number of admin calls and instances *)
(* (IInv): claiming is one command of the database.  What the admin calls  *)
(* check is read before it is used, and other calls write in between.      *)
(* What the checks are worth then is that a range a call looked at stays   *)
(* clear of what it could know of (SealInv): periods are not reopened, and *)
(* a rebuild that has ended is not started again.                          *)
(***************************************************************************)
EXTENDS EarningsControl, TLAPS

Key == {r.key : r \in Request}
JobStatus == ActiveStatus \cup FinalStatus

Job == [key : Key, from : Nat, to : Nat, status : JobStatus]

Payout == [key : Key, from : Nat, to : Nat, edits : 0 .. MaxEdits]

\* The rows rebuilds write.
Row == SourceRow \cup {[source |-> "target_bonus", date |-> MonthEnd(d)] : d \in Nat}

Work == [job : Nat, todo : SUBSET Row, issues : BOOLEAN]

Period == [kind : {r.kind : r \in Request}, from : Nat, to : Nat]

Call == [at : Commands \ {"idle"}, request : Request, from : Nat, to : Nat,
         seen : Modes \cup {"none"}, closed : SUBSET Period, queued : Nat]

\* The commands of a handler.
CommandsOf(op) ==
    CASE op \in {"adjust", "queue"} -> {"closed?", "write"}
      [] op \in {"settle", "edit"}  -> {"find", "closed?", "rebuild?", "write"}
      [] op = "close"               -> {"rebuild?", "write"}
      [] op = "mode"                -> {"mode?", "rebuild?", "reconcile", "current?", "write"}

-----------------------------------------------------------------------------
(* The inductive invariant *)

Typed ==
    /\ periods \in SUBSET Period
    /\ \A p \in periods : p.from <= p.to
    /\ jobs \in Seq(Job)
    /\ mode \in [mode : Modes, history : Seq([previous : Modes, mode : Modes])]
    /\ payouts \in SUBSET Payout
    /\ calls \in [Client -> {Idle} \cup Call]
    /\ work \in [Instance -> Work]
    /\ stops \in 0 .. MaxStops

\* A call in flight is at a command of its handler.  Only an edit works on
\* another range than its request's, and a mode change that is about to be
\* written has read another mode.
CallOK(call) ==
    call # Idle =>
        /\ call.at \in CommandsOf(call.request.op)
        /\ call.request.op # "edit" => call.from = call.request.from /\ call.to = call.request.to
        /\ call.at = "write" /\ call.request.op = "mode" =>
              call.seen \in Modes /\ call.seen # call.request.mode

\* What an instance works on is a running job, and what is no longer to do is
\* in the ledger or was counted as an issue.
WorkOK(i) ==
    \/ work[i] = NoJob
    \/ /\ work[i].job \in DOMAIN jobs
       /\ jobs[work[i].job].status = "running"
       /\ work[i].todo \subseteq RowsOf(jobs[work[i].job])
       /\ work[i].issues \/ RowsOf(jobs[work[i].job]) \ work[i].todo \subseteq materialized

IInv ==
    /\ Typed
    /\ \A c \in Client : CallOK(calls[c])
    /\ \A i \in Instance : WorkOK(i)
    /\ OneInstancePerJob
    /\ CompletedJobsMaterialized

\* A claimed job has a number, and an idle instance has none.
LEMMA WorkedJob ==
    ASSUME IInv, NEW i \in Instance
    PROVE  /\ work[i] = NoJob <=> work[i].job = 0
           /\ work[i] # NoJob => /\ work[i].job \in DOMAIN jobs
                                 /\ jobs[work[i].job] \in Job
                                 /\ jobs[work[i].job].status = "running"
<1>1. jobs \in Seq(Job) /\ WorkOK(i)
  BY DEF IInv, Typed
<1>2. NoJob.job = 0
  BY DEF NoJob
<1> QED
  BY <1>1, <1>2 DEF WorkOK

LEMMA InitIInv == Init => IInv
<1> SUFFICES ASSUME Init PROVE IInv
  OBVIOUS
<1> USE DEF Init
<1>1. Typed
  BY ConstantsAssumption DEF Typed, NoJob, Work, Row
<1>2. \A c \in Client : CallOK(calls[c])
  BY DEF CallOK
<1>3. \A i \in Instance : WorkOK(i) /\ work[i].job = 0
  BY DEF WorkOK, NoJob
<1> QED
  BY <1>1, <1>2, <1>3 DEF IInv, OneInstancePerJob, CompletedJobsMaterialized

-----------------------------------------------------------------------------
(* Calls *)

\* A call that moves on, or is answered, keeps the calls well-formed.
LEMMA CallMoves ==
    ASSUME Typed, \A d \in Client : CallOK(calls[d]), NEW c \in Client,
           NEW call \in {Idle} \cup Call, CallOK(call),
           calls' = [calls EXCEPT ![c] = call]
    PROVE  /\ calls' \in [Client -> {Idle} \cup Call]
           /\ \A d \in Client : CallOK(calls'[d])
  BY DEF Typed

\* A command of a call that only looks keeps it well-formed.
LEMMA LookKeepsCalls ==
    ASSUME IInv, NEW c \in Client,
           \/ \E r \in Request : Receive(c, r)
           \/ Abandon(c) \/ FindReplay(c) \/ FindEdited(c) \/ CheckClosed(c) \/ CheckRebuild(c)
           \/ ReadMode(c) \/ Reconcile(c) \/ ReadCurrentMode(c)
    PROVE  /\ calls' \in [Client -> {Idle} \cup Call]
           /\ \A d \in Client : CallOK(calls'[d])
           /\ UNCHANGED <<documents, work, stops>>
<1>0. Typed /\ CallOK(calls[c]) /\ \A d \in Client : CallOK(calls[d])
  BY DEF IInv
<1>1. calls[c] \in {Idle} \cup Call /\ mode.mode \in Modes /\ payouts \subseteq Payout
  BY <1>0 DEF Typed
<1>2. Idle.at = "idle" /\ CallOK(Idle)
  BY DEF Idle, CallOK
<1>3. \A r \in Request : r.op \in {"adjust", "settle", "edit", "close", "queue", "mode"}
  BY ConstantsAssumption
<1> DEFINE Moves == \E call \in {Idle} \cup Call :
                        CallOK(call) /\ calls' = [calls EXCEPT ![c] = call]
<1>4. ASSUME Answer(c) PROVE Moves
  BY <1>2, <1>4 DEF Answer
<1>5. ASSUME NEW command \in Commands \ {"idle"}, calls[c] # Idle, Continue(c, command),
             command \in CommandsOf(calls[c].request.op),
             ~(command = "write" /\ calls[c].request.op = "mode")
      PROVE  Moves
  <2> DEFINE next == [calls[c] EXCEPT !.at = command]
  <2>1. calls[c] \in Call
    BY <1>1, <1>5
  <2>2. next \in Call /\ CallOK(next)
    BY <1>0, <1>5, <2>1 DEF Call, CallOK
  <2>3. calls' = [calls EXCEPT ![c] = next]
    BY <1>0, <1>5 DEF Continue, Typed
  <2> QED
    BY <2>2, <2>3
<1>6. ASSUME calls[c] # Idle
      PROVE  /\ calls[c] \in Call /\ calls[c].request \in Request
             /\ calls[c].at \in CommandsOf(calls[c].request.op)
             /\ calls[c].request.op \in {"adjust", "settle", "edit", "close", "queue", "mode"}
  BY <1>0, <1>1, <1>3, <1>6 DEF Call, CallOK
<1>7. ASSUME NEW command, At(c, command), command # "idle" PROVE calls[c] # Idle
  BY <1>2, <1>7 DEF At
<1>10. ASSUME NEW r \in Request, Receive(c, r) PROVE Moves
  <2> DEFINE call == [at |-> FirstCommand(r), request |-> r, from |-> r.from, to |-> r.to,
                      seen |-> "none", closed |-> periods, queued |-> Len(jobs)]
  <2>1. /\ FirstCommand(r) \in CommandsOf(r.op)
        /\ FirstCommand(r) \in Commands \ {"idle", "write"}
    BY <1>3 DEF FirstCommand, CommandsOf, Commands
  <2>2. periods \in SUBSET Period /\ Len(jobs) \in Nat
    BY <1>0 DEF Typed
  <2>3. call \in Call
    BY <2>1, <2>2, ConstantsAssumption DEF Call
  <2>4. CallOK(call)
    BY <2>1 DEF CallOK
  <2> QED
    BY <1>10, <2>3, <2>4 DEF Receive
<1>11. ASSUME Abandon(c) PROVE Moves
  BY <1>4, <1>11 DEF Abandon
<1>12. ASSUME FindReplay(c) PROVE Moves
  <2>1. calls[c] # Idle /\ "closed?" \in CommandsOf("settle")
    BY <1>7, <1>12 DEF FindReplay, CommandsOf
  <2> QED
    BY <1>4, <1>5, <1>12, <2>1 DEF FindReplay, Commands
<1>13. ASSUME FindEdited(c) PROVE Moves
  <2>1. calls[c] \in Call /\ calls[c].request.op = "edit"
    BY <1>6, <1>7, <1>13 DEF FindEdited
  <2>2. CASE Answer(c)
    BY <1>4, <2>2
  <2>3. ASSUME NEW s \in payouts,
               calls' = [calls EXCEPT ![c].at = "closed?", ![c].from = s.from, ![c].to = s.to]
        PROVE  Moves
    <3> DEFINE next == [calls[c] EXCEPT !.at = "closed?", !.from = s.from, !.to = s.to]
    <3>1. s.from \in Nat /\ s.to \in Nat
      BY <1>1 DEF Payout
    <3>2. next \in Call
      BY <2>1, <3>1 DEF Call, Commands
    <3>3. next.at = "closed?" /\ next.request = calls[c].request
      BY <2>1 DEF Call
    <3>4. CallOK(next)
      BY <2>1, <3>3 DEF CallOK, CommandsOf
    <3>5. calls' = [calls EXCEPT ![c] = next]
      BY <1>0, <2>3 DEF Typed
    <3> QED
      BY <3>2, <3>4, <3>5
  <2> QED
    BY <1>13, <2>2, <2>3 DEF FindEdited
<1>14. ASSUME CheckClosed(c) PROVE Moves
  <2>1. calls[c] # Idle /\ calls[c].at = "closed?"
    BY <1>7, <1>14 DEF CheckClosed, At
  <2>2. calls[c].request.op \in {"adjust", "settle", "edit", "queue"}
    BY <1>6, <2>1 DEF CommandsOf
  <2> DEFINE command == AfterClosed(calls[c].request)
             next == [calls[c] EXCEPT !.at = command, !.closed = periods]
  <2>3. /\ command \in Commands \ {"idle"} /\ command \in CommandsOf(calls[c].request.op)
        /\ calls[c].request.op # "mode" /\ calls[c] \in Call
    BY <1>6, <2>1, <2>2 DEF AfterClosed, CommandsOf, Commands
  <2> HIDE DEF command
  <2>4. next \in Call
    BY <1>0, <2>3 DEF Call, Typed
  <2>5. /\ next.at = command /\ next.request = calls[c].request
        /\ next.from = calls[c].from /\ next.to = calls[c].to
    BY <2>3 DEF Call
  <2>6. CallOK(next)
    BY <1>0, <2>1, <2>3, <2>5 DEF CallOK
  <2>7. calls' = [calls EXCEPT ![c] = next] \/ Answer(c)
    BY <1>0, <1>14 DEF CheckClosed, command, Typed
  <2> QED
    BY <1>4, <2>4, <2>6, <2>7
<1>15. ASSUME CheckRebuild(c) PROVE Moves
  <2>1. calls[c] # Idle /\ calls[c].at = "rebuild?"
    BY <1>7, <1>15 DEF CheckRebuild, At
  <2>2. calls[c].request.op \in {"settle", "edit", "close", "mode"}
    BY <1>6, <2>1 DEF CommandsOf
  <2> DEFINE command == AfterRebuild(calls[c].request)
             next == [calls[c] EXCEPT !.at = command, !.queued = Len(jobs)]
  <2>3. /\ command \in Commands \ {"idle"} /\ command \in CommandsOf(calls[c].request.op)
        /\ calls[c] \in Call
        /\ calls[c].request.op = "mode" => command # "write"
    BY <1>6, <2>1, <2>2 DEF AfterRebuild, CommandsOf, Commands
  <2> HIDE DEF command
  <2>4. next \in Call
    <3>1. Len(jobs) \in Nat
      BY <1>0 DEF Typed
    <3> QED
      BY <2>3, <3>1 DEF Call
  <2>5. /\ next.at = command /\ next.request = calls[c].request
        /\ next.from = calls[c].from /\ next.to = calls[c].to
    BY <2>3 DEF Call
  <2>6. CallOK(next)
    BY <1>0, <2>1, <2>3, <2>5 DEF CallOK
  <2>7. calls' = [calls EXCEPT ![c] = next] \/ Answer(c)
    BY <1>0, <1>15 DEF CheckRebuild, command, Typed
  <2> QED
    BY <1>4, <2>4, <2>6, <2>7
<1>16. ASSUME ReadMode(c) PROVE Moves
  <2>1. calls[c] # Idle /\ calls[c].at = "mode?"
    BY <1>7, <1>16 DEF ReadMode, At
  <2>2. calls[c].request.op = "mode"
    BY <1>6, <2>1 DEF CommandsOf
  <2>3. Answer(c) \/ Continue(c, "rebuild?") \/ Continue(c, "current?")
    BY <1>16 DEF ReadMode
  <2> QED
    BY <1>4, <1>5, <2>1, <2>2, <2>3 DEF CommandsOf, Commands
<1>17. ASSUME Reconcile(c) PROVE Moves
  <2>1. calls[c] # Idle /\ calls[c].at = "reconcile"
    BY <1>7, <1>17 DEF Reconcile, At
  <2>2. calls[c].request.op = "mode"
    BY <1>6, <2>1 DEF CommandsOf
  <2> QED
    BY <1>4, <1>5, <1>17, <2>1, <2>2 DEF Reconcile, CommandsOf, Commands
<1>18. ASSUME ReadCurrentMode(c) PROVE Moves
  <2>1. calls[c] # Idle /\ calls[c].at = "current?"
    BY <1>7, <1>18 DEF ReadCurrentMode, At
  <2>2. calls[c] \in Call /\ calls[c].request.op = "mode"
    BY <1>6, <2>1 DEF CommandsOf
  <2>3. CASE Answer(c)
    BY <1>4, <2>3
  <2>4. CASE /\ mode.mode # calls[c].request.mode
             /\ calls' = [calls EXCEPT ![c].at = "write", ![c].seen = mode.mode]
    <3> DEFINE next == [calls[c] EXCEPT !.at = "write", !.seen = mode.mode]
    <3>1. next \in Call
      BY <1>1, <2>2 DEF Call, Commands
    <3>2. /\ next.at = "write" /\ next.request = calls[c].request /\ next.seen = mode.mode
          /\ next.from = calls[c].from /\ next.to = calls[c].to
      BY <2>2 DEF Call
    <3>3. CallOK(next)
      BY <1>0, <1>1, <2>1, <2>2, <2>4, <3>2 DEF CallOK, CommandsOf
    <3>4. calls' = [calls EXCEPT ![c] = next]
      BY <1>0, <2>4 DEF Typed
    <3> QED
      BY <3>1, <3>3, <3>4
  <2> QED
    BY <1>18, <2>3, <2>4 DEF ReadCurrentMode
<1>19. Moves
  BY <1>10, <1>11, <1>12, <1>13, <1>14, <1>15, <1>16, <1>17, <1>18
<1>20. UNCHANGED <<documents, work, stops>>
  BY DEF Receive, Abandon, FindReplay, FindEdited, CheckClosed, CheckRebuild, ReadMode,
         Reconcile, ReadCurrentMode
<1> QED
  BY <1>0, <1>19, <1>20, CallMoves

-----------------------------------------------------------------------------
(* Writes *)

\* The queue's part of the invariant.
QueueOK ==
    /\ jobs \in Seq(Job)
    /\ work \in [Instance -> Work]
    /\ \A i \in Instance : WorkOK(i)
    /\ OneInstancePerJob
    /\ CompletedJobsMaterialized

\* A write of a call keeps the types, and answers the call.
LEMMA WriteKeepsTypes ==
    ASSUME IInv, NEW c \in Client,
           \/ WriteMode(c) \/ WriteAdjustment(c) \/ WritePayout(c) \/ EditPayout(c)
           \/ WritePeriod(c) \/ WriteJob(c)
    PROVE  Typed' /\ \A d \in Client : CallOK(calls'[d])
<1>0. Typed /\ \A d \in Client : CallOK(calls[d])
  BY DEF IInv
<1>1. calls' = [calls EXCEPT ![c] = Idle]
  BY DEF Answer, WriteMode, WriteAdjustment, WritePayout, EditPayout, WritePeriod, WriteJob
<1>2. CallOK(Idle)
  BY DEF CallOK
<1>3. calls' \in [Client -> {Idle} \cup Call] /\ \A d \in Client : CallOK(calls'[d])
  BY <1>0, <1>1, <1>2, CallMoves
<1>4. CallOK(calls[c]) /\ calls[c] \in {Idle} \cup Call
  BY <1>0 DEF Typed
<1>5. calls[c].at = "write" => /\ calls[c] \in Call /\ calls[c].request \in Request
                               /\ calls[c] # Idle
  BY <1>4 DEF Idle, Call
<1> DEFINE r == calls[c].request
<1>6. r \in Request =>
         /\ r.from \in Nat /\ r.to \in Nat /\ r.from <= r.to
         /\ r.op = "mode" => r.mode \in Modes
         /\ r.key \in Key
  BY ConstantsAssumption DEF Key
<1>7. CASE WriteMode(c)
  <2>1. r \in Request /\ r.op = "mode" /\ calls[c].seen \in Modes
    BY <1>4, <1>5, <1>7 DEF WriteMode, At, CallOK
  <2> DEFINE change == [previous |-> calls[c].seen, mode |-> r.mode]
  <2>2. r.mode \in Modes /\ change \in [previous : Modes, mode : Modes]
    BY <1>6, <2>1
  <2>3. mode' = [mode EXCEPT !.mode = r.mode, !.history = Append(@, change)]
    BY <1>7 DEF WriteMode
  <2> HIDE DEF change, r
  <2>4. mode \in [mode : Modes, history : Seq([previous : Modes, mode : Modes])]
    BY <1>0 DEF Typed
  <2>5. Append(mode.history, change) \in Seq([previous : Modes, mode : Modes])
    BY <2>2, <2>4
  <2>6. mode' \in [mode : Modes, history : Seq([previous : Modes, mode : Modes])]
    BY <2>2, <2>3, <2>4, <2>5
  <2> QED
    BY <1>0, <1>3, <1>7, <2>6 DEF Typed, WriteMode
<1>8. CASE WriteAdjustment(c)
  BY <1>0, <1>3, <1>8 DEF Typed, WriteAdjustment
<1>9. CASE WritePayout(c)
  <2>1. [key |-> r.key, from |-> r.from, to |-> r.to, edits |-> 0] \in Payout
    BY <1>5, <1>6, <1>9, ConstantsAssumption DEF WritePayout, At, Payout
  <2>2. payouts' \subseteq Payout
    BY <1>0, <1>9, <2>1 DEF WritePayout, Typed
  <2> QED
    BY <1>0, <1>3, <1>9, <2>2 DEF Typed, WritePayout
<1>10. CASE EditPayout(c)
  <2>1. PICK s \in payouts : payouts' = IF s.edits < MaxEdits
                                          THEN (payouts \ {s}) \cup {[s EXCEPT !.edits = @ + 1]}
                                          ELSE payouts
    BY <1>10 DEF EditPayout
  <2>2. payouts \subseteq Payout /\ s \in Payout
    BY <1>0 DEF Typed
  <2>3. s.edits < MaxEdits => [s EXCEPT !.edits = @ + 1] \in Payout
    BY <2>2, ConstantsAssumption DEF Payout
  <2>4. payouts' \subseteq Payout
    BY <2>1, <2>2, <2>3
  <2> QED
    BY <1>0, <1>3, <1>10, <2>4 DEF Typed, EditPayout
<1>11. CASE WritePeriod(c)
  <2>1. r \in Request
    BY <1>5, <1>11 DEF WritePeriod, At
  <2>2. periods' = periods \cup {[kind |-> r.kind, from |-> r.from, to |-> r.to]}
    BY <1>11 DEF WritePeriod, WithPeriod
  <2> QED
    BY <1>0, <1>3, <1>6, <1>11, <2>1, <2>2 DEF Typed, WritePeriod, Period
<1>12. CASE WriteJob(c)
  <2>1. r \in Request
    BY <1>5, <1>12 DEF WriteJob, At
  <2>2. [key |-> r.key, from |-> r.from, to |-> r.to, status |-> "queued"] \in Job
    BY <1>6, <2>1 DEF Job, JobStatus, ActiveStatus
  <2>3. jobs \in Seq(Job)
    BY <1>0 DEF Typed
  <2>4. jobs' \in Seq(Job)
    BY <1>12, <2>2, <2>3 DEF WriteJob, WithJob
  <2> QED
    BY <1>0, <1>3, <1>12, <2>4 DEF Typed, WriteJob
<1> QED
  BY <1>7, <1>8, <1>9, <1>10, <1>11, <1>12

\* A write of a call leaves the queue as it is, or adds a job that is queued.
LEMMA WriteKeepsQueue ==
    ASSUME IInv, NEW c \in Client,
           \/ WriteMode(c) \/ WriteAdjustment(c) \/ WritePayout(c) \/ EditPayout(c)
           \/ WritePeriod(c) \/ WriteJob(c)
    PROVE  QueueOK'
<1>1. jobs \in Seq(Job) /\ QueueOK /\ work' = work /\ materialized' = materialized
  BY DEF IInv, Typed, QueueOK, WriteMode, WriteAdjustment, WritePayout, EditPayout,
         WritePeriod, WriteJob
<1>2. \/ jobs' = jobs
      \/ \E job \in Job : job.status = "queued" /\ jobs' = Append(jobs, job)
  <2>1. CASE WriteJob(c)
    <3> DEFINE r == calls[c].request
               job == [key |-> r.key, from |-> r.from, to |-> r.to, status |-> "queued"]
    <3>1. calls[c] \in {Idle} \cup Call /\ calls[c].at = "write"
      BY <2>1 DEF IInv, Typed, WriteJob, At
    <3>2. r \in Request
      BY <3>1 DEF Idle, Call
    <3>3. job \in Job /\ job.status = "queued"
      BY <3>2, ConstantsAssumption DEF Job, JobStatus, ActiveStatus, Key
    <3> QED
      BY <2>1, <3>3 DEF WriteJob, WithJob
  <2>2. CASE ~WriteJob(c)
    BY <2>2 DEF WriteMode, WriteAdjustment, WritePayout, EditPayout, WritePeriod
  <2> QED
    BY <2>1, <2>2
<1>3. CASE jobs' = jobs
  BY <1>1, <1>3 DEF QueueOK, WorkOK, OneInstancePerJob, CompletedJobsMaterialized
<1>4. ASSUME NEW job \in Job, job.status = "queued", jobs' = Append(jobs, job)
      PROVE  QueueOK'
  <2>1. /\ jobs' \in Seq(Job)
        /\ DOMAIN jobs' = DOMAIN jobs \cup {Len(jobs) + 1}
        /\ \A n \in DOMAIN jobs : jobs'[n] = jobs[n]
        /\ jobs'[Len(jobs) + 1].status = "queued"
    BY <1>1, <1>4
  <2>2. \A i \in Instance : WorkOK(i)'
    BY <1>1, <2>1 DEF QueueOK, WorkOK
  <2>3. OneInstancePerJob'
    BY <1>1, <2>1, <2>2 DEF QueueOK, OneInstancePerJob, WorkOK, NoJob
  <2>4. CompletedJobsMaterialized'
    BY <1>1, <2>1 DEF QueueOK, CompletedJobsMaterialized
  <2> QED
    BY <1>1, <2>1, <2>2, <2>3, <2>4 DEF QueueOK
<1> QED
  BY <1>2, <1>3, <1>4

-----------------------------------------------------------------------------
(* The queue *)

\* Only the instance that works on a job changes it, or puts it down.
LEMMA QueueKept ==
    ASSUME IInv, NEW i \in Instance,
           jobs' \in Seq(Job), DOMAIN jobs' = DOMAIN jobs,
           NEW w \in Work, work' = [work EXCEPT ![i] = w], WorkOK(i)',
           materialized \subseteq materialized',
           \A n \in DOMAIN jobs : n # work[i].job /\ n # w.job => jobs'[n] = jobs[n],
           \A j \in Instance : j # i /\ work[j].job # 0 => work[j].job # w.job,
           \A n \in DOMAIN jobs : n \in {work[i].job, w.job} /\ jobs'[n].status = "completed"
                => RowsOf(jobs'[n]) \subseteq materialized'
    PROVE  QueueOK'
<1>0. /\ work \in [Instance -> Work] /\ \A j \in Instance : WorkOK(j)
      /\ OneInstancePerJob /\ CompletedJobsMaterialized
  BY DEF IInv, Typed
<1>1. work'[i] = w /\ \A j \in Instance : j # i => work'[j] = work[j]
  BY <1>0
<1>2. ASSUME NEW j \in Instance, j # i, work[j].job # 0
      PROVE  /\ work[j].job \in DOMAIN jobs
             /\ jobs'[work[j].job] = jobs[work[j].job]
             /\ jobs[work[j].job].status = "running"
  <2>1. work[j].job \in DOMAIN jobs /\ work[j].job # work[i].job
    BY <1>0, <1>2, WorkedJob DEF OneInstancePerJob
  <2> QED
    BY <1>0, <1>2, <2>1 DEF OneInstancePerJob
<1>3. \A j \in Instance : WorkOK(j)'
  <2>1. ASSUME NEW j \in Instance, j # i PROVE WorkOK(j)'
    <3>1. work'[j] = work[j] /\ WorkOK(j)
      BY <1>0, <1>1, <2>1
    <3>2. CASE work[j] = NoJob
      BY <3>1, <3>2 DEF WorkOK
    <3>3. CASE work[j] # NoJob
      BY <1>2, <2>1, <3>1, <3>3, WorkedJob DEF WorkOK
    <3> QED
      BY <3>2, <3>3
  <2> QED
    BY <2>1
<1>4. OneInstancePerJob'
  <2>1. ASSUME NEW j \in Instance, work'[j].job # 0
        PROVE  jobs'[work'[j].job].status = "running"
    BY <1>3, <2>1 DEF WorkOK, NoJob
  <2>2. ASSUME NEW j \in Instance, NEW k \in Instance,
               work'[j].job = work'[k].job, work'[j].job # 0
        PROVE  j = k
    BY <1>0, <1>1, <2>2 DEF OneInstancePerJob
  <2> QED
    BY <2>1, <2>2 DEF OneInstancePerJob
<1>5. CompletedJobsMaterialized'
  BY <1>0 DEF CompletedJobsMaterialized
<1> QED
  BY <1>0, <1>3, <1>4, <1>5 DEF QueueOK

\* An end leaves a range as it was.
LEMMA EndedJob ==
    ASSUME IInv, NEW i \in Instance, work[i] # NoJob, NEW status \in FinalStatus,
           EndJob(i, status)
    PROVE  /\ jobs' \in Seq(Job) /\ DOMAIN jobs' = DOMAIN jobs
           /\ \A n \in DOMAIN jobs : n # work[i].job => jobs'[n] = jobs[n]
           /\ jobs'[work[i].job] = [jobs[work[i].job] EXCEPT !.status = status]
           /\ RowsOf(jobs'[work[i].job]) = RowsOf(jobs[work[i].job])
           /\ jobs'[work[i].job].status = status
<1> DEFINE n == work[i].job
           job == [jobs[n] EXCEPT !.status = status]
<1>1. jobs \in Seq(Job) /\ n \in DOMAIN jobs /\ jobs[n] \in Job
  BY WorkedJob DEF IInv, Typed
<1>2. /\ job \in Job /\ job.status = status
      /\ job.from = jobs[n].from /\ job.to = jobs[n].to
  BY <1>1 DEF Job, JobStatus
<1>3. jobs' = [jobs EXCEPT ![n] = job]
  BY DEF EndJob
<1> HIDE DEF n, job
<1>4. /\ jobs' \in Seq(Job) /\ DOMAIN jobs' = DOMAIN jobs /\ jobs'[n] = job
      /\ \A m \in DOMAIN jobs : m # n => jobs'[m] = jobs[m]
  BY <1>1, <1>2, <1>3
<1>5. RowsOf(job) = RowsOf(jobs[n])
  BY <1>2 DEF RowsOf
<1> QED
  BY <1>2, <1>4, <1>5 DEF n, job

LEMMA RowsTyped ==
    ASSUME NEW job \in Job
    PROVE  RowsOf(job) \subseteq Row
  BY DEF RowsOf, Row, Job

LEMMA ClaimKeepsQueue ==
    ASSUME IInv, NEW i \in Instance, Claim(i)
    PROVE  QueueOK'
<1>1. PICK n \in DOMAIN jobs :
        /\ Claimable(n)
        /\ jobs' = [jobs EXCEPT ![n].status = "running"]
        /\ work' = [work EXCEPT ![i] = [job |-> n, todo |-> RowsOf(jobs[n]), issues |-> FALSE]]
  BY DEF Claim
<1> DEFINE w == [job |-> n, todo |-> RowsOf(jobs[n]), issues |-> FALSE]
           job == [jobs[n] EXCEPT !.status = "running"]
<1>2. /\ jobs \in Seq(Job) /\ jobs[n] \in Job /\ jobs[n].status = "queued"
      /\ n \in Nat \ {0} /\ work \in [Instance -> Work] /\ work[i].job = 0
      /\ OneInstancePerJob /\ materialized' = materialized
  BY <1>1 DEF IInv, Typed, Claimable, Claim, NoJob
<1>3. w \in Work
  BY <1>2, RowsTyped DEF Work
<1>4. /\ job \in Job /\ job.status = "running"
      /\ job.from = jobs[n].from /\ job.to = jobs[n].to
  BY <1>2 DEF Job, JobStatus, ActiveStatus
<1>5. RowsOf(job) = RowsOf(jobs[n])
  BY <1>4 DEF RowsOf
<1>6. /\ jobs' \in Seq(Job) /\ DOMAIN jobs' = DOMAIN jobs /\ jobs'[n] = job
      /\ \A m \in DOMAIN jobs : m # n => jobs'[m] = jobs[m]
  <2> HIDE DEF job
  <2>1. jobs' = [jobs EXCEPT ![n] = job]
    BY <1>1 DEF job
  <2> QED
    BY <1>2, <1>4, <2>1
<1>7. work'[i] = w
  BY <1>1, <1>2
<1>8. work' = [work EXCEPT ![i] = w] /\ w.job = n /\ w.todo = RowsOf(jobs[n])
  BY <1>1
<1> HIDE DEF w, job
<1>9. WorkOK(i)'
  BY <1>4, <1>5, <1>6, <1>7, <1>8 DEF WorkOK
<1>10. \A j \in Instance : j # i /\ work[j].job # 0 => work[j].job # w.job
  BY <1>2, <1>8 DEF OneInstancePerJob
<1>11. \A m \in DOMAIN jobs : m \in {work[i].job, w.job} /\ jobs'[m].status = "completed"
                => RowsOf(jobs'[m]) \subseteq materialized'
  <2>1. 0 \notin DOMAIN jobs
    BY <1>2
  <2> QED
    BY <1>2, <1>4, <1>6, <1>8, <2>1
<1> QED
  BY <1>2, <1>3, <1>6, <1>8, <1>9, <1>10, <1>11, QueueKept

\* Trying a row: it is written, or counted as an issue.
LEMMA TryKeepsQueue ==
    ASSUME IInv, NEW i \in Instance, Materialize(i) \/ CountIssue(i)
    PROVE  QueueOK'
<1>1. PICK row \in work[i].todo :
        \/ /\ materialized' = materialized \cup {row}
           /\ work' = [work EXCEPT ![i].todo = @ \ {row}]
        \/ /\ materialized' = materialized
           /\ work' = [work EXCEPT ![i].todo = @ \ {row}, ![i].issues = TRUE]
  BY DEF Materialize, CountIssue, documents
<1>2. /\ jobs' = jobs /\ jobs \in Seq(Job) /\ work \in [Instance -> Work] /\ WorkOK(i)
      /\ OneInstancePerJob /\ CompletedJobsMaterialized /\ work[i] # NoJob
  BY <1>1 DEF IInv, Typed, Materialize, CountIssue, documents, NoJob
<1>3. PICK issues \in BOOLEAN :
        /\ work' = [work EXCEPT ![i] = [work[i] EXCEPT !.todo = @ \ {row}, !.issues = issues]]
        /\ ~issues => ~work[i].issues /\ materialized' = materialized \cup {row}
  <2>1. work[i].issues \in BOOLEAN /\ work[i] \in Work
    BY <1>2 DEF Work
  <2>2. CASE /\ materialized' = materialized \cup {row}
             /\ work' = [work EXCEPT ![i].todo = @ \ {row}]
    <3>1. work' = [work EXCEPT ![i] = [work[i] EXCEPT !.todo = @ \ {row}, !.issues = work[i].issues]]
      BY <1>2, <2>1, <2>2 DEF Work
    <3> QED
      BY <2>1, <2>2, <3>1
  <2>3. CASE work' = [work EXCEPT ![i].todo = @ \ {row}, ![i].issues = TRUE]
    <3>1. work' = [work EXCEPT ![i] = [work[i] EXCEPT !.todo = @ \ {row}, !.issues = TRUE]]
      BY <1>2, <2>3
    <3> QED
      BY <3>1
  <2> QED
    BY <1>1, <2>2, <2>3
<1> DEFINE w == [work[i] EXCEPT !.todo = @ \ {row}, !.issues = issues]
<1>4. /\ w \in Work /\ w.job = work[i].job /\ w.todo = work[i].todo \ {row}
      /\ w.issues = issues
  BY <1>2 DEF Work
<1>5. work' = [work EXCEPT ![i] = w] /\ materialized \subseteq materialized'
  BY <1>1, <1>3
<1> HIDE DEF w
<1>6. work'[i] = w
  BY <1>2, <1>5
<1>7. WorkOK(i)'
  <2>1. /\ work[i].job \in DOMAIN jobs /\ jobs[work[i].job].status = "running"
        /\ work[i].todo \subseteq RowsOf(jobs[work[i].job])
        /\ work[i].issues \/ RowsOf(jobs[work[i].job]) \ work[i].todo \subseteq materialized
    BY <1>2 DEF WorkOK
  <2> QED
    BY <1>1, <1>2, <1>3, <1>4, <1>6, <2>1 DEF WorkOK
<1>8. \A j \in Instance : j # i /\ work[j].job # 0 => work[j].job # w.job
  BY <1>2, <1>4 DEF OneInstancePerJob
<1>9. \A n \in DOMAIN jobs : jobs'[n].status = "completed" => RowsOf(jobs'[n]) \subseteq materialized'
  BY <1>2, <1>5 DEF CompletedJobsMaterialized
<1> QED
  BY <1>2, <1>4, <1>5, <1>7, <1>8, <1>9, QueueKept

\* An end is recorded by the instance that works on the job: completed only
\* when nothing is left to do and nothing was counted.
LEMMA EndKeepsQueue ==
    ASSUME IInv, NEW i \in Instance, Finish(i) \/ FailJob(i)
    PROVE  QueueOK'
<1>1. PICK status \in FinalStatus :
        /\ EndJob(i, status)
        /\ status = "completed" => work[i].todo = {} /\ ~work[i].issues
  <2>1. CASE Finish(i)
    BY <2>1 DEF Finish, FinalStatus
  <2>2. CASE FailJob(i)
    BY <2>2 DEF FailJob, FinalStatus
  <2> QED
    BY <2>1, <2>2
<1>2. work[i] # NoJob /\ WorkOK(i) /\ work \in [Instance -> Work]
  BY DEF IInv, Typed, Finish, FailJob
<1>3. /\ jobs' \in Seq(Job) /\ DOMAIN jobs' = DOMAIN jobs
      /\ \A n \in DOMAIN jobs : n # work[i].job => jobs'[n] = jobs[n]
      /\ RowsOf(jobs'[work[i].job]) = RowsOf(jobs[work[i].job])
      /\ jobs'[work[i].job].status = status
  BY <1>1, <1>2, EndedJob
<1>4. materialized' = materialized /\ work' = [work EXCEPT ![i] = NoJob]
  BY <1>1 DEF EndJob
<1>5. NoJob \in Work /\ NoJob.job = 0
  BY DEF NoJob, Work
<1>6. WorkOK(i)'
  BY <1>2, <1>4 DEF WorkOK
<1>7. ASSUME NEW n \in DOMAIN jobs, n \in {work[i].job, NoJob.job},
             jobs'[n].status = "completed"
      PROVE  RowsOf(jobs'[n]) \subseteq materialized'
  <2>1. n # 0 /\ n = work[i].job
    BY <1>5, <1>7 DEF IInv, Typed
  <2>2. work[i].todo = {} /\ ~work[i].issues
    BY <1>1, <1>3, <1>7, <2>1
  <2>3. RowsOf(jobs[n]) \ {} \subseteq materialized
    BY <1>2, <2>1, <2>2 DEF WorkOK
  <2> QED
    BY <1>3, <1>4, <2>1, <2>3
<1> QED
  BY <1>3, <1>4, <1>5, <1>6, <1>7, QueueKept

\* An instance that stops leaves its job running, and nobody works on it.
LEMMA StopKeepsQueue ==
    ASSUME IInv, NEW i \in Instance, Stop(i)
    PROVE  QueueOK'
<1>1. /\ work' = [work EXCEPT ![i] = NoJob] /\ jobs' = jobs /\ materialized' = materialized
      /\ jobs \in Seq(Job) /\ work \in [Instance -> Work]
  BY DEF Stop, documents, IInv, Typed
<1>2. NoJob \in Work /\ NoJob.job = 0
  BY DEF NoJob, Work
<1>3. WorkOK(i)'
  BY <1>1 DEF WorkOK
<1>4. \A n \in DOMAIN jobs : jobs'[n].status = "completed" => RowsOf(jobs'[n]) \subseteq materialized'
  BY <1>1 DEF IInv, CompletedJobsMaterialized
<1> QED
  BY <1>1, <1>2, <1>3, <1>4, QueueKept

LEMMA NextIInv == IInv /\ [Next]_vars => IInv'
<1> SUFFICES ASSUME IInv, [Next]_vars PROVE IInv'
  OBVIOUS
<1>0. Typed /\ \A d \in Client : CallOK(calls[d])
  BY DEF IInv
<1>1. ASSUME NEW c \in Client, CallStep(c) PROVE IInv'
  <2>1. CASE \/ \E r \in Request : Receive(c, r)
             \/ Abandon(c) \/ FindReplay(c) \/ FindEdited(c) \/ CheckClosed(c) \/ CheckRebuild(c)
             \/ ReadMode(c) \/ Reconcile(c) \/ ReadCurrentMode(c)
    <3>1. /\ calls' \in [Client -> {Idle} \cup Call] /\ \A d \in Client : CallOK(calls'[d])
          /\ UNCHANGED <<documents, work, stops>>
      BY <2>1, LookKeepsCalls
    <3> QED
      BY <3>1 DEF IInv, Typed, documents, WorkOK, OneInstancePerJob, CompletedJobsMaterialized
  <2>2. CASE \/ WriteMode(c) \/ WriteAdjustment(c) \/ WritePayout(c) \/ EditPayout(c)
             \/ WritePeriod(c) \/ WriteJob(c)
    BY <2>2, WriteKeepsTypes, WriteKeepsQueue DEF IInv, QueueOK
  <2> QED
    BY <1>1, <2>1, <2>2 DEF CallStep
<1>2. ASSUME NEW i \in Instance, RebuildStep(i) \/ Stop(i) PROVE IInv'
  <2>1. QueueOK'
    BY <1>2, ClaimKeepsQueue, TryKeepsQueue, EndKeepsQueue, StopKeepsQueue DEF RebuildStep
  <2>2. UNCHANGED <<periods, mode, payouts, calls>>
    BY <1>2 DEF RebuildStep, Claim, Materialize, CountIssue, Finish, FailJob, EndJob, Stop,
                documents
  <2>3. stops' \in 0 .. MaxStops
    BY <1>0, <1>2, ConstantsAssumption
       DEF Typed, RebuildStep, Claim, Materialize, CountIssue, Finish, FailJob, EndJob, Stop
  <2> QED
    BY <1>0, <2>1, <2>2, <2>3 DEF IInv, QueueOK, Typed
<1>3. CASE UNCHANGED vars
  BY <1>3 DEF IInv, Typed, vars, WorkOK, OneInstancePerJob, CompletedJobsMaterialized
<1> QED
  BY <1>1, <1>2, <1>3 DEF Next

\* The invariant holds of every behaviour.
THEOREM Invariance == Spec => []IInv
  BY InitIInv, NextIInv, PTL DEF Spec

\* The types hold in every reachable state.
THEOREM TypeCorrect == Spec => []TypeOK
<1>1. IInv => TypeOK
  <2> SUFFICES ASSUME IInv PROVE TypeOK
    OBVIOUS
  <2>1. Typed
    BY DEF IInv
  <2>2. \A n \in DOMAIN jobs : jobs[n].status \in {"queued", "running"} \cup FinalStatus
    <3>1. \A n \in DOMAIN jobs : jobs[n] \in Job
      BY <2>1 DEF Typed
    <3> QED
      BY <3>1 DEF Job, JobStatus, ActiveStatus
  <2>3. mode.mode \in Modes /\ mode.history \in Seq([previous : Modes, mode : Modes])
    BY <2>1 DEF Typed
  <2>4. \A s \in payouts : s.edits \in 0 .. MaxEdits
    BY <2>1 DEF Typed, Payout
  <2>5. \A c \in Client : calls[c].at \in Commands
    BY <2>1 DEF Typed, Idle, Call, Commands
  <2>6. ASSUME NEW i \in Instance
        PROVE  work[i].job \in 0 .. Len(jobs) /\ work[i].issues \in BOOLEAN
    <3>1. work[i] \in Work /\ jobs \in Seq(Job)
      BY <2>1 DEF Typed
    <3>2. work[i].job = 0 \/ work[i].job \in DOMAIN jobs
      BY WorkedJob
    <3> QED
      BY <3>1, <3>2 DEF Work
  <2> QED
    BY <2>1, <2>2, <2>3, <2>4, <2>5, <2>6 DEF Typed, TypeOK
<1> QED
  BY <1>1, Invariance, PTL

\* Two instances never process the same rebuild, however their claims and the
\* calls that queue rebuilds interleave.
THEOREM ExclusiveClaims == Spec => []OneInstancePerJob
<1>1. IInv => OneInstancePerJob
  BY DEF IInv
<1> QED
  BY <1>1, Invariance, PTL

\* A rebuild that reports completion has materialized its whole range.
THEOREM CompletionMeansMaterialized == Spec => []CompletedJobsMaterialized
<1>1. IInv => CompletedJobsMaterialized
  BY DEF IInv
<1> QED
  BY <1>1, Invariance, PTL

-----------------------------------------------------------------------------
(* How jobs change *)

Forward(old, new) ==
    /\ new.key = old.key /\ new.from = old.from /\ new.to = old.to
    /\ \/ new.status = old.status
       \/ old.status = "queued" /\ new.status = "running"
       \/ old.status = "running" /\ new.status \in FinalStatus

LEMMA InstanceMovesForward ==
    ASSUME IInv, NEW i \in Instance, RebuildStep(i) \/ Stop(i)
    PROVE  /\ DOMAIN jobs' = DOMAIN jobs
           /\ \A n \in DOMAIN jobs : Forward(jobs[n], jobs'[n])
<1>1. jobs \in Seq(Job)
  BY DEF IInv, Typed
<1>2. CASE UNCHANGED jobs
  BY <1>2 DEF Forward
<1>3. CASE Claim(i)
  <2>1. PICK n \in DOMAIN jobs : Claimable(n) /\ jobs' = [jobs EXCEPT ![n].status = "running"]
    BY <1>3 DEF Claim
  <2>2. jobs[n] \in Job /\ jobs[n].status = "queued"
    BY <1>1, <2>1 DEF Claimable
  <2>3. DOMAIN jobs' = DOMAIN jobs /\ \A m \in DOMAIN jobs : m # n => jobs'[m] = jobs[m]
    BY <1>1, <2>1
  <2>4. /\ jobs'[n].status = "running" /\ jobs'[n].key = jobs[n].key
        /\ jobs'[n].from = jobs[n].from /\ jobs'[n].to = jobs[n].to
    BY <1>1, <2>1, <2>2 DEF Job
  <2> QED
    BY <2>2, <2>3, <2>4 DEF Forward
<1>4. CASE Finish(i) \/ FailJob(i)
  <2>1. PICK status \in FinalStatus : EndJob(i, status)
    BY <1>4 DEF Finish, FailJob, FinalStatus
  <2>2. work[i] # NoJob
    BY <1>4 DEF Finish, FailJob
  <2> DEFINE n == work[i].job
  <2>3. n \in DOMAIN jobs /\ jobs[n] \in Job /\ jobs[n].status = "running"
    BY <2>2, WorkedJob
  <2>4. /\ DOMAIN jobs' = DOMAIN jobs
        /\ \A m \in DOMAIN jobs : m # n => jobs'[m] = jobs[m]
        /\ jobs'[n] = [jobs[n] EXCEPT !.status = status]
    BY <2>1, <2>2, EndedJob
  <2>5. /\ jobs'[n].status = status /\ jobs'[n].key = jobs[n].key
        /\ jobs'[n].from = jobs[n].from /\ jobs'[n].to = jobs[n].to
    BY <2>3, <2>4 DEF Job
  <2> QED
    BY <2>1, <2>3, <2>4, <2>5 DEF Forward
<1>5. Materialize(i) \/ CountIssue(i) \/ Stop(i) => UNCHANGED jobs
  BY DEF Materialize, CountIssue, Stop, documents
<1> QED
  BY <1>2, <1>3, <1>4, <1>5 DEF RebuildStep

\* What a call does to the queue: nothing, or a new job at its end.
LEMMA CallsAppend ==
    ASSUME IInv, NEW c \in Client, CallStep(c)
    PROVE  \/ jobs' = jobs
           \/ WriteJob(c) /\ jobs' = Append(jobs, [key |-> calls[c].request.key,
                 from |-> calls[c].request.from, to |-> calls[c].request.to, status |-> "queued"])
<1>1. CASE WriteJob(c)
  BY <1>1 DEF WriteJob, WithJob
<1>2. CASE ~WriteJob(c)
  BY <1>2 DEF CallStep, Receive, Abandon, FindReplay, FindEdited, CheckClosed, CheckRebuild,
       ReadMode, Reconcile, ReadCurrentMode, WriteMode, WriteAdjustment, WritePayout,
       EditPayout, WritePeriod, documents
<1> QED
  BY <1>1, <1>2

LEMMA StepMovesForward ==
    IInv /\ [Next]_vars => \A n \in DOMAIN jobs : Forward(jobs[n], jobs'[n])
<1> SUFFICES ASSUME IInv, [Next]_vars
             PROVE  \A n \in DOMAIN jobs : Forward(jobs[n], jobs'[n])
  OBVIOUS
<1>1. ASSUME NEW c \in Client, CallStep(c)
      PROVE  \A n \in DOMAIN jobs : jobs'[n] = jobs[n]
  <2>1. jobs \in Seq(Job)
    BY DEF IInv, Typed
  <2>2. ASSUME NEW job, jobs' = Append(jobs, job)
        PROVE  \A n \in DOMAIN jobs : jobs'[n] = jobs[n]
    BY <2>1, <2>2
  <2> QED
    BY <1>1, <2>2, CallsAppend
<1>2. CASE UNCHANGED vars
  BY <1>2 DEF vars, Forward
<1> QED
  BY <1>1, <1>2, InstanceMovesForward DEF Next, Forward

\* A rebuild is started once and ends once, whatever keys are asked for again.
THEOREM JobsNeverGoBack == Spec => JobsMoveForward
<1>1. IInv /\ [Next]_vars =>
         [\A n \in DOMAIN jobs :
            LET old == jobs[n]
                new == jobs'[n]
            IN  /\ new.key = old.key /\ new.from = old.from /\ new.to = old.to
                /\ \/ new.status = old.status
                   \/ old.status = "queued" /\ new.status = "running"
                   \/ old.status = "running" /\ new.status \in FinalStatus]_vars
  BY StepMovesForward DEF Forward
<1> QED
  BY <1>1, Invariance, PTL DEF Spec, JobsMoveForward

-----------------------------------------------------------------------------
(* What a call looked at stays clear *)

\* A job among the first k of a queue has not ended and overlaps the range.
Rebuilding(queue, k, r) ==
    \E n \in 1 .. k : queue[n].status \notin FinalStatus /\ Overlap(queue[n], r)

PastClosed(call) ==
    \/ call.at = "write" /\ call.request.op \in {"adjust", "queue"}
    \/ call.at \in {"rebuild?", "write"} /\ call.request.op \in {"settle", "edit"}

PastRebuild(call) ==
    \/ call.at = "write" /\ call.request.op \in {"settle", "edit", "close"}
    \/ /\ call.at \in {"reconcile", "current?", "write"}
       /\ call.request.op = "mode" /\ call.request.mode = "authoritative"

\* The range of a call is clear of what it found when it looked, and is the
\* range of the payout it edits.
CallClear(call) ==
    call # Idle =>
        /\ call.queued \in 0 .. Len(jobs)
        /\ PastClosed(call) => \A p \in call.closed : ~Overlap(p, call)
        /\ PastRebuild(call) => ~Rebuilding(jobs, call.queued, call)
        /\ call.at # "find" /\ call.request.op = "edit" =>
              \E s \in payouts : /\ s.key = call.request.key
                                 /\ s.from = call.from /\ s.to = call.to

OneRangePerKey ==
    \A s, t \in payouts : s.key = t.key => s.from = t.from /\ s.to = t.to

JobsClear ==
    /\ closedBefore \in Seq(SUBSET Period) /\ Len(closedBefore) = Len(jobs)
    /\ \A n \in DOMAIN jobs : \A p \in closedBefore[n] : ~Overlap(p, jobs[n])

PeriodsClear ==
    /\ DOMAIN queuedBefore = periods
    /\ \A p \in periods : /\ queuedBefore[p] \in 0 .. Len(jobs)
                          /\ ~Rebuilding(jobs, queuedBefore[p], p)

SealInv ==
    /\ \A c \in Client : CallClear(calls[c])
    /\ OneRangePerKey /\ JobsClear /\ PeriodsClear

LEMMA InitSealInv == Init => SealInv
<1> SUFFICES ASSUME Init PROVE SealInv
  OBVIOUS
<1>1. \A c \in Client : CallClear(calls[c])
  BY DEF Init, CallClear
<1>2. JobsClear /\ PeriodsClear /\ OneRangePerKey
  BY DEF Init, JobsClear, PeriodsClear, OneRangePerKey
<1> QED
  BY <1>1, <1>2 DEF SealInv

\* A range that no unfinished job overlapped stays so: jobs keep their ranges
\* and do not start again.
LEMMA StaysClear ==
    ASSUME IInv, [Next]_vars
    PROVE  /\ jobs' \in Seq(Job) /\ Len(jobs) \in Nat /\ Len(jobs') \in Nat
           /\ Len(jobs) <= Len(jobs')
           /\ \A k \in 0 .. Len(jobs) : \A r :
                 Rebuilding(jobs', k, r) => Rebuilding(jobs, k, r)
<1>1. jobs \in Seq(Job) /\ jobs' \in Seq(Job)
  BY NextIInv DEF IInv, Typed
<1>2. Len(jobs) <= Len(jobs')
  <2>1. ASSUME NEW c \in Client, CallStep(c) PROVE Len(jobs) <= Len(jobs')
    <3>1. ASSUME NEW job, jobs' = Append(jobs, job) PROVE Len(jobs) <= Len(jobs')
      <4>1. Len(Append(jobs, job)) = Len(jobs) + 1 /\ Len(jobs) \in Nat
        BY <1>1
      <4> QED
        BY <3>1, <4>1
    <3>2. CASE jobs' = jobs
      BY <1>1, <3>2
    <3> QED
      BY <2>1, <3>1, <3>2, CallsAppend, Zenon
  <2>2. ASSUME NEW i \in Instance, RebuildStep(i) \/ Stop(i) PROVE Len(jobs) <= Len(jobs')
    BY <1>1, <2>2, InstanceMovesForward
  <2> QED
    BY <1>1, <2>1, <2>2 DEF Next, vars
<1>3. \A n \in DOMAIN jobs : Forward(jobs[n], jobs'[n])
  BY StepMovesForward
<1>4. ASSUME NEW k \in 0 .. Len(jobs), NEW r, Rebuilding(jobs', k, r)
      PROVE  Rebuilding(jobs, k, r)
  <2>1. PICK n \in 1 .. k : jobs'[n].status \notin FinalStatus /\ Overlap(jobs'[n], r)
    BY <1>4 DEF Rebuilding
  <2>2. n \in DOMAIN jobs
    BY <1>1, <2>1
  <2>3. jobs[n].status \notin FinalStatus /\ Overlap(jobs[n], r)
    BY <1>3, <2>1, <2>2 DEF Forward, FinalStatus, Overlap
  <2> QED
    BY <2>3 DEF Rebuilding
<1> QED
  BY <1>1, <1>2, <1>4

\* A payout keeps its key and range, and no other payout gets the key.
LEMMA PayoutsKept ==
    ASSUME IInv, OneRangePerKey, [Next]_vars
    PROVE  /\ OneRangePerKey'
           /\ \A s \in payouts : \E t \in payouts' :
                 t.key = s.key /\ t.from = s.from /\ t.to = s.to
<1> DEFINE Kept == \A s \in payouts : \E t \in payouts' :
                      t.key = s.key /\ t.from = s.from /\ t.to = s.to
<1>1. CASE UNCHANGED payouts
  BY <1>1 DEF OneRangePerKey
<1>2. ASSUME NEW c \in Client, WritePayout(c) PROVE OneRangePerKey' /\ Kept
  <2> DEFINE r == calls[c].request
             new == [key |-> r.key, from |-> r.from, to |-> r.to, edits |-> 0]
  <2>1. \/ (\A s \in payouts : s.key # r.key) /\ payouts' = payouts \cup {new}
        \/ payouts' = payouts
    BY <1>2 DEF WritePayout
  <2>2. new.key = r.key
    OBVIOUS
  <2> HIDE DEF new, r
  <2> QED
    BY <2>1, <2>2 DEF OneRangePerKey
<1>3. ASSUME NEW c \in Client, EditPayout(c) PROVE OneRangePerKey' /\ Kept
  <2>1. PICK s \in payouts : payouts' = IF s.edits < MaxEdits
                                          THEN (payouts \ {s}) \cup {[s EXCEPT !.edits = @ + 1]}
                                          ELSE payouts
    BY <1>3 DEF EditPayout
  <2> DEFINE edited == [s EXCEPT !.edits = @ + 1]
  <2>2. s \in Payout
    BY DEF IInv, Typed
  <2>3. edited.key = s.key /\ edited.from = s.from /\ edited.to = s.to
    BY <2>2 DEF Payout
  <2>4. payouts' = payouts \/ payouts' = (payouts \ {s}) \cup {edited}
    BY <2>1
  <2> HIDE DEF edited
  <2>5. OneRangePerKey'
    BY <2>3, <2>4 DEF OneRangePerKey
  <2>6. Kept
    BY <2>3, <2>4
  <2> QED
    BY <2>5, <2>6
<1>4. \/ UNCHANGED payouts
      \/ \E c \in Client : WritePayout(c) \/ EditPayout(c)
  BY ZenonT(60)
     DEF Next, vars, CallStep, RebuildStep, Receive, Abandon, FindReplay, FindEdited,
         CheckClosed, CheckRebuild, ReadMode, Reconcile, ReadCurrentMode, WriteMode,
         WriteAdjustment, WritePeriod, WriteJob, Claim, Materialize, CountIssue, Finish, FailJob,
         EndJob, Stop, documents
<1> QED
  BY <1>1, <1>2, <1>3, <1>4

\* A call that does not take the step stays clear.
LEMMA OthersStayClear ==
    ASSUME IInv, OneRangePerKey, [Next]_vars, NEW c \in Client, CallClear(calls[c]),
           calls'[c] = calls[c]
    PROVE  CallClear(calls[c])'
<1> DEFINE call == calls[c]
<1>1. CASE call = Idle
  BY <1>1 DEF CallClear
<1>2. CASE call # Idle
  <2>1. /\ call.queued \in 0 .. Len(jobs)
        /\ PastClosed(call) => \A p \in call.closed : ~Overlap(p, call)
        /\ PastRebuild(call) => ~Rebuilding(jobs, call.queued, call)
        /\ call.at # "find" /\ call.request.op = "edit" =>
              \E s \in payouts : /\ s.key = call.request.key
                                 /\ s.from = call.from /\ s.to = call.to
    BY <1>2 DEF CallClear
  <2>2. call.queued \in 0 .. Len(jobs')
    BY <2>1, StaysClear
  <2>3. PastRebuild(call) => ~Rebuilding(jobs', call.queued, call)
    BY <2>1, StaysClear
  <2>4. call.at # "find" /\ call.request.op = "edit" =>
              \E s \in payouts' : /\ s.key = call.request.key
                                  /\ s.from = call.from /\ s.to = call.to
    BY <2>1, PayoutsKept
  <2> HIDE DEF call
  <2>5. calls'[c] = call
    BY DEF call
  <2> QED
    BY <2>1, <2>2, <2>3, <2>4, <2>5 DEF CallClear, PastClosed, PastRebuild
<1> QED
  BY <1>1, <1>2

\* Ranges with the same days overlap the same ranges.
LEMMA SameDays ==
    ASSUME NEW r, NEW s, r.from = s.from, r.to = s.to
    PROVE  /\ \A p : Overlap(p, r) <=> Overlap(p, s)
           /\ \A queue, k : Rebuilding(queue, k, r) <=> Rebuilding(queue, k, s)
           /\ ClosedOverlap(r) <=> ClosedOverlap(s)
  BY DEF Overlap, Rebuilding, ClosedOverlap

\* The answer of the rebuild check, in terms of the whole queue.
LEMMA ClearQueue ==
    ASSUME IInv, NEW r
    PROVE  RebuildOverlap(r) <=> Rebuilding(jobs, Len(jobs), r)
<1>1. jobs \in Seq(Job)
  BY DEF IInv, Typed
<1>2. \A n \in DOMAIN jobs : jobs[n].status \in ActiveStatus <=> jobs[n].status \notin FinalStatus
  <2>1. \A n \in DOMAIN jobs : jobs[n] \in Job
    BY <1>1
  <2>2. \A job \in Job : job.status \in ActiveStatus <=> job.status \notin FinalStatus
    BY DEF Job, JobStatus, ActiveStatus, FinalStatus
  <2> QED
    BY <2>1, <2>2
<1>3. DOMAIN jobs = 1 .. Len(jobs)
  BY <1>1
<1>4. RebuildOverlap(r) <=>
        \E n \in DOMAIN jobs : jobs[n].status \notin FinalStatus /\ Overlap(jobs[n], r)
  BY <1>2, Zenon DEF RebuildOverlap
<1> QED
  BY <1>3, <1>4, Zenon DEF Rebuilding

\* A command that only looks leaves its call clear: a check that passes is
\* remembered with what it found.
LEMMA LookStaysClear ==
    ASSUME IInv, SealInv, NEW c \in Client,
           \/ \E r \in Request : Receive(c, r)
           \/ Abandon(c) \/ FindReplay(c) \/ FindEdited(c) \/ CheckClosed(c) \/ CheckRebuild(c)
           \/ ReadMode(c) \/ Reconcile(c) \/ ReadCurrentMode(c)
    PROVE  CallClear(calls[c])'
<1>0. /\ Typed /\ CallOK(calls[c]) /\ CallClear(calls[c])
      /\ calls \in [Client -> {Idle} \cup Call] /\ Len(jobs) \in Nat
  BY DEF IInv, SealInv, Typed
<1>1. jobs' = jobs /\ payouts' = payouts
  BY LookKeepsCalls DEF documents
<1>2. SUFFICES CallClear(calls'[c])
  BY <1>1, <1>2 DEF CallClear
<1>3. CASE calls'[c] = Idle
  BY <1>3 DEF CallClear
<1>4. \A call : calls' = [calls EXCEPT ![c] = call] => calls'[c] = call
  BY <1>0
<1>5. ASSUME calls[c] # Idle
      PROVE  /\ calls[c] \in Call /\ calls[c].request \in Request
             /\ calls[c].at \in CommandsOf(calls[c].request.op)
             /\ calls[c].request.op \in {"adjust", "settle", "edit", "close", "queue", "mode"}
  BY <1>0, <1>5, ConstantsAssumption DEF Call, CallOK
<1>6. ASSUME NEW command, At(c, command), command # "idle" PROVE calls[c] # Idle
  BY <1>6 DEF At, Idle
<1>7. Answer(c) => calls'[c] = Idle
  BY <1>0 DEF Answer
\* A call that goes on leaves everything else of it.
<1>8. ASSUME NEW command \in Commands \ {"idle"}, calls[c] \in Call, Continue(c, command)
      PROVE  /\ calls'[c].at = command
             /\ calls'[c].request = calls[c].request
             /\ calls'[c].from = calls[c].from /\ calls'[c].to = calls[c].to
             /\ calls'[c].closed = calls[c].closed /\ calls'[c].queued = calls[c].queued
  <2>1. calls'[c] = [calls[c] EXCEPT !.at = command]
    BY <1>0, <1>8 DEF Continue
  <2> QED
    BY <1>8, <2>1 DEF Call
<1>10. ASSUME NEW r \in Request, Receive(c, r) PROVE CallClear(calls'[c])
  <2> DEFINE call == calls'[c]
  <2>1. call = [at |-> FirstCommand(r), request |-> r, from |-> r.from, to |-> r.to,
                seen |-> "none", closed |-> periods, queued |-> Len(jobs)]
    BY <1>4, <1>10 DEF Receive
  <2>2. /\ FirstCommand(r) \notin {"write", "reconcile", "current?"}
        /\ r.op \in {"settle", "edit"} => FirstCommand(r) = "find"
    BY ConstantsAssumption DEF FirstCommand
  <2>3. call.at = FirstCommand(r) /\ call.request = r /\ call.queued = Len(jobs)
    BY <2>1
  <2> HIDE DEF call
  <2>4. ~PastClosed(call) /\ ~PastRebuild(call)
    BY <2>2, <2>3 DEF PastClosed, PastRebuild
  <2> QED
    BY <1>0, <2>2, <2>3, <2>4 DEF CallClear, call
<1>11. CASE Abandon(c)
  BY <1>3, <1>7, <1>11 DEF Abandon
<1>12. CASE FindReplay(c)
  <2>1. calls[c] \in Call /\ calls[c] # Idle /\ calls[c].request.op = "settle"
    BY <1>5, <1>6, <1>12 DEF FindReplay
  <2>2. CASE Continue(c, "closed?")
    BY <1>0, <1>8, <2>1, <2>2 DEF Commands, CallClear, PastClosed, PastRebuild
  <2> QED
    BY <1>3, <1>7, <1>12, <2>2 DEF FindReplay
<1>13. CASE FindEdited(c)
  <2>1. calls[c] \in Call /\ calls[c] # Idle /\ calls[c].request.op = "edit"
    BY <1>5, <1>6, <1>13 DEF FindEdited
  <2>2. ASSUME NEW s \in payouts, s.key = calls[c].request.key,
               calls' = [calls EXCEPT ![c].at = "closed?", ![c].from = s.from, ![c].to = s.to]
        PROVE  CallClear(calls'[c])
    <3>1. calls'[c] = [calls[c] EXCEPT !.at = "closed?", !.from = s.from, !.to = s.to]
      BY <1>0, <2>2
    <3>2. /\ calls'[c].at = "closed?" /\ calls'[c].request = calls[c].request
          /\ calls'[c].from = s.from /\ calls'[c].to = s.to
          /\ calls'[c].queued = calls[c].queued
      BY <2>1, <3>1 DEF Call
    <3> QED
      BY <1>0, <2>1, <2>2, <3>2 DEF CallClear, PastClosed, PastRebuild
  <2> QED
    BY <1>3, <1>7, <1>13, <2>2 DEF FindEdited
<1>14. CASE CheckClosed(c)
  <2>1. calls[c] \in Call /\ calls[c].at = "closed?" /\ calls[c] # Idle
    BY <1>5, <1>6, <1>14 DEF CheckClosed, At
  <2>2. calls[c].request.op \in {"adjust", "settle", "edit", "queue"}
    BY <1>5, <2>1 DEF CommandsOf
  <2> DEFINE command == AfterClosed(calls[c].request)
             call == calls'[c]
  <2>3. CASE /\ ~ClosedOverlap(calls[c])
             /\ calls' = [calls EXCEPT ![c].at = command, ![c].closed = periods]
    <3>1. calls'[c] = [calls[c] EXCEPT !.at = command, !.closed = periods]
      BY <1>0, <2>3
    <3>2. /\ call.at = command /\ call.request = calls[c].request
          /\ call.from = calls[c].from /\ call.to = calls[c].to
          /\ call.closed = periods /\ call.queued = calls[c].queued
      BY <2>1, <3>1 DEF Call
    <3>3. \A p \in call.closed : ~Overlap(p, call)
      BY <2>3, <3>2, SameDays DEF ClosedOverlap
    <3>4. ~PastRebuild(call)
      <4>1. call.request.op \in {"settle", "edit"} => call.at = "rebuild?"
        BY <3>2 DEF AfterClosed
      <4> QED
        BY <2>2, <3>2, <4>1 DEF PastRebuild
    <3> HIDE DEF call
    <3> QED
      BY <1>0, <2>1, <3>2, <3>3, <3>4 DEF CallClear, call
  <2> QED
    BY <1>3, <1>7, <1>14, <2>3 DEF CheckClosed
<1>15. CASE CheckRebuild(c)
  <2>1. calls[c] \in Call /\ calls[c].at = "rebuild?" /\ calls[c] # Idle
    BY <1>5, <1>6, <1>15 DEF CheckRebuild, At
  <2>2. calls[c].request.op \in {"settle", "edit", "close", "mode"}
    BY <1>5, <2>1 DEF CommandsOf
  <2> DEFINE command == AfterRebuild(calls[c].request)
             call == calls'[c]
  <2>3. CASE /\ ~RebuildOverlap(calls[c])
             /\ calls' = [calls EXCEPT ![c].at = command, ![c].queued = Len(jobs)]
    <3>1. calls'[c] = [calls[c] EXCEPT !.at = command, !.queued = Len(jobs)]
      BY <1>0, <2>3
    <3>2. /\ call.request = calls[c].request
          /\ call.at = command /\ command # "find"
          /\ call.from = calls[c].from /\ call.to = calls[c].to
          /\ call.closed = calls[c].closed /\ call.queued = Len(jobs)
      BY <2>1, <3>1 DEF Call, AfterRebuild
    <3>3. ~Rebuilding(jobs, call.queued, call)
      <4>1. ~Rebuilding(jobs, Len(jobs), calls[c])
        BY <2>3, ClearQueue
      <4> HIDE DEF call
      <4>2. ~Rebuilding(jobs, Len(jobs), call)
        BY <3>2, <4>1, SameDays
      <4> QED
        BY <3>2, <4>2
    <3>4. PastClosed(call) => \A p \in call.closed : ~Overlap(p, call)
      <4>1. PastClosed(call) => PastClosed(calls[c])
        BY <2>1, <2>2, <3>2 DEF PastClosed
      <4> QED
        BY <1>0, <2>1, <3>2, <4>1, SameDays DEF CallClear
    <3> HIDE DEF call
    <3> QED
      BY <1>0, <2>1, <3>2, <3>3, <3>4 DEF CallClear, call
  <2> QED
    BY <1>3, <1>7, <1>15, <2>3 DEF CheckRebuild
<1>16. CASE ReadMode(c)
  <2>1. calls[c] \in Call /\ calls[c] # Idle /\ calls[c].at = "mode?"
    BY <1>5, <1>6, <1>16 DEF ReadMode, At
  <2>2. calls[c].request.op = "mode"
    BY <1>5, <2>1 DEF CommandsOf
  <2>3. CASE Continue(c, "rebuild?")
    BY <1>0, <1>8, <2>1, <2>2, <2>3 DEF Commands, CallClear, PastClosed, PastRebuild
  <2>4. CASE calls[c].request.mode # "authoritative" /\ Continue(c, "current?")
    BY <1>0, <1>8, <2>1, <2>2, <2>4 DEF Commands, CallClear, PastClosed, PastRebuild
  <2>5. \/ Answer(c) \/ Continue(c, "rebuild?")
        \/ calls[c].request.mode # "authoritative" /\ Continue(c, "current?")
    BY <1>16 DEF ReadMode
  <2> QED
    BY <1>3, <1>7, <2>3, <2>4, <2>5
<1>17. CASE Reconcile(c)
  <2>1. calls[c] \in Call /\ calls[c] # Idle /\ calls[c].at = "reconcile"
    BY <1>5, <1>6, <1>17 DEF Reconcile, At
  <2>2. calls[c].request.op = "mode"
    BY <1>5, <2>1 DEF CommandsOf
  <2> DEFINE call == calls'[c]
  <2>3. CASE Continue(c, "current?")
    <3>1. /\ call.at = "current?" /\ call.request = calls[c].request
          /\ call.from = calls[c].from /\ call.to = calls[c].to
          /\ call.queued = calls[c].queued
      BY <1>8, <2>1, <2>3 DEF Commands
    <3>2. ~PastClosed(call)
      BY <2>2, <3>1 DEF PastClosed
    <3>3. PastRebuild(call) => ~Rebuilding(jobs, call.queued, call)
      <4>1. PastRebuild(call) => PastRebuild(calls[c])
        BY <2>1, <2>2, <3>1 DEF PastRebuild
      <4> QED
        BY <1>0, <2>1, <3>1, <4>1, SameDays DEF CallClear
    <3> HIDE DEF call
    <3> QED
      BY <1>0, <2>1, <2>2, <3>1, <3>2, <3>3 DEF CallClear, call
  <2> QED
    BY <1>3, <1>7, <1>17, <2>3 DEF Reconcile
<1>18. CASE ReadCurrentMode(c)
  <2>1. calls[c] \in Call /\ calls[c] # Idle /\ calls[c].at = "current?"
    BY <1>5, <1>6, <1>18 DEF ReadCurrentMode, At
  <2>2. calls[c].request.op = "mode"
    BY <1>5, <2>1 DEF CommandsOf
  <2> DEFINE call == calls'[c]
  <2>3. CASE calls' = [calls EXCEPT ![c].at = "write", ![c].seen = mode.mode]
    <3>0. call = [calls[c] EXCEPT !.at = "write", !.seen = mode.mode]
      BY <1>0, <2>3
    <3>1. /\ call.at = "write" /\ call.request = calls[c].request
          /\ call.from = calls[c].from /\ call.to = calls[c].to
          /\ call.queued = calls[c].queued
      BY <2>1, <3>0 DEF Call
    <3>2. ~PastClosed(call)
      BY <2>2, <3>1 DEF PastClosed
    <3>3. PastRebuild(call) => ~Rebuilding(jobs, call.queued, call)
      <4>1. PastRebuild(call) => PastRebuild(calls[c])
        BY <2>1, <2>2, <3>1 DEF PastRebuild
      <4> QED
        BY <1>0, <2>1, <3>1, <4>1, SameDays DEF CallClear
    <3> HIDE DEF call
    <3> QED
      BY <1>0, <2>1, <2>2, <3>1, <3>2, <3>3 DEF CallClear, call
  <2> QED
    BY <1>3, <1>7, <1>18, <2>3 DEF ReadCurrentMode
<1> QED
  BY <1>10, <1>11, <1>12, <1>13, <1>14, <1>15, <1>16, <1>17, <1>18

\* A step of one call leaves the other calls, and a step of an instance all.
LEMMA StepKeepsCallsClear ==
    ASSUME IInv, SealInv, [Next]_vars
    PROVE  \A c \in Client : CallClear(calls[c])'
<1>0. calls \in [Client -> {Idle} \cup Call]
  BY DEF IInv, Typed
<1>1. ASSUME NEW c \in Client, calls'[c] = calls[c] PROVE CallClear(calls[c])'
  BY <1>1, OthersStayClear DEF SealInv
<1>2. ASSUME NEW d \in Client, CallStep(d) PROVE \A c \in Client : CallClear(calls[c])'
  <2>1. \A c \in Client : c # d => calls'[c] = calls[c]
    BY <1>0, <1>2
       DEF CallStep, Receive, Abandon, FindReplay, FindEdited, CheckClosed, CheckRebuild,
           ReadMode, Reconcile, ReadCurrentMode, WriteMode, WriteAdjustment, WritePayout,
           EditPayout, WritePeriod, WriteJob, Answer, Continue
  <2>2. CASE \/ \E r \in Request : Receive(d, r)
             \/ Abandon(d) \/ FindReplay(d) \/ FindEdited(d) \/ CheckClosed(d) \/ CheckRebuild(d)
             \/ ReadMode(d) \/ Reconcile(d) \/ ReadCurrentMode(d)
    BY <1>1, <2>1, <2>2, LookStaysClear
  <2>3. CASE \/ WriteMode(d) \/ WriteAdjustment(d) \/ WritePayout(d) \/ EditPayout(d)
             \/ WritePeriod(d) \/ WriteJob(d)
    <3>1. calls'[d] = Idle
      BY <1>0, <2>3 DEF WriteMode, WriteAdjustment, WritePayout, EditPayout, WritePeriod,
                        WriteJob, Answer
    <3>2. CallClear(calls[d])'
      BY <3>1 DEF CallClear
    <3> QED
      BY <1>1, <2>1, <3>2
  <2> QED
    BY <1>2, <2>2, <2>3 DEF CallStep
<1>3. ASSUME NEW i \in Instance, RebuildStep(i) \/ Stop(i)
      PROVE  \A c \in Client : CallClear(calls[c])'
  <2>1. calls' = calls
    BY <1>3 DEF RebuildStep, Claim, Materialize, CountIssue, Finish, FailJob, EndJob, Stop
  <2> QED
    BY <1>1, <2>1
<1>4. CASE UNCHANGED vars
  BY <1>1, <1>4 DEF vars
<1> QED
  BY <1>2, <1>3, <1>4 DEF Next

\* A job is written with what its request found closed.
LEMMA StepKeepsJobsClear ==
    ASSUME IInv, SealInv, [Next]_vars
    PROVE  JobsClear'
<1>0. /\ jobs \in Seq(Job) /\ jobs' \in Seq(Job)
      /\ closedBefore \in Seq(SUBSET Period) /\ Len(closedBefore) = Len(jobs)
      /\ \A n \in DOMAIN jobs : \A p \in closedBefore[n] : ~Overlap(p, jobs[n])
  BY StaysClear DEF IInv, Typed, SealInv, JobsClear
<1>1. ASSUME closedBefore' = closedBefore, DOMAIN jobs' = DOMAIN jobs PROVE JobsClear'
  <2>1. \A n \in DOMAIN jobs : jobs'[n].from = jobs[n].from /\ jobs'[n].to = jobs[n].to
    BY StepMovesForward DEF Forward
  <2>2. Len(jobs') = Len(jobs)
    BY <1>0, <1>1
  <2>3. \A n \in DOMAIN jobs : \A p \in closedBefore[n] : ~Overlap(p, jobs'[n])
    BY <1>0, <2>1 DEF Overlap
  <2> QED
    BY <1>0, <1>1, <2>2, <2>3 DEF JobsClear
<1>2. ASSUME NEW c \in Client, WriteJob(c) PROVE JobsClear'
  <2> DEFINE call == calls[c]
             r == call.request
             job == [key |-> r.key, from |-> r.from, to |-> r.to, status |-> "queued"]
  <2>1. /\ call # Idle /\ call \in Call /\ call.at = "write" /\ r.op = "queue"
        /\ CallOK(call) /\ CallClear(call)
    BY <1>2 DEF WriteJob, At, Idle, IInv, SealInv, Typed
  <2>2. \A p \in call.closed : ~Overlap(p, call)
    BY <2>1 DEF CallClear, PastClosed
  <2>3. call.closed \in SUBSET Period /\ call.from = r.from /\ call.to = r.to
    BY <2>1 DEF CallOK, Call
  <2>4. job.from = call.from /\ job.to = call.to
    BY <2>3
  <2>5. jobs' = jobs \/ jobs' = Append(jobs, job)
    BY <1>2 DEF WriteJob, WithJob
  <2>6. closedBefore' = IF Len(jobs') > Len(jobs) THEN Append(closedBefore, call.closed)
                        ELSE closedBefore
    BY <1>2 DEF WriteJob
  <2> HIDE DEF job, r, call
  <2>7. CASE jobs' = jobs
    <3>1. closedBefore' = closedBefore
      BY <1>0, <2>6, <2>7
    <3> QED
      BY <1>1, <2>7, <3>1
  <2>8. CASE jobs' = Append(jobs, job)
    <3>1. /\ Len(jobs) \in Nat /\ Len(jobs') = Len(jobs) + 1
          /\ DOMAIN jobs' = DOMAIN jobs \cup {Len(jobs) + 1}
          /\ jobs'[Len(jobs) + 1] = job /\ \A n \in DOMAIN jobs : jobs'[n] = jobs[n]
      BY <1>0, <2>8
    <3>2. closedBefore' = Append(closedBefore, call.closed)
      BY <2>6, <3>1
    <3>3. /\ closedBefore' \in Seq(SUBSET Period) /\ Len(closedBefore') = Len(jobs) + 1
          /\ closedBefore'[Len(jobs) + 1] = call.closed
          /\ \A n \in DOMAIN jobs : closedBefore'[n] = closedBefore[n]
      BY <1>0, <2>3, <3>2
    <3>4. \A p \in call.closed : ~Overlap(p, job)
      BY <2>2, <2>4 DEF Overlap
    <3>5. \A n \in DOMAIN jobs' : \A p \in closedBefore'[n] : ~Overlap(p, jobs'[n])
      BY <1>0, <3>1, <3>3, <3>4
    <3> QED
      BY <3>1, <3>3, <3>5 DEF JobsClear
  <2> QED
    BY <2>5, <2>7, <2>8
<1>3. ASSUME NEW c \in Client, CallStep(c), ~WriteJob(c) PROVE JobsClear'
  <2>1. closedBefore' = closedBefore
    BY <1>3 DEF CallStep, Receive, Abandon, FindReplay, FindEdited, CheckClosed, CheckRebuild,
       ReadMode, Reconcile, ReadCurrentMode, WriteMode, WriteAdjustment, WritePayout,
       EditPayout, WritePeriod, documents, history
  <2>2. jobs' = jobs
    BY <1>3, CallsAppend
  <2> QED
    BY <1>1, <2>1, <2>2
<1>4. ASSUME NEW i \in Instance, RebuildStep(i) \/ Stop(i) PROVE JobsClear'
  <2>1. closedBefore' = closedBefore
    BY <1>4 DEF RebuildStep, Claim, Materialize, CountIssue, Finish, FailJob, EndJob, Stop,
                documents, history
  <2> QED
    BY <1>1, <1>4, <2>1, InstanceMovesForward
<1>5. CASE UNCHANGED vars
  BY <1>1, <1>5 DEF vars
<1> QED
  BY <1>2, <1>3, <1>4, <1>5 DEF Next

\* A period is closed with what its request found in the queue.
LEMMA StepKeepsPeriodsClear ==
    ASSUME IInv, SealInv, [Next]_vars
    PROVE  PeriodsClear'
<1>0. /\ DOMAIN queuedBefore = periods
      /\ \A p \in periods : /\ queuedBefore[p] \in 0 .. Len(jobs)
                            /\ ~Rebuilding(jobs, queuedBefore[p], p)
  BY DEF SealInv, PeriodsClear
<1>1. \A p \in periods : /\ queuedBefore[p] \in 0 .. Len(jobs')
                         /\ ~Rebuilding(jobs', queuedBefore[p], p)
  BY <1>0, StaysClear
<1>2. CASE UNCHANGED <<periods, queuedBefore>>
  BY <1>0, <1>1, <1>2 DEF PeriodsClear
<1>3. ASSUME NEW c \in Client, WritePeriod(c) PROVE PeriodsClear'
  <2> DEFINE call == calls[c]
             r == call.request
             period == [kind |-> r.kind, from |-> r.from, to |-> r.to]
  <2>1. /\ call # Idle /\ call.at = "write" /\ r.op = "close"
        /\ CallOK(call) /\ CallClear(call)
    BY <1>3 DEF WritePeriod, At, Idle, IInv, SealInv
  <2>2. call.queued \in 0 .. Len(jobs) /\ ~Rebuilding(jobs, call.queued, call)
    BY <2>1 DEF CallClear, PastRebuild
  <2>3. period.from = call.from /\ period.to = call.to
    BY <2>1 DEF CallOK
  <2>4. /\ periods' = periods \cup {period} /\ jobs' = jobs
        /\ queuedBefore' = [p \in periods' |-> IF p \in periods THEN queuedBefore[p]
                                               ELSE call.queued]
    BY <1>3 DEF WritePeriod, WithPeriod
  <2> HIDE DEF period, r, call
  <2>5. ~Rebuilding(jobs, call.queued, period)
    BY <2>2, <2>3, SameDays
  <2>6. \A p \in periods' : queuedBefore'[p] = IF p \in periods THEN queuedBefore[p] ELSE call.queued
    BY <2>4
  <2>7. \A p \in periods' : /\ queuedBefore'[p] \in 0 .. Len(jobs)
                            /\ ~Rebuilding(jobs, queuedBefore'[p], p)
    BY <1>0, <2>2, <2>4, <2>5, <2>6
  <2> QED
    BY <2>4, <2>7 DEF PeriodsClear
<1>4. \/ UNCHANGED <<periods, queuedBefore>>
      \/ \E c \in Client : WritePeriod(c)
  BY ZenonT(60)
     DEF Next, vars, CallStep, RebuildStep, Receive, Abandon, FindReplay, FindEdited,
         CheckClosed, CheckRebuild, ReadMode, Reconcile, ReadCurrentMode, WriteMode,
         WriteAdjustment, WritePayout, EditPayout, WriteJob, Claim, Materialize, CountIssue,
         Finish, FailJob, EndJob, Stop, documents, history
<1> QED
  BY <1>2, <1>3, <1>4

LEMMA SealInvariance == Spec => [](IInv /\ SealInv)
<1>1. IInv /\ SealInv /\ [Next]_vars => SealInv'
  BY StepKeepsCallsClear, StepKeepsJobsClear, StepKeepsPeriodsClear, PayoutsKept DEF SealInv
<1> QED
  BY <1>1, InitIInv, NextIInv, InitSealInv, PTL DEF Spec

-----------------------------------------------------------------------------
(* What gets written *)

\* Only the client whose call is answered wrote.
LEMMA Writer ==
    ASSUME IInv, [Next]_vars, NEW c \in Client, calls'[c] # calls[c]
    PROVE  /\ CallStep(c)
           /\ adjustments' # adjustments => WriteAdjustment(c)
           /\ payouts' # payouts => WritePayout(c) \/ EditPayout(c)
           /\ periods' # periods => WritePeriod(c)
           /\ mode' # mode => WriteMode(c)
<1>0. calls \in [Client -> {Idle} \cup Call]
  BY DEF IInv, Typed
<1>1. ASSUME NEW d \in Client, CallStep(d) PROVE d = c
  BY <1>0, <1>1
     DEF CallStep, Receive, Abandon, FindReplay, FindEdited, CheckClosed, CheckRebuild,
         ReadMode, Reconcile, ReadCurrentMode, WriteMode, WriteAdjustment, WritePayout,
         EditPayout, WritePeriod, WriteJob, Answer, Continue
<1>2. \A i \in Instance : RebuildStep(i) \/ Stop(i) => calls' = calls
  BY DEF RebuildStep, Claim, Materialize, CountIssue, Finish, FailJob, EndJob, Stop
<1>3. CallStep(c)
  BY <1>1, <1>2 DEF Next, vars
<1>4. /\ adjustments' # adjustments => WriteAdjustment(c)
      /\ payouts' # payouts => WritePayout(c) \/ EditPayout(c)
      /\ periods' # periods => WritePeriod(c)
      /\ mode' # mode => WriteMode(c)
  BY <1>3
     DEF CallStep, Receive, Abandon, FindReplay, FindEdited, CheckClosed, CheckRebuild,
         ReadMode, Reconcile, ReadCurrentMode, WriteMode, WriteAdjustment, WritePayout,
         EditPayout, WritePeriod, WriteJob, documents
<1> QED
  BY <1>3, <1>4

\* A call at its write, and what it found when it looked.
LEMMA Written ==
    ASSUME IInv, SealInv, NEW c \in Client, calls[c].at = "write"
    PROVE  LET call == calls[c]
               r == call.request
           IN  /\ call \in Call /\ r \in Request /\ r.from \in Nat /\ r.to \in Nat /\ r.from <= r.to
               /\ r.op # "edit" => call.from = r.from /\ call.to = r.to
               /\ r.op \in {"adjust", "settle", "edit"} =>
                     \A p \in call.closed : ~Overlap(p, call)
               /\ r.op \in {"settle", "edit", "close"} => ~Rebuilding(jobs, call.queued, call)
               /\ r.op = "mode" /\ r.mode = "authoritative" =>
                     ~Rebuilding(jobs, call.queued, call)
<1>1. /\ calls[c] # Idle /\ calls[c] \in Call /\ CallOK(calls[c]) /\ CallClear(calls[c])
  BY DEF Idle, IInv, SealInv, Typed
<1>2. LET r == calls[c].request
      IN  r \in Request /\ r.from \in Nat /\ r.to \in Nat /\ r.from <= r.to
  BY <1>1, ConstantsAssumption DEF Call
<1> QED
  BY <1>1, <1>2 DEF CallOK, CallClear, PastClosed, PastRebuild

\* The range of a payout that is made or edited is the range its call checked.
LEMMA PaidRange ==
    ASSUME IInv, SealInv, NEW c \in Client, WritePayout(c) \/ EditPayout(c),
           NEW s \in payouts' \ payouts
    PROVE  /\ calls[c].at = "write" /\ calls[c].request.op \in {"settle", "edit"}
           /\ s.from = calls[c].from /\ s.to = calls[c].to
<1> DEFINE r == calls[c].request
<1>1. CASE WritePayout(c)
  <2>1. calls[c].at = "write" /\ r.op = "settle"
    BY <1>1 DEF WritePayout, At
  <2>2. calls[c].from = r.from /\ calls[c].to = r.to
    BY <2>1, Written
  <2>3. s = [key |-> r.key, from |-> r.from, to |-> r.to, edits |-> 0]
    BY <1>1 DEF WritePayout
  <2>4. s.from = r.from /\ s.to = r.to
    BY <2>3
  <2> QED
    BY <2>1, <2>2, <2>4
<1>2. CASE EditPayout(c)
  <2>1. calls[c].at = "write" /\ r.op = "edit" /\ calls[c] # Idle /\ CallClear(calls[c])
    BY <1>2 DEF EditPayout, At, Idle, SealInv
  <2>2. PICK t \in payouts :
          /\ t.key = r.key
          /\ payouts' = IF t.edits < MaxEdits
                          THEN (payouts \ {t}) \cup {[t EXCEPT !.edits = @ + 1]}
                          ELSE payouts
    BY <1>2 DEF EditPayout
  <2>3. t.from = calls[c].from /\ t.to = calls[c].to
    BY <2>1, <2>2 DEF CallClear, SealInv, OneRangePerKey
  <2>4. s = [t EXCEPT !.edits = @ + 1] /\ t \in Payout
    BY <2>2 DEF IInv, Typed
  <2>5. s.from = t.from /\ s.to = t.to
    BY <2>4 DEF Payout
  <2> QED
    BY <2>1, <2>3, <2>5
<1> QED
  BY <1>1, <1>2

\* Nothing gets into a period that was closed when its request came or looked,
\* whatever other calls and the instances do meanwhile; a rebuild gets into a
\* closed period only when neither request could know of the other.
THEOREM ClosedPeriodsSealed == Spec => PeriodsSealed
<1> DEFINE Sealed ==
      /\ \A c \in Client : calls'[c] # calls[c] =>
            /\ \A a \in adjustments' \ adjustments : \A p \in calls[c].closed : ~On(a.date, p)
            /\ \A s \in payouts' \ payouts : \A p \in calls[c].closed : ~Overlap(p, s)
      /\ \A i \in Instance : work'[i] # work[i] =>
            \A row \in SourceRow \cap (materialized' \ materialized) : \A p \in periods :
                On(row.date, p) => /\ p \notin closedBefore[work[i].job]
                                   /\ queuedBefore[p] < work[i].job
<1>1. ASSUME IInv, SealInv, [Next]_vars PROVE Sealed
  <2>1. ASSUME NEW c \in Client, calls'[c] # calls[c], NEW a \in adjustments' \ adjustments,
               NEW p \in calls[c].closed
        PROVE  ~On(a.date, p)
    <3> DEFINE call == calls[c]
               r == call.request
    <3>1. WriteAdjustment(c)
      BY <1>1, <2>1, Writer
    <3>2. call.at = "write" /\ r.op = "adjust"
      BY <3>1 DEF WriteAdjustment, At
    <3>3. a = [key |-> r.key, date |-> r.from]
      BY <2>1, <3>1 DEF WriteAdjustment
    <3>4. /\ call \in Call /\ r.from \in Nat /\ r.to \in Nat /\ r.from <= r.to
          /\ call.from = r.from /\ call.to = r.to /\ ~Overlap(p, call)
      BY <1>1, <2>1, <3>2, Written
    <3>5. p \in Period /\ a.date = call.from
      BY <2>1, <3>3, <3>4 DEF Call
    <3>6. p.from \in Nat /\ p.to \in Nat
      BY <3>5 DEF Period
    <3>7. call.from \in Nat /\ call.to \in Nat /\ call.from <= call.to
      BY <3>4
    <3> HIDE DEF call, r
    <3>8. ~Overlap(p, call)
      BY <3>4
    <3> QED
      BY <3>5, <3>6, <3>7, <3>8 DEF On, Overlap
  <2>2. ASSUME NEW c \in Client, calls'[c] # calls[c], NEW s \in payouts' \ payouts,
               NEW p \in calls[c].closed
        PROVE  ~Overlap(p, s)
    <3>1. WritePayout(c) \/ EditPayout(c)
      BY <1>1, <2>2, Writer
    <3>2. /\ calls[c].at = "write" /\ calls[c].request.op \in {"settle", "edit"}
          /\ s.from = calls[c].from /\ s.to = calls[c].to
      BY <1>1, <2>2, <3>1, PaidRange
    <3>3. ~Overlap(p, calls[c])
      BY <1>1, <2>2, <3>2, Written
    <3> QED
      BY <3>2, <3>3, SameDays
  <2>3. ASSUME NEW i \in Instance, work'[i] # work[i],
               NEW row \in SourceRow \cap (materialized' \ materialized),
               NEW p \in periods, On(row.date, p)
        PROVE  p \notin closedBefore[work[i].job] /\ queuedBefore[p] < work[i].job
    <3> DEFINE n == work[i].job
               job == jobs[n]
    <3>1. Materialize(i)
      <4>1. PICK j \in Instance : Materialize(j)
        BY <1>1, <2>3 DEF Next, vars, CallStep, RebuildStep, Receive, Abandon, FindReplay,
             FindEdited, CheckClosed, CheckRebuild, ReadMode, Reconcile, ReadCurrentMode,
             WriteMode, WriteAdjustment, WritePayout, EditPayout, WritePeriod, WriteJob, Claim,
             CountIssue, Finish, FailJob, EndJob, Stop, documents
      <4>2. work \in [Instance -> Work]
        BY <1>1 DEF IInv, Typed
      <4> QED
        BY <2>3, <4>1, <4>2 DEF Materialize
    <3>2. row \in work[i].todo
      BY <2>3, <3>1 DEF Materialize
    <3>3. work[i] # NoJob /\ WorkOK(i)
      BY <1>1, <3>2 DEF NoJob, IInv
    <3>4. n \in DOMAIN jobs /\ job \in Job /\ job.status = "running" /\ row \in RowsOf(job)
      BY <1>1, <3>2, <3>3, WorkedJob DEF WorkOK
    <3>5. job.from <= row.date /\ row.date <= job.to
      <4>1. row.source # "target_bonus"
        BY <2>3, ConstantsAssumption
      <4> QED
        BY <3>4, <4>1 DEF RowsOf
    <3>6. p.from \in Nat /\ p.to \in Nat
      <4>1. p \in Period
        BY <1>1, <2>3 DEF IInv, Typed
      <4> QED
        BY <4>1 DEF Period
    <3>7. job.from \in Nat /\ job.to \in Nat /\ row.date \in Nat
      BY <2>3, <3>4, ConstantsAssumption DEF Job
    <3>8. Overlap(p, job) /\ Overlap(job, p)
      <4> HIDE DEF job
      <4> QED
        BY <2>3, <3>5, <3>6, <3>7 DEF On, Overlap
    <3>9. p \notin closedBefore[n]
      BY <1>1, <3>4, <3>8 DEF SealInv, JobsClear
    <3>10. queuedBefore[p] < n
      <4>1. /\ queuedBefore[p] \in 0 .. Len(jobs) /\ n \in 1 .. Len(jobs) /\ Len(jobs) \in Nat
            /\ ~Rebuilding(jobs, queuedBefore[p], p)
        BY <1>1, <2>3, <3>4, StaysClear DEF SealInv, PeriodsClear, IInv, Typed
      <4>2. job.status \notin FinalStatus
        BY <3>4 DEF FinalStatus
      <4>3. n \notin 1 .. queuedBefore[p]
        BY <3>8, <4>1, <4>2 DEF Rebuilding
      <4> QED
        BY <4>1, <4>3
    <3> QED
      BY <3>9, <3>10
  <2> QED
    BY <2>1, <2>2, <2>3
<1>2. IInv /\ SealInv /\ [Next]_vars => [Sealed]_vars
  BY <1>1
<1> QED
  BY <1>2, SealInvariance, PTL DEF Spec, PeriodsSealed

\* No payout, period or promotion is written over a rebuild its call could
\* know of, as long as that has not ended.
THEOREM WritesKeepClear == Spec => WritesAvoidRebuilds
<1> DEFINE Avoids ==
      \A c \in Client : calls'[c] # calls[c] =>
          /\ \A s \in payouts' \ payouts : ~BeingRebuilt(c, s)
          /\ \A p \in periods' \ periods : ~BeingRebuilt(c, p)
          /\ mode' # mode /\ mode'.mode = "authoritative" => ~BeingRebuilt(c, calls[c])
<1>1. ASSUME IInv, SealInv, [Next]_vars PROVE Avoids
  <2> SUFFICES ASSUME NEW c \in Client, calls'[c] # calls[c]
               PROVE  /\ \A s \in payouts' \ payouts : ~BeingRebuilt(c, s)
                      /\ \A p \in periods' \ periods : ~BeingRebuilt(c, p)
                      /\ mode' # mode /\ mode'.mode = "authoritative" => ~BeingRebuilt(c, calls[c])
    OBVIOUS
  <2> DEFINE call == calls[c]
             r == call.request
  <2>1. \A s : BeingRebuilt(c, s) <=> Rebuilding(jobs, call.queued, s)
    BY DEF BeingRebuilt, Rebuilding
  <2>2. ASSUME NEW s \in payouts' \ payouts PROVE ~BeingRebuilt(c, s)
    <3>1. WritePayout(c) \/ EditPayout(c)
      BY <1>1, <2>2, Writer
    <3>2. /\ call.at = "write" /\ r.op \in {"settle", "edit"}
          /\ s.from = call.from /\ s.to = call.to
      BY <1>1, <2>2, <3>1, PaidRange
    <3>3. ~Rebuilding(jobs, call.queued, call)
      BY <1>1, <3>2, Written
    <3>4. ~Rebuilding(jobs, call.queued, s)
      BY <3>2, <3>3 DEF Rebuilding, Overlap
    <3> QED
      BY <2>1, <3>4, Zenon
  <2>3. ASSUME NEW p \in periods' \ periods PROVE ~BeingRebuilt(c, p)
    <3>1. WritePeriod(c)
      BY <1>1, <2>3, Writer
    <3>2. call.at = "write" /\ r.op = "close"
      BY <3>1 DEF WritePeriod, At
    <3>3. call.from = r.from /\ call.to = r.to /\ ~Rebuilding(jobs, call.queued, call)
      BY <1>1, <3>2, Written
    <3>4. p = [kind |-> r.kind, from |-> r.from, to |-> r.to]
      BY <2>3, <3>1 DEF WritePeriod, WithPeriod
    <3>5. p.from = call.from /\ p.to = call.to
      BY <3>3, <3>4
    <3>6. ~Rebuilding(jobs, call.queued, p)
      BY <3>3, <3>5 DEF Rebuilding, Overlap
    <3> QED
      BY <2>1, <3>6, Zenon
  <2>4. ASSUME mode' # mode, mode'.mode = "authoritative" PROVE ~BeingRebuilt(c, calls[c])
    <3>1. WriteMode(c)
      BY <1>1, <2>4, Writer
    <3>2. call.at = "write" /\ r.op = "mode"
      BY <3>1 DEF WriteMode, At
    <3>3. r.mode = "authoritative"
      BY <1>1, <2>4, <3>1 DEF WriteMode, IInv, Typed
    <3> QED
      BY <1>1, <2>1, <3>2, <3>3, Written
  <2> QED
    BY <2>2, <2>3, <2>4
<1>2. IInv /\ SealInv /\ [Next]_vars => [Avoids]_vars
  BY <1>1
<1> QED
  BY <1>2, SealInvariance, PTL DEF Spec, WritesAvoidRebuilds
=============================================================================
