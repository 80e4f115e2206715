----------------------------- MODULE ReportJobs ------------------------------
(***************************************************************************)
(* Report jobs: Kafka requests turned into files in object storage, with a *)
(* status event at every stage (jobs/worker.go).  One process reads the    *)
(* topic and starts a goroutine per request, without a limit.              *)
(*                                                                         *)
(* topic      the request partition; a message's position is its offset    *)
(* position   next offset this process reads    committed  its group's     *)
(* run[m]     the goroutine of message m                                   *)
(* events[m]  the status events published by that run, in order; the       *)
(*            producer spreads them over partitions, so nothing orders     *)
(*            the events of different runs                                 *)
(* storage    report objects by job (the month in the object key is left   *)
(*            out)              dead  offsets sent to the dead-letter topic *)
(* temp       messages whose temporary directory is on disk                *)
(***************************************************************************)
EXTENDS Integers, Sequences, SequencesExt, FiniteSets

CONSTANTS
    Request,        \* report requests, and Undecodable for other payloads
    Undecodable, None,
    Registry,       \* reports that have an executor
    SilentReport,   \* those whose Run drops the errors of its cursor and sink
    Columns,        \* columns of a report: a sequence of [key, sensitive]
    MaxMessages, MaxFaults, MaxStops              \* bounds

\* The publisher gives each request an id of its own; what it publishes again
\* under that id is the same request.
ASSUME RequestAssumption ==
    /\ \A r \in Request \ {Undecodable} :
          DOMAIN r = {"job", "report", "format", "columns", "allow", "dates"}
    /\ \A r, s \in Request \ {Undecodable} : r.job = s.job => r = s

\* The keys of a report's columns differ.
ASSUME ColumnsAssumption ==
    \A c, d \in DOMAIN Columns : Columns[c].key = Columns[d].key => c = d

VARIABLES topic, position, committed, run, events, storage, dead, temp,
          up, faults, stops

process == <<position, up, stops>>
vars == <<topic, position, committed, run, events, storage, dead, temp,
          up, faults, stops>>

Messages == 1 .. Len(topic)
Job == {r.job : r \in Request \ {Undecodable}}

-----------------------------------------------------------------------------
(* Column projection (NewProjectionSinkWithOptions) *)

\* mutant of DefaultIndexes: sensitive columns are in the default selection.
AllIndexes(allow) == DOMAIN Columns

\* Nothing selected: the executor's columns, sensitive ones with permission.
DefaultIndexes(allow) == {n \in DOMAIN Columns : allow \/ ~Columns[n].sensitive}

\* Every key exists, none twice, sensitive ones with permission.
ValidSelection(selected, allow) ==
    /\ IsInjective(selected)
    /\ \A n \in DOMAIN selected : \E c \in DOMAIN Columns :
          /\ Columns[c].key = selected[n]
          /\ Columns[c].sensitive => allow

\* The columns WriteRow passes on; their order is left out.
Projection(r) ==
    IF r.columns = <<>>
      THEN DefaultIndexes(r.allow)
      ELSE {CHOOSE c \in DOMAIN Columns : Columns[c].key = r.columns[n] : n \in DOMAIN r.columns}

\* A rendered report: its columns, and whether all rows are there.
Rows(r, whole) == [columns |-> Projection(r), whole |-> whole]

Rendered == [columns : SUBSET DOMAIN Columns, whole : BOOLEAN]

ASSUME NoneAssumption == None \notin Rendered

-----------------------------------------------------------------------------
(* Faults *)

\* One more fault of the environment, or the cancelled context of a shutdown.
Fault ==
    \/ up = "up" /\ faults < MaxFaults /\ faults' = faults + 1
    \/ up = "stopping" /\ faults' = faults

NoFault == up = "up" /\ faults' = faults

Event(status, percent, file) == [status |-> status, percent |-> percent, file |-> file]

\* sendStatus: an event that cannot be sent is logged and forgotten.
SendStatus(m, event) ==
    \/ NoFault /\ events' = [events EXCEPT ![m] = Append(@, event)]
    \/ Fault /\ events' = events

At(m, step) == up # "down" /\ run[m].step = step

GoTo(m, step) == run' = [run EXCEPT ![m].step = step]

\* ProcessJob returns: the deferred calls remove the file and its directory.
End(m) ==
    /\ run' = [run EXCEPT ![m] = [step |-> "ended"]]
    /\ temp' = temp \ {m}

-----------------------------------------------------------------------------
(* Reading the topic *)

\* Another service publishes a request, perhaps one it already published.
Submit(r) ==
    /\ Len(topic) < MaxMessages
    /\ topic' = Append(topic, r)
    /\ run' = Append(run, [step |-> "waiting"])
    /\ events' = Append(events, <<>>)
    /\ UNCHANGED <<position, committed, storage, dead, temp, up, faults, stops>>

NextOffset == position + 1

Readable == up = "up" /\ position < Len(topic)

\* mutant of CommitOffset: offsets are committed when the reader is closed.
CommitNothing == committed' = committed

\* With a consumer group, ReadMessage commits before it returns the message.
CommitOffset == committed' = NextOffset

\* Start: a decoded request gets a goroutine of its own.
ReadRequest ==
    /\ Readable /\ topic[NextOffset] # Undecodable
    /\ CommitOffset
    /\ position' = NextOffset
    /\ run' = [run EXCEPT ![NextOffset] = [step |-> "loading", rows |-> None,
                                      file |-> None]]
    /\ UNCHANGED <<topic, events, storage, dead, temp, up, faults, stops>>

\* The rest goes to the dead-letter topic; an error of that is not looked at.
ReadUndecodable ==
    /\ Readable /\ topic[NextOffset] = Undecodable
    /\ CommitOffset
    /\ position' = NextOffset
    /\ \/ NoFault /\ dead' = dead \cup {NextOffset}
       \/ Fault /\ dead' = dead
    /\ UNCHANGED <<topic, run, events, storage, temp, up, stops>>

\* The commit fails: ReadMessage returns the error and drops the message; the
\* next commit moves the group past it.
DropUncommitted ==
    /\ Readable /\ Fault
    /\ position' = NextOffset
    /\ UNCHANGED <<topic, committed, run, events, storage, dead, temp, up, stops>>

-----------------------------------------------------------------------------
(* ProcessJob, one action for each call that can fail or be observed *)

AnnounceLoading(m) ==
    /\ At(m, "loading")
    /\ SendStatus(m, Event("PROCESSING", 10, None))
    /\ GoTo(m, "opening")
    /\ UNCHANGED <<topic, committed, storage, dead, temp>> /\ UNCHANGED process

Supported(r) == r.report \in Registry /\ r.format \in {"CSV", "XLSX", "PDF"}

\* mutant of Open: an unknown report returns without an event.
OpenQuietly(m) ==
    /\ At(m, "opening")
    /\ IF Supported(topic[m])
         THEN GoTo(m, "querying") /\ temp' = temp \cup {m}
         ELSE End(m)
    /\ UNCHANGED <<topic, committed, events, storage, dead, faults>>
    /\ UNCHANGED process

\* The executor is found, a temporary directory made and the file created in
\* it, and the writer chosen by the format.
Open(m) ==
    /\ At(m, "opening")
    /\ \/ /\ Supported(topic[m])
          /\ GoTo(m, "querying") /\ temp' = temp \cup {m} /\ UNCHANGED faults
       \/ /\ ~Supported(topic[m])
          /\ GoTo(m, "failing") /\ UNCHANGED faults
          /\ temp' = IF topic[m].report \in Registry THEN temp \cup {m} ELSE temp
       \/ /\ topic[m].report \in Registry /\ Fault
          /\ GoTo(m, "failing") /\ temp' \in {temp, temp \cup {m}}
    /\ UNCHANGED <<topic, committed, events, storage, dead>> /\ UNCHANGED process

AnnounceQuerying(m) ==
    /\ At(m, "querying")
    /\ SendStatus(m, Event("PROCESSING", 30, None))
    /\ GoTo(m, "running")
    /\ UNCHANGED <<topic, committed, storage, dead, temp>> /\ UNCHANGED process

\* Validate and the column selection.
Accepted(r) == r.dates /\ ValidSelection(r.columns, r.allow)

\* mutant of FailedRun: every executor drops its errors.
FailedRunGoesOn(m) ==
    run' = [run EXCEPT ![m] = [@ EXCEPT !.step = "rendering",
                                        !.rows = Rows(topic[m], FALSE)]]

\* Run met an error: most executors return it; some hand on what they have.
FailedRun(m) ==
    IF topic[m].report \in SilentReport
      THEN run' = [run EXCEPT ![m] = [@ EXCEPT !.step = "rendering",
                                               !.rows = Rows(topic[m], FALSE)]]
      ELSE GoTo(m, "failing")

RunReport(m) ==
    /\ At(m, "running")
    /\ \/ /\ ~Accepted(topic[m])
          /\ GoTo(m, "failing") /\ UNCHANGED faults
       \/ /\ Accepted(topic[m]) /\ NoFault
          /\ run' = [run EXCEPT ![m] = [@ EXCEPT !.step = "rendering",
                                                 !.rows = Rows(topic[m], TRUE)]]
       \/ Accepted(topic[m]) /\ Fault /\ FailedRun(m)
    /\ UNCHANGED <<topic, committed, events, storage, dead, temp>>
    /\ UNCHANGED process

\* Flush, Write or WriteTo puts the rows of the writer into the file.
Render(m) ==
    /\ At(m, "rendering")
    /\ \/ /\ run' = [run EXCEPT ![m] = [@ EXCEPT !.step = "rendered",
                                                 !.file = run[m].rows]]
          /\ UNCHANGED faults
       \/ Fault /\ GoTo(m, "failing")
    /\ UNCHANGED <<topic, committed, events, storage, dead, temp>>
    /\ UNCHANGED process

AnnounceUploading(m) ==
    /\ At(m, "rendered")
    /\ SendStatus(m, Event("PROCESSING", 80, None))
    /\ GoTo(m, "uploading")
    /\ UNCHANGED <<topic, committed, storage, dead, temp>> /\ UNCHANGED process

\* PutObject replaces the job's object as a whole; a failed call may have too.
Upload(m) ==
    /\ At(m, "uploading")
    /\ LET put == [storage EXCEPT ![topic[m].job] = run[m].file]
       IN  \/ NoFault /\ storage' = put /\ GoTo(m, "uploaded")
           \/ Fault /\ storage' \in {storage, put} /\ GoTo(m, "failing")
    /\ UNCHANGED <<topic, committed, events, dead, temp>> /\ UNCHANGED process

Complete(m) ==
    /\ At(m, "uploaded")
    /\ SendStatus(m, Event("COMPLETED", 100, topic[m].job))
    /\ End(m)
    /\ UNCHANGED <<topic, committed, storage, dead>> /\ UNCHANGED process

\* mutant of HandleError: the return after handleError is missing.
HandleErrorAndGoOn(m) ==
    /\ At(m, "failing")
    /\ SendStatus(m, Event("FAILED", 0, None))
    /\ GoTo(m, "rendered")
    /\ UNCHANGED <<topic, committed, storage, dead, temp>> /\ UNCHANGED process

\* handleError, and ProcessJob returns.
HandleError(m) ==
    /\ At(m, "failing")
    /\ SendStatus(m, Event("FAILED", 0, None))
    /\ End(m)
    /\ UNCHANGED <<topic, committed, storage, dead>> /\ UNCHANGED process

ProcessJob(m) ==
    \/ AnnounceLoading(m) \/ Open(m) \/ AnnounceQuerying(m) \/ RunReport(m)
    \/ Render(m) \/ AnnounceUploading(m) \/ Upload(m) \/ Complete(m)
    \/ HandleError(m)

-----------------------------------------------------------------------------
(* The process and the world around it *)

\* SIGTERM cancels the context that every goroutine uses.
Terminate ==
    /\ up = "up" /\ stops < MaxStops
    /\ up' = "stopping" /\ stops' = stops + 1
    /\ UNCHANGED <<topic, position, committed, run, events, storage, dead, temp,
                   faults>>

\* main returns after at most ten seconds, or the process is killed: nothing
\* waits for the jobs, and no deferred call of theirs runs.
Exit ==
    /\ up # "down" /\ (up = "up" => stops < MaxStops)
    /\ up' = "down"
    /\ stops' = IF up = "up" THEN stops + 1 ELSE stops
    /\ run' = [m \in Messages |->
                  IF run[m].step \in {"waiting", "ended"} THEN run[m]
                                                          ELSE [step |-> "lost"]]
    /\ UNCHANGED <<topic, position, committed, events, storage, dead, temp, faults>>

\* The next process starts at the committed offset.
Restart ==
    /\ up = "down"
    /\ up' = "up" /\ position' = committed
    /\ UNCHANGED <<topic, committed, run, events, storage, dead, temp,
                   faults, stops>>

-----------------------------------------------------------------------------
Init ==
    /\ topic = <<>> /\ run = <<>> /\ events = <<>>
    /\ position = 0 /\ committed = 0
    /\ storage = [job \in Job |-> None]
    /\ dead = {} /\ temp = {}
    /\ faults = 0 /\ stops = 0
    /\ up = "up"

Next ==
    \/ \E r \in Request : Submit(r)
    \/ ReadRequest \/ ReadUndecodable \/ DropUncommitted
    \/ \E m \in Messages : ProcessJob(m)
    \/ Terminate \/ Exit \/ Restart

\* The Go scheduler runs every goroutine.
Fairness ==
    /\ WF_vars(ReadRequest \/ ReadUndecodable)
    /\ \A m \in 1 .. MaxMessages : WF_vars(m \in Messages /\ ProcessJob(m))

Spec == Init /\ [][Next]_vars

FairSpec == Spec /\ Fairness

-----------------------------------------------------------------------------
(* Properties *)

Step == {"waiting", "loading", "opening", "querying", "running", "rendering",
         "rendered", "uploading", "uploaded", "failing", "ended", "lost"}

Active(m) == run[m].step \in Step \ {"waiting", "ended", "lost"}

\* Types, and whose temporary directories are on disk: those of running jobs
\* and of jobs that a stop interrupted.
TypeOK ==
    /\ topic \in Seq(Request)
    /\ position \in 0 .. Len(topic) /\ committed \in 0 .. Len(topic)
    /\ Len(run) = Len(topic) /\ Len(events) = Len(topic)
    /\ \A m \in Messages : run[m].step \in Step
    /\ dead \subseteq Messages
    /\ \A m \in temp : Active(m) \/ run[m].step = "lost"

Published(m) == {events[m][n].status : n \in DOMAIN events[m]}

\* A COMPLETED event names an object with every row of the report, whatever
\* failed on the way and whatever a later run of the job did to the object.
\* staff_summary does not give this (see README, disagreements).
CompletedFilesWhole ==
    \A m \in Messages :
        "COMPLETED" \in Published(m) /\ topic[m].report \notin SilentReport
            => /\ storage[topic[m].job] # None
               /\ storage[topic[m].job].whole

\* No stored report shows a sensitive column to a requester who may not see
\* it, with or without a column selection.
SensitiveHidden ==
    \A m \in Messages :
        "COMPLETED" \in Published(m) /\ ~topic[m].allow
            => \A n \in storage[topic[m].job].columns : ~Columns[n].sensitive

\* The events of a run advance, and COMPLETED or FAILED is its last: no stage
\* goes on after an error was reported, and no error follows success.
Terminal(event) == event.status \in {"COMPLETED", "FAILED"}

OneEnding ==
    \A m \in Messages : \A n \in 1 .. Len(events[m]) - 1 :
        /\ ~Terminal(events[m][n])
        /\ \/ events[m][n].percent < events[m][n + 1].percent
           \/ events[m][n + 1].status = "FAILED"

\* A message is processed at most once, also across restarts: a second run
\* would announce PROCESSING for a job that is done.
RunsOnce ==
    [][\A m \in Messages :
          run'[m].step = "loading" => run[m].step \in {"waiting", "loading"}]_vars

\* As long as nothing fails and nobody stops the process, every request ends
\* in COMPLETED or FAILED, and every other payload in the dead-letter topic.
Answered(m) ==
    /\ m \in Messages
    /\ Published(m) \cap {"COMPLETED", "FAILED"} # {} \/ m \in dead

JobsAnswered ==
    \A m \in 1 .. MaxMessages :
        (m \in Messages) ~> (faults > 0 \/ stops > 0 \/ Answered(m))
=============================================================================
