------------------------- MODULE ReportJobs_proofs --------------------------
(***************************************************************************)
(* The safety of report jobs, for every set of requests and reports and    *)
(* every number of messages, faults and stops.                             *)
(*                                                                         *)
(* IInv says, message by message (MessageOK), how far a goroutine has got  *)
(* and what its events and its file are at that stage; what is stored of a *)
(* job is a file of its request; and the offsets tell which messages were  *)
(* never read.                                                             *)
(***************************************************************************)
EXTENDS ReportJobs, TLAPS

-----------------------------------------------------------------------------
(* Sequences *)

LEMMA ReplaceInSeq ==
    ASSUME NEW S, NEW s \in Seq(S), NEW m \in DOMAIN s, NEW x \in S
    PROVE  LET t == [s EXCEPT ![m] = x]
           IN  /\ t \in Seq(S) /\ Len(t) = Len(s)
               /\ t[m] = x
               /\ \A n \in DOMAIN s : n # m => t[n] = s[n]
<1>1. Len(s) \in Nat /\ DOMAIN s = 1 .. Len(s) /\ s \in [1 .. Len(s) -> S]
  OBVIOUS
<1>2. [s EXCEPT ![m] = x] \in [1 .. Len(s) -> S]
  BY <1>1
<1> QED
  BY <1>1, <1>2

LEMMA AppendToSeq ==
    ASSUME NEW S, NEW s \in Seq(S), NEW x \in S
    PROVE  LET t == Append(s, x)
           IN  /\ t \in Seq(S) /\ Len(t) = Len(s) + 1
               /\ t[Len(s) + 1] = x
               /\ \A n \in 1 .. Len(s) : t[n] = s[n]
  OBVIOUS

-----------------------------------------------------------------------------
(* The invariant *)

Passive == {"waiting", "ended", "lost"}

StatusEvent ==
    [status : {"PROCESSING", "COMPLETED", "FAILED"}, percent : {0, 10, 30, 80, 100},
     file : Job \cup {None}]

Goroutine ==
    [step : Passive]
    \cup [step : Step \ Passive, rows : Rendered \cup {None}, file : Rendered \cup {None}]

Types ==
    /\ topic \in Seq(Request)
    /\ run \in Seq(Goroutine) /\ Len(run) = Len(topic)
    /\ events \in Seq(Seq(StatusEvent)) /\ Len(events) = Len(topic)
    /\ position \in 0 .. Len(topic) /\ committed \in 0 .. Len(topic)
    /\ up \in {"up", "stopping", "down"}
    /\ storage \in [Job -> Rendered \cup {None}]
    /\ dead \subseteq Messages /\ temp \subseteq Messages

\* How far the events of a goroutine may have got, by its step.
Reached(step) ==
    IF step \in {"waiting", "loading"} THEN 0
    ELSE IF step \in {"opening", "querying"} THEN 10
    ELSE IF step \in {"running", "rendering", "rendered"} THEN 30
    ELSE 80

\* A file that may be stored for the request.
FileOf(r, file) ==
    /\ file \in Rendered
    /\ Accepted(r)
    /\ file.columns = Projection(r)
    /\ r.report \notin SilentReport => file.whole

\* OneEnding, of one run.
Advancing(evs) ==
    \A n \in 1 .. Len(evs) - 1 :
        /\ ~Terminal(evs[n])
        /\ evs[n].percent < evs[n + 1].percent \/ evs[n + 1].status = "FAILED"

\* The files of a goroutine at its step.
FilesOK(r, g, store) ==
    /\ g.step \in {"rendering", "rendered", "uploading", "uploaded"} => FileOf(r, g.rows)
    /\ g.step \in {"rendered", "uploading", "uploaded"} => FileOf(r, g.file)
    /\ g.step = "uploaded" => store[r.job] # None

\* The events of a goroutine at its step.
EventsOK(g, evs) ==
    /\ g.step = "waiting" => evs = <<>>
    /\ g.step \notin Passive =>
          \A n \in DOMAIN evs : ~Terminal(evs[n]) /\ evs[n].percent <= Reached(g.step)
    /\ Advancing(evs)

\* A COMPLETED event is about an object that exists.
CompletedOK(r, evs, store) ==
    \A n \in DOMAIN evs :
        evs[n].status = "COMPLETED" => r # Undecodable /\ store[r.job] # None

MessageOK(r, g, evs, store) ==
    /\ g.step \notin Passive => r # Undecodable
    /\ FilesOK(r, g, store)
    /\ EventsOK(g, evs)
    /\ CompletedOK(r, evs, store)

\* Offsets past the committed one were never read, and a process that runs is
\* at the committed one or past it.
Offsets ==
    /\ \A m \in Messages : run[m].step # "waiting" => m <= committed
    /\ up # "down" => committed <= position

\* What is stored of a job is a file of its request.
Stored ==
    \A r \in Request \ {Undecodable} : storage[r.job] # None => FileOf(r, storage[r.job])

TempOK == \A m \in temp : run[m].step \notin {"waiting", "ended"}

IInv ==
    /\ Types
    /\ Offsets
    /\ Stored
    /\ TempOK
    /\ \A m \in Messages : MessageOK(topic[m], run[m], events[m], storage)

LEMMA InitIInv == Init => IInv
<1> SUFFICES ASSUME Init PROVE IInv
  OBVIOUS
<1>1. topic = <<>> /\ run = <<>> /\ events = <<>> /\ Messages = {}
  BY DEF Init, Messages
<1>2. storage \in [Job -> Rendered \cup {None}] /\ \A j \in Job : storage[j] = None
  BY DEF Init
<1>3. Types
  BY <1>1, <1>2 DEF Init, Types
<1>4. Stored
  BY <1>2 DEF Stored, Job
<1> QED
  BY <1>1, <1>3, <1>4 DEF Init, IInv, Offsets, TempOK

-----------------------------------------------------------------------------
(* What the conclusions need *)

LEMMA JobsKnown ==
    ASSUME NEW r \in Request \ {Undecodable}
    PROVE  r.job \in Job
  BY DEF Job

\* A file of a request without permission has no sensitive column.
LEMMA FileHides ==
    ASSUME NEW r, NEW file, FileOf(r, file), ~r.allow, NEW n \in file.columns
    PROVE  ~Columns[n].sensitive
<1>1. file.columns = Projection(r) /\ ValidSelection(r.columns, r.allow)
  BY DEF FileOf, Accepted
<1>2. CASE r.columns = <<>>
  BY <1>1, <1>2 DEF Projection, DefaultIndexes
<1>3. CASE r.columns # <<>>
  <2>1. PICK k \in DOMAIN r.columns :
          n = CHOOSE c \in DOMAIN Columns : Columns[c].key = r.columns[k]
    BY <1>1, <1>3 DEF Projection
  <2>2. PICK c \in DOMAIN Columns : Columns[c].key = r.columns[k] /\ ~Columns[c].sensitive
    BY <1>1 DEF ValidSelection
  <2>3. n \in DOMAIN Columns /\ Columns[n].key = r.columns[k]
    BY <2>1, <2>2
  <2> QED
    BY <2>2, <2>3, ColumnsAssumption
<1> QED
  BY <1>2, <1>3

LEMMA CompletedMeansStored ==
    ASSUME IInv, NEW m \in Messages, "COMPLETED" \in Published(m)
    PROVE  storage[topic[m].job] # None /\ FileOf(topic[m], storage[topic[m].job])
<1>1. PICK n \in DOMAIN events[m] : events[m][n].status = "COMPLETED"
  BY DEF Published
<1>2. topic[m] # Undecodable /\ storage[topic[m].job] # None
  BY <1>1 DEF IInv, MessageOK, CompletedOK
<1>3. topic[m] \in Request
  BY DEF IInv, Types, Messages
<1> QED
  BY <1>2, <1>3 DEF IInv, Stored

LEMMA IInvImplies ==
    ASSUME IInv
    PROVE  TypeOK /\ CompletedFilesWhole /\ SensitiveHidden /\ OneEnding
<1>1. \A m \in Messages : run[m] \in Goroutine
  BY DEF IInv, Types, Messages
<1>2. ASSUME NEW g \in Goroutine PROVE g.step \in Step
  BY DEF Goroutine, Step, Passive
<1>3. TypeOK
  <2>1. \A m \in temp : Active(m) \/ run[m].step = "lost"
    BY <1>1, <1>2 DEF IInv, Types, TempOK, Active
  <2> QED
    BY <1>1, <1>2, <2>1 DEF TypeOK, IInv, Types
<1>4. CompletedFilesWhole
  BY CompletedMeansStored DEF CompletedFilesWhole, FileOf
<1>5. SensitiveHidden
  BY CompletedMeansStored, FileHides DEF SensitiveHidden
<1>6. OneEnding
  BY DEF OneEnding, IInv, MessageOK, EventsOK, Advancing
<1> QED
  BY <1>3, <1>4, <1>5, <1>6

-----------------------------------------------------------------------------
(* Steps of a goroutine *)

\* One more event.
LEMMA AppendEvent ==
    ASSUME NEW evs \in Seq(StatusEvent), NEW e \in StatusEvent, Advancing(evs),
           \A n \in DOMAIN evs :
              ~Terminal(evs[n]) /\ (evs[n].percent < e.percent \/ e.status = "FAILED")
    PROVE  Advancing(Append(evs, e))
<1> DEFINE new == Append(evs, e)
<1>1. Len(evs) \in Nat /\ DOMAIN evs = 1 .. Len(evs)
  OBVIOUS
<1>2. /\ Len(new) = Len(evs) + 1 /\ new[Len(evs) + 1] = e
      /\ \A n \in 1 .. Len(evs) : new[n] = evs[n]
  BY AppendToSeq
<1> HIDE DEF new
<1> SUFFICES ASSUME NEW n \in 1 .. Len(new) - 1
             PROVE  /\ ~Terminal(new[n])
                    /\ new[n].percent < new[n + 1].percent \/ new[n + 1].status = "FAILED"
  BY DEF Advancing, new
<1>3. CASE n = Len(evs)
  BY <1>1, <1>2, <1>3
<1>4. CASE n # Len(evs)
  <2>1. n \in 1 .. Len(evs) - 1 /\ n \in 1 .. Len(evs) /\ n + 1 \in 1 .. Len(evs)
    <3> DEFINE l == Len(evs)
    <3>1. l \in Nat /\ n \in 1 .. (l + 1) - 1 /\ n # l
      BY <1>1, <1>2, <1>4
    <3> HIDE DEF l
    <3>2. n \in 1 .. l - 1 /\ n \in 1 .. l /\ n + 1 \in 1 .. l
      BY <3>1
    <3> QED
      BY <3>2 DEF l
  <2>2. new[n] = evs[n] /\ new[n + 1] = evs[n + 1]
    BY <1>2, <2>1
  <2>3. /\ ~Terminal(evs[n])
        /\ evs[n].percent < evs[n + 1].percent \/ evs[n + 1].status = "FAILED"
    BY <2>1 DEF Advancing
  <2> QED
    BY <2>2, <2>3
<1> QED
  BY <1>3, <1>4

\* The command of a goroutine: it goes on as g, with evs its events.
LEMMA JobStep ==
    ASSUME IInv, NEW m \in Messages, run[m].step \notin Passive,
           NEW g \in Goroutine, g.step # "waiting", run' = [run EXCEPT ![m] = g],
           NEW evs \in Seq(StatusEvent), events' = [events EXCEPT ![m] = evs],
           UNCHANGED <<topic, position, committed, up, dead>>,
           \/ UNCHANGED storage
           \/ \E file : FileOf(topic[m], file) /\ storage' = [storage EXCEPT ![topic[m].job] = file],
           temp' \subseteq temp \cup {m}, g.step = "ended" => m \notin temp',
           MessageOK(topic[m], g, evs, storage')
    PROVE  IInv'
<1>0. Types /\ Messages = 1 .. Len(topic) /\ Messages' = Messages
  BY DEF IInv, Messages
<1>1. /\ run' \in Seq(Goroutine) /\ Len(run') = Len(run) /\ run'[m] = g
      /\ \A n \in Messages : n # m => run'[n] = run[n]
  BY <1>0, ReplaceInSeq DEF Types
<1>2. /\ events' \in Seq(Seq(StatusEvent)) /\ Len(events') = Len(events) /\ events'[m] = evs
      /\ \A n \in Messages : n # m => events'[n] = events[n]
  BY <1>0, ReplaceInSeq DEF Types
<1>3. topic[m] \in Request \ {Undecodable} /\ topic[m].job \in Job
  BY <1>0, JobsKnown DEF IInv, MessageOK, Types
<1>4. storage' \in [Job -> Rendered \cup {None}]
  BY <1>0 DEF Types, FileOf
<1>5. \A j \in Job : storage[j] # None => storage'[j] # None
  BY <1>0, <1>3, NoneAssumption DEF Types, FileOf
<1>6. Stored'
  <2> SUFFICES ASSUME NEW r \in Request \ {Undecodable}, storage'[r.job] # None
               PROVE  FileOf(r, storage'[r.job])
    BY DEF Stored
  <2>1. CASE storage'[r.job] = storage[r.job]
    BY <2>1 DEF IInv, Stored
  <2>2. CASE storage'[r.job] # storage[r.job]
    <3>1. PICK file : FileOf(topic[m], file) /\ storage' = [storage EXCEPT ![topic[m].job] = file]
      BY <2>2
    <3>2. r.job \in Job
      BY JobsKnown
    <3>3. r.job = topic[m].job /\ storage'[r.job] = file
      BY <1>0, <2>2, <3>1, <3>2 DEF Types
    <3>4. r = topic[m]
      BY <1>3, <3>3, RequestAssumption
    <3> QED
      BY <3>1, <3>3, <3>4
  <2> QED
    BY <2>1, <2>2
<1>7. Offsets'
  BY <1>0, <1>1 DEF IInv, Offsets, Passive
<1>8. TempOK' /\ temp' \subseteq Messages
  BY <1>0, <1>1 DEF IInv, TempOK, Types
<1>9. ASSUME NEW n \in Messages
      PROVE  MessageOK(topic[n], run'[n], events'[n], storage')
  <2>1. CASE n = m
    BY <1>1, <1>2, <2>1
  <2>2. CASE n # m
    <3>1. run'[n] = run[n] /\ events'[n] = events[n] /\ topic[n] \in Request
          /\ MessageOK(topic[n], run[n], events[n], storage)
      BY <1>0, <1>1, <1>2, <2>2 DEF IInv, Types
    <3>2. topic[n] # Undecodable /\ storage[topic[n].job] # None => storage'[topic[n].job] # None
      BY <1>5, <3>1, JobsKnown
    <3>3. run[n].step = "uploaded" => topic[n] # Undecodable
      BY <3>1 DEF MessageOK, Passive
    <3> QED
      BY <3>1, <3>2, <3>3 DEF MessageOK, FilesOK, CompletedOK
  <2> QED
    BY <2>1, <2>2
<1>10. Types'
  BY <1>0, <1>1, <1>2, <1>4, <1>8 DEF Types, Messages
<1> QED
  BY <1>0, <1>6, <1>7, <1>8, <1>9, <1>10 DEF IInv

\* The goroutine of a message, while it is at work.
LEMMA AtWork ==
    ASSUME IInv, NEW m \in Messages, run[m].step \notin Passive
    PROVE  /\ run[m] \in Goroutine /\ run[m].step \in Step \ Passive
           /\ DOMAIN run[m] = {"step", "rows", "file"}
           /\ events[m] \in Seq(StatusEvent) /\ Advancing(events[m])
           /\ events = [events EXCEPT ![m] = events[m]]
           /\ \A n \in DOMAIN events[m] :
                 /\ events[m][n].percent \in Int
                 /\ ~Terminal(events[m][n]) /\ events[m][n].percent <= Reached(run[m].step)
           /\ topic[m] \in Request \ {Undecodable} /\ topic[m].job \in Job
           /\ FilesOK(topic[m], run[m], storage)
<1>1. run[m] \in Goroutine /\ topic[m] \in Request /\ events[m] \in Seq(StatusEvent)
      /\ events = [events EXCEPT ![m] = events[m]]
  BY DEF IInv, Types, Messages
<1>2. MessageOK(topic[m], run[m], events[m], storage)
  BY DEF IInv
<1>3. run[m].step \in Step \ Passive /\ DOMAIN run[m] = {"step", "rows", "file"}
  BY <1>1 DEF Goroutine
<1>4. ASSUME NEW n \in DOMAIN events[m] PROVE events[m][n].percent \in Int
  <2>1. events[m][n] \in StatusEvent
    BY <1>1, <1>4
  <2>2. events[m][n].percent \in {0, 10, 30, 80, 100}
    BY <2>1 DEF StatusEvent
  <2> QED
    BY <2>2
<1> QED
  BY <1>1, <1>2, <1>3, <1>4, JobsKnown DEF MessageOK, EventsOK

LEMMA ReachedNumbers == \A step : Reached(step) \in {0, 10, 30, 80}
  BY DEF Reached

\* The goroutine goes to another step and keeps what it has.
LEMMA AtNextStep ==
    ASSUME IInv, NEW m \in Messages, run[m].step \notin Passive, NEW step \in Step \ Passive,
           GoTo(m, step)
    PROVE  \E g \in Goroutine :
              /\ run' = [run EXCEPT ![m] = g]
              /\ g.step = step /\ g.rows = run[m].rows /\ g.file = run[m].file
<1> DEFINE g == [run[m] EXCEPT !.step = step]
<1>1. run[m] \in [step : Step \ Passive, rows : Rendered \cup {None}, file : Rendered \cup {None}]
  BY AtWork DEF Goroutine
<1>2. /\ g \in [step : Step \ Passive, rows : Rendered \cup {None}, file : Rendered \cup {None}]
      /\ g.step = step /\ g.rows = run[m].rows /\ g.file = run[m].file
  BY <1>1
<1>3. run' = [run EXCEPT ![m] = g]
  BY DEF GoTo
<1> HIDE DEF g
<1> QED
  BY <1>2, <1>3 DEF Goroutine

\* Whether or not the event got through.
LEMMA Sent ==
    ASSUME IInv, NEW m \in Messages, run[m].step \notin Passive, NEW e, SendStatus(m, e)
    PROVE  \E evs \in {events[m], Append(events[m], e)} : events' = [events EXCEPT ![m] = evs]
  BY AtWork DEF SendStatus

NotCompleted(evs) == \A n \in DOMAIN evs : evs[n].status # "COMPLETED"

LEMMA EventsGoOn ==
    ASSUME IInv, NEW m \in Messages, run[m].step \notin Passive,
           NEW g, g.step \in Step \ Passive, Reached(g.step) >= Reached(run[m].step),
           NEW percent \in {10, 30, 80},
           Reached(run[m].step) < percent, percent <= Reached(g.step), NEW evs,
           evs = events[m] \/ evs = Append(events[m], Event("PROCESSING", percent, None))
    PROVE  evs \in Seq(StatusEvent) /\ EventsOK(g, evs) /\ NotCompleted(evs)
<1> DEFINE e == Event("PROCESSING", percent, None)
<1>1. /\ e \in StatusEvent /\ ~Terminal(e) /\ e.percent = percent /\ e.status = "PROCESSING"
      /\ g.step # "waiting"
  BY DEF Event, StatusEvent, Terminal, Passive
<1>2. /\ Reached(g.step) \in {0, 10, 30, 80} /\ Reached(run[m].step) \in {0, 10, 30, 80}
      /\ \A n \in DOMAIN events[m] : events[m][n].percent \in Int
  BY AtWork, ReachedNumbers
<1>3. /\ events[m] \in Seq(StatusEvent) /\ Advancing(events[m])
      /\ \A n \in DOMAIN events[m] :
            ~Terminal(events[m][n]) /\ events[m][n].percent <= Reached(run[m].step)
  BY AtWork
<1>4. CASE evs = events[m]
  <2>1. EventsOK(g, evs)
    BY <1>1, <1>2, <1>3, <1>4 DEF EventsOK
  <2> QED
    BY <1>3, <1>4, <2>1 DEF NotCompleted, Terminal
<1>5. CASE evs = Append(events[m], e)
  <2> HIDE DEF e
  <2>1. \A n \in DOMAIN events[m] : events[m][n].percent < e.percent
    BY <1>1, <1>2, <1>3
  <2>2. Advancing(evs)
    BY <1>1, <1>3, <1>5, <2>1, AppendEvent
  <2>3. /\ evs \in Seq(StatusEvent)
        /\ \A n \in DOMAIN evs :
              evs[n] = e \/ (n \in DOMAIN events[m] /\ evs[n] = events[m][n])
    <3>1. /\ evs \in Seq(StatusEvent) /\ Len(evs) = Len(events[m]) + 1
          /\ evs[Len(events[m]) + 1] = e
          /\ \A n \in 1 .. Len(events[m]) : evs[n] = events[m][n]
      BY <1>1, <1>3, <1>5, AppendToSeq
    <3>2. /\ DOMAIN evs = 1 .. Len(evs) /\ DOMAIN events[m] = 1 .. Len(events[m])
          /\ Len(events[m]) \in Nat
      BY <1>3, <3>1
    <3> QED
      BY <3>1, <3>2
  <2>4. \A n \in DOMAIN evs : ~Terminal(evs[n]) /\ evs[n].percent <= Reached(g.step)
    BY <1>1, <1>2, <1>3, <2>3
  <2> QED
    BY <1>1, <2>2, <2>3, <2>4 DEF EventsOK, NotCompleted, Terminal
<1> QED
  BY <1>4, <1>5 DEF e

\* No event: the goroutine only goes on.
LEMMA EventsStay ==
    ASSUME IInv, NEW m \in Messages, run[m].step \notin Passive,
           NEW g, g.step \in Step \ Passive, Reached(g.step) >= Reached(run[m].step)
    PROVE  EventsOK(g, events[m]) /\ NotCompleted(events[m])
<1>1. /\ Reached(g.step) \in {0, 10, 30, 80} /\ Reached(run[m].step) \in {0, 10, 30, 80}
      /\ \A n \in DOMAIN events[m] : events[m][n].percent \in Int
      /\ g.step # "waiting"
  BY AtWork, ReachedNumbers DEF Passive
<1> QED
  BY <1>1, AtWork DEF EventsOK, NotCompleted, Terminal

\* The announcements: one event and the next step.
LEMMA AnnounceStep ==
    ASSUME IInv, NEW m \in Messages,
           AnnounceLoading(m) \/ AnnounceQuerying(m) \/ AnnounceUploading(m)
    PROVE  IInv'
<1>1. PICK percent \in {10, 30, 80}, step \in {"opening", "running", "uploading"} :
        /\ SendStatus(m, Event("PROCESSING", percent, None)) /\ GoTo(m, step)
        /\ run[m].step \in {"loading", "querying", "rendered"}
        /\ percent = Reached(step) /\ Reached(run[m].step) < percent
        /\ step = "uploading" <=> run[m].step = "rendered"
  <2>1. CASE AnnounceLoading(m)
    BY <2>1 DEF AnnounceLoading, At, Reached
  <2>2. CASE AnnounceQuerying(m)
    BY <2>2 DEF AnnounceQuerying, At, Reached
  <2>3. CASE AnnounceUploading(m)
    BY <2>3 DEF AnnounceUploading, At, Reached
  <2> QED
    BY <2>1, <2>2, <2>3
<1>2. UNCHANGED <<topic, position, committed, up, dead, storage, temp>>
  BY DEF AnnounceLoading, AnnounceQuerying, AnnounceUploading, process
<1>3. run[m].step \notin Passive /\ step \in Step \ Passive
  BY <1>1 DEF Passive, Step
<1>4. PICK g \in Goroutine : /\ run' = [run EXCEPT ![m] = g]
                             /\ g.step = step /\ g.rows = run[m].rows /\ g.file = run[m].file
  BY <1>1, <1>3, AtNextStep
<1>5. PICK evs \in {events[m], Append(events[m], Event("PROCESSING", percent, None))} :
        events' = [events EXCEPT ![m] = evs]
  BY <1>1, <1>3, Sent
<1>6. Reached(g.step) >= Reached(run[m].step) /\ percent <= Reached(g.step)
  BY <1>1, <1>4 DEF Reached
<1>7. evs \in Seq(StatusEvent) /\ EventsOK(g, evs) /\ NotCompleted(evs)
  BY <1>1, <1>3, <1>4, <1>6, EventsGoOn
<1>8. FilesOK(topic[m], g, storage')
  BY <1>1, <1>3, <1>4, AtWork DEF FilesOK
<1>9. MessageOK(topic[m], g, evs, storage')
  BY <1>3, <1>7, <1>8, AtWork DEF MessageOK, NotCompleted, CompletedOK
<1> QED
  BY <1>1, <1>2, <1>3, <1>4, <1>5, <1>7, <1>9, JobStep DEF Passive

\* The other steps of a goroutine at work send nothing.
LEMMA QuietStep ==
    ASSUME IInv, NEW m \in Messages, run[m].step \notin Passive,
           NEW g \in Goroutine, g.step \in Step \ Passive, run' = [run EXCEPT ![m] = g],
           Reached(g.step) >= Reached(run[m].step),
           UNCHANGED <<topic, position, committed, up, dead, events>>,
           \/ UNCHANGED storage
           \/ \E file : FileOf(topic[m], file) /\ storage' = [storage EXCEPT ![topic[m].job] = file],
           temp' \subseteq temp \cup {m},
           FilesOK(topic[m], g, storage')
    PROVE  IInv'
<1>1. EventsOK(g, events[m]) /\ NotCompleted(events[m])
  BY EventsStay
<1>2. events[m] \in Seq(StatusEvent) /\ events' = [events EXCEPT ![m] = events[m]]
  BY AtWork
<1>3. MessageOK(topic[m], g, events[m], storage')
  BY <1>1, AtWork DEF MessageOK, CompletedOK, NotCompleted
<1>4. g.step # "waiting" /\ g.step # "ended"
  BY DEF Passive
<1> QED
  BY <1>2, <1>3, <1>4, JobStep

LEMMA OpenStep ==
    ASSUME IInv, NEW m \in Messages, Open(m)
    PROVE  IInv'
<1>1. PICK step \in {"querying", "failing"} : GoTo(m, step)
  BY DEF Open
<1>2. /\ run[m].step = "opening" /\ temp' \subseteq temp \cup {m}
      /\ UNCHANGED <<topic, position, committed, up, dead, events, storage>>
  BY DEF Open, At, process
<1>3. run[m].step \notin Passive /\ step \in Step \ Passive
  BY <1>1, <1>2 DEF Passive, Step
<1>4. PICK g \in Goroutine : run' = [run EXCEPT ![m] = g] /\ g.step = step
  BY <1>1, <1>3, AtNextStep
<1>5. Reached(g.step) >= Reached(run[m].step) /\ FilesOK(topic[m], g, storage')
  BY <1>1, <1>2, <1>4 DEF Reached, FilesOK
<1> QED
  BY <1>2, <1>3, <1>4, <1>5, QuietStep

\* What an executor hands on is a file of the request; only the ones that drop
\* their errors hand on a part.
LEMMA RunReportStep ==
    ASSUME IInv, NEW m \in Messages, RunReport(m)
    PROVE  IInv'
<1>1. /\ run[m].step = "running"
      /\ UNCHANGED <<topic, position, committed, up, dead, events, storage, temp>>
  BY DEF RunReport, At, process
<1>2. run[m].step \notin Passive /\ "failing" \in Step \ Passive /\ "rendering" \in Step \ Passive
  BY <1>1 DEF Passive, Step
<1>3. CASE GoTo(m, "failing")
  <2>1. PICK g \in Goroutine : run' = [run EXCEPT ![m] = g] /\ g.step = "failing"
    BY <1>2, <1>3, AtNextStep
  <2>2. Reached(g.step) >= Reached(run[m].step) /\ FilesOK(topic[m], g, storage')
    BY <1>1, <2>1 DEF Reached, FilesOK
  <2> QED
    BY <1>1, <1>2, <2>1, <2>2, QuietStep
<1>4. CASE \E whole \in BOOLEAN :
              /\ Accepted(topic[m]) /\ (topic[m].report \notin SilentReport => whole)
              /\ run' = [run EXCEPT ![m] = [run[m] EXCEPT !.step = "rendering",
                                                          !.rows = Rows(topic[m], whole)]]
  <2>1. PICK whole \in BOOLEAN :
              /\ Accepted(topic[m]) /\ (topic[m].report \notin SilentReport => whole)
              /\ run' = [run EXCEPT ![m] = [run[m] EXCEPT !.step = "rendering",
                                                          !.rows = Rows(topic[m], whole)]]
    BY <1>4
  <2> DEFINE rows == Rows(topic[m], whole)
             g == [run[m] EXCEPT !.step = "rendering", !.rows = rows]
  <2>2. rows \in Rendered /\ FileOf(topic[m], rows)
    <3>1. Projection(topic[m]) \subseteq DOMAIN Columns
      <4>1. CASE topic[m].columns = <<>>
        BY <4>1 DEF Projection, DefaultIndexes
      <4>2. CASE topic[m].columns # <<>>
        <5>1. \A n \in DOMAIN topic[m].columns :
                \E c \in DOMAIN Columns : Columns[c].key = topic[m].columns[n]
          BY <2>1 DEF Accepted, ValidSelection
        <5>2. \A n \in DOMAIN topic[m].columns :
                (CHOOSE c \in DOMAIN Columns : Columns[c].key = topic[m].columns[n]) \in DOMAIN Columns
          BY <5>1
        <5> QED
          BY <4>2, <5>2 DEF Projection
      <4> QED
        BY <4>1, <4>2
    <3>2. rows.columns = Projection(topic[m]) /\ rows.whole = whole /\ rows \in Rendered
      BY <3>1 DEF Rows, Rendered
    <3> QED
      BY <2>1, <3>2 DEF FileOf
  <2>3. run' = [run EXCEPT ![m] = g]
    BY <2>1
  <2> HIDE DEF rows
  <2>4. /\ g \in [step : Step \ Passive, rows : Rendered \cup {None}, file : Rendered \cup {None}]
        /\ g.step = "rendering" /\ g.rows = rows
    <3>1. run[m] \in [step : Step \ Passive, rows : Rendered \cup {None}, file : Rendered \cup {None}]
      BY <1>2, AtWork DEF Goroutine
    <3> QED
      BY <1>2, <2>2, <3>1
  <2> HIDE DEF g
  <2>5. Reached(g.step) >= Reached(run[m].step) /\ FilesOK(topic[m], g, storage')
    BY <1>1, <2>2, <2>4 DEF Reached, FilesOK
  <2> QED
    BY <1>1, <1>2, <2>3, <2>4, <2>5, QuietStep DEF Goroutine
<1> QED
  BY <1>3, <1>4 DEF RunReport, FailedRun

LEMMA RenderStep ==
    ASSUME IInv, NEW m \in Messages, Render(m)
    PROVE  IInv'
<1>1. /\ run[m].step = "rendering"
      /\ UNCHANGED <<topic, position, committed, up, dead, events, storage, temp>>
  BY DEF Render, At, process
<1>2. run[m].step \notin Passive /\ "failing" \in Step \ Passive /\ "rendered" \in Step \ Passive
  BY <1>1 DEF Passive, Step
<1>3. CASE GoTo(m, "failing")
  <2>1. PICK g \in Goroutine : run' = [run EXCEPT ![m] = g] /\ g.step = "failing"
    BY <1>2, <1>3, AtNextStep
  <2>2. Reached(g.step) >= Reached(run[m].step) /\ FilesOK(topic[m], g, storage')
    BY <1>1, <2>1 DEF Reached, FilesOK
  <2> QED
    BY <1>1, <1>2, <2>1, <2>2, QuietStep
<1>4. CASE run' = [run EXCEPT ![m] = [run[m] EXCEPT !.step = "rendered", !.file = run[m].rows]]
  <2> DEFINE g == [run[m] EXCEPT !.step = "rendered", !.file = run[m].rows]
  <2>1. FileOf(topic[m], run[m].rows)
    BY <1>1, <1>2, AtWork DEF FilesOK
  <2>2. /\ g \in [step : Step \ Passive, rows : Rendered \cup {None}, file : Rendered \cup {None}]
        /\ g.step = "rendered" /\ g.rows = run[m].rows /\ g.file = run[m].rows
    <3>1. run[m] \in [step : Step \ Passive, rows : Rendered \cup {None}, file : Rendered \cup {None}]
      BY <1>2, AtWork DEF Goroutine
    <3> QED
      BY <1>2, <3>1
  <2>3. run' = [run EXCEPT ![m] = g]
    BY <1>4
  <2> HIDE DEF g
  <2>4. Reached(g.step) >= Reached(run[m].step) /\ FilesOK(topic[m], g, storage')
    BY <1>1, <2>1, <2>2 DEF Reached, FilesOK
  <2> QED
    BY <1>1, <1>2, <2>2, <2>3, <2>4, QuietStep DEF Goroutine
<1> QED
  BY <1>3, <1>4 DEF Render

LEMMA UploadStep ==
    ASSUME IInv, NEW m \in Messages, Upload(m)
    PROVE  IInv'
<1>1. /\ run[m].step = "uploading"
      /\ UNCHANGED <<topic, position, committed, up, dead, events, temp>>
  BY DEF Upload, At, process
<1>2. PICK step \in {"uploaded", "failing"} :
        /\ GoTo(m, step)
        /\ \/ UNCHANGED storage /\ step = "failing"
           \/ storage' = [storage EXCEPT ![topic[m].job] = run[m].file]
  BY DEF Upload
<1>3. run[m].step \notin Passive /\ step \in Step \ Passive
  BY <1>1, <1>2 DEF Passive, Step
<1>4. PICK g \in Goroutine : /\ run' = [run EXCEPT ![m] = g]
                             /\ g.step = step /\ g.rows = run[m].rows /\ g.file = run[m].file
  BY <1>2, <1>3, AtNextStep
<1>5. FileOf(topic[m], run[m].rows) /\ FileOf(topic[m], run[m].file)
  BY <1>1, <1>3, AtWork DEF FilesOK
<1>6. step = "uploaded" => storage'[topic[m].job] # None
  BY <1>2, <1>3, <1>5, AtWork, NoneAssumption DEF IInv, Types, FileOf
<1>7. Reached(g.step) >= Reached(run[m].step) /\ FilesOK(topic[m], g, storage')
  BY <1>1, <1>2, <1>4, <1>5, <1>6 DEF Reached, FilesOK
<1> QED
  BY <1>1, <1>2, <1>3, <1>4, <1>5, <1>7, QuietStep

\* The last event of a run.
LEMMA EndStep ==
    ASSUME IInv, NEW m \in Messages, Complete(m) \/ HandleError(m)
    PROVE  IInv'
<1>1. /\ run[m].step \in {"uploaded", "failing"}
      /\ UNCHANGED <<topic, position, committed, up, dead, storage>>
      /\ temp' = temp \ {m} /\ run' = [run EXCEPT ![m] = [step |-> "ended"]]
  BY DEF Complete, HandleError, At, process, End
<1>2. PICK e \in StatusEvent :
        /\ SendStatus(m, e)
        /\ e.percent = 100 \/ e.status = "FAILED"
        /\ e.status = "COMPLETED" => run[m].step = "uploaded"
  <2>1. CASE Complete(m)
    <3>1. topic[m].job \in Job
      BY <1>1, AtWork DEF Passive
    <3> QED
      BY <2>1, <3>1 DEF Complete, At, Event, StatusEvent
  <2>2. CASE HandleError(m)
    BY <2>2 DEF HandleError, Event, StatusEvent
  <2> QED
    BY <2>1, <2>2
<1>3. run[m].step \notin Passive
  BY <1>1 DEF Passive
<1>4. PICK evs \in {events[m], Append(events[m], e)} : events' = [events EXCEPT ![m] = evs]
  BY <1>2, <1>3, Sent
<1>5. /\ events[m] \in Seq(StatusEvent) /\ Advancing(events[m])
      /\ \A n \in DOMAIN events[m] :
            ~Terminal(events[m][n]) /\ (events[m][n].percent < e.percent \/ e.status = "FAILED")
  <2>1. ASSUME NEW n \in DOMAIN events[m] PROVE events[m][n].percent < 100
    BY <1>3, <2>1, AtWork, ReachedNumbers
  <2> QED
    BY <1>2, <1>3, <2>1, AtWork
<1>6. /\ evs \in Seq(StatusEvent) /\ Advancing(evs)
      /\ \A n \in DOMAIN evs : evs[n] = e \/ ~Terminal(evs[n])
  <2>1. CASE evs = events[m]
    BY <1>5, <2>1
  <2>2. CASE evs = Append(events[m], e)
    <3>1. Advancing(evs)
      BY <1>5, <2>2, AppendEvent
    <3>2. /\ evs \in Seq(StatusEvent) /\ Len(evs) = Len(events[m]) + 1
          /\ evs[Len(events[m]) + 1] = e
          /\ \A n \in 1 .. Len(events[m]) : evs[n] = events[m][n]
      BY <1>5, <2>2, AppendToSeq
    <3>3. /\ DOMAIN evs = 1 .. Len(evs) /\ DOMAIN events[m] = 1 .. Len(events[m])
          /\ Len(events[m]) \in Nat
      BY <1>5, <3>2
    <3>4. \A n \in DOMAIN evs : evs[n] = e \/ ~Terminal(evs[n])
      BY <1>5, <3>2, <3>3
    <3> QED
      BY <3>1, <3>2, <3>4
  <2> QED
    BY <2>1, <2>2
<1> DEFINE g == [step |-> "ended"]
<1>7. g \in Goroutine /\ g.step = "ended" /\ g.step \in Passive
  BY DEF Goroutine, Passive
<1>8. run' = [run EXCEPT ![m] = g]
  BY <1>1
<1> HIDE DEF g
<1>9. run[m].step = "uploaded" => storage[topic[m].job] # None
  BY <1>3, AtWork DEF FilesOK
<1>10. CompletedOK(topic[m], evs, storage')
  BY <1>1, <1>2, <1>3, <1>6, <1>9, AtWork DEF CompletedOK, Terminal
<1>11. FilesOK(topic[m], g, storage') /\ EventsOK(g, evs)
  BY <1>6, <1>7 DEF FilesOK, EventsOK
<1>12. MessageOK(topic[m], g, evs, storage')
  BY <1>7, <1>10, <1>11 DEF MessageOK
<1>13. temp' \subseteq temp \cup {m} /\ m \notin temp' /\ g.step # "waiting"
  BY <1>1, <1>7
<1> QED
  BY <1>1, <1>3, <1>4, <1>6, <1>7, <1>8, <1>12, <1>13, JobStep

-----------------------------------------------------------------------------
(* The topic and the process *)

\* A new message has not been read and has no events.
LEMMA SubmitStep ==
    ASSUME IInv, NEW r \in Request, Submit(r)
    PROVE  IInv'
<1> DEFINE g == [step |-> "waiting"]
           none == <<>>
<1>1. Types /\ Messages = 1 .. Len(topic) /\ Len(topic) \in Nat
  BY DEF IInv, Types, Messages
<1>2. /\ g \in Goroutine /\ g.step = "waiting" /\ none \in Seq(StatusEvent)
      /\ g.step \in Passive /\ DOMAIN none = {} /\ Len(none) = 0
  BY DEF Goroutine, Passive
<1>3. topic' = Append(topic, r) /\ run' = Append(run, g) /\ events' = Append(events, none)
  BY DEF Submit
<1>4. MessageOK(r, g, none, storage)
  BY <1>2 DEF MessageOK, FilesOK, EventsOK, CompletedOK, Advancing
<1> HIDE DEF g, none
<1> DEFINE l == Len(topic)
<1>5. /\ topic' \in Seq(Request) /\ Len(topic') = l + 1 /\ topic'[l + 1] = r
      /\ \A n \in 1 .. l : topic'[n] = topic[n]
  BY <1>1, <1>3, AppendToSeq DEF Types
<1>6. /\ run' \in Seq(Goroutine) /\ Len(run') = l + 1 /\ run'[l + 1] = g
      /\ \A n \in 1 .. l : run'[n] = run[n]
  BY <1>1, <1>2, <1>3, AppendToSeq DEF Types
<1>7. /\ events' \in Seq(Seq(StatusEvent)) /\ Len(events') = l + 1 /\ events'[l + 1] = none
      /\ \A n \in 1 .. l : events'[n] = events[n]
  BY <1>1, <1>2, <1>3, AppendToSeq DEF Types
<1>8. Messages' = Messages \cup {l + 1} /\ l \in Nat
  BY <1>1, <1>5 DEF Messages
<1>9. UNCHANGED <<position, committed, storage, dead, temp, up>>
  BY DEF Submit
<1> HIDE DEF l
<1>10. Types'
  <2>1. Len(topic) = l
    BY DEF l
  <2>2. position' \in 0 .. Len(topic') /\ committed' \in 0 .. Len(topic')
    BY <1>1, <1>5, <1>8, <1>9, <2>1 DEF Types
  <2> QED
    BY <1>1, <1>5, <1>6, <1>7, <1>8, <1>9, <2>2 DEF Types
<1>11. ASSUME NEW n \in Messages'
       PROVE  /\ MessageOK(topic'[n], run'[n], events'[n], storage')
              /\ run'[n].step # "waiting" => n \in Messages /\ run[n].step # "waiting"
  <2>1. CASE n = l + 1
    BY <1>2, <1>4, <1>5, <1>6, <1>7, <1>9, <2>1
  <2>2. CASE n # l + 1
    <3>1. n \in Messages /\ n \in 1 .. l
      BY <1>1, <1>8, <2>2 DEF l
    <3> QED
      BY <1>5, <1>6, <1>7, <1>9, <3>1 DEF IInv
  <2> QED
    BY <2>1, <2>2
<1>12. Offsets'
  BY <1>9, <1>11 DEF IInv, Offsets
<1>13. Stored'
  BY <1>9 DEF IInv, Stored
<1>14. TempOK'
  BY <1>1, <1>6, <1>8, <1>9 DEF IInv, TempOK, Types, l
<1> QED
  BY <1>10, <1>11, <1>12, <1>13, <1>14 DEF IInv

\* The next message has not been read before.
LEMMA NextUnread ==
    ASSUME IInv, Readable
    PROVE  /\ NextOffset \in Messages /\ NextOffset > committed /\ NextOffset > position
           /\ run[NextOffset].step = "waiting"
<1>1. /\ position \in 0 .. Len(topic) /\ committed \in 0 .. Len(topic)
      /\ position < Len(topic) /\ committed <= position
      /\ Len(topic) \in Nat
  BY DEF IInv, Types, Offsets, Readable
<1>2. NextOffset \in Messages /\ NextOffset > committed /\ NextOffset > position
  BY <1>1 DEF NextOffset, Messages
<1>3. ~(NextOffset <= committed)
  BY <1>1 DEF NextOffset
<1> QED
  BY <1>2, <1>3 DEF IInv, Offsets

LEMMA ReadStep ==
    ASSUME IInv, ReadRequest
    PROVE  IInv'
<1> DEFINE m == NextOffset
           g == [step |-> "loading", rows |-> None, file |-> None]
<1>1. /\ run' = [run EXCEPT ![m] = g] /\ topic[m] # Undecodable
      /\ committed' = m /\ position' = m /\ Readable
      /\ UNCHANGED <<topic, events, storage, dead, temp, up>>
  BY DEF ReadRequest, CommitOffset
<1>2. m \in Messages /\ m > committed /\ m > position /\ run[m].step = "waiting"
  BY <1>1, NextUnread
<1>3. g \in Goroutine /\ g.step = "loading" /\ g.step \notin Passive
  BY DEF Goroutine, Passive, Step
<1> HIDE DEF m, g
<1>4. Types /\ Messages = 1 .. Len(topic) /\ Messages' = Messages /\ Len(topic) \in Nat
  BY <1>1 DEF IInv, Messages, Types
<1>5. /\ run' \in Seq(Goroutine) /\ Len(run') = Len(run) /\ run'[m] = g
      /\ \A n \in Messages : n # m => run'[n] = run[n]
  BY <1>1, <1>2, <1>3, <1>4, ReplaceInSeq DEF Types
<1>6. m \in 0 .. Len(topic)
  BY <1>2, <1>4
<1>7. Types'
  BY <1>1, <1>4, <1>5, <1>6 DEF Types
<1>8. MessageOK(topic[m], g, events[m], storage)
  <2>1. MessageOK(topic[m], run[m], events[m], storage)
    BY <1>2 DEF IInv
  <2>2. events[m] = <<>>
    BY <1>2, <2>1 DEF MessageOK, EventsOK
  <2> QED
    BY <1>1, <1>3, <2>1, <2>2 DEF MessageOK, FilesOK, EventsOK
<1>9. \A n \in Messages : MessageOK(topic[n], run'[n], events[n], storage)
  BY <1>5, <1>8 DEF IInv
<1>10. Offsets'
  <2>1. ASSUME NEW n \in Messages, run'[n].step # "waiting" PROVE n <= m
    <3>1. n = m \/ n <= committed
      BY <1>5, <2>1 DEF IInv, Offsets
    <3>2. n \in Nat /\ m \in Nat /\ committed \in Nat
      BY <1>2, <1>4 DEF Types
    <3> QED
      BY <1>2, <3>1, <3>2
  <2>2. m <= m
    BY <1>6, <1>4
  <2> QED
    BY <1>1, <1>4, <2>1, <2>2 DEF Offsets
<1>11. TempOK'
  BY <1>1, <1>2, <1>3, <1>4, <1>5 DEF IInv, TempOK, Types, Passive
<1> QED
  BY <1>1, <1>4, <1>7, <1>9, <1>10, <1>11 DEF IInv, Stored

\* Steps that touch no goroutine.
LEMMA OffsetStep ==
    ASSUME IInv, UNCHANGED <<topic, run, events, storage, temp>>,
           dead' \subseteq Messages, up' \in {"up", "stopping", "down"},
           position' \in 0 .. Len(topic), committed' \in 0 .. Len(topic), committed' >= committed,
           up' # "down" => committed' <= position'
    PROVE  IInv'
<1>1. Types' /\ Messages' = Messages
  BY DEF IInv, Types, Messages
<1>2. Offsets'
  <2>1. ASSUME NEW n \in Messages, run[n].step # "waiting" PROVE n <= committed'
    BY <2>1 DEF IInv, Offsets, Types, Messages
  <2> QED
    BY <1>1, <2>1 DEF Offsets
<1> QED
  BY <1>1, <1>2 DEF IInv, Stored, TempOK

LEMMA ProcessStep ==
    ASSUME IInv, ReadUndecodable \/ DropUncommitted \/ Terminate \/ Restart
    PROVE  IInv'
<1>1. /\ position \in 0 .. Len(topic) /\ committed \in 0 .. Len(topic) /\ Len(topic) \in Nat
      /\ dead \subseteq Messages /\ up \in {"up", "stopping", "down"}
      /\ (up # "down" => committed <= position)
  BY DEF IInv, Types, Offsets
<1>2. CASE ReadUndecodable
  <2>1. NextOffset \in Messages /\ NextOffset > committed
    BY <1>2, NextUnread DEF ReadUndecodable
  <2>2. /\ committed' = NextOffset /\ position' = NextOffset /\ dead' \subseteq Messages
        /\ UNCHANGED <<topic, run, events, storage, temp, up>>
    BY <1>1, <1>2, <2>1 DEF ReadUndecodable, CommitOffset
  <2>3. /\ position' \in 0 .. Len(topic) /\ committed' \in 0 .. Len(topic)
        /\ committed' >= committed /\ committed' <= position'
    BY <1>1, <2>1, <2>2 DEF Messages
  <2> QED
    BY <1>1, <2>2, <2>3, OffsetStep
<1>3. CASE DropUncommitted
  <2>1. NextOffset \in Messages /\ NextOffset > committed
    BY <1>3, NextUnread DEF DropUncommitted
  <2>2. /\ position' = NextOffset
        /\ UNCHANGED <<topic, run, events, storage, temp, up, committed, dead>>
    BY <1>3 DEF DropUncommitted
  <2>3. position' \in 0 .. Len(topic) /\ committed' >= committed /\ committed' <= position'
    BY <1>1, <2>1, <2>2 DEF Messages
  <2> QED
    BY <1>1, <2>2, <2>3, OffsetStep
<1>4. CASE Terminate
  <2>1. up = "up" /\ up' = "stopping"
        /\ UNCHANGED <<topic, run, events, storage, temp, position, committed, dead>>
    BY <1>4 DEF Terminate
  <2> QED
    BY <1>1, <2>1, OffsetStep
<1>5. CASE Restart
  <2>1. up' = "up" /\ position' = committed
        /\ UNCHANGED <<topic, run, events, storage, temp, committed, dead>>
    BY <1>5 DEF Restart
  <2> QED
    BY <1>1, <2>1, OffsetStep
<1> QED
  BY <1>2, <1>3, <1>4, <1>5

\* A stop ends what runs, and leaves its directories on disk.
LEMMA ExitStep ==
    ASSUME IInv, Exit
    PROVE  IInv'
<1>1. /\ run' = [m \in Messages |-> IF run[m].step \in {"waiting", "ended"} THEN run[m]
                                                                        ELSE [step |-> "lost"]]
      /\ up' = "down" /\ UNCHANGED <<topic, position, committed, events, storage, dead, temp>>
  BY DEF Exit
<1>2. Types /\ Messages = 1 .. Len(topic) /\ Messages' = Messages /\ Len(topic) \in Nat
  BY <1>1 DEF IInv, Types, Messages
<1> DEFINE lost == [step |-> "lost"]
<1>3. lost \in Goroutine /\ lost.step = "lost" /\ "lost" \in Passive
  BY DEF Goroutine, Passive
<1> HIDE DEF lost
<1>4. \A m \in Messages :
        run'[m] = IF run[m].step \in {"waiting", "ended"} THEN run[m] ELSE lost
  BY <1>1 DEF lost
<1>5. run' \in Seq(Goroutine) /\ Len(run') = Len(topic)
  <2>0. \A m \in Messages : run[m] \in Goroutine
    BY <1>2 DEF Types
  <2>1. \A m \in Messages : run'[m] \in Goroutine
    BY <2>0, <1>3, <1>4
  <2>2. DOMAIN run' = 1 .. Len(topic) /\ run' \in [1 .. Len(topic) -> Goroutine]
    BY <1>1, <1>2, <2>1
  <2> QED
    BY <1>2, <2>2
<1>6. Types'
  BY <1>1, <1>2, <1>5 DEF Types
<1>7. \A m \in Messages : MessageOK(topic[m], run'[m], events[m], storage)
  BY <1>3, <1>4 DEF IInv, MessageOK, FilesOK, EventsOK
<1>8. Offsets' /\ TempOK'
  BY <1>1, <1>2, <1>3, <1>4 DEF IInv, Offsets, TempOK, Types
<1> QED
  BY <1>1, <1>2, <1>6, <1>7, <1>8 DEF IInv, Stored

-----------------------------------------------------------------------------
(* The theorems *)

LEMMA NextIInv == IInv /\ [Next]_vars => IInv'
<1> SUFFICES ASSUME IInv, [Next]_vars PROVE IInv'
  OBVIOUS
<1>1. ASSUME NEW m \in Messages, ProcessJob(m) PROVE IInv'
  BY <1>1, AnnounceStep, OpenStep, RunReportStep, RenderStep, UploadStep, EndStep
     DEF ProcessJob
<1>2. CASE UNCHANGED vars
  BY <1>2 DEF vars, IInv, Types, Offsets, Stored, TempOK, Messages
<1> QED
  BY <1>1, <1>2, SubmitStep, ReadStep, ProcessStep, ExitStep DEF Next

\* The invariant holds of every behaviour.
THEOREM Invariance == Spec => []IInv
  BY InitIInv, NextIInv, PTL DEF Spec

\* Types, and whose temporary directories are on disk.
THEOREM TypeCorrect == Spec => []TypeOK
<1>1. IInv => TypeOK
  BY IInvImplies
<1> QED
  BY <1>1, Invariance, PTL

\* A COMPLETED event names an object with every row of the report, whatever
\* failed on the way and whatever a later run of the job did to the object.
THEOREM CompletionIsWhole == Spec => []CompletedFilesWhole
<1>1. IInv => CompletedFilesWhole
  BY IInvImplies
<1> QED
  BY <1>1, Invariance, PTL

\* No stored report shows a sensitive column to a requester who may not see it.
THEOREM SensitiveStaysHidden == Spec => []SensitiveHidden
<1>1. IInv => SensitiveHidden
  BY IInvImplies
<1> QED
  BY <1>1, Invariance, PTL

\* The events of a run advance, and COMPLETED or FAILED is its last.
THEOREM EventsEndOnce == Spec => []OneEnding
<1>1. IInv => OneEnding
  BY IInvImplies
<1> QED
  BY <1>1, Invariance, PTL

LEMMA LoadingOnce ==
    ASSUME IInv, [Next]_vars, NEW m \in Messages, run'[m].step = "loading"
    PROVE  run[m].step \in {"waiting", "loading"}
<1>1. DOMAIN run = Messages
  BY DEF IInv, Types, Messages
<1>2. CASE ReadRequest
  BY <1>1, <1>2, NextUnread DEF ReadRequest
<1>3. ASSUME NEW n \in Messages, ProcessJob(n) PROVE run[m].step \in {"waiting", "loading"}
  <2>1. DOMAIN run[n] = {"step", "rows", "file"}
    <3>1. run[n].step \notin Passive
      BY <1>3 DEF ProcessJob, AnnounceLoading, Open, AnnounceQuerying, RunReport, Render,
         AnnounceUploading, Upload, Complete, HandleError, At, Passive
    <3> QED
      BY <3>1, AtWork
  <2>2. ASSUME NEW g, run' = [run EXCEPT ![n] = g], g.step # "loading"
        PROVE  run[m].step \in {"waiting", "loading"}
    BY <1>1, <2>2
  <2>3. ASSUME NEW step \in Step \ {"loading"}, GoTo(n, step)
        PROVE  run[m].step \in {"waiting", "loading"}
    <3> DEFINE g == [run[n] EXCEPT !.step = step]
    <3>1. run' = [run EXCEPT ![n] = g] /\ g.step = step
      BY <2>1, <2>3 DEF GoTo
    <3> HIDE DEF g
    <3> QED
      BY <2>2, <3>1
  <2>4. ASSUME NEW step \in Step \ {"loading"}, NEW rows,
               run' = [run EXCEPT ![n] = [run[n] EXCEPT !.step = step, !.rows = rows]]
        PROVE  run[m].step \in {"waiting", "loading"}
    <3> DEFINE g == [run[n] EXCEPT !.step = step, !.rows = rows]
    <3>1. run' = [run EXCEPT ![n] = g] /\ g.step = step
      BY <2>1, <2>4
    <3> HIDE DEF g
    <3> QED
      BY <2>2, <3>1
  <2>5. ASSUME NEW step \in Step \ {"loading"}, NEW file,
               run' = [run EXCEPT ![n] = [run[n] EXCEPT !.step = step, !.file = file]]
        PROVE  run[m].step \in {"waiting", "loading"}
    <3> DEFINE g == [run[n] EXCEPT !.step = step, !.file = file]
    <3>1. run' = [run EXCEPT ![n] = g] /\ g.step = step
      BY <2>1, <2>5
    <3> HIDE DEF g
    <3> QED
      BY <2>2, <3>1
  <2>6. ASSUME End(n) PROVE run[m].step \in {"waiting", "loading"}
    BY <2>2, <2>6 DEF End
  <2>7. CASE AnnounceLoading(n) \/ Open(n) \/ AnnounceQuerying(n) \/ AnnounceUploading(n) \/ Upload(n)
    BY <2>3, <2>7 DEF AnnounceLoading, Open, AnnounceQuerying, AnnounceUploading, Upload, Step
  <2>8. CASE RunReport(n)
    BY <2>3, <2>4, <2>8 DEF RunReport, FailedRun, Step
  <2>9. CASE Render(n)
    BY <2>3, <2>5, <2>9 DEF Render, Step
  <2> QED
    BY <1>3, <2>6, <2>7, <2>8, <2>9 DEF ProcessJob, Complete, HandleError
<1>4. ASSUME NEW r \in Request, Submit(r) PROVE run[m].step \in {"waiting", "loading"}
  <2>1. run'[m] = run[m]
    BY <1>4, AppendToSeq DEF Submit, IInv, Types, Messages
  <2> QED
    BY <2>1
<1>5. CASE Exit
  BY <1>1, <1>5 DEF Exit
<1>6. CASE UNCHANGED run
  BY <1>6
<1> QED
  BY <1>2, <1>3, <1>4, <1>5, <1>6
     DEF Next, vars, ReadUndecodable, DropUncommitted, Terminate, Restart

\* A message is processed at most once, also across restarts.
THEOREM ProcessedOnce == Spec => RunsOnce
<1>1. IInv /\ [Next]_vars =>
        [\A m \in Messages : run'[m].step = "loading" => run[m].step \in {"waiting", "loading"}]_vars
  BY LoadingOnce
<1> QED
  BY <1>1, Invariance, PTL DEF Spec, RunsOnce
=============================================================================
