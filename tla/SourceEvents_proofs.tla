------------------------ MODULE SourceEvents_proofs -------------------------
(***************************************************************************)
(* The safety of the source events, for every number of sources,           *)
(* partitions, deliveries, faults and rebuilds.                            *)
(*                                                                         *)
(* What an event in hand has achieved is kept by ProgressOK: an event that *)
(* is about to be committed is stale, was refused or has its rows in the   *)
(* ledger, and neither changes nor rebuilds nor other consumers undo that, *)
(* because versions, dead letters and the keys of the ledger only grow.    *)
(*                                                                         *)
(* What orders earn together needs a second invariant, MonthInv: among     *)
(* orders whose newest events all passed the checks, the last to have its  *)
(* month loaded saw the others, so what they are due by themselves is in   *)
(* the ledger or about to be put.  Later orders only add to the revenue,   *)
(* which takes the facts on totals below.                                  *)
(*                                                                         *)
(* That the rows also have the amounts of their sources takes a third      *)
(* invariant, AmountInv.  Other writers, the rebuild and the consumers of  *)
(* other partitions, may put old rows at any time; what is proved is that  *)
(* every wrong row was last put by one of them.                            *)
(***************************************************************************)
EXTENDS SourceEvents, FiniteSetTheorems, TLAPS

-----------------------------------------------------------------------------
(* Types *)

LEMMA NatOrder ==
    \A m, n \in Nat : m > n \/ m < n \/ m = n
  BY SMT

LEMMA AtLeast ==
    \A m, n \in Nat : m >= n => m > n \/ m = n
  BY SMT

LEMMA HistoryTypes ==
    ASSUME NEW s \in Source
    PROVE  /\ Len(History[s]) \in Nat /\ DOMAIN History[s] = 1 .. Len(History[s])
           /\ \A v \in 1 .. Len(History[s]) : History[s][v] \in SourceState
           /\ PartitionOf[s] \in Partition
<1>1. History[s] \in Seq(SourceState) /\ PartitionOf[s] \in Partition
  BY ConstantsAssumption
<1> QED
  BY <1>1

EventDocument == [source : Source, version : Nat, date : Nat]

EventOK(e) == e.source \in Source /\ e.version \in DOMAIN History[e.source]
              /\ e = Event(e.source, e.version)

LEMMA EventTypes ==
    ASSUME NEW s \in Source, NEW v \in DOMAIN History[s]
    PROVE  LET e == Event(s, v)
           IN  /\ e \in EventDocument /\ EventOK(e)
               /\ e.source = s /\ e.version = v /\ e.date = History[s][v].date
               /\ e.date \in Nat \ {0}
<1>1. v \in Nat /\ History[s][v] \in SourceState
  BY HistoryTypes
<1>2. History[s][v].date \in Nat \ {0}
  BY <1>1 DEF SourceState
<1> QED
  BY <1>1, <1>2 DEF Event, EventDocument, EventOK

\* A row that is to be put, and one in the ledger.
DocumentOK(row) ==
    /\ DOMAIN row = {"date", "amount", "settled", "revenue"}
    /\ row.amount \in Nat \ {0} /\ row.settled \in BOOLEAN

RowOK(r) == r.key \in Key /\ DocumentOK(r.row)

SourceOK(x) == x.id \in Source /\ x.state \in SourceState

LEMMA ReadTypes ==
    ASSUME \A s \in Source : version[s] \in 0 .. Len(History[s]), NEW S \in SUBSET Source,
           NEW x \in Read(S)
    PROVE  SourceOK(x)
<1>1. PICK s \in S : version[s] > 0 /\ x = [id |-> s, state |-> History[s][version[s]]]
  BY DEF Read
<1>2. History[s][version[s]] \in SourceState
  BY <1>1, HistoryTypes
<1> QED
  BY <1>1, <1>2 DEF SourceOK

LEMMA SourceKeys ==
    ASSUME NEW x, SourceOK(x)
    PROVE  <<x.id, "own">> \in Key /\ <<x.id, "general">> \in Key
           /\ x.state.own \in Nat /\ x.state.general \in Nat /\ x.state.paid \in BOOLEAN
           /\ x.state.date \in Nat \ {0}
  BY DEF SourceOK, SourceState, Key

LEMMA OwnRowTypes ==
    ASSUME NEW S, \A x \in S : SourceOK(x), NEW r \in OwnRows(S)
    PROVE  RowOK(r)
<1>1. PICK x \in S : r = OwnRow(x) /\ r.row.amount # 0
  BY DEF OwnRows, Nonzero
<1>2. /\ r.key = <<x.id, "own">> /\ r.row.amount = x.state.own
      /\ r.row.settled = x.state.paid
      /\ DOMAIN r.row = {"date", "amount", "settled", "revenue"}
  BY <1>1 DEF OwnRow, Row
<1>3. SourceOK(x)
  BY <1>1
<1>4. r.key \in Key
  BY <1>2, <1>3, SourceKeys
<1>5. r.row.amount \in Nat \ {0}
  BY <1>1, <1>2, <1>3, SourceKeys
<1>6. r.row.settled \in BOOLEAN
  BY <1>2, <1>3, SourceKeys
<1> QED
  BY <1>2, <1>4, <1>5, <1>6 DEF RowOK, DocumentOK

LEMMA GeneralRowTypes ==
    ASSUME NEW S, \A x \in S : SourceOK(x), NEW orders, NEW r \in GeneralRows(orders, S)
    PROVE  RowOK(r)
<1>1. PICK x \in S : r = GeneralRow(x) /\ r.row.amount # 0
  BY DEF GeneralRows, Nonzero
<1>2. /\ r.key = <<x.id, "general">> /\ r.row.amount = x.state.general
      /\ r.row.settled = x.state.paid
      /\ DOMAIN r.row = {"date", "amount", "settled", "revenue"}
  BY <1>1 DEF GeneralRow, Row
<1>3. SourceOK(x)
  BY <1>1
<1>4. r.key \in Key
  BY <1>2, <1>3, SourceKeys
<1>5. r.row.amount \in Nat \ {0}
  BY <1>1, <1>2, <1>3, SourceKeys
<1>6. r.row.settled \in BOOLEAN
  BY <1>2, <1>3, SourceKeys
<1> QED
  BY <1>2, <1>4, <1>5, <1>6 DEF RowOK, DocumentOK

LEMMA MonthTypes ==
    ASSUME NEW d \in Nat \ {0}
    PROVE  Month(d) \in Nat
<1>1. d - 1 \in Nat /\ MonthLength \in Nat /\ MonthLength > 0
  BY ConstantsAssumption
<1>2. \A m, n \in Nat : n > 0 => m \div n \in Nat
  BY SMT
<1> QED
  BY <1>1, <1>2 DEF Month

LEMMA BonusRowTypes ==
    ASSUME NEW orders, NEW d \in Nat \ {0}, NEW r \in BonusRows(orders, d)
    PROVE  RowOK(r)
<1>1. r = BonusRow(d, Revenue(orders, d)) /\ r.row.amount # 0
  BY DEF BonusRows, Nonzero
<1>2. <<Month(d), "target_bonus">> \in Key
  BY MonthTypes DEF Key
<1>3. /\ r.key = <<Month(d), "target_bonus">> /\ r.row.amount = Bonus
      /\ r.row.settled = FALSE
      /\ DOMAIN r.row = {"date", "amount", "settled", "revenue"}
  BY <1>1 DEF BonusRow, Row
<1>4. Bonus \in Nat
  BY ConstantsAssumption
<1>5. r.row.amount \in Nat \ {0}
  BY <1>1, <1>3, <1>4
<1> QED
  BY <1>2, <1>3, <1>5 DEF RowOK, DocumentOK

SourcesOK == DOMAIN version = Source /\ \A s \in Source : version[s] \in 0 .. Len(History[s])

TopicOK ==
    /\ DOMAIN topic = Partition /\ DOMAIN committed = Partition
    /\ \A p \in Partition :
          /\ topic[p] \in Seq(EventDocument)
          /\ \A n \in 1 .. Len(topic[p]) :
                EventOK(topic[p][n]) /\ PartitionOf[topic[p][n].source] = p
          /\ committed[p] \in 0 .. Len(topic[p])

ConsumerOK(p) ==
    LET c == consumer[p]
    IN  \/ c = Idle
        \/ /\ DOMAIN c = {"at", "event", "todo", "conflicts"}
           /\ c.at \in Step \ {"fetch"}
           /\ committed[p] < Len(topic[p]) /\ c.event = topic[p][committed[p] + 1]
           /\ c.conflicts \in BOOLEAN
           /\ \A r \in c.todo : RowOK(r)

ConsumersOK == DOMAIN consumer = Partition /\ \A p \in Partition : ConsumerOK(p)

RebuildOK ==
    \/ rebuild = NoRebuild
    \/ /\ DOMAIN rebuild = {"at", "from", "to", "todo"}
       /\ rebuild.at \in {"orders?", "orders", "trips?", "trips"}
       /\ rebuild.from \in Nat \ {0} /\ rebuild.to \in Nat \ {0}
       /\ \A r \in rebuild.todo : RowOK(r)

LedgerOK == DOMAIN ledger \subseteq Key /\ \A k \in DOMAIN ledger : DocumentOK(ledger[k])

BoundsOK == closed \subseteq ClosePeriods /\ rebuilds \in 0 .. MaxRebuilds /\ faults \in 0 .. MaxFaults

Types == SourcesOK /\ TopicOK /\ ConsumersOK /\ RebuildOK /\ LedgerOK /\ BoundsOK

-----------------------------------------------------------------------------
(* What has become of an event *)

Materialized(s) == \A r \in OwnRows({Current(s)}) : r.key \in DOMAIN ledger

\* The event need not be looked at any more.
Fine(e) ==
    \/ version[e.source] > e.version
    \/ Refused(e)
    \/ version[e.source] = e.version /\ Materialized(e.source)

\* What the consumer of a partition knows of the event in hand.
ProgressOK(p) ==
    LET c == consumer[p]
        e == c.event
    IN  /\ c.at \in {"closed?", "source?", "context?"} => ~c.conflicts
        /\ c.at \in {"context?", "put"} =>
              /\ version[e.source] >= e.version
              /\ version[e.source] = e.version =>
                    \A r \in OwnRows({Current(e.source)}) :
                        r.key \in DOMAIN ledger \/ \E t \in c.todo : t.key = r.key
        /\ c.at = "dead letter" => ~c.conflicts \/ Fine(e)
        /\ c.at = "commit" => Fine(e)

CommittedFine(p) == \A n \in 1 .. committed[p] : Fine(topic[p][n])

IInv == Types /\ \A p \in Partition : ProgressOK(p) /\ CommittedFine(p)

LEMMA InitIInv == Init => IInv
<1> SUFFICES ASSUME Init PROVE IInv
  OBVIOUS
<1>1. SourcesOK
  BY HistoryTypes DEF Init, SourcesOK
<1>2. TopicOK
  BY DEF Init, TopicOK
<1>3. ConsumersOK /\ RebuildOK
  BY DEF Init, ConsumersOK, ConsumerOK, RebuildOK
<1>4. LedgerOK
  BY DEF Init, LedgerOK
<1>5. BoundsOK
  BY ConstantsAssumption DEF Init, BoundsOK
<1>6. \A p \in Partition : ProgressOK(p) /\ CommittedFine(p)
  <2> SUFFICES ASSUME NEW p \in Partition PROVE ProgressOK(p) /\ CommittedFine(p)
    OBVIOUS
  <2>1. consumer[p] = Idle /\ Idle.at = "fetch" /\ committed[p] = 0
    BY DEF Init, Idle
  <2> QED
    BY <2>1 DEF ProgressOK, CommittedFine
<1> QED
  BY <1>1, <1>2, <1>3, <1>4, <1>5, <1>6 DEF IInv, Types

\* Versions, dead letters and the keys of the ledger only grow; what was
\* delivered stays where it is.
Grows ==
    /\ \A s \in Source : version[s] <= version'[s]
    /\ deadLetters \subseteq deadLetters'
    /\ DOMAIN ledger \subseteq DOMAIN ledger'
    /\ \A p \in Partition : /\ Len(topic[p]) <= Len(topic'[p])
                            /\ \A n \in 1 .. Len(topic[p]) : topic'[p][n] = topic[p][n]

LEMMA FineStays ==
    ASSUME SourcesOK, SourcesOK', Grows
    PROVE  \A e : e.source \in Source /\ e.version \in Nat /\ Fine(e) => Fine(e)'
<1> SUFFICES ASSUME NEW e, e.source \in Source, e.version \in Nat, Fine(e) PROVE Fine(e)'
  OBVIOUS
<1> DEFINE s == e.source
<1>1. version[s] \in Nat /\ version'[s] \in Nat /\ version[s] <= version'[s]
  BY HistoryTypes DEF SourcesOK, Grows
<1>2. CASE version[s] > e.version
  BY <1>1, <1>2 DEF Fine
<1>3. CASE Refused(e)
  BY <1>3 DEF Fine, Refused, Grows
<1>4. CASE version[s] = e.version /\ Materialized(s)
  <2>1. CASE version'[s] = version[s]
    <3>1. Current(s)' = Current(s)
      BY <2>1 DEF Current
    <3>2. OwnRows({Current(s)})' = OwnRows({Current(s)})
      BY <3>1 DEF OwnRows, Nonzero, OwnRow, Row
    <3> QED
      BY <1>4, <2>1, <3>2 DEF Fine, Materialized, Grows
  <2>2. CASE version'[s] > version[s]
    BY <1>1, <1>4, <2>2 DEF Fine
  <2> QED
    BY <1>1, <2>1, <2>2
<1> QED
  BY <1>2, <1>3, <1>4 DEF Fine

LEMMA EventsInTopic ==
    ASSUME TopicOK, NEW p \in Partition, NEW n \in 1 .. Len(topic[p])
    PROVE  topic[p][n].source \in Source /\ topic[p][n].version \in Nat
<1>1. EventOK(topic[p][n])
  BY DEF TopicOK
<1> QED
  BY <1>1, HistoryTypes DEF EventOK

\* What is known of committed events stays known.
LEMMA CommittedStays ==
    ASSUME IInv, SourcesOK', TopicOK', Grows, NEW p \in Partition, committed'[p] = committed[p]
    PROVE  CommittedFine(p)'
<1>1. /\ SourcesOK /\ TopicOK /\ CommittedFine(p)
      /\ committed[p] \in Nat /\ Len(topic[p]) \in Nat /\ committed[p] <= Len(topic[p])
      /\ \A n \in 1 .. Len(topic[p]) : topic'[p][n] = topic[p][n]
  BY DEF IInv, Types, TopicOK, Grows
<1>2. \A n \in 1 .. Len(topic[p]) : topic[p][n].source \in Source /\ topic[p][n].version \in Nat
  BY <1>1, EventsInTopic
<1>3. ASSUME NEW n \in 1 .. committed[p] PROVE Fine(topic[p][n])'
  <2>1. n \in 1 .. Len(topic[p])
    BY <1>1
  <2>2. Fine(topic[p][n])
    BY <1>1 DEF CommittedFine
  <2> QED
    BY <1>1, <1>2, <2>1, <2>2, FineStays
<1> QED
  BY <1>3 DEF CommittedFine

\* A consumer that did nothing keeps what it knows.
LEMMA Bystander ==
    ASSUME IInv, SourcesOK', TopicOK', Grows, NEW p \in Partition,
           consumer'[p] = consumer[p], committed'[p] = committed[p]
    PROVE  ConsumerOK(p)' /\ ProgressOK(p)' /\ CommittedFine(p)'
<1> DEFINE c == consumer[p]
           e == c.event
<1>0. /\ SourcesOK /\ TopicOK /\ ConsumerOK(p) /\ ProgressOK(p) /\ CommittedFine(p)
      /\ committed[p] \in Nat /\ Len(topic[p]) \in Nat /\ Len(topic'[p]) \in Nat
      /\ committed[p] <= Len(topic[p])
      /\ Len(topic[p]) <= Len(topic'[p])
      /\ \A n \in 1 .. Len(topic[p]) : topic'[p][n] = topic[p][n]
  BY DEF IInv, Types, TopicOK, ConsumersOK, Grows
<1>1. \A n \in 1 .. Len(topic[p]) : topic[p][n].source \in Source /\ topic[p][n].version \in Nat
  BY <1>0, EventsInTopic
<1>2. CommittedFine(p)'
  BY CommittedStays
<1>3. ConsumerOK(p)'
  BY <1>0 DEF ConsumerOK
<1>4. ProgressOK(p)'
  <2>1. CASE c = Idle
    BY <2>1 DEF ProgressOK, Idle
  <2>2. CASE c # Idle
    <3>1. e \in {topic[p][n] : n \in 1 .. Len(topic[p])}
      BY <1>0, <2>2 DEF ConsumerOK
    <3>2. e.source \in Source /\ e.version \in Nat
      BY <1>1, <3>1
    <3>3. Fine(e) => Fine(e)'
      BY <1>0, <3>2, FineStays
    <3>4. version[e.source] \in Nat /\ version'[e.source] \in Nat
          /\ version[e.source] <= version'[e.source]
      BY <3>2, HistoryTypes, <1>0 DEF SourcesOK, Grows
    <3>5. c.at \in {"context?", "put"} =>
              /\ version'[e.source] >= e.version
              /\ version'[e.source] = e.version =>
                    \A r \in OwnRows({Current(e.source)})' :
                        r.key \in DOMAIN ledger' \/ \E t \in c.todo : t.key = r.key
      <4> SUFFICES ASSUME c.at \in {"context?", "put"}
                   PROVE  /\ version'[e.source] >= e.version
                          /\ version'[e.source] = e.version =>
                                \A r \in OwnRows({Current(e.source)})' :
                                    r.key \in DOMAIN ledger' \/ \E t \in c.todo : t.key = r.key
        OBVIOUS
      <4>1. /\ version[e.source] >= e.version
            /\ version[e.source] = e.version =>
                  \A r \in OwnRows({Current(e.source)}) :
                      r.key \in DOMAIN ledger \/ \E t \in c.todo : t.key = r.key
        BY <1>0 DEF ProgressOK
      <4>2. version'[e.source] = e.version => version[e.source] = e.version
        BY <3>2, <3>4, <4>1
      <4>3. version'[e.source] = version[e.source] =>
              OwnRows({Current(e.source)})' = OwnRows({Current(e.source)})
        BY DEF Current, OwnRows, Nonzero, OwnRow, Row
      <4>4. DOMAIN ledger \subseteq DOMAIN ledger'
        BY DEF Grows
      <4> QED
        BY <3>2, <3>4, <4>1, <4>2, <4>3, <4>4
    <3> QED
      BY <1>0, <3>3, <3>5 DEF ProgressOK
  <2> QED
    BY <2>1, <2>2
<1> QED
  BY <1>2, <1>3, <1>4

\* A step of somebody else than the consumers.
LEMMA WorldStep ==
    ASSUME IInv, SourcesOK', TopicOK', RebuildOK', LedgerOK', BoundsOK', Grows,
           UNCHANGED <<consumer, committed>>
    PROVE  IInv'
<1>1. \A p \in Partition : ConsumerOK(p)' /\ ProgressOK(p)' /\ CommittedFine(p)'
  BY Bystander
<1> QED
  BY <1>1 DEF IInv, Types, ConsumersOK

\* A consumer's step that does not commit.
LEMMA HandStep ==
    ASSUME IInv, NEW p \in Partition,
           UNCHANGED <<version, topic, committed, rebuild, rebuilds, closed>>,
           deadLetters \subseteq deadLetters', DOMAIN ledger \subseteq DOMAIN ledger',
           LedgerOK', faults' \in 0 .. MaxFaults,
           NEW state, consumer' = [consumer EXCEPT ![p] = state],
           ConsumerOK(p)', ProgressOK(p)'
    PROVE  IInv'
<1>1. SourcesOK' /\ TopicOK' /\ RebuildOK' /\ BoundsOK'
  BY DEF IInv, Types, SourcesOK, TopicOK, RebuildOK, BoundsOK
<1>2. Grows
  <2>1. \A s \in Source : version[s] \in Int
    BY HistoryTypes DEF IInv, Types, SourcesOK
  <2>2. \A q \in Partition : Len(topic[q]) \in Int
    BY DEF IInv, Types, TopicOK
  <2> QED
    BY <2>1, <2>2 DEF Grows
<1>3. DOMAIN consumer' = Partition /\ \A q \in Partition \ {p} : consumer'[q] = consumer[q]
  BY DEF IInv, Types, ConsumersOK
<1>4. \A q \in Partition : q # p => ConsumerOK(q)' /\ ProgressOK(q)' /\ CommittedFine(q)'
  BY <1>1, <1>2, <1>3, Bystander
<1>5. CommittedFine(p)'
  BY <1>1, <1>2, CommittedStays
<1> QED
  BY <1>1, <1>3, <1>4, <1>5 DEF IInv, Types, ConsumersOK

\* The event in hand is the one after the committed offset.
LEMMA InHandFacts ==
    ASSUME IInv, NEW p \in Partition, consumer[p].at # "fetch"
    PROVE  LET c == consumer[p]
               e == InHand(p)
           IN  /\ DOMAIN c = {"at", "event", "todo", "conflicts"} /\ c.at \in Step \ {"fetch"}
               /\ c.conflicts \in BOOLEAN /\ \A r \in c.todo : RowOK(r)
               /\ committed[p] < Len(topic[p]) /\ e = topic[p][committed[p] + 1]
               /\ committed[p] \in Nat /\ Len(topic[p]) \in Nat
               /\ EventOK(e) /\ e.source \in Source /\ e.version \in Nat /\ e.version > 0
               /\ version[e.source] \in 0 .. Len(History[e.source])
               /\ version[e.source] \in Nat
<1>1. consumer[p] # Idle
  BY DEF Idle
<1>2. ConsumerOK(p) /\ committed[p] \in 0 .. Len(topic[p]) /\ Len(topic[p]) \in Nat
      /\ \A n \in 1 .. Len(topic[p]) : EventOK(topic[p][n])
  BY DEF IInv, Types, ConsumersOK, TopicOK
<1>3. committed[p] + 1 \in 1 .. Len(topic[p])
  BY <1>1, <1>2 DEF ConsumerOK
<1>4. EventOK(InHand(p))
  BY <1>1, <1>2, <1>3 DEF ConsumerOK, InHand
<1>5. InHand(p).source \in Source /\ InHand(p).version \in Nat /\ InHand(p).version > 0
  BY <1>4, HistoryTypes DEF EventOK
<1>6. \A s \in Source : version[s] \in 0 .. Len(History[s]) /\ version[s] \in Nat
  BY HistoryTypes DEF IInv, Types, SourcesOK
<1> QED
  BY <1>1, <1>2, <1>4, <1>5, <1>6 DEF ConsumerOK, InHand

LEMMA FetchStep ==
    ASSUME IInv, NEW p \in Partition, Fetch(p)
    PROVE  IInv'
<1> DEFINE state == [at |-> "closed?", event |-> topic[p][committed[p] + 1], todo |-> {},
                     conflicts |-> FALSE]
<1>1. /\ consumer' = [consumer EXCEPT ![p] = state]
      /\ UNCHANGED <<version, topic, committed, rebuild, rebuilds, closed, deadLetters, ledger, faults>>
      /\ committed[p] < Len(topic[p])
  BY DEF Fetch, environment, kafka
<1>2. consumer'[p] = state
  BY <1>1 DEF IInv, Types, ConsumersOK
<1>3. ConsumerOK(p)'
  <2>1. /\ DOMAIN state = {"at", "event", "todo", "conflicts"} /\ state.at = "closed?"
        /\ state.event = topic[p][committed[p] + 1] /\ state.todo = {}
        /\ state.conflicts = FALSE
    OBVIOUS
  <2>2. "closed?" \in Step \ {"fetch"} /\ FALSE \in BOOLEAN
    BY DEF Step
  <2> HIDE DEF state
  <2> QED
    BY <1>1, <1>2, <2>1, <2>2 DEF ConsumerOK
<1>4. ProgressOK(p)'
  BY <1>2 DEF ProgressOK
<1>5. LedgerOK' /\ faults' \in 0 .. MaxFaults
  BY <1>1 DEF IInv, Types, LedgerOK, BoundsOK
<1> HIDE DEF state
<1> QED
  BY <1>1, <1>3, <1>4, <1>5, HandStep

\* Nothing but where the consumer is changes.
LEMMA ContinueStep ==
    ASSUME IInv, NEW p \in Partition, consumer[p].at # "fetch",
           NEW step \in Step \ {"fetch"}, Continue(p, step),
           UNCHANGED <<version, topic, committed, rebuild, rebuilds, closed, ledger, faults>>,
           deadLetters \subseteq deadLetters', ProgressOK(p)'
    PROVE  IInv'
<1> DEFINE state == [consumer[p] EXCEPT !.at = step]
<1>1. consumer' = [consumer EXCEPT ![p] = state]
  BY DEF Continue
<1>2. consumer'[p] = state
  BY <1>1 DEF IInv, Types, ConsumersOK
<1>3. ConsumerOK(p)'
  BY <1>2, InHandFacts DEF ConsumerOK, InHand
<1>4. LedgerOK' /\ faults' \in 0 .. MaxFaults
  BY DEF IInv, Types, LedgerOK, BoundsOK
<1> HIDE DEF state
<1> QED
  BY <1>1, <1>3, <1>4, HandStep

LEMMA ContinueFields ==
    ASSUME IInv, NEW p \in Partition, consumer[p].at # "fetch", NEW step, Continue(p, step)
    PROVE  /\ consumer'[p].at = step /\ consumer'[p].event = InHand(p)
           /\ consumer'[p].todo = consumer[p].todo
           /\ consumer'[p].conflicts = consumer[p].conflicts
<1>1. consumer'[p] = [consumer[p] EXCEPT !.at = step]
  BY DEF Continue, IInv, Types, ConsumersOK
<1>2. DOMAIN consumer[p] = {"at", "event", "todo", "conflicts"}
  BY InHandFacts
<1> QED
  BY <1>1, <1>2 DEF InHand

LEMMA CheckStep ==
    ASSUME IInv, NEW p \in Partition, CheckClosed(p) \/ SourceMissing(p)
    PROVE  IInv'
<1>1. PICK step \in {"dead letter", "source?", "closed?"} : Continue(p, step)
  BY DEF CheckClosed, SourceMissing
<1>2. /\ consumer[p].at \in {"closed?", "source?"}
      /\ UNCHANGED <<version, topic, committed, rebuild, rebuilds, closed, ledger, faults, deadLetters>>
  BY DEF CheckClosed, SourceMissing, environment, kafka, At
<1>3. ~consumer[p].conflicts
  BY <1>2 DEF IInv, ProgressOK
<1>4. ProgressOK(p)'
  BY <1>1, <1>2, <1>3, ContinueFields DEF ProgressOK
<1> QED
  BY <1>1, <1>2, <1>4, ContinueStep DEF Step

\* What the rows of a source are depends on its version alone.
LEMMA SameRows ==
    ASSUME version' = version
    PROVE  \A s : OwnRows({Current(s)})' = OwnRows({Current(s)})
  BY DEF Current, OwnRows, Nonzero, OwnRow, Row

LEMMA JudgeCases ==
    ASSUME NEW e, e.version \in Nat, version[e.source] \in Nat, NEW loaded
    PROVE  \/ Judge(e, loaded) = "dead letter"
           \/ Judge(e, loaded) = "closed?"
           \/ Judge(e, loaded) = "commit" /\ version[e.source] > e.version
           \/ Judge(e, loaded) \in {"put", "context?"} /\ version[e.source] = e.version
<1> DEFINE bad == loaded.date # e.date \/ ~loaded.eligible
<1>1. CASE bad
  BY <1>1 DEF Judge
<1>2. CASE ~bad
  <2>1. Judge(e, loaded) = CASE version[e.source] > e.version -> "commit"
                             [] version[e.source] < e.version -> "closed?"
                             [] OTHER -> Accepted(e.source)
    BY <1>2 DEF Judge
  <2>2. CASE version[e.source] > e.version
    BY <2>1, <2>2
  <2>3. CASE version[e.source] < e.version
    BY <2>1, <2>3
  <2>4. CASE version[e.source] = e.version
    BY <2>1, <2>4 DEF Accepted
  <2>5. version[e.source] > e.version \/ version[e.source] < e.version
        \/ version[e.source] = e.version
    BY NatOrder
  <2> QED
    BY <2>2, <2>3, <2>4, <2>5
<1> HIDE DEF bad
<1> QED
  BY <1>1, <1>2

\* The event is judged by the version and the date of its source.
LEMMA LoadStep ==
    ASSUME IInv, NEW p \in Partition, LoadSource(p)
    PROVE  IInv'
<1> DEFINE e == InHand(p)
           loaded == History[e.source][version[e.source]]
           at == Judge(e, loaded)
           rows == OwnRows({[id |-> e.source, state |-> loaded]})
           state == [consumer[p] EXCEPT !.at = at, !.todo = rows]
<1>1. /\ consumer[p].at = "source?" /\ version[e.source] > 0
      /\ consumer' = [consumer EXCEPT ![p] = state]
      /\ UNCHANGED <<version, topic, committed, rebuild, rebuilds, closed, deadLetters, ledger, faults>>
  BY DEF LoadSource, environment, kafka, At
<1>2. /\ DOMAIN consumer[p] = {"at", "event", "todo", "conflicts"}
      /\ e.source \in Source /\ e.version \in Nat
      /\ version[e.source] \in 1 .. Len(History[e.source]) /\ version[e.source] \in Nat
      /\ consumer[p].event = e
      /\ committed[p] < Len(topic[p]) /\ e = topic[p][committed[p] + 1]
  BY <1>1, InHandFacts DEF InHand
<1>3. ~consumer[p].conflicts /\ consumer[p].conflicts \in BOOLEAN
  BY <1>1, InHandFacts DEF IInv, ProgressOK
<1>4. \/ at = "dead letter"
      \/ at = "closed?"
      \/ at = "commit" /\ version[e.source] > e.version
      \/ at \in {"put", "context?"} /\ version[e.source] = e.version
  BY <1>2, JudgeCases
<1>5. rows = OwnRows({Current(e.source)}) /\ \A r \in rows : RowOK(r)
  <2>1. SourceOK(Current(e.source))
    BY <1>2, HistoryTypes DEF Current, SourceOK
  <2>2. \A x \in {Current(e.source)} : SourceOK(x)
    BY <2>1
  <2>3. rows = OwnRows({Current(e.source)})
    BY DEF Current
  <2> QED
    BY <2>2, <2>3, OwnRowTypes
<1> HIDE DEF at, rows, loaded
<1>6. consumer'[p] = state
  BY <1>1 DEF IInv, Types, ConsumersOK
<1>7. /\ DOMAIN state = {"at", "event", "todo", "conflicts"} /\ state.at = at
      /\ state.event = e /\ state.todo = rows /\ state.conflicts = consumer[p].conflicts
  BY <1>2
<1> HIDE DEF state, e
<1>8. ConsumerOK(p)'
  <2>1. at \in Step \ {"fetch"}
    BY <1>4 DEF Step
  <2> QED
    BY <1>1, <1>2, <1>3, <1>5, <1>6, <1>7, <2>1 DEF ConsumerOK
<1>9. ProgressOK(p)'
  <2>1. ~state.conflicts
    BY <1>3, <1>7
  <2>2. version' = version /\ \A s : OwnRows({Current(s)})' = OwnRows({Current(s)})
    BY <1>1, SameRows
  <2>3. \A f : version[f.source] > f.version => Fine(f)'
    BY <2>2 DEF Fine
  <2>4. at \in {"put", "context?"} => version[e.source] >= e.version
    <3>1. version[e.source] \in Nat /\ e.version \in Nat
      BY <1>2
    <3>2. at \in {"put", "context?"} => version[e.source] = e.version
      BY <1>4
    <3> QED
      BY <3>1, <3>2
  <2>5. at = "commit" => Fine(consumer[p].event)'
    BY <1>4, <1>6, <1>7, <2>3
  <2> QED
    BY <1>4, <1>5, <1>6, <1>7, <2>1, <2>2, <2>4, <2>5 DEF ProgressOK
<1>10. LedgerOK' /\ faults' \in 0 .. MaxFaults
  BY <1>1 DEF IInv, Types, LedgerOK, BoundsOK
<1> QED
  BY <1>1, <1>8, <1>9, <1>10, HandStep DEF state

LEMMA ContextStep ==
    ASSUME IInv, NEW p \in Partition, LoadContext(p)
    PROVE  IInv'
<1> DEFINE c == consumer[p]
           e == InHand(p)
           orders == Read(Order)
           dependent == Dependent(orders, e)
<1>1. /\ c.at = "context?"
      /\ UNCHANGED <<version, topic, committed, rebuild, rebuilds, closed, deadLetters, ledger, faults>>
      /\ \/ consumer' = [consumer EXCEPT ![p] = [c EXCEPT !.at = "dead letter", !.todo = {}]]
         \/ consumer' = [consumer EXCEPT ![p] = [c EXCEPT !.at = "put", !.todo = c.todo \cup dependent]]
  BY DEF LoadContext, environment, kafka, At
<1>2. /\ DOMAIN c = {"at", "event", "todo", "conflicts"} /\ c.conflicts \in BOOLEAN
      /\ \A r \in c.todo : RowOK(r)
      /\ EventOK(e) /\ c.event = e
      /\ committed[p] < Len(topic[p]) /\ e = topic[p][committed[p] + 1]
  BY <1>1, InHandFacts DEF InHand
<1>3. /\ ~c.conflicts /\ version[e.source] >= e.version
      /\ version[e.source] = e.version =>
            \A r \in OwnRows({Current(e.source)}) :
                r.key \in DOMAIN ledger \/ \E t \in c.todo : t.key = r.key
  BY <1>1, <1>2 DEF IInv, ProgressOK
<1>4. \A r \in dependent : RowOK(r)
  <2>1. \A x \in orders : SourceOK(x)
    BY ReadTypes DEF IInv, Types, SourcesOK, Source
  <2>2. e.date \in Nat \ {0}
    BY <1>2, EventTypes DEF EventOK
  <2>3. \A r \in GeneralRows(orders, {o \in orders : Month(o.state.date) = Month(e.date)}) : RowOK(r)
    BY <2>1, GeneralRowTypes
  <2>4. \A r \in BonusRows(orders, e.date) : RowOK(r)
    BY <2>2, BonusRowTypes
  <2> QED
    BY <2>3, <2>4 DEF Dependent
<1>5. version' = version /\ \A s : OwnRows({Current(s)})' = OwnRows({Current(s)})
  BY <1>1, SameRows
<1>6. LedgerOK' /\ faults' \in 0 .. MaxFaults
  BY <1>1 DEF IInv, Types, LedgerOK, BoundsOK
<1> HIDE DEF dependent, e, c
<1>7. CASE consumer' = [consumer EXCEPT ![p] = [c EXCEPT !.at = "dead letter", !.todo = {}]]
  <2> DEFINE state == [c EXCEPT !.at = "dead letter", !.todo = {}]
  <2>1. /\ DOMAIN state = DOMAIN c /\ state.at = "dead letter" /\ state.event = e
        /\ state.todo = {} /\ state.conflicts = c.conflicts
    BY <1>2
  <2>2. consumer'[p] = state
    BY <1>7 DEF IInv, Types, ConsumersOK
  <2> HIDE DEF state
  <2>3. ConsumerOK(p)'
    BY <1>1, <1>2, <2>1, <2>2 DEF ConsumerOK, Step
  <2>4. ProgressOK(p)'
    BY <1>3, <2>1, <2>2 DEF ProgressOK
  <2> QED
    BY <1>1, <1>6, <1>7, <2>3, <2>4, HandStep DEF state
<1>8. CASE consumer' = [consumer EXCEPT ![p] = [c EXCEPT !.at = "put", !.todo = c.todo \cup dependent]]
  <2> DEFINE state == [c EXCEPT !.at = "put", !.todo = c.todo \cup dependent]
  <2>1. /\ DOMAIN state = DOMAIN c /\ state.at = "put" /\ state.event = e
        /\ state.todo = c.todo \cup dependent /\ state.conflicts = c.conflicts
    BY <1>2
  <2>2. consumer'[p] = state
    BY <1>8 DEF IInv, Types, ConsumersOK
  <2> HIDE DEF state
  <2>3. ConsumerOK(p)'
    <3>1. \A r \in state.todo : RowOK(r)
      BY <1>2, <1>4, <2>1
    <3> QED
      BY <1>1, <1>2, <2>1, <2>2, <3>1 DEF ConsumerOK, Step
  <2>4. ProgressOK(p)'
    BY <1>1, <1>3, <1>5, <2>1, <2>2 DEF ProgressOK
  <2> QED
    BY <1>1, <1>6, <1>8, <2>3, <2>4, HandStep DEF state
<1> QED
  BY <1>1, <1>7, <1>8 DEF c, e, dependent

\* A row that is put is in the ledger, and nothing leaves it.
LEMMA PutLedger ==
    ASSUME LedgerOK, NEW r, RowOK(r), ledger' = With(ledger, r)
    PROVE  LedgerOK' /\ DOMAIN ledger' = DOMAIN ledger \cup {r.key}
<1> DEFINE rows == ledger
           new == With(rows, r)
<1>1. /\ DOMAIN new = DOMAIN rows \cup {r.key}
      /\ \A k \in DOMAIN new : new[k] \in {r.row} \cup {rows[l] : l \in DOMAIN rows}
  <2>1. \A stored : Refreshed(stored, r.row) \in {stored, r.row}
    BY DEF Refreshed
  <2>2. DOMAIN new = DOMAIN rows \cup {r.key}
    BY DEF With
  <2>3. ASSUME NEW k \in DOMAIN new, k # r.key PROVE new[k] = rows[k] /\ k \in DOMAIN rows
    BY <2>3 DEF With
  <2>4. new[r.key] \in {r.row} \cup {rows[l] : l \in DOMAIN rows}
    <3>1. CASE r.key \in DOMAIN rows
      <4>1. new[r.key] = Refreshed(rows[r.key], r.row)
        BY <3>1 DEF With
      <4> QED
        BY <2>1, <3>1, <4>1
    <3>2. CASE r.key \notin DOMAIN rows
      BY <3>2 DEF With
    <3> QED
      BY <3>1, <3>2
  <2> HIDE DEF new, rows
  <2> QED
    BY <2>2, <2>3, <2>4
<1> HIDE DEF new, rows
<1>2. ledger' = new /\ r.key \in Key /\ DocumentOK(r.row)
  BY DEF RowOK, new, rows
<1>3. DOMAIN rows \subseteq Key /\ \A k \in DOMAIN rows : DocumentOK(rows[k])
  BY DEF LedgerOK, rows
<1>4. \A k \in DOMAIN new : DocumentOK(new[k])
  BY <1>1, <1>2, <1>3
<1> QED
  BY <1>1, <1>2, <1>3, <1>4 DEF LedgerOK, rows

LEMMA PutStep ==
    ASSUME IInv, NEW p \in Partition, PutRow(p)
    PROVE  IInv'
<1> DEFINE c == consumer[p]
           e == c.event
<1>1. PICK r \in c.todo :
        /\ ledger' = With(ledger, r)
        /\ consumer' = [consumer EXCEPT ![p] =
                [c EXCEPT !.todo = c.todo \ {r}, !.conflicts = c.conflicts \/ Conflicts(ledger, r)]]
  BY DEF PutRow, First
<1>2. /\ c.at = "put"
      /\ UNCHANGED <<version, topic, committed, rebuild, rebuilds, closed, deadLetters, faults>>
  BY DEF PutRow, environment, kafka, At
<1>3. /\ DOMAIN c = {"at", "event", "todo", "conflicts"} /\ c.conflicts \in BOOLEAN
      /\ \A t \in c.todo : RowOK(t)
      /\ committed[p] < Len(topic[p]) /\ e = topic[p][committed[p] + 1]
  BY <1>2, InHandFacts DEF InHand
<1>4. /\ version[e.source] >= e.version
      /\ version[e.source] = e.version =>
            \A t \in OwnRows({Current(e.source)}) :
                t.key \in DOMAIN ledger \/ \E u \in c.todo : u.key = t.key
  BY <1>2 DEF IInv, ProgressOK
<1>5. LedgerOK' /\ DOMAIN ledger' = DOMAIN ledger \cup {r.key}
  BY <1>1, <1>3, PutLedger DEF IInv, Types
<1> DEFINE conflicts == c.conflicts \/ Conflicts(ledger, r)
           state == [c EXCEPT !.todo = c.todo \ {r}, !.conflicts = conflicts]
<1>6. conflicts \in BOOLEAN
  OBVIOUS
<1>7. consumer' = [consumer EXCEPT ![p] = state]
  BY <1>1
<1> HIDE DEF conflicts
<1>8. /\ DOMAIN state = {"at", "event", "todo", "conflicts"} /\ state.at = "put"
      /\ state.event = e /\ state.todo = c.todo \ {r} /\ state.conflicts = conflicts
  <2> HIDE DEF c
  <2> QED
    BY <1>2, <1>3
<1> HIDE DEF state
<1>9. consumer'[p] = state
  BY <1>7 DEF IInv, Types, ConsumersOK
<1>10. version' = version /\ \A s : OwnRows({Current(s)})' = OwnRows({Current(s)})
  BY <1>2, SameRows
<1> HIDE DEF c, e
<1>11. ConsumerOK(p)'
  <2>1. \A t \in state.todo : RowOK(t)
    BY <1>3, <1>8
  <2>2. "put" \in Step \ {"fetch"}
    BY DEF Step
  <2> QED
    BY <1>2, <1>3, <1>6, <1>8, <1>9, <2>1, <2>2 DEF ConsumerOK
<1>12. ProgressOK(p)'
  <2>1. ASSUME NEW t, t.key \in DOMAIN ledger \/ \E u \in c.todo : u.key = t.key
        PROVE  t.key \in DOMAIN ledger' \/ \E u \in state.todo : u.key = t.key
    BY <1>5, <1>8, <2>1
  <2> QED
    BY <1>4, <1>8, <1>9, <1>10, <2>1 DEF ProgressOK
<1>13. faults' \in 0 .. MaxFaults
  BY <1>2 DEF IInv, Types, BoundsOK
<1>14. DOMAIN ledger \subseteq DOMAIN ledger' /\ deadLetters \subseteq deadLetters'
  BY <1>2, <1>5
<1> QED
  BY <1>2, <1>5, <1>7, <1>11, <1>12, <1>13, <1>14, HandStep

\* When there is nothing left to put, the rows are there.
LEMMA ProcessedStep ==
    ASSUME IInv, NEW p \in Partition, Processed(p)
    PROVE  IInv'
<1> DEFINE c == consumer[p]
           e == InHand(p)
<1>1. PICK step \in {"dead letter", "commit"} : Continue(p, step)
  BY DEF Processed
<1>2. /\ c.at = "put" /\ c.todo = {}
      /\ UNCHANGED <<version, topic, committed, rebuild, rebuilds, closed, ledger, faults, deadLetters>>
  BY DEF Processed, environment, kafka, At
<1>3. Fine(e)
  <2>1. /\ version[e.source] >= e.version
        /\ version[e.source] = e.version => Materialized(e.source)
    BY <1>2 DEF IInv, ProgressOK, InHand, Materialized
  <2>2. version[e.source] \in Nat /\ e.version \in Nat
    BY <1>2, InHandFacts
  <2> HIDE DEF e
  <2>3. version[e.source] > e.version \/ version[e.source] = e.version
    BY <2>1, <2>2, AtLeast
  <2> QED
    BY <2>1, <2>3 DEF Fine
<1>4. \A f : Fine(f) => Fine(f)'
  <2>1. version' = version /\ \A s : OwnRows({Current(s)})' = OwnRows({Current(s)})
    BY <1>2, SameRows
  <2> QED
    BY <1>2, <2>1 DEF Fine, Refused, Materialized
<1>5. /\ consumer'[p].at = step /\ consumer'[p].event = e /\ consumer'[p].conflicts = c.conflicts
  BY <1>1, <1>2, ContinueFields
<1>6. ProgressOK(p)'
  BY <1>3, <1>4, <1>5 DEF ProgressOK
<1> QED
  BY <1>1, <1>2, <1>6, ContinueStep DEF Step

\* An event that is refused is in the dead letters before it is committed.
LEMMA DeadLetterStep ==
    ASSUME IInv, NEW p \in Partition, SendDeadLetter(p)
    PROVE  IInv'
<1> DEFINE c == consumer[p]
           e == InHand(p)
<1>1. /\ c.at = "dead letter" /\ Continue(p, "commit")
      /\ deadLetters' = deadLetters \cup {[event |-> e, conflicts |-> c.conflicts]}
      /\ UNCHANGED <<version, topic, committed, rebuild, rebuilds, closed, ledger, faults>>
  BY DEF SendDeadLetter, environment, At
<1>2. c.conflicts \in BOOLEAN /\ (~c.conflicts \/ Fine(e))
  BY <1>1, InHandFacts DEF IInv, ProgressOK, InHand
<1>3. \A f : Fine(f) => Fine(f)'
  <2>1. version' = version /\ \A s : OwnRows({Current(s)})' = OwnRows({Current(s)})
    BY <1>1, SameRows
  <2> QED
    BY <1>1, <2>1 DEF Fine, Refused, Materialized
<1>4. consumer'[p].at = "commit" /\ consumer'[p].event = e
  BY <1>1, ContinueFields
<1>5. CASE c.conflicts = FALSE
  <2>1. [event |-> e, conflicts |-> FALSE] \in deadLetters'
    BY <1>1, <1>5
  <2>2. \A f : [event |-> f, conflicts |-> FALSE] \in deadLetters' => Fine(f)'
    BY DEF Fine, Refused
  <2>3. ProgressOK(p)'
    BY <1>4, <2>1, <2>2 DEF ProgressOK
  <2> QED
    BY <1>1, <2>3, ContinueStep DEF Step
<1>6. CASE c.conflicts = TRUE
  <2>1. ProgressOK(p)'
    BY <1>2, <1>3, <1>4, <1>6 DEF ProgressOK
  <2> QED
    BY <1>1, <2>1, ContinueStep DEF Step
<1> QED
  BY <1>2, <1>5, <1>6

LEMMA CommitStep ==
    ASSUME IInv, NEW p \in Partition, Commit(p)
    PROVE  IInv'
<1> DEFINE n == committed[p] + 1
<1>1. /\ consumer[p].at = "commit"
      /\ committed' = [committed EXCEPT ![p] = n]
      /\ consumer' = [consumer EXCEPT ![p] = Idle]
      /\ UNCHANGED <<version, topic, rebuild, rebuilds, closed, deadLetters, ledger, faults>>
  BY DEF Commit, environment, At
<1>2. /\ committed[p] \in Nat /\ Len(topic[p]) \in Nat /\ committed[p] < Len(topic[p])
      /\ Fine(topic[p][n])
  BY <1>1, InHandFacts DEF IInv, ProgressOK, InHand
<1>3. \A f : Fine(f) => Fine(f)'
  <2>1. version' = version /\ \A s : OwnRows({Current(s)})' = OwnRows({Current(s)})
    BY <1>1, SameRows
  <2> QED
    BY <1>1, <2>1 DEF Fine, Refused, Materialized
<1>4. SourcesOK' /\ RebuildOK' /\ LedgerOK' /\ BoundsOK'
  BY <1>1 DEF IInv, Types, SourcesOK, RebuildOK, LedgerOK, BoundsOK
<1>5. /\ DOMAIN committed' = Partition /\ committed'[p] = n
      /\ \A q \in Partition : q # p => committed'[q] = committed[q]
      /\ DOMAIN consumer' = Partition /\ consumer'[p] = Idle
      /\ \A q \in Partition : q # p => consumer'[q] = consumer[q]
  BY <1>1 DEF IInv, Types, TopicOK, ConsumersOK
<1>6. TopicOK'
  <2>1. n \in 0 .. Len(topic[p])
    BY <1>2
  <2> HIDE DEF n
  <2> QED
    BY <1>1, <1>5, <2>1 DEF IInv, Types, TopicOK
<1>7. Grows
  <2>1. \A s \in Source : version[s] \in Int
    BY HistoryTypes DEF IInv, Types, SourcesOK
  <2>2. \A q \in Partition : Len(topic[q]) \in Int
    BY DEF IInv, Types, TopicOK
  <2> QED
    BY <1>1, <2>1, <2>2 DEF Grows
<1>8. \A q \in Partition : q # p => ConsumerOK(q)' /\ ProgressOK(q)' /\ CommittedFine(q)'
  BY <1>4, <1>5, <1>6, <1>7, Bystander
<1>9. ConsumerOK(p)' /\ ProgressOK(p)'
  <2>1. consumer'[p] = Idle /\ Idle.at = "fetch"
    BY <1>5 DEF Idle
  <2> QED
    BY <2>1 DEF ConsumerOK, ProgressOK
<1>10. CommittedFine(p)'
  <2>1. \A m \in 1 .. committed[p] : Fine(topic[p][m])
    BY DEF IInv, CommittedFine
  <2>2. \A m \in 1 .. n : m \in 1 .. committed[p] \/ m = n
    BY <1>2
  <2>3. \A m \in 1 .. n : Fine(topic[p][m])
    BY <1>2, <2>1, <2>2
  <2> HIDE DEF n
  <2> QED
    BY <1>1, <1>3, <1>5, <2>3 DEF CommittedFine
<1> QED
  BY <1>4, <1>5, <1>6, <1>8, <1>9, <1>10 DEF IInv, Types, ConsumersOK

\* Processing starts over, here or elsewhere.
LEMMA FaultStep ==
    ASSUME IInv, NEW p \in Partition, Fail(p) \/ Stop(p)
    PROVE  IInv'
<1>1. /\ consumer[p].at # "fetch"
      /\ UNCHANGED <<version, topic, committed, rebuild, rebuilds, closed, deadLetters, ledger>>
      /\ LedgerOK'
  BY DEF Fail, Stop, environment, kafka, At, IInv, Types, LedgerOK
<1>2. faults' \in 0 .. MaxFaults
  BY ConstantsAssumption DEF Fail, Stop, IInv, Types, BoundsOK
<1>3. CASE Stop(p)
  <2>1. consumer' = [consumer EXCEPT ![p] = Idle] /\ consumer'[p] = Idle
    BY <1>3 DEF Stop, IInv, Types, ConsumersOK
  <2>2. Idle.at = "fetch"
    BY DEF Idle
  <2>3. ConsumerOK(p)' /\ ProgressOK(p)'
    BY <2>1, <2>2 DEF ConsumerOK, ProgressOK
  <2> QED
    BY <1>1, <1>2, <2>1, <2>3, HandStep
<1>4. CASE Fail(p)
  <2> DEFINE state == [consumer[p] EXCEPT !.at = "closed?", !.todo = {}, !.conflicts = FALSE]
  <2>1. consumer' = [consumer EXCEPT ![p] = state] /\ consumer'[p] = state
    BY <1>4 DEF Fail, IInv, Types, ConsumersOK
  <2>2. /\ DOMAIN consumer[p] = {"at", "event", "todo", "conflicts"}
        /\ committed[p] < Len(topic[p]) /\ consumer[p].event = topic[p][committed[p] + 1]
    BY <1>1, InHandFacts DEF InHand
  <2>3. /\ DOMAIN state = {"at", "event", "todo", "conflicts"} /\ state.at = "closed?"
        /\ state.event = consumer[p].event /\ state.todo = {} /\ state.conflicts = FALSE
    BY <2>2
  <2> HIDE DEF state
  <2>4. "closed?" \in Step \ {"fetch"} /\ FALSE \in BOOLEAN
    BY DEF Step
  <2>5. ConsumerOK(p)'
    BY <1>1, <2>1, <2>2, <2>3, <2>4 DEF ConsumerOK
  <2>6. ProgressOK(p)'
    BY <2>1, <2>3 DEF ProgressOK
  <2> QED
    BY <1>1, <1>2, <2>1, <2>5, <2>6, HandStep
<1> QED
  BY <1>3, <1>4

-----------------------------------------------------------------------------
(* The steps of the others *)

\* Versions move, the rest of what grows stays.
LEMMA ChangeStep ==
    ASSUME IInv, NEW s \in Source, ChangeSource(s)
    PROVE  IInv'
<1>1. /\ version' = [version EXCEPT ![s] = version[s] + 1] /\ version[s] < Len(History[s])
      /\ UNCHANGED <<topic, committed, deadLetters, consumer, rebuild, rebuilds, ledger, closed, faults>>
  BY DEF ChangeSource, kafka
<1>2. /\ DOMAIN version = Source
      /\ \A t \in Source : version[t] \in 0 .. Len(History[t]) /\ Len(History[t]) \in Nat
  BY HistoryTypes DEF IInv, Types, SourcesOK
<1>3. SourcesOK'
  BY <1>1, <1>2 DEF SourcesOK
<1>4. TopicOK' /\ RebuildOK' /\ LedgerOK' /\ BoundsOK'
  BY <1>1 DEF IInv, Types, TopicOK, RebuildOK, LedgerOK, BoundsOK
<1>5. \A t \in Source : version[t] <= version'[t]
  BY <1>1, <1>2
<1>6. \A q \in Partition : Len(topic[q]) \in Nat
  BY DEF IInv, Types, TopicOK
<1>7. Grows
  BY <1>1, <1>5, <1>6 DEF Grows
<1> QED
  BY <1>1, <1>3, <1>4, <1>7, WorldStep

\* Other steps of the outside leave the sources, the topic and the dead letters.
LEMMA OutsideStep ==
    ASSUME IInv, UNCHANGED <<version, topic, committed, deadLetters, consumer>>,
           RebuildOK', LedgerOK', BoundsOK', DOMAIN ledger \subseteq DOMAIN ledger'
    PROVE  IInv'
<1>1. SourcesOK' /\ TopicOK'
  BY DEF IInv, Types, SourcesOK, TopicOK
<1>2. \A s \in Source : version[s] \in Int
  BY HistoryTypes DEF IInv, Types, SourcesOK
<1>3. \A q \in Partition : Len(topic[q]) \in Int
  BY DEF IInv, Types, TopicOK
<1>4. Grows
  BY <1>2, <1>3 DEF Grows
<1> QED
  BY <1>1, <1>4, WorldStep

\* What is delivered comes after what was delivered before.
LEMMA DeliverGrows ==
    ASSUME IInv, NEW s \in Source, NEW v \in DOMAIN History[s], Deliver(s, v)
    PROVE  Grows
<1> DEFINE q == PartitionOf[s]
           e == Event(s, v)
<1>1. /\ topic' = [topic EXCEPT ![q] = Append(topic[q], e)]
      /\ UNCHANGED <<version, committed, deadLetters, consumer, ledger>>
  BY DEF Deliver, environment
<1>2. q \in Partition /\ e \in EventDocument
  BY HistoryTypes, EventTypes
<1>3. /\ DOMAIN topic = Partition
      /\ \A p \in Partition : topic[p] \in Seq(EventDocument) /\ Len(topic[p]) \in Nat
  BY DEF IInv, Types, TopicOK
<1> HIDE DEF e
<1>4. /\ topic'[q] = Append(topic[q], e)
      /\ \A p \in Partition : p # q => topic'[p] = topic[p]
  BY <1>1, <1>2, <1>3
<1>5. /\ Len(topic'[q]) = Len(topic[q]) + 1
      /\ \A n \in 1 .. Len(topic[q]) : topic'[q][n] = topic[q][n]
  BY <1>2, <1>3, <1>4
<1>6. Len(topic[q]) <= Len(topic'[q])
  BY <1>2, <1>3, <1>5
<1>7. \A p \in Partition : p # q => topic'[p] = topic[p] /\ Len(topic[p]) <= Len(topic[p])
  BY <1>3, <1>4
<1>8. \A t \in Source : version[t] \in Int
  BY HistoryTypes DEF IInv, Types, SourcesOK
<1> QED
  BY <1>1, <1>5, <1>6, <1>7, <1>8 DEF Grows

\* The new event comes after those already delivered.
LEMMA DeliverStep ==
    ASSUME IInv, NEW s \in Source, NEW v \in DOMAIN History[s], Deliver(s, v)
    PROVE  IInv'
<1> DEFINE q == PartitionOf[s]
           e == Event(s, v)
<1>1. /\ topic' = [topic EXCEPT ![q] = Append(topic[q], e)]
      /\ UNCHANGED <<version, committed, deadLetters, consumer, rebuild, rebuilds, ledger, closed, faults>>
  BY DEF Deliver, environment
<1>2. q \in Partition /\ e \in EventDocument /\ EventOK(e) /\ e.source = s
  BY HistoryTypes, EventTypes
<1>3. /\ DOMAIN topic = Partition
      /\ \A p \in Partition : topic[p] \in Seq(EventDocument) /\ Len(topic[p]) \in Nat
  BY DEF IInv, Types, TopicOK
<1> HIDE DEF e
<1>4. /\ topic'[q] = Append(topic[q], e)
      /\ \A p \in Partition : p # q => topic'[p] = topic[p]
      /\ DOMAIN topic' = Partition
  BY <1>1, <1>2, <1>3
<1>5. /\ Len(topic'[q]) = Len(topic[q]) + 1 /\ topic'[q] \in Seq(EventDocument)
      /\ \A n \in 1 .. Len(topic[q]) : topic'[q][n] = topic[q][n]
      /\ topic'[q][Len(topic[q]) + 1] = e
  BY <1>2, <1>3, <1>4
<1>6. TopicOK'
  <2> SUFFICES ASSUME NEW p \in Partition
               PROVE  /\ topic'[p] \in Seq(EventDocument)
                      /\ \A n \in 1 .. Len(topic'[p]) :
                            EventOK(topic'[p][n]) /\ PartitionOf[topic'[p][n].source] = p
                      /\ committed[p] \in 0 .. Len(topic'[p])
    BY <1>1, <1>4 DEF IInv, Types, TopicOK, EventOK, Event
  <2>1. /\ \A n \in 1 .. Len(topic[p]) : EventOK(topic[p][n]) /\ PartitionOf[topic[p][n].source] = p
        /\ committed[p] \in 0 .. Len(topic[p])
    BY DEF IInv, Types, TopicOK
  <2>2. CASE p = q
    <3>1. \A n \in 1 .. Len(topic'[q]) : n \in 1 .. Len(topic[q]) \/ n = Len(topic[q]) + 1
      BY <1>2, <1>3, <1>5
    <3>2. committed[q] \in 0 .. Len(topic'[q])
      BY <1>2, <1>3, <1>5, <2>1, <2>2
    <3>3. ASSUME NEW n \in 1 .. Len(topic'[q])
          PROVE  EventOK(topic'[q][n]) /\ PartitionOf[topic'[q][n].source] = q
      <4>1. CASE n \in 1 .. Len(topic[q])
        <5>1. topic'[q][n] = topic[q][n]
          BY <1>5, <4>1
        <5> QED
          BY <2>1, <2>2, <4>1, <5>1
      <4>2. CASE n = Len(topic[q]) + 1
        <5>1. topic'[q][n] = e
          BY <1>5, <4>2
        <5> QED
          BY <1>2, <5>1
      <4> QED
        BY <3>1, <4>1, <4>2
    <3> QED
      BY <1>5, <2>2, <3>2, <3>3
  <2>3. CASE p # q
    BY <1>3, <1>4, <2>1, <2>3
  <2> QED
    BY <2>2, <2>3, Zenon
<1>7. SourcesOK' /\ RebuildOK' /\ LedgerOK' /\ BoundsOK'
  BY <1>1 DEF IInv, Types, SourcesOK, RebuildOK, LedgerOK, BoundsOK
<1>8. Grows
  BY DeliverGrows
<1> QED
  BY <1>1, <1>6, <1>7, <1>8, WorldStep

\* Paying and closing leave the keys of the ledger.
LEMMA PayStep ==
    ASSUME IInv, (\E k \in DOMAIN ledger : Pay(k)) \/ (\E r \in ClosePeriods : ClosePeriod(r))
    PROVE  IInv'
<1>1. CASE \E k \in DOMAIN ledger : Pay(k)
  <2>1. PICK k \in DOMAIN ledger :
            /\ ledger' = [ledger EXCEPT ![k] = [ledger[k] EXCEPT !.settled = TRUE]]
            /\ UNCHANGED <<version, topic, committed, deadLetters, consumer, rebuild, rebuilds, closed, faults>>
    BY <1>1 DEF Pay, environment, kafka
  <2>2. /\ DOMAIN ledger \subseteq Key
        /\ \A j \in DOMAIN ledger : DocumentOK(ledger[j])
    BY DEF IInv, Types, LedgerOK
  <2>3. DocumentOK([ledger[k] EXCEPT !.settled = TRUE])
    BY <2>2 DEF DocumentOK
  <2>4. LedgerOK' /\ DOMAIN ledger \subseteq DOMAIN ledger'
    BY <2>1, <2>2, <2>3 DEF LedgerOK
  <2>5. RebuildOK' /\ BoundsOK'
    BY <2>1 DEF IInv, Types, RebuildOK, BoundsOK
  <2> QED
    BY <2>1, <2>4, <2>5, OutsideStep
<1>2. CASE \E r \in ClosePeriods : ClosePeriod(r)
  <2>1. PICK r \in ClosePeriods :
            /\ closed' = closed \cup {r}
            /\ UNCHANGED <<version, topic, committed, deadLetters, consumer, rebuild, rebuilds, ledger, faults>>
    BY <1>2 DEF ClosePeriod, kafka
  <2>2. RebuildOK' /\ LedgerOK' /\ BoundsOK'
    BY <2>1 DEF IInv, Types, RebuildOK, LedgerOK, BoundsOK
  <2> QED
    BY <2>1, <2>2, OutsideStep
<1> QED
  BY <1>1, <1>2

\* A rebuild starts, ends or goes from the orders to the trips.
LEMMA RebuildStep ==
    ASSUME IInv, (\E r \in Rebuilds : StartRebuild(r)) \/ NextPart \/ FailRebuild
    PROVE  IInv'
<1>1. /\ UNCHANGED <<version, topic, committed, deadLetters, consumer, ledger, closed>>
      /\ LedgerOK'
  BY DEF StartRebuild, NextPart, FailRebuild, environment, kafka, IInv, Types, LedgerOK
<1>2. /\ MaxRebuilds \in Nat /\ MaxFaults \in Nat
      /\ closed \subseteq ClosePeriods /\ rebuilds \in 0 .. MaxRebuilds /\ faults \in 0 .. MaxFaults
  BY ConstantsAssumption DEF IInv, Types, BoundsOK
<1>3. BoundsOK'
  <2>1. rebuilds' \in 0 .. MaxRebuilds
    BY <1>2 DEF StartRebuild, NextPart, FailRebuild
  <2>2. faults' \in 0 .. MaxFaults
    BY <1>2 DEF StartRebuild, NextPart, FailRebuild
  <2> QED
    BY <1>1, <1>2, <2>1, <2>2 DEF BoundsOK
<1>4. RebuildOK'
  <2>1. ASSUME NEW r \in Rebuilds, StartRebuild(r) PROVE RebuildOK'
    <3> DEFINE job == [at |-> "orders?", from |-> r.from, to |-> r.to, todo |-> {}]
    <3>1. r.from \in Nat \ {0} /\ r.to \in Nat \ {0}
      BY ConstantsAssumption
    <3>2. /\ DOMAIN job = {"at", "from", "to", "todo"} /\ job.at = "orders?"
          /\ job.from = r.from /\ job.to = r.to /\ job.todo = {}
      OBVIOUS
    <3>3. rebuild' = job
      BY <2>1 DEF StartRebuild
    <3> HIDE DEF job
    <3> QED
      BY <3>1, <3>2, <3>3 DEF RebuildOK
  <2>2. ASSUME NextPart PROVE RebuildOK'
    <3>1. rebuild' = [rebuild EXCEPT !.at = "trips?"] \/ rebuild' = NoRebuild
      BY <2>2 DEF NextPart
    <3>2. /\ DOMAIN rebuild = {"at", "from", "to", "todo"}
          /\ rebuild.from \in Nat \ {0} /\ rebuild.to \in Nat \ {0}
          /\ \A r \in rebuild.todo : RowOK(r)
      <4>1. rebuild.at # "none" /\ NoRebuild.at = "none"
        BY <2>2 DEF NextPart, NoRebuild
      <4> QED
        BY <4>1 DEF IInv, Types, RebuildOK
    <3>3. CASE rebuild' = [rebuild EXCEPT !.at = "trips?"]
      BY <3>2, <3>3 DEF RebuildOK
    <3> QED
      BY <3>1, <3>3 DEF RebuildOK
  <2>3. ASSUME FailRebuild PROVE RebuildOK'
    BY <2>3 DEF FailRebuild, RebuildOK
  <2> QED
    BY <2>1, <2>2, <2>3
<1> QED
  BY <1>1, <1>3, <1>4, OutsideStep

\* A rebuild loads rows and puts them one by one.
LEMMA RebuildRowsStep ==
    ASSUME IInv, LoadRebuild \/ PutRebuilt
    PROVE  IInv'
<1>1. /\ DOMAIN rebuild = {"at", "from", "to", "todo"}
      /\ rebuild.at \in {"orders?", "orders", "trips?", "trips"}
      /\ rebuild.from \in Nat \ {0} /\ rebuild.to \in Nat \ {0}
      /\ \A r \in rebuild.todo : RowOK(r)
  <2>1. rebuild.at # "none" /\ NoRebuild.at = "none"
    BY DEF LoadRebuild, PutRebuilt, NoRebuild
  <2> QED
    BY <2>1 DEF IInv, Types, RebuildOK
<1>2. /\ UNCHANGED <<version, topic, committed, deadLetters, consumer, closed>>
      /\ BoundsOK'
  BY DEF LoadRebuild, PutRebuilt, environment, kafka, IInv, Types, BoundsOK
<1>3. \A at \in {"orders", "trips"} : \A todo : (\A r \in todo : RowOK(r)) =>
            \A job : job = [rebuild EXCEPT !.at = at, !.todo = todo] /\ rebuild' = job => RebuildOK'
  <2> SUFFICES ASSUME NEW at \in {"orders", "trips"}, NEW todo, \A r \in todo : RowOK(r), NEW job,
                      job = [rebuild EXCEPT !.at = at, !.todo = todo], rebuild' = job
               PROVE  RebuildOK'
    OBVIOUS
  <2>1. /\ DOMAIN job = {"at", "from", "to", "todo"} /\ job.at = at /\ job.todo = todo
        /\ job.from = rebuild.from /\ job.to = rebuild.to
    BY <1>1
  <2> QED
    BY <1>1, <2>1 DEF RebuildOK
<1>4. CASE LoadRebuild
  <2>1. \A S \in SUBSET Source : \A x \in Read(S) : SourceOK(x)
    BY ReadTypes DEF IInv, Types, SourcesOK
  <2>2. \A r \in OrderRows(Read(Order), rebuild) : RowOK(r)
    <3> DEFINE orders == Read(Order)
               S == {o \in orders : o.state.eligible /\ Within(o.state.date, rebuild)}
    <3>1. \A x \in S : SourceOK(x)
      BY <2>1 DEF Source
    <3> HIDE DEF S
    <3>2. \A r \in OwnRows(S) \cup GeneralRows(orders, S) \cup BonusRows(orders, rebuild.to) : RowOK(r)
      BY <1>1, <3>1, OwnRowTypes, GeneralRowTypes, BonusRowTypes
    <3> QED
      BY <3>2 DEF OrderRows, S
  <2>3. \A r \in TripRows(Read(Trip), rebuild) : RowOK(r)
    <3> DEFINE S == {t \in Read(Trip) : t.state.eligible /\ Within(t.state.date, rebuild)}
    <3>1. \A x \in S : SourceOK(x)
      BY <2>1 DEF Source
    <3> HIDE DEF S
    <3>2. \A r \in OwnRows(S) : RowOK(r)
      BY <3>1, OwnRowTypes
    <3> QED
      BY <3>2 DEF TripRows, S
  <2>4. \/ rebuild' = [rebuild EXCEPT !.at = "orders", !.todo = OrderRows(Read(Order), rebuild)]
        \/ rebuild' = [rebuild EXCEPT !.at = "trips", !.todo = TripRows(Read(Trip), rebuild)]
    BY <1>4 DEF LoadRebuild
  <2>5. RebuildOK'
    BY <1>3, <2>2, <2>3, <2>4
  <2>6. ledger' = ledger /\ LedgerOK'
    BY <1>4 DEF LoadRebuild, IInv, Types, LedgerOK
  <2> QED
    BY <1>2, <2>5, <2>6, OutsideStep
<1>5. CASE PutRebuilt
  <2>1. PICK r \in rebuild.todo :
            ledger' = With(ledger, r) /\ rebuild' = [rebuild EXCEPT !.todo = rebuild.todo \ {r}]
    BY <1>5 DEF PutRebuilt
  <2>2. rebuild.at \in {"orders", "trips"}
    BY <1>5 DEF PutRebuilt
  <2>3. LedgerOK' /\ DOMAIN ledger \subseteq DOMAIN ledger'
    BY <1>1, <2>1, PutLedger DEF IInv, Types
  <2>4. \A t \in rebuild.todo \ {r} : RowOK(t)
    BY <1>1
  <2>5. RebuildOK'
    BY <1>1, <2>1, <2>2, <2>4 DEF RebuildOK
  <2> QED
    BY <1>2, <2>3, <2>5, OutsideStep
<1> QED
  BY <1>4, <1>5

LEMMA NextIInv == IInv /\ [Next]_vars => IInv'
<1> SUFFICES ASSUME IInv, [Next]_vars PROVE IInv'
  OBVIOUS
<1>1. ASSUME NEW p \in Partition, Consume(p) \/ Fail(p) \/ Stop(p) PROVE IInv'
  BY <1>1, FetchStep, CheckStep, LoadStep, ContextStep, PutStep, ProcessedStep,
     DeadLetterStep, CommitStep, FaultStep DEF Consume
<1>2. CASE UNCHANGED vars
  <2>1. RebuildOK' /\ LedgerOK' /\ BoundsOK'
    BY <1>2 DEF vars, IInv, Types, RebuildOK, LedgerOK, BoundsOK
  <2> QED
    BY <1>2, <2>1, OutsideStep DEF vars
<1> QED
  BY <1>1, <1>2, ChangeStep, DeliverStep, PayStep, RebuildStep, RebuildRowsStep DEF Next, Rebuild

\* The invariant holds of every behaviour.
THEOREM Invariance == Spec => []IInv
  BY InitIInv, NextIInv, PTL DEF Spec

-----------------------------------------------------------------------------
(* What the invariant says *)

\* The type invariant: offsets stay within their partition, the event in hand
\* is the one after the offset, and no row has the amount zero.
THEOREM TypeCorrect == Spec => []TypeOK
<1>1. IInv => TypeOK
  <2> SUFFICES ASSUME IInv PROVE TypeOK
    OBVIOUS
  <2>1. \A k \in DOMAIN ledger : ledger[k].amount > 0 /\ ledger[k].settled \in BOOLEAN
    <3>1. \A n \in Nat \ {0} : n > 0
      OBVIOUS
    <3> QED
      BY <3>1 DEF IInv, Types, LedgerOK, DocumentOK
  <2>2. ASSUME NEW p \in Partition
        PROVE  /\ committed[p] \in 0 .. Len(topic[p])
               /\ consumer[p].at \in Step
               /\ consumer[p] # Idle =>
                     /\ committed[p] < Len(topic[p])
                     /\ consumer[p].event = topic[p][committed[p] + 1]
    <3>1. ConsumerOK(p) /\ committed[p] \in 0 .. Len(topic[p])
      BY DEF IInv, Types, ConsumersOK, TopicOK
    <3>2. Idle.at = "fetch" /\ "fetch" \in Step
      BY DEF Idle, Step
    <3> QED
      BY <3>1, <3>2 DEF ConsumerOK
  <2> QED
    BY <2>1, <2>2 DEF IInv, Types, SourcesOK, LedgerOK, BoundsOK, TypeOK
<1> QED
  BY <1>1, Invariance, PTL

\* No event is lost: when the offset has passed the newest event of a source and
\* the event was not refused, the rows of the source are in the ledger, for any
\* number of redeliveries, failures, rebuilds and consumers.
THEOREM NoEventLost == Spec => []CommittedEventsMaterialized
<1>1. IInv => CommittedEventsMaterialized
  <2> SUFFICES ASSUME IInv, NEW s \in Source, UpToDate(s)
               PROVE  \A r \in OwnRows({Current(s)}) : r.key \in DOMAIN ledger
    BY DEF CommittedEventsMaterialized
  <2> DEFINE p == PartitionOf[s]
             e == Latest(s)
  <2>1. version[s] \in Nat /\ e.source = s /\ e.version = version[s]
    <3>1. version[s] \in 0 .. Len(History[s])
      BY DEF IInv, Types, SourcesOK
    <3> QED
      BY <3>1, HistoryTypes DEF Latest, Event
  <2> HIDE DEF e
  <2>2. p \in Partition
    BY HistoryTypes
  <2>3. PICK n \in 1 .. committed[p] : topic[p][n] = e
    BY <2>1 DEF UpToDate, Committed, e
  <2>4. Fine(e)
    BY <2>2, <2>3 DEF IInv, CommittedFine
  <2>5. ~Refused(e)
    BY DEF UpToDate, e
  <2> QED
    BY <2>1, <2>4, <2>5 DEF Fine, Materialized
<1> QED
  BY <1>1, Invariance, PTL

-----------------------------------------------------------------------------
(* Totals over sets *)

\* Of some subsets of a finite set, one has no other among its subsets.
LEMMA SmallestSubset ==
    ASSUME NEW S, IsFiniteSet(S), NEW B \in SUBSET SUBSET S, B # {}
    PROVE  \E T \in B : \A U \in SUBSET T : U # T => U \notin B
<1>1. B \subseteq FiniteSubsetsOf(S)
  BY FS_FiniteSubsetsOfFinite
<1>2. PICK T \in B : \A U \in B : ~ (<<U, T>> \in StrictSubsetOrdering(S))
  BY <1>1, FS_StrictSubsetOrderingWellFounded, WFMin
<1>3. \A U \in B : U \subseteq T => U = T
  BY <1>2 DEF StrictSubsetOrdering
<1> QED
  BY <1>3

\* The sum in Revenue, and the function that MapThenSumSet takes it from.
Total(X) == MapThenSumSet(LAMBDA o : o.state.cost, X)

Pick(S) == CHOOSE x \in S : TRUE

IsTotal(S, h) ==
    h = [s \in SUBSET S |-> IF s = {} THEN 0 ELSE Pick(s).state.cost + h[s \ {Pick(s)}]]

LEMMA RevenueIsTotal ==
    ASSUME NEW orders, NEW d
    PROVE  Revenue(orders, d) = Total(Counted(orders, d))
BY DEF Revenue, Total

LEMMA TotalIsTotal ==
    ASSUME NEW S
    PROVE  Total(S) = (CHOOSE h : IsTotal(S, h))[S]
BY DEF Total, MapThenSumSet, MapThenFoldSet, IsTotal, Pick

LEMMA PickIn ==
    ASSUME NEW S, S # {}
    PROVE  Pick(S) \in S
BY DEF Pick

LEMMA IsTotalRec ==
    ASSUME NEW S, NEW h, IsTotal(S, h)
    PROVE  /\ h[{}] = 0
           /\ \A s \in SUBSET S : s # {} => h[s] = Pick(s).state.cost + h[s \ {Pick(s)}]
<1> DEFINE g == [s \in SUBSET S |-> IF s = {} THEN 0 ELSE Pick(s).state.cost + h[s \ {Pick(s)}]]
<1>1. h = g
  BY DEF IsTotal
<1>2. g[{}] = 0
  OBVIOUS
<1>3. \A s \in SUBSET S : s # {} => g[s] = Pick(s).state.cost + h[s \ {Pick(s)}]
  OBVIOUS
<1> HIDE DEF g
<1> QED
  BY <1>1, <1>2, <1>3

\* The running totals of a set and of a subset agree.
LEMMA TotalUnique ==
    ASSUME NEW S, IsFiniteSet(S), NEW T \in SUBSET S, NEW h, IsTotal(S, h), NEW g, IsTotal(T, g)
    PROVE  \A u \in SUBSET T : h[u] = g[u]
<1> DEFINE B == {u \in SUBSET T : h[u] # g[u]}
<1> SUFFICES ASSUME B # {} PROVE FALSE
  OBVIOUS
<1>1. B \in SUBSET SUBSET S
  OBVIOUS
<1> HIDE DEF B
<1>2. PICK u \in B : \A v \in SUBSET u : v # u => v \notin B
  BY <1>1, SmallestSubset
<1> USE DEF B
<1>3. u # {}
  BY IsTotalRec
<1> DEFINE v == u \ {Pick(u)}
<1>4. v \in SUBSET u /\ v # u
  BY <1>3, PickIn
<1>5. h[v] = g[v]
  BY <1>2, <1>4
<1>6. u \in SUBSET T /\ u \in SUBSET S
  OBVIOUS
<1>7. h[u] = Pick(u).state.cost + h[v] /\ g[u] = Pick(u).state.cost + g[v]
  BY <1>3, <1>6, IsTotalRec
<1> QED
  BY <1>5, <1>7

\* Every finite set has running totals.
LEMMA TotalExists ==
    ASSUME NEW S, IsFiniteSet(S)
    PROVE  \E h : IsTotal(S, h)
<1> DEFINE B == {T \in SUBSET S : ~ \E h : IsTotal(T, h)}
<1> SUFFICES ASSUME B # {} PROVE FALSE
  BY DEF B
<1>1. B \in SUBSET SUBSET S
  OBVIOUS
<1> HIDE DEF B
<1>2. PICK T \in B : \A U \in SUBSET T : U # T => U \notin B
  BY <1>1, SmallestSubset
<1> USE DEF B
<1>3. \A U \in SUBSET T : U # T => \E h : IsTotal(U, h)
  BY <1>2
<1>4. IsFiniteSet(T) /\ \A U \in SUBSET T : IsFiniteSet(U)
  BY FS_Subset
<1> DEFINE t(U) == CHOOSE h : IsTotal(U, h)
           g == [s \in SUBSET T |->
                    IF s = {} THEN 0 ELSE Pick(s).state.cost + t(s \ {Pick(s)})[s \ {Pick(s)}]]
<1>5. \A U \in SUBSET T : U # T => IsTotal(U, t(U))
  BY <1>3
<1> HIDE DEF t
<1>6. ASSUME NEW u \in SUBSET T, u # T PROVE g[u] = t(u)[u]
  <2>1. CASE u = {}
    <3>1. t(u)[{}] = 0
      BY <1>5, <1>6, IsTotalRec
    <3> QED
      BY <2>1, <3>1
  <2>2. CASE u # {}
    <3> DEFINE v == u \ {Pick(u)}
    <3>1. v \in SUBSET u /\ v \in SUBSET T /\ v # T
      BY <1>6, <2>2, PickIn
    <3>2. t(u)[u] = Pick(u).state.cost + t(u)[v]
      BY <1>5, <1>6, <2>2, IsTotalRec
    <3>3. t(u)[v] = t(v)[v]
      BY <1>4, <1>5, <1>6, <3>1, TotalUnique
    <3>4. g[u] = Pick(u).state.cost + t(v)[v]
      BY <2>2
    <3> QED
      BY <3>2, <3>3, <3>4
  <2> QED
    BY <2>1, <2>2
<1>7. ASSUME NEW s \in SUBSET T, s # {}
      PROVE  g[s] = Pick(s).state.cost + g[s \ {Pick(s)}]
  <2> DEFINE v == s \ {Pick(s)}
  <2>1. v \in SUBSET T /\ v # T
    BY <1>7, PickIn
  <2>2. g[v] = t(v)[v]
    BY <1>6, <2>1
  <2>3. g[s] = Pick(s).state.cost + t(v)[v]
    BY <1>7
  <2> HIDE DEF g
  <2> QED
    BY <2>2, <2>3
<1>8. g[{}] = 0
  OBVIOUS
<1>9. IsTotal(T, g)
  <2>1. DOMAIN g = SUBSET T /\ g = [s \in SUBSET T |-> g[s]]
    OBVIOUS
  <2>2. \A s \in SUBSET T : g[s] = IF s = {} THEN 0 ELSE Pick(s).state.cost + g[s \ {Pick(s)}]
    BY <1>7, <1>8
  <2> HIDE DEF g
  <2> QED
    BY <2>1, <2>2 DEF IsTotal
<1> QED
  BY <1>2, <1>9

\* A total is the cost of some element and the total of the others.
LEMMA TotalRec ==
    ASSUME NEW S, IsFiniteSet(S)
    PROVE  /\ S = {} => Total(S) = 0
           /\ S # {} => Total(S) = Pick(S).state.cost + Total(S \ {Pick(S)})
<1> DEFINE t(U) == CHOOSE h : IsTotal(U, h)
           v == S \ {Pick(S)}
<1>1. IsTotal(S, t(S))
  BY TotalExists
<1>2. IsFiniteSet(v) /\ v \in SUBSET S
  BY FS_RemoveElement
<1>3. IsTotal(v, t(v))
  BY <1>2, TotalExists
<1>4. Total(S) = t(S)[S] /\ Total(v) = t(v)[v]
  BY TotalIsTotal
<1> HIDE DEF t, v
<1>5. t(S)[v] = t(v)[v]
  BY <1>1, <1>2, <1>3, TotalUnique
<1>6. S = {} => t(S)[S] = 0
  BY <1>1, IsTotalRec
<1>7. S # {} => t(S)[S] = Pick(S).state.cost + t(S)[v]
  BY <1>1, IsTotalRec DEF v
<1> QED
  BY <1>4, <1>5, <1>6, <1>7 DEF v

\* No cost is missing or invalid.
Costs(S) == \A x \in S : x.state.cost \in Nat

\* The order in which a total is formed does not matter.
LEMMA TotalOfAny ==
    ASSUME NEW S, IsFiniteSet(S), Costs(S)
    PROVE  /\ Total(S) \in Nat
           /\ \A x \in S : Total(S) = x.state.cost + Total(S \ {x})
<1> DEFINE P(T) == Total(T) \in Nat /\ \A x \in T : Total(T) = x.state.cost + Total(T \ {x})
           B == {T \in SUBSET S : ~P(T)}
<1> SUFFICES ASSUME B # {} PROVE FALSE
  OBVIOUS
<1>1. B \in SUBSET SUBSET S
  OBVIOUS
<1> HIDE DEF B
<1>2. PICK T \in B : \A U \in SUBSET T : U # T => U \notin B
  BY <1>1, SmallestSubset
<1> USE DEF B
<1>3. \A U \in SUBSET T : U # T => P(U)
  BY <1>2
<1>4. IsFiniteSet(T) /\ \A U \in SUBSET T : IsFiniteSet(U)
  BY FS_Subset
<1> HIDE DEF P
<1>5. T # {}
  <2>1. Total({}) = 0
    BY FS_EmptySet, TotalRec
  <2>2. P({})
    BY <2>1 DEF P
  <2> QED
    BY <1>2, <2>2
<1> DEFINE c == Pick(T)
           v == T \ {c}
<1>6. c \in T /\ c.state.cost \in Nat
  BY <1>5, PickIn DEF Costs
<1>7. P(v)
  BY <1>3, <1>6
<1>8. Total(T) = c.state.cost + Total(v)
  BY <1>4, <1>5, TotalRec
<1> HIDE DEF c
<1>9. Total(v) \in Nat
  BY <1>7 DEF P
<1>10. Total(T) \in Nat
  BY <1>6, <1>8, <1>9
<1>11. ASSUME NEW x \in T PROVE Total(T) = x.state.cost + Total(T \ {x})
  <2>1. CASE x = c
    BY <1>8, <2>1
  <2>2. CASE x # c
    <3> DEFINE w == T \ {x}
               u == T \ {c, x}
    <3>1. x \in v /\ c \in w /\ v \ {x} = u /\ w \ {c} = u
      BY <1>6, <2>2
    <3>2. w \in SUBSET T /\ w # T
      OBVIOUS
    <3>3. P(w)
      BY <1>3, <3>2
    <3> HIDE DEF v, w, u
    <3>4. Total(v) = x.state.cost + Total(u)
      BY <1>7, <3>1 DEF P
    <3>5. Total(w) = c.state.cost + Total(u)
      BY <3>1, <3>3 DEF P
    <3>6. u \in SUBSET T /\ u # T
      BY DEF u
    <3>7. Total(u) \in Nat /\ x.state.cost \in Nat
      BY <1>3, <3>6 DEF P, Costs
    <3> QED
      BY <1>6, <1>8, <3>4, <3>5, <3>7 DEF w
  <2> QED
    BY <2>1, <2>2
<1>12. P(T)
  BY <1>10, <1>11 DEF P
<1> QED
  BY <1>2, <1>12

\* A part costs no more than the whole.
LEMMA TotalMonotone ==
    ASSUME NEW S, IsFiniteSet(S), Costs(S), NEW T \in SUBSET S
    PROVE  Total(T) <= Total(S)
<1> DEFINE B == {U \in SUBSET S : T \subseteq U /\ ~ (Total(T) <= Total(U))}
<1> SUFFICES ASSUME B # {} PROVE FALSE
  OBVIOUS
<1>1. B \in SUBSET SUBSET S
  OBVIOUS
<1> HIDE DEF B
<1>2. PICK U \in B : \A V \in SUBSET U : V # U => V \notin B
  BY <1>1, SmallestSubset
<1> USE DEF B
<1>3. \A V \in SUBSET S : IsFiniteSet(V) /\ Costs(V)
  BY FS_Subset DEF Costs
<1>4. Total(T) \in Nat /\ Total(U) \in Nat
  BY <1>3, TotalOfAny
<1>5. PICK x \in U : x \notin T
  BY <1>4
<1> DEFINE V == U \ {x}
<1>6. Total(T) <= Total(V)
  BY <1>2, <1>5
<1>7. Total(U) = x.state.cost + Total(V) /\ Total(V) \in Nat /\ x.state.cost \in Nat
  BY <1>3, TotalOfAny DEF Costs
<1> HIDE DEF V
<1> QED
  BY <1>2, <1>4, <1>6, <1>7

-----------------------------------------------------------------------------
(* Months *)

\* The newest event of a source passed the checks and is being processed.
Passing(s) ==
    LET c == consumer[PartitionOf[s]]
    IN  /\ c.at \in {"put", "commit"} \/ (c.at = "dead letter" /\ c.conflicts)
        /\ c.event = Latest(s)

Handled(s) ==
    version[s] > 0 /\ ~Refused(Latest(s)) /\ (Committed(Latest(s)) \/ Passing(s))

\* The first time the newest event is processed, and a row of this key is
\* still to be put.
Waiting(s, k) ==
    LET c == consumer[PartitionOf[s]]
    IN  /\ c.at = "put" /\ c.event = Latest(s) /\ ~Committed(Latest(s))
        /\ \E t \in c.todo : t.key = k

Early(s) ==
    version[s] > 0 /\ Current(s).state.eligible /\ Current(s).state.date < EligibleFrom

Late(s, m) ==
    /\ version[s] > 0 /\ Current(s).state.eligible
    /\ Current(s).state.date >= EligibleFrom /\ Month(Current(s).state.date) = m

HasGeneral(s) == Current(s).state.general # 0

TotalOf(S) == Total({Current(s) : s \in S})

\* The orders S are due a row of this key, whatever the other orders are.
Owed(S, k) ==
    \/ \E s \in S : S = {s} /\ Early(s) /\ HasGeneral(s) /\ k = <<s, "general">>
    \/ \E m \in Nat :
          /\ \A s \in S : Late(s, m)
          /\ \/ TotalOf(S) >= Target1 /\ \E s \in S : HasGeneral(s) /\ k = <<s, "general">>
             \/ Target2 > 0 /\ TotalOf(S) >= Target2 /\ Bonus # 0 /\ k = <<m, "target_bonus">>

Kept(S, k) == k \in DOMAIN ledger \/ \E s \in S : Waiting(s, k)

\* What some handled orders are due together is in the ledger, or the last of
\* them to be loaded is about to put it.
MonthInv ==
    /\ IsFiniteSet(Read(Order))
    /\ \A S \in SUBSET Order : (\A s \in S : Handled(s)) => \A k : Owed(S, k) => Kept(S, k)

LEMMA LatestFields ==
    ASSUME NEW s
    PROVE  /\ Latest(s).source = s /\ Latest(s).version = version[s]
           /\ Latest(s).date = Current(s).state.date /\ Current(s).id = s
           /\ Current(s).state = History[s][version[s]]
BY DEF Latest, Event, Current

LEMMA OrdersTyped ==
    ASSUME NEW s \in Order
    PROVE  s \in Source /\ s \notin Trip /\ PartitionOf[s] \in Partition
<1>1. s \in Source /\ Order \cap Trip = {}
  BY ConstantsAssumption DEF Source
<1> QED
  BY <1>1, HistoryTypes

LEMMA InitMonth == Init => MonthInv
<1> SUFFICES ASSUME Init PROVE MonthInv
  OBVIOUS
<1>1. \A s \in Source : version[s] = 0
  BY DEF Init
<1>2. Read(Order) = {}
  BY <1>1 DEF Read, Source
<1>3. \A s \in Order : ~Handled(s)
  BY <1>1 DEF Handled, Source
<1>4. ASSUME NEW k PROVE ~Owed({}, k)
  <2>1. {Current(s) : s \in {}} = {}
    OBVIOUS
  <2>2. TotalOf({}) = 0
    BY <2>1, FS_EmptySet, TotalRec DEF TotalOf
  <2>3. Target2 \in Nat
    BY ConstantsAssumption
  <2>4. ~ (Target2 > 0 /\ TotalOf({}) >= Target2)
    BY <2>2, <2>3
  <2> QED
    BY <2>4 DEF Owed
<1> QED
  BY <1>2, <1>3, <1>4, FS_EmptySet DEF MonthInv

\* What is due depends on the versions of the orders alone.
LEMMA OwedSame ==
    ASSUME NEW S, NEW k, \A s \in S : version'[s] = version[s], Owed(S, k)'
    PROVE  Owed(S, k)
<1>1. \A s \in S : Current(s)' = Current(s)
  BY DEF Current
<1>2. {Current(s) : s \in S}' = {Current(s) : s \in S}
  BY <1>1
<1>3. TotalOf(S)' = TotalOf(S)
  BY <1>2 DEF TotalOf
<1>4. \A s \in S : /\ Early(s)' <=> Early(s)
                   /\ \A m : Late(s, m)' <=> Late(s, m)
                   /\ HasGeneral(s)' <=> HasGeneral(s)
  BY <1>1 DEF Early, Late, HasGeneral
<1> QED
  BY <1>3, <1>4 DEF Owed

LEMMA SameOrders ==
    ASSUME MonthInv, version' = version
    PROVE  IsFiniteSet(Read(Order))'
<1>1. Read(Order)' = Read(Order)
  BY DEF Read
<1> QED
  BY <1>1 DEF MonthInv

\* A source whose consumer does nothing.
LEMMA Elsewhere ==
    ASSUME IInv, Grows, NEW s \in Source, version'[s] = version[s],
           consumer'[PartitionOf[s]] = consumer[PartitionOf[s]],
           committed'[PartitionOf[s]] = committed[PartitionOf[s]]
    PROVE  /\ Handled(s)' => Handled(s)
           /\ \A k : Waiting(s, k) => Waiting(s, k)'
<1> DEFINE q == PartitionOf[s]
<1>1. /\ q \in Partition /\ Latest(s)' = Latest(s) /\ Latest(s).source = s
  BY HistoryTypes, LatestFields DEF Latest, Event
<1>2. /\ committed[q] \in Nat /\ Len(topic[q]) \in Nat /\ committed[q] <= Len(topic[q])
      /\ \A n \in 1 .. Len(topic[q]) : topic'[q][n] = topic[q][n]
  BY <1>1 DEF IInv, Types, TopicOK, Grows
<1>3. Committed(Latest(s))' <=> Committed(Latest(s))
  <2>1. \A n \in 1 .. committed[q] : n \in 1 .. Len(topic[q])
    BY <1>2
  <2>2. \A n \in 1 .. committed[q] : topic'[q][n] = topic[q][n]
    BY <1>2, <2>1
  <2> QED
    BY <1>1, <2>2 DEF Committed
<1>4. Refused(Latest(s)) => Refused(Latest(s))'
  BY <1>1 DEF Refused, Grows
<1>5. Passing(s)' <=> Passing(s)
  BY <1>1 DEF Passing
<1> QED
  BY <1>1, <1>3, <1>4, <1>5 DEF Handled, Waiting

\* The consumer of a source puts a row of this key.
JustPut(s, k) ==
    \E r \in consumer[PartitionOf[s]].todo :
        /\ r.key = k /\ ledger' = With(ledger, r)
        /\ overtaken' = Overtaken(r, {x \in Source : PartitionOf[x] # PartitionOf[s]})

\* The step lets none of the sources through, and what waits for one of them
\* is put, unless the source changes.
Steady(S) ==
    \A s \in S :
        /\ Handled(s)' => Handled(s) /\ version'[s] = version[s]
        /\ \A k : Waiting(s, k) => Waiting(s, k)' \/ JustPut(s, k) \/ ~Handled(s)'

\* A step of somebody else than the consumers and the sources.
LEMMA SteadyWorld ==
    ASSUME IInv, Grows, UNCHANGED <<version, consumer, committed>>
    PROVE  Steady(Source)
BY Elsewhere DEF Steady

\* A consumer's step that neither commits nor lets a source through.
LEMMA SteadyHand ==
    ASSUME IInv, Grows, NEW p \in Partition, UNCHANGED <<version, committed, topic>>,
           \A q \in Partition : q # p => consumer'[q] = consumer[q],
           NEW S \in SUBSET Source,
           \A s \in S : PartitionOf[s] = p =>
               /\ Passing(s)' /\ ~Refused(Latest(s))' => Passing(s)
               /\ \A k : Waiting(s, k) => Waiting(s, k)' \/ JustPut(s, k) \/ ~Passing(s)'
    PROVE  Steady(S)
<1>1. ASSUME NEW s \in S
      PROVE  /\ Handled(s)' => Handled(s)
             /\ \A k : Waiting(s, k) => Waiting(s, k)' \/ JustPut(s, k) \/ ~Handled(s)'
  <2>1. PartitionOf[s] \in Partition
    BY HistoryTypes
  <2>2. CASE PartitionOf[s] # p
    BY <2>1, <2>2, Elsewhere
  <2>3. CASE PartitionOf[s] = p
    <3>1. Latest(s)' = Latest(s)
      BY DEF Latest, Event
    <3>2. Committed(Latest(s))' <=> Committed(Latest(s))
      BY <3>1 DEF Committed
    <3>3. Refused(Latest(s)) => Refused(Latest(s))'
      BY <3>1 DEF Refused, Grows
    <3>4. Handled(s)' => Handled(s)
      BY <2>3, <3>2, <3>3 DEF Handled
    <3>5. \A k : Waiting(s, k) => ~Committed(Latest(s))'
      BY <3>2 DEF Waiting
    <3> QED
      BY <2>3, <3>4, <3>5 DEF Handled
  <2> QED
    BY <2>2, <2>3
<1> QED
  BY <1>1 DEF Steady

\* Orders are sources.
LEMMA SteadyOrders == Steady(Source) => Steady(Order)
BY DEF Steady, Source

\* A step that lets no order through keeps what was owed.
LEMMA KeptStays ==
    ASSUME IInv, MonthInv, IsFiniteSet(Read(Order))', Grows, Steady(Order)
    PROVE  MonthInv'
<1> SUFFICES ASSUME NEW S \in SUBSET Order, \A s \in S : Handled(s)', NEW k, Owed(S, k)'
             PROVE  Kept(S, k)'
  BY DEF MonthInv
<1>1. \A s \in S : Handled(s) /\ version'[s] = version[s]
  BY DEF Steady
<1>2. Owed(S, k)
  BY <1>1, OwedSame
<1>3. Kept(S, k)
  BY <1>1, <1>2 DEF MonthInv
<1>4. ASSUME NEW s \in S, Waiting(s, k), JustPut(s, k) PROVE k \in DOMAIN ledger'
  <2> DEFINE p == PartitionOf[s]
  <2>1. p \in Partition /\ consumer[p].at # "fetch"
    BY <1>4, OrdersTyped DEF Waiting
  <2>2. PICK r \in consumer[p].todo : r.key = k /\ ledger' = With(ledger, r)
    BY <1>4 DEF JustPut
  <2>3. RowOK(r)
    BY <2>1, <2>2, InHandFacts
  <2> QED
    BY <2>2, <2>3, PutLedger DEF IInv, Types
<1> QED
  BY <1>3, <1>4 DEF Kept, Steady, Grows

\* What the hand of one consumer does leaves the others.
LEMMA HandDomain ==
    ASSUME IInv, NEW p \in Partition, NEW state, consumer' = [consumer EXCEPT ![p] = state]
    PROVE  /\ consumer'[p] = state
           /\ \A q \in Partition : q # p => consumer'[q] = consumer[q]
BY DEF IInv, Types, ConsumersOK

\* Nothing shrinks when versions, topics and offsets stay.
LEMMA HandGrows ==
    ASSUME IInv, UNCHANGED <<version, topic>>,
           deadLetters \subseteq deadLetters', DOMAIN ledger \subseteq DOMAIN ledger'
    PROVE  Grows
<1>1. \A s \in Source : version[s] \in Int
  BY HistoryTypes DEF IInv, Types, SourcesOK
<1>2. \A q \in Partition : Len(topic[q]) \in Int
  BY DEF IInv, Types, TopicOK
<1> QED
  BY <1>1, <1>2 DEF Grows

\* The next state of a source: its event, if it was seen, was refused.
LEMMA SteadyChange ==
    ASSUME IInv, NEW s \in Source, ChangeSource(s)
    PROVE  Grows /\ Steady(Source) /\ ~Handled(s)'
<1> DEFINE e == Event(s, version[s] + 1)
           q == PartitionOf[s]
           c == consumer[q]
<1>1. /\ version' = [version EXCEPT ![s] = version[s] + 1]
      /\ UNCHANGED <<topic, committed, deadLetters, consumer, ledger>>
  BY DEF ChangeSource, kafka
<1>2. /\ DOMAIN version = Source /\ version[s] \in Nat /\ q \in Partition
      /\ \A t \in Source : version[t] \in Int
      /\ \A p \in Partition : Len(topic[p]) \in Int
  BY HistoryTypes DEF IInv, Types, SourcesOK, TopicOK
<1>3. version'[s] = version[s] + 1 /\ \A t \in Source : t # s => version'[t] = version[t]
  BY <1>1, <1>2
<1>4. Grows
  <2>1. \A t \in Source : version[t] <= version'[t]
    BY <1>2, <1>3
  <2> QED
    BY <1>1, <1>2, <2>1 DEF Grows
<1>5. Latest(s)' = e /\ e.source = s /\ e.version = version[s] + 1
  BY <1>3 DEF Latest, Event
<1>6. Fine(e) => Refused(e)
  BY <1>2, <1>5 DEF Fine
<1> HIDE DEF e
<1>7. ~Handled(s)'
  <2> SUFFICES ASSUME Handled(s)' PROVE FALSE
    OBVIOUS
  <2>1. ~Refused(e)
    BY <1>1, <1>5 DEF Handled, Refused
  <2>2. CASE Committed(e)
    <3>1. PICK n \in 1 .. committed[q] : topic[q][n] = e
      BY <1>5, <2>2 DEF Committed
    <3>2. Fine(e)
      BY <1>2, <3>1 DEF IInv, CommittedFine
    <3> QED
      BY <1>6, <2>1, <3>2
  <2>3. CASE Passing(s)'
    <3>1. c.event = e /\ (c.at \in {"put", "commit"} \/ (c.at = "dead letter" /\ c.conflicts))
      BY <1>1, <1>5, <2>3 DEF Passing
    <3>2. ProgressOK(q)
      BY <1>2 DEF IInv
    <3>3. c.at = "put" => version[s] >= version[s] + 1
      BY <1>5, <3>1, <3>2 DEF ProgressOK
    <3>4. c.at # "put"
      BY <1>2, <3>3
    <3>5. Fine(e)
      BY <3>1, <3>2, <3>4 DEF ProgressOK
    <3> QED
      BY <1>6, <2>1, <3>5
  <2>4. Committed(Latest(s))' => Committed(e)
    <3>1. Latest(s)'.source = s
      BY <1>5
    <3>2. Committed(Latest(s))' => \E n \in 1 .. committed[q] : topic[q][n] = Latest(s)'
      BY <1>1, <3>1 DEF Committed
    <3>3. (\E n \in 1 .. committed[q] : topic[q][n] = e) => Committed(e)
      BY <1>5 DEF Committed
    <3> QED
      BY <1>5, <3>2, <3>3
  <2> QED
    BY <2>2, <2>3, <2>4 DEF Handled
<1>8. ASSUME NEW t \in Source, t # s
      PROVE  (Handled(t)' => Handled(t)) /\ \A k : Waiting(t, k) => Waiting(t, k)'
  BY <1>1, <1>3, <1>4, <1>8, Elsewhere
<1> QED
  BY <1>3, <1>4, <1>7, <1>8 DEF Steady

LEMMA MonthChange ==
    ASSUME IInv, MonthInv, NEW s \in Source, ChangeSource(s)
    PROVE  MonthInv'
<1>1. version' = [version EXCEPT ![s] = version[s] + 1]
  BY DEF ChangeSource
<1>2. \A t \in Source : t # s => version'[t] = version[t]
  BY <1>1 DEF IInv, Types, SourcesOK
<1>3. IsFiniteSet(Read(Order))'
  <2> DEFINE new == {[id |-> s, state |-> History[s][version'[s]]]}
  <2>1. Read(Order)' \in SUBSET (Read(Order) \cup new)
    <3> SUFFICES ASSUME NEW x \in Read(Order)' PROVE x \in Read(Order) \cup new
      OBVIOUS
    <3>1. PICK t \in Order : version'[t] > 0 /\ x = [id |-> t, state |-> History[t][version'[t]]]
      BY DEF Read
    <3>2. CASE t = s
      BY <3>1, <3>2
    <3>3. CASE t # s
      <4>1. version'[t] = version[t]
        BY <1>2, <3>3, OrdersTyped
      <4> QED
        BY <3>1, <4>1 DEF Read
    <3> QED
      BY <3>2, <3>3
  <2>2. IsFiniteSet(Read(Order) \cup new)
    BY FS_AddElement DEF MonthInv
  <2> HIDE DEF new
  <2> QED
    BY <2>1, <2>2, FS_Subset
<1> QED
  BY <1>3, SteadyChange, SteadyOrders, KeptStays

\* Steps that let nothing through: before the checks are passed, and faults.
LEMMA SteadyCheck ==
    ASSUME IInv, NEW p \in Partition,
           Fetch(p) \/ CheckClosed(p) \/ SourceMissing(p) \/ Fail(p) \/ Stop(p)
    PROVE  Grows /\ Steady(Source)
<1>1. /\ UNCHANGED <<version, committed, topic, deadLetters, ledger>>
      /\ Fail(p) \/ Stop(p) \/ consumer[p].at \in {"fetch", "closed?", "source?"}
  BY DEF Fetch, CheckClosed, SourceMissing, Fail, Stop, environment, kafka, At
<1>2. \E state : consumer' = [consumer EXCEPT ![p] = state]
  BY DEF Fetch, CheckClosed, SourceMissing, Fail, Stop, Continue
<1>3. \A q \in Partition : q # p => consumer'[q] = consumer[q]
  BY <1>2, HandDomain
<1>4. \/ consumer'[p].at \in {"closed?", "source?", "fetch"}
      \/ consumer'[p].at = "dead letter" /\ ~consumer'[p].conflicts
  <2>1. CASE Fetch(p)
    <3>1. PICK e : consumer' = [consumer EXCEPT ![p] =
              [at |-> "closed?", event |-> e, todo |-> {}, conflicts |-> FALSE]]
      BY <2>1 DEF Fetch
    <3>2. consumer'[p] = [at |-> "closed?", event |-> e, todo |-> {}, conflicts |-> FALSE]
      BY <3>1, HandDomain
    <3> QED
      BY <3>2
  <2>2. CASE CheckClosed(p) \/ SourceMissing(p)
    <3>1. PICK step \in {"dead letter", "source?", "closed?"} : Continue(p, step)
      BY <2>2 DEF CheckClosed, SourceMissing
    <3>2. consumer[p].at \in {"closed?", "source?"}
      BY <2>2 DEF CheckClosed, SourceMissing, At
    <3>3. ~consumer[p].conflicts
      BY <3>2 DEF IInv, ProgressOK
    <3>4. consumer[p].at # "fetch"
      BY <3>2
    <3>5. consumer'[p].at = step /\ consumer'[p].conflicts = consumer[p].conflicts
      BY <3>1, <3>4, ContinueFields
    <3>6. ~consumer'[p].conflicts
      BY <3>3, <3>5, Zenon
    <3> QED
      BY <3>1, <3>5, <3>6
  <2>3. CASE Fail(p)
    <3>1. consumer[p].at # "fetch"
          /\ consumer' = [consumer EXCEPT ![p] =
                [consumer[p] EXCEPT !.at = "closed?", !.todo = {}, !.conflicts = FALSE]]
      BY <2>3 DEF Fail, At
    <3>2. DOMAIN consumer[p] = {"at", "event", "todo", "conflicts"}
      BY <3>1, InHandFacts
    <3>3. consumer'[p] = [consumer[p] EXCEPT !.at = "closed?", !.todo = {}, !.conflicts = FALSE]
      BY <3>1, HandDomain
    <3> QED
      BY <3>2, <3>3
  <2>4. CASE Stop(p)
    <3>1. Idle.at = "fetch"
      BY DEF Idle
    <3> QED
      BY <2>4, <3>1, HandDomain DEF Stop
  <2> QED
    BY <2>1, <2>2, <2>3, <2>4
<1>5. \A s \in Source : PartitionOf[s] = p => ~Passing(s)'
  BY <1>4 DEF Passing
<1>6. Grows
  BY <1>1, HandGrows
<1> QED
  BY <1>1, <1>3, <1>5, <1>6, SteadyHand

\* An order is put only after its month was loaded; what is stale is not the
\* newest event.
LEMMA SteadyLoad ==
    ASSUME IInv, NEW p \in Partition, LoadSource(p)
    PROVE  Grows /\ Steady(Order)
<1> DEFINE e == InHand(p)
           loaded == History[e.source][version[e.source]]
           at == Judge(e, loaded)
           rows == OwnRows({[id |-> e.source, state |-> loaded]})
           state == [consumer[p] EXCEPT !.at = at, !.todo = rows]
<1>1. /\ consumer[p].at = "source?" /\ consumer' = [consumer EXCEPT ![p] = state]
      /\ UNCHANGED <<version, committed, topic, deadLetters, ledger>>
  BY DEF LoadSource, environment, kafka, At
<1>2. /\ DOMAIN consumer[p] = {"at", "event", "todo", "conflicts"} /\ consumer[p].event = e
      /\ e.version \in Nat /\ version[e.source] \in Nat
  BY <1>1, InHandFacts DEF InHand
<1>3. ~consumer[p].conflicts
  BY <1>1 DEF IInv, ProgressOK
<1>4. \/ at = "dead letter"
      \/ at = "closed?"
      \/ at = "commit" /\ version[e.source] > e.version
      \/ at \in {"put", "context?"} /\ version[e.source] = e.version
  BY <1>2, JudgeCases
<1>5. at = "put" => e.source \in Trip
  <2>1. at \in {"dead letter", "commit", "closed?", Accepted(e.source)}
    BY DEF Judge
  <2>2. Accepted(e.source) = IF e.source \in Trip THEN "put" ELSE "context?"
    BY DEF Accepted
  <2> HIDE DEF at
  <2> QED
    BY <2>1, <2>2
<1> HIDE DEF at, rows, loaded
<1>6. /\ consumer'[p] = state
      /\ \A q \in Partition : q # p => consumer'[q] = consumer[q]
  BY <1>1, HandDomain
<1>7. state.at = at /\ state.event = e /\ state.conflicts = consumer[p].conflicts
  BY <1>2
<1> HIDE DEF state, e
<1>8. ASSUME NEW s \in Order, PartitionOf[s] = p PROVE ~Passing(s)'
  <2> SUFFICES ASSUME Passing(s)' PROVE FALSE
    OBVIOUS
  <2>1. Latest(s)' = Latest(s) /\ Latest(s).source = s /\ Latest(s).version = version[s]
    BY <1>1, LatestFields DEF Latest, Event
  <2>2. state.event = Latest(s)
        /\ (state.at \in {"put", "commit"} \/ (state.at = "dead letter" /\ state.conflicts))
    BY <1>6, <1>8, <2>1 DEF Passing
  <2>3. e.source = s /\ e.version = version[s] /\ at \in {"put", "commit"}
    BY <1>3, <1>7, <2>1, <2>2
  <2>4. s \notin Trip
    BY OrdersTyped
  <2>5. ~ (version[s] > e.version)
    BY <1>2, <2>3
  <2> QED
    BY <1>4, <1>5, <2>3, <2>4, <2>5
<1>9. Grows
  BY <1>1, HandGrows
<1>10. Order \in SUBSET Source
  BY DEF Source
<1> QED
  BY <1>1, <1>6, <1>8, <1>9, <1>10, SteadyHand

\* Rows that are put are no longer waiting, but in the ledger.
LEMMA SteadyPut ==
    ASSUME IInv, NEW p \in Partition, PutRow(p) \/ Processed(p)
    PROVE  Grows /\ Steady(Source)
<1> DEFINE c == consumer[p]
<1>1. /\ c.at = "put" /\ UNCHANGED <<version, committed, topic, deadLetters>>
      /\ DOMAIN c = {"at", "event", "todo", "conflicts"} /\ \A t \in c.todo : RowOK(t)
  <2>1. c.at = "put" /\ UNCHANGED <<version, committed, topic, deadLetters>>
    BY DEF PutRow, Processed, environment, kafka, At
  <2> QED
    BY <2>1, InHandFacts
<1>2. \E state : consumer' = [consumer EXCEPT ![p] = state]
  BY DEF PutRow, Processed, Continue
<1>3. \A q \in Partition : q # p => consumer'[q] = consumer[q]
  BY <1>2, HandDomain
<1>4. \A s : Latest(s)' = Latest(s)
  BY <1>1 DEF Latest, Event
<1>5. consumer'[p].event = c.event
  <2>1. CASE Processed(p)
    BY <1>1, <2>1, ContinueFields DEF Processed, InHand
  <2>2. CASE PutRow(p)
    <3>1. PICK r \in c.todo :
            consumer' = [consumer EXCEPT ![p] =
                [c EXCEPT !.todo = c.todo \ {r}, !.conflicts = c.conflicts \/ Conflicts(ledger, r)]]
      BY <2>2 DEF PutRow, First
    <3>2. consumer'[p] =
            [c EXCEPT !.todo = c.todo \ {r}, !.conflicts = c.conflicts \/ Conflicts(ledger, r)]
      BY <3>1, HandDomain
    <3> QED
      BY <1>1, <3>2
  <2> QED
    BY <2>1, <2>2
<1>6. \A s \in Source : PartitionOf[s] = p => (Passing(s)' => Passing(s))
  BY <1>1, <1>4, <1>5 DEF Passing
<1>7. CASE Processed(p)
  <2>1. c.todo = {} /\ ledger' = ledger
    BY <1>7 DEF Processed
  <2>2. \A s \in Source : PartitionOf[s] = p => \A k : ~Waiting(s, k)
    BY <2>1 DEF Waiting
  <2>3. Grows
    BY <1>1, <2>1, HandGrows
  <2> QED
    BY <1>1, <1>3, <1>6, <2>2, <2>3, SteadyHand
<1>8. CASE PutRow(p)
  <2>1. PICK r \in c.todo :
          /\ ledger' = With(ledger, r)
          /\ overtaken' = Overtaken(r, {x \in Source : PartitionOf[x] # p})
          /\ consumer' = [consumer EXCEPT ![p] =
                  [c EXCEPT !.todo = c.todo \ {r}, !.conflicts = c.conflicts \/ Conflicts(ledger, r)]]
    BY <1>8 DEF PutRow, First
  <2>2. DOMAIN ledger' = DOMAIN ledger \cup {r.key}
    BY <1>1, <2>1, PutLedger DEF IInv, Types
  <2>3. consumer'[p] = [c EXCEPT !.todo = c.todo \ {r}, !.conflicts = c.conflicts \/ Conflicts(ledger, r)]
    BY <2>1, HandDomain
  <2>4. consumer'[p].at = "put" /\ consumer'[p].todo = c.todo \ {r}
    BY <1>1, <2>3
  <2>5. ASSUME NEW s \in Source, PartitionOf[s] = p, NEW k, Waiting(s, k)
        PROVE  Waiting(s, k)' \/ JustPut(s, k)
    <3>1. PICK t \in c.todo : t.key = k
      BY <2>5 DEF Waiting
    <3>2. CASE t = r
      BY <2>1, <2>5, <3>1, <3>2 DEF JustPut
    <3>3. CASE t # r
      <4>1. t \in consumer'[p].todo
        BY <2>4, <3>3
      <4>2. Committed(Latest(s))' <=> Committed(Latest(s))
        BY <1>1, <1>4 DEF Committed
      <4> QED
        BY <1>4, <1>5, <2>4, <2>5, <3>1, <4>1, <4>2 DEF Waiting
    <3> QED
      BY <3>2, <3>3
  <2>6. Grows
    BY <1>1, <2>2, HandGrows
  <2> QED
    BY <1>1, <1>3, <1>6, <2>5, <2>6, SteadyHand
<1> QED
  BY <1>7, <1>8

\* What is sent to the dead letters was refused, or had its rows put before.
LEMMA SteadyDeadLetter ==
    ASSUME IInv, NEW p \in Partition, SendDeadLetter(p)
    PROVE  Grows /\ Steady(Source)
<1> DEFINE c == consumer[p]
           e == InHand(p)
<1>1. /\ c.at = "dead letter" /\ Continue(p, "commit")
      /\ deadLetters' = deadLetters \cup {[event |-> e, conflicts |-> c.conflicts]}
      /\ UNCHANGED <<version, topic, committed, ledger>>
  BY DEF SendDeadLetter, environment, At
<1>2. c.conflicts \in BOOLEAN /\ c.event = e
  BY <1>1, InHandFacts DEF InHand
<1>3. consumer'[p].at = "commit" /\ consumer'[p].event = e
  BY <1>1, ContinueFields
<1>4. \A q \in Partition : q # p => consumer'[q] = consumer[q]
  BY <1>1, HandDomain DEF Continue
<1>5. ASSUME NEW s \in Source, PartitionOf[s] = p
      PROVE  /\ Passing(s)' /\ ~Refused(Latest(s))' => Passing(s)
             /\ \A k : ~Waiting(s, k)
  <2>1. Latest(s)' = Latest(s)
    BY <1>1 DEF Latest, Event
  <2>2. c.conflicts = FALSE => [event |-> e, conflicts |-> FALSE] \in deadLetters'
    BY <1>1
  <2>3. Passing(s)' => e = Latest(s)
    BY <1>3, <1>5, <2>1 DEF Passing
  <2>4. Passing(s)' /\ ~Refused(Latest(s))' => c.conflicts
    BY <1>2, <2>1, <2>2, <2>3 DEF Refused
  <2> QED
    BY <1>1, <1>2, <1>5, <2>3, <2>4 DEF Passing, Waiting
<1>6. Grows
  BY <1>1, HandGrows
<1> QED
  BY <1>1, <1>4, <1>5, <1>6, SteadyHand

\* The source of the event that is committed was handled before.
LEMMA SteadyCommit ==
    ASSUME IInv, NEW p \in Partition, Commit(p)
    PROVE  Grows /\ Steady(Source)
<1> DEFINE n == committed[p] + 1
<1>1. /\ consumer[p].at = "commit" /\ committed' = [committed EXCEPT ![p] = n]
      /\ consumer' = [consumer EXCEPT ![p] = Idle]
      /\ UNCHANGED <<version, topic, deadLetters, ledger>>
  BY DEF Commit, environment, At
<1>2. committed[p] \in Nat /\ consumer[p].event = topic[p][n]
  BY <1>1, InHandFacts DEF InHand
<1>3. /\ committed'[p] = n
      /\ \A q \in Partition : q # p => committed'[q] = committed[q] /\ consumer'[q] = consumer[q]
      /\ consumer'[p] = Idle
  BY <1>1 DEF IInv, Types, TopicOK, ConsumersOK
<1>4. Grows
  BY <1>1, HandGrows
<1>5. ASSUME NEW s \in Source
      PROVE  (Handled(s)' => Handled(s)) /\ \A k : Waiting(s, k) => Waiting(s, k)'
  <2>1. PartitionOf[s] \in Partition
    BY HistoryTypes
  <2>2. CASE PartitionOf[s] # p
    BY <1>1, <1>3, <1>4, <2>1, <2>2, Elsewhere
  <2>3. CASE PartitionOf[s] = p
    <3>1. Latest(s)' = Latest(s) /\ Latest(s).source = s
      BY <1>1, LatestFields DEF Latest, Event
    <3>2. ~Passing(s)'
      <4>1. Idle.at = "fetch"
        BY DEF Idle
      <4> QED
        BY <1>3, <2>3, <4>1 DEF Passing
    <3>3. Refused(Latest(s))' <=> Refused(Latest(s))
      BY <1>1, <3>1 DEF Refused
    <3>4. ASSUME Committed(Latest(s))' PROVE Committed(Latest(s)) \/ Passing(s)
      <4>1. PICK i \in 1 .. n : topic[p][i] = Latest(s)
        BY <1>1, <1>3, <2>3, <3>1, <3>4 DEF Committed
      <4>2. i \in 1 .. committed[p] \/ i = n
        BY <1>2
      <4>3. CASE i = n
        BY <1>1, <1>2, <2>3, <4>1, <4>3 DEF Passing
      <4>4. CASE i \in 1 .. committed[p]
        BY <2>3, <3>1, <4>1, <4>4 DEF Committed
      <4> QED
        BY <4>2, <4>3, <4>4
    <3>5. \A k : ~Waiting(s, k)
      BY <1>1, <2>3 DEF Waiting
    <3> QED
      BY <1>1, <3>2, <3>3, <3>4, <3>5 DEF Handled
  <2> QED
    BY <2>2, <2>3
<1> QED
  BY <1>1, <1>4, <1>5 DEF Steady

\* A step that lets no order through, and changes none, keeps what was owed.
LEMMA MonthSteady ==
    ASSUME IInv, MonthInv, Grows, Steady(Order), version' = version
    PROVE  MonthInv'
BY SameOrders, KeptStays

LEMMA MonthHand ==
    ASSUME IInv, MonthInv, NEW p \in Partition,
           \/ Fetch(p) \/ CheckClosed(p) \/ SourceMissing(p) \/ LoadSource(p)
           \/ PutRow(p) \/ Processed(p) \/ SendDeadLetter(p) \/ Commit(p) \/ Fail(p) \/ Stop(p)
    PROVE  MonthInv'
<1>1. Grows /\ Steady(Order)
  BY SteadyCheck, SteadyLoad, SteadyPut, SteadyDeadLetter, SteadyCommit, SteadyOrders
<1>2. version' = version
  BY DEF Fetch, CheckClosed, SourceMissing, LoadSource, PutRow, Processed, SendDeadLetter,
         Commit, Fail, Stop, environment
<1> QED
  BY <1>1, <1>2, MonthSteady

LEMMA ReadCurrent ==
    ASSUME NEW s \in Order, version[s] > 0
    PROVE  Current(s) \in Read(Order)
BY DEF Read, Current

LEMMA CountedSame ==
    ASSUME NEW orders, NEW d, NEW f, Month(d) = Month(f)
    PROVE  /\ Counted(orders, d) = Counted(orders, f)
           /\ Valid(orders, d) <=> Valid(orders, f)
           /\ Revenue(orders, d) = Revenue(orders, f)
<1>1. Counted(orders, d) = Counted(orders, f)
  BY DEF Counted
<1> QED
  BY <1>1, RevenueIsTotal DEF Valid

LEMMA CountedCosts ==
    ASSUME IInv, MonthInv, NEW d, Valid(Read(Order), d)
    PROVE  /\ Counted(Read(Order), d) \in SUBSET Read(Order)
           /\ IsFiniteSet(Counted(Read(Order), d)) /\ Costs(Counted(Read(Order), d))
<1>1. Counted(Read(Order), d) \in SUBSET Read(Order)
  BY DEF Counted
<1>2. IsFiniteSet(Counted(Read(Order), d))
  BY <1>1, FS_Subset DEF MonthInv
<1>3. ASSUME NEW x \in Counted(Read(Order), d) PROVE x.state.cost \in Nat
  <2>1. x.state \in SourceState
    BY <1>1, ReadTypes DEF IInv, Types, SourcesOK, Source, SourceOK
  <2>2. x.state.cost \in Nat \cup {Invalid} /\ x.state.cost # Invalid
    BY <2>1 DEF SourceState, Valid
  <2> QED
    BY <2>2
<1> QED
  BY <1>1, <1>2, <1>3 DEF Costs

\* Orders of a month are part of its revenue.
LEMMA MonthRevenue ==
    ASSUME IInv, MonthInv, NEW S \in SUBSET Order, NEW d, Valid(Read(Order), d),
           \A s \in S : Late(s, Month(d))
    PROVE  /\ TotalOf(S) \in Nat /\ Revenue(Read(Order), d) \in Nat
           /\ TotalOf(S) <= Revenue(Read(Order), d)
<1> DEFINE C == Counted(Read(Order), d)
           L == {Current(s) : s \in S}
<1>1. IsFiniteSet(C) /\ Costs(C)
  BY CountedCosts
<1>2. ASSUME NEW s \in S PROVE Current(s) \in C
  BY ReadCurrent DEF Late, Counted
<1>3. L \in SUBSET C
  BY <1>2
<1>4. IsFiniteSet(L) /\ Costs(L)
  BY <1>1, <1>3, FS_Subset DEF Costs
<1>5. Revenue(Read(Order), d) = Total(C) /\ TotalOf(S) = Total(L)
  BY RevenueIsTotal DEF TotalOf
<1> HIDE DEF C, L
<1> QED
  BY <1>1, <1>3, <1>4, <1>5, TotalOfAny, TotalMonotone

LEMMA GeneralRowFields ==
    ASSUME NEW o, NEW orders, NEW S, o \in S, o.state.eligible, o.state.general # 0,
           GeneralEarned(orders, o)
    PROVE  \E r \in GeneralRows(orders, S) : r.key = <<o.id, "general">>
<1>1. GeneralRow(o).key = <<o.id, "general">> /\ GeneralRow(o).row.amount = o.state.general
  BY DEF GeneralRow, Row
<1>2. GeneralRow(o) \in GeneralRows(orders, S)
  BY <1>1 DEF GeneralRows, Nonzero
<1> QED
  BY <1>1, <1>2

\* The context of an event contains all that its order is due with others.
LEMMA OwedRows ==
    ASSUME IInv, MonthInv, NEW S \in SUBSET Order, NEW k, Owed(S, k), NEW s \in S, NEW e,
           e.date = Current(s).state.date,
           Valid(Read(Order), e.date) \/ ~(e.date >= EligibleFrom)
    PROVE  \E r \in Dependent(Read(Order), e) : r.key = k
<1> DEFINE orders == Read(Order)
           month == {o \in orders : Month(o.state.date) = Month(e.date)}
<1>1. Dependent(orders, e) = GeneralRows(orders, month) \cup BonusRows(orders, e.date)
  BY DEF Dependent
<1>2. \A t \in S : Current(t).id = t
  BY DEF Current
<1>3. CASE \E t \in S : S = {t} /\ Early(t) /\ HasGeneral(t) /\ k = <<t, "general">>
  <2>1. Early(s) /\ HasGeneral(s) /\ k = <<s, "general">>
    BY <1>3
  <2>2. Current(s) \in month
    BY <2>1, ReadCurrent DEF Early
  <2>3. GeneralEarned(orders, Current(s)) /\ Current(s).state.eligible
        /\ Current(s).state.general # 0
    BY <2>1 DEF Early, HasGeneral, GeneralEarned
  <2> HIDE DEF orders, month
  <2>4. \E r \in GeneralRows(orders, month) : r.key = k
    BY <1>2, <2>1, <2>2, <2>3, GeneralRowFields
  <2> QED
    BY <1>1, <2>4 DEF orders
<1>4. CASE \E m \in Nat :
          /\ \A t \in S : Late(t, m)
          /\ \/ TotalOf(S) >= Target1 /\ \E t \in S : HasGeneral(t) /\ k = <<t, "general">>
             \/ Target2 > 0 /\ TotalOf(S) >= Target2 /\ Bonus # 0 /\ k = <<m, "target_bonus">>
  <2>1. PICK m \in Nat :
          /\ \A t \in S : Late(t, m)
          /\ \/ TotalOf(S) >= Target1 /\ \E t \in S : HasGeneral(t) /\ k = <<t, "general">>
             \/ Target2 > 0 /\ TotalOf(S) >= Target2 /\ Bonus # 0 /\ k = <<m, "target_bonus">>
    BY <1>4
  <2>2. m = Month(e.date) /\ e.date >= EligibleFrom
    BY <2>1 DEF Late
  <2>3. Valid(orders, e.date)
    BY <2>2
  <2>4. /\ TotalOf(S) \in Nat /\ Revenue(orders, e.date) \in Nat
        /\ TotalOf(S) <= Revenue(orders, e.date)
    BY <2>1, <2>2, <2>3, MonthRevenue
  <2>5. Target1 \in Nat /\ Target2 \in Nat
    BY ConstantsAssumption
  <2>6. CASE TotalOf(S) >= Target1 /\ \E t \in S : HasGeneral(t) /\ k = <<t, "general">>
    <3>1. PICK t \in S : HasGeneral(t) /\ k = <<t, "general">>
      BY <2>6
    <3>2. Late(t, m) /\ t \in Order
      BY <2>1
    <3>3. /\ Current(t) \in orders /\ Current(t).state.eligible
          /\ Month(Current(t).state.date) = Month(e.date)
      BY <2>2, <3>2, ReadCurrent DEF Late
    <3>4. Revenue(orders, e.date) >= Target1
      BY <2>4, <2>5, <2>6
    <3>5. GeneralEarned(orders, Current(t))
      BY <2>3, <3>3, <3>4, CountedSame DEF GeneralEarned
    <3>6. Current(t) \in month /\ Current(t).state.general # 0
      BY <3>1, <3>3 DEF HasGeneral
    <3> HIDE DEF orders, month
    <3>7. \E r \in GeneralRows(orders, month) : r.key = k
      BY <1>2, <3>1, <3>3, <3>5, <3>6, GeneralRowFields
    <3> QED
      BY <1>1, <3>7 DEF orders
  <2>7. CASE Target2 > 0 /\ TotalOf(S) >= Target2 /\ Bonus # 0 /\ k = <<m, "target_bonus">>
    <3> DEFINE bonus == BonusRow(e.date, Revenue(orders, e.date))
    <3>1. Revenue(orders, e.date) >= Target2
      BY <2>4, <2>5, <2>7
    <3>2. bonus.key = <<Month(e.date), "target_bonus">> /\ bonus.row.amount = Bonus
      BY DEF BonusRow, Row
    <3>3. BonusRows(orders, e.date) = Nonzero({bonus})
      BY <2>3, <2>7, <3>1 DEF BonusRows
    <3> HIDE DEF bonus
    <3>4. bonus \in BonusRows(orders, e.date)
      BY <2>7, <3>2, <3>3 DEF Nonzero
    <3> QED
      BY <1>1, <2>2, <2>7, <3>2, <3>4
  <2> QED
    BY <2>1, <2>6, <2>7
<1> QED
  BY <1>3, <1>4 DEF Owed

\* The last of some orders to have its month loaded finds what they are due.
LEMMA MonthContext ==
    ASSUME IInv, MonthInv, NEW p \in Partition, LoadContext(p)
    PROVE  MonthInv'
<1> DEFINE c == consumer[p]
           e == InHand(p)
           orders == Read(Order)
           dependent == Dependent(orders, e)
<1>1. c.at = "context?" /\ UNCHANGED <<version, committed, topic, deadLetters, ledger>>
  BY DEF LoadContext, environment, kafka, At
<1>2. DOMAIN c = {"at", "event", "todo", "conflicts"} /\ c.event = e /\ ~c.conflicts
  <2>1. ~c.conflicts
    BY <1>1 DEF IInv, ProgressOK
  <2> QED
    BY <1>1, <2>1, InHandFacts DEF InHand
<1>3. \/ consumer' = [consumer EXCEPT ![p] = [c EXCEPT !.at = "dead letter", !.todo = {}]]
      \/ /\ consumer' = [consumer EXCEPT ![p] =
                [c EXCEPT !.at = "put", !.todo = c.todo \cup dependent]]
         /\ Valid(orders, e.date) \/ ~(e.date >= EligibleFrom)
  BY DEF LoadContext
<1>4. Grows
  BY <1>1, HandGrows
<1>5. \A s : Latest(s)' = Latest(s)
  BY <1>1 DEF Latest, Event
<1> HIDE DEF dependent, e, orders
<1>6. CASE consumer' = [consumer EXCEPT ![p] = [c EXCEPT !.at = "dead letter", !.todo = {}]]
  <2> DEFINE state == [c EXCEPT !.at = "dead letter", !.todo = {}]
  <2>1. state.at = "dead letter" /\ state.conflicts = c.conflicts
    BY <1>2
  <2> HIDE DEF state
  <2>2. consumer'[p] = state /\ \A q \in Partition : q # p => consumer'[q] = consumer[q]
    BY <1>6, HandDomain DEF state
  <2>3. ~consumer'[p].conflicts
    BY <1>2, <2>1, <2>2, Zenon
  <2>4. \A s \in Order : PartitionOf[s] = p => ~Passing(s)'
    BY <2>1, <2>2, <2>3 DEF Passing
  <2>5. Order \in SUBSET Source
    BY DEF Source
  <2>6. Steady(Order)
    BY <1>1, <1>4, <2>2, <2>4, <2>5, SteadyHand
  <2> QED
    BY <1>1, <1>4, <2>6, MonthSteady
<1>7. CASE /\ consumer' = [consumer EXCEPT ![p] =
                [c EXCEPT !.at = "put", !.todo = c.todo \cup dependent]]
           /\ Valid(orders, e.date) \/ ~(e.date >= EligibleFrom)
  <2> DEFINE state == [c EXCEPT !.at = "put", !.todo = c.todo \cup dependent]
  <2>1. state.at = "put" /\ state.event = e /\ state.todo = c.todo \cup dependent
    BY <1>2
  <2> HIDE DEF state
  <2>2. consumer'[p] = state /\ \A q \in Partition : q # p => consumer'[q] = consumer[q]
    BY <1>7, HandDomain DEF state
  <2>3. IsFiniteSet(Read(Order))'
    BY <1>1, SameOrders
  <2>4. ASSUME NEW S \in SUBSET Order, \A s \in S : Handled(s)', NEW k, Owed(S, k)'
        PROVE  Kept(S, k)'
    <3>1. Owed(S, k)
      BY <1>1, <2>4, OwedSame
    <3>2. ASSUME NEW s \in S, PartitionOf[s] # p
          PROVE  Handled(s) /\ (Waiting(s, k) => Waiting(s, k)')
      <4>1. s \in Order /\ PartitionOf[s] \in Partition
        BY OrdersTyped
      <4>2. s \in Source
        BY OrdersTyped
      <4> QED
        BY <1>1, <1>4, <2>2, <2>4, <3>2, <4>1, <4>2, Elsewhere
    <3>3. CASE \A s \in S : Handled(s)
      <4>1. Kept(S, k)
        BY <3>1, <3>3 DEF MonthInv
      <4>2. \A s \in S : PartitionOf[s] = p => ~Waiting(s, k)
        BY <1>1 DEF Waiting
      <4> QED
        BY <1>1, <3>2, <4>1, <4>2 DEF Kept
    <3>4. CASE \E s \in S : ~Handled(s)
      <4>1. PICK s \in S : ~Handled(s)
        BY <3>4
      <4>2. PartitionOf[s] = p /\ Handled(s)'
        BY <2>4, <3>2, <4>1
      <4>3. Committed(Latest(s))' <=> Committed(Latest(s))
        BY <1>1, <1>5 DEF Committed
      <4>4. Refused(Latest(s))' <=> Refused(Latest(s))
        BY <1>1, <1>5 DEF Refused
      <4>5. Passing(s)' /\ ~Committed(Latest(s))
        BY <1>1, <4>1, <4>2, <4>3, <4>4 DEF Handled
      <4>6. e = Latest(s)
        BY <1>5, <2>1, <2>2, <4>2, <4>5 DEF Passing
      <4>7. e.date = Current(s).state.date
        BY <4>6, LatestFields
      <4>8. PICK r \in dependent : r.key = k
        BY <1>7, <3>1, <4>7, OwedRows DEF dependent, orders
      <4>9. Waiting(s, k)'
        BY <1>5, <2>1, <2>2, <4>2, <4>3, <4>5, <4>6, <4>8 DEF Waiting
      <4> QED
        BY <4>9 DEF Kept
    <3> QED
      BY <3>3, <3>4
  <2> QED
    BY <2>3, <2>4 DEF MonthInv
<1> QED
  BY <1>3, <1>6, <1>7

\* Payments, closed periods and rebuilds take no row away.
LEMMA SteadyOutside ==
    ASSUME IInv,
           \/ \E k \in DOMAIN ledger : Pay(k)
           \/ (\E r \in ClosePeriods : ClosePeriod(r)) \/ (\E r \in Rebuilds : StartRebuild(r))
           \/ LoadRebuild \/ NextPart \/ FailRebuild \/ PutRebuilt
           \/ \E s \in Source : \E v \in DOMAIN History[s] : Deliver(s, v)
           \/ UNCHANGED vars
    PROVE  Grows /\ Steady(Source) /\ version' = version
<1>1. /\ UNCHANGED <<version, committed, consumer>>
      /\ UNCHANGED <<topic, deadLetters>> \/ \E s \in Source : \E v \in DOMAIN History[s] : Deliver(s, v)
  BY DEF Pay, ClosePeriod, StartRebuild, LoadRebuild, NextPart, FailRebuild, PutRebuilt,
         environment, kafka, vars, Deliver
<1>2. DOMAIN ledger \subseteq DOMAIN ledger'
  <2>1. CASE PutRebuilt
    <3>1. PICK r \in rebuild.todo : ledger' = With(ledger, r)
      BY <2>1 DEF PutRebuilt
    <3>2. rebuild.at # "none" /\ NoRebuild.at = "none"
      BY <2>1 DEF PutRebuilt, NoRebuild
    <3>3. RowOK(r)
      BY <3>2 DEF IInv, Types, RebuildOK
    <3> QED
      BY <3>1, <3>3, PutLedger DEF IInv, Types
  <2>2. CASE \E k \in DOMAIN ledger : Pay(k)
    BY <2>2 DEF Pay
  <2>3. ledger' = ledger => DOMAIN ledger' = DOMAIN ledger
    OBVIOUS
  <2> QED
    BY <2>1, <2>2, <2>3
      DEF ClosePeriod, StartRebuild, LoadRebuild, NextPart, FailRebuild, Deliver, vars
<1>3. Grows
  BY <1>1, <1>2, HandGrows, DeliverGrows
<1> QED
  BY <1>1, <1>3, SteadyWorld

LEMMA NextMonth == IInv /\ MonthInv /\ [Next]_vars => MonthInv'
<1> SUFFICES ASSUME IInv, MonthInv, [Next]_vars PROVE MonthInv'
  OBVIOUS
<1>1. ASSUME NEW p \in Partition, Consume(p) \/ Fail(p) \/ Stop(p) PROVE MonthInv'
  BY <1>1, MonthHand, MonthContext DEF Consume
<1>2. CASE Grows /\ Steady(Source) /\ version' = version
  BY <1>2, SteadyOrders, MonthSteady
<1> QED
  BY <1>1, <1>2, MonthChange, SteadyOutside DEF Next, Rebuild

\* The second invariant holds of every behaviour.
THEOREM MonthInvariance == Spec => []MonthInv
<1>1. Init => MonthInv
  BY InitMonth
<1>2. IInv /\ MonthInv /\ [Next]_vars => MonthInv'
  BY NextMonth
<1> QED
  BY <1>1, <1>2, Invariance, PTL DEF Spec

\* What accepted orders are due together is not only waiting to be put.
LEMMA AcceptedPaid ==
    ASSUME MonthInv, NEW S \in SUBSET Order, \A s \in S : UpToDate(s), NEW k, Owed(S, k)
    PROVE  k \in DOMAIN ledger
<1>1. \A s \in S : Handled(s) /\ ~Waiting(s, k)
  BY DEF UpToDate, Handled, Waiting
<1> QED
  BY <1>1 DEF MonthInv, Kept

\* The orders of a month make all of its revenue.
LEMMA MonthOrders ==
    ASSUME NEW d, NEW S, S = {y \in Order : Late(y, Month(d))}
    PROVE  TotalOf(S) = Revenue(Read(Order), d)
<1>1. ASSUME NEW x \in Counted(Read(Order), d) PROVE \E y \in S : x = Current(y)
  <2>1. PICK y \in Order : version[y] > 0 /\ x = Current(y)
    BY DEF Counted, Read, Current
  <2>2. Late(y, Month(d))
    BY <2>1 DEF Counted, Late
  <2> QED
    BY <2>1, <2>2
<1>2. ASSUME NEW y \in S PROVE Current(y) \in Counted(Read(Order), d)
  BY ReadCurrent DEF Late, Counted
<1>3. {Current(y) : y \in S} = Counted(Read(Order), d)
  BY <1>1, <1>2
<1> QED
  BY <1>3, RevenueIsTotal DEF TotalOf

\* An order that earned its commission is owed it with orders of its month.
LEMMA EarnedOwed ==
    ASSUME IInv, NEW y \in Order, version[y] > 0, Current(y).state.eligible, HasGeneral(y),
           GeneralEarned(Read(Order), Current(y))
    PROVE  \E S \in SUBSET Order :
              /\ y \in S /\ Owed(S, <<y, "general">>)
              /\ \A z \in S : /\ version[z] > 0 /\ Current(z).state.eligible
                              /\ Month(Current(z).state.date) = Month(Current(y).state.date)
<1> DEFINE d == Current(y).state.date
           L == {z \in Order : Late(z, Month(d))}
<1>1. d \in Nat /\ Month(d) \in Nat /\ EligibleFrom \in Nat
  <2>1. Current(y) \in Read(Order)
    BY ReadCurrent
  <2>2. SourceOK(Current(y))
    BY <2>1, ReadTypes DEF IInv, Types, SourcesOK, Source
  <2> QED
    BY <2>2, SourceKeys, MonthTypes, ConstantsAssumption
<1>2. CASE d < EligibleFrom
  <2>1. Owed({y}, <<y, "general">>)
    BY <1>2 DEF Owed, Early
  <2> QED
    BY <2>1
<1>3. CASE ~(d < EligibleFrom)
  <2>1. Revenue(Read(Order), d) >= Target1
    BY <1>3 DEF GeneralEarned
  <2>2. d >= EligibleFrom
    BY <1>1, <1>3
  <2>3. y \in L
    BY <2>2 DEF Late
  <2>4. TotalOf(L) = Revenue(Read(Order), d)
    BY MonthOrders
  <2> HIDE DEF L, d
  <2>5. L \in SUBSET Order /\ \A z \in L : Late(z, Month(d))
    BY DEF L
  <2>6. Owed(L, <<y, "general">>)
    BY <1>1, <2>1, <2>3, <2>4, <2>5 DEF Owed
  <2> QED
    BY <2>3, <2>5, <2>6 DEF Late, d
<1> QED
  BY <1>2, <1>3

\* Orders that make a month together: once the newest events of all of them
\* were accepted, every general commission and the bonus that are due are in
\* the ledger, whichever order came last, for any number of orders, consumers,
\* redeliveries and failures.
THEOREM MonthsComplete == Spec => []MonthComplete
<1>1. IInv /\ MonthInv => MonthComplete
  <2> DEFINE orders == Read(Order)
             date(o) == Current(o).state.date
             others(o) == {x \in orders : x.state.eligible /\ Month(x.state.date) = Month(date(o))}
             due(o) == GeneralRows(orders, others(o)) \cup BonusRows(orders, date(o))
  <2> SUFFICES ASSUME IInv, MonthInv, NEW o \in Order, UpToDate(o),
                      \A x \in others(o) : UpToDate(x.id), NEW r \in due(o)
               PROVE  r.key \in DOMAIN ledger
    BY DEF MonthComplete
  <2> DEFINE d == date(o)
             L == {y \in Order : Late(y, Month(d))}
  <2>1. d \in Nat /\ Month(d) \in Nat
    <3>1. Current(o) \in orders
      BY ReadCurrent DEF UpToDate
    <3>2. SourceOK(Current(o))
      BY <3>1, ReadTypes DEF IInv, Types, SourcesOK, Source
    <3> QED
      BY <3>2, SourceKeys, MonthTypes
  <2>2. TotalOf(L) = Revenue(orders, d)
    BY MonthOrders
  <2>3. ASSUME NEW y \in Order, version[y] > 0, Current(y).state.eligible,
               Month(Current(y).state.date) = Month(d)
        PROVE  UpToDate(y)
    <3>1. Current(y) \in others(o) /\ Current(y).id = y
      BY <2>3, ReadCurrent DEF Current
    <3> QED
      BY <3>1
  <2>4. L \in SUBSET Order /\ \A y \in L : Late(y, Month(d)) /\ UpToDate(y)
    BY <2>3 DEF Late
  <2>5. CASE r \in BonusRows(orders, d)
    <3>1. Target2 > 0 /\ Revenue(orders, d) >= Target2
          /\ r = BonusRow(d, Revenue(orders, d)) /\ r.row.amount # 0
      BY <2>5 DEF BonusRows, Nonzero
    <3>2. r.key = <<Month(d), "target_bonus">> /\ Bonus # 0
      BY <3>1 DEF BonusRow, Row
    <3> HIDE DEF L, d, orders
    <3>3. Owed(L, r.key)
      BY <2>1, <2>2, <2>4, <3>1, <3>2 DEF Owed
    <3> QED
      BY <2>4, <3>3, AcceptedPaid
  <2>6. CASE r \in GeneralRows(orders, others(o))
    <3>1. PICK x \in others(o) :
              GeneralEarned(orders, x) /\ r = GeneralRow(x) /\ r.row.amount # 0
      BY <2>6 DEF GeneralRows, Nonzero
    <3>2. r.key = <<x.id, "general">> /\ x.state.general # 0
      BY <3>1 DEF GeneralRow, Row
    <3>3. PICK y \in Order : version[y] > 0 /\ x = Current(y)
      BY <3>1 DEF Read, Current
    <3>4. /\ x.id = y /\ x.state.eligible /\ HasGeneral(y)
          /\ Month(x.state.date) = Month(d)
      BY <3>1, <3>2, <3>3 DEF Current, HasGeneral
    <3>5. PICK S \in SUBSET Order :
              /\ Owed(S, r.key)
              /\ \A z \in S : /\ version[z] > 0 /\ Current(z).state.eligible
                              /\ Month(Current(z).state.date) = Month(d)
      BY <3>1, <3>2, <3>3, <3>4, EarnedOwed
    <3>6. \A z \in S : UpToDate(z)
      BY <2>3, <3>5
    <3> QED
      BY <3>5, <3>6, AcceptedPaid
  <2> QED
    BY <2>5, <2>6
<1> QED
  BY <1>1, Invariance, MonthInvariance, PTL

-----------------------------------------------------------------------------
(* Amounts *)

Kind == {"own", "general"}

RowOf(s, kind) == IF kind = "own" THEN OwnRow(Current(s)) ELSE GeneralRow(Current(s))

\* The ledger has the row of a source, as the source is now or already paid, or
\* last put by a writer that does not get its events.
Right(s, kind) ==
    LET k == <<s, kind>>
    IN  /\ k \in DOMAIN ledger
        /\ \/ ledger[k].settled
           \/ ledger[k] = RowOf(s, kind).row
           \/ k \in overtaken

\* A row in the hand of its source's own consumer is up to date once the newest
\* event passed.
HandFollows(p) ==
    LET c == consumer[p]
        e == c.event
    IN  /\ c.at # "fetch" =>
              \A r \in c.todo : \A s \in Source : \A kind \in Kind :
                  r.key = <<s, kind>> /\ PartitionOf[s] = p /\ Handled(s) => r = RowOf(s, kind)
        /\ c.at = "context?" =>
              /\ e.source \in Order
              /\ c.todo = OwnRows({[id |-> e.source, state |-> History[e.source][e.version]]})

\* The sources S give one of them a row, whatever the other sources are.
Due(S, s, kind) ==
    \/ kind = "own" /\ S = {s} /\ Current(s).state.own # 0
    \/ kind = "general" /\ S \subseteq Order /\ Owed(S, <<s, "general">>)

RowsKept ==
    \A S \in SUBSET Source : (\A s \in S : Handled(s)) =>
        \A s \in S : \A kind \in Kind : Due(S, s, kind) =>
            Right(s, kind) \/ \E t \in S : Waiting(t, <<s, kind>>)

AmountInv == (\A p \in Partition : HandFollows(p)) /\ RowsKept

LEMMA InitAmount == Init => AmountInv
<1> SUFFICES ASSUME Init PROVE AmountInv
  OBVIOUS
<1>1. ASSUME NEW p \in Partition PROVE HandFollows(p)
  <2>1. consumer[p] = Idle /\ Idle.at = "fetch"
    BY DEF Init, Idle
  <2> QED
    BY <2>1 DEF HandFollows
<1>2. \A s \in Source : ~Handled(s)
  BY DEF Init, Handled
<1>3. RowsKept
  BY <1>2 DEF RowsKept
<1> QED
  BY <1>1, <1>3 DEF AmountInv

\* Whose rows are among those that are put.
LEMMA OwnRowOf ==
    ASSUME NEW S, NEW r \in OwnRows(S), NEW s, NEW kind \in Kind, r.key = <<s, kind>>
    PROVE  kind = "own" /\ \E x \in S : x.id = s /\ r = OwnRow(x)
<1>1. PICK x \in S : r = OwnRow(x)
  BY DEF OwnRows, Nonzero
<1>2. r.key = <<x.id, "own">>
  BY <1>1 DEF OwnRow, Row
<1> QED
  BY <1>1, <1>2 DEF Kind

LEMMA GeneralRowOf ==
    ASSUME NEW orders, NEW S, NEW r \in GeneralRows(orders, S), NEW s, NEW kind \in Kind,
           r.key = <<s, kind>>
    PROVE  kind = "general" /\ \E x \in S : x.id = s /\ r = GeneralRow(x)
<1>1. PICK x \in S : r = GeneralRow(x)
  BY DEF GeneralRows, Nonzero
<1>2. r.key = <<x.id, "general">>
  BY <1>1 DEF GeneralRow, Row
<1> QED
  BY <1>1, <1>2 DEF Kind

LEMMA BonusRowOf ==
    ASSUME NEW orders, NEW d, NEW r \in BonusRows(orders, d), NEW s, NEW kind \in Kind
    PROVE  r.key # <<s, kind>>
<1>1. r = BonusRow(d, Revenue(orders, d))
  BY DEF BonusRows, Nonzero
<1>2. r.key = <<Month(d), "target_bonus">>
  BY <1>1 DEF BonusRow, Row
<1> QED
  BY <1>2 DEF Kind

LEMMA ReadIsCurrent ==
    ASSUME NEW S, NEW x \in Read(S)
    PROVE  x.id \in S /\ version[x.id] > 0 /\ x = Current(x.id)
BY DEF Read, Current

LEMMA RowOfSame ==
    ASSUME NEW s, version'[s] = version[s]
    PROVE  Current(s)' = Current(s) /\ \A kind : RowOf(s, kind)' = RowOf(s, kind)
<1>1. Current(s)' = Current(s)
  BY DEF Current
<1> QED
  BY <1>1 DEF RowOf

LEMMA DueSame ==
    ASSUME NEW S, NEW s \in S, NEW kind, \A t \in S : version'[t] = version[t], Due(S, s, kind)'
    PROVE  Due(S, s, kind)
<1>1. Current(s)' = Current(s)
  BY RowOfSame
<1>2. Owed(S, <<s, "general">>)' => Owed(S, <<s, "general">>)
  BY OwedSame
<1> QED
  BY <1>1, <1>2 DEF Due

-----------------------------------------------------------------------------

\* What is put on a row: it stays as it is when it is paid, and what a writer
\* of other sources puts too late is noted.
LEMMA PutRight ==
    ASSUME IInv, NEW r, RowOK(r), ledger' = With(ledger, r),
           NEW S, overtaken' = Overtaken(r, S),
           NEW s \in Source, NEW kind \in Kind, version'[s] = version[s],
           r.key = <<s, kind>> => s \in S \/ r = RowOf(s, kind)
    PROVE  (r.key = <<s, kind>> \/ Right(s, kind)) => Right(s, kind)'
<1> DEFINE k == <<s, kind>>
<1>1. RowOf(s, kind)' = RowOf(s, kind)
  BY RowOfSame
<1>2. DOMAIN ledger' = DOMAIN ledger \cup {r.key}
  BY PutLedger DEF IInv, Types
<1>3. CASE r.key = k
  <2>1. k \in DOMAIN ledger'
    BY <1>2, <1>3
  <2>2. ledger'[k] = IF k \in DOMAIN ledger THEN Refreshed(ledger[k], r.row) ELSE r.row
    BY <1>2, <1>3 DEF With
  <2>3. ledger'[k] = r.row \/ ledger'[k].settled
    BY <2>2 DEF Refreshed
  <2>4. CASE r = RowOf(s, kind)
    BY <1>1, <2>1, <2>3, <2>4 DEF Right
  <2>5. CASE r # RowOf(s, kind)
    <3>1. s \in S
      BY <1>3, <2>5
    <3>2. OwnRow(Current(s)).key = <<s, "own">> /\ GeneralRow(Current(s)).key = <<s, "general">>
      BY DEF OwnRow, GeneralRow, Row, Current
    <3>3. r \notin {OwnRow(Current(s)), GeneralRow(Current(s))}
      BY <1>3, <2>5, <3>2 DEF RowOf, Kind
    <3>4. Superseded(r, S)
      BY <1>3, <3>1, <3>3 DEF Superseded, Kind
    <3>5. k \in overtaken'
      BY <1>3, <3>4 DEF Overtaken
    <3> QED
      BY <2>1, <3>5 DEF Right
  <2> QED
    BY <2>4, <2>5
<1>4. CASE r.key # k
  <2>1. k \in DOMAIN ledger => k \in DOMAIN ledger' /\ ledger'[k] = ledger[k]
    BY <1>2, <1>4 DEF With
  <2>2. k \in overtaken => k \in overtaken'
    BY <1>4 DEF Overtaken
  <2> QED
    BY <1>1, <1>4, <2>1, <2>2 DEF Right
<1> QED
  BY <1>3, <1>4

\* What a step may do to the ledger.
LedgerFollows ==
    \/ UNCHANGED <<ledger, overtaken>>
    \/ \E k \in DOMAIN ledger : Pay(k)
    \/ \E r : \E S \in SUBSET Source :
          /\ RowOK(r) /\ ledger' = With(ledger, r) /\ overtaken' = Overtaken(r, S)
          /\ \A s \in Source \ S : \A kind \in Kind :
                r.key = <<s, kind>> /\ Handled(s) => r = RowOf(s, kind)

LEMMA RightStays ==
    ASSUME IInv, LedgerFollows, NEW s \in Source, NEW kind \in Kind, Handled(s),
           version'[s] = version[s], Right(s, kind)
    PROVE  Right(s, kind)'
<1>1. RowOf(s, kind)' = RowOf(s, kind)
  BY RowOfSame
<1>2. CASE UNCHANGED <<ledger, overtaken>>
  BY <1>1, <1>2 DEF Right
<1>3. ASSUME NEW l \in DOMAIN ledger, Pay(l) PROVE Right(s, kind)'
  <2> DEFINE k == <<s, kind>>
  <2>1. /\ ledger' = [ledger EXCEPT ![l] = [ledger[l] EXCEPT !.settled = TRUE]]
        /\ overtaken' = overtaken
    BY <1>3 DEF Pay
  <2>2. DOMAIN ledger' = DOMAIN ledger
    BY <2>1
  <2>3. CASE k = l
    <3>1. ledger'[k] = [ledger[l] EXCEPT !.settled = TRUE]
      BY <2>1, <2>3, <1>3
    <3>2. "settled" \in DOMAIN ledger[l]
      BY <1>3 DEF IInv, Types, LedgerOK, DocumentOK
    <3>3. ledger'[k].settled = TRUE
      BY <3>1, <3>2
    <3> QED
      BY <1>3, <2>2, <2>3, <3>3 DEF Right
  <2>4. CASE k # l
    <3>1. k \in DOMAIN ledger => ledger'[k] = ledger[k]
      BY <2>1, <2>4
    <3> QED
      BY <1>1, <2>1, <2>2, <3>1 DEF Right
  <2> QED
    BY <2>3, <2>4
<1>4. ASSUME NEW r, NEW S \in SUBSET Source, RowOK(r), ledger' = With(ledger, r),
             overtaken' = Overtaken(r, S),
             \A x \in Source \ S : \A l \in Kind :
                 r.key = <<x, l>> /\ Handled(x) => r = RowOf(x, l)
      PROVE  Right(s, kind)'
  BY <1>4, PutRight
<1> QED
  BY <1>2, <1>3, <1>4 DEF LedgerFollows

\* A step that lets no source through keeps the rows.
LEMMA RowsStay ==
    ASSUME IInv, AmountInv, Steady(Source), LedgerFollows
    PROVE  RowsKept'
<1> SUFFICES ASSUME NEW S \in SUBSET Source, \A s \in S : Handled(s)', NEW s \in S,
                    NEW kind \in Kind, Due(S, s, kind)'
             PROVE  Right(s, kind)' \/ \E t \in S : Waiting(t, <<s, kind>>)'
  BY DEF RowsKept
<1> DEFINE k == <<s, kind>>
<1>1. \A t \in S : Handled(t) /\ version'[t] = version[t]
  BY DEF Steady
<1>2. Due(S, s, kind)
  BY <1>1, DueSame
<1>3. Right(s, kind) \/ \E t \in S : Waiting(t, k)
  BY <1>1, <1>2 DEF AmountInv, RowsKept
<1>4. CASE Right(s, kind)
  BY <1>1, <1>4, RightStays
<1>5. ASSUME NEW t \in S, Waiting(t, k) PROVE Right(s, kind)' \/ Waiting(t, k)'
  <2> DEFINE p == PartitionOf[t]
  <2>1. Waiting(t, k)' \/ JustPut(t, k)
    BY <1>5 DEF Steady
  <2>2. ASSUME JustPut(t, k) PROVE Right(s, kind)'
    <3>1. p \in Partition /\ consumer[p].at # "fetch"
      BY <1>5, HistoryTypes DEF Waiting
    <3> DEFINE others == {x \in Source : PartitionOf[x] # p}
    <3>2. PICK r \in consumer[p].todo : /\ r.key = k /\ ledger' = With(ledger, r)
                                       /\ overtaken' = Overtaken(r, others)
      BY <2>2 DEF JustPut
    <3>3. RowOK(r)
      BY <3>1, <3>2, InHandFacts
    <3>4. HandFollows(p)
      BY <3>1 DEF AmountInv
    <3>5. s \in others \/ r = RowOf(s, kind)
      BY <1>1, <3>1, <3>2, <3>4 DEF HandFollows
    <3> HIDE DEF others
    <3> QED
      BY <1>1, <3>2, <3>3, <3>5, PutRight
  <2> QED
    BY <2>1, <2>2
<1> QED
  BY <1>3, <1>4, <1>5

\* The hand of a consumer, when rows of a source it knows stay what they are.
LEMMA HandStays ==
    ASSUME NEW p \in Partition, HandFollows(p),
           \A s \in Source : PartitionOf[s] = p =>
               (Handled(s)' => Handled(s) /\ version'[s] = version[s]),
           \/ consumer'[p] = consumer[p]
           \/ consumer'[p].at = "fetch"
           \/ /\ consumer'[p].at # "context?"
              /\ \A r \in consumer'[p].todo : consumer[p].at # "fetch" /\ r \in consumer[p].todo
    PROVE  HandFollows(p)'
<1>1. ASSUME consumer'[p].at # "fetch", NEW r \in consumer'[p].todo,
             NEW s \in Source, NEW kind \in Kind, r.key = <<s, kind>>
      PROVE  PartitionOf[s] = p /\ Handled(s)' => r = RowOf(s, kind)'
  <2>1. consumer[p].at # "fetch" /\ r \in consumer[p].todo
    BY <1>1
  <2>2. PartitionOf[s] = p /\ Handled(s) => r = RowOf(s, kind)
    BY <1>1, <2>1 DEF HandFollows
  <2>3. ASSUME PartitionOf[s] = p, Handled(s)' PROVE r = RowOf(s, kind)'
    <3>1. Handled(s) /\ version'[s] = version[s]
      BY <2>3
    <3> QED
      BY <2>2, <2>3, <3>1, RowOfSame
  <2> QED
    BY <2>3
<1>2. ASSUME consumer'[p].at = "context?"
      PROVE  LET e == consumer'[p].event
             IN  /\ e.source \in Order
                 /\ consumer'[p].todo =
                      OwnRows({[id |-> e.source, state |-> History[e.source][e.version]]})
  <2>1. consumer'[p] = consumer[p]
    BY <1>2
  <2> QED
    BY <1>2, <2>1 DEF HandFollows
<1>3. \A S : OwnRows(S)' = OwnRows(S)
  BY DEF OwnRows, Nonzero, OwnRow, Row
<1> QED
  BY <1>1, <1>2, <1>3 DEF HandFollows

\* A step of the outside or of a consumer that lets no source through.
LEMMA AmountSteady ==
    ASSUME IInv, AmountInv, Steady(Source), LedgerFollows,
           \A p \in Partition :
               \/ consumer'[p] = consumer[p]
               \/ consumer'[p].at = "fetch"
               \/ /\ consumer'[p].at # "context?"
                  /\ \A r \in consumer'[p].todo :
                        consumer[p].at # "fetch" /\ r \in consumer[p].todo
    PROVE  AmountInv'
<1>1. \A p \in Partition : HandFollows(p)'
  BY HandStays DEF AmountInv, Steady
<1>2. RowsKept'
  BY RowsStay
<1> QED
  BY <1>1, <1>2 DEF AmountInv

LEMMA AmountChange ==
    ASSUME IInv, AmountInv, NEW s \in Source, ChangeSource(s)
    PROVE  AmountInv'
<1>1. UNCHANGED <<consumer, ledger, overtaken>>
  BY DEF ChangeSource
<1>2. Steady(Source)
  BY SteadyChange
<1> QED
  BY <1>1, <1>2, AmountSteady DEF LedgerFollows

\* A consumer puts a row, or goes on with no more rows than it had.
LEMMA AmountHand ==
    ASSUME IInv, AmountInv, NEW p \in Partition,
           \/ Fetch(p) \/ CheckClosed(p) \/ SourceMissing(p)
           \/ PutRow(p) \/ Processed(p) \/ SendDeadLetter(p) \/ Commit(p) \/ Fail(p) \/ Stop(p)
    PROVE  AmountInv'
<1>1. Steady(Source)
  BY SteadyCheck, SteadyPut, SteadyDeadLetter, SteadyCommit
<1>2. \E state : consumer' = [consumer EXCEPT ![p] = state]
  BY DEF Fetch, CheckClosed, SourceMissing, PutRow, Processed, SendDeadLetter,
         Commit, Fail, Stop, Continue
<1>3. \A q \in Partition : q # p => consumer'[q] = consumer[q]
  BY <1>2, HandDomain
<1>4. LedgerFollows
  <2>1. CASE PutRow(p)
    <3>1. consumer[p].at = "put"
      BY <2>1 DEF PutRow, At
    <3> DEFINE others == {s \in Source : PartitionOf[s] # p}
    <3>2. PICK r \in consumer[p].todo :
              ledger' = With(ledger, r) /\ overtaken' = Overtaken(r, others)
      BY <2>1 DEF PutRow, First
    <3>3. RowOK(r)
      BY <3>1, <3>2, InHandFacts
    <3>4. \A s \in Source \ others : \A kind \in Kind :
              r.key = <<s, kind>> /\ Handled(s) => r = RowOf(s, kind)
      <4>1. HandFollows(p)
        BY DEF AmountInv
      <4> QED
        BY <3>1, <3>2, <4>1 DEF HandFollows
    <3>5. others \in SUBSET Source
      OBVIOUS
    <3> HIDE DEF others
    <3> QED
      BY <3>2, <3>3, <3>4, <3>5 DEF LedgerFollows
  <2>2. CASE ~PutRow(p)
    <3>1. UNCHANGED <<ledger, overtaken>>
      BY <2>2 DEF Fetch, CheckClosed, SourceMissing, Processed, SendDeadLetter, Commit, Fail, Stop
    <3> QED
      BY <3>1 DEF LedgerFollows
  <2> QED
    BY <2>1, <2>2
<1>5. \/ consumer'[p].at = "fetch"
      \/ /\ consumer'[p].at # "context?"
         /\ \A r \in consumer'[p].todo : consumer[p].at # "fetch" /\ r \in consumer[p].todo
  <2>1. CASE Fetch(p)
    <3>1. PICK e : consumer' = [consumer EXCEPT ![p] =
              [at |-> "closed?", event |-> e, todo |-> {}, conflicts |-> FALSE]]
      BY <2>1 DEF Fetch
    <3>2. consumer'[p] = [at |-> "closed?", event |-> e, todo |-> {}, conflicts |-> FALSE]
      BY <3>1, HandDomain
    <3> QED
      BY <3>2
  <2>2. CASE CheckClosed(p) \/ SourceMissing(p) \/ Processed(p) \/ SendDeadLetter(p)
    <3>1. PICK step \in {"dead letter", "source?", "closed?", "commit"} : Continue(p, step)
      BY <2>2 DEF CheckClosed, SourceMissing, Processed, SendDeadLetter
    <3>2. consumer[p].at # "fetch"
      BY <2>2 DEF CheckClosed, SourceMissing, Processed, SendDeadLetter, At
    <3>3. consumer'[p].at = step /\ consumer'[p].todo = consumer[p].todo
      BY <3>1, <3>2, ContinueFields
    <3> QED
      BY <3>1, <3>2, <3>3
  <2>3. CASE Fail(p)
    <3>1. consumer[p].at # "fetch"
          /\ consumer' = [consumer EXCEPT ![p] =
                [consumer[p] EXCEPT !.at = "closed?", !.todo = {}, !.conflicts = FALSE]]
      BY <2>3 DEF Fail, At
    <3>2. DOMAIN consumer[p] = {"at", "event", "todo", "conflicts"}
      BY <3>1, InHandFacts
    <3>3. consumer'[p] = [consumer[p] EXCEPT !.at = "closed?", !.todo = {}, !.conflicts = FALSE]
      BY <3>1, HandDomain
    <3>4. consumer'[p].at = "closed?" /\ consumer'[p].todo = {}
      BY <3>2, <3>3
    <3> QED
      BY <3>4
  <2>4. CASE Commit(p) \/ Stop(p)
    <3>1. Idle.at = "fetch"
      BY DEF Idle
    <3> QED
      BY <2>4, <3>1, HandDomain DEF Commit, Stop
  <2>5. CASE PutRow(p)
    <3>1. PICK r \in consumer[p].todo :
            consumer' = [consumer EXCEPT ![p] =
                [consumer[p] EXCEPT !.todo = consumer[p].todo \ {r},
                                    !.conflicts = consumer[p].conflicts \/ Conflicts(ledger, r)]]
      BY <2>5 DEF PutRow, First
    <3>2. consumer'[p] =
            [consumer[p] EXCEPT !.todo = consumer[p].todo \ {r},
                                !.conflicts = consumer[p].conflicts \/ Conflicts(ledger, r)]
      BY <3>1, HandDomain
    <3>3. consumer[p].at = "put"
      BY <2>5 DEF PutRow, At
    <3>4. DOMAIN consumer[p] = {"at", "event", "todo", "conflicts"}
      BY <3>3, InHandFacts
    <3>5. consumer'[p].at = "put" /\ consumer'[p].todo = consumer[p].todo \ {r}
      BY <3>2, <3>3, <3>4
    <3> QED
      BY <3>3, <3>5
  <2> QED
    BY <2>1, <2>2, <2>3, <2>4, <2>5
<1> QED
  BY <1>1, <1>3, <1>4, <1>5, AmountSteady

LEMMA AmountOutside ==
    ASSUME IInv, AmountInv,
           \/ \E k \in DOMAIN ledger : Pay(k)
           \/ (\E r \in ClosePeriods : ClosePeriod(r)) \/ (\E r \in Rebuilds : StartRebuild(r))
           \/ LoadRebuild \/ NextPart \/ FailRebuild \/ PutRebuilt
           \/ \E s \in Source : \E v \in DOMAIN History[s] : Deliver(s, v)
           \/ UNCHANGED vars
    PROVE  AmountInv'
<1>1. Steady(Source)
  BY SteadyOutside
<1>2. consumer' = consumer
  BY DEF Pay, ClosePeriod, StartRebuild, LoadRebuild, NextPart, FailRebuild, PutRebuilt,
         Deliver, vars
<1>3. LedgerFollows
  <2>1. CASE PutRebuilt
    <3>1. rebuild.at # "none"
      BY <2>1 DEF PutRebuilt
    <3>2. PICK r \in rebuild.todo :
              ledger' = With(ledger, r) /\ overtaken' = Overtaken(r, Source)
      BY <2>1 DEF PutRebuilt
    <3>3. RowOK(r)
      BY <3>1, <3>2 DEF IInv, Types, RebuildOK, NoRebuild
    <3>4. Source \in SUBSET Source /\ Source \ Source = {}
      OBVIOUS
    <3> QED
      BY <3>2, <3>3, <3>4 DEF LedgerFollows
  <2>2. CASE ~PutRebuilt
    <3>1. UNCHANGED <<ledger, overtaken>> \/ \E k \in DOMAIN ledger : Pay(k)
      BY <2>2 DEF ClosePeriod, StartRebuild, LoadRebuild, NextPart, FailRebuild, Deliver, vars
    <3> QED
      BY <3>1 DEF LedgerFollows
  <2> QED
    BY <2>1, <2>2
<1> QED
  BY <1>1, <1>2, <1>3, AmountSteady

\* What a consumer loads for its event is seen by the source of the event, and
\* only by it.
LEMMA AmountLoaded ==
    ASSUME IInv, AmountInv, Grows, NEW p \in Partition,
           UNCHANGED <<version, committed, topic, deadLetters, ledger, overtaken>>,
           \A q \in Partition : q # p => consumer'[q] = consumer[q],
           consumer[p].at # "put", consumer'[p].event = InHand(p), ~consumer'[p].conflicts,
           consumer'[p].at = "commit" => version[InHand(p).source] > InHand(p).version,
           InHand(p).version \in Nat,
           \A S \in SUBSET Source : \A s \in S : \A kind \in Kind :
               /\ consumer'[p].at = "put" /\ Due(S, s, kind)
               /\ InHand(p).source \in S /\ InHand(p) = Latest(InHand(p).source)
               => \E r \in consumer'[p].todo : r.key = <<s, kind>>
    PROVE  /\ \A s \in Source : Handled(s)' /\ ~Handled(s) =>
                  PartitionOf[s] = p /\ InHand(p) = Latest(s) /\ consumer'[p].at = "put"
           /\ RowsKept'
<1> DEFINE e == InHand(p)
<1>1. \A s : Latest(s)' = Latest(s) /\ Latest(s).source = s /\ Latest(s).version = version[s]
  BY LatestFields DEF Latest, Event
<1>2. \A s : (Committed(Latest(s))' <=> Committed(Latest(s)))
             /\ (Refused(Latest(s))' <=> Refused(Latest(s)))
  BY <1>1 DEF Committed, Refused
<1>3. ASSUME NEW s \in Source, Handled(s)', ~Handled(s)
      PROVE  /\ PartitionOf[s] = p /\ e = Latest(s) /\ consumer'[p].at = "put"
             /\ ~Committed(Latest(s))'
  <2>1. PartitionOf[s] = p
    BY <1>3, HistoryTypes, Elsewhere
  <2>2. Passing(s)' /\ ~Committed(Latest(s))'
    BY <1>1, <1>2, <1>3 DEF Handled
  <2>3. e = Latest(s) /\ consumer'[p].at \in {"put", "commit"}
    BY <1>1, <2>1, <2>2 DEF Passing
  <2>4. ~(version[e.source] > e.version)
    BY <1>1, <2>3
  <2> QED
    BY <2>1, <2>2, <2>3, <2>4
<1>4. ASSUME NEW S \in SUBSET Source, \A s \in S : Handled(s)', NEW s \in S,
             NEW kind \in Kind, Due(S, s, kind)'
      PROVE  Right(s, kind)' \/ \E t \in S : Waiting(t, <<s, kind>>)'
  <2> DEFINE k == <<s, kind>>
  <2>1. Due(S, s, kind)
    BY <1>4, DueSame
  <2>2. CASE \A t \in S : Handled(t)
    <3>1. Right(s, kind) \/ \E t \in S : Waiting(t, k)
      BY <2>1, <2>2 DEF AmountInv, RowsKept
    <3>2. Right(s, kind) => Right(s, kind)'
      BY RowOfSame DEF Right
    <3>3. ASSUME NEW t \in S, Waiting(t, k) PROVE Waiting(t, k)'
      <4>1. PartitionOf[t] # p
        BY <3>3 DEF Waiting
      <4> QED
        BY <3>3, <4>1, HistoryTypes, Elsewhere
    <3> QED
      BY <3>1, <3>2, <3>3
  <2>3. CASE \E t \in S : ~Handled(t)
    <3>1. PICK t \in S : ~Handled(t)
      BY <2>3
    <3>2. PartitionOf[t] = p /\ e = Latest(t) /\ consumer'[p].at = "put"
          /\ ~Committed(Latest(t))'
      BY <1>3, <1>4, <3>1
    <3>3. e.source = t
      BY <1>1, <3>2
    <3> HIDE DEF e
    <3>4. \E r \in consumer'[p].todo : r.key = k
      BY <2>1, <3>2, <3>3 DEF e
    <3>5. Waiting(t, k)'
      BY <1>1, <3>2, <3>4 DEF Waiting, e
    <3> QED
      BY <3>5
  <2> QED
    BY <2>2, <2>3
<1> QED
  BY <1>3, <1>4 DEF RowsKept

\* The other consumers have no row of the source.
LEMMA AmountOthers ==
    ASSUME AmountInv, NEW p \in Partition, version' = version,
           \A s \in Source : Handled(s)' /\ ~Handled(s) => PartitionOf[s] = p,
           NEW q \in Partition, q # p, consumer'[q] = consumer[q]
    PROVE  HandFollows(q)'
<1>1. \A s \in Source : PartitionOf[s] = q =>
          (Handled(s)' => Handled(s) /\ version'[s] = version[s])
  OBVIOUS
<1>2. HandFollows(q)
  BY DEF AmountInv
<1> QED
  BY <1>1, <1>2, HandStays

LEMMA AmountLoad ==
    ASSUME IInv, AmountInv, NEW p \in Partition, LoadSource(p)
    PROVE  AmountInv'
<1> DEFINE e == InHand(p)
           s0 == e.source
           loaded == History[s0][version[s0]]
           at == Judge(e, loaded)
           rows == OwnRows({[id |-> s0, state |-> loaded]})
           state == [consumer[p] EXCEPT !.at = at, !.todo = rows]
<1>1. /\ consumer[p].at = "source?" /\ consumer' = [consumer EXCEPT ![p] = state]
      /\ UNCHANGED <<version, committed, topic, deadLetters, ledger, overtaken>>
  BY DEF LoadSource, environment, kafka, At
<1>2. /\ DOMAIN consumer[p] = {"at", "event", "todo", "conflicts"} /\ consumer[p].event = e
      /\ e.version \in Nat /\ version[s0] \in Nat /\ s0 \in Source
  BY <1>1, InHandFacts DEF InHand
<1>3. ~consumer[p].conflicts
  BY <1>1 DEF IInv, ProgressOK
<1>4. \/ at = "dead letter"
      \/ at = "closed?"
      \/ at = "commit" /\ version[s0] > e.version
      \/ at \in {"put", "context?"} /\ version[s0] = e.version
  BY <1>2, JudgeCases
<1>5. (at = "put" => s0 \in Trip) /\ (at = "context?" => s0 \in Order)
  <2>1. at \in {"dead letter", "commit", "closed?", Accepted(s0)}
    BY DEF Judge
  <2>2. Accepted(s0) = IF s0 \in Trip THEN "put" ELSE "context?"
    BY DEF Accepted
  <2>3. s0 \in Trip \/ s0 \in Order
    BY <1>2 DEF Source
  <2> HIDE DEF at, s0
  <2> QED
    BY <2>1, <2>2, <2>3
<1>6. rows = OwnRows({Current(s0)})
  BY DEF Current
<1>7. loaded = History[s0][version[s0]]
  OBVIOUS
<1> HIDE DEF at, rows, loaded
<1>8. consumer'[p] = state /\ \A q \in Partition : q # p => consumer'[q] = consumer[q]
  BY <1>1, HandDomain
<1>9. /\ state.at = at /\ state.event = e /\ state.todo = rows
       /\ state.conflicts = consumer[p].conflicts
  BY <1>2
<1> HIDE DEF state
<1>10. Grows
  BY <1>1, HandGrows
<1>11. ASSUME NEW S \in SUBSET Source, NEW s \in S, NEW kind \in Kind, at = "put",
              Due(S, s, kind), s0 \in S
       PROVE  \E r \in rows : r.key = <<s, kind>>
  <2>1. ~(S \subseteq Order)
    <3>1. s0 \in Trip /\ Order \cap Trip = {}
      BY <1>5, <1>11, ConstantsAssumption
    <3> QED
      BY <1>11, <3>1
  <2>2. kind = "own" /\ s = s0 /\ Current(s0).state.own # 0
    BY <1>11, <2>1 DEF Due
  <2>3. OwnRow(Current(s0)).key = <<s0, "own">>
        /\ OwnRow(Current(s0)).row.amount = Current(s0).state.own
    BY DEF OwnRow, Row, Current
  <2>4. OwnRow(Current(s0)) \in rows
    BY <1>6, <2>2, <2>3 DEF OwnRows, Nonzero
  <2> QED
    BY <2>2, <2>3, <2>4
<1>12. /\ \A s \in Source : Handled(s)' /\ ~Handled(s) =>
             PartitionOf[s] = p /\ e = Latest(s) /\ consumer'[p].at = "put"
       /\ RowsKept'
  <2>1. consumer[p].at # "put" /\ consumer'[p].event = e
        /\ consumer'[p].at = at /\ consumer'[p].todo = rows
    BY <1>1, <1>8, <1>9
  <2>2. ~consumer'[p].conflicts
    BY <1>3, <1>8, <1>9, Zenon
  <2>3. consumer'[p].at = "commit" => version[s0] > e.version
    BY <1>4, <2>1
  <2>4. \A S \in SUBSET Source : \A s \in S : \A kind \in Kind :
            consumer'[p].at = "put" /\ Due(S, s, kind) /\ s0 \in S /\ e = Latest(s0)
            => \E r \in consumer'[p].todo : r.key = <<s, kind>>
    BY <1>11, <2>1
  <2>5. UNCHANGED <<version, committed, topic, deadLetters, ledger, overtaken>>
    BY <1>1
  <2> QED
    BY <1>2, <1>8, <1>10, <2>1, <2>2, <2>3, <2>4, <2>5, AmountLoaded, Zenon
<1>13. HandFollows(p)'
  <2>1. \A s : \A kind : RowOf(s, kind)' = RowOf(s, kind)
    BY <1>1, RowOfSame
  <2>2. ASSUME NEW r \in rows, NEW s \in Source, NEW kind \in Kind, r.key = <<s, kind>>
        PROVE  r = RowOf(s, kind)
    <3>1. kind = "own" /\ \E x \in {Current(s0)} : x.id = s /\ r = OwnRow(x)
      BY <1>6, <2>2, OwnRowOf
    <3>2. Current(s0).id = s0
      BY DEF Current
    <3> QED
      BY <3>1, <3>2 DEF RowOf
  <2>3. at = "context?" => rows = OwnRows({[id |-> s0, state |-> History[s0][e.version]]})
    BY <1>4, <1>7 DEF rows
  <2>4. \A S : OwnRows(S)' = OwnRows(S)
    BY DEF OwnRows, Nonzero, OwnRow, Row
  <2> HIDE DEF e
  <2> QED
    BY <1>5, <1>8, <1>9, <2>1, <2>2, <2>3, <2>4 DEF HandFollows
<1>14. \A q \in Partition : q # p => HandFollows(q)'
  BY <1>1, <1>8, <1>12, AmountOthers
<1> QED
  BY <1>12, <1>13, <1>14 DEF AmountInv

\* The context of an event, as it is now, has the rows of its source.
LEMMA ContextRows ==
    ASSUME IInv, MonthInv, NEW p \in Partition, HandFollows(p), consumer[p].at = "context?",
           Valid(Read(Order), InHand(p).date) \/ ~(InHand(p).date >= EligibleFrom),
           InHand(p) = Latest(InHand(p).source),
           NEW S \in SUBSET Source, InHand(p).source \in S, NEW s \in S, NEW kind \in Kind,
           Due(S, s, kind)
    PROVE  \E r \in consumer[p].todo \cup Dependent(Read(Order), InHand(p)) : r.key = <<s, kind>>
<1> DEFINE e == InHand(p)
           s0 == e.source
<1>1. e.version = version[s0] /\ e.date = Current(s0).state.date
  BY LatestFields
<1>2. CASE kind = "own" /\ S = {s} /\ Current(s).state.own # 0
  <2>1. s = s0
    BY <1>2
  <2>2. consumer[p].todo = OwnRows({Current(s0)})
    BY <1>1 DEF HandFollows, InHand, Current
  <2>3. OwnRow(Current(s0)).key = <<s0, "own">>
        /\ OwnRow(Current(s0)).row.amount = Current(s0).state.own
    BY DEF OwnRow, Row, Current
  <2>4. OwnRow(Current(s0)) \in consumer[p].todo
    BY <1>2, <2>1, <2>2, <2>3 DEF OwnRows, Nonzero
  <2> QED
    BY <1>2, <2>1, <2>3, <2>4
<1>3. CASE kind = "general" /\ S \subseteq Order /\ Owed(S, <<s, "general">>)
  <2> HIDE DEF e
  <2>1. \E r \in Dependent(Read(Order), e) : r.key = <<s, "general">>
    BY <1>1, <1>3, OwedRows DEF e
  <2> QED
    BY <1>3, <2>1 DEF e
<1> QED
  BY <1>2, <1>3 DEF Due

LEMMA AmountContext ==
    ASSUME IInv, MonthInv, AmountInv, NEW p \in Partition, LoadContext(p)
    PROVE  AmountInv'
<1> DEFINE c == consumer[p]
           e == InHand(p)
           orders == Read(Order)
           dependent == Dependent(orders, e)
<1>1. c.at = "context?"
      /\ UNCHANGED <<version, committed, topic, deadLetters, ledger, overtaken>>
  BY DEF LoadContext, environment, kafka, At
<1>2. /\ DOMAIN c = {"at", "event", "todo", "conflicts"} /\ c.event = e /\ ~c.conflicts
      /\ e.version \in Nat
  <2>1. ~c.conflicts
    BY <1>1 DEF IInv, ProgressOK
  <2> QED
    BY <1>1, <2>1, InHandFacts DEF InHand
<1>3. HandFollows(p)
  BY DEF AmountInv
<1>4. /\ e.source \in Order
      /\ c.todo = OwnRows({[id |-> e.source, state |-> History[e.source][e.version]]})
  BY <1>1, <1>2, <1>3 DEF HandFollows
<1>5. PICK state :
        /\ consumer' = [consumer EXCEPT ![p] = state]
        /\ state.event = e /\ state.conflicts = c.conflicts
        /\ \/ state.at = "dead letter" /\ state.todo = {}
           \/ /\ state.at = "put" /\ state.todo = c.todo \cup dependent
              /\ Valid(orders, e.date) \/ ~(e.date >= EligibleFrom)
  <2> DEFINE dead == [c EXCEPT !.at = "dead letter", !.todo = {}]
             put == [c EXCEPT !.at = "put", !.todo = c.todo \cup dependent]
  <2>1. \/ consumer' = [consumer EXCEPT ![p] = dead]
        \/ /\ consumer' = [consumer EXCEPT ![p] = put]
           /\ Valid(orders, e.date) \/ ~(e.date >= EligibleFrom)
    BY DEF LoadContext
  <2>2. /\ dead.at = "dead letter" /\ dead.todo = {} /\ dead.event = e
        /\ dead.conflicts = c.conflicts
    BY <1>2
  <2>3. /\ put.at = "put" /\ put.todo = c.todo \cup dependent /\ put.event = e
        /\ put.conflicts = c.conflicts
    BY <1>2
  <2> HIDE DEF dead, put, dependent, orders, e, c
  <2> QED
    BY <2>1, <2>2, <2>3
<1> HIDE DEF dependent, orders, e, c
<1>6. consumer'[p] = state /\ \A q \in Partition : q # p => consumer'[q] = consumer[q]
  BY <1>5, HandDomain
<1>7. Grows
  BY <1>1, HandGrows
<1>8. /\ \A s \in Source : Handled(s)' /\ ~Handled(s) =>
            PartitionOf[s] = p /\ e = Latest(s) /\ consumer'[p].at = "put"
      /\ RowsKept'
  <2>1. /\ consumer[p].at # "put" /\ consumer'[p].event = e
        /\ consumer'[p].at # "commit" /\ consumer'[p].at = state.at /\ consumer'[p].todo = state.todo
    BY <1>1, <1>5, <1>6 DEF c
  <2>2. ~consumer'[p].conflicts
    BY <1>2, <1>5, <1>6, Zenon
  <2>3. \A S \in SUBSET Source : \A s \in S : \A kind \in Kind :
            consumer'[p].at = "put" /\ Due(S, s, kind) /\ e.source \in S /\ e = Latest(e.source)
            => \E r \in consumer'[p].todo : r.key = <<s, kind>>
    <3> SUFFICES ASSUME NEW S \in SUBSET Source, NEW s \in S, NEW kind \in Kind,
                        consumer'[p].at = "put", Due(S, s, kind), e.source \in S,
                        e = Latest(e.source)
                 PROVE  \E r \in consumer'[p].todo : r.key = <<s, kind>>
      OBVIOUS
    <3>1. consumer'[p].todo = c.todo \cup dependent
          /\ (Valid(orders, e.date) \/ ~(e.date >= EligibleFrom))
      BY <1>5, <2>1
    <3>2. \E r \in c.todo \cup dependent : r.key = <<s, kind>>
      BY <1>1, <1>3, <3>1, ContextRows DEF c, e, orders, dependent
    <3> QED
      BY <3>1, <3>2
  <2>4. UNCHANGED <<version, committed, topic, deadLetters, ledger, overtaken>>
    BY <1>1
  <2>5. e = InHand(p) /\ e.version \in Nat
    BY <1>2 DEF e
  <2> QED
    BY <1>6, <1>7, <2>1, <2>2, <2>3, <2>4, <2>5, AmountLoaded, Zenon
<1>9. HandFollows(p)'
  <2>1. \A s : \A kind : RowOf(s, kind)' = RowOf(s, kind)
    BY <1>1, RowOfSame
  <2>2. ASSUME NEW r \in c.todo, NEW s \in Source, NEW kind \in Kind, r.key = <<s, kind>>
        PROVE  PartitionOf[s] = p /\ Handled(s)' => r = RowOf(s, kind)
    <3>1. PartitionOf[s] = p /\ Handled(s) => r = RowOf(s, kind)
      BY <1>1, <1>3, <2>2 DEF HandFollows, c
    <3>2. ASSUME Handled(s)', ~Handled(s) PROVE r = RowOf(s, kind)
      <4>1. e = Latest(s)
        BY <1>8, <3>2
      <4>2. e.source = s /\ e.version = version[s]
        BY <4>1, LatestFields
      <4>3. c.todo = OwnRows({Current(s)})
        BY <1>4, <4>2 DEF Current
      <4>4. kind = "own" /\ \E x \in {Current(s)} : x.id = s /\ r = OwnRow(x)
        BY <2>2, <4>3, OwnRowOf
      <4> QED
        BY <4>4 DEF RowOf
    <3> QED
      BY <3>1, <3>2
  <2>3. ASSUME NEW r \in dependent, NEW s \in Source, NEW kind \in Kind, r.key = <<s, kind>>
        PROVE  r = RowOf(s, kind)
    <3> DEFINE month == {o \in orders : Month(o.state.date) = Month(e.date)}
    <3>1. r \in GeneralRows(orders, month)
      BY <2>3, BonusRowOf DEF Dependent, dependent
    <3>2. PICK x \in month : kind = "general" /\ x.id = s /\ r = GeneralRow(x)
      <4> HIDE DEF month
      <4> QED
        BY <2>3, <3>1, GeneralRowOf
    <3>3. s \in Order /\ x = Current(s)
      BY <3>2, ReadIsCurrent DEF orders
    <3> QED
      BY <3>2, <3>3 DEF RowOf
  <2>4. state.at # "context?" /\ \A r \in state.todo : r \in c.todo \/ r \in dependent
    BY <1>5
  <2> QED
    BY <1>6, <2>1, <2>2, <2>3, <2>4 DEF HandFollows
<1>10. \A q \in Partition : q # p => HandFollows(q)'
  BY <1>1, <1>6, <1>8, AmountOthers
<1> QED
  BY <1>8, <1>9, <1>10 DEF AmountInv

LEMMA NextAmount ==
    ASSUME IInv, MonthInv, AmountInv, [Next]_vars
    PROVE  AmountInv'
<1>1. ASSUME NEW p \in Partition, Consume(p) \/ Fail(p) \/ Stop(p) PROVE AmountInv'
  BY <1>1, AmountHand, AmountLoad, AmountContext DEF Consume
<1> QED
  BY <1>1, AmountChange, AmountOutside DEF Next, Rebuild

THEOREM AmountInvariance == Spec => []AmountInv
<1>1. Init => AmountInv
  BY InitAmount
<1>2. IInv /\ MonthInv /\ AmountInv /\ [Next]_vars => AmountInv'
  BY NextAmount
<1> QED
  BY <1>1, <1>2, Invariance, MonthInvariance, PTL DEF Spec

\* The ledger converges: once all events were processed and nothing runs, every
\* row that the sources give has the amount and the date they give now, was paid,
\* or was last put, too late, by a rebuild or the consumer of another partition,
\* for any number of sources, partitions, rebuilds, redeliveries and failures.
THEOREM RowsFollow == Spec => []RowsFollowSources
<1>1. ASSUME IInv, AmountInv, Quiet PROVE RowsFollowSources
  <2> DEFINE orders == Read(Order)
             rows == OwnRows({Current(s) : s \in Source}) \cup GeneralRows(orders, orders)
  <2> SUFFICES ASSUME NEW r \in rows
               PROVE  ledger[r.key] = r.row \/ ledger[r.key].settled \/ r.key \in overtaken
    BY DEF RowsFollowSources
  <2>1. \A s \in Source : Handled(s) /\ \A k : ~Waiting(s, k)
    BY <1>1 DEF Quiet, UpToDate, Handled, Waiting
  <2>2. ASSUME NEW S \in SUBSET Source, NEW s \in S, NEW kind \in Kind, Due(S, s, kind),
               r.key = <<s, kind>>, r = RowOf(s, kind)
        PROVE  ledger[r.key] = r.row \/ ledger[r.key].settled \/ r.key \in overtaken
    <3>1. Right(s, kind)
      BY <1>1, <2>1, <2>2 DEF AmountInv, RowsKept
    <3> QED
      BY <2>2, <3>1 DEF Right
  <2>3. CASE r \in OwnRows({Current(s) : s \in Source})
    <3>1. PICK s \in Source : r = OwnRow(Current(s)) /\ r.row.amount # 0
      BY <2>3 DEF OwnRows, Nonzero
    <3>2. r.key = <<s, "own">> /\ Current(s).state.own # 0
      BY <3>1 DEF OwnRow, Row, Current
    <3>3. Due({s}, s, "own") /\ r = RowOf(s, "own") /\ "own" \in Kind
      BY <3>1, <3>2 DEF Due, RowOf, Kind
    <3> QED
      BY <2>2, <3>2, <3>3
  <2>4. CASE r \in GeneralRows(orders, orders)
    <3>1. PICK x \in orders : /\ x.state.eligible /\ GeneralEarned(orders, x)
                              /\ r = GeneralRow(x) /\ r.row.amount # 0
      BY <2>4 DEF GeneralRows, Nonzero
    <3>2. PICK y \in Order : version[y] > 0 /\ x = Current(y)
      BY <3>1 DEF Read, Current
    <3>3. r.key = <<y, "general">> /\ HasGeneral(y)
      BY <3>1, <3>2 DEF GeneralRow, Row, Current, HasGeneral
    <3>4. PICK S \in SUBSET Order : y \in S /\ Owed(S, <<y, "general">>)
      BY <1>1, <3>1, <3>2, <3>3, EarnedOwed
    <3>5. Due(S, y, "general") /\ r = RowOf(y, "general") /\ "general" \in Kind
          /\ S \in SUBSET Source
      BY <3>1, <3>2, <3>4 DEF Due, RowOf, Kind, Source
    <3> QED
      BY <2>2, <3>3, <3>4, <3>5
  <2> QED
    BY <2>3, <2>4
<1>2. IInv /\ AmountInv => RowsFollowSources
  BY <1>1 DEF RowsFollowSources
<1> QED
  BY <1>2, Invariance, AmountInvariance, PTL
=============================================================================
