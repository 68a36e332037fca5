-------------------------- MODULE BorderAgentProofs --------------------------
(***************************************************************************)
(* What the border agent announces is what it knows, and once every signal *)
(* is handled, what wpantund has: for any names, ids and number of changes *)
(* and faults, and with either publisher.                                  *)
(***************************************************************************)
EXTENDS BorderAgent, SequenceTheorems, TLAPS

USE DEF Keys, ncpVars

-----------------------------------------------------------------------------
(* The publisher.                                                          *)

LEMMA RecordType ==
  ASSUME NEW a \in AgentType, a.name # Empty
  PROVE  Record(a) \in Records /\ Record(a).name = a.name
BY DEF AgentType, Record, Records

\* Stop leaves nothing announced.
LEMMA StopClears ==
  ASSUME NEW p, NEW a, NEW b, Tidy(p, a), build \in {"avahi", "mdnssd"}
  PROVE  Tidy(Stop(p), b) /\ Stop(p).entries = {} /\ Stop(p).shown = {}
<1>1. CASE build = "avahi"
  BY <1>1 DEF Stop, AvahiStop, Tidy, Publishers
<1>2. CASE build = "mdnssd"
  BY <1>2 DEF Stop, MDnsSdStop, Tidy, Publishers
<1> QED BY <1>1, <1>2

\* Replacing the record of a name leaves one record.
LEMMA RenewedRecords ==
  ASSUME NEW S, NEW a, \A r \in S : r.name = a.name
  PROVE  Renewed(S, a) \subseteq {Record(a)}
BY DEF Renewed

LEMMA Updating ==
  ASSUME NEW p, NEW a \in AgentType, Tidy(p, a), a.name # Empty, a.started
  PROVE  Clean(UpdateRecord(p, a), a)
<1>1. CASE p.linked
  <2>1. Renewed(p.entries, a) \subseteq {Record(a)} /\ Renewed(p.shown, a) \subseteq {Record(a)}
    BY RenewedRecords DEF Tidy
  <2>2. Renewed(p.shown, a) \subseteq Renewed(p.entries, a)
    BY DEF Tidy, Renewed
  <2>3. p.entries = {} => Renewed(p.entries, a) = {}
    BY DEF Renewed
  <2>4. UpdateRecord(p, a) = [p EXCEPT !.entries = Renewed(p.entries, a),
                                       !.shown = Renewed(p.shown, a)]
    BY <1>1 DEF UpdateRecord, Tidy, Publishers
  <2> DEFINE q == UpdateRecord(p, a)
  <2>5. /\ q.entries = Renewed(p.entries, a) /\ q.shown = Renewed(p.shown, a)
        /\ q.linked = p.linked /\ q.ready = p.ready /\ q.client = p.client
        /\ q.mServices = p.mServices
    BY <2>4 DEF Tidy, Publishers
  <2>6. q \in Publishers
    <3>1. {Record(a)} \subseteq Records
      BY RecordType
    <3>2. /\ Renewed(p.entries, a) \in SUBSET Records
          /\ Renewed(p.shown, a) \in SUBSET Records
      BY <2>1, <3>1
    <3> QED BY <2>4, <3>2 DEF Tidy, Publishers
  <2>7. \A r \in q.entries : r.name = a.name
    BY <2>1, <2>5, RecordType
  <2> HIDE DEF q
  <2> QED BY <2>1, <2>2, <2>3, <2>5, <2>6, <2>7 DEF Clean, Tidy, q
<1>2. CASE ~p.linked
  <2>1. UpdateRecord(p, a) = [p EXCEPT !.missed = TRUE]
    BY <1>2 DEF UpdateRecord
  <2> QED BY <1>2, <2>1 DEF Clean, Tidy, Publishers
<1> QED BY <1>1, <1>2
\* A name that mServices lacks has no entry: its record becomes the only one.
LEMMA Adding ==
  ASSUME NEW p, NEW a \in AgentType, Tidy(p, a), a.name # Empty, a.started,
         a.name \notin p.mServices
  PROVE  /\ p.entries = {} /\ p.shown = {}
         /\ Record(a) \in Records /\ Record(a).name = a.name
         /\ a.name \in Names \cup {Junk}
BY RecordType DEF Tidy, AgentType

\* A publisher with that one record and nothing else is clean.
LEMMA OneRecord ==
  ASSUME NEW q \in Publishers, NEW a \in AgentType, a.name # Empty, a.started,
         q.entries = {Record(a)}, q.shown \subseteq {Record(a)},
         q.linked, q.ready, a.name \in q.mServices,
         build = "avahi" /\ q.ready => q.client
  PROVE  Clean(q, a)
BY RecordType DEF Clean, Tidy

\* So is one without any service.
LEMMA NoRecord ==
  ASSUME NEW q \in Publishers, NEW a, q.entries = {}, q.shown = {},
         build = "avahi" /\ q.ready => q.client
  PROVE  Clean(q, a)
BY DEF Clean, Tidy

LEMMA Publishing ==
  ASSUME NEW p, NEW a \in AgentType, Tidy(p, a), a.name # Empty, a.started,
         build = "avahi" \/ p.ready
  PROVE  Clean(PublishService(p, a), a)
<1>1. CASE build = "avahi"
  <2>1. CASE p.ready /\ a.name \in p.mServices
    BY <1>1, <2>1, Updating DEF PublishService, AvahiPublish
  <2>2. CASE p.ready /\ a.name \notin p.mServices /\ p.linked
    <3>1. PublishService(p, a) = [p EXCEPT !.mServices = p.mServices \cup {a.name},
                                           !.entries = p.entries \cup {Record(a)}]
      BY <1>1, <2>2 DEF PublishService, AvahiPublish, Tidy, Publishers
    <3>2. p.mServices \cup {a.name} \in SUBSET (Names \cup {Junk})
          /\ p.entries \cup {Record(a)} \in SUBSET Records
      BY <2>2, Adding DEF Tidy, Publishers
    <3>3. /\ p.entries \cup {Record(a)} = {Record(a)}
          /\ p.shown \subseteq {Record(a)}
      BY <2>2, Adding
    <3>4. a.name \in p.mServices \cup {a.name}
      OBVIOUS
    <3> DEFINE q == PublishService(p, a)
    <3>5. q \in Publishers
      BY <3>1, <3>2 DEF Tidy, Publishers
    <3>6. /\ q.entries = {Record(a)} /\ q.shown \subseteq {Record(a)}
          /\ q.linked /\ q.ready /\ q.client /\ a.name \in q.mServices
      BY <1>1, <2>2, <3>1, <3>3, <3>4 DEF Tidy, Publishers
    <3> HIDE DEF q
    <3>7. Clean(q, a)
      BY <3>5, <3>6, OneRecord
    <3> QED BY <3>7 DEF q
  <2>3. CASE ~p.ready \/ (a.name \notin p.mServices /\ ~p.linked)
    <3>1. PublishService(p, a) = [p EXCEPT !.missed = TRUE]
      BY <1>1, <2>3 DEF PublishService, AvahiPublish
    <3>2. p.entries = {}
      BY <2>3 DEF Tidy
    <3>3. p.shown = {}
      BY <3>2 DEF Tidy
    <3> DEFINE q == PublishService(p, a)
    <3>4. /\ q \in Publishers /\ q.entries = {} /\ q.shown = {}
          /\ q.ready = p.ready /\ q.client = p.client
      BY <3>1, <3>2, <3>3 DEF Tidy, Publishers
    <3> HIDE DEF q
    <3>5. Clean(q, a)
      BY <3>4, NoRecord DEF Tidy
    <3> QED BY <3>5 DEF q
  <2> QED BY <2>1, <2>2, <2>3
<1>2. CASE build # "avahi" /\ a.name \in p.mServices
  BY <1>2, Updating DEF PublishService, MDnsSdPublish
<1>3. CASE build # "avahi" /\ a.name \notin p.mServices /\ daemon # "down"
  <2>1. PublishService(p, a) = [p EXCEPT !.mServices = p.mServices \cup {a.name},
                                         !.linked = TRUE, !.missed = FALSE,
                                         !.entries = p.entries \cup {Record(a)},
                                         !.shown = p.shown \cup {Record(a)}]
    BY <1>3 DEF PublishService, MDnsSdPublish, Tidy, Publishers
  <2>2. /\ p.mServices \cup {a.name} \in SUBSET (Names \cup {Junk})
        /\ p.entries \cup {Record(a)} \in SUBSET Records
        /\ p.shown \cup {Record(a)} \in SUBSET Records
    BY <1>3, Adding DEF Tidy, Publishers
  <2>3. /\ p.entries \cup {Record(a)} = {Record(a)}
        /\ p.shown \cup {Record(a)} = {Record(a)}
    BY <1>3, Adding
  <2> DEFINE q == PublishService(p, a)
  <2>4. q \in Publishers
    BY <2>1, <2>2 DEF Tidy, Publishers
  <2>5. /\ q.entries = {Record(a)} /\ q.shown = {Record(a)}
        /\ q.linked /\ q.ready = p.ready /\ q.client = p.client
        /\ a.name \in q.mServices
    BY <2>1, <2>3 DEF Tidy, Publishers
  <2> HIDE DEF q
  <2>6. Clean(q, a)
    BY <1>3, <2>4, <2>5, OneRecord DEF Tidy
  <2> QED BY <2>6 DEF q
<1>4. CASE build # "avahi" /\ a.name \notin p.mServices /\ daemon = "down"
  <2>1. PublishService(p, a) = [p EXCEPT !.missed = TRUE]
    BY <1>4 DEF PublishService, MDnsSdPublish
  <2> DEFINE q == PublishService(p, a)
  <2>2. /\ q \in Publishers /\ q.entries = {} /\ q.shown = {}
    BY <1>4, <2>1, Adding DEF Tidy, Publishers
  <2> HIDE DEF q
  <2>3. Clean(q, a)
    BY <1>4, <2>2, NoRecord
  <2> QED BY <2>3 DEF q
<1> QED BY <1>1, <1>2, <1>3, <1>4
\* A publisher starts without services: the first is published at once, or not
\* at all.
LEMMA Starting ==
  ASSUME NEW p, NEW a \in AgentType, Tidy(p, a), a.name # Empty, a.started,
         build \in {"avahi", "mdnssd"}, ~IsStarted(p)
  PROVE  Clean(Start(p, a), a)
<1>1. p.entries = {} /\ p.shown = {}
  BY DEF Tidy, IsStarted
<1>2. CASE build = "mdnssd"
  <2> DEFINE q == [p EXCEPT !.ready = TRUE]
  <2>1. Tidy(q, a) /\ q.ready
    BY <1>1, <1>2 DEF Tidy, Publishers
  <2> HIDE DEF q
  <2>2. Clean(PublishService(q, a), a)
    BY <2>1, Publishing
  <2> QED BY <1>2, <2>2 DEF Start, PublishService, q
<1>3. CASE build = "avahi" /\ daemon = "running"
  <2> DEFINE q == [[p EXCEPT !.client = TRUE, !.linked = daemon # "down"] EXCEPT !.ready = TRUE]
             r == PublishService(q, a)
  <2>1. Tidy(q, a) /\ q.ready
    BY <1>1, <1>3 DEF Tidy, Publishers
  <2> HIDE DEF q
  <2>2. Clean(r, a)
    BY <1>3, <2>1, Publishing
  <2>3. Start(p, a) = Commit(r)
    BY <1>3 DEF Start, AvahiStart, PublishService, q
  <2> HIDE DEF r
  <2>4. Commit(r) = [r EXCEPT !.shown = r.entries, !.missed = r.entries = {}]
    BY DEF Commit
  <2>5. Clean(Commit(r), a)
    BY <2>2, <2>4 DEF Clean, Tidy, Publishers
  <2> QED BY <2>3, <2>5
<1>4. CASE build = "avahi" /\ daemon # "running"
  <2> DEFINE q == Start(p, a)
  <2>1. q = [p EXCEPT !.client = TRUE, !.linked = daemon # "down", !.missed = TRUE]
    BY <1>4 DEF Start, AvahiStart, Tidy, Publishers
  <2>2. q \in Publishers /\ q.entries = {} /\ q.shown = {} /\ q.client
    BY <1>1, <2>1 DEF Tidy, Publishers
  <2> HIDE DEF q
  <2>3. Clean(q, a)
    BY <2>2, NoRecord
  <2> QED BY <2>3 DEF q
<1> QED BY <1>2, <1>3, <1>4

LEMMA Changing ==
  ASSUME NEW p, NEW a \in AgentType, Tidy(p, a), build \in {"avahi", "mdnssd"}
  PROVE  Clean(HandleThreadChange(p, a), a)
<1>1. CASE a.started /\ a.name # Empty
  <2>1. CASE IsStarted(p)
    BY <1>1, <2>1, Publishing
    DEF HandleThreadChange, StartPublishService, IsStarted
  <2>2. CASE ~IsStarted(p)
    BY <1>1, <2>2, Starting DEF HandleThreadChange, StartPublishService
  <2> QED BY <2>1, <2>2
<1>2. CASE ~(a.started /\ a.name # Empty) /\ IsStarted(p)
  BY <1>2, StopClears DEF HandleThreadChange, StopPublishService, Clean
<1>3. CASE ~(a.started /\ a.name # Empty) /\ ~IsStarted(p)
  <2>1. p.entries = {} /\ p.shown = {}
    BY <1>3 DEF Tidy, IsStarted
  <2> QED BY <1>3, <2>1 DEF HandleThreadChange, StopPublishService, Clean
<1> QED BY <1>1, <1>2, <1>3
-----------------------------------------------------------------------------
(* The steps.                                                              *)

\* An event leaves the publisher clean, with the service of the new value.
LEMMA Handling ==
  ASSUME TypeOK, Clean(pub, agent), NEW key \in Keys, NEW value,
         [agent EXCEPT ![key] = value] \in AgentType, Handle(key, value)
  PROVE  /\ Clean(pub', agent') /\ agent' = [agent EXCEPT ![key] = value]
         /\ agent' \in AgentType
<1> DEFINE a == [agent EXCEPT ![key] = value]
           p == IF key = "name" THEN Stop(pub) ELSE pub
<1>1. agent' = a /\ pub' = HandleThreadChange(p, a)
  BY DEF Handle
<1>2. Tidy(p, a)
  <2>1. CASE key = "name"
    BY <2>1, StopClears DEF TypeOK, Clean
  <2>2. CASE key # "name"
    <3>1. a.name = agent.name
      BY <2>2 DEF TypeOK
    <3> QED BY <2>2, <3>1 DEF Clean, Tidy
  <2> QED BY <2>1, <2>2
<1> HIDE DEF a, p
<1>3. a \in AgentType
  BY DEF a
<1>4. Clean(HandleThreadChange(p, a), a)
  BY <1>2, <1>3, Changing DEF TypeOK
<1> QED BY <1>1, <1>3, <1>4 DEF a

\* A value of a property is one the agent can hold.
LEMMA ValueType ==
  ASSUME TypeOK, NEW key \in Keys, NEW value,
         \/ key = "name" /\ value \in Names \cup {Empty}
         \/ key = "xpanid" /\ value \in Xpanids
         \/ key = "started" /\ value \in BOOLEAN
  PROVE  [agent EXCEPT ![key] = value] \in AgentType
BY DEF TypeOK, AgentType

LEMMA SignalType ==
  ASSUME TypeOK, NEW s \in Signals
  PROVE  /\ s.key \in Keys
         /\ [agent EXCEPT ![s.key] = s.value] \in AgentType
<1>1. s.key \in Keys
  BY DEF Signals
<1>2. \/ s.key = "name" /\ s.value \in Names \cup {Empty}
      \/ s.key = "xpanid" /\ s.value \in Xpanids
      \/ s.key = "started" /\ s.value \in BOOLEAN
  BY DEF Signals
<1> QED BY <1>1, <1>2, ValueType

\* A change of a property sends a signal with its value, the last for its key.
LEMMA Signalled ==
  ASSUME TypeOK, Informed, NEW s \in Signals, signals' = Append(signals, s),
         wpan'[s.key] = s.value,
         \A k \in Keys : k # s.key => wpan'[k] = wpan[k],
         UNCHANGED <<agent, handlers, pc, unseen>>
  PROVE  Informed'
<1>1. /\ DOMAIN signals = 1..Len(signals) /\ Len(signals) \in Nat
      /\ DOMAIN signals' = 1..Len(signals) + 1
      /\ \A i \in 1..Len(signals) : signals'[i] = signals[i] /\ signals[i].key \in Keys
      /\ signals'[Len(signals) + 1] = s
  BY SignalType DEF TypeOK
<1>2. ASSUME NEW i \in DOMAIN signals', LastOfKey(i)'
      PROVE  signals'[i].value = wpan'[signals'[i].key]
  <2>1. CASE i = Len(signals) + 1
    BY <1>1, <2>1
  <2>2. CASE i # Len(signals) + 1
    <3>1. signals[i].key # s.key
      BY <1>1, <1>2, <2>2 DEF LastOfKey
    <3>2. LastOfKey(i)
      BY <1>1, <1>2, <2>2 DEF LastOfKey
    <3>3. i \in DOMAIN signals
      BY <1>1, <2>2
    <3> QED BY <1>1, <2>2, <3>1, <3>2, <3>3 DEF Informed
  <2> QED BY <2>1, <2>2
<1>3. ASSUME NEW k \in Keys, (handlers /\ Requested(k) /\ k \notin unseen)',
             \A i \in DOMAIN signals' : signals'[i].key # k
      PROVE  agent'[k] = wpan'[k]
  <2>1. k # s.key
    BY <1>1, <1>3
  <2>2. \A i \in DOMAIN signals : signals[i].key # k
    BY <1>1, <1>3
  <2>3. Requested(k)
    BY <1>3 DEF Requested
  <2> QED BY <1>3, <2>1, <2>2, <2>3 DEF Informed
<1> QED BY <1>2, <1>3 DEF Informed
\* The first signal is handled: either the agent has its value, or it is lost.
LEMMA Handled ==
  ASSUME TypeOK, Informed, pc = "loop", signals # <<>>, signals' = Tail(signals),
         \/ /\ handlers => agent' = [agent EXCEPT ![Head(signals).key] = Head(signals).value]
            /\ unseen' = unseen \ {Head(signals).key}
         \/ unseen' = unseen \cup {Head(signals).key} /\ agent' = agent,
         UNCHANGED <<wpan, handlers, pc>>
  PROVE  Informed'
<1> DEFINE s == Head(signals)
<1>1. /\ DOMAIN signals = 1..Len(signals) /\ Len(signals) \in Nat \ {0}
      /\ DOMAIN signals' = 1..Len(signals) - 1
      /\ \A i \in 1..Len(signals) - 1 : signals'[i] = signals[i + 1]
      /\ s = signals[1] /\ s \in Signals
  BY EmptySeq, HeadTailProperties DEF TypeOK
<1>2. s.key \in Keys /\ [agent EXCEPT ![s.key] = s.value] \in AgentType
  BY <1>1, SignalType
<1> HIDE DEF s
<1>3. ASSUME NEW i \in DOMAIN signals', LastOfKey(i)'
      PROVE  signals'[i].value = wpan'[signals'[i].key]
  <2>1. LastOfKey(i + 1)
    <3> SUFFICES ASSUME NEW j \in DOMAIN signals, j > i + 1
                 PROVE  signals[j].key # signals[i + 1].key
      BY DEF LastOfKey
    <3>1. j - 1 \in DOMAIN signals' /\ j - 1 > i /\ signals'[j - 1] = signals[j]
      BY <1>1
    <3> QED BY <1>1, <1>3, <3>1 DEF LastOfKey
  <2> QED BY <1>1, <2>1 DEF Informed
<1>4. ASSUME NEW k \in Keys, (handlers /\ Requested(k) /\ k \notin unseen)',
             \A i \in DOMAIN signals' : signals'[i].key # k
      PROVE  agent'[k] = wpan'[k]
  <2>1. \A i \in DOMAIN signals : i # 1 => signals[i].key # k
    <3> SUFFICES ASSUME NEW i \in DOMAIN signals, i # 1
                 PROVE  signals[i].key # k
      OBVIOUS
    <3>1. i - 1 \in DOMAIN signals' /\ signals'[i - 1] = signals[i]
      BY <1>1
    <3> QED BY <1>4, <3>1
  <2>2. CASE s.key = k
    <3>1. LastOfKey(1)
      BY <1>1, <2>1, <2>2 DEF LastOfKey
    <3>2. s.value = wpan[k]
      BY <1>1, <2>2, <3>1 DEF Informed
    <3>3. agent' = [agent EXCEPT ![k] = s.value]
      BY <1>4, <2>2 DEF s
    <3>4. k \in DOMAIN agent
      BY DEF TypeOK
    <3> QED BY <3>2, <3>3, <3>4
  <2>3. CASE s.key # k
    <3>1. \A i \in DOMAIN signals : signals[i].key # k
      BY <1>1, <2>1, <2>3
    <3>2. k \notin unseen
      BY <1>4, <2>3 DEF s
    <3>3. agent[k] = wpan[k]
      BY <1>4, <3>1, <3>2 DEF Informed, Requested
    <3>4. agent'[k] = agent[k]
      BY <1>4, <2>3 DEF TypeOK, s
    <3> QED BY <3>3, <3>4
  <2> QED BY <2>2, <2>3
<1> QED BY <1>3, <1>4 DEF Informed

LEMMA Initially ==
  ASSUME BorderAgentAssumption, Init
  PROVE  IndInv
<1>1. TypeOK
  <2>1. agent \in [name : Names \cup {Empty, Junk}, xpanid : Xpanids \cup {Junk},
                   started : BOOLEAN]
    BY DEF Init
  <2>2. pub \in Publishers
    BY DEF Init, Publishers
  <2>3. signals \in Seq(Signals)
    BY DEF Init
  <2>4. /\ build \in {"avahi", "mdnssd"} /\ pc = "init" /\ handlers \in BOOLEAN
        /\ mInterfaceDBusName \in Nat /\ owner \in Nat
        /\ daemon \in {"down", "registering", "running"}
        /\ wpan \in Values /\ unseen \subseteq Keys /\ changes \in Nat /\ faults \in Nat
    BY DEF Init
  <2> QED BY <2>1, <2>2, <2>3, <2>4 DEF TypeOK
<1>2. Clean(pub, agent)
  <2>1. pub \in Publishers /\ pub.entries = {} /\ pub.shown = {} /\ ~pub.ready
    BY <1>1 DEF Init, TypeOK
  <2> QED BY <2>1, NoRecord
<1>3. ~agent.started /\ ~handlers /\ pc \notin Keys
  BY DEF Init
<1>4. Informed
  <2>1. DOMAIN signals = {}
    BY DEF Init
  <2> QED BY <1>3, <2>1 DEF Informed
<1> QED BY <1>1, <1>2, <1>3, <1>4 DEF IndInv
\* The invariant depends on nothing that the network and the daemon change.
LEMMA Undisturbed ==
  ASSUME IndInv, UNCHANGED <<build, pc, handlers, agent, signals, wpan, unseen>>,
         Clean(pub', agent)
  PROVE  /\ Clean(pub, agent)' /\ (pc \in Keys => handlers)'
         /\ (pc \in {"init", "bind"} => ~handlers)'
         /\ (~handlers => ~agent.started)' /\ Informed'
<1>1. Informed'
  <2>1. \A k : Requested(k)' <=> Requested(k)
    BY DEF IndInv, Requested
  <2>2. \A i : LastOfKey(i)' <=> LastOfKey(i)
    BY DEF LastOfKey
  <2> QED BY <2>1, <2>2 DEF IndInv, Informed
<1> QED BY <1>1 DEF IndInv, Clean, Tidy

LEMMA NcpInitKeeps ==
  ASSUME IndInv, NcpInit  PROVE  IndInv'
<1>1. TypeOK'
  BY DEF IndInv, TypeOK, NcpInit, Fails
<1>2. Clean(pub, agent)'
  BY DEF IndInv, NcpInit, Clean, Tidy
<1>3. pc' \notin Keys /\ \A k \in Keys : ~Requested(k)'
  BY DEF NcpInit, Requested
<1>4. Informed'
  <2>1. \A i : LastOfKey(i)' <=> LastOfKey(i)
    BY DEF LastOfKey, NcpInit
  <2> QED BY <1>3, <2>1 DEF IndInv, Informed, NcpInit
<1> QED BY <1>1, <1>2, <1>3, <1>4 DEF IndInv, NcpInit

LEMMA ListenKeeps ==
  ASSUME IndInv, Listen  PROVE  IndInv'
<1>1. TypeOK'
  <2>1. /\ pc' \in {"name", "loop", "exit"} /\ handlers' \in BOOLEAN
        /\ faults' \in Nat
    <3>1. handlers \in BOOLEAN /\ faults \in Nat
      BY DEF IndInv, TypeOK
    <3>2. CASE handlers' = TRUE /\ pc' = "name" /\ UNCHANGED faults
      BY <3>1, <3>2
    <3>3. CASE Fails /\ pc' \in {"loop", "exit"} /\ UNCHANGED handlers
      BY <3>1, <3>3 DEF Fails
    <3> QED BY <3>2, <3>3 DEF Listen
  <2>2. UNCHANGED <<build, agent, mInterfaceDBusName, pub, daemon, ncpVars, signals,
                    unseen, changes>>
    BY DEF Listen
  <2> QED BY <2>1, <2>2 DEF IndInv, TypeOK
<1>2. Clean(pub, agent)'
  BY DEF IndInv, Listen, Clean, Tidy
<1>3. \/ handlers' /\ pc' = "name"
      \/ handlers' = handlers /\ pc' \notin Keys
  BY DEF Listen
<1>4. Informed'
  <2>1. \A i : LastOfKey(i)' <=> LastOfKey(i)
    BY DEF LastOfKey, Listen
  <2>2. \A k \in Keys : (handlers /\ Requested(k))' => FALSE
    BY DEF Listen, Requested, IndInv
  <2> QED BY <2>1, <2>2 DEF IndInv, Informed, Listen
<1> QED BY <1>1, <1>2, <1>3, <1>4 DEF IndInv, Listen
LEMMA RequestKeeps ==
  ASSUME IndInv, RequestEvent  PROVE  IndInv'
<1>1. /\ pc \in Keys /\ pc' = After[pc] /\ handlers
      /\ UNCHANGED <<build, handlers, mInterfaceDBusName, daemon, wpan, owner, signals,
                     changes>>
  BY DEF RequestEvent, IndInv
<1>2. /\ pc' \in Keys \cup {"loop"}
      /\ \A k \in Keys : Requested(k)' <=> Requested(k) \/ k = pc
  BY <1>1 DEF After, Requested
<1>3. \A i : LastOfKey(i)' <=> LastOfKey(i)
  BY <1>1 DEF LastOfKey
<1>4. CASE Handle(pc, wpan[pc]) /\ UNCHANGED <<unseen, faults>>
  <2>1. \/ pc = "name" /\ wpan[pc] \in Names \cup {Empty}
        \/ pc = "xpanid" /\ wpan[pc] \in Xpanids
        \/ pc = "started" /\ wpan[pc] \in BOOLEAN
    BY <1>1 DEF IndInv, TypeOK, Values
  <2>2. [agent EXCEPT ![pc] = wpan[pc]] \in AgentType
    BY <1>1, <2>1, ValueType DEF IndInv
  <2>3. /\ Clean(pub', agent') /\ agent' = [agent EXCEPT ![pc] = wpan[pc]]
        /\ agent' \in AgentType
    BY <1>1, <1>4, <2>2, Handling DEF IndInv
  <2>4. Clean(pub, agent)'
    BY <1>1, <2>3 DEF Clean, Tidy
  <2>5. TypeOK'
    BY <1>1, <1>2, <1>4, <2>3 DEF IndInv, TypeOK, AgentType, Clean, Tidy
  <2>6. Informed'
    <3>1. \A k \in Keys : k # pc => agent'[k] = agent[k]
      BY <2>3 DEF IndInv, TypeOK
    <3>2. agent'[pc] = wpan[pc]
      BY <1>1, <2>3 DEF IndInv, TypeOK
    <3> QED BY <1>1, <1>2, <1>3, <1>4, <3>1, <3>2 DEF IndInv, Informed
  <2> QED BY <1>1, <1>2, <2>4, <2>5, <2>6 DEF IndInv
<1>5. CASE /\ unseen' = unseen \cup {pc} /\ UNCHANGED <<agent, pub>>
           /\ faults' \in Nat
  <2>1. TypeOK'
    BY <1>1, <1>2, <1>5 DEF IndInv, TypeOK
  <2>2. Informed'
    BY <1>1, <1>2, <1>3, <1>5 DEF IndInv, Informed
  <2> QED BY <1>1, <1>2, <1>5, <2>1, <2>2 DEF IndInv, Clean, Tidy
<1> QED BY <1>4, <1>5 DEF RequestEvent, Fails, IndInv, TypeOK

LEMMA SignalKeeps ==
  ASSUME IndInv, HandlePropertyChangedSignal  PROVE  IndInv'
<1> DEFINE s == Head(signals)
<1>1. /\ pc = "loop" /\ signals # <<>> /\ signals' = Tail(signals)
      /\ UNCHANGED <<build, pc, handlers, daemon, wpan, owner, changes>>
  BY DEF HandlePropertyChangedSignal
<1>2. s \in Signals /\ signals' \in Seq(Signals)
  BY <1>1, HeadTailProperties DEF IndInv, TypeOK
<1>3. /\ mInterfaceDBusName' \in Nat /\ faults' \in Nat
      /\ \/ ParseEvent(s) /\ unseen' = unseen \ {s.key}
         \/ unseen' = unseen \cup {s.key} /\ UNCHANGED <<agent, pub>>
  BY DEF HandlePropertyChangedSignal, Fails, IndInv, TypeOK
<1>4. s.key \in Keys /\ [agent EXCEPT ![s.key] = s.value] \in AgentType
  BY <1>2, SignalType DEF IndInv
<1> HIDE DEF s
<1>5. /\ Clean(pub', agent') /\ agent' \in AgentType
      /\ handlers \/ agent' = agent
      /\ \/ /\ handlers => agent' = [agent EXCEPT ![s.key] = s.value]
            /\ unseen' = unseen \ {s.key}
         \/ unseen' = unseen \cup {s.key} /\ agent' = agent
  <2>1. CASE handlers /\ ParseEvent(s) /\ unseen' = unseen \ {s.key}
    <3>1. Handle(s.key, s.value)
      BY <2>1 DEF ParseEvent, Emit
    <3> QED BY <1>4, <2>1, <3>1, Handling DEF IndInv
  <2>2. CASE ~handlers /\ ParseEvent(s) /\ unseen' = unseen \ {s.key}
    <3>1. UNCHANGED <<agent, pub>>
      BY <2>2 DEF ParseEvent, Emit
    <3> QED BY <2>2, <3>1 DEF IndInv, TypeOK, AgentType
  <2>3. CASE unseen' = unseen \cup {s.key} /\ UNCHANGED <<agent, pub>>
    BY <2>3 DEF IndInv, TypeOK, AgentType
  <2> QED BY <1>3, <2>1, <2>2, <2>3
<1>6. TypeOK'
  <2>1. unseen' \subseteq Keys
    BY <1>4, <1>5 DEF IndInv, TypeOK
  <2> QED BY <1>1, <1>2, <1>3, <1>5, <2>1 DEF IndInv, TypeOK, AgentType, Clean, Tidy
<1>7. Informed'
  BY <1>1, <1>5, Handled DEF IndInv, s
<1>8. Clean(pub, agent)'
  BY <1>1, <1>5 DEF Clean, Tidy
<1> QED BY <1>1, <1>5, <1>6, <1>7, <1>8 DEF IndInv

\* wpantund changes: the signal under way will tell.
LEMMA WpantundKeeps ==
  ASSUME IndInv, PropChanged \/ WpantundRestarts  PROVE  IndInv'
<1>1. /\ UNCHANGED <<build, pc, handlers, agent, mInterfaceDBusName, pub, daemon,
                      unseen, faults>>
      /\ changes' \in Nat /\ owner' \in Nat
  <2>1. changes \in Nat /\ owner \in Nat
    BY DEF IndInv, TypeOK
  <2>2. changes' = changes + 1 /\ owner' \in {owner, owner + 1}
    BY DEF PropChanged, WpantundRestarts
  <2>3. UNCHANGED <<build, pc, handlers, agent, mInterfaceDBusName, pub, daemon,
                    unseen, faults>>
    BY DEF PropChanged, WpantundRestarts
  <2> QED BY <2>1, <2>2, <2>3
<1>2. \E s \in Signals :
        /\ signals' = Append(signals, s) /\ wpan' = [wpan EXCEPT ![s.key] = s.value]
  <2>1. CASE PropChanged
    <3> DEFINE Of(key) == IF key = "name" THEN Names
                          ELSE IF key = "xpanid" THEN Xpanids ELSE BOOLEAN
    <3>0. PICK key \in Keys :
            \E value \in Of(key) :
              /\ wpan' = [wpan EXCEPT ![key] = value]
              /\ signals' = Append(signals, Signal(key, value, owner))
      BY <2>1 DEF PropChanged
    <3>1. PICK value \in Of(key) :
            /\ wpan' = [wpan EXCEPT ![key] = value]
            /\ signals' = Append(signals, Signal(key, value, owner))
      BY <3>0
    <3> DEFINE s == Signal(key, value, owner)
    <3>2. s \in Signals /\ s.key = key /\ s.value = value
      BY <2>1, <3>1 DEF Signal, Signals, Keys, IndInv, TypeOK
    <3> QED BY <3>1, <3>2
  <2>2. CASE WpantundRestarts
    <3> DEFINE s == Signal("started", FALSE, owner + 1)
    <3>1. s \in Signals /\ s.key = "started" /\ s.value = FALSE
      BY DEF Signal, Signals, IndInv, TypeOK
    <3> QED BY <2>2, <3>1 DEF WpantundRestarts
  <2> QED BY <2>1, <2>2
<1>3. PICK s \in Signals :
        /\ signals' = Append(signals, s) /\ wpan' = [wpan EXCEPT ![s.key] = s.value]
  BY <1>2
<1>4. wpan \in Values /\ s.key \in Keys
  BY SignalType DEF IndInv, TypeOK
<1>5. wpan'[s.key] = s.value /\ \A k \in Keys : k # s.key => wpan'[k] = wpan[k]
  BY <1>3, <1>4 DEF Values
<1>6. wpan' \in Values
  BY <1>3, <1>4 DEF Values, Signals
<1>7. signals' \in Seq(Signals)
  BY <1>3 DEF IndInv, TypeOK
<1>8. TypeOK'
  BY <1>1, <1>6, <1>7 DEF IndInv, TypeOK
<1>9. Informed'
  BY <1>1, <1>3, <1>4, <1>5, Signalled DEF IndInv
<1> QED BY <1>1, <1>8, <1>9 DEF IndInv, Clean, Tidy

\* The daemon withdraws services, or comes back without any.
LEMMA DaemonKeeps ==
  ASSUME IndInv, DaemonStops \/ DaemonStarts \/ Collision  PROVE  IndInv'
<1>1. /\ UNCHANGED <<build, pc, handlers, agent, mInterfaceDBusName, wpan, owner,
                      signals, unseen, changes>>
      /\ faults' \in Nat /\ daemon' \in {"down", "registering", "running"}
  BY DEF DaemonStops, DaemonStarts, Collision, Fails, IndInv, TypeOK
<1>2. Clean(pub', agent)
  <2>1. CASE DaemonStops
    <3>1. pub' = [pub EXCEPT !.shown = {}, !.missed = TRUE, !.linked = FALSE,
                             !.entries = {}]
      BY <2>1 DEF DaemonStops, Forget, IndInv, TypeOK, Publishers
    <3>2. /\ pub' \in Publishers /\ pub'.entries = {} /\ pub'.shown = {}
          /\ pub'.ready = pub.ready /\ pub'.client = pub.client
      BY <3>1 DEF IndInv, TypeOK, Publishers
    <3> QED BY <3>2, NoRecord DEF IndInv, Clean, Tidy
  <2>2. CASE DaemonStarts
    BY <2>2 DEF DaemonStarts, IndInv
  <2>3. CASE Collision
    BY <2>3 DEF Collision, Forget, IndInv, Clean, Tidy, Publishers
  <2> QED BY <2>1, <2>2, <2>3
<1>3. pub' \in Publishers
  BY <1>2 DEF Clean, Tidy
<1>4. TypeOK'
  BY <1>1, <1>3 DEF IndInv, TypeOK
<1>5. /\ Clean(pub, agent)' /\ (pc \in Keys => handlers)'
      /\ (pc \in {"init", "bind"} => ~handlers)'
      /\ (~handlers => ~agent.started)' /\ Informed'
  BY <1>1, <1>2, Undisturbed
<1> QED BY <1>4, <1>5 DEF IndInv

LEMMA StutterKeeps ==
  ASSUME IndInv, UNCHANGED vars  PROVE  IndInv'
<1>1. UNCHANGED <<build, pc, handlers, agent, mInterfaceDBusName, pub, daemon, wpan,
                  owner, signals, unseen, changes, faults>>
  BY DEF vars
<1>2. TypeOK'
  BY <1>1 DEF IndInv, TypeOK
<1>3. Clean(pub', agent)
  BY <1>1 DEF IndInv
<1>4. /\ Clean(pub, agent)' /\ (pc \in Keys => handlers)'
      /\ (pc \in {"init", "bind"} => ~handlers)'
      /\ (~handlers => ~agent.started)' /\ Informed'
  BY <1>1, <1>3, Undisturbed
<1> QED BY <1>2, <1>4 DEF IndInv

-----------------------------------------------------------------------------
(* What the agent and its publisher rely on holds in every state.          *)

\* Whatever the order of events, and whatever fails, the publisher holds at most
\* the one service of what the agent knows, Stop finds all of it, and the last
\* signal under way for a property has its value.
THEOREM AgentInvariant == Spec => []IndInv
<1>1. Init => IndInv
  BY Initially, BorderAgentAssumption
<1>2. IndInv /\ [Next]_vars => IndInv'
  <2> SUFFICES ASSUME IndInv, [Next]_vars  PROVE  IndInv'
    OBVIOUS
  <2>1. CASE AgentNext
    BY <2>1, NcpInitKeeps, ListenKeeps, RequestKeeps, SignalKeeps DEF AgentNext
  <2>2. CASE PropChanged \/ WpantundRestarts
    BY <2>2, WpantundKeeps
  <2>3. CASE DaemonStops \/ DaemonStarts \/ Collision
    BY <2>3, DaemonKeeps
  <2>4. CASE UNCHANGED vars
    BY <2>4, StutterKeeps
  <2> QED BY <2>1, <2>2, <2>3, <2>4 DEF Next
<1> QED BY <1>1, <1>2, PTL DEF Spec

\* No handler, in whatever order the events come, leaves a service announced
\* other than the one of the name and the id the agent holds while Thread runs
\* (HandleThreadChange and SetNetworkName of border_agent.cpp).
THEOREM AnnouncesWhatIsKnown == Spec => []ShowsWhatIsKnown
<1>1. IndInv => ShowsWhatIsKnown
  <2> SUFFICES ASSUME IndInv  PROVE  ShowsWhatIsKnown
    OBVIOUS
  <2>1. pub.shown \subseteq pub.entries /\ pub.entries \subseteq {Record(agent)}
    BY DEF IndInv, Clean, Tidy
  <2>2. pub.shown # {} => agent.started /\ agent.name # Empty
    BY <2>1 DEF IndInv, Clean
  <2> QED BY <2>1, <2>2 DEF ShowsWhatIsKnown, IndInv
<1> QED BY <1>1, AgentInvariant, PTL

\* Once every signal is handled, nothing is announced but what wpantund has,
\* unless the last value of a property was lost.
THEOREM AgentNeverStale == Spec => []NeverStale
<1>1. IndInv => NeverStale
  <2> SUFFICES ASSUME IndInv, pc = "loop", signals = <<>>, unseen = {},
                      pub.shown # {}
               PROVE  pub.shown \subseteq Expected
    BY DEF NeverStale
  <2>1. pub.shown \subseteq {Record(agent)} /\ agent.started
    BY DEF IndInv, Clean, Tidy
  <2>2. handlers
    BY <2>1 DEF IndInv
  <2>3. agent["name"] = wpan["name"] /\ agent["xpanid"] = wpan["xpanid"]
        /\ agent["started"] = wpan["started"]
    <3>1. DOMAIN signals = {}
      OBVIOUS
    <3>2. \A k \in Keys : agent[k] = wpan[k]
      BY <2>2, <3>1 DEF IndInv, Informed, Requested
    <3> QED BY <3>2
  <2>4. Record(agent) = Record(wpan)
    BY <2>3 DEF Record
  <2> QED BY <2>1, <2>3, <2>4 DEF Expected
<1> QED BY <1>1, AgentInvariant, PTL
=============================================================================
