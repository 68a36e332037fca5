-------------------------- MODULE CommissionerProofs --------------------------
(***************************************************************************)
(* Proofs about Commissioner, for every number of retries, every set of    *)
(* requests and every network: the petition budget, and that the handler   *)
(* of a request runs at most once.                                         *)
(***************************************************************************)
EXTENDS Commissioner, TLAPS

\* The initial states satisfy the inductive invariant.
LEMMA InitIndInv == Init => IndInv
<1> SUFFICES ASSUME Init PROVE IndInv
  OBVIOUS
<1>1. TypeOK
  <2>1. stop \in BOOLEAN /\ updated \in BOOLEAN
    BY DEF Init
  <2>2. QED
    BY <2>1, CommissionerAssumption, SMT DEF Init, TypeOK, States, Sessions
<1>2. petitions = 0 /\ mPetitionRetryCount = 0 /\ pc = "handshake"
  BY DEF Init
<1>3. PetitionBudget
  BY <1>2, CommissionerAssumption, SMT DEF PetitionBudget
<1>4. \A i \in Ids : answers[i] = 0
  BY DEF Init
<1>5. QED
  BY <1>1, <1>2, <1>3, <1>4 DEF IndInv

\* What stays in the network when a message is received was there before.
LEMMA LeftInNetSubset ==
  ASSUME NEW m \in net, NEW n \in LeftInNet(m)
  PROVE  n \subseteq net
  BY DEF LeftInNet

\* The messages the leader sends in answer to a request are well formed.
LEMMA ReplyTyped ==
  ASSUME TypeOK, NEW r \in net, r.type = "request", r.kind \in Kinds, r.id \in Ids,
         NEW v \in Verdicts, NEW s \in Sessions, Reply(r, v, s)
  PROVE  net' \subseteq Requests \cup Responses \cup EmptyAcks
<1>1. Piggybacked(r, v, s) \in Responses
  BY SMT DEF Piggybacked, Responses
<1>2. InTwoMessages(r, v, s) \subseteq Responses \cup EmptyAcks
  BY SMT DEF InTwoMessages, Responses, EmptyAcks
<1>3. QED
  BY <1>1, <1>2 DEF Reply, TypeOK

\* Requests in the network carry an id and a kind.
LEMMA MessageTyped ==
  ASSUME TypeOK, NEW m \in net
  PROVE  /\ m.id \in Ids
         /\ m.type = "request" => m.kind \in Kinds
         /\ m.type \in {"piggybacked", "separate"} =>
              m.kind \in Kinds /\ m.verdict \in Verdicts /\ m.sid \in Sessions
  BY SMT DEF TypeOK, Requests, Responses, EmptyAcks

\* A new request is well formed.
LEMMA RequestTyped ==
  ASSUME TypeOK, NEW i \in Ids, NEW k \in Kinds
  PROVE  Request(i, k) \in Requests
  BY SMT DEF TypeOK, Request, Requests

\* Sending a request keeps the network, the queue and the counts well formed.
LEMMA SendTyped ==
  ASSUME TypeOK, NEW i \in Ids, NEW k \in Kinds, NEW n \in SUBSET net, Send(i, k, n)
  PROVE  /\ net' \subseteq Requests \cup Responses \cup EmptyAcks
         /\ sendqueue' \in [Ids -> {"none", "sent", "separate"}]
         /\ answers' \in [Ids -> Nat]
<1>1. Request(i, k) \in Requests
  BY RequestTyped
<1>2. net' \subseteq Requests \cup Responses \cup EmptyAcks
  BY <1>1 DEF Send, TypeOK
<1>3. QED
  BY <1>2 DEF Send, TypeOK

\* Handling a response keeps everything well formed.
LEMMA HandleTyped ==
  ASSUME TypeOK, NEW m \in net, m.type \in {"piggybacked", "separate"}, Handle(m)
  PROVE  /\ net' \subseteq Requests \cup Responses \cup EmptyAcks
         /\ sendqueue' \in [Ids -> {"none", "sent", "separate"}]
         /\ answers' \in [Ids -> Nat]
         /\ mCommissionState' \in States
         /\ mPetitionRetryCount' \in 0 .. MaxRetry
         /\ mCommissionerSessionId' \in Sessions
         /\ age' \in 0 .. Rate + 1
         /\ petitions' \in Nat
<1> DEFINE s == StateAfter(m.verdict)
<1>1. m.id \in Ids /\ m.sid \in Sessions
  BY MessageTyped
<1>2. s \in States
  BY DEF StateAfter, TypeOK, States
<1>3. age' \in 0 .. Rate + 1 /\ mCommissionerSessionId' \in Sessions
  BY <1>1, CommissionerAssumption, SMT DEF Handle, TypeOK
<1>4. PICK n \in LeftInNet(m) :
        IF Retries(s) /\ RetryBudget
          THEN \E i \in Free(n) :
                 /\ net' = n \cup {Request(i, "petition")}
                 /\ sendqueue' = [Dequeued(m.id) EXCEPT ![i] = "sent"]
                 /\ answers' = [answers EXCEPT ![m.id] = @ + 1, ![i] = 0]
                 /\ mCommissionState' = s
                 /\ mPetitionRetryCount' = mPetitionRetryCount + 1
                 /\ petitions' = petitions + 1
          ELSE /\ net' = n
               /\ sendqueue' = Dequeued(m.id)
               /\ answers' = [answers EXCEPT ![m.id] = @ + 1]
               /\ mCommissionState' = IF Retries(s) THEN "invalid" ELSE s
               /\ mPetitionRetryCount' = IF Retries(s) THEN 0 ELSE mPetitionRetryCount
               /\ UNCHANGED petitions
  BY DEF Handle
<1>5. n \subseteq Requests \cup Responses \cup EmptyAcks
  BY LeftInNetSubset DEF TypeOK
<1>6. Dequeued(m.id) \in [Ids -> {"none", "sent", "separate"}]
  BY <1>1 DEF Dequeued, TypeOK
<1>7. CASE Retries(s) /\ RetryBudget
  <2>1. PICK i \in Free(n) :
          /\ net' = n \cup {Request(i, "petition")}
          /\ sendqueue' = [Dequeued(m.id) EXCEPT ![i] = "sent"]
          /\ answers' = [answers EXCEPT ![m.id] = @ + 1, ![i] = 0]
          /\ mCommissionState' = s
          /\ mPetitionRetryCount' = mPetitionRetryCount + 1
          /\ petitions' = petitions + 1
    BY <1>4, <1>7
  <2>2. i \in Ids
    BY DEF Free
  <2>3. Request(i, "petition") \in Requests
    BY <2>2, RequestTyped DEF Kinds
  <2>4. net' \subseteq Requests \cup Responses \cup EmptyAcks
    BY <2>1, <2>3, <1>5
  <2>5. mPetitionRetryCount' \in 0 .. MaxRetry
    BY <2>1, <1>7, CommissionerAssumption, SMT DEF RetryBudget, TypeOK
  <2>6. answers' \in [Ids -> Nat]
    BY <2>1, <2>2, <1>1, SMT DEF TypeOK
  <2>7. sendqueue' \in [Ids -> {"none", "sent", "separate"}]
    BY <2>1, <1>6
  <2>8. petitions' \in Nat
    BY <2>1 DEF TypeOK
  <2>9. QED
    BY <1>2, <1>3, <2>1, <2>4, <2>5, <2>6, <2>7, <2>8
<1>8. CASE ~(Retries(s) /\ RetryBudget)
  <2>1. /\ net' = n
        /\ sendqueue' = Dequeued(m.id)
        /\ answers' = [answers EXCEPT ![m.id] = @ + 1]
        /\ mCommissionState' = IF Retries(s) THEN "invalid" ELSE s
        /\ mPetitionRetryCount' = IF Retries(s) THEN 0 ELSE mPetitionRetryCount
        /\ petitions' = petitions
    BY <1>4, <1>8
  <2>2. answers' \in [Ids -> Nat]
    BY <2>1, <1>1, SMT DEF TypeOK
  <2>3. mCommissionState' \in States
    BY <2>1, <1>2 DEF States
  <2>4. mPetitionRetryCount' \in 0 .. MaxRetry
    BY <2>1, CommissionerAssumption, SMT DEF TypeOK
  <2>5. QED
    BY <1>3, <1>5, <1>6, <2>1, <2>2, <2>3, <2>4 DEF TypeOK
<1>9. QED
  BY <1>7, <1>8
-----------------------------------------------------------------------------
\* Every step keeps the types.
LEMMA TypeStep == TypeOK /\ [Next]_vars => TypeOK'
<1> SUFFICES ASSUME TypeOK, [Next]_vars PROVE TypeOK'
  OBVIOUS
<1> USE CommissionerAssumption
<1>1. CASE Handshake
  BY <1>1 DEF Handshake, Goto, TypeOK, coapVars, listVars, leaderVars, States
<1>2. CASE FirstPetition
  <2>1. PICK i \in Ids : Send(i, "petition", net)
    BY <1>2 DEF FirstPetition
  <2>2. QED
    BY <1>2, <2>1, SendTyped DEF FirstPetition, Goto, TypeOK, Kinds, listVars, leaderVars
<1>3. CASE Ended \/ NothingRead \/ NoKeepAlive \/ NoUpdate \/ StopTest
  BY <1>3 DEF Ended, NothingRead, NoKeepAlive, NoUpdate, StopTest, Goto, TypeOK,
              commVars, coapVars, listVars, leaderVars
<1>4. ASSUME NEW m \in net, Receive(m), m.type # "request" PROVE TypeOK'
  <2>1. m.id \in Ids
    BY MessageTyped
  <2>2. CASE EmptyAck(m)
    BY <1>4, <2>1, <2>2 DEF Receive, EmptyAck, Goto, TypeOK, commVars, listVars, leaderVars
  <2>3. CASE Unmatched(m)
    BY <1>4, <2>1, <2>3, LeftInNetSubset
       DEF Receive, Unmatched, Goto, TypeOK, commVars, listVars, leaderVars
  <2>4. CASE Handle(m)
    <3>1. m.type \in {"piggybacked", "separate"}
      BY <2>4 DEF Handle, Matches
    <3>2. QED
      BY <1>4, <2>4, <3>1, HandleTyped DEF Receive, Goto, TypeOK, listVars, leaderVars
  <2>5. QED
    BY <1>4, <2>2, <2>3, <2>4 DEF Receive
<1>5. CASE CommissionerKeepAlive
  <2>1. PICK i \in Ids : Send(i, "keepAlive", net)
    BY <1>5 DEF CommissionerKeepAlive
  <2>2. QED
    BY <1>5, <2>1, SendTyped
       DEF CommissionerKeepAlive, Goto, TypeOK, Kinds, commVars, listVars, leaderVars
<1>6. CASE CommissionerSet
  <2>1. PICK i \in Ids : Send(i, "set", net)
    BY <1>6 DEF CommissionerSet
  <2>2. QED
    BY <1>6, <2>1, SendTyped DEF CommissionerSet, Goto, TypeOK, Kinds, commVars, leaderVars
<1>7. CASE RequestStop \/ Lose
  BY <1>7 DEF RequestStop, Lose, TypeOK, commVars, coapVars, listVars, leaderVars
<1>8. CASE Tick
  <2>1. age' \in 0 .. Rate + 1
    BY <1>8, SMT DEF Tick, TypeOK
  <2>2. QED
    BY <1>8, <2>1 DEF Tick, TypeOK, commVars, coapVars, listVars, leaderVars
<1>9. CASE UpdateList
  <2>1. updates' \in 0 .. MaxUpdates
    BY <1>9, SMT DEF UpdateList, TypeOK
  <2>2. QED
    BY <1>9, <2>1 DEF UpdateList, TypeOK, commVars, coapVars, leaderVars
<1>10. CASE Expire
  <2>1. expiries' \in 0 .. MaxExpiries /\ session' \in Sessions
    BY <1>10, SMT DEF Expire, TypeOK, Sessions
  <2>2. QED
    BY <1>10, <2>1 DEF Expire, TypeOK, commVars, coapVars, listVars
<1>11. ASSUME NEW i \in Ids, Answer(i) PROVE TypeOK'
  <2>1. PICK r \in net : r.id = i /\ r.type = "request" /\ (Grant(r) \/ Refuse(r) \/ Judge(r))
    BY <1>11 DEF Answer
  <2>2. r.kind \in Kinds
    BY <2>1, MessageTyped
  <2>3. /\ net' \subseteq Requests \cup Responses \cup EmptyAcks
        /\ session' \in Sessions /\ grants' \in Nat
    <3>1. CASE Grant(r)
      BY <2>1, <2>2, <3>1, ReplyTyped DEF Grant, TypeOK, Verdicts, Sessions
    <3>2. CASE Refuse(r)
      BY <2>1, <2>2, <3>2, ReplyTyped DEF Refuse, TypeOK, Verdicts, Sessions
    <3>3. CASE Judge(r)
      BY <2>1, <2>2, <3>3, ReplyTyped DEF Judge, TypeOK, Verdicts, Sessions
    <3>4. QED
      BY <2>1, <3>1, <3>2, <3>3
  <2>4. QED
    BY <1>11, <2>3 DEF Answer, TypeOK, commVars, listVars
<1>12. CASE UNCHANGED vars
  BY <1>12 DEF TypeOK, vars, commVars, coapVars, listVars, leaderVars
<1>13. QED
  BY <1>1, <1>2, <1>3, <1>4, <1>5, <1>6, <1>7, <1>8, <1>9,
     <1>10, <1>11, <1>12
     DEF Next, ThreadStep, ReceiveId, Done

\* Before the first petition nothing has been counted.
Fresh == pc \in {"handshake", "petition"} => petitions = 0 /\ mPetitionRetryCount = 0

\* Every step keeps the petition budget: only FirstPetition and Handle send a
\* petition, and Handle counts it.
LEMMA BudgetStep == TypeOK /\ Fresh /\ PetitionBudget /\ [Next]_vars => Fresh' /\ PetitionBudget'
<1> SUFFICES ASSUME TypeOK, Fresh, PetitionBudget, [Next]_vars PROVE Fresh' /\ PetitionBudget'
  OBVIOUS
<1> USE CommissionerAssumption
<1>1. CASE Handshake
  BY <1>1 DEF Handshake, Goto, Fresh, PetitionBudget
<1>2. CASE FirstPetition
  BY <1>2, SMT DEF FirstPetition, Goto, Fresh, PetitionBudget, TypeOK
<1>3. CASE Ended \/ NothingRead \/ NoKeepAlive \/ NoUpdate \/ StopTest
  BY <1>3 DEF Ended, NothingRead, NoKeepAlive, NoUpdate, StopTest, Goto, Fresh,
              PetitionBudget, commVars
<1>4. ASSUME NEW m \in net, Receive(m) PROVE Fresh' /\ PetitionBudget'
  <2>1. /\ pc = "select" /\ pc' = "keepAlive"
        /\ petitions = mPetitionRetryCount + 1
    BY <1>4 DEF Receive, Goto, PetitionBudget
  <2>2. CASE EmptyAck(m) \/ Unmatched(m)
    BY <2>1, <2>2 DEF EmptyAck, Unmatched, commVars, Fresh, PetitionBudget
  <2>3. CASE Handle(m)
    <3> DEFINE s == StateAfter(m.verdict)
    <3>1. CASE Retries(s) /\ RetryBudget
      <4>1. petitions' = petitions + 1 /\ mPetitionRetryCount' = mPetitionRetryCount + 1
        BY <2>3, <3>1 DEF Handle
      <4>2. QED
        BY <2>1, <3>1, <4>1, SMT DEF RetryBudget, Fresh, PetitionBudget, TypeOK
    <3>2. CASE Retries(s) /\ ~RetryBudget
      <4>1. petitions' = petitions /\ mCommissionState' = "invalid"
        BY <2>3, <3>2 DEF Handle
      <4>2. QED
        BY <2>1, <4>1 DEF Fresh, PetitionBudget
    <3>3. CASE ~Retries(s)
      <4>1. petitions' = petitions /\ mPetitionRetryCount' = mPetitionRetryCount
        BY <2>3, <3>3 DEF Handle
      <4>2. QED
        BY <2>1, <4>1 DEF Fresh, PetitionBudget
    <3>4. QED
      BY <3>1, <3>2, <3>3
  <2>4. QED
    BY <1>4, <2>2, <2>3 DEF Receive
<1>5. CASE CommissionerKeepAlive \/ CommissionerSet
  BY <1>5 DEF CommissionerKeepAlive, CommissionerSet, Goto, Fresh, PetitionBudget, commVars
<1>6. CASE RequestStop \/ UpdateList \/ Tick \/ Lose \/ Expire \/ \E i \in Ids : Answer(i)
  BY <1>6 DEF RequestStop, UpdateList, Tick, Lose, Expire, Answer, Fresh, PetitionBudget,
              commVars
<1>7. CASE UNCHANGED vars
  BY <1>7 DEF vars, commVars, Fresh, PetitionBudget
<1>8. QED
  BY <1>1, <1>2, <1>3, <1>4, <1>5, <1>6, <1>7 DEF Next, ThreadStep, ReceiveId, Done

\* A request that has been answered is no longer in the queue.
Retired == \A i \in Ids : answers[i] = 0 \/ (answers[i] = 1 /\ sendqueue[i] = "none")

\* Every step keeps it: a handler runs only for a request in the queue, and
\* takes it out.
LEMMA RetiredStep == TypeOK /\ Retired /\ [Next]_vars => Retired'
<1> SUFFICES ASSUME TypeOK, Retired, [Next]_vars PROVE Retired'
  OBVIOUS
<1>1. ASSUME NEW i \in Ids, NEW k, NEW n, Send(i, k, n) PROVE Retired'
  BY <1>1, SMT DEF Send, Retired, TypeOK
<1>2. CASE FirstPetition \/ CommissionerKeepAlive \/ CommissionerSet
  BY <1>1, <1>2 DEF FirstPetition, CommissionerKeepAlive, CommissionerSet
<1>3. ASSUME NEW m \in net, m.type # "request", Receive(m) PROVE Retired'
  <2>1. m.id \in Ids
    BY MessageTyped
  <2>2. CASE EmptyAck(m)
    BY <2>1, <2>2, SMT DEF EmptyAck, Retired, TypeOK
  <2>3. CASE Unmatched(m)
    BY <2>1, <2>3, SMT DEF Unmatched, Retired, TypeOK
  <2>4. CASE Handle(m)
    <3> DEFINE s == StateAfter(m.verdict)
    <3>1. answers[m.id] = 0
      BY <2>1, <2>4, SMT DEF Handle, Matches, Retired
    <3>2. CASE Retries(s) /\ RetryBudget
      <4>1. PICK i \in Ids : /\ sendqueue' = [Dequeued(m.id) EXCEPT ![i] = "sent"]
                             /\ answers' = [answers EXCEPT ![m.id] = @ + 1, ![i] = 0]
        BY <2>4, <3>2 DEF Handle, Free
      <4>2. QED
        BY <2>1, <3>1, <4>1, SMT DEF Dequeued, Retired, TypeOK
    <3>3. CASE ~(Retries(s) /\ RetryBudget)
      <4>1. sendqueue' = Dequeued(m.id) /\ answers' = [answers EXCEPT ![m.id] = @ + 1]
        BY <2>4, <3>3 DEF Handle
      <4>2. QED
        BY <2>1, <3>1, <4>1, SMT DEF Dequeued, Retired, TypeOK
    <3>4. QED
      BY <3>2, <3>3
  <2>5. QED
    BY <1>3, <2>2, <2>3, <2>4 DEF Receive
<1>4. CASE \/ Handshake \/ Ended \/ NothingRead \/ NoKeepAlive \/ NoUpdate \/ StopTest
           \/ RequestStop \/ UpdateList \/ Tick \/ Lose \/ Expire \/ \E i \in Ids : Answer(i)
  BY <1>4 DEF Handshake, Ended, NothingRead, NoKeepAlive, NoUpdate, StopTest, RequestStop,
              UpdateList, Tick, Lose, Expire, Answer, coapVars, Retired
<1>5. CASE UNCHANGED vars
  BY <1>5 DEF vars, coapVars, Retired
<1>6. QED
  BY <1>2, <1>3, <1>4, <1>5 DEF Next, ThreadStep, ReceiveId, Done
-----------------------------------------------------------------------------
\* The inductive invariant, of commissioner.cpp lines 190 to 537 and of the
\* request queue below it.
THEOREM CommissionerInvariant == Spec => []IndInv
<1>1. IndInv /\ [Next]_vars => IndInv'
  BY TypeStep, BudgetStep, RetiredStep DEF IndInv, Fresh, Retired
<1>2. QED
  BY <1>1, InitIndInv, PTL DEF Spec

\* CommissionerResponseNext never sends more than 1 + kPetitionMaxRetry
\* petitions in the life of a Commissioner, and mPetitionRetryCount counts
\* them while the commissioner is valid.
THEOREM BudgetKept == Spec => []PetitionBudget
<1>1. IndInv => PetitionBudget
  BY DEF IndInv
<1>2. QED
  BY <1>1, CommissionerInvariant, PTL

\* AgentLibcoap::HandleResponse calls the handler of a request at most once.
THEOREM HandlersRunOnce == Spec => []AnsweredOnce
<1>1. IndInv => AnsweredOnce
  BY SMT DEF IndInv, TypeOK, AnsweredOnce
<1>2. QED
  BY <1>1, CommissionerInvariant, PTL
-----------------------------------------------------------------------------
(* A network that loses nothing and a leader that answers in one message.  *)

Reliable == ~Lossy /\ ~Separate

\* What is under way is the one request with its id, or its one answer, and the
\* request is in the queue still.
OneMessageEach ==
  /\ \A m \in net : m.type \in {"request", "piggybacked"} /\ sendqueue[m.id] # "none"
  /\ \A m, o \in net : m.id = o.id => m = o

\* The thread is waiting for the leader's consent.
AwaitsConsent ==
  /\ pc \in {"select", "keepAlive", "list", "stop"}
  /\ mCommissionState \in {"connected", "rejected"}

PetitionUnderWay == \E m \in net : m.kind = "petition"

PetitionInv == IndInv /\ OneMessageEach /\ (AwaitsConsent => PetitionUnderWay)

LEMMA SendKeepsOneEach ==
  ASSUME TypeOK, OneMessageEach, NEW i \in Ids, NEW k \in Kinds, Send(i, k, net)
  PROVE  /\ OneMessageEach'
         /\ PetitionUnderWay \/ k = "petition" => PetitionUnderWay'
<1> DEFINE r == Request(i, k)
<1>1. net' = net \cup {r} /\ sendqueue' = [sendqueue EXCEPT ![i] = "sent"]
      /\ \A m \in net : m.id # i
  BY DEF Send, Free
<1>2. r.id = i /\ r.type = "request" /\ r.kind = k
  BY DEF Request
<1> HIDE DEF r
<1>3. \A m \in net' : sendqueue'[m.id] # "none"
  BY <1>1, <1>2, MessageTyped DEF OneMessageEach, TypeOK
<1> QED BY <1>1, <1>2, <1>3 DEF OneMessageEach, PetitionUnderWay

\* Every response has its handler called, and what leaves the thread without
\* consent sends a petition or ends it.
LEMMA HandleKeepsOneEach ==
  ASSUME Reliable, TypeOK, OneMessageEach, NEW m \in net, m.type # "request", Receive(m)
  PROVE  OneMessageEach' /\ (AwaitsConsent' => PetitionUnderWay')
<1>1. m.type = "piggybacked" /\ Matches(m) /\ m.id \in Ids
  BY MessageTyped DEF OneMessageEach, Matches
<1>2. Handle(m)
  BY <1>1 DEF Receive, EmptyAck, Unmatched
<1> DEFINE s == StateAfter(m.verdict)
           n == net \ {m}
<1>3. LeftInNet(m) = {n}
  BY DEF LeftInNet, Reliable
<1>4. \A o \in n : /\ o.id \in Ids /\ o.id # m.id /\ o.type \in {"request", "piggybacked"}
                   /\ sendqueue[o.id] # "none"
  BY MessageTyped DEF OneMessageEach
<1> HIDE DEF n
<1>5. n \subseteq net
  BY DEF n
<1>6. CASE Retries(s) /\ RetryBudget
  <2>1. PICK i \in Free(n) : /\ net' = n \cup {Request(i, "petition")}
                             /\ sendqueue' = [Dequeued(m.id) EXCEPT ![i] = "sent"]
    BY <1>2, <1>3, <1>6 DEF Handle
  <2> DEFINE r == Request(i, "petition")
  <2>2. r.id = i /\ r.type = "request" /\ r.kind = "petition" /\ i \in Ids /\ \A o \in n : o.id # i
    BY DEF Request, Free
  <2>3. sendqueue' = [[sendqueue EXCEPT ![m.id] = "none"] EXCEPT ![i] = "sent"]
    BY <2>1 DEF Dequeued
  <2> HIDE DEF r
  <2>4. \A o \in net' : o.type \in {"request", "piggybacked"} /\ sendqueue'[o.id] # "none"
    BY <1>1, <1>4, <2>1, <2>2, <2>3 DEF TypeOK, r
  <2>5. \A o, p \in net' : o.id = p.id => o = p
    BY <1>5, <2>1, <2>2 DEF OneMessageEach, r
  <2>6. PetitionUnderWay'
    BY <2>1, <2>2 DEF PetitionUnderWay, r
  <2> QED BY <2>4, <2>5, <2>6 DEF OneMessageEach
<1>7. CASE ~(Retries(s) /\ RetryBudget)
  <2>1. /\ net' = n /\ sendqueue' = Dequeued(m.id)
        /\ mCommissionState' = IF Retries(s) THEN "invalid" ELSE s
    BY <1>2, <1>3, <1>7 DEF Handle
  <2>2. mCommissionState' \notin {"connected", "rejected"}
    BY <2>1 DEF Retries
  <2>3. \A o \in net' : sendqueue'[o.id] # "none"
    BY <1>1, <1>4, <2>1 DEF Dequeued, TypeOK
  <2> QED BY <1>4, <1>5, <2>1, <2>2, <2>3 DEF OneMessageEach, AwaitsConsent
<1> QED BY <1>6, <1>7

LEMMA AnswerKeepsOneEach ==
  ASSUME Reliable, TypeOK, OneMessageEach, NEW i \in Ids, Answer(i)
  PROVE  OneMessageEach' /\ (PetitionUnderWay => PetitionUnderWay')
<1>1. PICK r \in net : r.id = i /\ r.type = "request" /\ (Grant(r) \/ Refuse(r) \/ Judge(r))
  BY DEF Answer
<1>2. \E v, s : net' = (net \ {r}) \cup {Piggybacked(r, v, s)}
  BY <1>1 DEF Grant, Refuse, Judge, Reply, Reliable
<1>3. PICK v, s : net' = (net \ {r}) \cup {Piggybacked(r, v, s)}
  BY <1>2
<1> DEFINE a == Piggybacked(r, v, s)
<1>4. a.id = r.id /\ a.type = "piggybacked" /\ a.kind = r.kind
  BY DEF Piggybacked
<1> HIDE DEF a
<1>5. net' = (net \ {r}) \cup {a} /\ sendqueue' = sendqueue
  BY <1>3 DEF Answer, a
<1> QED BY <1>4, <1>5 DEF OneMessageEach, PetitionUnderWay

LEMMA PetitionStep ==
  ASSUME Reliable
  PROVE  PetitionInv /\ [Next]_vars => PetitionInv'
<1> SUFFICES ASSUME PetitionInv, [Next]_vars
             PROVE  OneMessageEach' /\ (AwaitsConsent' => PetitionUnderWay')
  BY TypeStep, BudgetStep, RetiredStep DEF PetitionInv, IndInv, Fresh, Retired
<1>0. TypeOK /\ OneMessageEach /\ (AwaitsConsent => PetitionUnderWay)
  BY DEF PetitionInv, IndInv
<1>1. CASE Handshake
  BY <1>0, <1>1 DEF Handshake, Goto, coapVars, OneMessageEach, AwaitsConsent
<1>2. CASE FirstPetition
  <2>1. PICK i \in Ids : Send(i, "petition", net)
    BY <1>2 DEF FirstPetition
  <2> QED BY <1>0, <2>1, SendKeepsOneEach DEF Kinds
<1>3. CASE CommissionerKeepAlive
  <2>1. PICK i \in Ids : Send(i, "keepAlive", net)
    BY <1>3 DEF CommissionerKeepAlive
  <2>2. AwaitsConsent' => AwaitsConsent
    BY <1>3 DEF CommissionerKeepAlive, Goto, commVars, AwaitsConsent
  <2> QED BY <1>0, <2>1, <2>2, SendKeepsOneEach DEF Kinds
<1>4. CASE CommissionerSet
  <2>1. PICK i \in Ids : Send(i, "set", net)
    BY <1>4 DEF CommissionerSet
  <2>2. AwaitsConsent' => AwaitsConsent
    BY <1>4 DEF CommissionerSet, Goto, commVars, AwaitsConsent
  <2> QED BY <1>0, <2>1, <2>2, SendKeepsOneEach DEF Kinds
<1>5. CASE Ended \/ NothingRead \/ NoKeepAlive \/ NoUpdate \/ StopTest
  BY <1>0, <1>5 DEF Ended, NothingRead, NoKeepAlive, NoUpdate, StopTest, Goto, commVars, coapVars,
       OneMessageEach, AwaitsConsent, PetitionUnderWay
<1>6. CASE \E i \in Ids : ReceiveId(i)
  BY <1>0, <1>6, HandleKeepsOneEach DEF ReceiveId
<1>7. CASE RequestStop \/ UpdateList \/ Tick \/ Expire
  BY <1>0, <1>7 DEF RequestStop, UpdateList, Tick, Expire, commVars, coapVars, OneMessageEach,
       AwaitsConsent, PetitionUnderWay
<1>8. CASE \E i \in Ids : Answer(i)
  <2>1. AwaitsConsent' => AwaitsConsent
    BY <1>8 DEF Answer, commVars, AwaitsConsent
  <2> QED BY <1>0, <1>8, <2>1, AnswerKeepsOneEach
<1>9. CASE UNCHANGED vars
  BY <1>0, <1>9 DEF vars, commVars, coapVars, OneMessageEach, AwaitsConsent, PetitionUnderWay
<1>10. ~Lose
  BY DEF Lose, Reliable
<1> QED BY <1>1, <1>2, <1>3, <1>4, <1>5, <1>6, <1>7, <1>8, <1>9, <1>10 DEF Next, ThreadStep, Done

\* Where nothing is lost and the leader answers in one message, the thread never
\* waits for a consent that nobody was asked for: each of the three handlers that
\* leads away from it petitions again (commissioner.cpp, CommissionerResponseNext).
\* Requests and answers may still overtake each other.
THEOREM ConsentIsSought == ASSUME Reliable PROVE Spec => []StillPetitioning
<1>1. Init => PetitionInv
  BY InitIndInv DEF Init, PetitionInv, OneMessageEach, AwaitsConsent
<1>2. PetitionInv /\ [Next]_vars => PetitionInv'
  BY PetitionStep
<1>3. PetitionInv => StillPetitioning
  BY DEF PetitionInv, OneMessageEach, AwaitsConsent, PetitionUnderWay, StillPetitioning
<1> QED BY <1>1, <1>2, <1>3, PTL DEF Spec
=============================================================================
