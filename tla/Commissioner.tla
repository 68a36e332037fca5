---------------------------- MODULE Commissioner ----------------------------
(***************************************************************************)
(* The Commissioner class (lib/borderrouter/src/commissioner/              *)
(* commissioner.cpp) as the commissioner thread of src/comm.cpp drives it: *)
(* the DTLS handshake, the petition and its retries, COMMISSIONER_SET      *)
(* after a change of the joiner list, and keep-alives; the CoAP requests   *)
(* on their way, and the leader behind the border agent, which is          *)
(* external.  Requests are confirmable, but nothing in the plugin calls    *)
(* coap_retransmit: a lost datagram is not sent again.  DTLS rejects       *)
(* duplicated records, and lets reordered ones pass.                       *)
(*                                                                         *)
(* A request is known by its token and message id, here one member of Ids  *)
(* that no message under way carries.  Joiner sessions are left out.       *)
(***************************************************************************)
EXTENDS Integers, FiniteSets

CONSTANTS MaxRetry,     \* kPetitionMaxRetry
          Rate,         \* mKeepAliveRate, in seconds
          Ids,          \* bound: requests under way at once
          MaxUpdates,   \* bound: changes of the joiner list
          MaxExpiries,  \* bound: sessions the leader gives up
          Lossy,        \* datagrams may be lost
          Separate      \* the leader may answer in a separate response

ASSUME CommissionerAssumption ==
  /\ MaxRetry \in Nat /\ Rate \in Nat
  /\ MaxUpdates \in Nat /\ MaxExpiries \in Nat
  /\ Lossy \in BOOLEAN /\ Separate \in BOOLEAN

VARIABLES
  pc,                      \* the commissioner thread
  stop,                    \* its promise is set
  mCommissionState, mPetitionRetryCount, mCommissionerSessionId,
  age,                     \* seconds since mLastKeepAliveTime, up to Rate + 1
  sendqueue,               \* libcoap's record of each request
  net,                     \* messages under way, both directions
  updated, updates,        \* JoinerList::updated; changes so far
  session, grants, expiries,  \* the leader: current session or 0, counts
  petitions,               \* petitions sent by this Commissioner
  answers                  \* per request: calls of its response handler

commVars   == <<mCommissionState, mPetitionRetryCount, mCommissionerSessionId, petitions>>
leaderVars == <<session, grants, expiries>>
coapVars   == <<sendqueue, net, answers>>
listVars   == <<updated, updates>>
vars == <<pc, stop, commVars, age, coapVars, listVars, leaderVars>>

States   == {"invalid", "connected", "accepted", "rejected"}
Kinds    == {"petition", "set", "keepAlive"}
Sessions == Nat     \* 0: none; 1: one from before our time

Requests  == [id : Ids, type : {"request"}, kind : Kinds, sid : Sessions]
\* What the State TLV says; "none": there is no such TLV.
Verdicts  == {"accept", "reject", "pending", "none"}
Responses == [id : Ids, type : {"piggybacked", "separate"}, kind : Kinds,
              verdict : Verdicts, sid : Sessions]
EmptyAcks == [id : Ids, type : {"empty"}]

TypeOK ==
  /\ pc \in {"handshake", "petition", "select", "keepAlive", "list", "stop", "done"}
  /\ stop \in BOOLEAN
  /\ mCommissionState \in States
  /\ mPetitionRetryCount \in 0 .. MaxRetry
  /\ mCommissionerSessionId \in Sessions
  /\ age \in 0 .. Rate + 1
  /\ sendqueue \in [Ids -> {"none", "sent", "separate"}]
  /\ net \subseteq Requests \cup Responses \cup EmptyAcks
  /\ updated \in BOOLEAN /\ updates \in 0 .. MaxUpdates
  /\ session \in Sessions /\ grants \in Nat /\ expiries \in 0 .. MaxExpiries
  /\ petitions \in Nat
  /\ answers \in [Ids -> Nat]

\* The constructor leaves mCommissionerSessionId and mLastKeepAliveTime
\* uninitialised; the leader may still hold a session of a predecessor.
Init ==
  /\ pc = "handshake" /\ stop = FALSE
  /\ mCommissionState = "invalid"
  /\ mPetitionRetryCount = 0
  /\ mCommissionerSessionId \in {0, 1}
  /\ age \in 0 .. Rate + 1
  /\ sendqueue = [i \in Ids |-> "none"]
  /\ net = {}
  /\ updated \in BOOLEAN /\ updates = 0
  /\ session \in {0, 1} /\ grants = 0 /\ expiries = 0
  /\ petitions = 0
  /\ answers = [i \in Ids |-> 0]

Goto(from, to) == pc = from /\ pc' = to
-----------------------------------------------------------------------------
(* Sending                                                                 *)

Free(n) == {i \in Ids : \A m \in n : m.id # i}

Request(i, k) == [id |-> i, type |-> "request", kind |-> k, sid |-> mCommissionerSessionId]

\* Agent::Send of a confirmable request, when the messages n are under way.
Send(i, k, n) ==
  /\ i \in Free(n)
  /\ net' = n \cup {Request(i, k)}
  /\ sendqueue' = [sendqueue EXCEPT ![i] = "sent"]
  /\ answers' = [answers EXCEPT ![i] = 0]
-----------------------------------------------------------------------------
(* The thread, from CommissionerThread                                     *)

Handshake ==
  /\ \/ Goto("handshake", "petition") /\ mCommissionState' = "connected"
     \/ Goto("handshake", "done") /\ mCommissionState' = "invalid"
     \/ stop /\ Goto("handshake", "done") /\ UNCHANGED mCommissionState
  /\ UNCHANGED <<stop, mPetitionRetryCount, mCommissionerSessionId, petitions, age,
                 coapVars, listVars, leaderVars>>

FirstPetition ==
  /\ Goto("petition", "select")
  /\ \E i \in Ids : Send(i, "petition", net)
  /\ petitions' = petitions + 1
  /\ UNCHANGED <<stop, mCommissionState, mPetitionRetryCount, mCommissionerSessionId,
                 age, listVars, leaderVars>>

\* The loop test, and select.
Ended ==
  /\ mCommissionState = "invalid"
  /\ Goto("select", "done")
  /\ UNCHANGED <<stop, commVars, age, coapVars, listVars, leaderVars>>

\* One second, or a descriptor that is not the agent's.
NothingRead ==
  /\ mCommissionState # "invalid"
  /\ Goto("select", "keepAlive")
  /\ UNCHANGED <<stop, commVars, age, coapVars, listVars, leaderVars>>

\* coap_dispatch of an empty acknowledgement.
EmptyAck(m) ==
  /\ m.type = "empty"
  /\ sendqueue' = [sendqueue EXCEPT ![m.id] = IF @ = "none" THEN "none" ELSE "separate"]
  /\ net' = net \ {m}
  /\ UNCHANGED <<commVars, age, answers>>

\* The request a response is matched with: by message id if it came with the
\* acknowledgement, by token among the acknowledged requests otherwise.
Matches(m) ==
  \/ m.type = "piggybacked" /\ sendqueue[m.id] # "none"
  \/ m.type = "separate" /\ sendqueue[m.id] = "separate"

\* A sender that missed our acknowledgement of a separate response repeats it
\* (in a new DTLS record).
LeftInNet(m) ==
  {net \ {m}} \cup {n \in {net} : Separate /\ m.type = "separate" /\ Free(net) # {}}

\* "request not found!": no handler is called; coap_cancel_all_messages
\* removes the request with this token all the same.
Unmatched(m) ==
  /\ m.type \in {"piggybacked", "separate"} /\ ~Matches(m)
  /\ net' \in LeftInNet(m)
  /\ sendqueue' = [sendqueue EXCEPT ![m.id] = "none"]
  /\ UNCHANGED <<commVars, age, answers>>

StateAfter(verdict) ==
  IF verdict = "accept" THEN "accepted"
  ELSE IF verdict = "reject" THEN "rejected"
  ELSE IF verdict = "pending" THEN "invalid"
  ELSE mCommissionState

\* Mutant of Retries: only the rejected state is retried.
RetriesRejectedOnly(s) == s = "rejected"

\* CommissionerResponseNext, in the state s the response has led to.
Retries(s) == s \in {"connected", "rejected"}

\* Mutant of RetryBudget: one retry too many.
RetryBudgetOffByOne == mPetitionRetryCount <= MaxRetry

RetryBudget == mPetitionRetryCount < MaxRetry

\* Mutant of Dequeued: a response leaves its request in the queue.
DequeuedNever(i) == sendqueue

Dequeued(i) == [sendqueue EXCEPT ![i] = "none"]

\* The handler of each kind of request, then CommissionerResponseNext.  All
\* three set the state, two the time, one the session.
Handle(m) ==
  LET s == StateAfter(m.verdict)
  IN /\ Matches(m)
     /\ age' = IF m.kind = "set" THEN age ELSE 0
     /\ mCommissionerSessionId' =
          IF m.kind = "petition" /\ m.verdict = "accept" THEN m.sid ELSE mCommissionerSessionId
     /\ \E n \in LeftInNet(m) :
          IF Retries(s) /\ RetryBudget
            THEN \E i \in Free(n) :
                   /\ net' = n \cup {Request(i, "petition")}
                   /\ sendqueue' = [Dequeued(m.id) EXCEPT ![i] = "sent"]
                   /\ answers' = [answers EXCEPT ![m.id] = @ + 1, ![i] = 0]
                   /\ mCommissionState' = s
                   /\ mPetitionRetryCount' = mPetitionRetryCount + 1
                   /\ petitions' = petitions + 1
            ELSE /\ net' = n
                 /\ sendqueue' = Dequeued(m.id)
                 /\ answers' = [answers EXCEPT ![m.id] = @ + 1]
                 /\ mCommissionState' = IF Retries(s) THEN "invalid" ELSE s
                 /\ mPetitionRetryCount' = IF Retries(s) THEN 0 ELSE mPetitionRetryCount
                 /\ UNCHANGED petitions

\* mbedtls_ssl_read and Agent::Input of the message m.
Receive(m) ==
  /\ mCommissionState # "invalid"
  /\ Goto("select", "keepAlive")
  /\ EmptyAck(m) \/ Unmatched(m) \/ Handle(m)
  /\ UNCHANGED <<stop, listVars, leaderVars>>

ReceiveId(i) == \E m \in net : m.id = i /\ m.type # "request" /\ Receive(m)

\* Mutant of KeepAliveDue: the time is never looked at.
KeepAliveDueNever == FALSE

KeepAliveDue == mCommissionState = "accepted" /\ Rate > 0 /\ age > Rate

\* The bound Ids delays a request until there is room for it.
Room == Free(net) # {}

CommissionerKeepAlive ==
  /\ KeepAliveDue /\ Room
  /\ Goto("keepAlive", "list")
  /\ \E i \in Ids : Send(i, "keepAlive", net)
  /\ age' = 0
  /\ UNCHANGED <<stop, commVars, listVars, leaderVars>>

NoKeepAlive ==
  /\ ~(KeepAliveDue /\ Room)
  /\ Goto("keepAlive", "list")
  /\ UNCHANGED <<stop, commVars, age, coapVars, listVars, leaderVars>>

\* Whatever the state: the session id may not have been given yet.
CommissionerSet ==
  /\ updated /\ Room
  /\ Goto("list", "stop")
  /\ \E i \in Ids : Send(i, "set", net)
  /\ updated' = FALSE
  /\ UNCHANGED <<stop, commVars, age, updates, leaderVars>>

NoUpdate ==
  /\ ~(updated /\ Room)
  /\ Goto("list", "stop")
  /\ UNCHANGED <<stop, commVars, age, coapVars, listVars, leaderVars>>

StopTest ==
  /\ Goto("stop", IF stop THEN "done" ELSE "select")
  /\ UNCHANGED <<stop, commVars, age, coapVars, listVars, leaderVars>>

ThreadStep ==
  \/ Handshake \/ FirstPetition \/ Ended \/ NothingRead \/ \E i \in Ids : ReceiveId(i)
  \/ CommissionerKeepAlive \/ NoKeepAlive \/ CommissionerSet \/ NoUpdate \/ StopTest
-----------------------------------------------------------------------------
(* The rest of the plugin, time, and the network                           *)

RequestStop ==
  /\ ~stop /\ stop' = TRUE
  /\ UNCHANGED <<pc, commVars, age, coapVars, listVars, leaderVars>>

UpdateList ==
  /\ updates < MaxUpdates
  /\ updates' = updates + 1 /\ updated' = TRUE
  /\ UNCHANGED <<pc, stop, commVars, age, coapVars, leaderVars>>

Tick ==
  /\ age <= Rate
  /\ age' = age + 1
  /\ UNCHANGED <<pc, stop, commVars, coapVars, listVars, leaderVars>>

Lose ==
  /\ Lossy
  /\ \E m \in net : net' = net \ {m}
  /\ UNCHANGED <<pc, stop, commVars, age, sendqueue, answers, listVars, leaderVars>>
-----------------------------------------------------------------------------
(* The leader, external.  It judges petitions as it likes; it accepts a    *)
(* keep-alive or a dataset only from the session it knows.                 *)

Piggybacked(r, v, s) ==
  [id |-> r.id, type |-> "piggybacked", kind |-> r.kind, verdict |-> v, sid |-> s]

\* The empty acknowledgement and the response travel apart.
InTwoMessages(r, v, s) ==
  {[id |-> r.id, type |-> "empty"],
   [id |-> r.id, type |-> "separate", kind |-> r.kind, verdict |-> v, sid |-> s]}

Reply(r, v, s) ==
  \/ net' = (net \ {r}) \cup {Piggybacked(r, v, s)}
  \/ Separate /\ net' = (net \ {r}) \cup InTwoMessages(r, v, s)

Grant(r) ==
  /\ r.kind = "petition"
  /\ session' = grants + 2
  /\ grants' = grants + 1
  /\ Reply(r, "accept", grants + 2)

Refuse(r) ==
  /\ r.kind = "petition"
  /\ \E v \in {"reject", "pending", "none"} : Reply(r, v, 0)
  /\ UNCHANGED <<session, grants>>

Judge(r) ==
  /\ r.kind # "petition"
  /\ Reply(r, IF r.sid = session /\ session # 0 THEN "accept" ELSE "reject", 0)
  /\ UNCHANGED <<session, grants>>

Answer(i) ==
  /\ \E r \in net : r.id = i /\ r.type = "request" /\ (Grant(r) \/ Refuse(r) \/ Judge(r))
  /\ UNCHANGED <<pc, stop, commVars, age, sendqueue, answers, listVars, expiries>>

\* The session times out, or a command of another commissioner ends it.
Expire ==
  /\ session # 0 /\ expiries < MaxExpiries
  /\ session' = 0 /\ expiries' = expiries + 1
  /\ UNCHANGED <<pc, stop, commVars, age, coapVars, listVars, grants>>
-----------------------------------------------------------------------------
Done == pc = "done" /\ UNCHANGED vars

Next ==
  \/ ThreadStep
  \/ RequestStop \/ UpdateList \/ Tick \/ Lose \/ Expire
  \/ \E i \in Ids : Answer(i)
  \/ Done

Spec == Init /\ [][Next]_vars

\* The thread runs, time passes, and a message that is not lost arrives.
FairSpec ==
  /\ Spec
  /\ WF_vars(ThreadStep) /\ WF_vars(Tick)
  /\ \A i \in Ids : WF_vars(Answer(i)) /\ SF_vars(ReceiveId(i))
-----------------------------------------------------------------------------
\* A Commissioner petitions at most 1 + kPetitionMaxRetry times in its life:
\* mPetitionRetryCount counts every further petition whichever of the three
\* handlers sent it, and is reset only on the way out
\* (CommissionerResponseNext, lines 383 to 398).
PetitionBudget ==
  /\ petitions <= MaxRetry + 1
  /\ pc \notin {"handshake", "petition", "done"} /\ mCommissionState # "invalid"
       => petitions = mPetitionRetryCount + 1

\* The handler of a request runs at most once, however its acknowledgement,
\* its response and repetitions of the response are ordered.
AnsweredOnce == \A i \in Ids : answers[i] <= 1

\* What makes the two inductive: before the first petition nothing has been
\* counted, and a request that has been answered is in the queue no more.
IndInv ==
  /\ TypeOK
  /\ pc \in {"handshake", "petition"} => petitions = 0 /\ mPetitionRetryCount = 0
  /\ PetitionBudget
  /\ \A i \in Ids : answers[i] = 0 \/ (answers[i] = 1 /\ sendqueue[i] = "none")

\* While the thread is in select without the leader's consent, a petition or
\* its answer is under way (where nothing is lost or reordered).
StillPetitioning ==
  pc = "select" /\ mCommissionState \in {"connected", "rejected"}
    => \E m \in net : m.type # "empty" /\ m.kind = "petition"

\* Once the leader keeps its sessions, the two agree on the session or the
\* thread ends: a stale session id, an early COMMISSIONER_SET or two petitions
\* under way at once are put right by keep-alives and rejections.
Agrees == mCommissionState = "accepted" /\ mCommissionerSessionId = session
SessionHeals == <>[](pc = "done") \/ []<>Agrees

\* The petition ends: the leader accepts, or the retries are used up.
PetitionEnds ==
  pc = "select" /\ mCommissionState \in {"connected", "rejected"}
    ~> (mCommissionState \in {"accepted", "invalid"} \/ pc = "done")
=============================================================================
