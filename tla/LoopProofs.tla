------------------------------ MODULE LoopProofs ------------------------------
(***************************************************************************)
(* The parts of the programs that stand on their own: the agent's select   *)
(* loop, where nothing waits unseen, the publisher's references, the       *)
(* matching of responses to requests, and the promise of ReturnStatus.     *)
(* For any number of signals, datagrams, services, registrations, paths,   *)
(* requests, threads and values.                                           *)
(***************************************************************************)
EXTENDS StatusRegister, AgentLoop, ServiceRefs, Coap, SequenceTheorems, FiniteSetTheorems, TLAPS

-----------------------------------------------------------------------------
(* AgentLoop                                                               *)

\* What is in a queue has arrived: the counters that bound the model bound them.
Counted == incoming + inqueue <= signals /\ packets + outqueue <= datagrams

\* The watch for writing is enabled while something is left to write, and select
\* is asked for it from the moment the descriptors are collected.
WriteAsked ==
  /\ outqueue > 0 => mWatches["write"]
  /\ at = "select" /\ outqueue > 0 => "write" \in asked

\* The agent's socket is read by nobody between select and AgentProcess.
PacketThere == at \in {"ncp", "dispatch", "agent"} /\ "agent" \in set => packets > 0

\* Dispatch leaves the queue empty, and nothing is queued until the next round.
QueueEmpty ==
  /\ at = "start" => fresh
  /\ at = "agent" => inqueue = 0
  /\ ~fresh /\ at \in {"update", "select"} => inqueue = 0

BusInv == BusTypeOK /\ Counted /\ WriteAsked /\ PacketThere /\ QueueEmpty

LEMMA BusInitHolds == BusInit => BusInv
<1> SUFFICES ASSUME BusInit PROVE BusInv
  OBVIOUS
<1>1. BusTypeOK
  BY AgentLoopAssumption DEF BusInit, BusTypeOK, AddDBusWatch
<1> QED BY <1>1 DEF BusInit, BusInv, Counted, WriteAsked, PacketThere, QueueEmpty

\* The types with the sets of the type invariant spelled out.
BusTypes ==
  /\ at \in {"start", "update", "select", "ncp", "dispatch", "agent", "exit", "undefined"}
  /\ mWatches \in [Watches -> BOOLEAN]
  /\ asked \subseteq Sockets /\ set \subseteq Sockets
  /\ incoming \in Nat /\ inqueue \in Nat /\ signals \in 0 .. MaxSignals
  /\ outqueue \in Nat /\ packets \in Nat /\ datagrams \in 0 .. MaxDatagrams
  /\ bus \in {"reading", "full", "gone"} /\ fresh \in BOOLEAN

LEMMA BusTypesSuffice ==
  /\ BusTypeOK => BusTypes
  /\ BusTypes /\ Counted => BusTypeOK
<1>1. BusTypeOK => BusTypes
  BY AgentLoopAssumption DEF BusTypeOK, BusTypes
<1>2. ASSUME BusTypes, Counted PROVE BusTypeOK
  <2>1. /\ incoming <= signals /\ inqueue <= signals /\ signals <= MaxSignals
        /\ packets <= datagrams /\ outqueue <= datagrams /\ datagrams <= MaxDatagrams
    BY <1>2, AgentLoopAssumption DEF BusTypes, Counted
  <2>2. /\ incoming \in 0 .. MaxSignals /\ inqueue \in 0 .. MaxSignals
        /\ packets \in 0 .. MaxDatagrams /\ outqueue \in 0 .. MaxDatagrams
    BY <1>2, <2>1, AgentLoopAssumption DEF BusTypes
  <2> QED BY <1>2, <2>2 DEF BusTypeOK, BusTypes
<1> QED BY <1>1, <1>2

LEMMA StillWithin ==
  ASSUME NEW a \in Nat, NEW b \in Nat, NEW c \in Nat, NEW d \in Nat, NEW e \in Nat,
         c + d <= a + b, a + b <= e
  PROVE  c + d <= e
OBVIOUS

LEMMA Moved ==
  ASSUME NEW a \in Nat, NEW b \in Nat, NEW c \in Nat, NEW d \in Nat, c + d = a + b
  PROVE  c + d <= a + b
OBVIOUS

LEMMA Fewer ==
  ASSUME NEW a \in Nat, NEW b \in Nat, NEW d \in Nat, NEW e \in Nat, d <= b, a + b <= e
  PROVE  a + d <= e
OBVIOUS

LEMMA OneLess ==
  ASSUME NEW a \in Nat, NEW b \in Nat, NEW c \in Nat, NEW d \in Nat, c + d = a + (b - 1)
  PROVE  c + d <= a + b
OBVIOUS

LEMMA OneOver ==
  ASSUME NEW a \in Nat, NEW b \in Nat, NEW c \in Nat, NEW d \in Nat, NEW e \in Nat,
         a > 0, c = a - 1, d <= b + 1, a + b <= e
  PROVE  c + d <= e
OBVIOUS

\* What a call that waits for its reply queues was in the socket.
LEMMA BlockingMoves ==
  ASSUME BusTypes, NEW queued \in Nat, Blocking(queued)
  PROVE  incoming' \in Nat /\ inqueue' \in Nat /\ incoming' + inqueue' = incoming + queued
BY DEF BusTypes, Blocking

LEMMA ToggleTells ==
  ASSUME mWatches \in [Watches -> BOOLEAN], NEW out \in Nat
  PROVE  /\ ToggleDBusWatch(out) \in [Watches -> BOOLEAN]
         /\ ToggleDBusWatch(out)["write"] = (out > 0)
<1> DEFINE on == out > 0
<1>1. on \in BOOLEAN /\ "write" \in Watches
  BY DEF Watches
<1>2. ToggleDBusWatch(out) = [mWatches EXCEPT !["write"] = on]
  BY DEF ToggleDBusWatch
<1> HIDE DEF on
<1>3. /\ ToggleDBusWatch(out) \in [Watches -> BOOLEAN]
      /\ ToggleDBusWatch(out)["write"] = on
  BY <1>1, <1>2
<1> QED BY <1>3 DEF on

LEMMA SendAsksToWrite ==
  ASSUME BusTypes, outqueue > 0 => mWatches["write"], UdpProxySend
  PROVE  /\ outqueue' \in Nat /\ outqueue' <= outqueue + 1
         /\ mWatches' \in [Watches -> BOOLEAN]
         /\ outqueue' > 0 => mWatches'["write"]
<1>1. outqueue' \in Nat /\ outqueue' <= outqueue + 1
  BY DEF BusTypes, UdpProxySend
<1>2. CASE outqueue' = outqueue
  BY <1>1, <1>2 DEF BusTypes, UdpProxySend
<1>3. CASE outqueue' # outqueue
  <2>1. mWatches' = ToggleDBusWatch(outqueue')
    BY <1>3 DEF UdpProxySend
  <2> QED BY <1>1, <2>1, ToggleTells DEF BusTypes
<1> QED BY <1>2, <1>3

LEMMA BusStepKeeps == BusInv /\ [BusNext]_busVars => BusInv'
<1> SUFFICES ASSUME BusInv, [BusNext]_busVars PROVE BusInv'
  OBVIOUS
<1> DEFINE Inv2 == BusTypes /\ Counted /\ WriteAsked /\ PacketThere /\ QueueEmpty
<1>a. Inv2 /\ BusTypes /\ Counted /\ WriteAsked /\ PacketThere /\ QueueEmpty
  BY BusTypesSuffice DEF BusInv
<1>b. Inv2' => BusInv'
  <2>1. BusTypes' /\ Counted' => BusTypeOK'
    BY BusTypesSuffice, PTL
  <2> QED BY <2>1 DEF BusInv
<1>c. /\ signals \in Nat /\ datagrams \in Nat /\ incoming \in Nat /\ inqueue \in Nat
      /\ packets \in Nat /\ outqueue \in Nat
      /\ incoming + inqueue <= signals /\ packets + outqueue <= datagrams
  BY <1>a, AgentLoopAssumption DEF BusTypes, Counted
<1> USE AgentLoopAssumption
<1>1. CASE Started
  <2>1. incoming' \in Nat /\ inqueue' \in Nat /\ incoming' + inqueue' = incoming + inqueue
    BY <1>a, <1>1, BlockingMoves DEF Started, BusTypes
  <2>2. BusTypes'
    BY <1>a, <1>1, <2>1 DEF Started, BusTypes
  <2>3. Counted' /\ WriteAsked' /\ PacketThere' /\ QueueEmpty'
    BY <1>a, <1>1, <2>1 DEF Started, BusTypes, Counted, WriteAsked, PacketThere, QueueEmpty
  <2> QED BY <1>b, <2>2, <2>3
<1>2. CASE UpdateFdSet
  <2>1. BusTypes'
    BY <1>a, <1>2 DEF UpdateFdSet, sourceVars, BusTypes, Sockets, Watches
  <2>2. Counted' /\ WriteAsked' /\ PacketThere' /\ QueueEmpty'
    BY <1>a, <1>2 DEF UpdateFdSet, sourceVars, BusTypes, Counted, WriteAsked, PacketThere, QueueEmpty
  <2> QED BY <1>b, <2>1, <2>2
<1>3. CASE Select
  <2>1. BusTypes'
    BY <1>a, <1>3 DEF Select, Ready, sourceVars, BusTypes
  <2>2. "agent" \in set' => packets > 0
    BY <1>a, <1>3 DEF Select, Ready
  <2>3. Counted' /\ WriteAsked' /\ PacketThere' /\ QueueEmpty'
    BY <1>a, <1>3, <2>2 DEF Select, sourceVars, BusTypes, Counted, WriteAsked, PacketThere, QueueEmpty
  <2> QED BY <1>b, <2>1, <2>3
<1>4. CASE HandleWatches
  <2>1. CASE set \cap {"read", "write", "error"} # {} /\ bus = "gone"
    <3>1. BusTypes'
      BY <1>a, <1>4, <2>1 DEF HandleWatches, BusTypes
    <3>2. Counted' /\ WriteAsked' /\ PacketThere' /\ QueueEmpty'
      BY <1>a, <1>4, <2>1 DEF HandleWatches, Counted, WriteAsked, PacketThere, QueueEmpty
    <3> QED BY <1>b, <3>1, <3>2
  <2>2. CASE ~ (set \cap {"read", "write", "error"} # {} /\ bus = "gone")
    <3>1. at' = "dispatch" /\ packets' = packets /\ set' = set /\ signals' = signals
          /\ datagrams' = datagrams
      BY <1>4, <2>2 DEF HandleWatches
    <3>2. incoming' \in Nat /\ inqueue' \in Nat /\ incoming' + inqueue' = incoming + inqueue
      BY <1>a, <1>4, <2>2 DEF HandleWatches, BusTypes
    <3>3. /\ outqueue' \in Nat /\ outqueue' <= outqueue
          /\ mWatches' \in [Watches -> BOOLEAN] /\ (outqueue' > 0 => mWatches'["write"])
      <4>1. /\ outqueue' = IF "write" \in set /\ bus = "reading" THEN 0 ELSE outqueue
            /\ mWatches' = IF outqueue' # outqueue THEN ToggleDBusWatch(outqueue') ELSE mWatches
        BY <1>4, <2>2 DEF HandleWatches
      <4>2. outqueue' \in Nat /\ outqueue' <= outqueue
        BY <1>a, <4>1 DEF BusTypes
      <4>3. CASE outqueue' = outqueue
        BY <1>a, <4>1, <4>2, <4>3 DEF BusTypes, WriteAsked
      <4>4. CASE outqueue' # outqueue
        BY <1>a, <4>1, <4>2, <4>4, ToggleTells DEF BusTypes
      <4> QED BY <4>2, <4>3, <4>4
    <3>4. BusTypes'
      BY <1>a, <1>4, <2>2, <3>1, <3>2, <3>3 DEF HandleWatches, BusTypes
    <3>5. Counted' /\ WriteAsked' /\ PacketThere' /\ QueueEmpty'
      <4>1. Counted'
        <5>1. incoming' + inqueue' <= incoming + inqueue
          BY <1>c, <3>2, Moved
        <5>2. incoming' + inqueue' <= signals
          BY <1>c, <3>2, <5>1, StillWithin
        <5>3. packets + outqueue' <= datagrams
          BY <1>c, <3>3, Fewer
        <5> QED BY <3>1, <5>2, <5>3 DEF Counted
      <4>2. WriteAsked' /\ QueueEmpty'
        BY <1>a, <3>1, <3>3 DEF WriteAsked, QueueEmpty
      <4>3. PacketThere'
        BY <1>a, <1>4, <3>1 DEF HandleWatches, PacketThere
      <4> QED BY <4>1, <4>2, <4>3
    <3> QED BY <1>b, <3>4, <3>5
  <2> QED BY <2>1, <2>2
<1>5. CASE Dispatch
  <2>1. /\ incoming' \in Nat /\ inqueue' \in Nat /\ incoming' + inqueue' <= incoming + inqueue
        /\ at' \in {"dispatch", "agent", "exit"}
        /\ at' = "agent" => inqueue' = 0
    <3>1. CASE inqueue = 0 /\ at' = "agent" /\ UNCHANGED <<incoming, inqueue>>
      BY <1>a, <3>1 DEF BusTypes
    <3>2. CASE inqueue > 0 /\ UNCHANGED at /\ Blocking(inqueue - 1)
      <4>1. inqueue - 1 \in Nat
        BY <1>a, <3>2 DEF BusTypes
      <4>2. incoming' \in Nat /\ inqueue' \in Nat /\ incoming' + inqueue' = incoming + (inqueue - 1)
        BY <1>a, <3>2, <4>1, BlockingMoves
      <4>3. incoming' + inqueue' <= incoming + inqueue
        BY <1>c, <4>2, OneLess
      <4>4. at' = "dispatch"
        BY <1>5, <3>2 DEF Dispatch
      <4> QED BY <4>2, <4>3, <4>4
    <3>3. CASE inqueue = 0 /\ bus = "gone" /\ at' = "exit" /\ UNCHANGED <<incoming, inqueue>>
      BY <1>a, <3>3 DEF BusTypes
    <3> QED BY <1>5, <3>1, <3>2, <3>3 DEF Dispatch
  <2>2. BusTypes'
    BY <1>a, <1>5, <2>1 DEF Dispatch, BusTypes
  <2>3. Counted'
    <3>1. incoming' + inqueue' <= signals
      BY <1>c, <2>1, StillWithin
    <3> QED BY <1>c, <1>5, <3>1 DEF Dispatch, Counted
  <2>4. WriteAsked' /\ PacketThere' /\ QueueEmpty'
    BY <1>a, <1>5, <2>1 DEF Dispatch, WriteAsked, PacketThere, QueueEmpty
  <2> QED BY <1>b, <2>2, <2>3, <2>4
<1>6. CASE AgentProcess
  <2>1. CASE "agent" \in set
    <3>1. packets > 0 /\ packets' = packets - 1 /\ UdpProxySend
      BY <1>a, <1>6, <2>1 DEF AgentProcess, PacketThere
    <3>2. /\ outqueue' \in Nat /\ outqueue' <= outqueue + 1
          /\ mWatches' \in [Watches -> BOOLEAN] /\ (outqueue' > 0 => mWatches'["write"])
      BY <1>a, <3>1, SendAsksToWrite DEF WriteAsked
    <3>3. BusTypes'
      <4>1. packets' \in Nat
        BY <1>a, <3>1 DEF BusTypes
      <4> QED BY <1>a, <1>6, <3>2, <4>1 DEF AgentProcess, BusTypes
    <3>4. Counted' /\ WriteAsked' /\ PacketThere' /\ QueueEmpty'
      <4>1. Counted'
        <5>1. packets' \in Nat
          BY <1>c, <3>1
        <5>2. packets' + outqueue' <= datagrams
          BY <1>c, <3>1, <3>2, <5>1, OneOver
        <5> QED BY <1>c, <1>6, <5>2 DEF AgentProcess, Counted
      <4>2. WriteAsked' /\ PacketThere' /\ QueueEmpty'
        BY <1>a, <1>6, <3>2 DEF AgentProcess, WriteAsked, PacketThere, QueueEmpty
      <4> QED BY <4>1, <4>2
    <3> QED BY <1>b, <3>3, <3>4
  <2>2. CASE "agent" \notin set
    <3>1. BusTypes'
      BY <1>a, <1>6, <2>2 DEF AgentProcess, BusTypes
    <3>2. Counted' /\ WriteAsked' /\ PacketThere' /\ QueueEmpty'
      BY <1>a, <1>6, <2>2
         DEF AgentProcess, BusTypes, Counted, WriteAsked, PacketThere, QueueEmpty
    <3> QED BY <1>b, <3>1, <3>2
  <2> QED BY <2>1, <2>2
<1>7. CASE Terminate
  <2>1. BusTypes'
    BY <1>a, <1>7 DEF Terminate, sourceVars, BusTypes
  <2>2. Counted' /\ WriteAsked' /\ PacketThere' /\ QueueEmpty'
    BY <1>a, <1>7 DEF Terminate, sourceVars, Counted, WriteAsked, PacketThere, QueueEmpty
  <2> QED BY <1>b, <2>1, <2>2
<1>8. CASE SignalArrives \/ DatagramArrives
  <2>1. BusTypes'
    BY <1>a, <1>8 DEF SignalArrives, DatagramArrives, loopVars, BusTypes
  <2>2. Counted' /\ WriteAsked' /\ PacketThere' /\ QueueEmpty'
    BY <1>a, <1>8 DEF SignalArrives, DatagramArrives, loopVars, BusTypes, Counted, WriteAsked,
         PacketThere, QueueEmpty
  <2> QED BY <1>b, <2>1, <2>2
<1>9. CASE BusFills \/ BusDrains \/ BusDies
  <2>1. BusTypes'
    BY <1>a, <1>9 DEF BusFills, BusDrains, BusDies, Bus, loopVars, BusTypes
  <2>2. Counted' /\ WriteAsked' /\ PacketThere' /\ QueueEmpty'
    BY <1>a, <1>9 DEF BusFills, BusDrains, BusDies, Bus, loopVars, Counted, WriteAsked,
         PacketThere, QueueEmpty
  <2> QED BY <1>b, <2>1, <2>2
<1>10. CASE UNCHANGED busVars
  BY <1>10 DEF busVars, sourceVars, BusInv, BusTypeOK, Counted, WriteAsked, PacketThere, QueueEmpty
<1> QED BY <1>1, <1>2, <1>3, <1>4, <1>5, <1>6, <1>7, <1>8, <1>9, <1>10 DEF BusNext, Loop

\* The agent's loop never sleeps on a signal it has read, nor on a message to write
\* without waiting for the bus (ncp_wpantund.cpp: dispatch until nothing is left;
\* UpdateFdSet: the write watch).
THEOREM NothingUnseen == BusSpec => []NothingWaitsUnseen
<1>1. BusInv => NothingWaitsUnseen
  BY DEF BusInv, WriteAsked, QueueEmpty, NothingWaitsUnseen
<1> QED BY <1>1, BusInitHolds, BusStepKeeps, PTL DEF BusSpec

-----------------------------------------------------------------------------
(* ServiceRefs                                                             *)

\* No reference is in two services, no service is in the vector twice, and the
\* references are those that are live.
OneEach ==
  /\ live = {mServices[i].ref : i \in DOMAIN mServices}
  /\ \A i, j \in DOMAIN mServices :
       i # j => /\ mServices[i].ref # mServices[j].ref
                /\ mServices[i].name # mServices[j].name

\* An answer that has come on a live reference is for the service that has it, and
\* those to be handled in this round have all come, each on a reference of its own.
Answered ==
  /\ \A i \in DOMAIN mServices :
       LET a == reply[mServices[i].ref]
       IN a.kind # "none" => a.name = mServices[i].name
  /\ \A e \in readyServices : Pending(e.ref)
  /\ \A e, f \in readyServices : e # f => e.ref # f.ref

RefsInv ==
  /\ RefsTypeOK
  /\ live \subseteq 1 .. given
  /\ \A r \in Refs : reply[r].kind # "none" => r <= given
  /\ ~renames => failure = "none" /\ OneEach /\ Answered

\* The types, with the vector's elements by name.
Service == [name : Names, ref : Refs]

\* Without(i) takes out one element and moves the later ones up.
LEMMA WithoutProperties ==
  ASSUME mServices \in Seq(Service), NEW i \in DOMAIN mServices
  PROVE  /\ Without(i) \in Seq(Service)
         /\ DOMAIN Without(i) = 1 .. (Len(mServices) - 1)
         /\ \A j \in DOMAIN Without(i) :
              Without(i)[j] = IF j < i THEN mServices[j] ELSE mServices[j + 1]
<1> DEFINE a == SubSeq(mServices, 1, i - 1)
           b == SubSeq(mServices, i + 1, Len(mServices))
<1>1. /\ Len(mServices) \in Nat /\ i \in 1 .. Len(mServices)
      /\ \A j \in 1 .. Len(mServices) : mServices[j] \in Service
  BY ElementOfSeq, LenProperties
<1>2. /\ a \in Seq(Service) /\ Len(a) = i - 1
      /\ \A j \in 1 .. (i - 1) : a[j] = mServices[j]
  BY <1>1, SubSeqProperties
<1>3. /\ b \in Seq(Service) /\ Len(b) = Len(mServices) - i
      /\ \A j \in 1 .. (Len(mServices) - i) : b[j] = mServices[i + j]
  <2>1. \A j \in (i + 1) .. Len(mServices) : mServices[j] \in Service
    BY <1>1
  <2> QED BY <1>1, <2>1, SubSeqProperties
<1>4. Without(i) = a \o b
  BY DEF Without
<1> HIDE DEF a, b
<1>5. /\ a \o b \in Seq(Service) /\ Len(a \o b) = Len(mServices) - 1
      /\ \A j \in 1 .. (Len(mServices) - 1) :
           (a \o b)[j] = IF j <= i - 1 THEN a[j] ELSE b[j - (i - 1)]
  <2>1. Len(a) + Len(b) = Len(mServices) - 1
    BY <1>1, <1>2, <1>3
  <2>2. /\ a \o b \in Seq(Service) /\ Len(a \o b) = Len(a) + Len(b)
        /\ \A j \in 1 .. (Len(a) + Len(b)) :
             (a \o b)[j] = IF j <= Len(a) THEN a[j] ELSE b[j - Len(a)]
    BY <1>2, <1>3, ConcatProperties
  <2>3. Len(a) = i - 1
    BY <1>2
  <2> QED BY <2>1, <2>2, <2>3
<1>6. ASSUME NEW j \in 1 .. (Len(mServices) - 1)
      PROVE  (a \o b)[j] = IF j < i THEN mServices[j] ELSE mServices[j + 1]
  <2>1. CASE j < i
    BY <1>1, <1>2, <1>5, <2>1
  <2>2. CASE ~(j < i)
    <3>1. j - (i - 1) \in 1 .. (Len(mServices) - i) /\ i + (j - (i - 1)) = j + 1
      BY <1>1, <2>2
    <3>2. (a \o b)[j] = b[j - (i - 1)]
      <4>1. ~(j <= i - 1)
        BY <1>1, <2>2
      <4> QED BY <1>5, <4>1
    <3> QED BY <1>3, <2>2, <3>1, <3>2
  <2> QED BY <2>1, <2>2
<1>7. DOMAIN (a \o b) = 1 .. (Len(mServices) - 1)
  BY <1>5, LenProperties
<1> QED BY <1>4, <1>5, <1>6, <1>7

\* So the others are those that are left.
LEMMA OthersAreLeft ==
  ASSUME mServices \in Seq(Service), NEW i \in DOMAIN mServices
  PROVE  \E place \in [DOMAIN Without(i) -> DOMAIN mServices \ {i}] :
           /\ \A j \in DOMAIN Without(i) : Without(i)[j] = mServices[place[j]]
           /\ \A j, k \in DOMAIN Without(i) : j # k => place[j] # place[k]
           /\ \A k \in DOMAIN mServices \ {i} : \E j \in DOMAIN Without(i) : place[j] = k
<1> DEFINE D == DOMAIN Without(i)
           place == [j \in D |-> IF j < i THEN j ELSE j + 1]
<1>1. D = 1 .. (Len(mServices) - 1) /\ DOMAIN mServices = 1 .. Len(mServices) /\ Len(mServices) \in Nat
  BY WithoutProperties, LenProperties
<1>2. \A j \in D : Without(i)[j] = IF j < i THEN mServices[j] ELSE mServices[j + 1]
  BY WithoutProperties
<1> HIDE DEF D
<1>3. place \in [D -> DOMAIN mServices \ {i}]
  BY <1>1
<1>4. \A j \in D : Without(i)[j] = mServices[place[j]]
  BY <1>2
<1>5. \A j, k \in D : j # k => place[j] # place[k]
  BY <1>1
<1>6. ASSUME NEW k \in DOMAIN mServices \ {i}
      PROVE  \E j \in D : place[j] = k
  <2>1. CASE k < i
    <3>1. k \in D
      BY <1>1, <2>1
    <3>2. place[k] = k
      BY <2>1, <3>1
    <3> QED BY <3>1, <3>2
  <2>2. CASE ~(k < i)
    <3>1. k - 1 \in D /\ ~(k - 1 < i) /\ (k - 1) + 1 = k
      BY <1>1, <2>2
    <3>2. place[k - 1] = k
      BY <3>1
    <3> QED BY <3>1, <3>2
  <2> QED BY <2>1, <2>2
<1> HIDE DEF place
<1> QED BY <1>3, <1>4, <1>5, <1>6 DEF D

LEMMA AppendedLast ==
  ASSUME mServices \in Seq(Service), NEW s \in Service
  PROVE  /\ Append(mServices, s) \in Seq(Service)
         /\ DOMAIN Append(mServices, s) = DOMAIN mServices \cup {Len(mServices) + 1}
         /\ Len(mServices) + 1 \notin DOMAIN mServices
         /\ \A j \in DOMAIN mServices : Append(mServices, s)[j] = mServices[j]
         /\ Append(mServices, s)[Len(mServices) + 1] = s
<1>1. /\ Append(mServices, s) \in Seq(Service)
      /\ Len(Append(mServices, s)) = Len(mServices) + 1
      /\ \A j \in 1 .. Len(mServices) : Append(mServices, s)[j] = mServices[j]
      /\ Append(mServices, s)[Len(mServices) + 1] = s
  BY AppendProperties
<1>2. /\ DOMAIN Append(mServices, s) = 1 .. Len(mServices) + 1
      /\ DOMAIN mServices = 1 .. Len(mServices) /\ Len(mServices) \in Nat
  BY <1>1, LenProperties
<1>3. 1 .. Len(mServices) + 1 = (1 .. Len(mServices)) \cup {Len(mServices) + 1}
  BY <1>2
<1> QED BY <1>1, <1>2, <1>3

LEMMA RefsTypesService ==
  RefsTypeOK <=> /\ mState \in {"idle", "ready"}
                 /\ mServices \in Seq(Service)
                 /\ live \subseteq Refs /\ given \in 0 .. MaxRefs
                 /\ reply \in [Refs -> Replies \cup {Silent}]
                 /\ readyServices \subseteq [place : Nat, ref : Refs]
                 /\ renames \in BOOLEAN /\ failure \in {"none", "assert", "undefined"}
BY DEF RefsTypeOK, Service

LEMMA FoundByName ==
  ASSUME NEW s, Named(s)
  PROVE  IndexOf(s) \in DOMAIN mServices /\ mServices[IndexOf(s)].name = s
BY DEF Named, IndexOf

\* Nothing of the vector changes.
LEMMA SameServices ==
  ASSUME OneEach, UNCHANGED <<mServices, live>>
  PROVE  OneEach'
BY DEF OneEach

\* A service is added under a new name, with a new reference.
LEMMA AddKeepsOneEach ==
  ASSUME mServices \in Seq(Service), OneEach, NEW s \in Names, NEW r \in Refs, r \notin live, ~Named(s),
         mServices' = Append(mServices, [name |-> s, ref |-> r]), live' = live \cup {r}
  PROVE  OneEach' /\ mServices' \in Seq(Service)
<1> DEFINE e == [name |-> s, ref |-> r]
           l == Len(mServices) + 1
<1>1. e \in Service /\ e.name = s /\ e.ref = r
  BY DEF Service
<1>2. /\ mServices' \in Seq(Service)
      /\ DOMAIN mServices' = DOMAIN mServices \cup {l} /\ l \notin DOMAIN mServices
      /\ \A j \in DOMAIN mServices : mServices'[j] = mServices[j]
      /\ mServices'[l] = e
  BY <1>1, AppendedLast
<1> HIDE DEF e, l
<1>3. \A j \in DOMAIN mServices : mServices[j].ref # r /\ mServices[j].name # s
  BY DEF OneEach, Named
<1>4. live' = {mServices'[i].ref : i \in DOMAIN mServices'}
  BY <1>1, <1>2 DEF OneEach
<1>5. ASSUME NEW i \in DOMAIN mServices', NEW j \in DOMAIN mServices', i # j
      PROVE  mServices'[i].ref # mServices'[j].ref /\ mServices'[i].name # mServices'[j].name
  <2>1. CASE i # l /\ j # l
    BY <1>2, <1>5, <2>1 DEF OneEach
  <2>2. CASE i = l
    BY <1>1, <1>2, <1>3, <1>5, <2>2
  <2>3. CASE j = l
    BY <1>1, <1>2, <1>3, <1>5, <2>3
  <2> QED BY <2>1, <2>2, <2>3
<1> QED BY <1>2, <1>4, <1>5 DEF OneEach

\* A service is taken out and its reference given back.
LEMMA RemoveKeepsOneEach ==
  ASSUME mServices \in Seq(Service), OneEach, NEW i \in DOMAIN mServices,
         mServices' = Without(i), live' = live \ {mServices[i].ref}
  PROVE  OneEach' /\ mServices' \in Seq(Service)
<1>1. PICK place \in [DOMAIN mServices' -> DOMAIN mServices \ {i}] :
           /\ \A j \in DOMAIN mServices' : mServices'[j] = mServices[place[j]]
           /\ \A j, k \in DOMAIN mServices' : j # k => place[j] # place[k]
           /\ \A k \in DOMAIN mServices \ {i} : \E j \in DOMAIN mServices' : place[j] = k
  BY OthersAreLeft
<1>2. live' = {mServices'[j].ref : j \in DOMAIN mServices'}
  <2>1. live' = {mServices[k].ref : k \in DOMAIN mServices \ {i}}
    BY DEF OneEach
  <2> QED BY <1>1, <2>1
<1>3. \A j, k \in DOMAIN mServices' : j # k =>
        mServices'[j].ref # mServices'[k].ref /\ mServices'[j].name # mServices'[k].name
  BY <1>1 DEF OneEach
<1> QED BY <1>2, <1>3, WithoutProperties DEF OneEach

LEMMA RefsInitHolds == RefsInit => RefsInv
<1> SUFFICES ASSUME RefsInit PROVE RefsInv
  OBVIOUS
<1>1. mServices = <<>> /\ <<>> \in Seq(Service) /\ DOMAIN mServices = {}
  BY EmptySeq, LenProperties DEF RefsInit
<1>2. RefsTypeOK
  <2>1. live \subseteq Refs /\ given \in 0 .. MaxRefs
    BY ServiceRefsAssumption DEF RefsInit
  <2>2. reply \in [Refs -> Replies \cup {Silent}]
    BY DEF RefsInit
  <2> QED BY <1>1, <2>1, <2>2, RefsTypesService DEF RefsInit
<1> QED BY <1>1, <1>2 DEF RefsInit, RefsInv, OneEach, Answered, Silent

LEMMA RefsTypesNext ==
  /\ mState' \in {"idle", "ready"}
  /\ mServices' \in Seq(Service)
  /\ live' \subseteq Refs /\ given' \in 0 .. MaxRefs
  /\ reply' \in [Refs -> Replies \cup {Silent}]
  /\ readyServices' \subseteq [place : Nat, ref : Refs]
  /\ renames' \in BOOLEAN /\ failure' \in {"none", "assert", "undefined"}
  => RefsTypeOK'
BY DEF RefsTypeOK, Service

\* What is recorded of a new registration.
LEMMA RecordNew ==
  ASSUME NEW s, NEW r, ~Named(s), RecordService(s, r)
  PROVE  mServices' = Append(mServices, [name |-> s, ref |-> r]) /\ failure' = failure
BY DEF RecordService

LEMMA PublishKeeps ==
  ASSUME RefsInv, NEW s \in Services, PublishService(s)
  PROVE  RefsInv'
<1> USE ServiceRefsAssumption
<1>0. /\ UNCHANGED <<mState, reply, readyServices, renames>>
      /\ failure = "none" /\ readyServices = {}
  BY DEF PublishService, Idle
<1>1. CASE Named(s) /\ UNCHANGED <<mServices, live, given, failure>>
  BY <1>0, <1>1 DEF RefsInv, RefsTypeOK, OneEach, Answered, Pending
<1>2. CASE /\ ~Named(s) /\ given < MaxRefs
           /\ given' = given + 1 /\ live' = live \cup {given'}
           /\ RecordService(s, given')
  <2> DEFINE r == given + 1
             e == [name |-> s, ref |-> r]
  <2>1. /\ given' = r /\ r \in Refs /\ r \in 0 .. MaxRefs /\ r \notin live
        /\ live' \subseteq 1 .. r /\ s \in Names
        /\ reply[r].kind = "none" /\ \A q \in Refs : q <= given => q <= r
    <3>1. /\ given \in 0 .. MaxRefs /\ live \subseteq 1 .. given
          /\ \A q \in Refs : reply[q].kind # "none" => q <= given
      BY RefsTypesService DEF RefsInv
    <3>2. given' = r /\ live' = live \cup {r} /\ r \in 1 .. MaxRefs
      BY <1>2, <3>1
    <3>3. r \notin 1 .. given /\ ~(r <= given) /\ live \cup {r} \subseteq 1 .. r
      <4>1. r \notin 1 .. given /\ ~(r <= given) /\ r \in 1 .. r /\ 1 .. given \subseteq 1 .. r
        BY <3>1
      <4> QED BY <3>1, <4>1
    <3> QED BY <3>1, <3>2, <3>3 DEF Refs, Names
  <2>2. mServices' = Append(mServices, e) /\ failure' = failure
    BY <1>2, <2>1, RecordNew
  <2>3. mServices \in Seq(Service) /\ e \in Service /\ e.ref = r
    BY <2>1, RefsTypesService DEF RefsInv, Service
  <2>4. /\ mServices' \in Seq(Service)
        /\ DOMAIN mServices' = DOMAIN mServices \cup {Len(mServices) + 1}
        /\ \A j \in DOMAIN mServices : mServices'[j] = mServices[j]
        /\ mServices'[Len(mServices) + 1] = e
    BY <2>2, <2>3, AppendedLast
  <2>5. live' \subseteq Refs /\ live' = live \cup {r} /\ RefsTypeOK
    BY <1>2, <2>1 DEF RefsInv, RefsTypeOK
  <2> HIDE DEF r
  <2>6. RefsTypeOK'
    BY <1>0, <2>1, <2>2, <2>4, <2>5, RefsTypesService, RefsTypesNext DEF r
  <2>7. ASSUME ~renames
        PROVE  OneEach'
    <3>1. OneEach
      BY <2>7 DEF RefsInv
    <3> QED BY <1>2, <2>1, <2>2, <2>3, <2>5, <3>1, AddKeepsOneEach
  <2>8. ASSUME ~renames
        PROVE  Answered'
    <3>1. Answered
      BY <2>8 DEF RefsInv
    <3> HIDE DEF e
    <3>2. \A i \in DOMAIN mServices' :
            reply[mServices'[i].ref].kind # "none" => reply[mServices'[i].ref].name = mServices'[i].name
      BY <2>1, <2>3, <2>4, <3>1 DEF Answered
    <3> QED BY <1>0, <3>2 DEF Answered
  <2>9. \A q \in Refs : reply'[q].kind # "none" => q <= given'
    BY <1>0, <2>1 DEF RefsInv, r
  <2> QED BY <1>0, <2>1, <2>2, <2>6, <2>7, <2>8, <2>9 DEF RefsInv, r
<1> QED BY <1>1, <1>2 DEF PublishService

\* Stop gives back the references of all services; none is in two of them.
LEMMA StopKeeps ==
  ASSUME RefsInv, Stop
  PROVE  RefsInv'
<1>1. /\ mServices' = <<>> /\ <<>> \in Seq(Service) /\ DOMAIN mServices' = {}
      /\ readyServices' = {} /\ readyServices = {} /\ failure = "none"
      /\ live' = live \ {mServices[i].ref : i \in DOMAIN mServices}
      /\ UNCHANGED <<mState, given, reply, renames>>
  BY EmptySeq, LenProperties DEF Stop, Idle, Deallocate
<1>2. failure' \in {"none", "undefined"}
  BY <1>1 DEF Stop
<1>3. RefsTypeOK'
  BY <1>1, <1>2, RefsTypesService, RefsTypesNext DEF RefsInv
<1>4. ASSUME ~renames
      PROVE  failure' = "none" /\ OneEach' /\ Answered'
  <2>1. OneEach
    BY <1>4 DEF RefsInv
  <2>2. failure' = "none"
    BY <1>1, <2>1 DEF Stop, OneEach
  <2>3. live' = {}
    BY <1>1, <2>1 DEF OneEach
  <2> QED BY <1>1, <2>2, <2>3 DEF OneEach, Answered
<1> QED BY <1>1, <1>3, <1>4 DEF RefsInv

\* Each socket asked for is that of a live reference; all that answered are noted.
LEMMA PollKeeps ==
  ASSUME RefsInv, Poll
  PROVE  RefsInv'
<1>1. /\ UNCHANGED <<mState, mServices, live, given, reply, renames>>
      /\ failure = "none" /\ readyServices = {}
  BY DEF Poll, Idle
<1>2. CASE \E i \in DOMAIN mServices : mServices[i].ref \notin live
  <2>1. failure' = "undefined" /\ readyServices' = readyServices /\ ~OneEach
    BY <1>2 DEF Poll, OneEach
  <2> QED BY <1>1, <2>1 DEF RefsInv, RefsTypeOK
<1>3. CASE \A i \in DOMAIN mServices : mServices[i].ref \in live
  <2> DEFINE P == {k \in DOMAIN mServices : Pending(mServices[k].ref)}
  <2>1. failure' = failure /\ readyServices' = {[place |-> i, ref |-> mServices[i].ref] : i \in P}
    BY <1>3 DEF Poll
  <2>2. \A i \in DOMAIN mServices : i \in Nat /\ mServices[i].ref \in Refs
    <3>1. mServices \in Seq(Service)
      BY RefsTypesService DEF RefsInv
    <3>2. \A i \in DOMAIN mServices : i \in Nat /\ mServices[i] \in Service
      BY <3>1, LenProperties, ElementOfSeq
    <3> QED BY <3>2 DEF Service
  <2>3. RefsTypeOK'
    BY <1>1, <2>1, <2>2, RefsTypesService, RefsTypesNext DEF RefsInv
  <2>4. ASSUME ~renames
        PROVE  Answered'
    <3>1. OneEach /\ Answered
      BY <2>4 DEF RefsInv
    <3>2. \A e \in readyServices' : Pending(e.ref)
      BY <2>1
    <3>3. \A e, f \in readyServices' : e # f => e.ref # f.ref
      BY <2>1, <3>1 DEF OneEach
    <3> QED BY <1>1, <3>1, <3>2, <3>3 DEF Answered, Pending
  <2> QED BY <1>1, <2>1, <2>3, <2>4 DEF RefsInv, OneEach
<1> QED BY <1>2, <1>3

LEMMA ReplyKeeps ==
  ASSUME RefsInv, Reply
  PROVE  RefsInv'
<1>1. /\ UNCHANGED <<mState, mServices, live, given, readyServices, failure>>
      /\ failure = "none"
  BY DEF Reply
<1>2. PICK i \in DOMAIN mServices, kind \in {"add", "remove", "error"}, rename \in BOOLEAN :
        LET r == mServices[i].ref
        IN /\ r \in live /\ ~Pending(r)
           /\ reply' = [reply EXCEPT ![r] =
                          [name |-> IF rename THEN Renamed ELSE mServices[i].name, kind |-> kind]]
           /\ renames' = (renames \/ rename)
  BY DEF Reply
<1> DEFINE r == mServices[i].ref
           a == [name |-> IF rename THEN Renamed ELSE mServices[i].name, kind |-> kind]
<1>3. mServices[i].name \in Names /\ r \in Refs
  <2>1. mServices \in Seq(Service)
    BY RefsTypesService DEF RefsInv
  <2>2. mServices[i] \in Service
    BY <2>1, LenProperties, ElementOfSeq
  <2> QED BY <2>2 DEF Service
<1>4. a \in Replies /\ a.kind = kind /\ kind # "none" /\ (~rename => a.name = mServices[i].name)
  BY <1>3 DEF Replies, Names
<1>5. r \in live /\ ~Pending(r) /\ reply' = [reply EXCEPT ![r] = a] /\ renames' = (renames \/ rename)
  BY <1>2
<1>6. reply \in [Refs -> Replies \cup {Silent}] /\ renames \in BOOLEAN
  BY RefsTypesService DEF RefsInv
<1> HIDE DEF a, r
<1>7. reply' \in [Refs -> Replies \cup {Silent}] /\ reply'[r] = a
      /\ \A q \in Refs \ {r} : reply'[q] = reply[q]
  BY <1>3, <1>4, <1>5, <1>6
<1>8. RefsTypeOK'
  BY <1>1, <1>5, <1>6, <1>7, RefsTypesService, RefsTypesNext DEF RefsInv
<1>9. \A q \in Refs : reply'[q].kind # "none" => q <= given
  <2>1. r <= given /\ \A q \in live : q <= given
    BY <1>5, RefsTypesService DEF RefsInv
  <2> QED BY <1>7, <2>1 DEF RefsInv
<1>10. ASSUME ~renames'
       PROVE  failure = "none" /\ OneEach' /\ Answered'
  <2>1. ~renames /\ ~rename /\ OneEach /\ Answered
    BY <1>5, <1>10 DEF RefsInv
  <2>2. \A k \in DOMAIN mServices : mServices[k].ref \in Refs /\ (mServices[k].ref = r => k = i)
    <3>1. \A k \in DOMAIN mServices : mServices[k].ref \in live
      BY <2>1 DEF OneEach
    <3>2. live \subseteq Refs
      BY RefsTypesService DEF RefsInv
    <3> QED BY <2>1, <3>1, <3>2 DEF OneEach, r
  <2>3. \A k \in DOMAIN mServices :
          reply'[mServices[k].ref].kind # "none" => reply'[mServices[k].ref].name = mServices[k].name
    <3> TAKE k \in DOMAIN mServices
    <3>1. CASE k = i
      BY <1>4, <1>7, <2>1, <3>1 DEF r
    <3>2. CASE k # i
      BY <1>7, <2>1, <2>2, <3>2 DEF Answered
    <3> QED BY <3>1, <3>2
  <2>4. \A e \in readyServices : e.ref # r /\ e.ref \in live /\ e.ref \in Refs /\ reply[e.ref].kind # "none"
    <3>1. \A e \in readyServices : e.ref \in Refs
      BY RefsTypesService DEF RefsInv
    <3> QED BY <1>5, <2>1, <3>1 DEF Answered, Pending
  <2>5. \A e \in readyServices : Pending(e.ref)'
    BY <1>1, <1>7, <2>4 DEF Pending
  <2> QED BY <1>1, <2>1, <2>3, <2>5 DEF OneEach, Answered
<1> QED BY <1>1, <1>8, <1>9, <1>10 DEF RefsInv

\* An answer on the reference of service i names it, so it is the one that is found.
LEMMA FoundIsAnswered ==
  ASSUME OneEach, NEW i \in DOMAIN mServices
  PROVE  Named(mServices[i].name) /\ IndexOf(mServices[i].name) = i
<1>1. Named(mServices[i].name)
  BY DEF Named
<1>2. /\ IndexOf(mServices[i].name) \in DOMAIN mServices
      /\ mServices[IndexOf(mServices[i].name)].name = mServices[i].name
  BY <1>1, FoundByName
<1> QED BY <1>1, <1>2 DEF OneEach

\* Whatever is answered, what the handler leaves is of the right type.
LEMMA HandledTypes ==
  ASSUME RefsInv, NEW r \in live, r \in Refs, reply[r] \in Replies,
         failure = "none", HandleServiceRegisterResult(r)
  PROVE  /\ mServices' \in Seq(Service) /\ live' \subseteq live
         /\ failure' \in {"none", "assert", "undefined"}
<1> DEFINE name == reply[r].name
           e == [name |-> name, ref |-> r]
<1>1. mServices \in Seq(Service) /\ name \in Names /\ e \in Service
  BY RefsTypesService DEF RefsInv, Replies, Service
<1> HIDE DEF e
<1>2. CASE reply[r].kind = "add"
  <2>1. live' = live
    BY <1>2 DEF HandleServiceRegisterResult
  <2>2. mServices' \in {mServices, Append(mServices, e)} /\ failure' \in {failure, "assert"}
    BY <1>2 DEF HandleServiceRegisterResult, RecordService, e
  <2>3. Append(mServices, e) \in Seq(Service)
    BY <1>1, AppendProperties
  <2> QED BY <1>1, <2>1, <2>2, <2>3
<1>3. CASE reply[r].kind # "add"
  <2>1. CASE Named(name) /\ mServices[IndexOf(name)].ref = r
    <3>1. mServices' = Without(IndexOf(name)) /\ live' = live \ {r} /\ failure' = failure
      BY <1>3, <2>1 DEF HandleServiceRegisterResult, DiscardService, Deallocate
    <3>2. IndexOf(name) \in DOMAIN mServices
      BY <2>1, FoundByName
    <3> QED BY <1>1, <3>1, <3>2, WithoutProperties
  <2>2. CASE ~(Named(name) /\ mServices[IndexOf(name)].ref = r)
    BY <1>1, <1>3, <2>2 DEF HandleServiceRegisterResult, DiscardService
  <2> QED BY <2>1, <2>2
<1> QED BY <1>2, <1>3

\* An answer on one's own name is either already recorded or discards the service.
LEMMA HandledKeeps ==
  ASSUME RefsInv, ~renames, NEW r \in live, reply[r].kind # "none", failure = "none",
         HandleServiceRegisterResult(r)
  PROVE  /\ failure' = "none" /\ OneEach'
         /\ live' \in {live, live \ {r}}
         /\ \A j \in DOMAIN mServices' :
              /\ mServices'[j].ref \in live
              /\ \E k \in DOMAIN mServices : mServices'[j] = mServices[k]
<1>1. OneEach /\ Answered /\ mServices \in Seq(Service)
  BY RefsTypesService DEF RefsInv
<1>2. PICK i \in DOMAIN mServices : mServices[i].ref = r
  BY <1>1 DEF OneEach
<1>3. reply[r].name = mServices[i].name
  BY <1>1, <1>2 DEF Answered
<1>4. Named(reply[r].name) /\ IndexOf(reply[r].name) = i
  BY <1>1, <1>3, FoundIsAnswered
<1>5. CASE reply[r].kind = "add"
  <2>1. UNCHANGED <<mServices, live>> /\ failure' = failure
    BY <1>2, <1>4, <1>5 DEF HandleServiceRegisterResult, RecordService
  <2>2. OneEach'
    BY <1>1, <2>1, SameServices
  <2> QED BY <1>1, <2>1, <2>2 DEF OneEach
<1>6. CASE reply[r].kind # "add"
  <2>1. mServices' = Without(i) /\ live' = live \ {r} /\ failure' = failure
    BY <1>2, <1>4, <1>6 DEF HandleServiceRegisterResult, DiscardService, Deallocate
  <2>2. OneEach'
    BY <1>1, <1>2, <2>1, RemoveKeepsOneEach
  <2>3. PICK place \in [DOMAIN mServices' -> DOMAIN mServices \ {i}] :
          \A j \in DOMAIN mServices' : mServices'[j] = mServices[place[j]]
    BY <1>1, <2>1, OthersAreLeft
  <2>4. \A j \in DOMAIN mServices' :
          place[j] \in DOMAIN mServices /\ mServices'[j] = mServices[place[j]] /\ place[j] # i
    BY <2>3
  <2>5. \A j \in DOMAIN mServices' : mServices'[j].ref \in live
    BY <1>1, <2>4 DEF OneEach
  <2> QED BY <2>1, <2>2, <2>4, <2>5
<1> QED BY <1>5, <1>6

LEMMA ProcessKeeps ==
  ASSUME RefsInv, Process
  PROVE  RefsInv'
<1>1. UNCHANGED <<mState, given, renames>> /\ failure = "none"
  BY DEF Process
<1>2. PICK next \in readyServices :
        LET r == next.ref
        IN /\ \A other \in readyServices : next.place <= other.place
           /\ readyServices' = readyServices \ {next}
           /\ IF Pending(r)
              THEN HandleServiceRegisterResult(r) /\ reply' = [reply EXCEPT ![r] = Silent]
              ELSE failure' = "undefined" /\ UNCHANGED <<mServices, live, reply>>
  BY DEF Process
<1> DEFINE r == next.ref
<1>3. r \in Refs /\ readyServices' = readyServices \ {next}
      /\ readyServices' \subseteq [place : Nat, ref : Refs]
  BY <1>2, RefsTypesService DEF RefsInv
<1>4. CASE ~Pending(r)
  <2>1. failure' = "undefined" /\ UNCHANGED <<mServices, live, reply>>
    BY <1>2, <1>4
  <2>2. RefsTypeOK'
    BY <1>1, <1>3, <2>1, RefsTypesService, RefsTypesNext DEF RefsInv
  <2>3. renames
    BY <1>2, <1>4 DEF RefsInv, Answered
  <2> QED BY <1>1, <2>1, <2>2, <2>3 DEF RefsInv
<1>5. CASE Pending(r)
  <2>1. HandleServiceRegisterResult(r) /\ reply' = [reply EXCEPT ![r] = Silent]
        /\ r \in live /\ reply[r].kind # "none"
    BY <1>2, <1>5 DEF Pending
  <2>2. reply \in [Refs -> Replies \cup {Silent}] /\ live \subseteq Refs
    BY RefsTypesService DEF RefsInv
  <2>3. reply[r] \in Replies
    BY <1>3, <2>1, <2>2 DEF Silent
  <2>4. mServices' \in Seq(Service) /\ live' \subseteq live
        /\ failure' \in {"none", "assert", "undefined"}
    BY <1>1, <1>3, <2>1, <2>3, HandledTypes
  <2>5. reply' \in [Refs -> Replies \cup {Silent}] /\ reply'[r] = Silent
        /\ \A q \in Refs \ {r} : reply'[q] = reply[q]
    BY <1>3, <2>1, <2>2
  <2>6. RefsTypeOK'
    BY <1>1, <1>3, <2>2, <2>4, <2>5, RefsTypesService, RefsTypesNext DEF RefsInv
  <2>7. (live' \subseteq 1 .. given) /\ \A q \in Refs : reply'[q].kind # "none" => q <= given
    BY <1>3, <2>4, <2>5 DEF RefsInv, Silent
  <2>8. ASSUME ~renames
        PROVE  failure' = "none" /\ OneEach' /\ Answered'
    <3>1. OneEach /\ Answered
      BY <2>8 DEF RefsInv
    <3>2. /\ failure' = "none" /\ OneEach'
          /\ live' \in {live, live \ {r}}
          /\ \A j \in DOMAIN mServices' :
               /\ mServices'[j].ref \in live
               /\ \E k \in DOMAIN mServices : mServices'[j] = mServices[k]
      BY <1>1, <2>1, <2>8, HandledKeeps
    <3>3. ASSUME NEW j \in DOMAIN mServices', reply'[mServices'[j].ref].kind # "none"
          PROVE  reply'[mServices'[j].ref].name = mServices'[j].name
      <4>1. mServices'[j].ref \in Refs \ {r}
        BY <2>2, <2>5, <3>2, <3>3 DEF Silent
      <4> QED BY <2>5, <3>1, <3>2, <3>3, <4>1 DEF Answered
    <3>4. ASSUME NEW e \in readyServices'
          PROVE  Pending(e.ref)'
      <4>1. e \in readyServices /\ e # next /\ e.ref # r /\ e.ref \in Refs
        BY <1>2, <1>3, <3>1 DEF Answered
      <4>2. e.ref \in live /\ reply[e.ref].kind # "none"
        BY <3>1, <4>1 DEF Answered, Pending
      <4> QED BY <2>5, <3>2, <4>1, <4>2 DEF Pending
    <3>5. \A e, f \in readyServices' : e # f => e.ref # f.ref
      BY <1>3, <3>1 DEF Answered
    <3> QED BY <3>2, <3>3, <3>4, <3>5 DEF Answered
  <2> QED BY <1>1, <2>6, <2>7, <2>8 DEF RefsInv
<1> QED BY <1>4, <1>5

LEMMA RefsStepKeeps == RefsInv /\ [RefsNext]_refsVars => RefsInv'
<1> SUFFICES ASSUME RefsInv, [RefsNext]_refsVars PROVE RefsInv'
  OBVIOUS
<1>1. CASE Start
  BY <1>1 DEF Start, Idle, RefsInv, RefsTypeOK, OneEach, Answered, Pending
<1>2. CASE UNCHANGED refsVars
  BY <1>2 DEF refsVars, RefsInv, RefsTypeOK, OneEach, Answered, Pending
<1> QED BY <1>1, <1>2, StopKeeps, PollKeeps, ProcessKeeps, ReplyKeeps, PublishKeeps DEF RefsNext

\* While the daemon renames no service the publisher and the library agree who has
\* which reference (mdns_mdnssd.cpp: RecordService, DiscardService, Process).
THEOREM ReferencesKept == RefsSpec => []RefsKept
<1>1. RefsInv => RefsKept
  BY DEF RefsInv, OneEach, RefsKept
<1> QED BY <1>1, RefsInitHolds, RefsStepKeeps, PTL DEF RefsSpec

-----------------------------------------------------------------------------
(* Coap                                                                    *)

\* The agent and libcoap know the same resources, each by a pointer and a path
\* of its own.
SameResources ==
  /\ resources = mResources
  /\ \A e \in resources : e.ptr <= added
  /\ \A e, f \in resources : e.ptr = f.ptr \/ e.path = f.path => e = f

\* All that is under way is about requests that were sent, and what was handled, or
\* is answered later, was sent to the path it was handled for.
AboutSent ==
  /\ toServer \subseteq DOMAIN sent
  /\ \A m \in toClient : m.n \in DOMAIN sent
  /\ \A h \in handled : h[1] \in DOMAIN sent /\ h[2] = sent[h[1]].path
  /\ owed \subseteq handled

\* A response from a path was given by a handler, and so was each one that was passed
\* on.
FromHandlers ==
  /\ \A m \in toClient : m.from \in Paths => <<m.n, m.from>> \in handled
  /\ \A n \in Numbers : \A i \in DOMAIN replies[n] :
       replies[n][i] # NotFound => <<n, replies[n][i]>> \in handled

\* A request waits for its answer as long as its handler was not called.
Waiting ==
  /\ \A q \in sendqueue : /\ q.n \in DOMAIN sent /\ sent[q.n].type = "con"
                          /\ replies[q.n] = <<>>
  /\ \A n \in Numbers : /\ Len(replies[n]) <= 1
                        /\ replies[n] # <<>> => n \in DOMAIN sent /\ sent[n].type = "con"

CoapInv == CoapTypeOK /\ SameResources /\ AboutSent /\ FromHandlers /\ Waiting

LEMMA CoapInitHolds == CoapInit => CoapInv
<1> SUFFICES ASSUME CoapInit PROVE CoapInv
  OBVIOUS
<1>1. sent = <<>> /\ sent \in Seq([path : Paths, type : Types]) /\ DOMAIN sent = {}
  BY EmptySeq, LenProperties DEF CoapInit
<1>2. <<>> \in Seq(Paths \cup {NotFound}) /\ Len(<<>>) = 0 /\ DOMAIN <<>> = {}
  BY EmptySeq, LenProperties
<1>3. replies = [n \in Numbers |-> <<>>] /\ \A n \in Numbers : replies[n] = <<>>
  BY DEF CoapInit
<1>4. replies \in [Numbers -> Seq(Paths \cup {NotFound})]
  BY <1>2, <1>3
<1>5. CoapTypeOK
  BY <1>1, <1>4, CoapAssumption DEF CoapInit, CoapTypeOK
<1>6. SameResources /\ AboutSent
  BY DEF CoapInit, SameResources, AboutSent
<1>7. FromHandlers /\ Waiting
  BY <1>2, <1>3 DEF CoapInit, FromHandlers, Waiting
<1> QED BY <1>5, <1>6, <1>7 DEF CoapInv

\* The types, with the sets of the type invariant spelled out.
CoapTypes ==
  /\ resources \subseteq Entries /\ mResources \subseteq Entries /\ added \in 0 .. MaxAdded
  /\ owed \subseteq Numbers \X Paths /\ handled \subseteq Numbers \X Paths
  /\ sent \in Seq([path : Paths, type : Types])
  /\ sendqueue \subseteq [n : Numbers, separate : BOOLEAN] /\ repeats \in 0 .. MaxRepeats
  /\ replies \in [Numbers -> Seq(Paths \cup {NotFound})]
  /\ toServer \subseteq Numbers /\ toClient \subseteq Responses

LEMMA CoapTypesSuffice == CoapTypeOK <=> CoapTypes
BY DEF CoapTypeOK, CoapTypes

LEMMA AddKeeps ==
  ASSUME CoapInv, NEW p \in Paths, AddResource(p)
  PROVE  CoapInv'
<1> USE CoapAssumption
<1> DEFINE e == [ptr |-> added + 1, path |-> p]
<1>1. /\ \A f \in mResources : f.path # p
      /\ added < MaxAdded /\ added' = added + 1
      /\ resources' = resources \cup {e} /\ mResources' = mResources \cup {e}
      /\ UNCHANGED <<owed, handled, clientCoap, toServer, toClient>>
  BY DEF AddResource
<1>2. CoapTypes /\ SameResources
  BY CoapTypesSuffice DEF CoapInv
<1>3. /\ e \in Entries /\ e.ptr = added + 1 /\ e.path = p /\ added + 1 \in 0 .. MaxAdded
      /\ \A f \in Entries : f.ptr \in Nat
      /\ added \in Nat
  BY <1>1, <1>2 DEF CoapTypes, Entries
<1> HIDE DEF e
<1>4. CoapTypes'
  BY <1>1, <1>2, <1>3 DEF CoapTypes, clientCoap
<1>5. SameResources'
  <2>1. \A f \in resources : f.ptr <= added /\ f.ptr \in Nat /\ f.path # p
    BY <1>1, <1>2, <1>3 DEF SameResources, CoapTypes
  <2>2. \A f \in resources : f.ptr # added + 1 /\ f.ptr <= added + 1
    BY <1>3, <2>1
  <2>3. \A f \in resources' : f.ptr <= added'
    BY <1>1, <1>3, <2>2
  <2>4. \A f, g \in resources' : f.ptr = g.ptr \/ f.path = g.path => f = g
    BY <1>1, <1>2, <1>3, <2>1, <2>2 DEF SameResources
  <2> QED BY <1>1, <1>2, <2>3, <2>4 DEF SameResources
<1>6. AboutSent' /\ FromHandlers' /\ Waiting'
  BY <1>1 DEF CoapInv, AboutSent, FromHandlers, Waiting, clientCoap
<1>7. CoapTypeOK'
  BY <1>4, CoapTypesSuffice, PTL
<1> QED BY <1>5, <1>6, <1>7 DEF CoapInv

LEMMA RemoveKeeps ==
  ASSUME CoapInv, NEW p \in Paths, RemoveResource(p)
  PROVE  CoapInv'
<1>1. /\ resources' = {e \in resources : e.path # p}
      /\ mResources' = {e \in mResources : e.path # p}
      /\ UNCHANGED <<added, owed, handled, clientCoap, toServer, toClient>>
  BY DEF RemoveResource
<1>2. CoapTypes /\ SameResources
  BY CoapTypesSuffice DEF CoapInv
<1>3. CoapTypes'
  BY <1>1, <1>2 DEF CoapTypes, clientCoap
<1>4. SameResources'
  BY <1>1, <1>2 DEF SameResources
<1>5. AboutSent' /\ FromHandlers' /\ Waiting'
  BY <1>1 DEF CoapInv, AboutSent, FromHandlers, Waiting, clientCoap
<1>6. CoapTypeOK'
  BY <1>3, CoapTypesSuffice, PTL
<1> QED BY <1>4, <1>5, <1>6 DEF CoapInv

\* A request is handled by the resource with its path.
LEMMA HandleKeeps ==
  ASSUME CoapInv, NEW n \in Numbers, HandleRequest(n)
  PROVE  CoapInv'
<1> DEFINE found == {e.ptr : e \in {f \in resources : f.path = sent[n].path}}
           known == {e \in mResources : e.ptr \in found}
           calls == {<<n, e.path>> : e \in known}
           here  == {Answer(n, e.path) : e \in known}
<1>1. /\ n \in toServer /\ toServer' = toServer \ {n}
      /\ handled' = handled \cup calls
      /\ UNCHANGED <<resources, mResources, added, clientCoap>>
  BY DEF HandleRequest
<1>2. \/ toClient' = toClient \cup (IF found = {} THEN {Answer(n, NotFound)}
                                   ELSE IF known = {} THEN Acknowledge(n)
                                   ELSE here) /\ owed' = owed
      \/ toClient' = toClient \cup Acknowledge(n) /\ owed' = owed \cup calls
  BY DEF HandleRequest
<1>3. CoapTypes /\ SameResources /\ AboutSent /\ FromHandlers /\ Waiting
  BY CoapTypesSuffice DEF CoapInv
<1>4. n \in DOMAIN sent /\ sent[n] \in [path : Paths, type : Types]
  <2>1. n \in DOMAIN sent
    BY <1>1, <1>3 DEF AboutSent
  <2> QED BY <1>3, <2>1, LenProperties, ElementOfSeq DEF CoapTypes
<1>5. \A e \in known : e.path = sent[n].path /\ e.path \in Paths
  BY <1>3, <1>4 DEF SameResources
<1>6. \A from \in Paths \cup {NotFound, "empty"} :
        /\ Answer(n, from) \in Responses
        /\ Answer(n, from).n = n /\ Answer(n, from).from = from
  BY DEF Answer, Responses
<1>7. calls \subseteq Numbers \X Paths /\ (\A h \in calls : h[1] = n /\ h[2] = sent[n].path)
  BY <1>5
<1>8. \A m \in toClient' :
        \/ m \in toClient
        \/ /\ m \in Responses /\ m.n = n
           /\ m.from \in Paths => <<n, m.from>> \in calls
  <2>1. Acknowledge(n) \subseteq {Answer(n, "empty")}
    BY DEF Acknowledge
  <2>2. \A m \in here : /\ m \in Responses /\ m.n = n
                        /\ m.from \in Paths => <<n, m.from>> \in calls
    BY <1>5, <1>6
  <2>3. PICK new : toClient' = toClient \cup new /\ (\/ new = {Answer(n, NotFound)}
                                                     \/ new \subseteq {Answer(n, "empty")}
                                                     \/ new = here)
    BY <1>2, <2>1
  <2>4. "empty" \notin Paths /\ NotFound \notin Paths
    BY CoapAssumption
  <2> HIDE DEF here, calls
  <2> QED BY <1>6, <2>2, <2>3, <2>4
<1> HIDE DEF found, known, calls, here
<1>9. CoapTypeOK'
  BY <1>1, <1>2, <1>3, <1>7, <1>8, CoapTypesSuffice DEF CoapTypes, CoapTypeOK, clientCoap
<1>10. SameResources'
  BY <1>1, <1>3 DEF SameResources
<1>11. AboutSent'
  BY <1>1, <1>2, <1>3, <1>4, <1>7, <1>8 DEF AboutSent, clientCoap
<1>12. FromHandlers'
  BY <1>1, <1>3, <1>8 DEF FromHandlers, clientCoap
<1>13. Waiting'
  BY <1>1, <1>3 DEF Waiting, clientCoap
<1> QED BY <1>9, <1>10, <1>11, <1>12, <1>13 DEF CoapInv

LEMMA RespondKeeps ==
  ASSUME CoapInv, NEW n \in Numbers, NEW p \in Paths, Respond(n, p)
  PROVE  CoapInv'
<1> DEFINE m == [n |-> n, type |-> "non", from |-> p]
<1>1. /\ <<n, p>> \in owed /\ owed' = owed \ {<<n, p>>}
      /\ toClient' = toClient \cup {m}
      /\ UNCHANGED <<resources, mResources, added, handled, clientCoap, toServer>>
  BY DEF Respond
<1>2. CoapTypes /\ SameResources /\ AboutSent /\ FromHandlers /\ Waiting
  BY CoapTypesSuffice DEF CoapInv
<1>3. m \in Responses /\ m.n = n /\ m.from = p
  BY DEF Responses
<1>4. <<n, p>> \in handled /\ n \in DOMAIN sent
  BY <1>1, <1>2 DEF AboutSent
<1> HIDE DEF m
<1>5. CoapTypeOK'
  BY <1>1, <1>2, <1>3, CoapTypesSuffice DEF CoapTypes, CoapTypeOK, clientCoap
<1>6. SameResources' /\ AboutSent' /\ FromHandlers' /\ Waiting'
  BY <1>1, <1>2, <1>3, <1>4 DEF SameResources, AboutSent, FromHandlers, Waiting, clientCoap
<1> QED BY <1>5, <1>6 DEF CoapInv

LEMMA SendKeeps ==
  ASSUME CoapInv, NEW p \in Paths, NEW type \in Types, Send(p, type)
  PROVE  CoapInv'
<1> USE CoapAssumption
<1> DEFINE n == Len(sent) + 1
           r == [path |-> p, type |-> type]
           q == [n |-> n, separate |-> FALSE]
<1>1. /\ Len(sent) < MaxRequests
      /\ sent' = Append(sent, r) /\ toServer' = toServer \cup {n}
      /\ sendqueue' = IF type = "con" THEN sendqueue \cup {q} ELSE sendqueue
      /\ UNCHANGED <<serverCoap, repeats, replies, toClient>>
  BY DEF Send
<1>2. CoapTypes /\ SameResources /\ AboutSent /\ FromHandlers /\ Waiting
  BY CoapTypesSuffice DEF CoapInv
<1>3. r \in [path : Paths, type : Types] /\ r.type = type
  OBVIOUS
<1>4. /\ sent' \in Seq([path : Paths, type : Types])
      /\ DOMAIN sent' = DOMAIN sent \cup {n} /\ n \notin DOMAIN sent /\ n \in Numbers
      /\ \A k \in DOMAIN sent : sent'[k] = sent[k]
      /\ sent'[n] = r
  <2>1. /\ sent \in Seq([path : Paths, type : Types]) /\ Len(sent) \in Nat
        /\ DOMAIN sent = 1 .. Len(sent)
    BY <1>2, LenProperties DEF CoapTypes
  <2>2. /\ Append(sent, r) \in Seq([path : Paths, type : Types])
        /\ Len(Append(sent, r)) = Len(sent) + 1
        /\ \A k \in 1 .. Len(sent) : Append(sent, r)[k] = sent[k]
        /\ Append(sent, r)[Len(sent) + 1] = r
    BY <1>3, <2>1, AppendProperties
  <2>3. DOMAIN Append(sent, r) = 1 .. Len(sent) + 1
    BY <2>2, LenProperties
  <2>4. 1 .. Len(sent) + 1 = (1 .. Len(sent)) \cup {n} /\ n \notin 1 .. Len(sent) /\ n \in Numbers
    BY <1>1, <2>1 DEF Numbers
  <2> HIDE DEF r
  <2> QED BY <1>1, <2>1, <2>2, <2>3, <2>4
<1>5. q \in [n : Numbers, separate : BOOLEAN] /\ q.n = n
  BY <1>4
<1> HIDE DEF n, r, q
<1>6. replies[n] = <<>>
  <2>1. n \notin DOMAIN sent /\ n \in Numbers
    BY <1>4
  <2> QED BY <1>2, <2>1 DEF Waiting
<1>7. CoapTypeOK'
  BY <1>1, <1>2, <1>4, <1>5, CoapTypesSuffice DEF CoapTypes, CoapTypeOK, serverCoap
<1>8. SameResources' /\ FromHandlers'
  BY <1>1, <1>2 DEF SameResources, FromHandlers, serverCoap
<1>9. AboutSent'
  BY <1>1, <1>2, <1>4 DEF AboutSent, serverCoap
<1>10. Waiting'
  <2>1. \A k \in sendqueue' : k \in sendqueue \/ (k = q /\ type = "con")
    BY <1>1
  <2>2. \A k \in sendqueue' : k.n \in DOMAIN sent' /\ sent'[k.n].type = "con" /\ replies[k.n] = <<>>
    BY <1>2, <1>3, <1>4, <1>5, <1>6, <2>1 DEF Waiting
  <2>3. \A k \in Numbers : replies[k] # <<>> => k \in DOMAIN sent' /\ sent'[k].type = "con"
    BY <1>2, <1>4 DEF Waiting
  <2> QED BY <1>1, <1>2, <2>2, <2>3 DEF Waiting
<1> QED BY <1>7, <1>8, <1>9, <1>10 DEF CoapInv

LEMMA RepeatKeeps ==
  ASSUME CoapInv, NEW n \in Numbers, Repeat(n)
  PROVE  CoapInv'
<1>1. /\ n \in DOMAIN sent /\ repeats < MaxRepeats
      /\ toServer' = toServer \cup {n} /\ repeats' = repeats + 1
      /\ UNCHANGED <<serverCoap, sent, sendqueue, replies, toClient>>
  BY DEF Repeat
<1>2. CoapTypes
  BY CoapTypesSuffice DEF CoapInv
<1>3. repeats + 1 \in 0 .. MaxRepeats
  BY <1>1, <1>2, CoapAssumption DEF CoapTypes
<1>4. CoapTypeOK'
  BY <1>1, <1>2, <1>3, CoapTypesSuffice DEF CoapTypes, CoapTypeOK, serverCoap
<1>5. SameResources' /\ AboutSent' /\ FromHandlers' /\ Waiting'
  BY <1>1 DEF CoapInv, SameResources, AboutSent, FromHandlers, Waiting, serverCoap
<1> QED BY <1>4, <1>5 DEF CoapInv

\* A response that is passed on takes its request out of the queue.
LEMMA ResponseKeeps ==
  ASSUME CoapInv, NEW m \in toClient, HandleResponse(m)
  PROVE  CoapInv'
<1>1. toClient' = toClient \ {m} /\ UNCHANGED <<serverCoap, sent, repeats, toServer>>
  BY DEF HandleResponse
<1>2. CoapTypes /\ SameResources /\ AboutSent /\ FromHandlers /\ Waiting
  BY CoapTypesSuffice DEF CoapInv
<1>3. SameResources' /\ AboutSent'
  BY <1>1, <1>2 DEF SameResources, AboutSent, serverCoap
<1>4. CASE m.from = "empty"
  <2>1. /\ replies' = replies
        /\ sendqueue' = {IF q \in Sent(m) THEN [q EXCEPT !.separate = TRUE] ELSE q : q \in sendqueue}
    BY <1>4 DEF HandleResponse
  <2>2. \A k \in sendqueue' : k \in [n : Numbers, separate : BOOLEAN]
                              /\ \E q \in sendqueue : q.n = k.n
    BY <1>2, <2>1 DEF CoapTypes
  <2>3. CoapTypeOK'
    BY <1>1, <1>2, <2>1, <2>2, CoapTypesSuffice DEF CoapTypes, CoapTypeOK, serverCoap
  <2>4. FromHandlers' /\ Waiting'
    BY <1>1, <1>2, <2>1, <2>2 DEF FromHandlers, Waiting, serverCoap
  <2> QED BY <1>3, <2>3, <2>4 DEF CoapInv
<1>5. CASE m.from # "empty"
  <2> DEFINE awaits(k) == \E q \in Sent(m) : q.n = k
  <2>1. /\ replies' = [k \in Numbers |-> IF awaits(k) THEN Append(replies[k], m.from) ELSE replies[k]]
        /\ sendqueue' = {q \in sendqueue : q.n # m.n}
    BY <1>5 DEF HandleResponse
  <2>2. \A k : awaits(k) => /\ k = m.n /\ k \in Numbers /\ replies[k] = <<>>
                           /\ k \in DOMAIN sent /\ sent[k].type = "con"
    BY <1>2 DEF Sent, Waiting, CoapTypes
  <2>3. /\ m \in Responses /\ m.n \in Numbers /\ m.from \in Paths \cup {NotFound}
        /\ m.from \in Paths => <<m.n, m.from>> \in handled
    BY <1>2, <1>5 DEF CoapTypes, Responses, FromHandlers
  <2>4. /\ Append(<<>>, m.from) \in Seq(Paths \cup {NotFound})
        /\ Len(Append(<<>>, m.from)) = 1
        /\ \A i \in DOMAIN Append(<<>>, m.from) : Append(<<>>, m.from)[i] = m.from
    <3>1. Append(<<>>, m.from) = <<m.from>>
      OBVIOUS
    <3> QED BY <2>3, <3>1
  <2> HIDE DEF awaits
  <2>5. \A k \in Numbers : \/ replies'[k] = replies[k] /\ ~awaits(k)
                           \/ awaits(k) /\ replies'[k] = Append(<<>>, m.from)
    BY <2>1, <2>2
  <2>6. replies' \in [Numbers -> Seq(Paths \cup {NotFound})]
    <3>1. \A k \in Numbers : replies'[k] \in Seq(Paths \cup {NotFound})
      BY <1>2, <2>4, <2>5 DEF CoapTypes
    <3>2. replies' = [k \in Numbers |-> replies'[k]]
      BY <2>1
    <3> QED BY <3>1, <3>2
  <2>7. CoapTypeOK'
    BY <1>1, <1>2, <2>1, <2>6, CoapTypesSuffice DEF CoapTypes, CoapTypeOK, serverCoap
  <2>8. FromHandlers'
    <3>1. ASSUME NEW k \in Numbers, NEW i \in DOMAIN replies'[k], replies'[k][i] # NotFound
          PROVE  <<k, replies'[k][i]>> \in handled
      <4>1. CASE replies'[k] = replies[k]
        BY <1>2, <3>1, <4>1 DEF FromHandlers
      <4>2. CASE awaits(k) /\ replies'[k] = Append(<<>>, m.from)
        BY <2>2, <2>3, <2>4, <3>1, <4>2
      <4> QED BY <2>5, <4>1, <4>2
    <3> QED BY <1>1, <1>2, <3>1 DEF FromHandlers, serverCoap
  <2>9. Waiting'
    <3>1. \A q \in sendqueue' : /\ q \in sendqueue /\ replies'[q.n] = <<>>
                                /\ q.n \in DOMAIN sent /\ sent[q.n].type = "con"
      <4>1. \A q \in sendqueue : q.n \in Numbers
        BY <1>2 DEF CoapTypes
      <4> QED BY <1>2, <2>1, <2>2, <2>5, <4>1 DEF Waiting
    <3>2. \A k \in Numbers : /\ Len(replies'[k]) <= 1
                             /\ replies'[k] # <<>> => k \in DOMAIN sent /\ sent[k].type = "con"
      <4> TAKE k \in Numbers
      <4>1. CASE replies'[k] = replies[k]
        BY <1>2, <4>1 DEF Waiting
      <4>2. CASE awaits(k) /\ replies'[k] = Append(<<>>, m.from)
        <5>1. Len(replies'[k]) = 1
          BY <2>4, <4>2
        <5>2. Len(replies'[k]) <= 1
          BY <5>1
        <5> QED BY <2>2, <4>2, <5>2
      <4> QED BY <2>5, <4>1, <4>2
    <3> QED BY <1>1, <3>1, <3>2 DEF Waiting
  <2> QED BY <1>3, <2>7, <2>8, <2>9 DEF CoapInv
<1> QED BY <1>4, <1>5

LEMMA CoapStepKeeps == CoapInv /\ [CoapNext]_coapVars => CoapInv'
<1> SUFFICES ASSUME CoapInv, [CoapNext]_coapVars PROVE CoapInv'
  OBVIOUS
<1>1. CASE UNCHANGED coapVars
  BY <1>1 DEF coapVars, serverCoap, clientCoap, CoapInv, CoapTypeOK, SameResources, AboutSent,
       FromHandlers, Waiting
<1> QED BY <1>1, AddKeeps, RemoveKeeps, HandleKeeps, RespondKeeps, SendKeeps, RepeatKeeps,
           ResponseKeeps DEF CoapNext

\* Responses go to the handler of their request, at most once, and requests to the
\* resource with their path, whatever the network does (coap_libcoap.cpp).
THEOREM ExchangesAreMatched == CoapSpec => []ExchangesMatch
<1>1. CoapInv => ExchangesMatch
  <2> SUFFICES ASSUME CoapInv PROVE ExchangesMatch
    OBVIOUS
  <2>1. \A n \in Numbers : \A i \in DOMAIN replies[n] : replies[n] # <<>>
    <3>1. \A n \in Numbers : replies[n] \in Seq(Paths \cup {NotFound})
      BY CoapTypesSuffice DEF CoapInv, CoapTypes
    <3>2. DOMAIN <<>> = {}
      BY EmptySeq, LenProperties
    <3> QED BY <3>1, <3>2
  <2> QED BY <2>1 DEF CoapInv, SameResources, AboutSent, FromHandlers, Waiting, ExchangesMatch
<1> QED BY <1>1, CoapInitHolds, CoapStepKeeps, PTL DEF CoapSpec

-----------------------------------------------------------------------------
(* StatusRegister: for any sets of reader and writer threads and any values, *)
(* IndInv is an inductive invariant, Coherent follows from it, and every     *)
(* behaviour of StatusRegister is one of SafeRegister.                       *)

LEMMA InitIndInv == Init => IndInv
  BY RegisterAssumption
     DEF Init, IndInv, TypeOK, Exclusion, Written, Coherent, Threads,
         Locations, FutureStates, CriticalSet, CriticalGet

LEMMA NextIndInv == IndInv /\ [Next]_vars => IndInv'
<1> SUFFICES ASSUME IndInv, [Next]_vars PROVE IndInv'
  OBVIOUS
<1> USE RegisterAssumption DEF IndInv, TypeOK, Exclusion, Written, Coherent,
        Threads, FutureStates, CriticalSet, CriticalGet, Locations
<1>1. ASSUME NEW t \in Threads, Lock(t) PROVE IndInv'
  BY <1>1 DEF Lock, Goto
<1>2. ASSUME NEW t \in Threads, DropPromise(t) PROVE IndInv'
  BY <1>2 DEF DropPromise, Goto
<1>3. ASSUME NEW t \in Threads, DropFuture(t) PROVE IndInv'
  BY <1>3 DEF DropFuture, Goto
<1>4. ASSUME NEW t \in Threads, Renew(t) PROVE IndInv'
  BY <1>4 DEF Renew, Goto
<1>5. ASSUME NEW t \in Threads, Unlock(t) PROVE IndInv'
  BY <1>5 DEF Unlock, Goto
<1>6. ASSUME NEW w \in Writers, NEW v \in Values, BeginSet(w, v) PROVE IndInv'
  BY <1>6 DEF BeginSet, Goto
<1>7. ASSUME NEW w \in Writers, Satisfy(w) PROVE IndInv'
  BY <1>7 DEF Satisfy, Goto
<1>8. ASSUME NEW w \in Writers, Assign(w) PROVE IndInv'
  BY <1>8 DEF Assign, Goto
<1>9. ASSUME NEW w \in Writers, Assigned(w) PROVE IndInv'
  BY <1>9 DEF Assigned, Goto
<1>10. ASSUME NEW r \in Readers, BeginGet(r) PROVE IndInv'
  BY <1>10 DEF BeginGet, Goto
<1>11. ASSUME NEW r \in Readers, IsReady(r) PROVE IndInv'
  BY <1>11 DEF IsReady, Goto
<1>12. ASSUME NEW r \in Readers, Take(r) PROVE IndInv'
  BY <1>12 DEF Take, Goto
<1>13. ASSUME NEW r \in Readers, ReadOld(r) PROVE IndInv'
  BY <1>13 DEF ReadOld, Goto
<1>14. ASSUME NEW r \in Readers, EndGet(r) PROVE IndInv'
  BY <1>14 DEF EndGet, Goto
<1>15. CASE UNCHANGED vars
  BY <1>15 DEF vars
<1> QED
  BY <1>1, <1>2, <1>3, <1>4, <1>5, <1>6, <1>7, <1>8, <1>9, <1>10, <1>11,
     <1>12, <1>13, <1>14, <1>15
     DEF Next, SetStep, GetStep, Reset, Crashed

\* The invariant behind the lock discipline of ReturnStatus holds in every
\* reachable state.
THEOREM StatusInvariant == Spec => []IndInv
  BY InitIndInv, NextIndInv, PTL DEF Spec

\* Both branches of Get agree whenever no Set is under way.
THEOREM StatusCoherent == Spec => []Coherent
<1>1. IndInv => Coherent
  BY DEF IndInv
<1> QED
  BY <1>1, StatusInvariant, PTL
-----------------------------------------------------------------------------
LEMMA InitRefines == Init => Abs!Init
  BY RegisterAssumption
     DEF Init, Abs!Init, Threads, Abs!Threads, Location

LEMMA NextRefines == IndInv /\ [Next]_vars => [Abs!Next]_(Abs!vars)
<1> SUFFICES ASSUME IndInv, [Next]_vars PROVE Abs!Next \/ UNCHANGED Abs!vars
  OBVIOUS
<1> USE RegisterAssumption DEF IndInv, TypeOK, Exclusion, Written, Coherent,
        Threads, CriticalSet, CriticalGet, Location, Goto
<1>1. ASSUME NEW w \in Writers, Lock(w) PROVE Abs!BeginWrite(w)
  BY <1>1 DEF Lock, Abs!BeginWrite
<1>2. ASSUME NEW w \in Writers, Unlock(w) PROVE Abs!EndWrite(w)
  BY <1>2 DEF Unlock, Abs!EndWrite
<1>3. ASSUME NEW w \in Writers, NEW v \in Values, BeginSet(w, v)
      PROVE Abs!RequestWrite(w, v)
  BY <1>3 DEF BeginSet, Abs!RequestWrite
<1>4. ASSUME NEW r \in Readers, BeginGet(r) PROVE Abs!RequestRead(r)
  BY <1>4 DEF BeginGet, Abs!RequestRead
<1>5. ASSUME NEW r \in Readers, Take(r) PROVE Abs!Read(r)
  BY <1>5 DEF Take, Abs!Read
<1>6. ASSUME NEW r \in Readers, ReadOld(r) PROVE Abs!Read(r)
  BY <1>6 DEF ReadOld, Abs!Read
<1>7. ASSUME NEW r \in Readers, EndGet(r) PROVE Abs!EndRead(r)
  BY <1>7 DEF EndGet, Abs!EndRead
<1>8. ASSUME NEW t \in Threads, Reset(t) PROVE UNCHANGED Abs!vars
  BY <1>8 DEF Reset, DropPromise, DropFuture, Renew, Abs!vars
<1>9. ASSUME NEW w \in Writers, Satisfy(w) \/ Assign(w) \/ Assigned(w)
      PROVE UNCHANGED Abs!vars
  BY <1>9 DEF Satisfy, Assign, Assigned, Abs!vars
<1>10. ASSUME NEW r \in Readers, IsReady(r) \/ Lock(r) \/ Unlock(r)
       PROVE UNCHANGED Abs!vars
  BY <1>10 DEF IsReady, Lock, Unlock, Abs!vars
<1>11. CASE UNCHANGED vars
  BY <1>11 DEF vars, Abs!vars
<1> QED
  BY <1>1, <1>2, <1>3, <1>4, <1>5, <1>6, <1>7, <1>8, <1>9, <1>10, <1>11
     DEF Next, SetStep, GetStep, Crashed, Abs!Next

\* Whatever the number of readers and writers, what Get returns is what a
\* safe register may return: never an older string than the last finished
\* Set, unless a Set is in progress when the string is read.
THEOREM StatusImplementsSafeRegister == Spec => Safe
  BY InitRefines, NextRefines, StatusInvariant, PTL DEF Spec, Safe, Abs!Spec

=============================================================================
