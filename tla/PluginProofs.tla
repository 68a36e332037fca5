---------------------------- MODULE PluginProofs ----------------------------
(***************************************************************************)
(* The lifetimes of the plugin's threads and Commissioners, for any number *)
(* of HTTP threads, POSTs and DELETEs.                                     *)
(***************************************************************************)
EXTENDS Plugin, FiniteSetTheorems, TLAPS

USE DEF argVars, mgrVars, thrVars, heapVars, httpVars, ownVars

\* Managers are numbered from 1, so none of them owns NoObject.
LEMMA Numbers ==
  /\ Managers \subseteq Nat \ {0} /\ 1 \in Managers
  /\ NoObject \notin Objects
  /\ \A m \in Managers : <<m, 0>> \in Objects /\ <<m, 1>> \in Objects
BY PluginAssumption DEF Managers, Objects, NoObject

-----------------------------------------------------------------------------
(* Threads and Commissioners.                                              *)

ThreadTypes ==
  /\ mpc \in [Managers -> ManagerAt] /\ mstop \in [Managers -> BOOLEAN]
  /\ cpc \in [Managers -> ThreadAt]
  /\ comm \in [Managers -> Objects \cup {NoObject}]

\* Where a manager has no thread: it has been joined, or not been started.
NoThread == {"none", "build", "spawn", "timeout", "end", "done"}

\* A manager and its Commissioner and thread.
Owns(m) ==
  /\ comm[m] \in {NoObject, <<m, 0>>, <<m, 1>>}
  /\ comm[m] # NoObject => comm[m] \in alive
  /\ cpc[m] # "none" => comm[m] # NoObject /\ mpc[m] \notin NoThread
  /\ mpc[m] = "spawn" => comm[m] # NoObject
  /\ mpc[m] \in {"none", "done"} => comm[m] = NoObject
  /\ mpc[m] \in {"stopEnd", "end", "done"} => mstop[m]

NestInv ==
  /\ ThreadTypes
  /\ \A m \in Managers : Owns(m)
  /\ NoObject \notin alive
  /\ \A o \in alive : \E m \in Managers : o = comm[m]

LEMMA NestInit == Init => NestInv
<1> SUFFICES ASSUME Init PROVE NestInv
  OBVIOUS
<1>1. ThreadTypes
  BY DEF Init, ThreadTypes, ManagerAt, ThreadAt
<1>2. \A m \in Managers : Owns(m)
  BY DEF Init, Owns, NoThread
<1> QED BY <1>1, <1>2 DEF Init, NestInv

\* What a step of a commissioner thread does to the threads: it moves on, and
\* may wake its manager.
LEMMA ThreadEffect ==
  ASSUME NestInv, NEW m \in Managers, ThreadStep(m) \/ PeerStep(m)
  PROVE  /\ UNCHANGED <<mstop, comm, alive, hpc, harg, Mngr, started, core>>
         /\ mpc' = mpc \/ (mpc[m] = "waiting" /\ mpc' = [mpc EXCEPT ![m] = "clear"])
         /\ cpc' = cpc \/ \E x \in ThreadAt : cpc[m] # "none" /\ cpc' = [cpc EXCEPT ![m] = x]
<1> USE DEF CGoto, Notify
<1>1. CASE Dangling(m)
  BY <1>1 DEF Dangling
<1>2. CASE InitDtls(m)
  BY <1>2 DEF InitDtls, ThreadAt
<1>3. CASE HandshakeStopped(m) \/ HandshakeResult(m)
  BY <1>3 DEF HandshakeStopped, HandshakeResult, ThreadAt
<1>4. CASE Validate(m)
  BY <1>4 DEF Validate, ThreadAt
<1>5. CASE SetPetitioningError(m) \/ SetActive(m)
  BY <1>5 DEF SetPetitioningError, SetActive, ThreadAt
<1>6. CASE NotifyPetition(m)
  BY <1>6 DEF NotifyPetition, ThreadAt
<1>7. CASE LoopTest(m)
  BY <1>7 DEF LoopTest, ThreadAt
<1>8. CASE SelectFails(m) \/ ReadBlocks(m)
  BY <1>8 DEF SelectFails, ReadBlocks, ThreadAt
<1>9. CASE ProcessReturns(m, "body") \/ ProcessReturns(m, "reading")
  BY <1>9 DEF ProcessReturns, ThreadAt
<1>10. CASE Exit(m)
  BY <1>10 DEF Exit, ThreadAt
<1> QED BY <1>1, <1>2, <1>3, <1>4, <1>5, <1>6, <1>7, <1>8, <1>9, <1>10 DEF ThreadStep, PeerStep

LEMMA ThreadKeepsNest ==
  ASSUME NestInv, NEW m \in Managers, ThreadStep(m) \/ PeerStep(m)
  PROVE  NestInv'
<1>1. /\ UNCHANGED <<mstop, comm, alive>>
      /\ mpc' = mpc \/ (mpc[m] = "waiting" /\ mpc' = [mpc EXCEPT ![m] = "clear"])
      /\ cpc' = cpc \/ \E x \in ThreadAt : cpc[m] # "none" /\ cpc' = [cpc EXCEPT ![m] = x]
  BY ThreadEffect
<1>2. ThreadTypes'
  BY <1>1 DEF NestInv, ThreadTypes, ManagerAt
<1>3. ASSUME NEW k \in Managers
      PROVE  Owns(k)'
  <2>1. mpc'[k] = mpc[k] \/ (mpc[k] = "waiting" /\ mpc'[k] = "clear")
    BY <1>1 DEF NestInv, ThreadTypes
  <2>2. cpc'[k] # "none" => cpc[k] # "none"
    BY <1>1 DEF NestInv, ThreadTypes
  <2>3. Owns(k)
    BY DEF NestInv
  <2> QED BY <1>1, <2>1, <2>2, <2>3 DEF Owns, NoThread
<1> QED BY <1>1, <1>2, <1>3 DEF NestInv

-----------------------------------------------------------------------------
(* Steps of a manager.                                                     *)

\* One that moves on, without touching thread or Commissioner.
LEMMA MoveKeepsNest ==
  ASSUME NestInv, NEW m \in Managers, NEW x \in ManagerAt \ {"none", "spawn", "done"},
         mpc' = [mpc EXCEPT ![m] = x],
         UNCHANGED <<mstop, comm, alive, cpc>>,
         x \in NoThread => cpc[m] = "none",
         x \in {"stopEnd", "end"} => mstop[m]
  PROVE  NestInv'
<1>1. ThreadTypes'
  BY DEF NestInv, ThreadTypes
<1>2. ASSUME NEW k \in Managers
      PROVE  Owns(k)'
  <2>1. mpc'[k] = IF k = m THEN x ELSE mpc[k]
    BY DEF NestInv, ThreadTypes
  <2>2. Owns(k)
    BY DEF NestInv
  <2> QED BY <2>1, <2>2 DEF Owns
<1> QED BY <1>1, <1>2 DEF NestInv

LEMMA ManagerKeepsNest ==
  ASSUME NestInv, NEW m \in Managers, ManagerStep(m)
  PROVE  NestInv'
<1> USE DEF MGoto
<1>1. Owns(m) /\ ThreadTypes
  BY DEF NestInv
<1>2. CASE Check(m) \/ SetPetitioning(m) \/ BeginWait(m) \/ EndWait(m) \/ SetTimeout(m)
           \/ ClearFlag(m)
  <2>1. PICK x \in {"stopBuild", "poll", "wait", "waiting", "stopTimeout", "clear"} :
          mpc' = [mpc EXCEPT ![m] = x]
    BY <1>2 DEF Check, SetPetitioning, BeginWait, EndWait, SetTimeout, ClearFlag
  <2>2. UNCHANGED <<mstop, comm, alive, cpc>>
    BY <1>2 DEF Check, SetPetitioning, BeginWait, EndWait, SetTimeout, ClearFlag
  <2> QED BY <2>1, <2>2, MoveKeepsNest DEF ManagerAt, NoThread
<1>3. CASE Poll(m)
  <2>1. PICK x \in {"stopEnd", "check"} :
          mpc' = [mpc EXCEPT ![m] = x] /\ (x = "stopEnd" => mstop[m])
    BY <1>3 DEF Poll
  <2>2. UNCHANGED <<mstop, comm, alive, cpc>>
    BY <1>3 DEF Poll
  <2> QED BY <2>1, <2>2, MoveKeepsNest DEF ManagerAt, NoThread
<1>4. CASE StopInit(m)
  BY <1>4 DEF StopInit, NestInv, ThreadTypes, Owns
<1>5. CASE JoinInit(m)
  <2>1. /\ mpc[m] \in Stopping
        /\ mpc' = [mpc EXCEPT ![m] = AfterStop[mpc[m]]]
        /\ cpc' = [cpc EXCEPT ![m] = "none"]
        /\ UNCHANGED <<mstop, comm, alive>>
    BY <1>5 DEF JoinInit
  <2>2. /\ AfterStop[mpc[m]] \in {"build", "timeout", "end"}
        /\ AfterStop[mpc[m]] = "end" => mpc[m] = "stopEnd"
    BY <2>1 DEF Stopping, AfterStop
  <2>3. ThreadTypes'
    BY <1>1, <2>1, <2>2 DEF ThreadTypes, ManagerAt, ThreadAt
  <2>4. ASSUME NEW k \in Managers
        PROVE  Owns(k)'
    <3>1. CASE k = m
      <4>1. mpc'[m] = AfterStop[mpc[m]] /\ cpc'[m] = "none"
        BY <1>1, <2>1 DEF ThreadTypes
      <4> HIDE DEF AfterStop
      <4> QED BY <1>1, <2>1, <2>2, <3>1, <4>1 DEF Owns
    <3>2. CASE k # m
      <4>1. mpc'[k] = mpc[k] /\ cpc'[k] = cpc[k] /\ Owns(k)
        BY <1>1, <2>1, <3>2 DEF ThreadTypes, NestInv
      <4> QED BY <2>1, <4>1 DEF Owns
    <3> QED BY <3>1, <3>2
  <2> QED BY <2>1, <2>3, <2>4 DEF NestInv
<1>6. CASE Build(m)
  <2> DEFINE o == IF comm[m] = <<m, 0>> THEN <<m, 1>> ELSE <<m, 0>>
  <2>1. /\ mpc[m] = "build" /\ mpc' = [mpc EXCEPT ![m] = "spawn"]
        /\ alive' = (alive \ {comm[m]}) \cup {o}
        /\ comm' = [comm EXCEPT ![m] = o]
        /\ UNCHANGED <<mstop, cpc>>
    BY <1>6 DEF Build
  <2>2. o \in Objects /\ o # NoObject /\ o \in {<<m, 0>>, <<m, 1>>} /\ o # comm[m]
    BY Numbers DEF NoObject
  <2> HIDE DEF o
  <2>3. ThreadTypes'
    BY <1>1, <2>1, <2>2 DEF ThreadTypes, ManagerAt
  <2>4. ASSUME NEW k \in Managers
        PROVE  Owns(k)'
    <3>1. CASE k = m
      <4>1. mpc'[m] = "spawn" /\ comm'[m] = o /\ cpc'[m] = "none"
        BY <1>1, <2>1 DEF ThreadTypes, Owns, NoThread
      <4> QED BY <2>1, <2>2, <3>1, <4>1 DEF Owns
    <3>2. CASE k # m
      <4>1. mpc'[k] = mpc[k] /\ comm'[k] = comm[k] /\ Owns(k)
        BY <1>1, <2>1, <3>2 DEF ThreadTypes, NestInv
      <4>2. comm[k] # NoObject => comm[k] # comm[m]
        BY <1>1, <3>2, <4>1 DEF Owns, NoObject
      <4> QED BY <2>1, <4>1, <4>2 DEF Owns
    <3> QED BY <3>1, <3>2
  <2>5. ASSUME NEW p \in alive'
        PROVE  \E k \in Managers : p = comm'[k]
    <3>1. CASE p = o
      BY <1>1, <2>1, <3>1 DEF ThreadTypes
    <3>2. CASE p # o
      <4>1. PICK k \in Managers : p = comm[k]
        BY <2>1, <2>5, <3>2 DEF NestInv
      <4>2. k # m
        BY <2>1, <2>5, <3>2, <4>1
      <4> QED BY <1>1, <2>1, <4>1, <4>2 DEF ThreadTypes
    <3> QED BY <3>1, <3>2
  <2> QED BY <2>1, <2>2, <2>3, <2>4, <2>5 DEF NestInv
<1>7. CASE Spawn(m)
  <2>1. /\ mpc[m] = "spawn" /\ mpc' = [mpc EXCEPT ![m] = "petitioning"]
        /\ cpc' = [cpc EXCEPT ![m] = "init"]
        /\ UNCHANGED <<mstop, comm, alive>>
    BY <1>7 DEF Spawn
  <2>2. ThreadTypes'
    BY <1>1, <2>1 DEF ThreadTypes, ManagerAt, ThreadAt
  <2>3. ASSUME NEW k \in Managers
        PROVE  Owns(k)'
    <3>1. /\ mpc'[k] = IF k = m THEN "petitioning" ELSE mpc[k]
          /\ cpc'[k] = IF k = m THEN "init" ELSE cpc[k]
          /\ Owns(k)
      BY <1>1, <2>1 DEF ThreadTypes, NestInv
    <3> QED BY <2>1, <3>1 DEF Owns, NoThread
  <2> QED BY <2>1, <2>2, <2>3 DEF NestInv
<1>8. CASE End(m)
  <2>1. /\ mpc[m] = "end" /\ mpc' = [mpc EXCEPT ![m] = "done"]
        /\ alive' = alive \ {comm[m]} /\ comm' = [comm EXCEPT ![m] = NoObject]
        /\ UNCHANGED <<mstop, cpc>>
    BY <1>8 DEF End
  <2>2. ThreadTypes'
    BY <1>1, <2>1 DEF ThreadTypes, ManagerAt
  <2>3. ASSUME NEW k \in Managers
        PROVE  Owns(k)'
    <3>1. CASE k = m
      <4>1. mpc'[m] = "done" /\ comm'[m] = NoObject /\ cpc'[m] = "none" /\ mstop'[m]
        BY <1>1, <2>1 DEF ThreadTypes, Owns, NoThread
      <4> QED BY <3>1, <4>1 DEF Owns
    <3>2. CASE k # m
      <4>1. mpc'[k] = mpc[k] /\ comm'[k] = comm[k] /\ Owns(k)
        BY <1>1, <2>1, <3>2 DEF ThreadTypes, NestInv
      <4>2. comm[k] # NoObject => comm[k] # comm[m]
        BY <1>1, <3>2, <4>1 DEF Owns, NoObject
      <4> QED BY <2>1, <4>1, <4>2 DEF Owns
    <3> QED BY <3>1, <3>2
  <2>4. ASSUME NEW p \in alive'
        PROVE  \E k \in Managers : p = comm'[k]
    <3>1. PICK k \in Managers : p = comm[k]
      BY <2>1, <2>4 DEF NestInv
    <3>2. k # m
      BY <2>1, <2>4, <3>1
    <3> QED BY <1>1, <2>1, <3>1, <3>2 DEF ThreadTypes
  <2> QED BY <2>1, <2>2, <2>3, <2>4 DEF NestInv
<1> QED BY <1>2, <1>3, <1>4, <1>5, <1>6, <1>7, <1>8 DEF ManagerStep
-----------------------------------------------------------------------------
(* Handing over from one manager to the next.                              *)

\* DELETE requests that have yet to start their manager, and those that have.
Pending == {g \in Handlers : hpc[g] \in {"clear", "start"}}
Deleting == {"swap", "join"}

HandTypes ==
  /\ hpc \in [Handlers -> HandlerAt]
  /\ harg \in [Handlers -> AnyConfig \cup Managers]
  /\ started \in Managers /\ Mngr \in Managers
  /\ core \in {"running", "unloading", "unloaded"}
  /\ \A h \in Handlers : hpc[h] \in Deleting => harg[h] \in Managers
  /\ started + Cardinality(Pending) <= MaxDeletes + 1

\* A manager that runs is Mngr's, or a request has it in hand.
InHand(m) == \E h \in Handlers : hpc[h] \in Deleting /\ harg[h] = m

\* The new manager of a request is its own, not Mngr's yet, and not stopped.
Fresh(h) ==
  /\ harg[h] # Mngr /\ ~mstop[harg[h]] /\ harg[h] <= started
  /\ \A g \in Handlers : hpc[g] = "swap" /\ harg[g] = harg[h] => g = h

HandInv ==
  /\ HandTypes
  /\ Mngr <= started
  /\ \A m \in Managers : /\ mpc[m] = "none" <=> m > started
                         /\ mstop[m] => m <= started
                         /\ m <= started => m = Mngr \/ mpc[m] = "done" \/ InHand(m)
  /\ \A h \in Handlers : hpc[h] = "swap" => Fresh(h)
  /\ core = "running" => ~mstop[Mngr]
  /\ core # "running" => Quiet
  /\ core = "unloaded" => mpc[Mngr] = "done"

IndInv == NestInv /\ HandInv

LEMMA PendingFinite == IsFiniteSet(Pending) /\ Cardinality(Pending) \in Nat
BY PluginAssumption, FS_Subset, FS_CardinalityType DEF Pending

LEMMA HandInit == Init => HandInv
<1> SUFFICES ASSUME Init PROVE HandInv
  OBVIOUS
<1>1. Pending = {} /\ \A h \in Handlers : hpc[h] = "idle"
  BY DEF Init, Pending
<1>2. HandTypes
  BY <1>1, FS_EmptySet, Numbers, PluginAssumption DEF Init, HandTypes, HandlerAt, AnyConfig, Deleting
<1>3. \A m \in Managers : m > 1 <=> m # 1
  BY Numbers
<1> QED BY <1>1, <1>2, <1>3, Numbers DEF Init, HandInv

\* Steps of managers and threads leave the hands as they are.
LEMMA ThreadsKeepHand ==
  ASSUME IndInv, NEW m \in Managers, ManagerStep(m) \/ ThreadStep(m) \/ PeerStep(m)
  PROVE  HandInv'
<1>1. /\ UNCHANGED <<mstop, hpc, harg, Mngr, started, core>>
      /\ mpc' \in [Managers -> ManagerAt]
      /\ \A k \in Managers : /\ mpc'[k] = "none" <=> mpc[k] = "none"
                             /\ mpc[k] = "done" => mpc'[k] = "done"
  <2>1. CASE ManagerStep(m)
    <3>1. UNCHANGED <<mstop, hpc, harg, Mngr, started, core>>
      BY <2>1 DEF ManagerStep, Check, StopInit, JoinInit, Build, Spawn, SetPetitioning,
           BeginWait, EndWait, SetTimeout, ClearFlag, Poll, End
    <3>2. mpc' = mpc \/ \E x \in ManagerAt : /\ mpc' = [mpc EXCEPT ![m] = x]
                                             /\ x # "none" /\ mpc[m] \notin {"none", "done"}
      <4> USE DEF MGoto, ManagerAt
      <4>1. CASE Check(m)
        BY <4>1 DEF Check
      <4>4. CASE StopInit(m) \/ Build(m) \/ Spawn(m) \/ SetPetitioning(m)
        BY <4>4 DEF StopInit, Build, Spawn, SetPetitioning
      <4>2. CASE JoinInit(m)
        <5>1. mpc[m] \in Stopping /\ mpc' = [mpc EXCEPT ![m] = AfterStop[mpc[m]]]
          BY <4>2 DEF JoinInit
        <5>2. AfterStop[mpc[m]] \in {"build", "timeout", "end"} /\ mpc[m] \notin {"none", "done"}
          BY <5>1 DEF Stopping, AfterStop
        <5> QED BY <5>1, <5>2
      <4>3. CASE BeginWait(m) \/ EndWait(m) \/ SetTimeout(m) \/ ClearFlag(m) \/ Poll(m) \/ End(m)
        BY <4>3 DEF BeginWait, EndWait, SetTimeout, ClearFlag, Poll, End
      <4> QED BY <2>1, <4>1, <4>2, <4>3, <4>4 DEF ManagerStep
    <3> QED BY <3>1, <3>2 DEF IndInv, NestInv, ThreadTypes
  <2>2. CASE ThreadStep(m) \/ PeerStep(m)
    BY <2>2, ThreadEffect DEF IndInv, NestInv, ThreadTypes, ManagerAt
  <2> QED BY <2>1, <2>2
<1>2. Pending' = Pending
  BY <1>1 DEF Pending
<1>3. HandTypes'
  BY <1>1, <1>2 DEF IndInv, HandInv, HandTypes
<1>4. \A k \in Managers : InHand(k)' <=> InHand(k)
  BY <1>1 DEF InHand
<1>5. \A h \in Handlers : Fresh(h)' <=> Fresh(h)
  BY <1>1 DEF Fresh
<1>6. Quiet' <=> Quiet
  BY <1>1 DEF Quiet
<1>7. Mngr \in Managers
  BY DEF IndInv, HandInv, HandTypes
<1> QED BY <1>1, <1>3, <1>4, <1>5, <1>6, <1>7 DEF IndInv, HandInv

\* A request moves on, neither starting, swapping nor joining a manager.
LEMMA MoveKeepsHand ==
  ASSUME IndInv, NEW h \in Handlers, core = "running",
         NEW x \in HandlerAt \ Deleting, hpc' = [hpc EXCEPT ![h] = x],
         hpc[h] \in Deleting => mpc[harg[h]] = "done",
         harg' \in [Handlers -> AnyConfig \cup Managers],
         \A g \in Handlers : g # h => harg'[g] = harg[g],
         started + Cardinality(Pending') <= MaxDeletes + 1,
         UNCHANGED <<mpc, mstop, Mngr, started, core>>
  PROVE  HandInv'
<1> USE DEF IndInv, HandInv
<1>1. \A g \in Handlers : hpc'[g] = IF g = h THEN x ELSE hpc[g]
  BY DEF HandTypes
<1>2. HandTypes'
  BY <1>1 DEF HandTypes
<1>3. \A k \in Managers : InHand(k) => InHand(k)' \/ mpc[k] = "done"
  BY <1>1 DEF InHand
<1>4. \A g \in Handlers : hpc'[g] = "swap" => Fresh(g)'
  BY <1>1 DEF Fresh, Deleting
<1> QED BY <1>2, <1>3, <1>4

LEMMA RequestKeepsHand ==
  ASSUME IndInv, NEW h \in Handlers, Request(h)
  PROVE  HandInv'
<1> USE DEF HGoto
<1>1. core = "running" /\ hpc[h] = "idle" /\ UNCHANGED <<mpc, mstop, Mngr, started, core>>
  BY DEF Request, BeginPost, BeginDelete
<1>2. CASE BeginPost(h)
  <2>1. PICK x \in {"address", "rejected"} : hpc' = [hpc EXCEPT ![h] = x]
    BY <1>2 DEF BeginPost
  <2>2. PICK c \in Configs : harg' = [harg EXCEPT ![h] = c]
    BY <1>2 DEF BeginPost
  <2>3. Pending' = Pending
    BY <1>1, <2>1 DEF Pending, IndInv, HandInv, HandTypes
  <2>4. harg' \in [Handlers -> AnyConfig \cup Managers]
        /\ \A g \in Handlers : g # h => harg'[g] = harg[g]
    BY <2>2 DEF IndInv, HandInv, HandTypes, AnyConfig
  <2>5. started + Cardinality(Pending') <= MaxDeletes + 1
    BY <2>3 DEF IndInv, HandInv, HandTypes
  <2> QED BY <1>1, <2>1, <2>4, <2>5, MoveKeepsHand DEF HandlerAt, Deleting
<1>3. CASE BeginDelete(h)
  <2>1. hpc' = [hpc EXCEPT ![h] = "clear"] /\ harg' = harg
        /\ started + Cardinality(Pending) <= MaxDeletes
    BY <1>3 DEF BeginDelete, Pending
  <2>2. Pending' = Pending \cup {h}
    BY <2>1 DEF Pending, IndInv, HandInv, HandTypes
  <2>3. Cardinality(Pending') <= Cardinality(Pending) + 1 /\ Cardinality(Pending') \in Nat
    BY <2>2, PendingFinite, FS_AddElement, FS_CardinalityType
  <2>4. started + Cardinality(Pending') <= MaxDeletes + 1
    BY <2>1, <2>3, PendingFinite, PluginAssumption, Numbers DEF IndInv, HandInv, HandTypes
  <2> QED BY <1>1, <2>1, <2>4, MoveKeepsHand DEF HandlerAt, Deleting, IndInv, HandInv, HandTypes
<1> QED BY <1>2, <1>3 DEF Request

LEMMA HandlerKeepsHand ==
  ASSUME IndInv, NEW h \in Handlers, HandlerStep(h)
  PROVE  HandInv'
<1> USE DEF HGoto
<1>1. hpc[h] # "idle"
  BY DEF HandlerStep, RejectPost, CopyAddress, ComputePskc, RaiseFlag, UpdateJson,
         ClearArguments, StartManager, SwapManager, JoinManager
<1>2. core = "running"
  BY <1>1 DEF IndInv, HandInv, Quiet
<1>3. HandTypes /\ hpc \in [Handlers -> HandlerAt]
      /\ started + Cardinality(Pending) <= MaxDeletes + 1
  BY DEF IndInv, HandInv, HandTypes
<1>4. CASE RejectPost(h) \/ CopyAddress(h) \/ ComputePskc(h) \/ RaiseFlag(h) \/ UpdateJson(h)
           \/ ClearArguments(h)
  <2>1. PICK x \in {"idle", "pskc", "raise", "json", "start"} :
          /\ hpc' = [hpc EXCEPT ![h] = x]
          /\ hpc[h] \notin Deleting
          /\ x = "start" <=> hpc[h] = "clear"
          /\ hpc[h] # "start"
    BY <1>4 DEF RejectPost, CopyAddress, ComputePskc, RaiseFlag, UpdateJson, ClearArguments,
         Deleting
  <2>2. UNCHANGED <<mpc, mstop, Mngr, started, core, harg>>
    BY <1>4 DEF RejectPost, CopyAddress, ComputePskc, RaiseFlag, UpdateJson, ClearArguments
  <2>3. Pending' = Pending
    BY <1>3, <2>1 DEF Pending
  <2> QED BY <1>2, <1>3, <2>1, <2>2, <2>3, MoveKeepsHand DEF HandlerAt, HandTypes, Deleting
<1>5. CASE JoinManager(h)
  <2>1. /\ hpc[h] = "join" /\ hpc' = [hpc EXCEPT ![h] = "idle"]
        /\ mpc[harg[h]] = "done" /\ harg' = [harg EXCEPT ![h] = NoConfig]
        /\ UNCHANGED <<mpc, mstop, Mngr, started, core>>
    BY <1>5 DEF JoinManager
  <2>2. Pending' = Pending
    BY <1>3, <2>1 DEF Pending
  <2>3. harg' \in [Handlers -> AnyConfig \cup Managers]
        /\ \A g \in Handlers : g # h => harg'[g] = harg[g]
    BY <1>3, <2>1 DEF HandTypes, AnyConfig
  <2> QED BY <1>2, <1>3, <2>1, <2>2, <2>3, MoveKeepsHand DEF HandlerAt, Deleting
<1>6. CASE StartManager(h)
  <2> DEFINE m == started + 1
  <2>1. /\ hpc[h] = "start" /\ hpc' = [hpc EXCEPT ![h] = "swap"]
        /\ mpc' = [mpc EXCEPT ![m] = "check"] /\ started' = m
        /\ harg' = [harg EXCEPT ![h] = m]
        /\ UNCHANGED <<mstop, Mngr, core>>
    BY <1>6 DEF StartManager
  <2>2. Pending' = Pending \ {h} /\ h \in Pending
    BY <1>3, <2>1 DEF Pending
  <2>3. Cardinality(Pending') = Cardinality(Pending) - 1 /\ Cardinality(Pending') \in Nat
    BY <2>2, PendingFinite, FS_RemoveElement, FS_CardinalityType
  <2>4. m \in Managers /\ m > started /\ started' + Cardinality(Pending') <= MaxDeletes + 1
    BY <1>3, <2>1, <2>3, PendingFinite, PluginAssumption DEF HandTypes, Managers
  <2>5. mpc[m] = "none" /\ ~mstop[m] /\ m # Mngr
    BY <2>4, Numbers DEF IndInv, HandInv, HandTypes, Managers
  <2> HIDE DEF m
  <2>6. \A g \in Handlers : /\ hpc'[g] = IF g = h THEN "swap" ELSE hpc[g]
                            /\ harg'[g] = IF g = h THEN m ELSE harg[g]
    BY <1>3, <2>1 DEF HandTypes
  <2>7. HandTypes'
    BY <1>3, <2>1, <2>4, <2>6 DEF HandTypes, HandlerAt
  <2>8. \A k \in Managers : mpc'[k] = IF k = m THEN "check" ELSE mpc[k]
    BY <2>1 DEF IndInv, NestInv, ThreadTypes
  <2>9. \A k \in Managers : k > started' <=> k > started /\ k # m
    <3>1. started \in Nat /\ m = started + 1 /\ started' = m /\ \A k \in Managers : k \in Nat
      BY <1>3, <2>1, Numbers DEF HandTypes, m
    <3> QED BY <3>1
  <2>10. \A k \in Managers : InHand(k) => InHand(k)'
    BY <2>1, <2>6 DEF InHand, Deleting
  <2>11. \E g \in Handlers : hpc'[g] \in Deleting /\ harg'[g] = m
    BY <2>6 DEF Deleting
  <2>12. ASSUME NEW k \in Managers
         PROVE  /\ mpc'[k] = "none" <=> k > started'
                /\ mstop'[k] => k <= started'
                /\ k <= started' => k = Mngr' \/ mpc'[k] = "done" \/ InHand(k)'
    <3>1. k \in Nat /\ started \in Nat /\ started' \in Nat
      BY <1>3, <2>1, <2>4, Numbers DEF HandTypes, m
    <3>2. k <= started' => k <= started \/ k = m
      BY <2>9, <3>1
    <3>3. k <= started => k <= started' /\ k # m
      BY <2>4, <2>9, <3>1
    <3>4. /\ mpc[k] = "none" <=> k > started
          /\ mstop[k] => k <= started
          /\ k <= started => k = Mngr \/ mpc[k] = "done" \/ InHand(k)
      BY DEF IndInv, HandInv
    <3>5. CASE k = m
      BY <2>1, <2>4, <2>5, <2>8, <2>9, <2>11, <3>1, <3>5 DEF InHand
    <3>6. CASE k # m
      BY <2>1, <2>8, <2>9, <2>10, <3>2, <3>3, <3>4, <3>6
    <3> QED BY <3>5, <3>6
  <2>13. ASSUME NEW g \in Handlers, hpc'[g] = "swap"
         PROVE  Fresh(g)'
    <3>1. CASE g = h
      <4>1. \A f \in Handlers : hpc[f] = "swap" => harg[f] # m
        BY <1>3, <2>4, Numbers DEF IndInv, HandInv, Fresh, HandTypes, Deleting
      <4>2. started' = m /\ m <= m
        BY <2>1, <2>4, Numbers
      <4> QED BY <2>1, <2>5, <2>6, <3>1, <4>1, <4>2 DEF Fresh
    <3>2. CASE g # h
      <4>1. hpc[g] = "swap" /\ harg'[g] = harg[g] /\ Fresh(g)
        BY <2>6, <2>13, <3>2 DEF IndInv, HandInv
      <4>2. harg[g] # m /\ harg[g] <= started'
        BY <1>3, <2>1, <2>4, <4>1, Numbers DEF Fresh, HandTypes, Deleting
      <4> QED BY <2>1, <2>6, <3>2, <4>1, <4>2 DEF Fresh
    <3> QED BY <3>1, <3>2
  <2>14. Mngr' <= started' /\ (core' = "running" => ~mstop'[Mngr']) /\ core' = "running"
    BY <1>2, <1>3, <2>1, <2>4, Numbers DEF IndInv, HandInv, HandTypes
  <2> QED BY <2>7, <2>12, <2>13, <2>14 DEF HandInv
<1>7. CASE SwapManager(h)
  <2> DEFINE m == harg[h]
  <2>1. /\ hpc[h] = "swap" /\ hpc' = [hpc EXCEPT ![h] = "join"]
        /\ Mngr' = m /\ mstop' = [mstop EXCEPT ![Mngr] = TRUE]
        /\ harg' = [harg EXCEPT ![h] = Mngr]
        /\ UNCHANGED <<mpc, started, core>>
    BY <1>7 DEF SwapManager
  <2>2. m \in Managers /\ Fresh(h) /\ Mngr \in Managers
    BY <2>1 DEF IndInv, HandInv, HandTypes, Deleting
  <2> HIDE DEF m
  <2>3. Pending' = Pending
    BY <1>3, <2>1 DEF Pending
  <2>4. \A g \in Handlers : /\ hpc'[g] = IF g = h THEN "join" ELSE hpc[g]
                            /\ harg'[g] = IF g = h THEN Mngr ELSE harg[g]
    BY <1>3, <2>1 DEF HandTypes
  <2>5. HandTypes'
    BY <1>3, <2>1, <2>2, <2>3, <2>4 DEF HandTypes, HandlerAt
  <2>6. \A k \in Managers : mstop'[k] = IF k = Mngr THEN TRUE ELSE mstop[k]
    BY <2>1 DEF IndInv, NestInv, ThreadTypes
  <2>7. \A k \in Managers : k # m /\ InHand(k) => InHand(k)'
    BY <2>1, <2>4 DEF InHand, m
  <2>8. \E g \in Handlers : hpc'[g] \in Deleting /\ harg'[g] = Mngr
    BY <2>4 DEF Deleting
  <2>9. ASSUME NEW k \in Managers
        PROVE  /\ mpc'[k] = "none" <=> k > started'
               /\ mstop'[k] => k <= started'
               /\ k <= started' => k = Mngr' \/ mpc'[k] = "done" \/ InHand(k)'
    <3>1. k = Mngr => InHand(k)'
      BY <2>8 DEF InHand
    <3>2. /\ mpc[k] = "none" <=> k > started
          /\ mstop[k] => k <= started
          /\ k <= started => k = Mngr \/ mpc[k] = "done" \/ InHand(k)
          /\ Mngr <= started
      BY DEF IndInv, HandInv
    <3> QED BY <2>1, <2>6, <2>7, <3>1, <3>2
  <2>10. ASSUME NEW g \in Handlers, hpc'[g] = "swap"
         PROVE  Fresh(g)'
    <3>1. g # h /\ hpc[g] = "swap" /\ harg'[g] = harg[g] /\ Fresh(g) /\ harg[g] \in Managers
      BY <1>3, <2>4, <2>10 DEF IndInv, HandInv, HandTypes, Deleting
    <3>2. harg[g] # m /\ harg[g] # Mngr
      BY <2>1, <2>2, <3>1 DEF Fresh, m
    <3> QED BY <2>1, <2>4, <2>6, <3>1, <3>2 DEF Fresh
  <2>11. Mngr' <= started' /\ ~mstop'[Mngr'] /\ core' = "running"
    BY <1>2, <2>1, <2>2, <2>6 DEF Fresh, m
  <2> QED BY <2>5, <2>9, <2>10, <2>11 DEF HandInv
<1> QED BY <1>4, <1>5, <1>6, <1>7 DEF HandlerStep
-----------------------------------------------------------------------------
(* Every step keeps the invariant.                                         *)

LEMMA UnloadKeepsHand ==
  ASSUME IndInv, BeginUnload \/ EndUnload
  PROVE  HandInv'
<1> USE DEF IndInv, HandInv
<1>1. /\ UNCHANGED <<mpc, hpc, harg, Mngr, started>>
      /\ \/ mstop' = [mstop EXCEPT ![Mngr] = TRUE] /\ core' = "unloading" /\ Quiet
         \/ mstop' = mstop /\ core' = "unloaded" /\ core # "running" /\ mpc[Mngr] = "done"
  BY DEF BeginUnload, EndUnload, Quiet
<1>2. Pending' = Pending /\ (Quiet' <=> Quiet)
  BY <1>1 DEF Pending, Quiet
<1>3. HandTypes'
  BY <1>1, <1>2 DEF HandTypes
<1>4. \A k \in Managers : mstop'[k] => mstop[k] \/ k = Mngr
  BY <1>1 DEF NestInv, ThreadTypes
<1>5. \A k \in Managers : InHand(k)' <=> InHand(k)
  BY <1>1 DEF InHand
<1>6. Quiet'
  BY <1>1, <1>2
<1>7. \A h \in Handlers : hpc'[h] # "swap"
  BY <1>6 DEF Quiet
<1> QED BY <1>1, <1>3, <1>4, <1>5, <1>6, <1>7

\* Requests and unloading stop managers and start new ones, nothing else.
LEMMA OthersKeepNest ==
  ASSUME IndInv,
         BeginUnload \/ EndUnload \/ \E h \in Handlers : Request(h) \/ HandlerStep(h)
  PROVE  NestInv'
<1>1. UNCHANGED <<cpc, comm, alive>>
  BY DEF BeginUnload, EndUnload, Request, BeginPost, BeginDelete, HandlerStep, RejectPost,
     CopyAddress, ComputePskc, RaiseFlag, UpdateJson, ClearArguments, StartManager,
     SwapManager, JoinManager
<1>2. mstop' = mstop \/ mstop' = [mstop EXCEPT ![Mngr] = TRUE]
  BY DEF BeginUnload, EndUnload, Request, BeginPost, BeginDelete, HandlerStep, RejectPost,
     CopyAddress, ComputePskc, RaiseFlag, UpdateJson, ClearArguments, StartManager,
     SwapManager, JoinManager
<1>3. mpc' = mpc \/ mpc' = [mpc EXCEPT ![started + 1] = "check"]
  BY DEF BeginUnload, EndUnload, Request, BeginPost, BeginDelete, HandlerStep, RejectPost,
     CopyAddress, ComputePskc, RaiseFlag, UpdateJson, ClearArguments, StartManager,
     SwapManager, JoinManager
<1>4. ThreadTypes'
  BY <1>1, <1>2, <1>3 DEF IndInv, NestInv, ThreadTypes, ManagerAt
<1>5. ASSUME NEW k \in Managers
      PROVE  Owns(k)'
  <2>1. Owns(k) /\ (mstop[k] => mstop'[k])
    BY <1>2 DEF IndInv, NestInv, ThreadTypes
  <2>2. mpc'[k] = mpc[k] \/ (mpc[k] = "none" /\ mpc'[k] = "check")
    <3>1. k = started + 1 => mpc[k] = "none"
      BY Numbers DEF IndInv, HandInv, HandTypes
    <3> QED BY <1>3, <3>1 DEF IndInv, NestInv, ThreadTypes
  <2> QED BY <1>1, <2>1, <2>2 DEF Owns, NoThread
<1> QED BY <1>1, <1>4, <1>5 DEF IndInv, NestInv

LEMMA StepKeeps == IndInv /\ [Next]_vars => IndInv'
<1> SUFFICES ASSUME IndInv, [Next]_vars PROVE IndInv'
  OBVIOUS
<1>1. ASSUME NEW m \in Managers, ManagerStep(m) \/ ThreadStep(m) \/ PeerStep(m)
      PROVE  IndInv'
  BY <1>1, ManagerKeepsNest, ThreadKeepsNest, ThreadsKeepHand DEF IndInv
<1>2. ASSUME NEW h \in Handlers, Request(h) \/ HandlerStep(h)
      PROVE  IndInv'
  BY <1>2, OthersKeepNest, RequestKeepsHand, HandlerKeepsHand DEF IndInv
<1>3. CASE BeginUnload \/ EndUnload
  BY <1>3, OthersKeepNest, UnloadKeepsHand DEF IndInv
<1>4. CASE UNCHANGED vars
  <2>1. UNCHANGED <<mpc, mstop, comm, cpc, alive, hpc, harg, started, Mngr, core>>
    BY <1>4 DEF vars
  <2>2. NestInv'
    BY <2>1 DEF IndInv, NestInv, ThreadTypes, Owns
  <2>3. HandInv'
    BY <2>1 DEF IndInv, HandInv, HandTypes, Pending, InHand, Fresh, Quiet
  <2> QED BY <2>2, <2>3 DEF IndInv
<1> QED BY <1>1, <1>2, <1>3, <1>4 DEF Next

\* What is known of managers, threads and requests holds in every reachable
\* state.
THEOREM PluginInvariant == Spec => []IndInv
<1>1. Init => IndInv
  BY NestInit, HandInit DEF IndInv
<1> QED BY <1>1, StepKeeps, PTL DEF Spec

\* However many managers overlap, each outlives the commissioner thread it
\* started, and the Commissioner it built exists as long as that thread runs:
\* ~Thread joins before the object is replaced or deleted (comm.cpp:44, 65).
THEOREM JoinsNest == Spec => []ThreadsNest
<1>1. IndInv => ThreadsNest
  <2> SUFFICES ASSUME IndInv, NEW m \in Managers, Running(m)
               PROVE  Managing(m) /\ comm[m] \in alive
    BY DEF ThreadsNest
  <2>1. Owns(m) /\ cpc[m] # "none"
    BY DEF IndInv, NestInv, Running
  <2> QED BY <2>1 DEF Owns, NoThread, Managing
<1> QED BY <1>1, PluginInvariant, PTL

\* Between requests exactly one manager runs, Mngr's, whatever the order in
\* which overlapping DELETEs started, swapped and joined theirs.
THEOREM OneIsLeft == Spec => []OneManager
<1>1. IndInv => OneManager
  <2> SUFFICES ASSUME IndInv, Quiet, core = "running", NEW m \in Managers
               PROVE  Managing(m) <=> m = Mngr
    BY DEF OneManager
  <2>1. ~InHand(m)
    BY DEF Quiet, InHand, Deleting
  <2>2. CASE m = Mngr
    <3>1. Owns(m) /\ ~mstop[m] /\ m <= started /\ started \in Nat /\ m \in Nat
      BY <2>2, Numbers DEF IndInv, NestInv, HandInv, HandTypes
    <3>2. mpc[m] # "none" /\ mpc[m] # "done"
      BY <3>1 DEF IndInv, HandInv, Owns
    <3> QED BY <2>2, <3>2 DEF Managing
  <2>3. CASE m # Mngr
    <3>1. started \in Nat /\ m \in Nat
      BY Numbers DEF IndInv, HandInv, HandTypes
    <3> QED BY <2>1, <2>3, <3>1 DEF IndInv, HandInv, Managing
  <2> QED BY <2>2, <2>3
<1> QED BY <1>1, PluginInvariant, PTL

\* Once ~CommissionerPlugin has returned, no manager and no commissioner thread
\* runs, and every Commissioner has been deleted, DELETEs before included.
THEOREM UnloadsClean == Spec => []CleanUnload
<1>1. IndInv => CleanUnload
  <2> SUFFICES ASSUME IndInv, core = "unloaded"
               PROVE  alive = {} /\ \A m \in Managers : ~Running(m) /\ ~Managing(m)
    BY DEF CleanUnload
  <2>1. ASSUME NEW m \in Managers
        PROVE  mpc[m] \in {"none", "done"}
    <3>1. started \in Nat /\ m \in Nat /\ ~InHand(m)
      BY Numbers DEF IndInv, HandInv, HandTypes, Quiet, InHand, Deleting
    <3> QED BY <3>1 DEF IndInv, HandInv
  <2>2. \A m \in Managers : cpc[m] = "none" /\ comm[m] = NoObject
    BY <2>1 DEF IndInv, NestInv, Owns, NoThread
  <2>3. alive = {}
    BY <2>2 DEF IndInv, NestInv
  <2> QED BY <2>1, <2>2, <2>3 DEF Running, Managing
<1> QED BY <1>1, PluginInvariant, PTL
-----------------------------------------------------------------------------
(* The types of the other variables.                                       *)

Contents == [pskc : AnyConfig, addr : AnyConfig, valid : BOOLEAN]
Posting  == {"address", "rejected", "pskc", "raise", "json"}

OtherTypes ==
  /\ mPSKcBin \in AnyConfig /\ mAgentAddress \in AnyConfig
  /\ json_obj \in AnyConfig /\ mParametersChanged \in BOOLEAN
  /\ status \in Statuses
  /\ commissioner \in Objects \cup {NoObject}
  /\ cstop \in [Managers -> BOOLEAN]
  /\ object \in [Objects -> Contents]
  /\ alive \subseteq Objects
  /\ posts \in 0 .. MaxPosts
  /\ late \in BOOLEAN /\ undefined \in BOOLEAN
  /\ \A h \in Handlers : hpc[h] \in Posting => harg[h] \in AnyConfig

LEMMA TypesAre == IndInv /\ OtherTypes => TypeOK
BY DEF IndInv, NestInv, ThreadTypes, HandInv, HandTypes, OtherTypes, TypeOK, Contents

LEMMA OtherTypesInit == Init => OtherTypes
<1> SUFFICES ASSUME Init PROVE OtherTypes
  OBVIOUS
<1>1. NoConfig \in AnyConfig /\ 0 \in 0 .. MaxPosts
  BY PluginAssumption DEF AnyConfig
<1>2. /\ mParametersChanged \in BOOLEAN /\ status \in Statuses
      /\ cstop \in [Managers -> BOOLEAN]
  BY PluginAssumption DEF Init, Statuses
<1>3. object \in [Objects -> Contents]
  <2>1. [pskc |-> NoConfig, addr |-> NoConfig, valid |-> FALSE] \in Contents
    BY <1>1 DEF Contents
  <2> QED BY <2>1 DEF Init
<1>4. \A h \in Handlers : hpc[h] \notin Posting
  BY DEF Init, Posting
<1> QED BY <1>1, <1>2, <1>3, <1>4 DEF Init, OtherTypes

\* Changing a field of a Commissioner.
LEMMA FieldTypes ==
  ASSUME object \in [Objects -> Contents], NEW o \in Objects
  PROVE  /\ \A x \in AnyConfig : [object EXCEPT ![o].addr = x] \in [Objects -> Contents]
         /\ \A x \in BOOLEAN : [object EXCEPT ![o].valid = x] \in [Objects -> Contents]
BY DEF Contents

LEMMA ThreadKeepsOther ==
  ASSUME IndInv, OtherTypes, NEW m \in Managers, ThreadStep(m) \/ PeerStep(m)
  PROVE  OtherTypes'
<1>1. UNCHANGED <<hpc, harg>>
  BY ThreadEffect DEF IndInv
<1>2. /\ UNCHANGED <<argVars, commissioner, alive, posts, late, cstop>>
      /\ undefined' \in BOOLEAN /\ status' \in Statuses
      /\ object' \in [Objects -> Contents]
  <2> USE DEF Defined, Statuses, OtherTypes
  <2>1. commissioner \in alive => commissioner \in Objects
    OBVIOUS
  <2>2. CASE undefined' = undefined
    <3>1. CASE InitDtls(m)
      BY <2>1, <2>2, <3>1, FieldTypes DEF InitDtls, CallsOn
    <3>2. CASE HandshakeResult(m)
      <4>1. PICK ok \in BOOLEAN : object' = [object EXCEPT ![commissioner].valid = ok]
        BY <3>2, Zenon DEF HandshakeResult
      <4>2. commissioner \in alive /\ commissioner \in Objects
        BY <2>1, <3>2 DEF HandshakeResult, CallsOn
      <4>3. object' \in [Objects -> Contents]
        BY <4>1, <4>2, FieldTypes
      <4>4. UNCHANGED <<argVars, cstop, commissioner, alive, httpVars, status, late>>
        BY <3>2, Zenon DEF HandshakeResult
      <4> QED BY <2>2, <4>3, <4>4
    <3>3. CASE ProcessReturns(m, "body") \/ ProcessReturns(m, "reading")
      <4>1. PICK v \in BOOLEAN : object' = [object EXCEPT ![commissioner].valid = v]
        BY <3>3, Zenon DEF ProcessReturns
      <4>2. commissioner \in alive /\ commissioner \in Objects
        BY <2>1, <3>3 DEF ProcessReturns, CallsOn
      <4>3. object' \in [Objects -> Contents]
        BY <4>1, <4>2, FieldTypes
      <4>4. UNCHANGED <<argVars, cstop, commissioner, alive, httpVars, status, late>>
        BY <3>3, Zenon DEF ProcessReturns
      <4> QED BY <2>2, <4>3, <4>4
    <3>4. object \in [Objects -> Contents] /\ undefined \in BOOLEAN /\ status \in Statuses
      BY DEF OtherTypes
    <3>5. CASE \/ HandshakeStopped(m) \/ Validate(m) \/ SetPetitioningError(m)
               \/ NotifyPetition(m) \/ SetActive(m) \/ LoopTest(m)
      <4>1. CASE HandshakeStopped(m)
        BY <2>2, <3>4, <4>1 DEF HandshakeStopped, argVars, heapVars, httpVars, Statuses
      <4>2. CASE Validate(m)
        BY <2>2, <3>4, <4>2 DEF Validate, argVars, heapVars, httpVars, Statuses
      <4>3. CASE SetPetitioningError(m)
        BY <2>2, <3>4, <4>3 DEF SetPetitioningError, argVars, heapVars, httpVars, Statuses
      <4>4. CASE NotifyPetition(m)
        BY <2>2, <3>4, <4>4 DEF NotifyPetition, argVars, heapVars, httpVars, Statuses
      <4>5. CASE SetActive(m)
        BY <2>2, <3>4, <4>5 DEF SetActive, argVars, heapVars, httpVars, Statuses
      <4>6. CASE LoopTest(m)
        BY <2>2, <3>4, <4>6 DEF LoopTest, argVars, heapVars, httpVars, Statuses
      <4> QED BY <3>5, <4>1, <4>2, <4>3, <4>4, <4>5, <4>6
    <3>6. CASE SelectFails(m) \/ ReadBlocks(m) \/ Exit(m)
      BY <2>2, <3>6 DEF SelectFails, ReadBlocks, Exit
    <3>7. CASE Dangling(m)
      BY <2>2, <3>7 DEF Dangling
    <3> QED BY <3>1, <3>2, <3>3, <3>4, <3>5, <3>6, <3>7 DEF ThreadStep, PeerStep
  <2>3. CASE Dangling(m)
    BY <2>3 DEF Dangling
  <2> QED BY <2>2, <2>3 DEF ThreadStep, PeerStep
<1> QED BY <1>1, <1>2 DEF OtherTypes

LEMMA ManagerKeepsOther ==
  ASSUME IndInv, OtherTypes, NEW m \in Managers, ManagerStep(m)
  PROVE  OtherTypes'
<1>1. /\ UNCHANGED <<mPSKcBin, mAgentAddress, json_obj, hpc, harg, posts, undefined>>
      /\ mParametersChanged' \in BOOLEAN /\ status' \in Statuses /\ late' \in BOOLEAN
  BY DEF ManagerStep, Check, StopInit, JoinInit, Build, Spawn, SetPetitioning, BeginWait,
     EndWait, SetTimeout, ClearFlag, Poll, End, Defined, OtherTypes, Statuses
<1>2. cstop' \in [Managers -> BOOLEAN]
  BY DEF ManagerStep, Check, StopInit, JoinInit, Build, Spawn, SetPetitioning, BeginWait,
     EndWait, SetTimeout, ClearFlag, Poll, End, OtherTypes
<1>3. /\ commissioner' \in Objects \cup {NoObject} /\ alive' \subseteq Objects
      /\ object' \in [Objects -> Contents]
  <2>1. CASE Build(m)
    <3> DEFINE o == IF comm[m] = <<m, 0>> THEN <<m, 1>> ELSE <<m, 0>>
               c == [pskc |-> mPSKcBin, addr |-> NoConfig, valid |-> FALSE]
    <3>1. o \in Objects /\ c \in Contents
      BY Numbers DEF OtherTypes, Contents, AnyConfig
    <3>2. /\ object' = [object EXCEPT ![o] = c] /\ commissioner' = o
          /\ alive' = (alive \ {comm[m]}) \cup {o}
      BY <2>1 DEF Build
    <3> HIDE DEF o, c
    <3> QED BY <3>1, <3>2 DEF OtherTypes
  <2>2. CASE End(m)
    BY <2>2 DEF End, OtherTypes
  <2>3. CASE UNCHANGED heapVars
    BY <2>3 DEF OtherTypes
  <2> QED BY <2>1, <2>2, <2>3 DEF ManagerStep, Check, StopInit, JoinInit, Spawn,
             SetPetitioning, BeginWait, EndWait, SetTimeout, ClearFlag, Poll
<1> QED BY <1>1, <1>2, <1>3 DEF OtherTypes

LEMMA HandlerKeepsOther ==
  ASSUME IndInv, OtherTypes, NEW h \in Handlers, Request(h) \/ HandlerStep(h)
  PROVE  OtherTypes'
<1> USE DEF HGoto
<1>1. /\ UNCHANGED <<status, commissioner, cstop, object, alive, undefined>>
  BY DEF Request, BeginPost, BeginDelete, HandlerStep, RejectPost, CopyAddress, ComputePskc,
     RaiseFlag, UpdateJson, ClearArguments, StartManager, SwapManager, JoinManager, Defined
<1>2. /\ mPSKcBin' \in {mPSKcBin, harg[h]} /\ mAgentAddress' \in {mAgentAddress, harg[h]}
      /\ json_obj' \in {json_obj, harg[h], NoConfig}
      /\ mPSKcBin' # mPSKcBin \/ mAgentAddress' # mAgentAddress => hpc[h] \in Posting
      /\ json_obj' = json_obj \/ json_obj' = NoConfig \/ hpc[h] \in Posting
      /\ mParametersChanged' \in {mParametersChanged, TRUE}
      /\ late' \in BOOLEAN
  BY DEF Request, BeginPost, BeginDelete, HandlerStep, RejectPost, CopyAddress, ComputePskc,
     RaiseFlag, UpdateJson, ClearArguments, StartManager, SwapManager, JoinManager,
     Posting, OtherTypes
<1>3. posts' \in 0 .. MaxPosts
  BY PluginAssumption DEF Request, BeginPost, BeginDelete, HandlerStep, RejectPost, CopyAddress,
     ComputePskc, RaiseFlag, UpdateJson, ClearArguments, StartManager, SwapManager, JoinManager,
     OtherTypes
<1>4. HandTypes
  BY DEF IndInv, HandInv
<1>5. /\ \A g \in Handlers : g # h => hpc'[g] = hpc[g] /\ harg'[g] = harg[g]
      /\ hpc'[h] \in Posting => (hpc[h] \in Posting /\ harg'[h] = harg[h]) \/ harg'[h] \in Configs
  <2>1. CASE Request(h)
    BY <1>4, <2>1 DEF Request, BeginPost, BeginDelete, HandTypes, Posting
  <2>2. CASE RejectPost(h) \/ CopyAddress(h) \/ ComputePskc(h) \/ RaiseFlag(h) \/ UpdateJson(h)
    BY <1>4, <2>2 DEF RejectPost, CopyAddress, ComputePskc, RaiseFlag, UpdateJson, HandTypes, Posting
  <2>3. CASE ClearArguments(h) \/ StartManager(h) \/ SwapManager(h) \/ JoinManager(h)
    BY <1>4, <2>3 DEF ClearArguments, StartManager, SwapManager, JoinManager, HandTypes, Posting
  <2> QED BY <2>1, <2>2, <2>3 DEF HandlerStep
<1>6. /\ mPSKcBin' \in AnyConfig /\ mAgentAddress' \in AnyConfig /\ json_obj' \in AnyConfig
      /\ mParametersChanged' \in BOOLEAN
  BY <1>2 DEF OtherTypes, AnyConfig
<1>7. \A g \in Handlers : hpc'[g] \in Posting => harg'[g] \in AnyConfig
  BY <1>5 DEF OtherTypes, AnyConfig
<1> QED BY <1>1, <1>2, <1>3, <1>6, <1>7 DEF OtherTypes

LEMMA StepKeepsOther == IndInv /\ OtherTypes /\ [Next]_vars => OtherTypes'
<1> SUFFICES ASSUME IndInv, OtherTypes, [Next]_vars PROVE OtherTypes'
  OBVIOUS
<1>1. CASE BeginUnload \/ EndUnload
  BY <1>1 DEF BeginUnload, EndUnload, Defined, OtherTypes
<1>2. CASE UNCHANGED vars
  BY <1>2 DEF vars, OtherTypes
<1> QED BY <1>1, <1>2, ThreadKeepsOther, ManagerKeepsOther, HandlerKeepsOther DEF Next

-----------------------------------------------------------------------------
(* Without DELETE there is one manager.                                    *)

OwnInv == \A m \in Managers : comm[m] # NoObject => commissioner = comm[m]

LEMMA OwnKept ==
  ASSUME MaxDeletes = 0, IndInv, OwnInv, [Next]_vars
  PROVE  OwnInv'
<1>1. Managers = {1}
  BY DEF Managers
<1>2. CASE UNCHANGED <<comm, commissioner>>
  BY <1>2 DEF OwnInv
<1>3. ASSUME NEW m \in Managers, Build(m)
      PROVE  OwnInv'
  <2>1. comm'[m] = commissioner' /\ m = 1
    BY <1>1, <1>3 DEF Build, IndInv, NestInv, ThreadTypes
  <2> QED BY <1>1, <2>1 DEF OwnInv
<1>4. ASSUME NEW m \in Managers, End(m)
      PROVE  OwnInv'
  <2>1. comm'[m] = NoObject /\ m = 1
    BY <1>1, <1>4 DEF End, IndInv, NestInv, ThreadTypes
  <2> QED BY <1>1, <2>1 DEF OwnInv
<1>5. ASSUME NEW m \in Managers, ManagerStep(m) \/ ThreadStep(m) \/ PeerStep(m)
      PROVE  OwnInv'
  <2>1. CASE ManagerStep(m)
    BY <1>2, <1>3, <1>4, <2>1 DEF ManagerStep, Check, StopInit, JoinInit, Spawn,
       SetPetitioning, BeginWait, EndWait, SetTimeout, ClearFlag, Poll
  <2>2. CASE ThreadStep(m) \/ PeerStep(m)
    BY <1>2, <2>2 DEF ThreadStep, PeerStep, Dangling, InitDtls, HandshakeStopped,
       HandshakeResult, Validate, SetPetitioningError, NotifyPetition, SetActive, LoopTest,
       SelectFails, ReadBlocks, ProcessReturns, Exit
  <2> QED BY <1>5, <2>1, <2>2
<1>6. ASSUME NEW h \in Handlers, Request(h) \/ HandlerStep(h)
      PROVE  OwnInv'
  BY <1>2, <1>6 DEF Request, BeginPost, BeginDelete, HandlerStep, RejectPost, CopyAddress,
     ComputePskc, RaiseFlag, UpdateJson, ClearArguments, StartManager, SwapManager, JoinManager
<1>7. CASE BeginUnload \/ EndUnload \/ UNCHANGED vars
  BY <1>2, <1>7 DEF BeginUnload, EndUnload, vars
<1> QED BY <1>5, <1>6, <1>7 DEF Next

\* Without DELETE, what a commissioner thread reaches through the shared pointer
\* is the Commissioner its manager built for it, alive, and not about to be
\* replaced or deleted, whatever the POSTs.
THEOREM ThreadsOwnTheirs == ASSUME MaxDeletes = 0 PROVE Spec => []OwnCommissioner
<1>1. Init => OwnInv
  BY DEF Init, OwnInv
<1>2. IndInv /\ OwnInv /\ [Next]_vars => OwnInv'
  BY OwnKept
<1>3. IndInv /\ OtherTypes /\ OwnInv => OwnCommissioner
  BY TypesAre DEF IndInv, NestInv, Owns, NoThread, OwnInv, OwnCommissioner, Running
<1> QED BY <1>1, <1>2, <1>3, OtherTypesInit, StepKeepsOther, PluginInvariant, PTL DEF Spec

\* While "Timeout" is shown a thread has ended, or has just been started.
TimeoutInv ==
  status = "Timeout" =>
    \A m \in Managers : cpc[m] \in {"none", "done"} \/ mpc[m] = "petitioning"

LEMMA TimeoutKept ==
  ASSUME MaxDeletes = 0, IndInv, TimeoutInv, [Next]_vars
  PROVE  TimeoutInv'
<1>1. Managers = {1} /\ ThreadTypes
  BY DEF Managers, IndInv, NestInv
<1>2. ASSUME NEW m \in Managers, ManagerStep(m)
      PROVE  TimeoutInv'
  <2> USE <1>1, <1>2 DEF MGoto, ThreadTypes, TimeoutInv
  <2>1. CASE SetTimeout(m)
    BY <2>1 DEF SetTimeout, IndInv, NestInv, Owns, NoThread
  <2>2. CASE SetPetitioning(m)
    BY <2>2 DEF SetPetitioning
  <2>3. CASE JoinInit(m)
    BY <2>3 DEF JoinInit
  <2>4. CASE Spawn(m)
    BY <2>4 DEF Spawn
  <2>5. CASE Check(m) \/ StopInit(m) \/ Build(m) \/ BeginWait(m)
    BY <2>5 DEF Check, StopInit, Build, BeginWait
  <2>6. CASE EndWait(m) \/ ClearFlag(m) \/ Poll(m) \/ End(m)
    BY <2>6 DEF EndWait, ClearFlag, Poll, End
  <2> QED BY <2>1, <2>2, <2>3, <2>4, <2>5, <2>6 DEF ManagerStep
<1>3. ASSUME NEW m \in Managers, ThreadStep(m) \/ PeerStep(m)
      PROVE  TimeoutInv'
  <2>1. /\ status' = "Timeout" => status = "Timeout"
        /\ cpc' = cpc \/ cpc[m] \notin {"none", "done"}
    BY <1>3 DEF ThreadStep, PeerStep, Dangling, InitDtls, HandshakeStopped, CGoto,
       HandshakeResult, Validate, SetPetitioningError, NotifyPetition, SetActive, LoopTest,
       SelectFails, ReadBlocks, ProcessReturns, Exit
  <2>2. mpc' = mpc \/ (mpc[m] = "waiting" /\ mpc' = [mpc EXCEPT ![m] = "clear"])
    BY <1>3, ThreadEffect DEF IndInv
  <2> QED BY <1>1, <2>1, <2>2 DEF TimeoutInv, ThreadTypes
<1>4. ASSUME NEW h \in Handlers, Request(h) \/ HandlerStep(h)
      PROVE  TimeoutInv'
  <2>1. UNCHANGED <<status, cpc>>
    BY <1>4 DEF Request, BeginPost, BeginDelete, HandlerStep, RejectPost, CopyAddress,
       ComputePskc, RaiseFlag, UpdateJson, ClearArguments, StartManager, SwapManager, JoinManager
  <2>2. mpc' = mpc \/ mpc' = [mpc EXCEPT ![started + 1] = "check"]
    BY <1>4 DEF Request, BeginPost, BeginDelete, HandlerStep, RejectPost, CopyAddress,
       ComputePskc, RaiseFlag, UpdateJson, ClearArguments, StartManager, SwapManager, JoinManager
  <2>3. started + 1 # 1
    BY Numbers DEF IndInv, HandInv, HandTypes
  <2> QED BY <1>1, <2>1, <2>2, <2>3 DEF TimeoutInv, ThreadTypes
<1>5. CASE BeginUnload \/ EndUnload \/ UNCHANGED vars
  BY <1>5 DEF BeginUnload, EndUnload, vars, TimeoutInv
<1> QED BY <1>2, <1>3, <1>4, <1>5 DEF Next

\* Without DELETE, GET /network says "Timeout" only when the thread that timed
\* out has been joined, and no other runs but one its manager is about to
\* announce.
THEOREM TimeoutIsTrue == ASSUME MaxDeletes = 0 PROVE Spec => []TimeoutMeansStopped
<1>1. Init => TimeoutInv
  BY DEF Init, TimeoutInv
<1>2. IndInv /\ TimeoutInv /\ [Next]_vars => TimeoutInv'
  BY TimeoutKept
<1>3. TimeoutInv => TimeoutMeansStopped
  BY DEF TimeoutInv, TimeoutMeansStopped, Running
<1> QED BY <1>1, <1>2, <1>3, PluginInvariant, PTL DEF Spec
-----------------------------------------------------------------------------
(* With one client, and without DELETE, what GET shows is what was built.  *)

OneClient == MaxDeletes = 0 /\ \A g, h \in Handlers : g = h

\* From ComputePskc to UpdateJson the PSKc is the one of the request being served,
\* at all other times the one GET shows.
ShownIsCopied ==
  /\ \A h \in Handlers : hpc[h] \notin {"clear", "start", "swap", "join"}
  /\ \A h \in Handlers : hpc[h] \in {"raise", "json"} => harg[h] = mPSKcBin
  /\ (\A h \in Handlers : hpc[h] \notin {"raise", "json"}) => json_obj = mPSKcBin

\* The manager's Commissioner was built with that PSKc ...
BuiltFor == comm[1] # NoObject /\ object[comm[1]].pskc = mPSKcBin

\* ... unless none was copied yet, or the flag is about to be raised or will be seen.
BuiltInv ==
  \/ BuiltFor \/ late \/ mPSKcBin = NoConfig
  \/ \E h \in Handlers : hpc[h] = "raise"
  \/ mParametersChanged /\ mpc[1] \notin Committed
  \/ mpc[1] \in {"stopBuild", "build", "stopEnd", "end", "done"}

ServedInv == ShownIsCopied /\ BuiltInv

LEMMA NoDeleteBegins ==
  ASSUME OneClient, IndInv, NEW h \in Handlers
  PROVE  ~BeginDelete(h)
<1>1. started = 1
  BY DEF OneClient, IndInv, HandInv, HandTypes, Managers
<1>2. {g \in Handlers : hpc[g] \in {"clear", "start"}} = Pending
  BY DEF Pending
<1>3. ~(started + Cardinality(Pending) <= 0)
  BY <1>1, PendingFinite
<1> QED BY <1>2, <1>3 DEF BeginDelete, OneClient

LEMMA ManagerKeepsServed ==
  ASSUME OneClient, IndInv, OtherTypes, ServedInv, NEW m \in Managers, ManagerStep(m)
  PROVE  ServedInv'
<1>1. m = 1 /\ Managers = {1} /\ ThreadTypes
  BY DEF OneClient, Managers, IndInv, NestInv
<1>2. UNCHANGED <<mPSKcBin, json_obj, hpc, harg>>
  BY DEF ManagerStep, Check, StopInit, JoinInit, Build, Spawn, SetPetitioning, BeginWait, EndWait,
     SetTimeout, ClearFlag, Poll, End
<1>3. ShownIsCopied'
  BY <1>2 DEF ServedInv, ShownIsCopied
<1> USE <1>1, <1>2 DEF MGoto, ThreadTypes, ServedInv, BuiltInv, BuiltFor, Committed
<1>4. CASE Check(m)
  BY <1>3, <1>4 DEF Check
<1>5. CASE StopInit(m)
  BY <1>3, <1>5 DEF StopInit
<1>6. CASE JoinInit(m)
  <2>1. UNCHANGED <<argVars, comm, object, late>> /\ mpc' = [mpc EXCEPT ![m] = AfterStop[mpc[m]]]
    BY <1>6 DEF JoinInit
  <2>2. CASE mpc[m] = "stopBuild"
    BY <1>3, <2>1, <2>2 DEF AfterStop
  <2>3. CASE mpc[m] = "stopTimeout"
    BY <1>3, <2>1, <2>3 DEF AfterStop
  <2>4. CASE mpc[m] = "stopEnd"
    BY <1>3, <2>1, <2>4 DEF AfterStop
  <2> QED BY <1>6, <2>2, <2>3, <2>4 DEF JoinInit, Stopping
<1>7. CASE Build(m)
  <2> DEFINE o == IF comm[m] = <<m, 0>> THEN <<m, 1>> ELSE <<m, 0>>
  <2>1. /\ object' = [object EXCEPT ![o] = [pskc |-> mPSKcBin, addr |-> NoConfig, valid |-> FALSE]]
        /\ comm' = [comm EXCEPT ![m] = o]
    BY <1>7 DEF Build
  <2>2. o \in Objects /\ o # NoObject /\ object \in [Objects -> Contents]
    BY Numbers DEF OtherTypes
  <2> HIDE DEF o
  <2>3. comm'[1] = o /\ object'[o].pskc = mPSKcBin
    BY <2>1, <2>2
  <2> QED BY <1>3, <2>2, <2>3
<1>8. CASE Spawn(m) \/ SetPetitioning(m) \/ BeginWait(m) \/ EndWait(m) \/ SetTimeout(m)
  BY <1>3, <1>8 DEF Spawn, SetPetitioning, BeginWait, EndWait, SetTimeout
<1>9. CASE ClearFlag(m)
  BY <1>3, <1>9 DEF ClearFlag
<1>10. CASE Poll(m) \/ End(m)
  BY <1>3, <1>10 DEF Poll, End
<1> QED BY <1>4, <1>5, <1>6, <1>7, <1>8, <1>9, <1>10 DEF ManagerStep

\* The commissioner thread changes no PSKc, and wakes its manager at most.
LEMMA ThreadKeepsServed ==
  ASSUME OneClient, IndInv, OtherTypes, ServedInv, NEW m \in Managers, ThreadStep(m) \/ PeerStep(m)
  PROVE  ServedInv'
<1>1. m = 1 /\ ThreadTypes
  BY DEF OneClient, Managers, IndInv, NestInv
<1>2. UNCHANGED <<argVars, comm, hpc, harg, late>>
  BY DEF ThreadStep, PeerStep, Dangling, InitDtls, HandshakeStopped, HandshakeResult, Validate,
     SetPetitioningError, NotifyPetition, SetActive, LoopTest, SelectFails, ReadBlocks,
     ProcessReturns, Exit
<1>3. mpc' = mpc \/ (mpc[m] = "waiting" /\ mpc' = [mpc EXCEPT ![m] = "clear"])
  BY ThreadEffect DEF IndInv
<1>4. \/ object' = object
      \/ /\ commissioner \in alive
         /\ \E x : \/ object' = [object EXCEPT ![commissioner].addr = x]
                   \/ object' = [object EXCEPT ![commissioner].valid = x]
  BY DEF ThreadStep, PeerStep, Dangling, InitDtls, HandshakeStopped, HandshakeResult, Validate,
     SetPetitioningError, NotifyPetition, SetActive, LoopTest, SelectFails, ReadBlocks,
     ProcessReturns, Exit, CallsOn
<1>5. \A o \in Objects : object'[o].pskc = object[o].pskc
  <2>1. object \in [Objects -> Contents]
    BY DEF OtherTypes
  <2>2. \A o, c \in Objects : \A x : /\ [object EXCEPT ![c].addr = x][o].pskc = object[o].pskc
                                     /\ [object EXCEPT ![c].valid = x][o].pskc = object[o].pskc
    BY <2>1 DEF Contents
  <2>3. CASE object' = object
    BY <2>3
  <2>4. ASSUME commissioner \in Objects, NEW x,
               object' = [object EXCEPT ![commissioner].addr = x], NEW o \in Objects
        PROVE  object'[o].pskc = object[o].pskc
    <3>1. [object EXCEPT ![commissioner].addr = x][o].pskc = object[o].pskc
      BY <2>2, <2>4
    <3> QED BY <2>4, <3>1
  <2>5. ASSUME commissioner \in Objects, NEW x,
               object' = [object EXCEPT ![commissioner].valid = x], NEW o \in Objects
        PROVE  object'[o].pskc = object[o].pskc
    <3>1. [object EXCEPT ![commissioner].valid = x][o].pskc = object[o].pskc
      BY <2>2, <2>5
    <3> QED BY <2>5, <3>1
  <2>6. commissioner \in alive => commissioner \in Objects
    BY DEF OtherTypes
  <2> QED BY <1>4, <2>3, <2>4, <2>5, <2>6
<1>6. comm[1] # NoObject => object'[comm[1]].pskc = object[comm[1]].pskc
  BY <1>1, <1>5 DEF ThreadTypes
<1>7. BuiltFor => BuiltFor'
  BY <1>2, <1>6 DEF BuiltFor
<1>8. ShownIsCopied'
  BY <1>2 DEF ServedInv, ShownIsCopied
<1> QED BY <1>1, <1>2, <1>3, <1>7, <1>8 DEF ServedInv, BuiltInv, Committed, ThreadTypes

LEMMA HandlerKeepsServed ==
  ASSUME OneClient, IndInv, ServedInv, NEW h \in Handlers, Request(h) \/ HandlerStep(h)
  PROVE  ServedInv'
<1>1. /\ hpc \in [Handlers -> HandlerAt] /\ harg \in [Handlers -> AnyConfig \cup Managers]
      /\ \A g \in Handlers : g = h
      /\ 1 \in Managers
  BY Numbers DEF OneClient, IndInv, HandInv, HandTypes
<1>2. ~BeginDelete(h)
  BY NoDeleteBegins
<1>3. hpc[h] \notin {"clear", "start", "swap", "join"}
  BY DEF ServedInv, ShownIsCopied
<1>4. \/ BeginPost(h) \/ RejectPost(h) \/ CopyAddress(h) \/ ComputePskc(h) \/ RaiseFlag(h)
      \/ UpdateJson(h)
  BY <1>2, <1>3 DEF Request, HandlerStep, ClearArguments, StartManager, SwapManager, JoinManager,
     HGoto
<1> USE <1>1 DEF HGoto
<1>5. ShownIsCopied'
  <2> USE DEF ServedInv, ShownIsCopied
  <2>1. CASE BeginPost(h)
    BY <2>1 DEF BeginPost
  <2>2. CASE RejectPost(h) \/ CopyAddress(h) \/ RaiseFlag(h)
    BY <2>2 DEF RejectPost, CopyAddress, RaiseFlag
  <2>3. CASE ComputePskc(h)
    BY <2>3 DEF ComputePskc
  <2>4. CASE UpdateJson(h)
    BY <2>4 DEF UpdateJson
  <2> QED BY <1>4, <2>1, <2>2, <2>3, <2>4
<1>6. BuiltInv'
  <2> USE DEF ServedInv, BuiltInv, BuiltFor
  <2>1. CASE BeginPost(h) \/ RejectPost(h) \/ CopyAddress(h) \/ UpdateJson(h)
    BY <2>1 DEF BeginPost, RejectPost, CopyAddress, UpdateJson
  <2>2. CASE ComputePskc(h)
    BY <2>2 DEF ComputePskc
  <2>3. CASE RaiseFlag(h)
    BY <2>3 DEF RaiseFlag
  <2> QED BY <1>4, <2>1, <2>2, <2>3
<1> QED BY <1>5, <1>6 DEF ServedInv

LEMMA ServedStep ==
  ASSUME OneClient, IndInv, OtherTypes, ServedInv, [Next]_vars
  PROVE  ServedInv'
<1>1. CASE BeginUnload \/ EndUnload \/ UNCHANGED vars
  BY <1>1 DEF BeginUnload, EndUnload, vars, ServedInv, ShownIsCopied, BuiltInv, BuiltFor
<1> QED BY <1>1, ManagerKeepsServed, ThreadKeepsServed, HandlerKeepsServed DEF Next

\* With one client and no DELETE, the configuration GET /network shows while the
\* manager is in its loop is the one its Commissioner was built for (comm.cpp:44,
\* args_api.hpp:99 to 121), however POSTs, accepted or not, overlap the manager's
\* round, but for one that raised the flag too late.
THEOREM ShownIsServed == ASSUME OneClient PROVE Spec => []ServedUnlessLate
<1>1. Init => ServedInv
  BY DEF Init, ServedInv, ShownIsCopied, BuiltInv
<1>2. IndInv /\ OtherTypes /\ ServedInv /\ [Next]_vars => ServedInv'
  BY ServedStep
<1>3. IndInv /\ ServedInv => ServedUnlessLate
  <2> SUFFICES ASSUME IndInv, ServedInv PROVE ServedUnlessLate
    OBVIOUS
  <2>1. Mngr = 1
    BY DEF OneClient, IndInv, HandInv, HandTypes, Managers
  <2> QED BY <2>1 DEF ServedInv, ShownIsCopied, BuiltInv, BuiltFor, ServedUnlessLate, Quiet
<1> QED BY <1>1, <1>2, <1>3, OtherTypesInit, StepKeepsOther, PluginInvariant, PTL DEF Spec
=============================================================================
