------------------------------- MODULE Plugin -------------------------------
(***************************************************************************)
(* The threads of the commissioner plugin (src/comm.cpp, inc/comm.hpp,     *)
(* inc/thread_api.hpp, inc/args_api.hpp): the manager thread, the          *)
(* commissioner thread it starts for each accepted configuration, the HTTP *)
(* threads that serve POST and DELETE /network, and the unloading of the   *)
(* plugin.  DELETE starts a new manager before it stops the old one, so    *)
(* managers may overlap; they share the arguments, the status and the      *)
(* `commissioner` pointer, none of which is locked.                        *)
(*                                                                         *)
(* A Commissioner object is abstracted to what the threads ask of it: the  *)
(* configuration it was built and connected with, and IsValid().  Module   *)
(* Commissioner has its inside; StatusRegister justifies that status.Set   *)
(* is one step here.                                                       *)
(***************************************************************************)
EXTENDS Integers, FiniteSets

CONSTANTS Configs,       \* the configurations that are POSTed
          NoConfig,      \* no configuration, or uninitialised arguments
          Handlers,      \* HTTP threads
          FlagAtStart,   \* values the uninitialised mParametersChanged may have
          MaxPosts,      \* bound: POST /network requests
          MaxDeletes     \* bound: DELETE /network requests

ASSUME PluginAssumption ==
  /\ NoConfig \notin Configs
  /\ IsFiniteSet(Handlers)
  /\ FlagAtStart \subseteq BOOLEAN
  /\ MaxPosts \in Nat /\ MaxDeletes \in Nat

Managers  == 1 .. (MaxDeletes + 1)
Objects   == Managers \X {0, 1}     \* two slots: a new Commissioner is built
NoObject  == <<0, 0>>               \* before the one it replaces is deleted
AnyConfig == Configs \cup {NoConfig}

VARIABLES
  mPSKcBin, mAgentAddress,  \* fields of `arguments`
  mParametersChanged,       \* its flag
  json_obj,                 \* the configuration GET /network shows
  status,
  commissioner,             \* CommissionerPlugin::commissioner, a raw pointer
  Mngr,                     \* the manager CommissionerPlugin::Mngr owns
  started,                  \* number of managers created so far
  mpc, mstop, comm,         \* per manager: location, promise set, `Comm`
  cpc, cstop,               \* the commissioner thread `Init` of each manager
  object, alive,            \* the Commissioner objects
  hpc, harg,                \* HTTP threads: location and request argument
  posts,                    \* POSTs begun
  late,                     \* a POST raised the flag after the last build
  core,                     \* the plugin core: running, unloading, unloaded
  undefined                 \* a deleted Commissioner was used

argVars  == <<mPSKcBin, mAgentAddress, mParametersChanged, json_obj>>
mgrVars  == <<mpc, mstop, comm>>
thrVars  == <<cpc, cstop>>
heapVars == <<commissioner, object, alive>>
httpVars == <<hpc, harg, posts>>
ownVars  == <<Mngr, started, core>>
vars == <<argVars, mgrVars, thrVars, heapVars, httpVars, ownVars, status, late,
          undefined>>

Statuses == {"Disabled", "Petitioning", "Petitioning error", "Timeout",
             "Active", "Receive error"}
ManagerAt == {"none", "check", "stopBuild", "build", "spawn", "petitioning",
              "wait", "waiting", "stopTimeout", "timeout", "clear", "poll",
              "stopEnd", "end", "done"}
ThreadAt  == {"none", "init", "handshake", "validate", "error", "notify",
              "active", "loop", "body", "reading", "exit", "done"}
HandlerAt == {"idle", "address", "rejected", "pskc", "raise", "json",
              "clear", "start", "swap", "join"}

TypeOK ==
  /\ mPSKcBin \in AnyConfig /\ mAgentAddress \in AnyConfig
  /\ json_obj \in AnyConfig /\ mParametersChanged \in BOOLEAN
  /\ status \in Statuses
  /\ commissioner \in Objects \cup {NoObject}
  /\ Mngr \in Managers /\ started \in Managers
  /\ mpc \in [Managers -> ManagerAt] /\ mstop \in [Managers -> BOOLEAN]
  /\ comm \in [Managers -> Objects \cup {NoObject}]
  /\ cpc \in [Managers -> ThreadAt] /\ cstop \in [Managers -> BOOLEAN]
  /\ object \in [Objects -> [pskc : AnyConfig, addr : AnyConfig, valid : BOOLEAN]]
  /\ alive \subseteq Objects
  /\ hpc \in [Handlers -> HandlerAt]
  /\ harg \in [Handlers -> AnyConfig \cup Managers]
  /\ posts \in 0 .. MaxPosts
  /\ late \in BOOLEAN /\ undefined \in BOOLEAN
  /\ core \in {"running", "unloading", "unloaded"}

\* The constructor has set the status and started the first manager.
Init ==
  /\ mPSKcBin = NoConfig /\ mAgentAddress = NoConfig
  /\ mParametersChanged \in FlagAtStart
  /\ json_obj = NoConfig
  /\ status = "Disabled"
  /\ commissioner = NoObject
  /\ Mngr = 1 /\ started = 1
  /\ mpc = [m \in Managers |-> IF m = 1 THEN "check" ELSE "none"]
  /\ mstop = [m \in Managers |-> FALSE]
  /\ comm = [m \in Managers |-> NoObject]
  /\ cpc = [m \in Managers |-> "none"]
  /\ cstop = [m \in Managers |-> FALSE]
  /\ object = [o \in Objects |-> [pskc |-> NoConfig, addr |-> NoConfig, valid |-> FALSE]]
  /\ alive = {}
  /\ hpc = [h \in Handlers |-> "idle"]
  /\ harg = [h \in Handlers |-> NoConfig]
  /\ posts = 0
  /\ late = FALSE
  /\ core = "running"
  /\ undefined = FALSE

\* Nothing is modelled after undefined behaviour.
Defined == ~undefined /\ UNCHANGED undefined

MGoto(m, from, to) == mpc[m] = from /\ mpc' = [mpc EXCEPT ![m] = to]
CGoto(m, from, to) == cpc[m] = from /\ cpc' = [cpc EXCEPT ![m] = to]
HGoto(h, from, to) == hpc[h] = from /\ hpc' = [hpc EXCEPT ![h] = to]
-----------------------------------------------------------------------------
(* ManagerThread *)

\* Mutant of Check: the old thread is not stopped before its Commissioner is
\* replaced.
CheckKeepsThread(m) ==
  /\ MGoto(m, "check", IF mParametersChanged THEN "build" ELSE "poll")
  /\ UNCHANGED <<argVars, thrVars, heapVars, httpVars, ownVars, mstop, comm, status, late>>

Check(m) ==
  /\ MGoto(m, "check", IF mParametersChanged THEN "stopBuild" ELSE "poll")
  /\ UNCHANGED <<argVars, thrVars, heapVars, httpVars, ownVars, mstop, comm, status, late>>

\* Init.reset(nullptr), at its three places: ~Thread sets the promise ...
Stopping == {"stopBuild", "stopTimeout", "stopEnd"}
AfterStop == [stopBuild |-> "build", stopTimeout |-> "timeout", stopEnd |-> "end"]

StopInit(m) ==
  /\ mpc[m] \in Stopping
  /\ cpc[m] # "none" /\ ~cstop[m]
  /\ cstop' = [cstop EXCEPT ![m] = TRUE]
  /\ UNCHANGED <<argVars, mgrVars, cpc, heapVars, httpVars, ownVars, status, late>>

\* ... and joins.
JoinInit(m) ==
  /\ mpc[m] \in Stopping
  /\ cpc[m] = "none" \/ (cpc[m] = "done" /\ cstop[m])
  /\ mpc' = [mpc EXCEPT ![m] = AfterStop[mpc[m]]]
  /\ cpc' = [cpc EXCEPT ![m] = "none"]
  /\ cstop' = [cstop EXCEPT ![m] = FALSE]
  /\ UNCHANGED <<argVars, mstop, comm, heapVars, httpVars, ownVars, status, late>>

\* Comm.reset(new Commissioner(...)); commissioner = Comm.get().
Build(m) ==
  LET o == IF comm[m] = <<m, 0>> THEN <<m, 1>> ELSE <<m, 0>>
  IN /\ MGoto(m, "build", "spawn")
     /\ object' = [object EXCEPT ![o] =
                     [pskc |-> mPSKcBin, addr |-> NoConfig, valid |-> FALSE]]
     /\ alive' = (alive \ {comm[m]}) \cup {o}
     /\ comm' = [comm EXCEPT ![m] = o]
     /\ commissioner' = o
     /\ late' = FALSE
     /\ UNCHANGED <<argVars, mstop, thrVars, httpVars, ownVars, status>>

Spawn(m) ==
  /\ MGoto(m, "spawn", "petitioning")
  /\ cpc' = [cpc EXCEPT ![m] = "init"]
  /\ UNCHANGED <<argVars, mstop, comm, cstop, heapVars, httpVars, ownVars, status, late>>

SetPetitioning(m) ==
  /\ MGoto(m, "petitioning", "wait")
  /\ status' = "Petitioning"
  /\ UNCHANGED <<argVars, mstop, comm, thrVars, heapVars, httpVars, ownVars, late>>

\* cv.wait_for(lk, 2s): from here on a notification is seen.
BeginWait(m) ==
  /\ MGoto(m, "wait", "waiting")
  /\ UNCHANGED <<argVars, mstop, comm, thrVars, heapVars, httpVars, ownVars, status, late>>

\* Mutant of EndWait: the thread that timed out is left running.
EndWaitKeepsThread(m) ==
  /\ \/ MGoto(m, "waiting", "timeout")
     \/ MGoto(m, "waiting", "clear")
  /\ UNCHANGED <<argVars, mstop, comm, thrVars, heapVars, httpVars, ownVars, status, late>>

\* The wait ends by itself: the two seconds are over, or a spurious wake-up,
\* which the code does not tell from a notification.
EndWait(m) ==
  /\ \/ MGoto(m, "waiting", "stopTimeout")
     \/ MGoto(m, "waiting", "clear")
  /\ UNCHANGED <<argVars, mstop, comm, thrVars, heapVars, httpVars, ownVars, status, late>>

SetTimeout(m) ==
  /\ MGoto(m, "timeout", "clear")
  /\ status' = "Timeout"
  /\ UNCHANGED <<argVars, mstop, comm, thrVars, heapVars, httpVars, ownVars, late>>

ClearFlag(m) ==
  /\ MGoto(m, "clear", "poll")
  /\ mParametersChanged' = FALSE
  /\ UNCHANGED <<mPSKcBin, mAgentAddress, json_obj, mstop, comm, thrVars, heapVars,
                 httpVars, ownVars, status, late>>

\* Mutant of Poll: the thread is not stopped before the manager returns.
PollKeepsThread(m) ==
  /\ MGoto(m, "poll", IF mstop[m] THEN "end" ELSE "check")
  /\ status' = IF mstop[m] THEN "Disabled" ELSE status
  /\ UNCHANGED <<argVars, mstop, comm, thrVars, heapVars, httpVars, ownVars, late>>

Poll(m) ==
  /\ MGoto(m, "poll", IF mstop[m] THEN "stopEnd" ELSE "check")
  /\ status' = IF mstop[m] THEN "Disabled" ELSE status
  /\ UNCHANGED <<argVars, mstop, comm, thrVars, heapVars, httpVars, ownVars, late>>

\* Comm.reset(nullptr); return.
End(m) ==
  /\ MGoto(m, "end", "done")
  /\ alive' = alive \ {comm[m]}
  /\ comm' = [comm EXCEPT ![m] = NoObject]
  /\ UNCHANGED <<argVars, mstop, thrVars, commissioner, object, httpVars, ownVars, status, late>>

ManagerStep(m) ==
  /\ Defined
  /\ \/ Check(m) \/ StopInit(m) \/ JoinInit(m) \/ Build(m) \/ Spawn(m)
     \/ SetPetitioning(m) \/ BeginWait(m) \/ EndWait(m) \/ SetTimeout(m)
     \/ ClearFlag(m) \/ Poll(m) \/ End(m)
-----------------------------------------------------------------------------
(* CommissionerThread.  It reads the shared pointer afresh at every call.  *)

Derefs == {"init", "handshake", "validate", "notify", "loop", "body", "reading"}

CallsOn(m) == commissioner \in alive

\* The pointer leads to a deleted Commissioner: nothing can be said of what
\* follows, and the model stops.
Dangling(m) ==
  /\ cpc[m] \in Derefs /\ ~CallsOn(m)
  /\ cpc[m] = "handshake" => ~cstop[m]
  /\ undefined' = TRUE
  /\ UNCHANGED <<argVars, mgrVars, thrVars, heapVars, httpVars, ownVars, status, late>>

\* cv->notify_all(): lost unless the manager is already waiting.
Notify(m) ==
  mpc' = IF mpc[m] = "waiting" THEN [mpc EXCEPT ![m] = "clear"] ELSE mpc

\* InitDtls, with the address as it is by now.
InitDtls(m) ==
  /\ CallsOn(m)
  /\ CGoto(m, "init", "handshake")
  /\ object' = [object EXCEPT ![commissioner].addr = mAgentAddress]
  /\ UNCHANGED <<argVars, mgrVars, cstop, commissioner, alive, httpVars, ownVars,
                 status, late>>

HandshakeStopped(m) ==
  /\ cstop[m]
  /\ CGoto(m, "handshake", "exit")
  /\ UNCHANGED <<argVars, mgrVars, cstop, heapVars, httpVars, ownVars, status, late>>

\* TryDtlsHandshake concludes (WANT_READ changes nothing).  It can succeed
\* only if the agent at that address has this PSKc.
HandshakeResult(m) ==
  /\ CallsOn(m) /\ ~cstop[m]
  /\ CGoto(m, "handshake", "validate")
  /\ \E ok \in BOOLEAN :
       /\ ok => object[commissioner].pskc = object[commissioner].addr
                /\ object[commissioner].pskc # NoConfig
       /\ object' = [object EXCEPT ![commissioner].valid = ok]
  /\ UNCHANGED <<argVars, mgrVars, cstop, commissioner, alive, httpVars, ownVars,
                 status, late>>

Validate(m) ==
  /\ CallsOn(m)
  /\ CGoto(m, "validate", IF object[commissioner].valid THEN "notify" ELSE "error")
  /\ UNCHANGED <<argVars, mgrVars, cstop, heapVars, httpVars, ownVars, status, late>>

SetPetitioningError(m) ==
  /\ CGoto(m, "error", "exit")
  /\ status' = "Petitioning error"
  /\ UNCHANGED <<argVars, mgrVars, cstop, heapVars, httpVars, ownVars, late>>

\* CommissionerPetition and the notification that follows it.
NotifyPetition(m) ==
  /\ CallsOn(m)
  /\ CGoto(m, "notify", "active")
  /\ Notify(m)
  /\ UNCHANGED <<argVars, mstop, comm, cstop, heapVars, httpVars, ownVars, status,
                 late>>

SetActive(m) ==
  /\ CGoto(m, "active", "loop")
  /\ status' = "Active"
  /\ UNCHANGED <<argVars, mgrVars, cstop, heapVars, httpVars, ownVars, late>>

LoopTest(m) ==
  /\ CallsOn(m)
  /\ CGoto(m, "loop", IF object[commissioner].valid THEN "body" ELSE "exit")
  /\ UNCHANGED <<argVars, mgrVars, cstop, heapVars, httpVars, ownVars, status, late>>

SelectFails(m) ==
  /\ CallsOn(m)
  /\ CGoto(m, "body", "exit")
  /\ status' = "Receive error"
  /\ UNCHANGED <<argVars, mgrVars, cstop, heapVars, httpVars, ownVars, late>>

\* Process may sit in mbedtls_ssl_read on the blocking socket: the datagram
\* select reported need not contain a valid record.
ReadBlocks(m) ==
  /\ CallsOn(m)
  /\ CGoto(m, "body", "reading")
  /\ UNCHANGED <<argVars, mgrVars, cstop, heapVars, httpVars, ownVars, status, late>>

\* Mutant of ProcessReturns: the promise is not tested in the loop.
ProcessReturnsOn(m, from) ==
  /\ CallsOn(m)
  /\ CGoto(m, from, "loop")
  /\ \E v \in BOOLEAN :
       /\ v => object[commissioner].valid
       /\ object' = [object EXCEPT ![commissioner].valid = v]
  /\ UNCHANGED <<argVars, mgrVars, cstop, commissioner, alive, httpVars, ownVars,
                 status, late>>

\* Process returns, the commissioner possibly invalid by now; then the test
\* of the promise.
ProcessReturns(m, from) ==
  /\ CallsOn(m)
  /\ CGoto(m, from, IF cstop[m] THEN "exit" ELSE "loop")
  /\ \E v \in BOOLEAN :
       /\ v => object[commissioner].valid
       /\ object' = [object EXCEPT ![commissioner].valid = v]
  /\ UNCHANGED <<argVars, mgrVars, cstop, commissioner, alive, httpVars, ownVars,
                 status, late>>

Exit(m) ==
  /\ CGoto(m, "exit", "done")
  /\ Notify(m)
  /\ UNCHANGED <<argVars, mstop, comm, cstop, heapVars, httpVars, ownVars, status,
                 late>>

\* The steps the thread takes by itself, and those the peer decides.
ThreadStep(m) ==
  \/ ~undefined /\ Dangling(m)
  \/ /\ Defined
     /\ \/ InitDtls(m) \/ HandshakeStopped(m) \/ Validate(m)
        \/ SetPetitioningError(m) \/ NotifyPetition(m) \/ SetActive(m)
        \/ LoopTest(m) \/ SelectFails(m) \/ ReadBlocks(m)
        \/ ProcessReturns(m, "body") \/ Exit(m)
PeerStep(m) == Defined /\ (HandshakeResult(m) \/ ProcessReturns(m, "reading"))
-----------------------------------------------------------------------------
(* HTTP threads: ParametersChange, field by field, and ResetCommissioner.  *)

BeginPost(h) ==
  /\ core = "running" /\ posts < MaxPosts
  /\ \E c \in Configs : harg' = [harg EXCEPT ![h] = c]
  /\ HGoto(h, "idle", "address") \/ HGoto(h, "idle", "rejected")
  /\ posts' = posts + 1
  /\ UNCHANGED <<argVars, mgrVars, thrVars, heapVars, ownVars, status, late>>

\* Mutant of RejectPost: the rejected request is shown by GET all the same.
RejectPostShown(h) ==
  /\ HGoto(h, "rejected", "json")
  /\ mAgentAddress' = harg[h]
  /\ UNCHANGED <<mPSKcBin, mParametersChanged, json_obj, mgrVars, thrVars, heapVars,
                 harg, posts, ownVars, status, late>>

\* A request with a bad field: the good ones are copied before the 400.
RejectPost(h) ==
  /\ HGoto(h, "rejected", "idle")
  /\ mAgentAddress' = harg[h]
  /\ UNCHANGED <<mPSKcBin, mParametersChanged, json_obj, mgrVars, thrVars, heapVars,
                 harg, posts, ownVars, status, late>>

CopyAddress(h) ==
  /\ HGoto(h, "address", "pskc")
  /\ mAgentAddress' = harg[h]
  /\ UNCHANGED <<mPSKcBin, mParametersChanged, json_obj, mgrVars, thrVars, heapVars,
                 harg, posts, ownVars, status, late>>

ComputePskc(h) ==
  /\ HGoto(h, "pskc", "raise")
  /\ mPSKcBin' = harg[h]
  /\ UNCHANGED <<mAgentAddress, mParametersChanged, json_obj, mgrVars, thrVars,
                 heapVars, harg, posts, ownVars, status, late>>

\* Where a manager has built its Commissioner and will still clear the flag.
Committed == {"spawn", "petitioning", "wait", "waiting", "stopTimeout", "timeout", "clear"}

RaiseFlag(h) ==
  /\ HGoto(h, "raise", "json")
  /\ mParametersChanged' = TRUE
  /\ late' = (late \/ \E m \in Managers : mpc[m] \in Committed)
  /\ UNCHANGED <<mPSKcBin, mAgentAddress, json_obj, mgrVars, thrVars, heapVars, harg,
                 posts, ownVars, status>>

UpdateJson(h) ==
  /\ HGoto(h, "json", "idle")
  /\ json_obj' = harg[h]
  /\ UNCHANGED <<mPSKcBin, mAgentAddress, mParametersChanged, mgrVars, thrVars,
                 heapVars, harg, posts, ownVars, status, late>>

BeginDelete(h) ==
  /\ core = "running"
  /\ started + Cardinality({g \in Handlers : hpc[g] \in {"clear", "start"}}) <= MaxDeletes
  /\ HGoto(h, "idle", "clear")
  /\ UNCHANGED <<argVars, mgrVars, thrVars, heapVars, harg, posts, ownVars, status, late>>

\* arguments.Clear(); joiner_list.Clear() is modelled in JoinerList.
ClearArguments(h) ==
  /\ HGoto(h, "clear", "start")
  /\ json_obj' = NoConfig
  /\ UNCHANGED <<mPSKcBin, mAgentAddress, mParametersChanged, mgrVars, thrVars,
                 heapVars, harg, posts, ownVars, status, late>>

\* Mngr.reset(new Thread(...)): the new manager runs first ...
StartManager(h) ==
  LET m == started + 1
  IN /\ HGoto(h, "start", "swap")
     /\ mpc' = [mpc EXCEPT ![m] = "check"]
     /\ started' = m
     /\ harg' = [harg EXCEPT ![h] = m]
     /\ UNCHANGED <<argVars, mstop, comm, thrVars, heapVars, posts, Mngr, core, status, late>>

\* ... then it takes the place of the old one, whose promise is set ...
SwapManager(h) ==
  /\ HGoto(h, "swap", "join")
  /\ Mngr' = harg[h]
  /\ mstop' = [mstop EXCEPT ![Mngr] = TRUE]
  /\ harg' = [harg EXCEPT ![h] = Mngr]
  /\ UNCHANGED <<argVars, mpc, comm, thrVars, heapVars, posts, started, core, status, late>>

\* Mutant of JoinManager: the old manager is detached.
JoinManagerDetached(h) ==
  /\ HGoto(h, "join", "idle")
  /\ harg' = [harg EXCEPT ![h] = NoConfig]
  /\ UNCHANGED <<argVars, mgrVars, thrVars, heapVars, posts, ownVars, status, late>>

\* ... and which is joined.
JoinManager(h) ==
  /\ HGoto(h, "join", "idle")
  /\ mpc[harg[h]] = "done"
  /\ harg' = [harg EXCEPT ![h] = NoConfig]
  /\ UNCHANGED <<argVars, mgrVars, thrVars, heapVars, posts, ownVars, status, late>>

HandlerStep(h) ==
  /\ Defined
  /\ \/ RejectPost(h) \/ CopyAddress(h) \/ ComputePskc(h) \/ RaiseFlag(h)
     \/ UpdateJson(h) \/ ClearArguments(h) \/ StartManager(h) \/ SwapManager(h)
     \/ JoinManager(h)
Request(h) == Defined /\ (BeginPost(h) \/ BeginDelete(h))
-----------------------------------------------------------------------------
(* ~CommissionerPlugin, once the HTTP server serves no more requests.      *)

BeginUnload ==
  /\ Defined
  /\ core = "running" /\ \A h \in Handlers : hpc[h] = "idle"
  /\ core' = "unloading"
  /\ mstop' = [mstop EXCEPT ![Mngr] = TRUE]
  /\ UNCHANGED <<argVars, mpc, comm, thrVars, heapVars, httpVars, Mngr, started, status, late>>

EndUnload ==
  /\ Defined
  /\ core = "unloading" /\ mpc[Mngr] = "done"
  /\ core' = "unloaded"
  /\ UNCHANGED <<argVars, mgrVars, thrVars, heapVars, httpVars, Mngr, started, status, late>>
-----------------------------------------------------------------------------
Next ==
  \/ \E m \in Managers : ManagerStep(m) \/ ThreadStep(m) \/ PeerStep(m)
  \/ \E h \in Handlers : Request(h) \/ HandlerStep(h)
  \/ BeginUnload
  \/ EndUnload
  \/ (core = "unloaded" \/ undefined) /\ UNCHANGED vars

Spec == Init /\ [][Next]_vars

\* Every thread is scheduled; a two-second wait ends.  Neither the peer nor
\* the clients of the REST interface owe anything.
FairSpec ==
  /\ Spec
  /\ \A m \in Managers : WF_vars(ManagerStep(m)) /\ WF_vars(ThreadStep(m))
  /\ \A h \in Handlers : WF_vars(HandlerStep(h))
  /\ WF_vars(EndUnload)
-----------------------------------------------------------------------------
Running(m) == cpc[m] \notin {"none", "done"}
Managing(m) == mpc[m] \notin {"none", "done"}
Quiet == \A h \in Handlers : hpc[h] = "idle"

\* Without DELETE, a commissioner thread only ever works on the Commissioner
\* its manager built for it, which exists, and is not about to be replaced or
\* deleted: src/comm.cpp:44 joins the thread before line 45 replaces the
\* object, and line 65 before line 66 deletes it.
OwnCommissioner ==
  /\ TypeOK
  /\ \A m \in Managers :
       Running(m) => /\ commissioner = comm[m] /\ comm[m] \in alive
                     /\ mpc[m] \notin {"build", "spawn", "end"}

\* A manager outlives its commissioner thread, and the thread a deleted
\* Commissioner never belongs to: the joins of ~Thread nest (DELETE included).
ThreadsNest ==
  \A m \in Managers : Running(m) => Managing(m) /\ comm[m] \in alive

\* When no request is being served there is one manager, the one Mngr owns:
\* DELETE leaves none behind (inc/comm.hpp:78).
OneManager ==
  Quiet /\ core = "running" => \A m \in Managers : Managing(m) <=> m = Mngr

\* After the plugin is destroyed no thread runs and no Commissioner is left.
CleanUnload ==
  core = "unloaded" =>
    alive = {} /\ \A m \in Managers : ~Running(m) /\ ~Managing(m)

\* The configuration GET /network shows is the one the last Commissioner was
\* built for, once the manager is back in its loop, unless a POST raised the
\* flag between the building and the clearing of the flag.  (One POST at a
\* time, no DELETE.)
ServedUnlessLate ==
  LET m == Mngr
  IN mpc[m] \in {"check", "poll"} /\ ~mParametersChanged /\ Quiet
       /\ json_obj # NoConfig /\ ~late
     => comm[m] # NoObject /\ object[comm[m]].pskc = json_obj

\* "Timeout" is only shown when the thread that timed out is gone and no
\* other has been started by a manager that has yet to say so.
TimeoutMeansStopped ==
  status = "Timeout" => \A m \in Managers : Running(m) => mpc[m] = "petitioning"

\* Deletion and unloading end (lines 62-68 of comm.cpp, line 57 of
\* thread_api.hpp) provided no commissioner thread stays in a read for ever.
Reads == \E m \in Managers : cpc[m] = "reading"
UnloadEnds ==
  []<>~Reads => (core = "unloading" ~> (core = "unloaded" \/ undefined))
DeleteEnds ==
  []<>~Reads => \A h \in Handlers : hpc[h] = "join" ~> (hpc[h] = "idle" \/ undefined)

\* A raised flag does not stay raised: the manager gets to it.
FlagHandled ==
  []<>~Reads => (mParametersChanged ~> (~mParametersChanged \/ undefined \/ core = "unloaded"))
=============================================================================
