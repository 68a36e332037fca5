--------------------------- MODULE StatusRegister ---------------------------
(***************************************************************************)
(* ReturnStatus<T> of inc/comm_rest_api.hpp: the status string the manager *)
(* and commissioner threads write with Set and the HTTP threads read with  *)
(* Get.  Set works under the mutex throughout; Get tests IsReady() and     *)
(* reads old_status without it, and takes the lock only to consume the     *)
(* future.  Every access to the shared fields is a step of its own, in the *)
(* order of the source.                                                    *)
(***************************************************************************)
CONSTANTS Readers,    \* HTTP threads serving GET /network
          Writers,    \* threads calling status.Set
          Values,     \* the strings passed to Set
          Empty,      \* the string old_status is constructed with
          Torn,       \* what a racy read of a string being assigned yields
          NoThread

ASSUME RegisterAssumption ==
  /\ Readers \cap Writers = {}
  /\ NoThread \notin Readers \cup Writers
  /\ Torn \notin Values \cup {Empty}

VARIABLES pc,          \* the next step of each thread
          arg,         \* Set's parameter; Get's return value
          mutex,       \* the holder of `mutex`, or NoThread
          future,      \* state of the object behind `future`
          value,       \* the value stored by promise->set_value
          old_status,  \* the field of that name
          crashed      \* a dead future was dereferenced

vars == <<pc, arg, mutex, future, value, old_status, crashed>>

Threads == Readers \cup Writers

\* "fresh": not satisfied; "ready": holds `value`; "broken": its promise was
\* destroyed unsatisfied, which makes it ready with an exception; "spent":
\* get() has been called; "null": the unique_ptr is empty.
FutureStates == {"fresh", "ready", "broken", "spent", "null"}

Locations == {"idle", "lock", "take", "dropPromise", "dropFuture", "renew",
              "satisfy", "assign", "assigned", "unlock",
              "isReady", "readOld", "done"}

TypeOK ==
  /\ pc \in [Threads -> Locations]
  /\ arg \in [Threads -> Values \cup {Empty, Torn}]
  /\ mutex \in Threads \cup {NoThread}
  /\ future \in FutureStates
  /\ value \in Values \cup {Empty}
  /\ old_status \in Values \cup {Empty, Torn}
  /\ crashed \in BOOLEAN

\* The constructor: Reset() on an otherwise default object.
Init ==
  /\ pc = [t \in Threads |-> "idle"]
  /\ arg = [t \in Threads |-> Empty]
  /\ mutex = NoThread
  /\ future = "fresh"
  /\ value = Empty
  /\ old_status = Empty
  /\ crashed = FALSE

Goto(t, from, to) ==
  /\ ~crashed
  /\ pc[t] = from
  /\ pc' = [pc EXCEPT ![t] = to]
-----------------------------------------------------------------------------
(* Shared by Set and Get: the lock, and Reset() in its three visible steps. *)

Lock(t) ==
  /\ Goto(t, "lock", IF t \in Writers THEN "dropPromise" ELSE "take")
  /\ mutex = NoThread
  /\ mutex' = t
  /\ UNCHANGED <<arg, future, value, old_status, crashed>>

DropPromise(t) ==
  /\ Goto(t, "dropPromise", "dropFuture")
  /\ future' = IF future = "fresh" THEN "broken" ELSE future
  /\ UNCHANGED <<arg, mutex, value, old_status, crashed>>

DropFuture(t) ==
  /\ Goto(t, "dropFuture", "renew")
  /\ future' = "null"
  /\ UNCHANGED <<arg, mutex, value, old_status, crashed>>

Renew(t) ==
  /\ Goto(t, "renew", IF t \in Writers THEN "satisfy" ELSE "unlock")
  /\ future' = "fresh"
  /\ UNCHANGED <<arg, mutex, value, old_status, crashed>>

\* Mutant of Unlock: Get returns from its first branch with the mutex held.
UnlockOnlyInSet(t) ==
  /\ Goto(t, "unlock", IF t \in Writers THEN "idle" ELSE "done")
  /\ mutex' = IF t \in Writers THEN NoThread ELSE mutex
  /\ UNCHANGED <<arg, future, value, old_status, crashed>>

Unlock(t) ==
  /\ Goto(t, "unlock", IF t \in Writers THEN "idle" ELSE "done")
  /\ mutex' = NoThread
  /\ UNCHANGED <<arg, future, value, old_status, crashed>>
-----------------------------------------------------------------------------
(* Set *)

BeginSet(w, v) ==
  /\ Goto(w, "idle", "lock")
  /\ arg' = [arg EXCEPT ![w] = v]
  /\ UNCHANGED <<mutex, future, value, old_status, crashed>>

Satisfy(w) ==
  /\ Goto(w, "satisfy", "assign")
  /\ future' = "ready"
  /\ value' = arg[w]
  /\ UNCHANGED <<arg, mutex, old_status, crashed>>

\* old_status = val is not atomic: a reader without the lock may see it half
\* done.
Assign(w) ==
  /\ Goto(w, "assign", "assigned")
  /\ old_status' = Torn
  /\ UNCHANGED <<arg, mutex, future, value, crashed>>

\* Mutant of Assigned: the value is only put into the promise.
AssignedOldValue(w) ==
  /\ Goto(w, "assigned", "unlock")
  /\ old_status' = Empty
  /\ UNCHANGED <<arg, mutex, future, value, crashed>>

Assigned(w) ==
  /\ Goto(w, "assigned", "unlock")
  /\ old_status' = arg[w]
  /\ UNCHANGED <<arg, mutex, future, value, crashed>>
-----------------------------------------------------------------------------
(* Get *)

BeginGet(r) ==
  /\ Goto(r, "idle", "isReady")
  /\ UNCHANGED <<arg, mutex, future, value, old_status, crashed>>

\* wait_for(0) on the future, without the lock.  On an empty pointer or on a
\* future whose value was already taken it brings the process down.
IsReady(r) ==
  \/ /\ future \in {"ready", "broken"}
     /\ Goto(r, "isReady", "lock")
     /\ UNCHANGED <<arg, mutex, future, value, old_status, crashed>>
  \/ /\ future = "fresh"
     /\ Goto(r, "isReady", "readOld")
     /\ UNCHANGED <<arg, mutex, future, value, old_status, crashed>>
  \/ /\ future \in {"null", "spent"}
     /\ ~crashed
     /\ pc[r] = "isReady"
     /\ crashed' = TRUE
     /\ UNCHANGED <<pc, arg, mutex, future, value, old_status>>

\* future->get(): blocks, with the mutex held, while nothing was set.
Take(r) ==
  /\ future = "ready"
  /\ Goto(r, "take", "dropPromise")
  /\ arg' = [arg EXCEPT ![r] = value]
  /\ future' = "spent"
  /\ UNCHANGED <<mutex, value, old_status, crashed>>

ReadOld(r) ==
  /\ Goto(r, "readOld", "done")
  /\ arg' = [arg EXCEPT ![r] = old_status]
  /\ UNCHANGED <<mutex, future, value, old_status, crashed>>

EndGet(r) ==
  /\ Goto(r, "done", "idle")
  /\ UNCHANGED <<arg, mutex, future, value, old_status, crashed>>
-----------------------------------------------------------------------------
Reset(t) == DropPromise(t) \/ DropFuture(t) \/ Renew(t)

\* The steps a thread takes once its call has begun.
SetStep(w) == Lock(w) \/ Reset(w) \/ Satisfy(w) \/ Assign(w) \/ Assigned(w) \/ Unlock(w)
GetStep(r) == IsReady(r) \/ Lock(r) \/ Take(r) \/ Reset(r) \/ Unlock(r) \/ ReadOld(r) \/ EndGet(r)

\* The process is gone: nothing happens any more.
Crashed == crashed /\ UNCHANGED vars

Next ==
  \/ \E w \in Writers : SetStep(w) \/ \E v \in Values : BeginSet(w, v)
  \/ \E r \in Readers : GetStep(r) \/ BeginGet(r)
  \/ Crashed

Spec == Init /\ [][Next]_vars

\* Every thread inside a call is scheduled, and the lock is not kept from a
\* waiter for ever.  Nobody is obliged to call.
FairSpec ==
  /\ Spec
  /\ \A w \in Writers : WF_vars(SetStep(w)) /\ SF_vars(Lock(w))
  /\ \A r \in Readers : WF_vars(GetStep(r)) /\ SF_vars(Lock(r))
-----------------------------------------------------------------------------
\* While no Set is under way, an unread future and old_status (lines 66-80
\* read one or the other) hold the same string, so it makes no difference to
\* a caller which of the two branches of Get it takes.
Coherent ==
  (mutex \notin Writers /\ future = "ready") => value = old_status

\* The steps between lock() and unlock().
CriticalSet == {"dropPromise", "dropFuture", "renew", "satisfy", "assign",
                "assigned", "unlock"}
CriticalGet == {"take", "dropPromise", "dropFuture", "renew", "unlock"}

\* The mutex is held by exactly the thread between its lock and its unlock.
Exclusion ==
  /\ \A w \in Writers : pc[w] \in CriticalSet <=> mutex = w
  /\ \A r \in Readers : pc[r] \in CriticalGet <=> mutex = r

\* What a Set has done so far: its value is in the promise from set_value on
\* and in old_status at unlock.
Written ==
  \A w \in Writers :
    /\ pc[w] \in {"idle", "lock"} \cup CriticalSet
    /\ arg[w] \in Values \cup {Empty}
    /\ pc[w] \in {"assign", "assigned", "unlock"} => future = "ready" /\ value = arg[w]
    /\ pc[w] = "unlock" => old_status = arg[w]

\* The lock-free part of Get can see a string being assigned only while some
\* Set is inside its critical section; outside, Coherent holds.
IndInv ==
  /\ TypeOK
  /\ Exclusion
  /\ Written
  /\ mutex \notin Writers => old_status # Torn
  /\ Coherent

\* RESTAPI.md says of GET /network "Returns string that describes the current
\* state of the plugin": Get (line 66) always returns.
GetReturns == \A r \in Readers : pc[r] # "idle" ~> (pc[r] = "idle" \/ crashed)

\* The server handles one GET at a time.
OneGet == \A r, s \in Readers : r = s \/ pc[r] = "idle" \/ pc[s] = "idle"

\* Get returns as long as no two of them overlap: a future that was found
\* ready (line 71) is still ready when Get holds the mutex, whatever Set does.
\* Set (line 81) then always returns as well, as no Get keeps the mutex; this
\* is what lets the manager thread be joined.
CallsReturnAlone ==
  []OneGet => /\ GetReturns
              /\ \A w \in Writers : pc[w] # "idle" ~> (pc[w] = "idle" \/ crashed)

\* ReturnStatus implements the safe register of SafeRegister: reads see the
\* last complete write unless one is in progress.
Location(t) ==
  IF pc[t] = "idle" THEN "idle"
  ELSE IF pc[t] \in {"lock", "isReady", "take", "readOld"} THEN "requested"
  ELSE IF t \in Writers THEN "writing" ELSE "answered"

Abs == INSTANCE SafeRegister
         WITH reg  <- IF mutex \in Writers THEN Torn ELSE old_status,
              call <- [t \in Threads |-> Location(t)],
              arg  <- arg

Safe == Abs!Spec
=============================================================================
