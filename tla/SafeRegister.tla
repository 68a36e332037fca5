---------------------------- MODULE SafeRegister ----------------------------
(***************************************************************************)
(* What ReturnStatus<T> promises its callers: one register, written by the *)
(* threads of Writers one at a time and read by those of Readers.  A read  *)
(* takes effect at one instant between its call and its return.  If no     *)
(* write is in progress at that instant it returns the value of the last   *)
(* write; otherwise it may return anything (the code reads the string      *)
(* without the lock), which the value Torn stands for.                     *)
(***************************************************************************)
CONSTANTS Readers, Writers, Values, Empty, Torn

VARIABLES reg,     \* the current value, Torn while a write is in progress
          call,    \* where the call of each thread stands
          arg      \* a writer's value to write, a reader's value read

vars == <<reg, call, arg>>

Threads == Readers \cup Writers
-----------------------------------------------------------------------------
Init == /\ reg = Empty
        /\ call = [t \in Threads |-> "idle"]
        /\ arg = [t \in Threads |-> Empty]

RequestWrite(w, v) ==
  /\ call[w] = "idle"
  /\ call' = [call EXCEPT ![w] = "requested"]
  /\ arg' = [arg EXCEPT ![w] = v]
  /\ UNCHANGED reg

BeginWrite(w) ==
  /\ call[w] = "requested"
  /\ reg # Torn
  /\ reg' = Torn
  /\ call' = [call EXCEPT ![w] = "writing"]
  /\ UNCHANGED arg

EndWrite(w) ==
  /\ call[w] = "writing"
  /\ reg' = arg[w]
  /\ call' = [call EXCEPT ![w] = "idle"]
  /\ UNCHANGED arg

RequestRead(r) ==
  /\ call[r] = "idle"
  /\ call' = [call EXCEPT ![r] = "requested"]
  /\ UNCHANGED <<reg, arg>>

\* The instant of the read: only a write in progress excuses a wrong value.
Read(r) ==
  /\ call[r] = "requested"
  /\ \E v \in Values \cup {Empty, Torn} :
        /\ reg # Torn => v = reg
        /\ arg' = [arg EXCEPT ![r] = v]
  /\ call' = [call EXCEPT ![r] = "answered"]
  /\ UNCHANGED reg

EndRead(r) ==
  /\ call[r] = "answered"
  /\ call' = [call EXCEPT ![r] = "idle"]
  /\ UNCHANGED <<reg, arg>>

Next ==
  \/ \E w \in Writers :
        \/ \E v \in Values : RequestWrite(w, v)
        \/ BeginWrite(w)
        \/ EndWrite(w)
  \/ \E r \in Readers : RequestRead(r) \/ Read(r) \/ EndRead(r)

Spec == Init /\ [][Next]_vars
=============================================================================
