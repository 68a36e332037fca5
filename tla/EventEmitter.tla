---------------------------- MODULE EventEmitter ----------------------------
(***************************************************************************)
(* The event emitter of the agent (event_emitter.cpp): for each event the  *)
(* list of its handlers, which are called in the order they registered.  A *)
(* handler may register or deregister handlers while it is called.         *)
(*                                                                         *)
(* An entry of mEvents that is not there is an empty list.  does[h] is     *)
(* what handler h does when it is first called.                            *)
(***************************************************************************)
EXTENDS Naturals, SequencesExt

Nothing == [op |-> "nothing"]

On(mEvents, event, h) == [mEvents EXCEPT ![event] = Append(@, h)]

OffAll(mEvents, event, h) ==  \* mutant: every registration of the handler goes
  [mEvents EXCEPT ![event] = SelectSeq(@, LAMBDA x : x # h)]
Off(mEvents, event, h) == [mEvents EXCEPT ![event] = RemoveFirst(@, h)]

Apply(mEvents, o) ==
  CASE o.op = "on"  -> On(mEvents, o.event, o.h)
    [] o.op = "off" -> Off(mEvents, o.event, o.h)
    [] OTHER        -> mEvents

\* The registration o takes away is the i-th of event.
Erases(mEvents, o, event, i) ==
  /\ o.op = "off" /\ o.event = event /\ mEvents[event][i] = o.h
  /\ \A j \in 1 .. i - 1 : mEvents[event][j] # o.h

\* The rest of Emit, from the at-th handler: to go on from a handler that was erased
\* is undefined.
RECURSIVE EmitFrom(_, _)
EmitFrom(s, event) ==
  LET handlers == s.mEvents[event]
      h == handlers[s.at]
      o == s.does[h]
      before == \E i \in 1 .. s.at - 1 : Erases(s.mEvents, o, event, i)
  IN IF s.at > Len(handlers) \/ ~s.defined THEN s
     ELSE EmitFrom([mEvents |-> Apply(s.mEvents, o), at |-> IF before THEN s.at ELSE s.at + 1,
                    calls |-> Append(s.calls, h), does |-> [s.does EXCEPT ![h] = Nothing],
                    defined |-> ~Erases(s.mEvents, o, event, s.at)], event)

Emit(mEvents, event, does) ==
  EmitFrom([mEvents |-> mEvents, at |-> 1, calls |-> <<>>, does |-> does, defined |-> TRUE], event)
=============================================================================
