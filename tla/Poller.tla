------------------------------- MODULE Poller --------------------------------
(***************************************************************************)
(* The Poller of the avahi publisher (mdns_avahi.cpp): the watches and the *)
(* timers avahi's library asks for, and the two calls with which a select  *)
(* loop serves them.                                                       *)
(*                                                                         *)
(* A poller is the sequence of its watches and that of its timers, in the  *)
(* order of their creation.  A time is a number of ticks, of which Second  *)
(* make a second; a timer whose time is 0 is disarmed.  What the library   *)
(* does in a callback is given by does[id]: it may arm, disarm or free the *)
(* timer it is about, or create a watch or free the one called.            *)
(***************************************************************************)
EXTENDS Integers, SequencesExt

CONSTANT Second

NoPoller == [mWatches |-> <<>>, mTimers |-> <<>>]

Never == -1
Due(now, after) == IF after = Never THEN 0 ELSE now + after

WatchNew(p, id, fd, events) ==
  [p EXCEPT !.mWatches = Append(@, [id |-> id, fd |-> fd, events |-> events])]

WatchFree(p, id) == [p EXCEPT !.mWatches = SelectSeq(@, LAMBDA w : w.id # id)]

TimeoutNew(p, id, now, after) ==
  [p EXCEPT !.mTimers = Append(@, [id |-> id, mTimeout |-> Due(now, after)])]

TimeoutUpdate(p, id, now, after) ==
  [p EXCEPT !.mTimers =
     [i \in DOMAIN @ |-> IF @[i].id = id THEN [@[i] EXCEPT !.mTimeout = Due(now, after)] ELSE @[i]]]

TimeoutFree(p, id) == [p EXCEPT !.mTimers = SelectSeq(@, LAMBDA t : t.id # id)]

-----------------------------------------------------------------------------

\* The descriptors to wait for.
FdSet(p, event) ==
  {p.mWatches[i].fd : i \in {j \in DOMAIN p.mWatches : event \in p.mWatches[j].events}}

\* The time select may take is shortened, seconds first; the first timer whose
\* time has come leaves none.
ShortenSeconds(tv, wait) ==  \* mutant: the time is rounded to the next second
  IF wait <= 0 THEN [sec |-> 0, usec |-> 0, now |-> TRUE]
  ELSE [tv EXCEPT !.sec = IF wait \div Second + 1 < @ THEN wait \div Second + 1 ELSE @]
Shorten(tv, wait) ==
  LET sec == wait \div Second
      usec == wait % Second
  IN IF wait <= 0 THEN [sec |-> 0, usec |-> 0, now |-> TRUE]
     ELSE IF sec < tv.sec THEN [tv EXCEPT !.sec = sec]
     ELSE IF sec = tv.sec /\ usec < tv.usec THEN [tv EXCEPT !.usec = usec]
     ELSE tv

UpdateFdSet(p, now, aTimeout) ==
  LET tv == FoldLeft(LAMBDA t, timer :
                       IF timer.mTimeout = 0 \/ t.now THEN t ELSE Shorten(t, timer.mTimeout - now),
                     [sec |-> aTimeout.sec, usec |-> aTimeout.usec, now |-> FALSE], p.mTimers)
  IN [reads |-> FdSet(p, "in"), writes |-> FdSet(p, "out"), errors |-> FdSet(p, "err"),
      timeout |-> [sec |-> tv.sec, usec |-> tv.usec]]

-----------------------------------------------------------------------------

\* A callback: the poller after it, and whether Process can go on.  A watch that
\* appears or goes while the watches are iterated over, and a timer that goes while
\* it is still to be called, leave it with a pointer to nowhere.
AnyWatch == <<-1>>

Does(s, id, now, does) ==
  LET act == does[id]
      p == s.poller
  IN [s EXCEPT
       !.calls = Append(@, id),
       !.defined = /\ act.op \in {"watch", "unwatch"} => s.left # AnyWatch
                   /\ act.op = "free" => \A i \in DOMAIN s.left : s.left[i] # act.timer,
       !.poller = CASE act.op = "nothing" -> p
                    [] act.op = "arm"     -> TimeoutUpdate(p, act.timer, now, act.after)
                    [] act.op = "free"    -> TimeoutFree(p, act.timer)
                    [] act.op = "watch"   -> WatchNew(p, 0, 0, {"in"})
                    [] act.op = "unwatch" -> WatchFree(p, id)]

\* The events of a watch that have happened, ready being the <<event, fd>> that
\* select found.
Happened(w, ready) == {e \in w.events \cap {"in", "out", "err"} : <<e, w.fd>> \in ready}

ProcessArmed(p, now, ready, does) ==  \* mutant: 0 is a time like any other
  LET Watch(s, w) == IF s.defined /\ Happened(w, ready) # {} THEN Does(s, w.id, now, does) ELSE s
      Timer(s, t) == IF s.defined THEN Does([s EXCEPT !.left = Tail(@)], t.id, now, does) ELSE s
      watched == FoldLeft(Watch, [poller |-> p, calls |-> <<>>, defined |-> TRUE, left |-> AnyWatch],
                          p.mWatches)
      expired == SelectSeq(watched.poller.mTimers, LAMBDA t : t.mTimeout <= now)
  IN FoldLeft(Timer, [watched EXCEPT !.left = [i \in DOMAIN expired |-> expired[i].id]], expired)

\* The watches in turn, then the timers whose time had come before the first of them.
Process(p, now, ready, does) ==
  LET Watch(s, w) == IF s.defined /\ Happened(w, ready) # {} THEN Does(s, w.id, now, does) ELSE s
      Timer(s, t) == IF s.defined THEN Does([s EXCEPT !.left = Tail(@)], t.id, now, does) ELSE s
      watched == FoldLeft(Watch, [poller |-> p, calls |-> <<>>, defined |-> TRUE, left |-> AnyWatch],
                          p.mWatches)
      expired == SelectSeq(watched.poller.mTimers, LAMBDA t : t.mTimeout # 0 /\ t.mTimeout <= now)
  IN FoldLeft(Timer, [watched EXCEPT !.left = [i \in DOMAIN expired |-> expired[i].id]], expired)
=============================================================================
