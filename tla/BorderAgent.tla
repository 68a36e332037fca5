----------------------------- MODULE BorderAgent -----------------------------
(***************************************************************************)
(* The border agent (border_agent.cpp): it follows three properties of     *)
(* wpantund - network name, extended PAN id, and whether the NCP is        *)
(* associated - and keeps the mDNS service _meshcop._udp advertised with   *)
(* them.  wpantund's values reach it over D-Bus (ncp_wpantund.cpp): one    *)
(* request for each at Start, then a PropChanged signal for each change,   *)
(* emitted to the agent's handlers (event_emitter.cpp).  The service is    *)
(* published by one of two publishers, chosen when the agent is built:     *)
(* mdns_avahi.cpp or mdns_mdnssd.cpp.                                      *)
(*                                                                         *)
(* The agent never calls UpdateFdSet and Process of its publisher, so the  *)
(* publishers' callbacks run only inside Start and Stop: whatever the mDNS *)
(* daemon reports later is not heard.                                      *)
(*                                                                         *)
(* wpantund, the D-Bus and the mDNS daemon are external.                   *)
(***************************************************************************)
EXTENDS Naturals, Sequences

CONSTANTS Names, Xpanids,
          Empty,       \* the empty network name
          Junk,        \* uninitialised memory
          MaxChanges,  \* bound: changes of a property, restarts of wpantund
          MaxFaults    \* bound: calls that fail, mDNS daemons that go away

ASSUME BorderAgentAssumption ==
  /\ {Empty, Junk} \cap Names = {} /\ Junk \notin Xpanids /\ Empty # Junk
  /\ MaxChanges \in Nat /\ MaxFaults \in Nat

VARIABLES
  build,               \* the publisher the agent is built with
  pc,                  \* of BorderAgent::Start, then "loop" or "exit"
  handlers,            \* the agent's handlers are registered with mNcp
  agent,               \* mNetworkName, mExtPanId, mThreadStarted
  mInterfaceDBusName,  \* the wpantund process mNcp talks to, 0 if it knows none
  pub,                 \* the publisher and its service in the daemon
  daemon,              \* the mDNS daemon
  wpan, owner,         \* wpantund: its properties and its process
  signals,             \* PropChanged signals on their way to the agent
  unseen,              \* properties whose last value was lost on the way
  changes, faults

ncpVars == <<wpan, owner>>
vars == <<build, pc, handlers, agent, mInterfaceDBusName, pub, daemon, ncpVars,
          signals, unseen, changes, faults>>

Keys    == {"name", "xpanid", "started"}
Records == [name : Names \cup {Junk}, xpanid : Xpanids \cup {Junk}]

Values == [name : Names \cup {Empty}, xpanid : Xpanids, started : BOOLEAN]
Signals ==
  [key : {"name"}, value : Names, sender : Nat]
    \cup [key : {"xpanid"}, value : Xpanids, sender : Nat]
    \cup [key : {"started"}, value : BOOLEAN, sender : Nat]

\* client: avahi's mClient is there; ready: mState is kStateReady; mServices: the
\* names in it; linked: the daemon knows the client (or the DNSServiceRef);
\* entries: the services added; shown: those the daemon announces; missed: the
\* service is not announced because the daemon was away, busy or lost it.
Publishers ==
  [client : BOOLEAN, ready : BOOLEAN, mServices : SUBSET (Names \cup {Junk}),
   linked : BOOLEAN, entries : SUBSET Records, shown : SUBSET Records,
   missed : BOOLEAN]

Init ==
  /\ build \in {"avahi", "mdnssd"}
  /\ pc = "init" /\ handlers = FALSE
  /\ \E name \in {Empty, Junk} :
       agent = [name |-> name, xpanid |-> Junk, started |-> FALSE]
  /\ mInterfaceDBusName = 0
  /\ pub = [client |-> FALSE, ready |-> FALSE, mServices |-> {}, linked |-> FALSE,
            entries |-> {}, shown |-> {}, missed |-> FALSE]
  /\ daemon \in {"down", "registering", "running"}
  /\ wpan \in Values /\ (wpan.started => wpan.name # Empty)
  /\ owner = 1 /\ signals = <<>> /\ unseen = {}
  /\ changes = 0 /\ faults = 0

(***************************************************************************)
(* PublishService, Start and Stop of the publishers: operators from the    *)
(* publisher's state p to its next state.                                  *)
(***************************************************************************)
Record(a) == [name |-> a.name, xpanid |-> a.xpanid]
Renewed(records, a) == {IF r.name = a.name THEN Record(a) ELSE r : r \in records}

\* The TXT records of a service the daemon has are replaced, at once.
UpdateRecord(p, a) ==
  IF p.linked
  THEN [p EXCEPT !.entries = Renewed(@, a), !.shown = Renewed(@, a)]
  ELSE [p EXCEPT !.missed = TRUE]

\* avahi: only a ready publisher publishes; what is added waits for a commit.
AvahiPublish(p, a) ==
  IF p.ready /\ a.name \in p.mServices THEN UpdateRecord(p, a)
  ELSE IF p.ready /\ p.linked
  THEN [p EXCEPT !.mServices = @ \cup {a.name}, !.entries = @ \cup {Record(a)}]
  ELSE [p EXCEPT !.missed = TRUE]

Commit(p) == [p EXCEPT !.shown = p.entries, !.missed = p.entries = {}]

AvahiStartNoPublish(p, a) ==  \* mutant: Start never publishes
  [p EXCEPT !.client = TRUE, !.linked = daemon # "down",
            !.ready = daemon = "running"]

\* avahi_client_new calls back once, with the daemon's state.  Only a running
\* daemon makes the publisher ready, which publishes and then commits.
AvahiStart(p, a) ==
  LET q == [p EXCEPT !.client = TRUE, !.linked = daemon # "down"]
  IN  IF daemon = "running"
      THEN Commit(AvahiPublish([q EXCEPT !.ready = TRUE], a))
      ELSE [q EXCEPT !.missed = TRUE]

AvahiStop(p) ==
  IF p.client
  THEN [p EXCEPT !.client = FALSE, !.ready = FALSE, !.mServices = {},
                 !.linked = FALSE, !.entries = {}, !.shown = {}]
  ELSE [p EXCEPT !.mServices = {}]

\* mDNSResponder: a registration is announced without a commit.
MDnsSdPublish(p, a) ==
  IF a.name \in p.mServices THEN UpdateRecord(p, a)
  ELSE IF daemon # "down"
  THEN [p EXCEPT !.mServices = @ \cup {a.name}, !.linked = TRUE, !.missed = FALSE,
                 !.entries = @ \cup {Record(a)}, !.shown = @ \cup {Record(a)}]
  ELSE [p EXCEPT !.missed = TRUE]

\* Stop leaves mState as it is: the publisher stays "started".
MDnsSdStop(p) ==
  IF p.ready
  THEN [p EXCEPT !.mServices = {}, !.linked = FALSE, !.entries = {}, !.shown = {}]
  ELSE p

IsStarted(p) == IF build = "avahi" THEN p.client ELSE p.ready
PublishService(p, a) ==
  IF build = "avahi" THEN AvahiPublish(p, a) ELSE MDnsSdPublish(p, a)
Start(p, a) ==
  IF build = "avahi" THEN AvahiStart(p, a)
                     ELSE MDnsSdPublish([p EXCEPT !.ready = TRUE], a)
Stop(p) == IF build = "avahi" THEN AvahiStop(p) ELSE MDnsSdStop(p)

(***************************************************************************)
(* The agent's handlers of the three events.                               *)
(***************************************************************************)
StartPublishService(p, a) ==
  IF IsStarted(p) THEN PublishService(p, a) ELSE Start(p, a)
StopPublishService(p) == IF IsStarted(p) THEN Stop(p) ELSE p

HandleThreadChange(p, a) ==
  IF a.started /\ a.name # Empty THEN StartPublishService(p, a)
                                 ELSE StopPublishService(p)

HandleNoStop(key, value) ==  \* mutant: SetNetworkName without the Stop
  LET a == [agent EXCEPT ![key] = value]
  IN  agent' = a /\ pub' = HandleThreadChange(pub, a)

\* A new name needs a new service: the publisher is restarted.
Handle(key, value) ==
  LET a == [agent EXCEPT ![key] = value]
  IN  /\ agent' = a
      /\ pub' = HandleThreadChange(IF key = "name" THEN Stop(pub) ELSE pub, a)

EmitOnce(key, value) ==  \* mutant: a new xpanid is ignored while Thread runs
  IF handlers /\ ~(key = "xpanid" /\ agent.started)
  THEN Handle(key, value) ELSE UNCHANGED <<agent, pub>>

Emit(key, value) ==
  IF handlers THEN Handle(key, value) ELSE UNCHANGED <<agent, pub>>

(***************************************************************************)
(* AgentInstance::Init: mNcp->Init finds wpantund, then BorderAgent::Start *)
(* binds the socket, registers the handlers and requests the properties.   *)
(* If the socket cannot be bound, Start returns no error and the agent     *)
(* runs without handlers; without wpantund or a socket the program ends.   *)
(***************************************************************************)
Fails == faults < MaxFaults /\ faults' = faults + 1

NcpInit ==
  /\ pc = "init"
  /\ \/ mInterfaceDBusName' = owner /\ pc' = "bind" /\ UNCHANGED faults
     \/ Fails /\ pc' = "exit" /\ UNCHANGED mInterfaceDBusName
  /\ UNCHANGED <<build, handlers, agent, pub, daemon, ncpVars, signals, unseen,
                 changes>>

Listen ==
  /\ pc = "bind"
  /\ \/ handlers' = TRUE /\ pc' = "name" /\ UNCHANGED faults
     \/ Fails /\ pc' \in {"loop", "exit"} /\ UNCHANGED handlers
  /\ UNCHANGED <<build, agent, mInterfaceDBusName, pub, daemon, ncpVars, signals,
                 unseen, changes>>

After == [name |-> "xpanid", xpanid |-> "started", started |-> "loop"]

\* A request is answered by the process it is sent to, if that still runs.
RequestEvent ==
  /\ pc \in Keys /\ pc' = After[pc]
  /\ \/ /\ mInterfaceDBusName = owner
        /\ Handle(pc, wpan[pc])
        /\ UNCHANGED <<unseen, faults>>
     \/ /\ IF mInterfaceDBusName = owner THEN Fails ELSE UNCHANGED faults
        /\ unseen' = unseen \cup {pc}
        /\ UNCHANGED <<agent, pub>>
  /\ UNCHANGED <<build, handlers, mInterfaceDBusName, daemon, ncpVars, signals,
                 changes>>

\* A value is emitted as the event of its key.
ParseEvent(s) == Emit(s.key, s.value)

\* Controller::Process dispatches the signals, first come first served.  One
\* that comes from another process than the last looked up makes the agent look
\* the process up again; if that fails, the signal is dropped.
HandlePropertyChangedSignal ==
  /\ pc = "loop" /\ signals # <<>>
  /\ signals' = Tail(signals)
  /\ LET s == Head(signals)
     IN  \/ /\ mInterfaceDBusName' = IF s.sender = mInterfaceDBusName
                                     THEN mInterfaceDBusName ELSE owner
            /\ ParseEvent(s)
            /\ unseen' = unseen \ {s.key}
            /\ UNCHANGED faults
         \/ /\ s.sender # mInterfaceDBusName /\ Fails
            /\ mInterfaceDBusName' = 0
            /\ unseen' = unseen \cup {s.key}
            /\ UNCHANGED <<agent, pub>>
  /\ UNCHANGED <<build, pc, handlers, daemon, ncpVars, changes>>

(***************************************************************************)
(* wpantund and the mDNS daemon.                                           *)
(***************************************************************************)
Signal(key, value, from) == [key |-> key, value |-> value, sender |-> from]

PropChanged ==
  /\ changes < MaxChanges /\ changes' = changes + 1
  /\ \E key \in Keys : \E value \in (IF key = "name" THEN Names
                                     ELSE IF key = "xpanid" THEN Xpanids
                                     ELSE BOOLEAN) \ {wpan[key]} :
       /\ key = "started" => wpan.name # Empty
       /\ wpan' = [wpan EXCEPT ![key] = value]
       /\ signals' = Append(signals, Signal(key, value, owner))
  /\ UNCHANGED <<build, pc, handlers, agent, mInterfaceDBusName, pub, daemon, owner,
                 unseen, faults>>

\* A new process keeps the network's name and id, which the NCP stores.
WpantundRestarts ==
  /\ changes < MaxChanges /\ changes' = changes + 1
  /\ owner' = owner + 1
  /\ wpan' = [wpan EXCEPT !.started = FALSE]
  /\ signals' = Append(signals, Signal("started", FALSE, owner + 1))
  /\ UNCHANGED <<build, pc, handlers, agent, mInterfaceDBusName, pub, daemon, unseen,
                 faults>>

Forget(p) == [p EXCEPT !.shown = {}, !.missed = TRUE]

DaemonStops ==
  /\ daemon # "down" /\ Fails
  /\ daemon' = "down"
  /\ pub' = [Forget(pub) EXCEPT !.linked = FALSE, !.entries = {}]
  /\ UNCHANGED <<build, pc, handlers, agent, mInterfaceDBusName, ncpVars, signals,
                 unseen, changes>>

DaemonStarts ==
  /\ daemon # "running"
  /\ daemon' = IF daemon = "down" THEN "registering" ELSE "running"
  /\ UNCHANGED <<build, pc, handlers, agent, mInterfaceDBusName, pub, ncpVars,
                 signals, unseen, changes, faults>>

\* Another host has a service of this name: avahi withdraws the later one.
Collision ==
  /\ build = "avahi" /\ pub.shown # {} /\ Fails
  /\ pub' = Forget(pub)
  /\ UNCHANGED <<build, pc, handlers, agent, mInterfaceDBusName, daemon, ncpVars,
                 signals, unseen, changes>>

AgentNext == NcpInit \/ Listen \/ RequestEvent \/ HandlePropertyChangedSignal
Next == \/ AgentNext
        \/ PropChanged \/ WpantundRestarts
        \/ DaemonStops \/ DaemonStarts \/ Collision

\* The agent's thread goes on: a request ends within ten seconds, and signals
\* that wait are dispatched in the next round of select.
Spec == Init /\ [][Next]_vars /\ WF_vars(AgentNext)

(***************************************************************************)
(* Properties                                                              *)
(***************************************************************************)

TypeOK ==
  /\ build \in {"avahi", "mdnssd"}
  /\ pc \in Keys \cup {"init", "bind", "loop", "exit"} /\ handlers \in BOOLEAN
  /\ agent \in [name : Names \cup {Empty, Junk}, xpanid : Xpanids \cup {Junk},
                started : BOOLEAN]
  /\ mInterfaceDBusName \in Nat /\ owner \in Nat
  /\ pub \in Publishers
  /\ daemon \in {"down", "registering", "running"}
  /\ wpan \in Values /\ signals \in Seq(Signals) /\ unseen \subseteq Keys
  /\ changes \in Nat /\ faults \in Nat

\* What is announced is one service, with the name and the extended PAN id the
\* agent holds, and only while it holds that Thread is started: no handler,
\* in whatever order the events come, leaves an earlier service behind.
ShowsWhatIsKnown ==
  /\ TypeOK
  /\ pub.shown \subseteq {Record(agent)}
  /\ pub.shown # {} => agent.started /\ agent.name # Empty

Expected == IF wpan.started THEN {Record(wpan)} ELSE {}

\* Once every signal is handled nothing is announced but what wpantund has, however
\* its changes, the requests of Start and the queued signals overtook each other,
\* unless the last value of a property was lost (a request or a look-up failed).
NeverStale ==
  pc = "loop" /\ signals = <<>> /\ unseen = {} => pub.shown \subseteq Expected

\* In the end what wpantund has is announced, unless the program ended or runs
\* without handlers, a value was lost, or the publisher missed its daemon.
Converges ==
  <>[] \/ pc = "exit" \/ unseen # {} \/ pub.missed
       \/ pc = "loop" /\ (handlers => signals = <<>> /\ pub.shown = Expected)

(***************************************************************************)
(* The inductive invariant.  Clean is what the agent keeps true of its     *)
(* publisher: the services in the daemon are at most the one of what it    *)
(* knows, and nothing is left of them without a connection to the daemon,  *)
(* without their name in mServices or with a publisher that is not ready,  *)
(* so that Stop finds everything there is to withdraw.                     *)
(***************************************************************************)
AgentType ==
  [name : Names \cup {Empty, Junk}, xpanid : Xpanids \cup {Junk}, started : BOOLEAN]

\* What PublishService relies on.
Tidy(p, a) ==
  /\ p \in Publishers
  /\ p.shown \subseteq p.entries
  /\ \A r \in p.entries : r.name = a.name
  /\ p.entries # {} => p.linked /\ p.ready /\ a.name \in p.mServices
  /\ build = "avahi" /\ p.ready => p.client

Clean(p, a) ==
  /\ Tidy(p, a)
  /\ p.entries \subseteq {Record(a)}
  /\ p.entries # {} => a.started /\ a.name # Empty

\* The keys whose request is still to come.
Requested(k) ==
  \/ pc = "loop"
  \/ pc = "started" /\ k # "started"
  \/ pc = "xpanid" /\ k = "name"

LastOfKey(i) == \A j \in DOMAIN signals : j > i => signals[j].key # signals[i].key

\* The last signal under way for a property has its value; without one, the
\* agent has it, if it asked for it and nothing was lost.
Informed ==
  /\ \A i \in DOMAIN signals : LastOfKey(i) => signals[i].value = wpan[signals[i].key]
  /\ \A k \in Keys :
       handlers /\ Requested(k) /\ k \notin unseen
         /\ (\A i \in DOMAIN signals : signals[i].key # k)
       => agent[k] = wpan[k]

IndInv ==
  /\ TypeOK
  /\ Clean(pub, agent)
  /\ pc \in Keys => handlers
  /\ pc \in {"init", "bind"} => ~handlers
  /\ ~handlers => ~agent.started
  /\ Informed
=============================================================================
