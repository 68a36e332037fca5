------------------------------ MODULE AgentLoop ------------------------------
(***************************************************************************)
(* The main loop of otbr-agent (agent/main.cpp, agent_instance.cpp): in    *)
(* each round the file descriptors are collected, select waits for them at *)
(* most ten seconds, and the D-Bus connection (ncp_wpantund.cpp) and the   *)
(* agent's socket (border_agent.cpp) are processed, in this order.         *)
(*                                                                         *)
(* Of a signal or a datagram only its way matters: from the bus's socket   *)
(* to the connection's queue to the filter, or from the agent's socket to  *)
(* the connection's queue to the bus.  libdbus is external: it reads what  *)
(* there is, in a call that blocks too; it tries to write what is sent at  *)
(* once, and enables its write watch while something is left; and it frees *)
(* its watches when the bus is gone.                                       *)
(***************************************************************************)
EXTENDS Naturals

CONSTANTS MaxSignals,    \* bound: signals of wpantund
          MaxDatagrams   \* bound: datagrams of commissioners

ASSUME AgentLoopAssumption == MaxSignals \in Nat /\ MaxDatagrams \in Nat

VARIABLES
  at,        \* of Mainloop; "exit" once it is left, "undefined" after a misuse
  mWatches,  \* whether a watch of libdbus is enabled, as the agent knows it
  asked,     \* the descriptors select is asked for
  set,       \* those it found ready
  incoming, inqueue,  \* signals in the bus's socket, and in the connection
  outqueue,  \* messages not yet written to the bus
  packets,   \* datagrams in the agent's socket
  bus,       \* "reading", "full" or "gone"
  signals, datagrams, \* so far
  fresh      \* no round is complete

sourceVars == <<incoming, packets, bus, signals, datagrams>>
busVars == <<at, mWatches, asked, set, inqueue, outqueue, fresh, sourceVars>>

Watches == {"read", "write"}
Sockets == Watches \cup {"error", "agent"}

AddDBusWatch == [w \in Watches |-> TRUE]

\* libdbus has enabled or disabled its write watch.
ToggleDBusWatch(out) == [mWatches EXCEPT !["write"] = out > 0]

BusInit ==
  /\ at = "start" /\ mWatches = AddDBusWatch
  /\ asked = {} /\ set = {}
  /\ incoming = 0 /\ inqueue = 0 /\ outqueue = 0 /\ packets = 0
  /\ bus = "reading" /\ signals = 0 /\ datagrams = 0
  /\ fresh = TRUE

\* A call that waits for its reply: what arrives before it is queued.
Blocking(queued) ==
  \E k \in 0 .. incoming :
    incoming' = incoming - k /\ inqueue' = queued + k

\* BorderAgent::Start requests three properties, before the loop.
Started ==
  /\ at = "start" /\ at' = "update"
  /\ Blocking(inqueue)
  /\ UNCHANGED <<mWatches, asked, set, outqueue, packets, bus, signals, datagrams, fresh>>

\* A watch of the bus's socket is asked for while it is enabled, to write only
\* if there is something to write; errors with either.
UpdateFdSet ==
  /\ at = "update" /\ at' = "select"
  /\ asked' = {"agent"}
                \cup (IF mWatches["read"] THEN {"read", "error"} ELSE {})
                \cup (IF mWatches["write"] THEN {"error"} ELSE {})
                \cup (IF mWatches["write"] /\ outqueue > 0 THEN {"write"} ELSE {})
  /\ UNCHANGED <<mWatches, set, inqueue, outqueue, fresh, sourceVars>>

Ready ==
  asked \cap ((IF incoming > 0 \/ bus = "gone" THEN {"read"} ELSE {})
              \cup (IF bus # "full" THEN {"write"} ELSE {})
              \cup (IF bus = "gone" THEN {"error"} ELSE {})
              \cup (IF packets > 0 THEN {"agent"} ELSE {}))

SelectNoTimeout ==  \* mutant: select waits for a descriptor
  /\ at = "select" /\ at' = "ncp" /\ Ready # {}
  /\ set' = Ready
  /\ UNCHANGED <<mWatches, asked, inqueue, outqueue, fresh, sourceVars>>

\* It returns when a descriptor is ready, or after kPollTimeout.
Select ==
  /\ at = "select" /\ at' = "ncp"
  /\ set' = Ready
  /\ UNCHANGED <<mWatches, asked, inqueue, outqueue, fresh, sourceVars>>

\* SIGTERM resets its handler and interrupts select, which ends the program; at
\* any other place it is forgotten, as nobody asks for it.
Terminate ==
  /\ at = "select" /\ at' = "exit"
  /\ UNCHANGED <<mWatches, asked, set, inqueue, outqueue, fresh, sourceVars>>

\* Process hands each enabled watch the events of its descriptor.  If the bus is
\* gone, libdbus frees the watches the loop is iterating over.
HandleWatches ==
  /\ at = "ncp"
  /\ IF set \cap {"read", "write", "error"} # {} /\ bus = "gone"
     THEN at' = "undefined" /\ UNCHANGED <<mWatches, incoming, inqueue, outqueue>>
     ELSE /\ at' = "dispatch"
          /\ IF "read" \in set THEN incoming' = 0 /\ inqueue' = inqueue + incoming
                               ELSE UNCHANGED <<incoming, inqueue>>
          /\ outqueue' = IF "write" \in set /\ bus = "reading" THEN 0 ELSE outqueue
          /\ mWatches' = IF outqueue' # outqueue THEN ToggleDBusWatch(outqueue') ELSE mWatches
  /\ UNCHANGED <<asked, set, packets, bus, signals, datagrams, fresh>>

DispatchOne ==  \* mutant: one signal in each round
  /\ at = "dispatch" /\ at' = "agent"
  /\ inqueue' = IF inqueue > 0 THEN inqueue - 1 ELSE 0
  /\ UNCHANGED <<mWatches, asked, set, outqueue, fresh, sourceVars>>

\* The signals are dispatched until none is left; the filter may look up the name
\* of wpantund, which blocks.  The last is that the bus is gone, and libdbus ends
\* the program.
Dispatch ==
  /\ at = "dispatch"
  /\ \/ inqueue = 0 /\ at' = "agent" /\ UNCHANGED <<incoming, inqueue>>
     \/ inqueue > 0 /\ UNCHANGED at /\ Blocking(inqueue - 1)
     \/ inqueue = 0 /\ bus = "gone" /\ at' = "exit" /\ UNCHANGED <<incoming, inqueue>>
  /\ UNCHANGED <<mWatches, asked, set, outqueue, packets, bus, signals, datagrams, fresh>>

\* A datagram is sent to wpantund, and what was left before with it.
UdpProxySend ==
  /\ outqueue' = IF bus = "reading" THEN 0 ELSE outqueue + 1
  /\ mWatches' = IF outqueue' = outqueue THEN mWatches ELSE ToggleDBusWatch(outqueue')

AgentProcess ==
  /\ at = "agent" /\ at' = "update"
  /\ fresh' = FALSE
  /\ IF "agent" \in set THEN packets' = packets - 1 /\ UdpProxySend
     ELSE UNCHANGED <<packets, outqueue, mWatches>>
  /\ UNCHANGED <<asked, set, inqueue, incoming, bus, signals, datagrams>>

Loop == Started \/ UpdateFdSet \/ Select \/ HandleWatches \/ Dispatch \/ AgentProcess

(***************************************************************************)
(* The bus, wpantund and the commissioners.                                *)
(***************************************************************************)
loopVars == <<at, mWatches, asked, set, inqueue, outqueue, fresh>>

SignalArrives ==
  /\ bus # "gone" /\ signals < MaxSignals
  /\ signals' = signals + 1 /\ incoming' = incoming + 1
  /\ UNCHANGED <<loopVars, packets, bus, datagrams>>

DatagramArrives ==
  /\ datagrams < MaxDatagrams
  /\ datagrams' = datagrams + 1 /\ packets' = packets + 1
  /\ UNCHANGED <<loopVars, incoming, bus, signals>>

\* The socket to the bus fills by what the agent writes, and drains as the bus reads.
Bus(from, to) ==
  /\ bus \in from /\ bus' = to
  /\ UNCHANGED <<loopVars, incoming, packets, signals, datagrams>>
BusFills  == outqueue = 0 /\ Bus({"reading"}, "full")
BusDrains == Bus({"full"}, "reading")
BusDies   == Bus({"reading", "full"}, "gone")

Left == at \in {"exit", "undefined"}

BusNext ==
  \/ Loop \/ Terminate
  \/ ~Left /\ (SignalArrives \/ DatagramArrives \/ BusFills \/ BusDrains \/ BusDies)

BusSpec == BusInit /\ [][BusNext]_busVars

-----------------------------------------------------------------------------

BusTypeOK ==
  /\ at \in {"start", "update", "select", "ncp", "dispatch", "agent", "exit", "undefined"}
  /\ mWatches \in [Watches -> BOOLEAN]
  /\ asked \subseteq Sockets /\ set \subseteq Sockets
  /\ {incoming, inqueue, signals} \subseteq 0 .. MaxSignals
  /\ {outqueue, packets, datagrams} \subseteq 0 .. MaxDatagrams
  /\ bus \in {"reading", "full", "gone"} /\ fresh \in BOOLEAN

\* While the agent sleeps in select no signal that was read waits in the connection,
\* where select does not see it, and what could not be written to the bus is waited
\* for.  Only the signals read during the requests of BorderAgent::Start are left to
\* the first round.
NothingWaitsUnseen ==
  /\ BusTypeOK
  /\ at = "select" =>
       /\ ~fresh => inqueue = 0
       /\ outqueue > 0 => "write" \in asked

\* A signal of wpantund reaches the filter, and a commissioner's datagram wpantund,
\* unless the program ends or the bus is gone.
Arrived == incoming + inqueue
AllServed ==
  /\ Arrived > 0 ~> Arrived = 0 \/ Left \/ bus = "gone"
  /\ packets + outqueue > 0 ~> packets + outqueue = 0 \/ Left \/ bus = "gone"
=============================================================================
