------------------------------- MODULE MCLoops -------------------------------
(***************************************************************************)
(* The two programs with a select loop of their own, and two CoAP agents:  *)
(* one of the three.                                                       *)
(***************************************************************************)
EXTENDS AgentLoop, ServiceRefs, Coap

VARIABLE program

MCInit == /\ program \in {"otbr-agent", "otbr-mdns", "coap"}
          /\ BusInit /\ RefsInit /\ CoapInit

AgentRuns == program = "otbr-agent" /\ UNCHANGED <<program, refsVars, coapVars>>
MdnsRuns  == program = "otbr-mdns" /\ UNCHANGED <<program, busVars, coapVars>>
CoapRuns  == program = "coap" /\ UNCHANGED <<program, busVars, refsVars>>

MCNext == (BusNext /\ AgentRuns) \/ (RefsNext /\ MdnsRuns) \/ (CoapNext /\ CoapRuns)

mcVars == <<program, busVars, refsVars, coapVars>>

\* The agent's thread is scheduled, select returns, and the bus reads on.
MCSpec ==
  /\ MCInit /\ [][MCNext]_mcVars
  /\ WF_mcVars(Loop /\ AgentRuns)
  /\ WF_mcVars(BusDrains /\ ~Left /\ AgentRuns)
=============================================================================
