-------------------------------- MODULE Coap ---------------------------------
(***************************************************************************)
(* Two CoAP agents (coap_libcoap.cpp): one registers and removes resources *)
(* and handles requests, the other sends them and hands each response to   *)
(* the handler given with the request.  The network may lose, delay,       *)
(* reorder and repeat.                                                     *)
(*                                                                         *)
(* A request is known by its number, which stands for its message id and   *)
(* its token; a resource by its path, as no path is registered twice.      *)
(* libcoap, which knows the resources by pointers of its own, looks up     *)
(* paths and matches responses with requests, is external.                 *)
(***************************************************************************)
EXTENDS Naturals, Sequences, FiniteSets

CONSTANTS Paths, NotFound,
          MaxRequests,   \* bound: requests
          MaxAdded,      \* bound: registrations
          MaxRepeats     \* bound: repeated requests

ASSUME CoapAssumption ==
  {NotFound, "empty"} \cap Paths = {} /\ {MaxRequests, MaxAdded, MaxRepeats} \subseteq Nat

VARIABLES
  resources,   \* of libcoap: the pointer and path of each resource
  mResources,  \* of the agent: the pointer and the Resource it stands for
  added,       \* registrations so far
  owed,        \* requests whose handler left the response for later
  sent,        \* the requests
  sendqueue,   \* those that wait for an answer, some of them for a separate one
  repeats,
  toServer, toClient,  \* messages on their way
  handled,     \* which handler was called for which request
  replies      \* what the handler given with each request was called with

serverCoap == <<resources, mResources, added, owed, handled>>
clientCoap == <<sent, sendqueue, repeats, replies>>
coapVars == <<serverCoap, clientCoap, toServer, toClient>>

Numbers == 1 .. MaxRequests
Entries == [ptr : 1 .. MaxAdded, path : Paths]
Types   == {"con", "non"}

\* What comes back: an empty acknowledgement, a response in one, or on its own.
Responses == [n : Numbers, type : {"ack", "non"}, from : Paths \cup {NotFound, "empty"}]

CoapInit ==
  /\ resources = {} /\ mResources = {} /\ added = 0 /\ owed = {} /\ handled = {}
  /\ sent = <<>> /\ sendqueue = {} /\ repeats = 0
  /\ replies = [n \in Numbers |-> <<>>]
  /\ toServer = {} /\ toClient = {}

(***************************************************************************)
(* The agent that serves.                                                  *)
(***************************************************************************)
AddResource(p) ==
  /\ \A e \in mResources : e.path # p
  /\ added < MaxAdded /\ added' = added + 1
  /\ resources'  = resources \cup {[ptr |-> added', path |-> p]}
  /\ mResources' = mResources \cup {[ptr |-> added', path |-> p]}
  /\ UNCHANGED <<owed, handled, clientCoap, toServer, toClient>>

RemoveResourceKeeps(p) ==  \* mutant: only libcoap forgets the resource
  /\ \E e \in mResources : e.path = p
  /\ resources' = {e \in resources : e.path # p}
  /\ UNCHANGED <<mResources, added, owed, handled, clientCoap, toServer, toClient>>

RemoveResource(p) ==
  /\ \E e \in mResources : e.path = p
  /\ resources'  = {e \in resources : e.path # p}
  /\ mResources' = {e \in mResources : e.path # p}
  /\ UNCHANGED <<added, owed, handled, clientCoap, toServer, toClient>>

\* The response in the acknowledgement of a request that asks for one, or on its own.
Answer(n, from) ==
  [n |-> n, type |-> IF sent[n].type = "con" THEN "ack" ELSE "non", from |-> from]

\* A handler that sets no code has the request acknowledged only, if it asks for it.
Acknowledge(n) == IF sent[n].type = "con" THEN {Answer(n, "empty")} ELSE {}

\* A pointer the agent does not know is left without a response.
HandleRequest(n) ==
  /\ n \in toServer /\ toServer' = toServer \ {n}
  /\ LET found == {e.ptr : e \in {f \in resources : f.path = sent[n].path}}
         known == {e \in mResources : e.ptr \in found}
         calls == {<<n, e.path>> : e \in known}
     IN /\ handled' = handled \cup calls
        /\ \/ toClient' = toClient \cup (IF found = {} THEN {Answer(n, NotFound)}
                                        ELSE IF known = {} THEN Acknowledge(n)
                                        ELSE {Answer(n, e.path) : e \in known})
              /\ UNCHANGED owed
           \/ /\ known # {}
              /\ toClient' = toClient \cup Acknowledge(n) /\ owed' = owed \cup calls
  /\ UNCHANGED <<resources, mResources, added, clientCoap>>

\* The response that was left for later is sent as a message of its own.
Respond(n, p) ==
  /\ <<n, p>> \in owed /\ owed' = owed \ {<<n, p>>}
  /\ toClient' = toClient \cup {[n |-> n, type |-> "non", from |-> p]}
  /\ UNCHANGED <<resources, mResources, added, handled, clientCoap, toServer>>

(***************************************************************************)
(* The agent that asks.                                                    *)
(***************************************************************************)
Send(p, type) ==
  /\ Len(sent) < MaxRequests
  /\ LET n == Len(sent) + 1
     IN /\ sent' = Append(sent, [path |-> p, type |-> type])
        /\ toServer' = toServer \cup {n}
        /\ sendqueue' = IF type = "con" THEN sendqueue \cup {[n |-> n, separate |-> FALSE]}
                                        ELSE sendqueue
  /\ UNCHANGED <<serverCoap, repeats, replies, toClient>>

\* The network delivers a request again; the agent itself never sends one twice.
Repeat(n) ==
  /\ n \in DOMAIN sent /\ n \notin toServer /\ repeats < MaxRepeats
  /\ toServer' = toServer \cup {n} /\ repeats' = repeats + 1
  /\ UNCHANGED <<serverCoap, sent, sendqueue, replies, toClient>>

SentAny(m) == sendqueue  \* mutant: whichever request waits

\* The request a response is the answer to: one in an acknowledgement has the
\* message id; one on its own the token of a request that was acknowledged.
Sent(m) == {q \in sendqueue : q.n = m.n /\ (m.type = "ack" \/ q.separate)}

HandleResponse(m) ==
  /\ m \in toClient /\ toClient' = toClient \ {m}
  /\ IF m.from = "empty"
     THEN /\ sendqueue' = {IF q \in Sent(m) THEN [q EXCEPT !.separate = TRUE] ELSE q : q \in sendqueue}
          /\ UNCHANGED replies
     ELSE /\ replies' = [n \in Numbers |-> IF \E q \in Sent(m) : q.n = n
                                           THEN Append(replies[n], m.from) ELSE replies[n]]
          /\ sendqueue' = {q \in sendqueue : q.n # m.n}
  /\ UNCHANGED <<serverCoap, sent, repeats, toServer>>

CoapNext ==
  \/ \E p \in Paths : AddResource(p) \/ RemoveResource(p)
  \/ \E p \in Paths, t \in Types : Send(p, t)
  \/ \E n \in Numbers : HandleRequest(n) \/ Repeat(n) \/ \E p \in Paths : Respond(n, p)
  \/ \E m \in toClient : HandleResponse(m)

CoapSpec == CoapInit /\ [][CoapNext]_coapVars

-----------------------------------------------------------------------------

CoapTypeOK ==
  /\ {resources, mResources} \subseteq SUBSET Entries /\ added \in 0 .. MaxAdded
  /\ {owed, handled} \subseteq SUBSET (Numbers \X Paths)
  /\ sent \in Seq([path : Paths, type : Types])
  /\ sendqueue \subseteq [n : Numbers, separate : BOOLEAN] /\ repeats \in 0 .. MaxRepeats
  /\ replies \in [Numbers -> Seq(Paths \cup {NotFound})]
  /\ toServer \subseteq Numbers /\ toClient \subseteq Responses

\* The agent and libcoap have the same resources, whatever was registered and
\* removed while requests were on their way; a request is handled by the resource
\* it is for; and the handler given with a request is called at most once, with
\* the response of that resource or the error that there was none, though
\* responses are repeated, late, or come on their own after the acknowledgement.
ExchangesMatch ==
  /\ CoapTypeOK
  /\ resources = mResources
  /\ \A e, f \in resources : e.path = f.path => e = f
  /\ \A h \in handled : h[2] = sent[h[1]].path
  /\ \A n \in Numbers :
       /\ Len(replies[n]) <= 1
       /\ \A i \in DOMAIN replies[n] :
            /\ sent[n].type = "con"
            /\ replies[n][i] # NotFound => <<n, replies[n][i]>> \in handled
=============================================================================
