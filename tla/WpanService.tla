----------------------------- MODULE WpanService -----------------------------
(***************************************************************************)
(* The web service of the border router: the HTTP server (web_server.cpp), *)
(* the requests it serves (wpan_service.cpp) and the D-Bus calls to        *)
(* wpantund that serve them (wpan_controller.cpp, dbus_*.cpp).  One thread *)
(* serves one request at a time; each is a list of calls, of which the     *)
(* first that fails ends it, with what was done so far left done.  A scan  *)
(* fills mNetworks; a request to join names a network by its index in it,  *)
(* whoever scanned last.  WebPage has the page that makes the requests.    *)
(*                                                                         *)
(* Before each call the bus is asked for wpantund's name.  A call is done, *)
(* refused by wpantund or by a check of its arguments, or not answered     *)
(* within a minute, done or not.  A value set in wpantund is the id of the *)
(* request that set it.  wpantund and the network are external.            *)
(***************************************************************************)
EXTENDS Naturals, Sequences

CONSTANTS Users, Nets,
          Zero,         \* an entry of mNetworks never written
          Buffer,       \* OT_SCANNED_NET_BUFFER_SIZE
          Heard,        \* what a scan may hear: sequences of networks
          MaxRequests   \* bound: requests

ASSUME WpanServiceAssumption ==
  /\ Zero \notin Nets /\ Buffer \in Nat \ {0}
  /\ Heard \subseteq Seq(Nets) /\ MaxRequests \in Nat

VARIABLES
  mNetworks, mNetworksCount,  \* of WpanService
  listOf,                     \* the scan that filled them
  pending, arriving,          \* requests and responses on their way
  job, todo,                  \* the request being served, its calls to come
  requests,                   \* requests so far
  wpan                        \* wpantund

netVars  == <<mNetworks, mNetworksCount, listOf>>
serviceVars == <<netVars, pending, arriving, job, todo, requests, wpan>>

Ops == {"scan", "join", "form", "add", "delete", "status"}
Ids == 0 .. MaxRequests

\* A join is for the network of the list of an earlier scan at an index; lost: an
\* unanswered Join was not done.
Requests == [id : Ids \ {0}, user : Users, op : Ops, index : 0 .. Buffer - 1,
             net : Nets \cup {Zero}, list : Ids, lost : BOOLEAN]
NoJob == [id |-> 0]
Responses == [id : Ids \ {0}, user : Users, op : Ops, ok : BOOLEAN, networks : Seq(Nets)]

\* by: the request that put wpantund into its network, 0 while it is in none.
Wpan == [by : Ids, net : Nets \cup {Zero}, formed : BOOLEAN,
         key : Ids, panid : Ids, xpanid : Ids, pskc : Ids, gateway : BOOLEAN]

ServiceInit ==
  /\ mNetworks = [i \in 0 .. Buffer - 1 |-> Zero] /\ mNetworksCount = 0 /\ listOf = 0
  /\ pending = {} /\ arriving = {} /\ job = NoJob /\ todo = <<>> /\ requests = 0
  /\ wpan = [by |-> 0, net |-> Zero, formed |-> FALSE, key |-> 0, panid |-> 0,
             xpanid |-> 0, pskc |-> 0, gateway |-> FALSE]

(***************************************************************************)
(* The calls of each request.                                              *)
(***************************************************************************)
HandleJoinNoLeave == <<"key", "join", "gateway">>  \* mutant

HandleJoinNetworkRequest == <<"leave", "key", "join", "gateway">>
HandleFormNetworkRequest ==
  <<"leave", "key", "panid", "xpanid", "pskc", "form", "gateway">>
HandleAddPrefixRequest    == <<"gateway">>
HandleDeletePrefixRequest == <<"ungateway">>
HandleAvailableNetworkRequest == <<"scan">>
HandleStatusRequest == <<"state", "properties">>

CallsOf(op) ==
  CASE op = "join"   -> HandleJoinNetworkRequest
    [] op = "form"   -> HandleFormNetworkRequest
    [] op = "add"    -> HandleAddPrefixRequest
    [] op = "delete" -> HandleDeletePrefixRequest
    [] op = "scan"   -> HandleAvailableNetworkRequest
    [] op = "status" -> HandleStatusRequest

\* What a call does in wpantund.
Leave(w) == [w EXCEPT !.by = 0, !.net = Zero, !.formed = FALSE, !.gateway = FALSE]
Join(w)  == [w EXCEPT !.by = job.id, !.net = mNetworks[job.index], !.formed = FALSE]
Form(w)  == [w EXCEPT !.by = job.id, !.formed = TRUE]
Set(w, property) == [w EXCEPT ![property] = job.id]
AddGateway(w)    == [w EXCEPT !.gateway = TRUE]
RemoveGateway(w) == [w EXCEPT !.gateway = FALSE]

Effect(call, w) ==
  CASE call = "leave" -> Leave(w)
    [] call = "join"  -> Join(w)
    [] call = "form"  -> Form(w)
    [] call \in {"key", "panid", "xpanid", "pskc"} -> Set(w, call)
    [] call = "gateway"   -> AddGateway(w)
    [] call = "ungateway" -> RemoveGateway(w)
    [] OTHER -> w

(***************************************************************************)
(* The HTTP server.  Each request has a connection of its own, so that     *)
(* neither they nor the responses need arrive in order.                    *)
(***************************************************************************)
Request(u, op, d) ==
  /\ requests < MaxRequests /\ requests' = requests + 1
  /\ pending' = pending \cup {[id |-> requests', user |-> u, op |-> op, index |-> d.index,
                               net |-> d.net, list |-> d.list, lost |-> FALSE]}
  /\ UNCHANGED <<netVars, arriving, job, todo, wpan>>

HandleHttpRequest(request) ==
  /\ job = NoJob /\ request \in pending
  /\ job' = request /\ pending' = pending \ {request}
  /\ todo' = CallsOf(request.op)
  /\ UNCHANGED <<netVars, arriving, requests, wpan>>

Respond(ok, networks) ==
  /\ job' = NoJob /\ todo' = <<>>
  /\ arriving' = arriving \cup {[id |-> job.id, user |-> job.user, op |-> job.op, ok |-> ok,
                                 networks |-> networks]}

ProceedSilent ==  \* mutant: what was served is not answered
  IF Len(todo) > 1
  THEN todo' = Tail(todo) /\ UNCHANGED <<job, arriving>>
  ELSE job' = NoJob /\ todo' = <<>> /\ UNCHANGED arriving

\* The request goes on, or has been served: of an NCP that is not associated the
\* status is its state only.
Proceed ==
  IF Len(todo) > 1 /\ (Head(todo) = "state" => wpan.by # 0)
  THEN todo' = Tail(todo) /\ UNCHANGED <<job, arriving>>
  ELSE Respond(TRUE, <<>>)

(***************************************************************************)
(* The D-Bus calls other than Scan.                                        *)
(***************************************************************************)
Calling(calls) == job # NoJob /\ todo # <<>> /\ Head(todo) \in calls
AllCalls == {"leave", "key", "panid", "xpanid", "pskc", "join", "form", "gateway",
             "ungateway", "state", "properties"}

\* The name the bus has for wpantund's interface, if it answers and has one.
GetDBusInterfaceName == {"name", ""}

\* Without a destination there is no message; an entry of zeros is not joined.
GetMessage(destination) ==
  /\ destination # ""
  /\ Head(todo) = "join" => mNetworks[job.index] # Zero

\* Without the NCP's state the status is that wpantund is down.
Fails == Respond(Head(todo) = "state", <<>>)

Answered(destination) ==
  /\ Calling(AllCalls) /\ GetMessage(destination)
  /\ wpan' = Effect(Head(todo), wpan)
  /\ Proceed
  /\ UNCHANGED <<netVars, pending, requests>>

\* Either the call was not made, or wpantund refused it.
Refused ==
  /\ Calling(AllCalls)
  /\ Fails
  /\ UNCHANGED <<netVars, pending, requests, wpan>>

\* DBusJoin::ProcessReply returns no error when there is no reply; the others do.
NoErrorForm == {"join", "form"}  \* mutant
NoError == {"join"}

NotAnswered(destination) ==
  /\ Calling(AllCalls) /\ GetMessage(destination)
  /\ \E done \in BOOLEAN :
       /\ wpan' = IF done THEN Effect(Head(todo), wpan) ELSE wpan
       /\ IF Head(todo) \in NoError
          THEN /\ todo' = Tail(todo)
               /\ job' = [job EXCEPT !.lost = Head(todo) = "join" /\ ~done]
               /\ UNCHANGED arriving
          ELSE Fails
  /\ UNCHANGED <<netVars, pending, requests>>

(***************************************************************************)
(* Scan.  Beacons are collected until wpantund answers, those of another   *)
(* client's scan as well, as long as there is room; no answer counts as    *)
(* one without error.                                                      *)
(***************************************************************************)
\* How many of the beacons are stored.
DbusBeaconHandler(beacons) == IF Len(beacons) < Buffer THEN Len(beacons) ELSE Buffer

mAvailableNetworks(beacons) == SubSeq(beacons, 1, DbusBeaconHandler(beacons))

\* memcpy of the networks found; the entries after them stay.
CopyShort(found) ==  \* mutant: one entry less is copied
  [i \in DOMAIN mNetworks |-> IF i + 1 < Len(found) THEN found[i + 1] ELSE mNetworks[i]]
Copy(found) ==
  [i \in DOMAIN mNetworks |-> IF i < Len(found) THEN found[i + 1] ELSE mNetworks[i]]

\* Only a scan that found a network replaces the list, and is shown.
ScanReply(beacons) ==
  LET found == mAvailableNetworks(beacons)
  IN /\ Calling({"scan"})
     /\ IF found # <<>>
        THEN /\ mNetworksCount' = Len(found) /\ mNetworks' = Copy(found) /\ listOf' = job.id
             /\ Respond(TRUE, found)
        ELSE Respond(FALSE, <<>>) /\ UNCHANGED netVars
     /\ UNCHANGED <<pending, requests, wpan>>

ScanRefused ==
  /\ Calling({"scan"})
  /\ Respond(FALSE, <<>>)
  /\ UNCHANGED <<netVars, pending, requests, wpan>>

Server ==
  \/ \E request \in pending : HandleHttpRequest(request)
  \/ \E destination \in GetDBusInterfaceName : Answered(destination) \/ NotAnswered(destination)
  \/ Refused \/ ScanRefused
  \/ \E beacons \in Heard : ScanReply(beacons)

(***************************************************************************)
(* Properties                                                              *)
(***************************************************************************)
Short(s) == s \in Seq(Nets) /\ Len(s) <= Buffer

TypeOK ==
  /\ mNetworks \in [0 .. Buffer - 1 -> Nets \cup {Zero}] /\ mNetworksCount \in 0 .. Buffer
  /\ listOf \in Ids
  /\ pending \subseteq Requests /\ arriving \subseteq Responses
  /\ job \in Requests \cup {NoJob} /\ todo \in Seq(AllCalls \cup {"scan"})
  /\ requests \in Ids /\ wpan \in Wpan

\* While wpantund is in a network, the key it has is the one of the request that put
\* it there, and in a network it formed so are the PAN ids and the PSKc: requests
\* that fail half-way, or whose calls are done though not answered, never leave it
\* in a network with another request's settings.
OwnSettings ==
  /\ TypeOK
  /\ wpan.by # 0 =>
       /\ wpan.key = wpan.by
       /\ wpan.formed => {wpan.panid, wpan.xpanid, wpan.pskc} = {wpan.by}
=============================================================================
