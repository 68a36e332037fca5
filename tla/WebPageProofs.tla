--------------------------- MODULE WebPageProofs ----------------------------
(***************************************************************************)
(* A network has the settings of one request, an index leads to the        *)
(* network the user saw, and what is called successful was: for any        *)
(* number of users, networks and requests.                                 *)
(***************************************************************************)
EXTENDS WebPage, SequenceTheorems, TLAPS

(***************************************************************************)
(* The inductive invariant: types; ids, each of one request or response;   *)
(* lists, which the page has only of scans that were answered; and what    *)
(* the calls made so far have set.                                         *)
(***************************************************************************)
Dialogs == [index : 0 .. Buffer - 1, net : Nets \cup {Zero}, list : Ids]

Types ==
  /\ TypeOK /\ PageTypeOK
  /\ \A r \in arriving : Short(r.networks)
  /\ dialog \in [Users -> Dialogs]
  /\ networksInfo \in [Users -> [networks : Seq(Nets), list : Ids]]

\* The request is still to be answered.
Waits(id) == id # 0 /\ (job.id = id \/ \E r \in pending : r.id = id)
Known(id) == id <= requests /\ ~Waits(id)

Numbered ==
  /\ \A q, r \in pending : q.id = r.id => q = r
  /\ \A r \in pending : r.id <= requests /\ r.id # job.id
  /\ job.id <= requests

Lists ==
  /\ Known(listOf)
  /\ \A r \in arriving : Known(r.id)
  /\ \A r \in pending : Known(r.list)
  /\ job # NoJob => Known(job.list)
  /\ \A u \in Users : Known(networksInfo[u].list) /\ Known(dialog[u].list)

\* What is shown of the list the server has is what it has.
Seen(d) == d.list = listOf => mNetworks[d.index] = d.net
SeenList(list, networks) ==
  list = listOf => \A i \in 1..Len(networks) : mNetworks[i - 1] = networks[i]

Shown ==
  /\ listOf = 0 => \A i \in 0 .. Buffer - 1 : mNetworks[i] = Zero
  /\ \A r \in arriving : SeenList(r.id, r.networks)
  /\ \A r \in pending : Seen(r)
  /\ job # NoJob => Seen(job)
  /\ \A u \in Users : /\ SeenList(networksInfo[u].list, networksInfo[u].networks)
                     /\ Seen(dialog[u])

Calls == AllCalls \cup {"scan"}

\* What may be left of the calls of a request.
JoinLeft == {HandleJoinNetworkRequest, <<"key", "join", "gateway">>, <<"join", "gateway">>,
             <<"gateway">>}
FormLeft == {HandleFormNetworkRequest,
             <<"key", "panid", "xpanid", "pskc", "form", "gateway">>,
             <<"panid", "xpanid", "pskc", "form", "gateway">>,
             <<"xpanid", "pskc", "form", "gateway">>, <<"pskc", "form", "gateway">>,
             <<"form", "gateway">>, <<"gateway">>}

\* What the calls of a join and of a form have set when others are still to come.
JoinProgress ==
  /\ todo \in JoinLeft
  /\ Head(todo) \in {"key", "join"} => wpan.by = 0
  /\ Head(todo) = "join" => wpan.key = job.id
  /\ Head(todo) = "gateway" /\ ~job.lost => wpan.by = job.id

FormProgress ==
  /\ todo \in FormLeft
  /\ Head(todo) \in {"key", "panid", "xpanid", "pskc", "form"} => wpan.by = 0
  /\ Head(todo) \in {"panid", "xpanid", "pskc", "form"} => wpan.key = job.id
  /\ Head(todo) \in {"xpanid", "pskc", "form"} => wpan.panid = job.id
  /\ Head(todo) \in {"pskc", "form"} => wpan.xpanid = job.id
  /\ Head(todo) = "form" => wpan.pskc = job.id
  /\ Head(todo) = "gateway" => wpan.by = job.id

Progress ==
  job # NoJob =>
    /\ job.op = "join"   => JoinProgress
    /\ job.op = "form"   => FormProgress
    /\ job.op = "add"    => todo = <<"gateway">>
    /\ job.op = "delete" => todo = <<"ungateway">>
    /\ job.op = "scan"   => todo = <<"scan">>
    /\ job.op = "status" => todo \in {<<"state", "properties">>, <<"properties">>}

Own ==
  wpan.by # 0 =>
    /\ wpan.key = wpan.by
    /\ wpan.formed => {wpan.panid, wpan.xpanid, wpan.pskc} = {wpan.by}

IndInv == Types /\ Numbered /\ Lists /\ Shown /\ Progress /\ Own

-----------------------------------------------------------------------------
(* The calls.                                                              *)

\* call is followed by next, and Rest by what is left of the calls after it.
Follows(t, call, next, left) ==
  Head(t) = call /\ Len(t) > 1 /\ Tail(t) \in left /\ Head(Tail(t)) = next

LEMMA JoinCalls ==
  ASSUME NEW t \in JoinLeft
  PROVE  /\ t \in Seq(Calls) /\ t # <<>>
         /\ \/ Follows(t, "leave", "key", JoinLeft) \/ Follows(t, "key", "join", JoinLeft)
            \/ Follows(t, "join", "gateway", JoinLeft)
            \/ Head(t) = "gateway" /\ Len(t) = 1
<1>1. CASE t = <<"leave", "key", "join", "gateway">>
  <2>1. Tail(t) = <<"key", "join", "gateway">>
    BY <1>1
  <2> QED BY <1>1, <2>1 DEF Follows, JoinLeft, Calls, AllCalls
<1>2. CASE t = <<"key", "join", "gateway">>
  <2>1. Tail(t) = <<"join", "gateway">>
    BY <1>2
  <2> QED BY <1>2, <2>1 DEF Follows, JoinLeft, Calls, AllCalls
<1>3. CASE t = <<"join", "gateway">>
  <2>1. Tail(t) = <<"gateway">>
    BY <1>3
  <2> QED BY <1>3, <2>1 DEF Follows, JoinLeft, Calls, AllCalls
<1>4. CASE t = <<"gateway">>
  BY <1>4 DEF Calls, AllCalls
<1> QED BY <1>1, <1>2, <1>3, <1>4 DEF JoinLeft, HandleJoinNetworkRequest

LEMMA FormCalls ==
  ASSUME NEW t \in FormLeft
  PROVE  /\ t \in Seq(Calls) /\ t # <<>>
         /\ \/ Follows(t, "leave", "key", FormLeft) \/ Follows(t, "key", "panid", FormLeft)
            \/ Follows(t, "panid", "xpanid", FormLeft) \/ Follows(t, "xpanid", "pskc", FormLeft)
            \/ Follows(t, "pskc", "form", FormLeft) \/ Follows(t, "form", "gateway", FormLeft)
            \/ Head(t) = "gateway" /\ Len(t) = 1
<1>1. CASE t = <<"leave", "key", "panid", "xpanid", "pskc", "form", "gateway">>
  <2>1. Tail(t) = <<"key", "panid", "xpanid", "pskc", "form", "gateway">>
    BY <1>1
  <2> QED BY <1>1, <2>1 DEF Follows, FormLeft, Calls, AllCalls
<1>2. CASE t = <<"key", "panid", "xpanid", "pskc", "form", "gateway">>
  <2>1. Tail(t) = <<"panid", "xpanid", "pskc", "form", "gateway">>
    BY <1>2
  <2> QED BY <1>2, <2>1 DEF Follows, FormLeft, Calls, AllCalls
<1>3. CASE t = <<"panid", "xpanid", "pskc", "form", "gateway">>
  <2>1. Tail(t) = <<"xpanid", "pskc", "form", "gateway">>
    BY <1>3
  <2> QED BY <1>3, <2>1 DEF Follows, FormLeft, Calls, AllCalls
<1>4. CASE t = <<"xpanid", "pskc", "form", "gateway">>
  <2>1. Tail(t) = <<"pskc", "form", "gateway">>
    BY <1>4
  <2> QED BY <1>4, <2>1 DEF Follows, FormLeft, Calls, AllCalls
<1>5. CASE t = <<"pskc", "form", "gateway">>
  <2>1. Tail(t) = <<"form", "gateway">>
    BY <1>5
  <2> QED BY <1>5, <2>1 DEF Follows, FormLeft, Calls, AllCalls
<1>6. CASE t = <<"form", "gateway">>
  <2>1. Tail(t) = <<"gateway">>
    BY <1>6
  <2> QED BY <1>6, <2>1 DEF Follows, FormLeft, Calls, AllCalls
<1>7. CASE t = <<"gateway">>
  BY <1>7 DEF Calls, AllCalls
<1> QED BY <1>1, <1>2, <1>3, <1>4, <1>5, <1>6, <1>7 DEF FormLeft, HandleFormNetworkRequest

LEMMA CallsOfEach ==
  ASSUME NEW op \in Ops
  PROVE /\ op = "join"   => CallsOf(op) = HandleJoinNetworkRequest
        /\ op = "form"   => CallsOf(op) = HandleFormNetworkRequest
        /\ op = "add"    => CallsOf(op) = <<"gateway">>
        /\ op = "delete" => CallsOf(op) = <<"ungateway">>
        /\ op = "scan"   => CallsOf(op) = <<"scan">>
        /\ op = "status" => CallsOf(op) = <<"state", "properties">>
BY DEF CallsOf, HandleAddPrefixRequest, HandleDeletePrefixRequest,
       HandleAvailableNetworkRequest, HandleStatusRequest

LEMMA EffectOfEach ==
  ASSUME NEW w
  PROVE /\ Effect("leave", w) = Leave(w) /\ Effect("join", w) = Join(w)
        /\ Effect("form", w) = Form(w)
        /\ Effect("key", w) = Set(w, "key") /\ Effect("panid", w) = Set(w, "panid")
        /\ Effect("xpanid", w) = Set(w, "xpanid") /\ Effect("pskc", w) = Set(w, "pskc")
        /\ Effect("gateway", w) = AddGateway(w) /\ Effect("ungateway", w) = RemoveGateway(w)
        /\ Effect("state", w) = w /\ Effect("properties", w) = w
BY DEF Effect

\* A scan finds no more networks than there is room for.
LEMMA Room ==
  ASSUME NEW beacons \in Heard
  PROVE  Short(mAvailableNetworks(beacons))
BY WpanServiceAssumption DEF Short, mAvailableNetworks, DbusBeaconHandler

LEMMA CallsTyped ==
  ASSUME NEW op \in Ops
  PROVE  CallsOf(op) \in Seq(Calls) /\ CallsOf(op) # <<>>
<1>1. HandleJoinNetworkRequest \in JoinLeft /\ HandleFormNetworkRequest \in FormLeft
  BY DEF JoinLeft, FormLeft
<1>2. CASE op = "join"
  BY <1>1, <1>2, JoinCalls, CallsOfEach
<1>3. CASE op = "form"
  BY <1>1, <1>3, FormCalls, CallsOfEach
<1>4. <<"gateway">> \in Seq(Calls) /\ <<"ungateway">> \in Seq(Calls) /\ <<"scan">> \in Seq(Calls)
  <2>1. "gateway" \in Calls /\ "ungateway" \in Calls /\ "scan" \in Calls
    BY DEF Calls, AllCalls
  <2> QED BY <2>1
<1>5. <<"state", "properties">> \in Seq(Calls)
  <2>1. "state" \in Calls /\ "properties" \in Calls
    BY DEF Calls, AllCalls
  <2> QED BY <2>1
<1>6. CASE op \in {"add", "delete", "scan"}
  <2>1. CallsOf(op) = <<"gateway">> \/ CallsOf(op) = <<"ungateway">> \/ CallsOf(op) = <<"scan">>
    BY <1>6, CallsOfEach
  <2>2. <<"gateway">> # <<>> /\ <<"ungateway">> # <<>> /\ <<"scan">> # <<>>
    OBVIOUS
  <2> QED BY <1>4, <2>1, <2>2
<1>7. CASE op = "status"
  <2>1. CallsOf(op) = <<"state", "properties">>
    BY <1>7, CallsOfEach
  <2> QED BY <1>5, <2>1
<1> QED BY <1>2, <1>3, <1>6, <1>7 DEF Ops

LEMMA EffectTyped ==
  ASSUME TypeOK, job # NoJob, NEW call \in AllCalls
  PROVE  Effect(call, wpan) \in Wpan
<1>1. job.id \in Ids /\ mNetworks[job.index] \in Nets \cup {Zero} /\ Zero \in Nets \cup {Zero} /\ 0 \in Ids
  BY WpanServiceAssumption DEF TypeOK, Requests, Ids
<1>2. wpan \in Wpan
  BY DEF TypeOK
<1>3. /\ Leave(wpan) \in Wpan /\ Join(wpan) \in Wpan /\ Form(wpan) \in Wpan
      /\ AddGateway(wpan) \in Wpan /\ RemoveGateway(wpan) \in Wpan
  BY <1>1, <1>2 DEF Leave, Join, Form, AddGateway, RemoveGateway, Wpan
<1>4. /\ Set(wpan, "key") \in Wpan /\ Set(wpan, "panid") \in Wpan
      /\ Set(wpan, "xpanid") \in Wpan /\ Set(wpan, "pskc") \in Wpan
  BY <1>1, <1>2 DEF Set, Wpan
<1> QED BY <1>2, <1>3, <1>4, EffectOfEach DEF AllCalls

-----------------------------------------------------------------------------
(* Steps of the page, and of the server, by what they do to each other.    *)

\* A request is made with a dialog that is or was open.
Asks(u, op, d) ==
  /\ Request(u, op, d) /\ d \in {NoDialog, dialog[u]}
  /\ UNCHANGED <<networksInfo, dialog>>

\* Nothing is asked; a dialog is opened or closed.
Looks ==
  /\ UNCHANGED <<serviceVars, networksInfo>>
  /\ \/ UNCHANGED dialog
     \/ \E u \in Users : dialog' = [dialog EXCEPT ![u] = NoDialog]
     \/ \E u \in Users, index \in 0 .. Buffer - 1 :
          /\ index < Len(networksInfo[u].networks)
          /\ dialog' = [dialog EXCEPT ![u] = [index |-> index, list |-> networksInfo[u].list,
                                             net |-> networksInfo[u].networks[index + 1]]]

LEMMA UserSteps ==
  ASSUME NEW u \in Users, User(u)
  PROVE  (\E op \in Ops, d \in {NoDialog, dialog[u]} : Asks(u, op, d)) \/ Looks
<1>1. CASE showJoinPanel(u)
  BY <1>1 DEF showJoinPanel, Asks, Ops
<1>2. CASE showPanels(u)
  <2>1. CASE Request(u, "status", NoDialog)
    BY <1>2, <2>1 DEF showPanels, Asks, Ops
  <2>2. CASE UNCHANGED serviceVars
    BY <1>2, <2>2 DEF showPanels, Looks
  <2> QED BY <1>2, <2>1, <2>2 DEF showPanels
<1>3. CASE \E index \in 0 .. Buffer - 1 : showJoinDialog(u, index)
  BY <1>3 DEF showJoinDialog, Looks
<1>4. CASE join(u)
  BY <1>4 DEF join, Asks, Ops, pageVars
<1>5. CASE cancel(u)
  BY <1>5 DEF cancel, Looks
<1>6. CASE showConfirm(u) \/ showAddConfirm(u) \/ showDeleteConfirm(u)
  BY <1>6 DEF showConfirm, showAddConfirm, showDeleteConfirm, Confirm, Asks, Ops
<1> QED BY <1>1, <1>2, <1>3, <1>4, <1>5, <1>6 DEF User

LEMMA PanelsTyped ==
  ASSUME {joinPanel, isLoading, isForming} \subseteq [Users -> BOOLEAN], [Next]_vars
  PROVE  {joinPanel', isLoading', isForming'} \subseteq [Users -> BOOLEAN]
<1>1. CASE Server /\ UNCHANGED pageVars
  BY <1>1 DEF pageVars
<1>2. CASE \E u \in Users : User(u)
  BY <1>2 DEF User, showJoinPanel, showPanels, showJoinDialog, join, cancel, showConfirm,
              showAddConfirm, showDeleteConfirm, Confirm, pageVars
<1>3. ASSUME NEW r \in arriving, Response(r)
      PROVE  {joinPanel', isLoading', isForming'} \subseteq [Users -> BOOLEAN]
  <2>1. /\ isLoading' = [isLoading EXCEPT ![r.user] = isLoading[r.user] /\ r.op # "scan"]
        /\ isForming' = [isForming EXCEPT ![r.user] = isForming[r.user] /\ r.op # "form"]
        /\ joinPanel' = joinPanel
    BY <1>3 DEF Response
  <2>2. ASSUME NEW f \in [Users -> BOOLEAN], NEW u, NEW b \in BOOLEAN
        PROVE  [f EXCEPT ![u] = f[u] /\ b] \in [Users -> BOOLEAN]
    OBVIOUS
  <2>3. (r.op # "scan") \in BOOLEAN /\ (r.op # "form") \in BOOLEAN
    OBVIOUS
  <2>4. isLoading' \in [Users -> BOOLEAN]
    BY <2>1, <2>2, <2>3
  <2>5. isForming' \in [Users -> BOOLEAN]
    BY <2>1, <2>2, <2>3
  <2> QED BY <2>1, <2>4, <2>5
<1>4. CASE UNCHANGED vars
  BY <1>4 DEF vars, pageVars
<1> QED BY <1>1, <1>2, <1>3, <1>4 DEF Next

\* A call other than Scan is done or not; the request goes on or is answered.
GoesOn == todo' = Tail(todo) /\ Len(todo) > 1 /\ UNCHANGED <<job, arriving>>
Called ==
  /\ job # NoJob /\ todo # <<>> /\ Head(todo) \in AllCalls
  /\ wpan' \in {wpan, Effect(Head(todo), wpan)}
  /\ \/ GoesOn /\ wpan' = Effect(Head(todo), wpan)
     \/ \E ok \in BOOLEAN :
          /\ Respond(ok, <<>>)
          /\ ok => \/ Head(todo) = "state"
                   \/ (wpan' = Effect(Head(todo), wpan) /\ ~(Len(todo) > 1))
     \/ /\ Head(todo) = "join" /\ todo' = Tail(todo) /\ UNCHANGED arriving
        /\ \E done \in BOOLEAN :
             /\ job' = [job EXCEPT !.lost = ~done]
             /\ wpan' = IF done THEN Effect(Head(todo), wpan) ELSE wpan
  /\ UNCHANGED <<netVars, pending, requests>>

LEMMA CallSteps ==
  ASSUME \/ \E destination \in GetDBusInterfaceName : Answered(destination) \/ NotAnswered(destination)
         \/ Refused
  PROVE  Called
<1>1. CASE \E destination \in GetDBusInterfaceName : Answered(destination)
  <2>1. /\ Proceed /\ wpan' = Effect(Head(todo), wpan)
        /\ job # NoJob /\ todo # <<>> /\ Head(todo) \in AllCalls
        /\ UNCHANGED <<netVars, pending, requests>>
    BY <1>1 DEF Answered, Calling
  <2>2. CASE GoesOn
    BY <2>1, <2>2 DEF Called
  <2>3. CASE ~GoesOn
    <3>1. Respond(TRUE, <<>>) /\ (Head(todo) = "state" \/ ~(Len(todo) > 1))
      BY <2>1, <2>3 DEF Proceed, GoesOn
    <3> QED BY <2>1, <3>1 DEF Called
  <2> QED BY <2>2, <2>3
<1>2. ASSUME NEW destination \in GetDBusInterfaceName, NotAnswered(destination)
      PROVE  Called
  <2>1. /\ job # NoJob /\ todo # <<>> /\ Head(todo) \in AllCalls
        /\ UNCHANGED <<netVars, pending, requests>>
    BY <1>2 DEF NotAnswered, Calling
  <2>2. PICK done \in BOOLEAN :
          /\ wpan' = IF done THEN Effect(Head(todo), wpan) ELSE wpan
          /\ IF Head(todo) \in NoError
             THEN /\ todo' = Tail(todo)
                  /\ job' = [job EXCEPT !.lost = Head(todo) = "join" /\ ~done]
                  /\ UNCHANGED arriving
             ELSE Fails
    BY <1>2 DEF NotAnswered
  <2>3. wpan' \in {wpan, Effect(Head(todo), wpan)}
    BY <2>2
  <2>4. CASE Head(todo) = "join"
    <3>1. job' = [job EXCEPT !.lost = ~done] /\ todo' = Tail(todo) /\ UNCHANGED arriving
      BY <2>2, <2>4 DEF NoError
    <3> QED BY <2>1, <2>2, <2>3, <2>4, <3>1 DEF Called
  <2>5. CASE Head(todo) # "join"
    <3>1. Respond(Head(todo) = "state", <<>>) /\ (Head(todo) = "state") \in BOOLEAN
      BY <2>2, <2>5 DEF NoError, Fails
    <3> QED BY <2>1, <2>3, <3>1 DEF Called
  <2> QED BY <2>4, <2>5
<1>3. CASE Refused
  <2>1. /\ job # NoJob /\ todo # <<>> /\ Head(todo) \in AllCalls
        /\ wpan' = wpan /\ UNCHANGED <<netVars, pending, requests>>
    BY <1>3 DEF Refused, Calling
  <2>2. Respond(Head(todo) = "state", <<>>) /\ (Head(todo) = "state") \in BOOLEAN
    BY <1>3 DEF Refused, Fails
  <2> QED BY <2>1, <2>2 DEF Called
<1> QED BY <1>1, <1>2, <1>3

-----------------------------------------------------------------------------
(* Types.                                                                  *)

ServiceTypes == TypeOK /\ \A r \in arriving : Short(r.networks)
PageTypes ==
  /\ PageTypeOK
  /\ dialog \in [Users -> Dialogs]
  /\ networksInfo \in [Users -> [networks : Seq(Nets), list : Ids]]

LEMMA RespondTyped ==
  ASSUME ServiceTypes, job # NoJob, NEW ok \in BOOLEAN, NEW networks, Short(networks),
         Respond(ok, networks)
  PROVE  /\ job' \in Requests \cup {NoJob} /\ todo' \in Seq(Calls)
         /\ arriving' \subseteq Responses
         /\ \A r \in arriving' : Short(r.networks)
<1>1. job \in Requests
  BY DEF ServiceTypes, TypeOK
<1> DEFINE new == [id |-> job.id, user |-> job.user, op |-> job.op, ok |-> ok,
                   networks |-> networks]
<1>2. new \in Responses /\ Short(new.networks)
  BY <1>1 DEF Requests, Responses, Short
<1>3. arriving' = arriving \cup {new} /\ job' = NoJob /\ todo' = <<>>
  BY DEF Respond
<1> QED BY <1>2, <1>3 DEF ServiceTypes, TypeOK

LEMMA AskTyped ==
  ASSUME Types, NEW u \in Users, NEW op \in Ops, NEW d \in {NoDialog, dialog[u]}, Asks(u, op, d)
  PROVE  ServiceTypes'
<1>1. d \in Dialogs /\ requests' = requests + 1 /\ requests' \in Ids \ {0}
  BY WpanServiceAssumption DEF Types, TypeOK, Dialogs, NoDialog, Asks, Request, Ids
<1> DEFINE r == [id |-> requests', user |-> u, op |-> op, index |-> d.index, net |-> d.net,
                 list |-> d.list, lost |-> FALSE]
<1>2. r \in Requests
  BY <1>1 DEF Dialogs, Requests
<1>3. pending' = pending \cup {r} /\ UNCHANGED <<netVars, arriving, job, todo, wpan>>
  BY DEF Asks, Request
<1> QED BY <1>1, <1>2, <1>3 DEF Types, ServiceTypes, TypeOK, netVars

LEMMA CallTyped ==
  ASSUME ServiceTypes, Called
  PROVE  ServiceTypes'
<1>1. wpan' \in Wpan
  BY EffectTyped DEF Called, ServiceTypes, TypeOK
<1>2. job \in Requests /\ todo \in Seq(Calls) /\ todo # <<>> /\ job # NoJob
  BY DEF Called, ServiceTypes, TypeOK, Calls
<1>3. Short(<<>>)
  BY WpanServiceAssumption DEF Short
<1>4. /\ job' \in Requests \cup {NoJob} /\ todo' \in Seq(Calls)
      /\ arriving' \subseteq Responses
      /\ \A r \in arriving' : Short(r.networks)
  <2>1. CASE GoesOn
    BY <1>2, <2>1 DEF GoesOn, ServiceTypes, TypeOK
  <2>2. CASE \E ok \in BOOLEAN : Respond(ok, <<>>)
    BY <1>2, <1>3, <2>2, RespondTyped
  <2>3. ASSUME NEW done \in BOOLEAN, job' = [job EXCEPT !.lost = ~done], todo' = Tail(todo),
               UNCHANGED arriving
        PROVE  /\ job' \in Requests /\ todo' \in Seq(Calls)
               /\ arriving' \subseteq Responses
               /\ \A r \in arriving' : Short(r.networks)
    <3>1. job' \in Requests
      BY <1>2, <2>3 DEF Requests
    <3> QED BY <1>2, <2>3, <3>1 DEF ServiceTypes, TypeOK
  <2> QED BY <2>1, <2>2, <2>3 DEF Called
<1>5. UNCHANGED <<mNetworks, mNetworksCount, listOf, pending, requests>>
  BY DEF Called, netVars
<1> QED BY <1>1, <1>4, <1>5 DEF ServiceTypes, TypeOK, Calls

\* What a scan found is copied to the first entries.
LEMMA CopyTyped ==
  ASSUME TypeOK, NEW found, Short(found)
  PROVE  /\ Copy(found) \in [0 .. Buffer - 1 -> Nets \cup {Zero}]
         /\ \A i \in 1 .. Len(found) : Copy(found)[i - 1] = found[i]
<1>1. /\ DOMAIN mNetworks = 0 .. Buffer - 1 /\ Buffer \in Nat \ {0}
      /\ found \in Seq(Nets) /\ Len(found) \in Nat /\ Len(found) <= Buffer
  BY WpanServiceAssumption DEF TypeOK, Short
<1>2. \A i \in 0 .. Buffer - 1 : i < Len(found) => found[i + 1] \in Nets
  BY <1>1
<1>3. \A i \in 0 .. Buffer - 1 : mNetworks[i] \in Nets \cup {Zero}
  BY DEF TypeOK
<1>4. \A i \in 1 .. Len(found) : i - 1 \in 0 .. Buffer - 1 /\ i - 1 < Len(found) /\ (i - 1) + 1 = i
  BY <1>1
<1> QED BY <1>1, <1>2, <1>3, <1>4 DEF Copy

LEMMA ScanTyped ==
  ASSUME ServiceTypes, \/ ScanRefused \/ \E beacons \in Heard : ScanReply(beacons)
  PROVE  ServiceTypes'
<1>1. job # NoJob /\ UNCHANGED <<pending, requests, wpan>>
  BY DEF ScanRefused, ScanReply, Calling
<1>2. Short(<<>>)
  BY WpanServiceAssumption DEF Short
<1>3. CASE Respond(FALSE, <<>>) /\ UNCHANGED netVars
  BY <1>1, <1>2, <1>3, RespondTyped DEF ServiceTypes, TypeOK, netVars, Calls
<1>4. ASSUME NEW found, Short(found), Respond(TRUE, found),
             mNetworksCount' = Len(found), mNetworks' = Copy(found), listOf' = job.id
      PROVE  ServiceTypes'
  <2>1. mNetworksCount' \in 0 .. Buffer /\ listOf' \in Ids
    BY <1>1, <1>4, WpanServiceAssumption DEF ServiceTypes, TypeOK, Requests, Short
  <2>2. mNetworks' \in [0 .. Buffer - 1 -> Nets \cup {Zero}]
    BY <1>4, CopyTyped DEF ServiceTypes
  <2> QED BY <1>1, <1>4, <2>1, <2>2, RespondTyped DEF ServiceTypes, TypeOK, Calls
<1> QED BY <1>3, <1>4, Room DEF ScanRefused, ScanReply

LEMMA ServerTyped == ServiceTypes /\ Server => ServiceTypes'
<1> SUFFICES ASSUME ServiceTypes, Server PROVE ServiceTypes'
  OBVIOUS
<1>1. ASSUME NEW request \in pending, HandleHttpRequest(request) PROVE ServiceTypes'
  <2>1. request \in Requests /\ CallsOf(request.op) \in Seq(Calls)
    BY CallsTyped DEF ServiceTypes, TypeOK, Requests
  <2> QED BY <1>1, <2>1 DEF HandleHttpRequest, ServiceTypes, TypeOK, netVars, Calls
<1> QED BY <1>1, CallSteps, CallTyped, ScanTyped DEF Server

LEMMA PageTyped == Types /\ [Next]_vars => PageTypes'
<1> SUFFICES ASSUME Types, [Next]_vars PROVE PageTypes'
  OBVIOUS
<1>1. {joinPanel', isLoading', isForming'} \subseteq [Users -> BOOLEAN]
  BY PanelsTyped DEF Types, PageTypeOK
<1> DEFINE Infos == [networks : {s \in Seq(Nets) : Len(s) <= Buffer}, list : Ids]
<1>2. networksInfo \in [Users -> Infos] /\ dialog \in [Users -> Dialogs]
  BY DEF Types, PageTypeOK, Short
<1>3. NoDialog \in Dialogs
  BY WpanServiceAssumption DEF NoDialog, Dialogs, Ids
<1>4. networksInfo' \in [Users -> Infos] /\ dialog' \in [Users -> Dialogs]
  <2>1. CASE UNCHANGED <<networksInfo, dialog>>
    BY <1>2, <2>1
  <2>2. CASE Looks
    <3>1. ASSUME NEW u \in Users, NEW index \in 0 .. Buffer - 1,
                 index < Len(networksInfo[u].networks)
          PROVE  [index |-> index, list |-> networksInfo[u].list,
                  net |-> networksInfo[u].networks[index + 1]] \in Dialogs
      BY <1>2, <3>1, WpanServiceAssumption DEF Dialogs
    <3> QED BY <1>2, <1>3, <2>2, <3>1 DEF Looks
  <2>3. ASSUME NEW r \in arriving, Response(r)
        PROVE  networksInfo' \in [Users -> Infos] /\ dialog' \in [Users -> Dialogs]
    <3>1. r.user \in Users /\ [networks |-> r.networks, list |-> r.id] \in Infos
      BY DEF Types, TypeOK, Responses, Short
    <3> QED BY <1>2, <1>3, <2>3, <3>1 DEF Response
  <2>4. CASE Next
    <3>1. CASE Server /\ UNCHANGED pageVars
      BY <2>1, <3>1 DEF pageVars
    <3>2. CASE \E u \in Users : User(u)
      BY <2>1, <2>2, <3>2, UserSteps DEF Asks
    <3> QED BY <2>3, <2>4, <3>1, <3>2 DEF Next
  <2> QED BY <2>1, <2>4 DEF vars, pageVars
<1> QED BY <1>1, <1>4 DEF PageTypes, PageTypeOK, Short, Dialogs

LEMMA TypesKept == Types /\ [Next]_vars => Types'
<1> SUFFICES ASSUME Types, [Next]_vars PROVE Types'
  OBVIOUS
<1>1. PageTypes'
  BY PageTyped
<1>2. ServiceTypes
  BY DEF Types, ServiceTypes
<1>3. ASSUME UNCHANGED serviceVars PROVE ServiceTypes'
  <2>1. /\ UNCHANGED <<mNetworks, mNetworksCount, listOf, pending>>
        /\ UNCHANGED <<arriving, job, todo, requests, wpan>>
    BY <1>3 DEF serviceVars, netVars
  <2> QED BY <1>2, <2>1 DEF ServiceTypes, TypeOK
<1>4. ASSUME NEW u \in Users, User(u) PROVE ServiceTypes'
  <2>1. ASSUME NEW op \in Ops, NEW d \in {NoDialog, dialog[u]}, Asks(u, op, d)
        PROVE  ServiceTypes'
    BY <2>1, AskTyped
  <2>2. Looks => UNCHANGED serviceVars
    BY DEF Looks
  <2>3. CASE Looks
    BY <1>3, <2>2, <2>3
  <2> QED BY <1>4, <2>1, <2>3, UserSteps
<1>5. ASSUME NEW r \in arriving, Response(r) PROVE ServiceTypes'
  <2>1. /\ UNCHANGED <<mNetworks, mNetworksCount, listOf, pending, job, todo, requests, wpan>>
        /\ arriving' \subseteq arriving
    BY <1>5 DEF Response, netVars
  <2> QED BY <1>2, <2>1 DEF ServiceTypes, TypeOK
<1>6. ServiceTypes'
  <2>1. CASE UNCHANGED vars
    BY <1>3, <2>1 DEF vars
  <2>2. CASE Next
    BY <1>2, <1>4, <1>5, <2>2, ServerTyped DEF Next
  <2> QED BY <2>1, <2>2
<1> QED BY <1>1, <1>6 DEF Types, ServiceTypes, PageTypes

-----------------------------------------------------------------------------
(* Ids and lists.                                                          *)

ListInv == Numbered /\ Lists /\ Shown

\* A step of the request being served: it stays the same, or is answered.
Serves ==
  /\ UNCHANGED <<pending, requests, networksInfo, dialog>>
  /\ job \in Requests /\ job # NoJob
  /\ \/ /\ UNCHANGED <<arriving, netVars>>
        /\ job' \in Requests /\ job'.id = job.id
        /\ job'.list = job.list /\ job'.index = job.index /\ job'.net = job.net
     \/ \E ok \in BOOLEAN, networks \in Seq(Nets) :
          /\ Respond(ok, networks)
          /\ \/ networks = <<>> /\ UNCHANGED netVars
             \/ /\ listOf' = job.id
                /\ \A i \in 1 .. Len(networks) : mNetworks'[i - 1] = networks[i]

LEMMA CallServes ==
  ASSUME Types, Called, UNCHANGED pageVars
  PROVE  Serves
<1>1. job \in Requests /\ job # NoJob
  BY DEF Called, Types, TypeOK
<1>2. UNCHANGED <<pending, requests, networksInfo, dialog, netVars>>
  BY DEF Called, pageVars
<1>3. CASE GoesOn
  BY <1>1, <1>2, <1>3 DEF GoesOn, Serves
<1>4. ASSUME NEW ok \in BOOLEAN, Respond(ok, <<>>) PROVE Serves
  <2>1. <<>> \in Seq(Nets)
    OBVIOUS
  <2> QED BY <1>1, <1>2, <1>4, <2>1 DEF Serves
<1>5. ASSUME NEW done \in BOOLEAN, job' = [job EXCEPT !.lost = ~done], UNCHANGED arriving
      PROVE  Serves
  <2>1. /\ job' \in Requests /\ job'.id = job.id
        /\ job'.list = job.list /\ job'.index = job.index /\ job'.net = job.net
    BY <1>1, <1>5 DEF Requests
  <2> QED BY <1>1, <1>2, <1>5, <2>1 DEF Serves
<1> QED BY <1>2, <1>3, <1>4, <1>5 DEF Called

LEMMA ScanServes ==
  ASSUME Types, UNCHANGED pageVars,
         \/ ScanRefused \/ \E beacons \in Heard : ScanReply(beacons)
  PROVE  Serves
<1>1. job \in Requests /\ job # NoJob
  BY DEF ScanRefused, ScanReply, Calling, Types, TypeOK
<1>2. UNCHANGED <<pending, requests, networksInfo, dialog>>
  BY DEF ScanRefused, ScanReply, pageVars
<1>3. CASE Respond(FALSE, <<>>) /\ UNCHANGED netVars
  <2>1. <<>> \in Seq(Nets)
    OBVIOUS
  <2> QED BY <1>1, <1>2, <1>3, <2>1 DEF Serves
<1>4. ASSUME NEW found, Short(found), Respond(TRUE, found), mNetworks' = Copy(found),
             listOf' = job.id
      PROVE  Serves
  <2>1. found \in Seq(Nets) /\ \A i \in 1 .. Len(found) : mNetworks'[i - 1] = found[i]
    BY <1>4, CopyTyped DEF Types, Short
  <2> QED BY <1>1, <1>2, <1>4, <2>1 DEF Serves
<1> QED BY <1>3, <1>4, Room DEF ScanRefused, ScanReply


LEMMA ServesLists ==
  ASSUME Types, ListInv, Serves
  PROVE  ListInv'
<1>1. /\ pending' = pending /\ requests' = requests /\ networksInfo' = networksInfo
      /\ dialog' = dialog /\ job \in Requests /\ job # NoJob /\ job.id # 0
  BY DEF Serves, Requests
<1>2. CASE \/ FALSE
           \/ /\ UNCHANGED <<arriving, netVars>>
              /\ job' \in Requests /\ job'.id = job.id
              /\ job'.list = job.list /\ job'.index = job.index /\ job'.net = job.net
  <2>1. arriving' = arriving /\ listOf' = listOf /\ mNetworks' = mNetworks
    BY <1>2 DEF netVars
  <2>2. \A id : Known(id)' <=> Known(id)
    BY <1>1, <1>2 DEF Known, Waits
  <2>3. job' # NoJob
    BY <1>2 DEF Requests, NoJob
  <2>4. Numbered'
    BY <1>1, <1>2 DEF ListInv, Numbered
  <2>5. Lists'
    BY <1>1, <1>2, <2>1, <2>2, <2>3 DEF ListInv, Lists
  <2>6. Shown'
    BY <1>1, <1>2, <2>1, <2>3 DEF ListInv, Shown, Seen, SeenList
  <2> QED BY <2>4, <2>5, <2>6 DEF ListInv
<1>3. ASSUME NEW ok \in BOOLEAN, NEW networks \in Seq(Nets), Respond(ok, networks),
             \/ networks = <<>> /\ UNCHANGED netVars
             \/ /\ listOf' = job.id
                /\ \A i \in 1 .. Len(networks) : mNetworks'[i - 1] = networks[i]
      PROVE  ListInv'
  <2> DEFINE new == [id |-> job.id, user |-> job.user, op |-> job.op, ok |-> ok,
                     networks |-> networks]
  <2>1. job' = NoJob /\ job'.id = 0 /\ arriving' = arriving \cup {new}
    BY <1>3 DEF Respond, NoJob
  <2>2. \A id : Known(id) => Known(id)' /\ id # job.id
    BY <1>1, <2>1 DEF Known, Waits
  <2>3. \A id : id = job.id => Known(id)'
    BY <1>1, <2>1 DEF ListInv, Numbered, Known, Waits
  <2>4. Numbered'
    BY <1>1, <2>1, WpanServiceAssumption DEF ListInv, Numbered, Types, TypeOK, Requests, Ids
  <2>5. listOf' = listOf \/ listOf' = job.id
    BY <1>3 DEF netVars
  <2>6. Lists'
    BY <1>1, <2>1, <2>2, <2>3, <2>5 DEF ListInv, Lists
  <2>7. Shown'
    <3>1. CASE networks = <<>> /\ UNCHANGED netVars
      <4>1. listOf' = listOf /\ mNetworks' = mNetworks
        BY <3>1 DEF netVars
      <4>2. \A a : a = new => SeenList(a.id, a.networks)'
        BY <3>1 DEF SeenList
      <4> QED BY <1>1, <2>1, <4>1, <4>2 DEF ListInv, Shown, Seen, SeenList
    <3>2. CASE /\ listOf' = job.id
               /\ \A i \in 1 .. Len(networks) : mNetworks'[i - 1] = networks[i]
      <4>1. \A a : a = new => SeenList(a.id, a.networks)'
        BY <3>2 DEF SeenList
      <4>2. \A r \in arriving : SeenList(r.id, r.networks)'
        BY <2>2, <3>2 DEF ListInv, Lists, SeenList
      <4>3. \A r \in pending : Seen(r)'
        BY <2>2, <3>2 DEF ListInv, Lists, Seen
      <4>4. \A u \in Users : /\ SeenList(networksInfo[u].list, networksInfo[u].networks)'
                             /\ Seen(dialog[u])'
        BY <1>1, <2>2, <3>2 DEF ListInv, Lists, Seen, SeenList
      <4> QED BY <1>1, <2>1, <3>2, <4>1, <4>2, <4>3, <4>4 DEF Shown
    <3> QED BY <1>3, <3>1, <3>2
  <2> QED BY <2>4, <2>6, <2>7 DEF ListInv
<1> QED BY <1>2, <1>3 DEF Serves

LEMMA AskLists ==
  ASSUME Types, ListInv, NEW u \in Users, NEW op \in Ops, NEW d \in {NoDialog, dialog[u]},
         Asks(u, op, d)
  PROVE  ListInv'
<1> DEFINE r == [id |-> requests', user |-> u, op |-> op, index |-> d.index, net |-> d.net,
                 list |-> d.list, lost |-> FALSE]
<1>1. /\ pending' = pending \cup {r} /\ requests' = requests + 1 /\ requests \in Nat
      /\ job' = job /\ arriving' = arriving /\ listOf' = listOf /\ mNetworks' = mNetworks
      /\ networksInfo' = networksInfo /\ dialog' = dialog
  BY DEF Asks, Request, netVars, Types, TypeOK, Ids
<1>2. /\ \A q \in pending : q.id \in Nat /\ q.id <= requests
      /\ job.id \in Nat /\ job.id <= requests
  BY DEF ListInv, Numbered, Types, TypeOK, Requests, Ids, NoJob
<1>3. ASSUME NEW id \in Nat, Known(id) PROVE Known(id)'
  BY <1>1, <1>2, <1>3 DEF Known, Waits
<1>4. Known(d.list) /\ d.list \in Nat /\ Seen(d)
  <2>1. CASE d = NoDialog
    <3>1. Known(0)
      BY <1>1 DEF Known, Waits
    <3> QED BY <2>1, <3>1, WpanServiceAssumption DEF NoDialog, Seen, ListInv, Shown
  <2>2. CASE d = dialog[u]
    BY <2>2 DEF ListInv, Lists, Shown, Types, Dialogs, Ids
  <2> QED BY <2>1, <2>2
<1>5. Numbered'
  <2>1. r.id = requests + 1
    BY <1>1
  <2>2. \A q \in pending' : q \in pending \/ q = r
    BY <1>1
  <2>3. ASSUME NEW p \in pending', NEW q \in pending', p.id = q.id
        PROVE  p = q
    <3>1. p \in pending <=> p.id # requests + 1
      BY <1>1, <1>2, <2>1, <2>2
    <3>2. q \in pending <=> q.id # requests + 1
      BY <1>1, <1>2, <2>1, <2>2
    <3> QED BY <2>2, <2>3, <3>1, <3>2 DEF ListInv, Numbered
  <2>4. \A q \in pending' : q.id <= requests' /\ q.id # job'.id
    BY <1>1, <1>2, <2>1, <2>2 DEF ListInv, Numbered
  <2>5. job'.id <= requests'
    BY <1>1, <1>2
  <2> QED BY <2>3, <2>4, <2>5 DEF Numbered
<1>6. Lists'
  <2>1. /\ listOf \in Nat /\ \A a \in arriving : a.id \in Nat
        /\ \A q \in pending : q.list \in Nat
        /\ job # NoJob => job.list \in Nat
        /\ \A v \in Users : networksInfo[v].list \in Nat /\ dialog[v].list \in Nat
    BY DEF Types, TypeOK, Requests, Responses, Ids, Dialogs
  <2> QED BY <1>1, <1>3, <1>4, <2>1 DEF ListInv, Lists
<1>7. Shown'
  BY <1>1, <1>4 DEF ListInv, Shown, Seen, SeenList
<1> QED BY <1>5, <1>6, <1>7 DEF ListInv

LEMMA LookLists ==
  ASSUME Types, ListInv, Looks
  PROVE  ListInv'
<1>1. /\ pending' = pending /\ requests' = requests /\ job' = job /\ arriving' = arriving
      /\ listOf' = listOf /\ mNetworks' = mNetworks /\ networksInfo' = networksInfo
  BY DEF Looks, serviceVars, netVars
<1>2. Numbered' /\ \A id : Known(id)' <=> Known(id)
  BY <1>1 DEF ListInv, Numbered, Known, Waits
<1>3. Known(NoDialog.list) /\ Seen(NoDialog)
  BY WpanServiceAssumption DEF NoDialog, Known, Waits, Seen, Types, TypeOK, Ids, ListInv, Shown
<1>4. ASSUME NEW u \in Users PROVE Known(dialog'[u].list) /\ Seen(dialog'[u])
  <2>1. dialog'[u] \in {dialog[u], NoDialog} => Known(dialog'[u].list) /\ Seen(dialog'[u])
    BY <1>3 DEF ListInv, Lists, Shown
  <2>2. ASSUME NEW index \in 0 .. Buffer - 1, index < Len(networksInfo[u].networks),
               dialog'[u] = [index |-> index, list |-> networksInfo[u].list,
                             net |-> networksInfo[u].networks[index + 1]]
        PROVE  Known(dialog'[u].list) /\ Seen(dialog'[u])
    <3>1. networksInfo[u].networks \in Seq(Nets)
      BY DEF Types
    <3>2. index + 1 \in 1 .. Len(networksInfo[u].networks) /\ (index + 1) - 1 = index
      BY <2>2, <3>1, WpanServiceAssumption
    <3> QED BY <2>2, <3>2 DEF ListInv, Lists, Shown, Seen, SeenList
  <2> QED BY <2>1, <2>2 DEF Looks, Types
<1>5. Lists'
  BY <1>1, <1>2, <1>4 DEF ListInv, Lists
<1>6. Shown'
  BY <1>1, <1>4 DEF ListInv, Shown, Seen, SeenList
<1> QED BY <1>2, <1>5, <1>6 DEF ListInv

LEMMA ResponseLists ==
  ASSUME Types, ListInv, NEW r \in arriving, Response(r)
  PROVE  ListInv'
<1>1. /\ pending' = pending /\ requests' = requests /\ job' = job
      /\ listOf' = listOf /\ mNetworks' = mNetworks /\ arriving' \subseteq arriving
  BY DEF Response, netVars
<1>2. Numbered' /\ \A id : Known(id)' <=> Known(id)
  BY <1>1 DEF ListInv, Numbered, Known, Waits
<1>3. Known(NoDialog.list) /\ Seen(NoDialog)
  BY WpanServiceAssumption DEF NoDialog, Known, Waits, Seen, Types, TypeOK, Ids, ListInv, Shown
<1>4. ASSUME NEW u \in Users PROVE Known(dialog'[u].list) /\ Seen(dialog'[u])
  <2>1. dialog'[u] \in {dialog[u], NoDialog}
    BY DEF Response, Types
  <2> QED BY <1>3, <2>1 DEF ListInv, Lists, Shown
<1>5. ASSUME NEW u \in Users
      PROVE  /\ Known(networksInfo'[u].list)
             /\ SeenList(networksInfo'[u].list, networksInfo'[u].networks)
  <2>1. networksInfo'[u] \in {networksInfo[u], [networks |-> r.networks, list |-> r.id]}
    BY DEF Response, Types
  <2> QED BY <2>1 DEF ListInv, Lists, Shown
<1>6. Lists'
  BY <1>1, <1>2, <1>4, <1>5 DEF ListInv, Lists
<1>7. Shown'
  BY <1>1, <1>4, <1>5 DEF ListInv, Shown, Seen, SeenList
<1> QED BY <1>2, <1>6, <1>7 DEF ListInv

LEMMA HandleLists ==
  ASSUME Types, ListInv, NEW request \in pending, HandleHttpRequest(request), UNCHANGED pageVars
  PROVE  ListInv'
<1>1. /\ pending' = pending \ {request} /\ requests' = requests /\ job' = request /\ job = NoJob
      /\ job.id = 0 /\ request \in Requests /\ arriving' = arriving /\ listOf' = listOf
      /\ mNetworks' = mNetworks /\ networksInfo' = networksInfo /\ dialog' = dialog
  BY DEF HandleHttpRequest, netVars, pageVars, Types, TypeOK, NoJob
<1>2. \A id : Known(id) => Known(id)'
  BY <1>1 DEF Known, Waits
<1>3. Numbered'
  BY <1>1 DEF ListInv, Numbered
<1>4. Lists'
  BY <1>1, <1>2 DEF ListInv, Lists
<1>5. Shown'
  BY <1>1 DEF ListInv, Shown, Seen, SeenList
<1> QED BY <1>3, <1>4, <1>5 DEF ListInv

-----------------------------------------------------------------------------
(* What the calls have set.                                                *)

SetInv == Progress /\ Own

\* Whatever is called next, wpantund is never left in a network with the settings of
\* another request.
LEMMA EffectsOwn ==
  ASSUME Types, SetInv, job # NoJob, todo # <<>>
  PROVE  \A w \in {wpan, Effect(Head(todo), wpan)} :
           w.by # 0 => /\ w.key = w.by
                       /\ w.formed => {w.panid, w.xpanid, w.pskc} = {w.by}
<1> DEFINE OwnOf(w) == w.by # 0 => /\ w.key = w.by
                                   /\ w.formed => {w.panid, w.xpanid, w.pskc} = {w.by}
<1>1. OwnOf(wpan) /\ wpan \in Wpan /\ job \in Requests /\ job.op \in Ops
  BY DEF SetInv, Own, Types, TypeOK, Requests
<1>2. /\ OwnOf(Leave(wpan)) /\ OwnOf(AddGateway(wpan)) /\ OwnOf(RemoveGateway(wpan))
  BY <1>1 DEF Leave, AddGateway, RemoveGateway, Wpan
<1>3. wpan.by = 0 => /\ OwnOf(Set(wpan, "key")) /\ OwnOf(Set(wpan, "panid"))
                     /\ OwnOf(Set(wpan, "xpanid")) /\ OwnOf(Set(wpan, "pskc"))
  BY <1>1 DEF Set, Wpan
<1>4. wpan.key = job.id => OwnOf(Join(wpan))
  BY <1>1 DEF Join, Wpan
<1>5. {wpan.key, wpan.panid, wpan.xpanid, wpan.pskc} = {job.id} => OwnOf(Form(wpan))
  BY <1>1 DEF Form, Wpan
<1>6. OwnOf(Effect(Head(todo), wpan)) \/ job.op = "scan"
  <2>1. CASE job.op = "join"
    <3>1. JoinProgress
      BY <2>1 DEF SetInv, Progress
    <3>2. Head(todo) \in {"leave", "key", "join", "gateway"}
      BY <3>1, JoinCalls DEF JoinProgress, Follows
    <3>3. /\ Head(todo) = "key" => wpan.by = 0
          /\ Head(todo) = "join" => wpan.key = job.id
      BY <3>1 DEF JoinProgress
    <3> HIDE DEF OwnOf
    <3> QED BY <1>2, <1>3, <1>4, <3>2, <3>3, EffectOfEach
  <2>2. CASE job.op = "form"
    <3>1. FormProgress
      BY <2>2 DEF SetInv, Progress
    <3>2. Head(todo) \in {"leave", "key", "panid", "xpanid", "pskc", "form", "gateway"}
      BY <3>1, FormCalls DEF FormProgress, Follows
    <3>3. Head(todo) = "form" => {wpan.key, wpan.panid, wpan.xpanid, wpan.pskc} = {job.id}
      BY <3>1 DEF FormProgress
    <3>4. Head(todo) \in {"key", "panid", "xpanid", "pskc"} => wpan.by = 0
      BY <3>1 DEF FormProgress
    <3> HIDE DEF OwnOf
    <3> QED BY <1>2, <1>3, <1>5, <3>2, <3>3, <3>4, EffectOfEach
  <2>3. CASE job.op \in {"add", "delete", "status"}
    <3>1. Head(todo) \in {"gateway", "ungateway", "state", "properties"}
      BY <2>3 DEF SetInv, Progress
    <3> QED BY <1>1, <1>2, <3>1, EffectOfEach
  <2> QED BY <1>1, <2>1, <2>2, <2>3 DEF Ops
<1>7. job.op = "scan" => Effect(Head(todo), wpan) = wpan
  <2>1. job.op = "scan" => Head(todo) = "scan"
    BY DEF SetInv, Progress
  <2> QED BY <2>1 DEF Effect
<1>8. OwnOf(Effect(Head(todo), wpan))
  <2> HIDE DEF OwnOf
  <2> QED BY <1>1, <1>6, <1>7
<1> QED BY <1>1, <1>8

\* A call done takes the progress of the request to the next call.
LEMMA CallsProgress ==
  ASSUME Types, SetInv, job # NoJob, todo # <<>>, Len(todo) > 1, todo' = Tail(todo),
         wpan' = Effect(Head(todo), wpan), job' = job
  PROVE  Progress'
<1>1. wpan \in Wpan /\ job \in Requests /\ job.op \in Ops
  BY DEF Types, TypeOK, Requests
<1>2. /\ Leave(wpan).by = 0
      /\ \A p \in {"key", "panid", "xpanid", "pskc"} :
           Set(wpan, p) = [wpan EXCEPT ![p] = job.id]
      /\ Join(wpan).by = job.id /\ Form(wpan).by = job.id
  BY <1>1 DEF Leave, Set, Join, Form, Wpan
<1>3. CASE job.op = "join"
  <2>1. JoinProgress
    BY <1>3 DEF SetInv, Progress
  <2>2. \/ Follows(todo, "leave", "key", JoinLeft) \/ Follows(todo, "key", "join", JoinLeft)
        \/ Follows(todo, "join", "gateway", JoinLeft)
    BY <2>1, JoinCalls DEF JoinProgress
  <2>3. ASSUME Follows(todo, "leave", "key", JoinLeft) PROVE JoinProgress'
    BY <1>2, <2>3, EffectOfEach DEF Follows, JoinProgress
  <2>4. ASSUME Follows(todo, "key", "join", JoinLeft) PROVE JoinProgress'
    <3>1. wpan'.by = 0 /\ wpan'.key = job.id
      BY <1>1, <1>2, <2>1, <2>4, EffectOfEach DEF Follows, JoinProgress, Wpan
    <3> QED BY <2>4, <3>1 DEF Follows, JoinProgress
  <2>5. ASSUME Follows(todo, "join", "gateway", JoinLeft) PROVE JoinProgress'
    BY <1>2, <2>5, EffectOfEach DEF Follows, JoinProgress
  <2>6. JoinProgress'
    BY <2>2, <2>3, <2>4, <2>5
  <2> QED BY <1>3, <2>6 DEF Progress
<1>4. CASE job.op = "form"
  <2>1. FormProgress
    BY <1>4 DEF SetInv, Progress
  <2>2. \/ Follows(todo, "leave", "key", FormLeft) \/ Follows(todo, "key", "panid", FormLeft)
        \/ Follows(todo, "panid", "xpanid", FormLeft) \/ Follows(todo, "xpanid", "pskc", FormLeft)
        \/ Follows(todo, "pskc", "form", FormLeft) \/ Follows(todo, "form", "gateway", FormLeft)
    BY <2>1, FormCalls DEF FormProgress
  <2>3. ASSUME Follows(todo, "leave", "key", FormLeft) PROVE FormProgress'
    BY <1>2, <2>3, EffectOfEach DEF Follows, FormProgress
  <2>4. ASSUME Follows(todo, "form", "gateway", FormLeft) PROVE FormProgress'
    BY <1>2, <2>4, EffectOfEach DEF Follows, FormProgress
  <2>5. ASSUME NEW p \in {"key", "panid", "xpanid", "pskc"}, Head(todo) = p,
               wpan' = [wpan EXCEPT ![p] = job.id]
        PROVE  /\ wpan'.by = 0 /\ wpan'[p] = job.id
               /\ \A q \in {"key", "panid", "xpanid", "pskc"} : q # p => wpan'[q] = wpan[q]
    BY <1>1, <2>1, <2>5 DEF FormProgress, Wpan
  <2>6. ASSUME Follows(todo, "key", "panid", FormLeft) PROVE FormProgress'
    <3>1. wpan'.by = 0 /\ wpan'.key = job.id
      BY <1>2, <2>5, <2>6, EffectOfEach DEF Follows
    <3> QED BY <2>6, <3>1 DEF Follows, FormProgress
  <2>7. ASSUME Follows(todo, "panid", "xpanid", FormLeft) PROVE FormProgress'
    <3>1. wpan'.by = 0 /\ wpan'.panid = job.id /\ wpan'.key = wpan.key
      BY <1>2, <2>5, <2>7, EffectOfEach DEF Follows
    <3> QED BY <2>1, <2>7, <3>1 DEF Follows, FormProgress
  <2>8. ASSUME Follows(todo, "xpanid", "pskc", FormLeft) PROVE FormProgress'
    <3>1. /\ wpan'.by = 0 /\ wpan'.xpanid = job.id /\ wpan'.key = wpan.key
          /\ wpan'.panid = wpan.panid
      BY <1>2, <2>5, <2>8, EffectOfEach DEF Follows
    <3> QED BY <2>1, <2>8, <3>1 DEF Follows, FormProgress
  <2>9. ASSUME Follows(todo, "pskc", "form", FormLeft) PROVE FormProgress'
    <3>1. /\ wpan'.by = 0 /\ wpan'.pskc = job.id /\ wpan'.key = wpan.key
          /\ wpan'.panid = wpan.panid /\ wpan'.xpanid = wpan.xpanid
      BY <1>2, <2>5, <2>9, EffectOfEach DEF Follows
    <3> QED BY <2>1, <2>9, <3>1 DEF Follows, FormProgress
  <2>10. FormProgress'
    BY <2>2, <2>3, <2>4, <2>6, <2>7, <2>8, <2>9
  <2> QED BY <1>4, <2>10 DEF Progress
<1>5. CASE job.op \in {"add", "delete", "scan"}
  <2>1. Len(todo) = 1
    BY <1>5 DEF SetInv, Progress
  <2> QED BY <2>1
<1>6. CASE job.op = "status"
  <2>1. todo = <<"state", "properties">>
    BY <1>6 DEF SetInv, Progress
  <2>2. todo' = <<"properties">>
    BY <2>1
  <2> QED BY <1>6, <2>2 DEF Progress
<1> QED BY <1>1, <1>3, <1>4, <1>5, <1>6 DEF Ops

LEMMA CallSettings ==
  ASSUME Types, SetInv, Called
  PROVE  SetInv'
<1>1. job # NoJob /\ todo # <<>> /\ job \in Requests
  BY DEF Called, Types, TypeOK
<1>2. Own'
  <2>1. wpan' \in {wpan, Effect(Head(todo), wpan)}
    BY DEF Called
  <2> QED BY <1>1, <2>1, EffectsOwn DEF Own
<1>3. CASE GoesOn /\ wpan' = Effect(Head(todo), wpan)
  BY <1>1, <1>2, <1>3, CallsProgress DEF GoesOn, SetInv
<1>4. CASE \E ok \in BOOLEAN : Respond(ok, <<>>)
  BY <1>2, <1>4 DEF Respond, SetInv, Progress
<1>5. ASSUME NEW done \in BOOLEAN, Head(todo) = "join", todo' = Tail(todo),
             job' = [job EXCEPT !.lost = ~done],
             wpan' = IF done THEN Effect(Head(todo), wpan) ELSE wpan
      PROVE  Progress'
  <2>1. /\ job'.id = job.id /\ job'.op = job.op /\ job'.lost = ~done /\ job.op \in Ops
    BY <1>1, <1>5 DEF Requests
  <2>2. job.op = "join"
    <3>1. job.op = "form" => Head(todo) # "join"
      BY <1>1, FormCalls DEF SetInv, Progress, FormProgress, Follows
    <3>2. job.op \in {"add", "delete", "scan", "status"} => Head(todo) # "join"
      BY <1>1 DEF SetInv, Progress
    <3> QED BY <1>5, <2>1, <3>1, <3>2 DEF Ops
  <2>3. Follows(todo, "join", "gateway", JoinLeft)
    BY <1>1, <1>5, <2>2, JoinCalls DEF SetInv, Progress, JoinProgress, Follows
  <2>4. done => wpan'.by = job.id
    <3>1. Join(wpan).by = job.id
      BY DEF Join, Types, TypeOK, Wpan
    <3>2. done => wpan' = Join(wpan)
      BY <1>5, EffectOfEach
    <3> QED BY <3>1, <3>2
  <2>5. JoinProgress'
    BY <1>5, <2>1, <2>3, <2>4 DEF JoinProgress, Follows
  <2> QED BY <2>1, <2>2, <2>5 DEF Progress
<1> QED BY <1>2, <1>3, <1>4, <1>5 DEF Called, SetInv

LEMMA HandleSettings ==
  ASSUME Types, SetInv, NEW request \in pending, HandleHttpRequest(request)
  PROVE  SetInv'
<1>1. request \in Requests /\ request.op \in Ops
  BY DEF Types, TypeOK, Requests
<1>2. job' = request /\ todo' = CallsOf(request.op) /\ wpan' = wpan
  BY DEF HandleHttpRequest
<1>3. request.op = "join" => JoinProgress'
  <2>1. HandleJoinNetworkRequest \in JoinLeft /\ Head(HandleJoinNetworkRequest) = "leave"
    BY DEF JoinLeft, HandleJoinNetworkRequest
  <2> QED BY <1>1, <1>2, <2>1, CallsOfEach DEF JoinProgress
<1>4. request.op = "form" => FormProgress'
  <2>1. HandleFormNetworkRequest \in FormLeft /\ Head(HandleFormNetworkRequest) = "leave"
    BY DEF FormLeft, HandleFormNetworkRequest
  <2> QED BY <1>1, <1>2, <2>1, CallsOfEach DEF FormProgress
<1>5. Progress'
  BY <1>1, <1>2, <1>3, <1>4, CallsOfEach DEF Progress
<1> QED BY <1>2, <1>5 DEF SetInv, Own

LEMMA SettingsKept == Types /\ SetInv /\ [Next]_vars => SetInv'
<1> SUFFICES ASSUME Types, SetInv, [Next]_vars PROVE SetInv'
  OBVIOUS
<1>1. CASE job' = job /\ todo' = todo /\ wpan' = wpan
  BY <1>1 DEF SetInv, Progress, Own, JoinProgress, FormProgress
<1>2. CASE Server
  <2>1. CASE \E request \in pending : HandleHttpRequest(request)
    BY <2>1, HandleSettings
  <2>2. CASE Called
    BY <2>2, CallSettings
  <2>3. CASE job' = NoJob /\ wpan' = wpan
    BY <2>3 DEF SetInv, Progress, Own
  <2>4. CASE ScanRefused \/ \E beacons \in Heard : ScanReply(beacons)
    BY <2>3, <2>4 DEF ScanRefused, ScanReply, Respond
  <2> QED BY <1>2, <2>1, <2>2, <2>4, CallSteps DEF Server
<1>3. CASE \E u \in Users : User(u)
  BY <1>1, <1>3, UserSteps DEF Asks, Request, Looks, serviceVars
<1>4. CASE \E r \in arriving : Response(r)
  BY <1>1, <1>4 DEF Response
<1>5. CASE UNCHANGED vars
  BY <1>1, <1>5 DEF vars, serviceVars
<1> QED BY <1>2, <1>3, <1>4, <1>5 DEF Next

LEMMA ListsKept == Types /\ ListInv /\ [Next]_vars => ListInv'
<1> SUFFICES ASSUME Types, ListInv, [Next]_vars PROVE ListInv'
  OBVIOUS
<1>1. CASE Server /\ UNCHANGED pageVars
  <2>1. CASE \E request \in pending : HandleHttpRequest(request)
    BY <1>1, <2>1, HandleLists
  <2>2. CASE Called
    BY <1>1, <2>2, CallServes, ServesLists
  <2>3. CASE ScanRefused \/ \E beacons \in Heard : ScanReply(beacons)
    BY <1>1, <2>3, ScanServes, ServesLists
  <2> QED BY <1>1, <2>1, <2>2, <2>3, CallSteps DEF Server
<1>2. ASSUME NEW u \in Users, User(u) PROVE ListInv'
  <2>1. ASSUME NEW op \in Ops, NEW d \in {NoDialog, dialog[u]}, Asks(u, op, d)
        PROVE  ListInv'
    BY <2>1, AskLists
  <2>2. CASE Looks
    BY <2>2, LookLists
  <2> QED BY <1>2, <2>1, <2>2, UserSteps
<1>3. CASE \E r \in arriving : Response(r)
  BY <1>3, ResponseLists
<1>4. CASE UNCHANGED vars
  <2>1. UNCHANGED <<serviceVars, networksInfo, dialog>>
    BY <1>4 DEF vars, pageVars
  <2>2. Looks
    BY <2>1 DEF Looks
  <2> QED BY <2>2, LookLists
<1> QED BY <1>1, <1>2, <1>3, <1>4 DEF Next

LEMMA InvInit == Init => IndInv
<1> SUFFICES ASSUME Init PROVE IndInv
  OBVIOUS
<1>1. 0 \in Ids /\ 0 \in 0 .. Buffer - 1 /\ 0 \in 0 .. Buffer /\ <<>> \in Seq(Nets) /\ Len(<<>>) = 0
      /\ <<>> \in Seq(Calls)
  BY WpanServiceAssumption DEF Ids
<1>2. NoDialog \in Dialogs
  BY <1>1 DEF NoDialog, Dialogs
<1>3. TypeOK
  BY <1>1 DEF Init, ServiceInit, TypeOK, Wpan, Calls
<1>4. PageTypeOK /\ dialog \in [Users -> Dialogs]
      /\ networksInfo \in [Users -> [networks : Seq(Nets), list : Ids]]
  <2>1. dialog \in [Users -> Dialogs] /\ \A u \in Users : dialog[u].list \in Ids
    BY <1>2 DEF Init, Dialogs
  <2>2. Short(<<>>)
    BY <1>1, WpanServiceAssumption DEF Short
  <2>3. /\ networksInfo \in [Users -> [networks : Seq(Nets), list : Ids]]
        /\ \A u \in Users : networksInfo[u].networks = <<>> /\ networksInfo[u].list = 0
    BY <1>1 DEF Init
  <2> QED BY <1>1, <2>1, <2>2, <2>3 DEF Init, PageTypeOK
<1>5. Types
  BY <1>3, <1>4 DEF Types, Init, ServiceInit
<1>6. Numbered /\ Lists /\ Shown
  BY <1>1 DEF Init, ServiceInit, Numbered, Lists, Shown, Known, Waits, Seen, SeenList,
                 NoJob, NoDialog
<1>7. Progress /\ Own
  BY DEF Init, ServiceInit, Progress, Own
<1> QED BY <1>5, <1>6, <1>7 DEF IndInv

LEMMA InvKept == IndInv /\ [Next]_vars => IndInv'
BY TypesKept, ListsKept, SettingsKept DEF IndInv, ListInv, SetInv

-----------------------------------------------------------------------------
(* The theorems.                                                           *)

\* The inductive invariant of the web service and its pages (web_server.cpp,
\* wpan_service.cpp, app.js).
THEOREM ServiceInvariant == Spec => []IndInv
BY InvInit, InvKept, PTL DEF Spec

\* wpantund is never left in a network with the settings of another request
\* (wpan_service.cpp): for any requests, refused or unanswered at any call.
THEOREM SettingsAreOwn == Spec => []OwnSettings
<1>1. IndInv => OwnSettings
  BY DEF IndInv, Types, Own, OwnSettings
<1> QED BY <1>1, ServiceInvariant, PTL

\* An index leads to the network the user saw, unless another scan has replaced the
\* list (wpan_service.cpp, mNetworks[index]).
THEOREM JoinsAreSeen == Spec => JoinsSeen
<1>1. ASSUME IndInv, [Next]_vars, wpan'.by # wpan.by, wpan'.by # 0, job.op = "join", job.list = listOf
      PROVE  wpan'.net = job.net
  <2>1. Called /\ UNCHANGED netVars
    <3>1. Server
      <4>1. CASE \E u \in Users : User(u)
        BY <1>1, <4>1, UserSteps DEF Asks, Request, Looks, serviceVars
      <4> QED BY <1>1, <4>1 DEF Next, Response, vars, serviceVars
    <3>2. ~\E request \in pending : HandleHttpRequest(request)
      BY <1>1 DEF HandleHttpRequest
    <3>3. ~(ScanRefused \/ \E beacons \in Heard : ScanReply(beacons))
      BY <1>1 DEF ScanRefused, ScanReply
    <3> QED BY <3>1, <3>2, <3>3, CallSteps DEF Server, Called
  <2>2. job # NoJob /\ todo # <<>> /\ wpan' = Effect(Head(todo), wpan) /\ Seen(job) /\ JoinProgress
        /\ wpan \in Wpan /\ job \in Requests
    BY <1>1, <2>1 DEF Called, IndInv, Shown, Progress, Types, TypeOK
  <2>3. Head(todo) \in {"leave", "key", "join", "gateway"}
    BY <2>2, JoinCalls DEF JoinProgress, Follows
  <2>4. Head(todo) = "join"
    <3>1. Leave(wpan).by = 0 /\ Set(wpan, "key").by = wpan.by /\ AddGateway(wpan).by = wpan.by
      BY <2>2 DEF Leave, Set, AddGateway, Wpan
    <3>2. Effect(Head(todo), wpan).by # wpan.by /\ Effect(Head(todo), wpan).by # 0
      BY <1>1, <2>2
    <3>3. /\ Head(todo) = "leave" => Effect(Head(todo), wpan).by = 0
          /\ Head(todo) = "key" => Effect(Head(todo), wpan).by = wpan.by
          /\ Head(todo) = "gateway" => Effect(Head(todo), wpan).by = wpan.by
      BY <3>1, EffectOfEach
    <3> QED BY <2>3, <3>2, <3>3
  <2>5. wpan'.net = mNetworks[job.index]
    <3>1. Join(wpan).net = mNetworks[job.index]
      BY <2>2 DEF Join, Wpan
    <3> QED BY <2>2, <2>4, <3>1, EffectOfEach
  <2> QED BY <1>1, <2>2, <2>5 DEF Seen
<1>2. IndInv /\ [Next]_vars => [ /\ PageTypeOK
        /\ wpan'.by # wpan.by /\ wpan'.by # 0 /\ job.op = "join" /\ job.list = listOf
        => wpan'.net = job.net ]_vars
  BY <1>1 DEF IndInv, Types
<1> QED BY <1>2, ServiceInvariant, PTL DEF Spec, JoinsSeen

\* What is answered to be successful was: a join or a form put wpantund into the
\* network and its prefix was added (wpan_service.cpp), a Join without a reply apart
\* (dbus_join.cpp:70).
THEOREM SuccessesAreReal == Spec => SuccessIsReal
<1>1. ASSUME IndInv, [Next]_vars, NEW r \in arriving', r \notin arriving,
             r.op \in {"join", "form"}, r.ok, ~job.lost
      PROVE  wpan'.by = r.id /\ wpan'.gateway
  <2>1. Server
    <3>1. CASE \E u \in Users : User(u)
      BY <1>1, <3>1, UserSteps DEF Asks, Request, Looks, serviceVars
    <3> QED BY <1>1, <3>1 DEF Next, Response, vars, serviceVars
  <2>2. job # NoJob /\ r.op = job.op /\ r.id = job.id
    BY <1>1, <2>1, CallSteps DEF Server, HandleHttpRequest, Called, GoesOn, ScanRefused, ScanReply,
       Calling, Respond
  <2>3. Called
    <3>1. Head(todo) # "scan"
      BY <1>1, <2>2, JoinCalls, FormCalls DEF IndInv, Progress, JoinProgress, FormProgress, Follows
    <3>2. ~(ScanRefused \/ \E beacons \in Heard : ScanReply(beacons))
      BY <3>1 DEF ScanRefused, ScanReply, Calling
    <3> QED BY <2>1, <2>2, <3>2, CallSteps DEF Server, HandleHttpRequest
  <2>4. PICK ok \in BOOLEAN :
          /\ Respond(ok, <<>>)
          /\ ok => \/ Head(todo) = "state"
                   \/ (wpan' = Effect(Head(todo), wpan) /\ ~(Len(todo) > 1))
    BY <1>1, <2>3 DEF Called, GoesOn
  <2>5. ok
    BY <1>1, <2>4 DEF Respond
  <2>6. Head(todo) = "gateway" /\ wpan' = Effect(Head(todo), wpan) /\ wpan.by = job.id
    BY <1>1, <2>2, <2>4, <2>5, JoinCalls, FormCalls
       DEF IndInv, Progress, JoinProgress, FormProgress, Follows
  <2> QED BY <1>1, <2>2, <2>6, EffectOfEach DEF AddGateway, IndInv, Types, TypeOK, Wpan
<1>2. IndInv /\ [Next]_vars => [ \A r \in arriving' \ arriving :
        r.op \in {"join", "form"} /\ r.ok /\ ~job.lost
          => wpan'.by = r.id /\ wpan'.gateway ]_vars
  BY <1>1
<1> QED BY <1>2, ServiceInvariant, PTL DEF Spec, SuccessIsReal
=============================================================================
