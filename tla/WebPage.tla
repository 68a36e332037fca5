------------------------------- MODULE WebPage -------------------------------
(***************************************************************************)
(* The web page of the border router (app.js), in the browsers of several  *)
(* users.  The panel "Join" of its menu asks for the networks and shows    *)
(* them, each with a button to join it, until another panel is chosen; the *)
(* other panels are told apart by their requests only.  The page never     *)
(* waits: a user may leave a panel, come back, and have several requests   *)
(* under way.                                                              *)
(*                                                                         *)
(* A dialog is modal, and replaced by an alert when the response to any    *)
(* request arrives.  An alert, and a question whether to form a network or *)
(* to change a prefix, is answered at once: only the dialog in which a key *)
(* is typed is a state.                                                    *)
(***************************************************************************)
EXTENDS WpanService

VARIABLES
  joinPanel,     \* for each user, whether the panel "Join" is shown
  isLoading, isForming,
  networksInfo,  \* the networks shown, and the scan that found them
  dialog         \* the network that the open dialog is to join

pageVars == <<joinPanel, isLoading, isForming, networksInfo, dialog>>
vars == <<serviceVars, pageVars>>

NoDialog == [index |-> 0, net |-> Zero, list |-> 0]

Init ==
  /\ ServiceInit
  /\ joinPanel = [u \in Users |-> FALSE]
  /\ isLoading = [u \in Users |-> FALSE] /\ isForming = [u \in Users |-> FALSE]
  /\ networksInfo = [u \in Users |-> [networks |-> <<>>, list |-> 0]]
  /\ dialog = [u \in Users |-> NoDialog]

\* showPanels(1), which scans, and the others, of which showPanels(3) asks for the
\* status.
showJoinPanel(u) ==
  /\ dialog[u] = NoDialog
  /\ joinPanel' = [joinPanel EXCEPT ![u] = TRUE]
  /\ isLoading' = [isLoading EXCEPT ![u] = TRUE]
  /\ Request(u, "scan", NoDialog)
  /\ UNCHANGED <<isForming, networksInfo, dialog>>

showPanels(u) ==
  /\ dialog[u] = NoDialog
  /\ joinPanel' = [joinPanel EXCEPT ![u] = FALSE]
  /\ Request(u, "status", NoDialog) \/ (joinPanel[u] /\ UNCHANGED serviceVars)
  /\ UNCHANGED <<isLoading, isForming, networksInfo, dialog>>

\* The list is hidden while isLoading.
showJoinDialog(u, index) ==
  /\ joinPanel[u] /\ ~isLoading[u] /\ dialog[u] = NoDialog
  /\ index < Len(networksInfo[u].networks)
  /\ dialog' = [dialog EXCEPT ![u] = [index |-> index, list |-> networksInfo[u].list,
                                     net |-> networksInfo[u].networks[index + 1]]]
  /\ UNCHANGED <<serviceVars, joinPanel, isLoading, isForming, networksInfo>>

\* The dialog stays open, with its button, until the response.
join(u) ==
  dialog[u] # NoDialog /\ Request(u, "join", dialog[u]) /\ UNCHANGED pageVars

cancel(u) ==
  /\ dialog[u] # NoDialog
  /\ dialog' = [dialog EXCEPT ![u] = NoDialog]
  /\ UNCHANGED <<serviceVars, joinPanel, isLoading, isForming, networksInfo>>

Confirm(u, op) ==
  /\ dialog[u] = NoDialog /\ ~joinPanel[u]
  /\ Request(u, op, NoDialog)
  /\ isForming' = [isForming EXCEPT ![u] = @ \/ op = "form"]
  /\ UNCHANGED <<joinPanel, isLoading, networksInfo, dialog>>

showConfirm(u)       == Confirm(u, "form")
showAddConfirm(u)    == Confirm(u, "add")
showDeleteConfirm(u) == Confirm(u, "delete")

\* A scan shows its networks, or alerts that there are none; all but the status alert.
Response(r) ==
  LET u == r.user
      scanned == r.op = "scan"
      alerts  == ~(r.op = "status" \/ (scanned /\ r.ok))
  IN /\ r \in arriving /\ arriving' = arriving \ {r}
     /\ isLoading' = [isLoading EXCEPT ![u] = @ /\ ~scanned]
     /\ isForming' = [isForming EXCEPT ![u] = @ /\ r.op # "form"]
     /\ networksInfo' = IF scanned /\ r.ok
                        THEN [networksInfo EXCEPT ![u] = [networks |-> r.networks, list |-> r.id]]
                        ELSE networksInfo
     /\ dialog' = IF alerts THEN [dialog EXCEPT ![u] = NoDialog] ELSE dialog
     /\ UNCHANGED <<netVars, pending, job, todo, requests, wpan, joinPanel>>

User(u) ==
  \/ showJoinPanel(u) \/ showPanels(u)
  \/ \E index \in 0 .. Buffer - 1 : showJoinDialog(u, index)
  \/ join(u) \/ cancel(u)
  \/ showConfirm(u) \/ showAddConfirm(u) \/ showDeleteConfirm(u)

Next ==
  \/ Server /\ UNCHANGED pageVars
  \/ \E u \in Users : User(u)
  \/ \E r \in arriving : Response(r)

\* The server's one thread: a call ends within a minute, answered or not.  The
\* network delivers responses.
Spec ==
  /\ Init /\ [][Next]_vars
  /\ WF_vars(Server /\ UNCHANGED pageVars)
  /\ WF_vars(\E r \in arriving : Response(r))

(***************************************************************************)
(* Properties                                                              *)
(***************************************************************************)
PageTypeOK ==
  /\ {joinPanel, isLoading, isForming} \subseteq [Users -> BOOLEAN]
  /\ \A u \in Users : /\ Short(networksInfo[u].networks) /\ networksInfo[u].list \in Ids
                     /\ dialog[u].list \in Ids

\* A user who joins a network by its index in the list joins the network the page
\* showed there when the dialog was opened, through panels left and entered again,
\* lists that arrive while the dialog is open or in the wrong order, and scans that
\* fail or find nothing; unless another scan has replaced the server's list since
\* that one.
JoinsSeen ==
  [][ /\ PageTypeOK
      /\ wpan'.by # wpan.by /\ wpan'.by # 0 /\ job.op = "join" /\ job.list = listOf
      => wpan'.net = job.net ]_vars

\* "successful" is answered to a join or form only if that request put wpantund
\* into the network and its prefix was added; a Join without a reply is the one
\* exception.
SuccessIsReal ==
  [][ \A r \in arriving' \ arriving :
        r.op \in {"join", "form"} /\ r.ok /\ ~job.lost
          => wpan'.by = r.id /\ wpan'.gateway ]_vars

\* Every page is answered, whatever wpantund leaves unanswered and however many other
\* requests there are: it neither loads nor forms for ever.
EveryoneAnswered == []<>(\A u \in Users : ~isLoading[u] /\ ~isForming[u])
=============================================================================
