-------------------------------- MODULE Relay --------------------------------
(***************************************************************************)
(* The joiner side of a Commissioner: the relay (HandleRelayReceive, Find- *)
(* Eui, SendRelayTransmit of commissioner.cpp), JoinerSession (joiner_     *)
(* session.cpp) and its DTLS server (dtls_mbedtls.cpp).  A joiner's DTLS   *)
(* datagrams come in RELAY_RX messages and are sent, from one loopback     *)
(* socket for all joiners, to the DTLS server; what the server sends back  *)
(* leaves in RELAY_TX messages, addressed to the joiner relayed last.      *)
(* After JOIN_FIN the next RELAY_TX also carries the KEK, by which the     *)
(* joiner router entrusts the joiner.                                      *)
(*                                                                         *)
(* All of it runs in one thread, round after round of select and Process,  *)
(* modelled part by part.  mbedtls, the sockets, the network and the       *)
(* joiners are external; a DTLS flight is one datagram, a PSKd the joiner  *)
(* it belongs to, a key block or KEK the id of the handshake it was made   *)
(* in, and so is what is agreed upon or encrypted with one.                *)
(***************************************************************************)
EXTENDS Integers, SequencesExt

CONSTANTS Joiners,
          Listed,     \* the joiners on the joiner list
          Default,    \* the PSKd "DFLT", nobody's
          NoJoiner,   \* uninitialised mJoinerIid, mJoinerUdpPort, ...
          Ids,        \* bound: sessions and session keys in use at a time
          MaxFaults   \* bound: relay messages lost or repeated, joiners that give
                      \* up, minutes of silence while a joiner is joining

ASSUME RelayAssumption ==
  /\ Listed \subseteq Joiners /\ {Default, NoJoiner} \cap Joiners = {}
  /\ Ids \subseteq Nat \ {0} /\ MaxFaults \in Nat

VARIABLES
  at,              \* where the commissioner thread is in its round
  ready,           \* the sockets select reported
  mJoinerIid,      \* and port and router: the joiner relayed last
  served,          \* mJoinerSession exists
  mPSK,            \* of the DTLS server
  mSocket,         \* it listens
  mSessions,       \* of the DTLS server
  exporter,        \* the session the shared mConf exports keys to
  mDtlsSession,    \* of JoinerSession, an id or 0
  mKek, mNeedAppendKek,
  serverIn,        \* datagrams in the server's socket
  clientIn,        \* datagrams in mJoinerSessionClientFd
  rx, tx,          \* RELAY_RX and RELAY_TX messages on their way
  jpc,             \* the joiners
  jkey,            \* the key each joiner agrees upon
  entrusted,       \* the KEK each joiner's router was given
  faults,
  halt,            \* "no"; "blocked" in a read; "null" pointer used
  disturbed,       \* see Disturbs
  crossed          \* another joiner was relayed before all was sent

serverVars == <<mPSK, mSocket, mSessions, exporter, serverIn>>
kekVars    == <<mDtlsSession, mKek, mNeedAppendKek>>
envVars    == <<jpc, jkey, entrusted, faults>>
vars == <<at, ready, mJoinerIid, served, serverVars, kekVars, clientIn, rx, tx,
          envVars, halt, disturbed, crossed>>

Kinds  == {"hello", "cookie", "key", "fin", "bye", "abort"}
Kinds2 == {"verify", "flight", "done", "rsp", "alert"}
Datagrams == [j : Joiners, kind : Kinds, key : Ids \cup {0}]
Replies   == [j : Joiners, kind : Kinds2, key : Ids \cup {0}]
Sessions == [id : Ids, key : Ids, opener : Joiners, psk : Joiners \cup {Default},
             mState : {"Handshaking", "Ready", "Close", "Error"},
             expects : {"hello", "key"}, peer : Joiners,
             own : BOOLEAN, kek : Ids \cup {0}, in : Seq(Datagrams)]

\* File descriptors.
Server == <<"server">>
Leader == <<"leader">>
Client == <<"client">>
Own(s) == <<"session", s.id>>

TypeOK ==
  /\ at \in {"select", "sessions", "server", "read", "deliver"}
  /\ ready \subseteq {Server, Leader, Client} \cup ({"session"} \X Ids)
  /\ mJoinerIid \in Joiners \cup {NoJoiner}
  /\ {served, mSocket} \subseteq BOOLEAN /\ mPSK \in Joiners \cup {Default}
  /\ mSessions \subseteq Sessions
  /\ {exporter, mDtlsSession, mKek} \subseteq Ids \cup {0}
  /\ mNeedAppendKek \in BOOLEAN
  /\ serverIn \in Seq(Datagrams) /\ clientIn \in Seq(Replies)
  /\ rx \in Seq(Datagrams)
  /\ \A i \in DOMAIN tx : tx[i].reply \in Replies /\ tx[i].to \in Joiners \cup {NoJoiner}
  /\ jpc \in [Joiners -> {"idle", "hello", "cookie", "key", "fin", "joined", "gone"}]
  /\ jkey \in [Joiners -> Ids \cup {0}] /\ entrusted \in [Joiners -> Ids \cup {0}]
  /\ faults \in 0 .. MaxFaults
  /\ halt \in {"no", "blocked", "null"} /\ {disturbed, crossed} \subseteq BOOLEAN

Init ==
  /\ at = "select" /\ ready = {}
  /\ mJoinerIid = NoJoiner /\ served = FALSE /\ mPSK = Default /\ mSocket = FALSE
  /\ mSessions = {} /\ exporter = 0
  /\ mDtlsSession = 0 /\ mKek = 0 /\ mNeedAppendKek = FALSE
  /\ serverIn = <<>> /\ clientIn = <<>> /\ rx = <<>> /\ tx = <<>>
  /\ jpc = [j \in Joiners |-> "idle"] /\ jkey = [j \in Joiners |-> 0]
  /\ entrusted = [j \in Joiners |-> 0]
  /\ faults = 0 /\ halt = "no" /\ disturbed = FALSE /\ crossed = FALSE

Ids2(f) == {f[j] : j \in Joiners}
Ids3(q) == {q[i].key : i \in DOMAIN q}
InUse == {s.id : s \in mSessions} \cup {s.key : s \in mSessions} \cup {exporter, mDtlsSession, mKek}
         \cup Ids2(jkey) \cup Ids2(entrusted) \cup Ids3(clientIn) \cup Ids3(rx) \cup Ids3(serverIn)
         \cup {tx[i].reply.key : i \in DOMAIN tx} \cup UNION {Ids3(s.in) : s \in mSessions}
Fresh == CHOOSE i \in Ids : i \notin InUse

\* A joiner with a conversation under way.
Joining(j) == jpc[j] \notin {"idle", "joined", "gone"}
\* Something it sent, or that is for it, is on its way.
InTransit(j) ==
  \/ \E i \in DOMAIN rx : rx[i].j = j
  \/ \E i \in DOMAIN serverIn : serverIn[i].j = j
  \/ \E i \in DOMAIN clientIn : clientIn[i].j = j
  \/ \E i \in DOMAIN tx : tx[i].reply.j = j
  \/ \E s \in mSessions : \E i \in DOMAIN s.in : s.in[i].j = j

-----------------------------------------------------------------------------
(* UpdateFdSet and select                                                  *)

\* Mutant of Alive: sessions that are ready are deleted.
AliveHandshaking(s) == s.mState = "Handshaking"

Alive(s) == s.mState \in {"Ready", "Handshaking"}

\* ~MbedtlsSession and Close(), for the sessions in S: the peer is told, and
\* JoinerSession is, unless the session is in error.
Closing(S) == {s \in S : s.mState # "Error"}
CloseNotify(S) == SetToSeq({[j |-> s.peer, kind |-> "alert", key |-> 0] : s \in Closing(S)})

\* Mutant of Station: relayed messages are read before the DTLS server runs.
StationReadFirst(fds) ==
  CASE Leader \in fds -> "read"
    [] Leader \notin fds /\ \E f \in fds : f[1] = "session" -> "sessions"
    [] Server \in fds /\ fds \subseteq {Server, Client} -> "server"
    [] fds = {Client} -> "deliver"
    [] fds = {} -> "select"

\* Where Process has something to do next: its parts in the order of
\* commissioner.cpp:418 to 450, and the end of the round.
Station(fds) ==
  CASE \E f \in fds : f[1] = "session" -> "sessions"
    [] Server \in fds /\ \A f \in fds : f[1] # "session" -> "server"
    [] Leader \in fds /\ fds \subseteq {Leader, Client} -> "read"
    [] fds = {Client} -> "deliver"
    [] fds = {} -> "select"

\* socket f has been read.
Done(f) == ready' = ready \ {f} /\ at' = Station(ready \ {f})

\* Sessions that have not been heard of for a minute are deleted, and those
\* that are over.  Then select reports what can be read.
UpdateFdSet ==
  /\ at = "select"
  /\ \E expired \in SUBSET {s \in mSessions : Alive(s)} :
       LET gone == {s \in mSessions : ~Alive(s)} \cup expired
           left == mSessions \ gone
       IN /\ mSessions' = left
          /\ clientIn' = clientIn \o CloseNotify(gone)
          /\ mDtlsSession' = IF Closing(gone) = {} THEN mDtlsSession ELSE 0
          /\ ready' = {Own(s) : s \in {t \in left : t.in # <<>>}}
                      \cup (IF serverIn # <<>> THEN {Server} ELSE {})
                      \cup (IF rx # <<>> THEN {Leader} ELSE {})
                      \cup (IF clientIn' # <<>> THEN {Client} ELSE {})
          /\ ready' # {} \/ gone # {}
          /\ at' = Station(ready')
          /\ IF \E s \in expired : Joining(s.peer) \/ InTransit(s.peer)
               THEN faults < MaxFaults /\ faults' = faults + 1 /\ disturbed' = TRUE
               ELSE UNCHANGED <<faults, disturbed>>
  /\ UNCHANGED <<mJoinerIid, served, mPSK, mSocket, exporter, mKek, mNeedAppendKek, serverIn,
                 rx, tx, jpc, jkey, entrusted, halt, crossed>>
-----------------------------------------------------------------------------
(* A session reads a datagram                                              *)

\* What mbedtls makes of datagram d: the session after it, what is sent, and
\* whether a request was read.
Res(s, out, request) == [s |-> s, out |-> out, request |-> request]
Say(s, j, kind) ==
  <<[j |-> j, kind |-> kind, key |-> IF kind \in {"flight", "done"} THEN s.key ELSE 0]>>
Nothing(s) == Res(s, <<>>, FALSE)
Failed(s, out) == Res([s EXCEPT !.mState = "Error"], out, FALSE)

\* Handshake().
Handshake(s, d) ==
  IF s.expects = "hello"
  THEN CASE d.kind = "hello" -> {Failed(s, Say(s, d.j, "verify"))}
         [] d.kind = "cookie" ->
              {Res([s EXCEPT !.expects = "key", !.peer = d.j], Say(s, d.j, "flight"), FALSE)}
              \cup (IF s.own THEN {Failed(s, Say(s, d.j, "alert"))} ELSE {})
         [] d.kind = "key" -> {Failed(s, Say(s, d.j, "alert"))}
         [] d.kind = "abort" -> {Failed(s, <<>>)}
         [] OTHER -> {Nothing(s)}
  ELSE IF d.j # s.peer THEN {Nothing(s)}
  ELSE CASE d.kind = "key" /\ s.psk = d.j /\ s.key = d.key ->
              {Res([s EXCEPT !.mState = "Ready"], Say(s, d.j, "done"), FALSE)}
         [] d.kind = "key" /\ ~(s.psk = d.j /\ s.key = d.key) -> {Failed(s, Say(s, d.j, "alert"))}
         [] d.kind = "cookie" -> {Res(s, Say(s, d.j, "flight"), FALSE)}
         [] d.kind = "abort" -> {Failed(s, <<>>)}
         [] OTHER -> {Nothing(s)}

\* Read().  A ClientHello with a valid cookie makes mbedtls report that the
\* client reconnects, whichever joiner it is from, and begin a new handshake; what
\* is encrypted with other keys is dropped.
Read(s, d) ==
  IF d.kind = "hello" THEN Res(s, Say(s, d.j, "verify"), FALSE)
  ELSE IF d.kind = "cookie"
    THEN Nothing([s EXCEPT !.mState = "Handshaking", !.expects = "hello", !.peer = d.j,
                           !.key = Fresh])
  ELSE IF d.j # s.peer \/ (d.kind # "abort" /\ d.key # s.key) THEN Nothing(s)
  ELSE CASE d.kind = "fin" -> Res(s, <<>>, TRUE)
         [] d.kind = "key" -> Res(s, Say(s, d.j, "done"), FALSE)
         [] d.kind = "bye" -> Nothing([s EXCEPT !.mState = "Close"])
         [] d.kind = "abort" -> Failed(s, <<>>)

Outcomes(s, d) == IF s.mState = "Handshaking" THEN Handshake(s, d) ELSE {Read(s, d)}

\* Mutant of Exported: no session is registered for the keys.
ExportedNever(s) == s.kek

\* ExportKeys, in the step that makes session s ready: the keys go to the
\* session that was created last.
Exported(s) == IF exporter = s.id THEN s.key ELSE s.kek

\* SendCoap encrypts with the key of the session it writes to.
KeyOf(id) == (CHOOSE s \in mSessions : s.id = id).key

\* HandleSessionChange, as far as SetState calls it, and HandleJoinerFinalize,
\* whose response is written to mDtlsSession.
Process(s, d, r) ==
  LET toReady == s.mState = "Handshaking" /\ r.s.mState = "Ready"
      toError == s.mState = "Ready" /\ r.s.mState = "Error"
      t == [r.s EXCEPT !.kek = IF toReady THEN Exported(s) ELSE @,
                       !.own = @ \/ r.out # <<>>]
  IN /\ mSessions' = (mSessions \ {s}) \cup {t}
     /\ mKek' = IF toReady THEN t.kek ELSE mKek
     /\ mDtlsSession' = IF toReady THEN t.id ELSE IF toError THEN 0 ELSE mDtlsSession
     /\ mNeedAppendKek' = (mNeedAppendKek \/ r.request)
     /\ clientIn' = clientIn \o r.out \o
          (IF r.request /\ mDtlsSession # 0
             THEN <<[j |-> d.j, kind |-> "rsp", key |-> KeyOf(mDtlsSession)]>> ELSE <<>>)

SessionProcess ==
  /\ at = "sessions"
  /\ \E s \in mSessions :
       /\ Own(s) \in ready /\ Done(Own(s))
       /\ \E r \in Outcomes([s EXCEPT !.in = Tail(@)], Head(s.in)) : Process(s, Head(s.in), r)
  /\ UNCHANGED <<mJoinerIid, served, mPSK, mSocket, exporter, serverIn, rx, tx, envVars,
                 halt, disturbed, crossed>>

-----------------------------------------------------------------------------
(* ProcessServer: a new session for the datagram in the server's socket    *)

NewSession(id, d) ==
  [id |-> id, key |-> id, opener |-> d.j, psk |-> mPSK, mState |-> "Handshaking", expects |-> "hello",
   peer |-> d.j, own |-> FALSE, kek |-> 0, in |-> <<>>]

\* A session has no socket of its own before it sends something.  A datagram
\* that cannot begin a handshake is dropped by mbedtls, which reads again,
\* from the server's socket, and that one blocks.
Blocks(d) == d.kind \in {"fin", "bye"}

ServerAccepts ==
  /\ at = "server" /\ Done(Server)
  /\ LET id == Fresh
         d  == Head(serverIn)
         s  == NewSession(id, d)
     IN /\ serverIn' = Tail(serverIn)
        /\ exporter' = id
        /\ IF Blocks(d)
             THEN /\ halt' = "blocked"
                  /\ mSessions' = mSessions \cup {s}
                  /\ UNCHANGED <<kekVars, clientIn>>
             ELSE /\ \E r \in Handshake(s, d) : Process(s, d, r)
                  /\ UNCHANGED halt
  /\ UNCHANGED <<mJoinerIid, served, mPSK, mSocket, rx, tx, envVars, disturbed, crossed>>

-----------------------------------------------------------------------------
(* The rest of Commissioner::Process, and the update of the joiner list    *)

\* The socket a datagram to the server's port ends up in: the one connected
\* to its sender, if there is any.  No server, no datagram.
Demux(d) ==
  LET connected == {s \in mSessions : s.own}
  IN IF connected # {}
     THEN /\ \E s \in connected :
               mSessions' = (mSessions \ {s}) \cup {[s EXCEPT !.in = Append(@, d)]}
          /\ UNCHANGED serverIn
     ELSE /\ serverIn' = IF mSocket THEN Append(serverIn, d) ELSE serverIn
          /\ UNCHANGED mSessions

\* A PSKd of the list is never longer than the 32 bytes there are for it.
SetPSK(j) == mPSK' = j

\* FindEui: the server's PSK becomes the PSKd of this joiner, if it is on the
\* list.  Without a server a null pointer is used.
FindEui(j) ==
  IF j \in Listed THEN IF served THEN SetPSK(j) /\ UNCHANGED halt
                                 ELSE UNCHANGED mPSK /\ halt' = "null"
                  ELSE UNCHANGED <<mPSK, halt>>

\* The datagram is sent on, and the joiner remembered.  To a port on which nobody
\* listens the second datagram is refused, and the rest of its message ignored.
HandleRelayReceive ==
  /\ at = "read" /\ Done(Leader)
  /\ rx' = Tail(rx)
  /\ \/ LET d == Head(rx)
        IN /\ Demux(d)
           /\ mJoinerIid' = d.j
           /\ FindEui(d.j)
           /\ crossed' = (crossed \/ /\ mJoinerIid # d.j
                                     /\ clientIn # <<>> \/ mNeedAppendKek)
     \/ ~mSocket /\ UNCHANGED <<mJoinerIid, mPSK, mSessions, serverIn, halt, crossed>>
  /\ UNCHANGED <<served, mSocket, exporter, kekVars, clientIn, tx, envVars, disturbed>>

\* Mutant of RelayTransmit: the KEK goes with every message once there is one.
RelayTransmitKekAlways(reply) ==
  [to |-> mJoinerIid, reply |-> reply, kek |-> mKek, crossed |-> crossed]

\* Mutant of RelayTransmit: the KEK is left out.
RelayTransmitNoKek(reply) ==
  [to |-> mJoinerIid, reply |-> reply, kek |-> 0, crossed |-> crossed]

\* What SendRelayTransmit puts into the message.
RelayTransmit(reply) ==
  [to |-> mJoinerIid, reply |-> reply, kek |-> IF mNeedAppendKek THEN mKek ELSE 0,
   crossed |-> crossed]

SendRelayTransmit ==
  /\ at = "deliver" /\ Done(Client)
  /\ tx' = Append(tx, RelayTransmit(Head(clientIn)))
  /\ clientIn' = Tail(clientIn)
  /\ mNeedAppendKek' = FALSE
  /\ crossed' = (crossed /\ clientIn' # <<>>)
  /\ UNCHANGED <<mJoinerIid, served, serverVars, mDtlsSession, mKek, rx, envVars,
                 halt, disturbed>>

\* The DTLS server gets its socket, unless mbedtls or the socket fails; the
\* session it is made for does not ask.
Start ==
  \/ mSocket' = TRUE /\ UNCHANGED <<faults, disturbed>>
  \/ mSocket' = FALSE /\ faults < MaxFaults /\ faults' = faults + 1 /\ disturbed' = TRUE

JoinerSession == served' = TRUE /\ Start

\* The end of a round: SetJoiner, if the joiner list was updated.  Joiner-
\* Session is made once.
SetJoiner ==
  /\ at = "select"
  /\ ~served /\ JoinerSession
  /\ UNCHANGED <<at, ready, mJoinerIid, mPSK, mSessions, exporter, serverIn, kekVars,
                 clientIn, rx, tx, jpc, jkey, entrusted, halt, crossed>>

Round ==
  /\ halt = "no"
  /\ \/ UpdateFdSet \/ SessionProcess \/ ServerAccepts \/ HandleRelayReceive
     \/ SendRelayTransmit
-----------------------------------------------------------------------------
(* The network and the joiners                                             *)

loopVars == <<at, ready, mJoinerIid, served, serverVars, kekVars, clientIn, halt, crossed>>

\* The flight of a joiner in each state.
Flight(j, state, key) ==
  [j |-> j, kind |-> state, key |-> IF state \in {"key", "fin", "bye"} THEN key ELSE 0]

Disturbs(j) == \E k \in Joiners \ {j} : Joining(k)

Begin(j) ==
  /\ jpc[j] = "idle"
  /\ jpc' = [jpc EXCEPT ![j] = "hello"]
  /\ rx' = Append(rx, Flight(j, "hello", 0))
  /\ disturbed' = (disturbed \/ Disturbs(j))
  /\ UNCHANGED <<loopVars, tx, jkey, entrusted, faults>>

After == [hello |-> "cookie", cookie |-> "key", key |-> "fin", fin |-> "joined"]
Awaited == [hello |-> "verify", cookie |-> "flight", key |-> "done", fin |-> "rsp"]

\* What a joiner waits for; the end of a handshake and JOIN_FIN's response are
\* encrypted with its keys.
Expected(j, r) ==
  r.kind = Awaited[jpc[j]] /\ (r.kind \in {"done", "rsp"} => r.key = jkey[j])

\* The router takes the KEK, the joiner the datagram it encloses.
Deliver ==
  LET m == Head(tx)
      j == m.reply.j
      ours == m.to = j /\ Joining(j)
      next == CASE ours /\ m.reply.kind = "alert" -> "hello"
                [] ours /\ m.reply.kind # "alert" /\ Expected(j, m.reply) -> After[jpc[j]]
                [] OTHER -> jpc[j]
  IN /\ tx # <<>> /\ tx' = Tail(tx)
     /\ entrusted' = IF m.kek = 0 THEN entrusted ELSE [entrusted EXCEPT ![m.to] = m.kek]
     /\ jpc' = [jpc EXCEPT ![j] = next]
     /\ jkey' = IF next # jpc[j] /\ next \in {"hello", "key"}
                  THEN [jkey EXCEPT ![j] = m.reply.key] ELSE jkey
     /\ rx' = IF next = jpc[j] THEN rx
              ELSE Append(rx, Flight(j, IF next = "joined" THEN "bye" ELSE next, jkey'[j]))
     /\ UNCHANGED <<loopVars, faults, disturbed>>

Lose ==
  /\ faults < MaxFaults /\ faults' = faults + 1
  /\ \/ rx # <<>> /\ rx' = Tail(rx) /\ UNCHANGED tx
     \/ tx # <<>> /\ tx' = Tail(tx) /\ UNCHANGED rx
  /\ UNCHANGED <<loopVars, jpc, jkey, entrusted, disturbed>>

\* A datagram comes a second time, behind what was sent since.
Repeat ==
  /\ faults < MaxFaults /\ faults' = faults + 1
  /\ rx # <<>> /\ rx' = Append(rx, Head(rx))
  /\ disturbed' = TRUE
  /\ UNCHANGED <<loopVars, tx, jpc, jkey, entrusted>>

\* A joiner that has waited long enough sends its flight again, not before
\* what it sent or what was sent to it is lost.
Resend(j) ==
  /\ Joining(j) /\ ~InTransit(j)
  /\ rx' = Append(rx, Flight(j, jpc[j], jkey[j]))
  /\ UNCHANGED <<loopVars, tx, envVars, disturbed>>

GiveUp(j) ==
  /\ Joining(j)
  /\ faults < MaxFaults /\ faults' = faults + 1
  /\ jpc' = [jpc EXCEPT ![j] = "gone"]
  /\ rx' \in {rx, Append(rx, Flight(j, "abort", 0))}
  /\ disturbed' = TRUE
  /\ UNCHANGED <<loopVars, tx, jkey, entrusted>>

\* What happens outside in the middle of a round is noticed after it: the
\* sockets to be read are known by then.
Environment ==
  /\ halt = "no" /\ at = "select"
  /\ \/ \E j \in Joiners : Begin(j) \/ Resend(j) \/ GiveUp(j)
     \/ Deliver \/ Lose \/ Repeat \/ SetJoiner

\* The thread has stopped, or select waits for ever as no joiner is left.
Rest == (halt # "no" \/ \A j \in Joiners : jpc[j] \in {"joined", "gone"}) /\ UNCHANGED vars

Next == Round \/ Environment \/ Rest

Spec == Init /\ [][Next]_vars

\* The thread runs, messages that are not lost arrive, joiners retransmit.
FairSpec ==
  /\ Spec
  /\ WF_vars(Round)
  /\ WF_vars(halt = "no" /\ at = "select" /\ Deliver)
  /\ \A j \in Joiners : WF_vars(halt = "no" /\ at = "select" /\ Resend(j))
-----------------------------------------------------------------------------
\* A session has the PSKd of the joiner whose datagram opened it, although
\* that datagram is sent before the PSKd is set (commissioner.cpp:582) and
\* other joiners set theirs.  (An unlisted joiner gets what is there.)
PskOfOpener == \A s \in mSessions : s.opener \in Listed => s.psk = s.opener

\* The server has one session at a time: the first one that answers has the
\* socket connected to the sender of all relayed datagrams, and it is gone
\* before the next (dtls_mbedtls.cpp:621, the TODO).  If it is ready it is the
\* one JoinerSession writes to, and the KEK is that of its handshake
\* (joiner_session.cpp:66, dtls_mbedtls.cpp:636).
ReadyIsCurrent ==
  /\ TypeOK
  /\ \A s, t \in mSessions : s = t
  /\ \A s \in mSessions : s.mState = "Ready" => mDtlsSession = s.id /\ mKek = s.key

\* What answers a joiner is sent to it, and the KEK with it is its own, unless
\* another joiner was relayed before all was sent (commissioner.cpp:638).
RightRouter ==
  \A i \in DOMAIN tx : ~tx[i].crossed =>
    /\ tx[i].reply.kind # "alert" => tx[i].to = tx[i].reply.j
    /\ tx[i].kek # 0 => tx[i].kek = jkey[tx[i].to]

\* The thread neither blocks in a read (dtls_mbedtls.cpp:454) nor uses a
\* null pointer (commissioner.cpp:557), if joiners come one after the other,
\* none goes away, nothing is repeated, and the list was handled before.
RunsOn == halt # "no" => disturbed \/ ~served

\* Such a joiner, if on the list, joins, and its router is given its KEK,
\* whatever is lost.
JoinCompletes ==
  \A j \in Listed :
    jpc[j] = "hello" /\ served ~> \/ jpc[j] = "joined" /\ entrusted[j] = jkey[j]
                        \/ disturbed \/ halt # "no"
=============================================================================
