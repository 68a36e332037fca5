----------------------------- MODULE RelayProofs -----------------------------
(***************************************************************************)
(* The DTLS server of the joiners has one session at a time, which has the *)
(* PSKd of the joiner that opened it and is the one JoinerSession writes   *)
(* to and takes the KEK from; the thread does not get stuck while joiners  *)
(* come one after the other; and what answers a joiner goes to it, with    *)
(* its own KEK.  For any joiners, with any number of messages lost or      *)
(* repeated, and as many ids as it takes.                                  *)
(***************************************************************************)
EXTENDS Relay, FiniteSetTheorems, SequenceTheorems, TLAPS

(***************************************************************************)
(* The inductive invariant.                                                *)
(***************************************************************************)
Messages == [to : Joiners \cup {NoJoiner}, reply : Replies, kek : Ids \cup {0},
             crossed : BOOLEAN]

Types == TypeOK /\ tx \in Seq(Messages)

\* In the middle of a round: what select reported is still to be read.
Reported ==
  /\ at = Station(ready)
  /\ Leader \in ready => rx # <<>>
  /\ Client \in ready => clientIn # <<>>
  /\ \A s \in mSessions : Own(s) \in ready => s.own /\ s.in # <<>> /\ Alive(s)

\* One session, which has the exported keys; ready, it is the joiner's.
Single == \A s, t \in mSessions : s = t
Current ==
  /\ \A s \in mSessions : exporter = s.id
  /\ \A s \in mSessions : s.mState = "Ready" => mDtlsSession = s.id /\ mKek = s.key

\* A session that has answered nothing has failed.
Answered == halt = "no" => \A s \in mSessions : s.own \/ s.mState = "Error"

\* A datagram in the server's socket is the only one.  Its joiner's PSKd is the
\* server's, and nobody else is served until it has been read.
Opening ==
  serverIn # <<>> =>
    /\ mSocket /\ Len(serverIn) = 1
    /\ Head(serverIn).j \in Listed => mPSK = Head(serverIn).j
    /\ \/ Server \in ready /\ mSessions = {}
       \/ at \in {"select", "deliver"} /\ \A s \in mSessions : ~s.own /\ s.mState = "Error"

Served == /\ mSocket => served
          /\ Server \in ready => serverIn # <<>>

IndInv ==
  Types /\ Reported /\ Single /\ Current /\ Answered /\ Opening /\ Served /\ PskOfOpener

-----------------------------------------------------------------------------
(* Ids: there is always one to be had.                                     *)

LEMMA FiniteImage ==
  ASSUME NEW S, IsFiniteSet(S), NEW f, DOMAIN f = S
  PROVE  IsFiniteSet({f[x] : x \in S})
<1> DEFINE T == {f[x] : x \in S}
<1>1. [x \in S |-> f[x]] \in Surjection(S, T)
  BY DEF Surjection
<1> HIDE DEF T
<1>2. IsFiniteSet(T)
  BY <1>1, FS_Surjection
<1> QED BY <1>2 DEF T

LEMMA FiniteSequence ==
  ASSUME NEW S, NEW q \in Seq(S), NEW f \in [S -> Ids \cup {0}]
  PROVE  IsFiniteSet({f[q[i]] : i \in DOMAIN q})
<1> DEFINE g == [i \in DOMAIN q |-> f[q[i]]]
<1>1. IsFiniteSet(DOMAIN q)
  <2>1. DOMAIN q = 1 .. Len(q) /\ Len(q) \in Nat
    BY LenProperties
  <2> QED BY <2>1, FS_Interval
<1>2. IsFiniteSet({g[i] : i \in DOMAIN q})
  <2>1. DOMAIN g = DOMAIN q
    OBVIOUS
  <2> HIDE DEF g
  <2> QED BY <1>1, <2>1, FiniteImage
<1>3. {g[i] : i \in DOMAIN q} = {f[q[i]] : i \in DOMAIN q}
  OBVIOUS
<1> QED BY <1>2, <1>3

LEMMA KeysFinite ==
  ASSUME NEW q, q \in Seq(Datagrams) \/ q \in Seq(Replies)
  PROVE  IsFiniteSet(Ids3(q))
<1> DEFINE S == IF q \in Seq(Datagrams) THEN Datagrams ELSE Replies
           f == [m \in S |-> m.key]
<1>1. q \in Seq(S) /\ f \in [S -> Ids \cup {0}]
  BY DEF Datagrams, Replies
<1>2. \A i \in DOMAIN q : q[i] \in S
  BY <1>1
<1>3. Ids3(q) = {f[q[i]] : i \in DOMAIN q}
  BY <1>2 DEF Ids3
<1> HIDE DEF S, f
<1> QED BY <1>1, <1>3, FiniteSequence

\* Of an unlimited number of ids one is free, as there is but one session.
LEMMA IdFree ==
  ASSUME IsFiniteSet(Joiners), ~IsFiniteSet(Ids), Types, Single
  PROVE  Fresh \in Ids /\ Fresh \notin InUse
<1> DEFINE A == {s.id : s \in mSessions}
           B == {s.key : s \in mSessions}
           C == {tx[i].reply.key : i \in DOMAIN tx}
           D == {exporter, mDtlsSession, mKek}
           E == UNION {Ids3(s.in) : s \in mSessions}
<1>1. IsFiniteSet(A) /\ IsFiniteSet(B) /\ IsFiniteSet(E)
  <2>1. CASE mSessions = {}
    <3>1. A = {} /\ B = {} /\ E = {}
      BY <2>1
    <3> QED BY <3>1, FS_EmptySet
  <2>2. CASE mSessions # {}
    <3>1. PICK s \in mSessions : TRUE
      BY <2>2
    <3>2. A = {s.id} /\ B = {s.key} /\ E = Ids3(s.in)
      BY <3>1 DEF Single
    <3>3. s.in \in Seq(Datagrams)
      BY <3>1 DEF Types, TypeOK, Sessions
    <3>4. IsFiniteSet({s.id}) /\ IsFiniteSet({s.key}) /\ IsFiniteSet(Ids3(s.in))
      BY <3>3, FS_Singleton, KeysFinite
    <3> HIDE DEF A, B, E
    <3> QED BY <3>2, <3>4
  <2> QED BY <2>1, <2>2
<1>2. IsFiniteSet(Ids3(clientIn)) /\ IsFiniteSet(Ids3(rx)) /\ IsFiniteSet(Ids3(serverIn))
  BY KeysFinite DEF Types, TypeOK
<1>3. IsFiniteSet(C)
  <2> DEFINE f == [m \in Messages |-> m.reply.key]
  <2>1. tx \in Seq(Messages) /\ f \in [Messages -> Ids \cup {0}]
    BY DEF Types, Messages, Replies
  <2>2. IsFiniteSet({f[tx[i]] : i \in DOMAIN tx})
    <3> HIDE DEF f
    <3> QED BY <2>1, FiniteSequence
  <2>3. \A i \in DOMAIN tx : tx[i] \in Messages
    BY <2>1
  <2>4. C = {f[tx[i]] : i \in DOMAIN tx}
    BY <2>3
  <2> QED BY <2>2, <2>4
<1>4. IsFiniteSet(D)
  <2>1. IsFiniteSet({exporter} \cup {mDtlsSession}) /\ IsFiniteSet({mKek})
    BY FS_Singleton, FS_Union
  <2>2. D = {exporter} \cup {mDtlsSession} \cup {mKek}
    OBVIOUS
  <2> HIDE DEF D
  <2> QED BY <2>1, <2>2, FS_Union
<1>5. IsFiniteSet(Ids2(jkey)) /\ IsFiniteSet(Ids2(entrusted))
  <2>1. DOMAIN jkey = Joiners /\ DOMAIN entrusted = Joiners
    BY DEF Types, TypeOK
  <2>2. IsFiniteSet({jkey[x] : x \in Joiners}) /\ IsFiniteSet({entrusted[x] : x \in Joiners})
    BY <2>1, FiniteImage
  <2> QED BY <2>2 DEF Ids2
<1>6. IsFiniteSet(InUse)
  <2> HIDE DEF A, B, C, D, E
  <2>1. InUse = A \cup B \cup D \cup Ids2(jkey) \cup Ids2(entrusted) \cup Ids3(clientIn)
                \cup Ids3(rx) \cup Ids3(serverIn) \cup C \cup E
    BY DEF InUse, A, B, C, D, E
  <2>2. IsFiniteSet(A \cup B \cup D \cup Ids2(jkey) \cup Ids2(entrusted) \cup Ids3(clientIn))
    BY <1>1, <1>2, <1>4, <1>5, FS_Union
  <2> QED BY <1>1, <1>2, <1>3, <2>1, <2>2, FS_Union
<1>7. \E i \in Ids : i \notin InUse
  BY <1>6, FS_Subset
<1> QED BY <1>7 DEF Fresh

-----------------------------------------------------------------------------
(* A session and a datagram.                                               *)

Becomes(s, t) ==
  t.mState = "Ready" =>
    /\ t.key = s.key
    /\ s.mState = "Ready" \/ (s.mState = "Handshaking" /\ s.expects = "key")

\* What a session keeps, and what it sends.
Same(s, t) ==
  /\ t.id = s.id /\ t.opener = s.opener /\ t.psk = s.psk /\ t.own = s.own /\ t.kek = s.kek
Kept(s, r) ==
  /\ r.s \in Sessions /\ Same(s, r.s) /\ Becomes(s, r.s)
  /\ r.out \in Seq(Replies) /\ r.request \in BOOLEAN
  /\ r.request => s.mState = "Ready"

LEMMA SayTyped ==
  ASSUME NEW s \in Sessions, NEW j \in Joiners, NEW kind \in Kinds2
  PROVE  Say(s, j, kind) \in Seq(Replies) /\ Say(s, j, kind) # <<>>
<1> DEFINE m == [j |-> j, kind |-> kind,
                 key |-> IF kind \in {"flight", "done"} THEN s.key ELSE 0]
<1>1. m \in Replies
  BY DEF Replies, Sessions
<1>2. Say(s, j, kind) = <<m>>
  BY DEF Say
<1> HIDE DEF m
<1> QED BY <1>1, <1>2

LEMMA FailedKept ==
  ASSUME NEW s \in Sessions, NEW out \in Seq(Replies)
  PROVE  Kept(s, Failed(s, out)) /\ Failed(s, out).s.mState = "Error"
<1> DEFINE t == [s EXCEPT !.mState = "Error"]
<1>1. t \in Sessions /\ t.mState = "Error" /\ Same(s, t)
  BY DEF Sessions, Same
<1>2. Failed(s, out) = Res(t, out, FALSE)
  BY DEF Failed
<1> HIDE DEF t
<1> QED BY <1>1, <1>2, SMT DEF Becomes, Kept, Res

LEMMA SameKept ==
  ASSUME NEW s \in Sessions, NEW out \in Seq(Replies)
  PROVE  /\ Kept(s, Res(s, out, FALSE)) /\ Res(s, out, FALSE).s = s
         /\ Res(s, out, FALSE).out = out
BY DEF Same, Becomes, Kept, Res

LEMMA HandshakeKept ==
  ASSUME NEW s \in Sessions, s.mState = "Handshaking",
         NEW d \in Datagrams, NEW r \in Handshake(s, d)
  PROVE  /\ Kept(s, r)
         /\ s.expects = "hello" => r.s.mState # "Ready"
         /\ s.expects = "hello" /\ ~Blocks(d) => r.out # <<>> \/ r.s.mState = "Error"
<1>1. d.j \in Joiners /\ d.kind \in Kinds
  BY DEF Datagrams
<1>2. \A kind \in Kinds2 : Say(s, d.j, kind) \in Seq(Replies) /\ Say(s, d.j, kind) # <<>>
  BY <1>1, SayTyped
<1>3. \A kind \in {"verify", "alert", "flight", "done"} :
        Say(s, d.j, kind) \in Seq(Replies) /\ Say(s, d.j, kind) # <<>>
  BY <1>2 DEF Kinds2
<1> DEFINE Fine == Kept(s, r) /\ (s.expects = "hello" => r.s.mState # "Ready")
<1>4. ASSUME NEW out \in Seq(Replies), r = Failed(s, out)
      PROVE  Fine /\ r.s.mState = "Error"
  BY <1>4, FailedKept
<1>5. ASSUME r = Nothing(s)
      PROVE  Fine
  <2>1. <<>> \in Seq(Replies)
    OBVIOUS
  <2> QED BY <1>5, <2>1, SameKept DEF Nothing
<1>6. CASE s.expects = "hello"
  <2> DEFINE t == [s EXCEPT !.expects = "key", !.peer = d.j]
  <2>1. t \in Sessions /\ t.mState = s.mState /\ Same(s, t)
    BY <1>1 DEF Sessions, Same
  <2>2. ASSUME r = Res(t, Say(s, d.j, "flight"), FALSE)
        PROVE  Fine /\ r.out # <<>>
    <3> HIDE DEF t
    <3> QED BY <1>3, <2>1, <2>2, SMT DEF Becomes, Kept, Res
  <2>3. \/ \E kind \in {"verify", "alert"} : r = Failed(s, Say(s, d.j, kind))
        \/ r = Failed(s, <<>>)
        \/ r = Res(t, Say(s, d.j, "flight"), FALSE)
        \/ r = Nothing(s) /\ Blocks(d)
    BY <1>1, <1>6 DEF Handshake, Blocks, Kinds
  <2> HIDE DEF t
  <2>4. <<>> \in Seq(Replies)
    OBVIOUS
  <2> QED BY <1>3, <1>4, <1>5, <2>2, <2>3, <2>4
<1>7. CASE s.expects # "hello"
  <2> DEFINE t == [s EXCEPT !.mState = "Ready"]
  <2>1. /\ t \in Sessions /\ t.mState = "Ready" /\ Same(s, t) /\ s.expects = "key"
        /\ t.key = s.key
    BY <1>7 DEF Sessions, Same
  <2>2. ASSUME r = Res(t, Say(s, d.j, "done"), FALSE)
        PROVE  Fine
    <3> HIDE DEF t
    <3> QED BY <1>3, <1>7, <2>1, <2>2, SMT DEF Becomes, Kept, Res
  <2>3. ASSUME r = Res(s, Say(s, d.j, "flight"), FALSE)
        PROVE  Fine
    BY <1>3, <1>7, <2>3, SameKept
  <2>4. \/ r = Failed(s, Say(s, d.j, "alert"))
        \/ r = Failed(s, <<>>)
        \/ r = Res(t, Say(s, d.j, "done"), FALSE)
        \/ r = Res(s, Say(s, d.j, "flight"), FALSE)
        \/ r = Nothing(s)
    BY <1>1, <1>7 DEF Handshake, Kinds
  <2> HIDE DEF t
  <2>5. <<>> \in Seq(Replies)
    OBVIOUS
  <2> QED BY <1>3, <1>4, <1>5, <1>7, <2>2, <2>3, <2>4, <2>5
<1> QED BY <1>6, <1>7

LEMMA ReadKept ==
  ASSUME NEW s \in Sessions, s.mState = "Ready", NEW d \in Datagrams, Fresh \in Ids
  PROVE  Kept(s, Read(s, d))
<1>1. d.j \in Joiners /\ d.kind \in Kinds
  BY DEF Datagrams
<1>2. Say(s, d.j, "verify") \in Seq(Replies) /\ Say(s, d.j, "done") \in Seq(Replies)
  BY <1>1, SayTyped DEF Kinds2
<1>3. <<>> \in Seq(Replies)
  OBVIOUS
<1>4. CASE Read(s, d) = Nothing([s EXCEPT !.mState = "Handshaking", !.expects = "hello",
                                          !.peer = d.j, !.key = Fresh])
  <2> DEFINE t == [s EXCEPT !.mState = "Handshaking", !.expects = "hello", !.peer = d.j,
                            !.key = Fresh]
  <2>1. t \in Sessions /\ t.mState = "Handshaking" /\ Same(s, t)
    BY <1>1 DEF Sessions, Same
  <2>2. Read(s, d) = Res(t, <<>>, FALSE)
    BY <1>4 DEF Nothing
  <2> HIDE DEF t
  <2> QED BY <1>3, <2>1, <2>2, SMT DEF Becomes, Kept, Res
<1>5. CASE Read(s, d) = Nothing([s EXCEPT !.mState = "Close"])
  <2> DEFINE t == [s EXCEPT !.mState = "Close"]
  <2>1. t \in Sessions /\ t.mState = "Close" /\ Same(s, t)
    BY DEF Sessions, Same
  <2>2. Read(s, d) = Res(t, <<>>, FALSE)
    BY <1>5 DEF Nothing
  <2> HIDE DEF t
  <2> QED BY <1>3, <2>1, <2>2, SMT DEF Becomes, Kept, Res
<1>6. CASE Read(s, d) = Failed(s, <<>>)
  BY <1>3, <1>6, FailedKept
<1>7. CASE \E out \in Seq(Replies) : \/ Read(s, d) = Res(s, out, TRUE)
                                     \/ Read(s, d) = Res(s, out, FALSE)
  <2> PICK out \in Seq(Replies) : Read(s, d) = Res(s, out, TRUE) \/ Read(s, d) = Res(s, out, FALSE)
    BY <1>7
  <2>1. CASE Read(s, d) = Res(s, out, TRUE)
    BY <2>1 DEF Kept, Res, Same, Becomes
  <2>2. CASE Read(s, d) = Res(s, out, FALSE)
    BY <2>2 DEF Kept, Res, Same, Becomes
  <2> QED BY <2>1, <2>2
<1>8. \/ Read(s, d) = Nothing([s EXCEPT !.mState = "Handshaking", !.expects = "hello",
                                        !.peer = d.j, !.key = Fresh])
      \/ Read(s, d) = Nothing([s EXCEPT !.mState = "Close"])
      \/ Read(s, d) = Failed(s, <<>>)
      \/ Read(s, d) = Res(s, Say(s, d.j, "verify"), FALSE)
      \/ Read(s, d) = Res(s, Say(s, d.j, "done"), FALSE)
      \/ Read(s, d) = Res(s, <<>>, TRUE)
      \/ Read(s, d) = Res(s, <<>>, FALSE)
  BY <1>1 DEF Read, Kinds, Nothing
<1> QED BY <1>2, <1>3, <1>4, <1>5, <1>6, <1>7, <1>8

LEMMA OutcomesKept ==
  ASSUME NEW s \in Sessions, NEW d \in Datagrams, NEW r \in Outcomes(s, d), Fresh \in Ids,
         Alive(s)
  PROVE  Kept(s, r)
BY HandshakeKept, ReadKept DEF Outcomes, Alive

\* HandleSessionChange and HandleJoinerFinalize.
LEMMA ProcessKept ==
  ASSUME Types, Single, NEW s \in Sessions, NEW d \in Datagrams, NEW r, Kept(s, r),
         Process(s, d, r), r.request => s \in mSessions /\ mDtlsSession = s.id
  PROVE  \E t \in Sessions :
           /\ mSessions' = (mSessions \ {s}) \cup {t}
           /\ t.id = s.id /\ t.opener = s.opener /\ t.psk = s.psk /\ t.mState = r.s.mState
           /\ t.key = r.s.key
           /\ s.own \/ r.out # <<>> => t.own
           /\ t.mState = "Ready" => t.key = s.key
           /\ t.mState = "Ready" =>
                \/ s.mState = "Ready" /\ mKek' = mKek /\ mDtlsSession' = mDtlsSession
                \/ mKek' = Exported(s) /\ mDtlsSession' = s.id
           /\ clientIn' \in Seq(Replies) /\ (clientIn # <<>> => clientIn' # <<>>)
           /\ {mDtlsSession', mKek'} \subseteq Ids \cup {0} /\ mNeedAppendKek' \in BOOLEAN
<1> DEFINE toReady == s.mState = "Handshaking" /\ r.s.mState = "Ready"
           toError == s.mState = "Ready" /\ r.s.mState = "Error"
           t == [r.s EXCEPT !.kek = IF toReady THEN Exported(s) ELSE @,
                            !.own = @ \/ r.out # <<>>]
           response == IF r.request /\ mDtlsSession # 0
                         THEN <<[j |-> d.j, kind |-> "rsp", key |-> KeyOf(mDtlsSession)]>> ELSE <<>>
<1>1. Exported(s) \in Ids \cup {0} /\ r.s \in Sessions
  BY DEF Exported, Sessions, Kept
<1>2. /\ t \in Sessions /\ t.id = s.id /\ t.opener = s.opener /\ t.psk = s.psk
      /\ t.mState = r.s.mState /\ t.key = r.s.key
  <2> HIDE DEF toReady
  <2> QED BY <1>1 DEF Sessions, Kept, Same
<1>3. s.own \/ r.out # <<>> => t.own
  BY <1>1 DEF Sessions, Kept, Same
<1>4. t.kek = IF toReady THEN Exported(s) ELSE r.s.kek
  BY <1>1 DEF Sessions
<1>5. /\ mSessions' = (mSessions \ {s}) \cup {t}
      /\ mKek' = IF toReady THEN t.kek ELSE mKek
      /\ mDtlsSession' = IF toReady THEN t.id ELSE IF toError THEN 0 ELSE mDtlsSession
      /\ mNeedAppendKek' = (mNeedAppendKek \/ r.request)
      /\ clientIn' = clientIn \o r.out \o response
  BY DEF Process
<1>6. response \in Seq(Replies)
  <2> DEFINE m == [j |-> d.j, kind |-> "rsp", key |-> KeyOf(mDtlsSession)]
  <2>1. ASSUME r.request
        PROVE  m \in Replies
    <3>1. KeyOf(mDtlsSession) = s.key
      BY <2>1 DEF KeyOf, Single
    <3> QED BY <3>1 DEF Datagrams, Replies, Kinds2, Sessions
  <2>2. response = <<>> \/ (r.request /\ response = <<m>>)
    OBVIOUS
  <2> HIDE DEF m, response
  <2>3. <<>> \in Seq(Replies) /\ (r.request => <<m>> \in Seq(Replies))
    BY <2>1
  <2> QED BY <2>2, <2>3
<1> HIDE DEF t, response
<1>7. clientIn' \in Seq(Replies) /\ (clientIn # <<>> => clientIn' # <<>>)
  <2>1. clientIn \in Seq(Replies) /\ r.out \in Seq(Replies)
    BY DEF Types, TypeOK, Kept
  <2>2. clientIn \o r.out \in Seq(Replies) /\ Len(clientIn \o r.out) = Len(clientIn) + Len(r.out)
    BY <2>1, ConcatProperties
  <2>3. clientIn' \in Seq(Replies) /\ Len(clientIn') = Len(clientIn \o r.out) + Len(response)
    BY <1>5, <1>6, <2>2, ConcatProperties
  <2> QED BY <1>6, <2>1, <2>2, <2>3
<1>8. {mDtlsSession', mKek'} \subseteq Ids \cup {0} /\ mNeedAppendKek' \in BOOLEAN
  BY <1>1, <1>2, <1>4, <1>5 DEF Types, TypeOK, Sessions, Kept
<1>9. t.mState = "Ready" =>
        \/ s.mState = "Ready" /\ mKek' = mKek /\ mDtlsSession' = mDtlsSession
        \/ mKek' = Exported(s) /\ mDtlsSession' = s.id
  BY <1>2, <1>4, <1>5 DEF Kept, Becomes
<1>10. t.mState = "Ready" => t.key = s.key
  BY <1>2 DEF Kept, Becomes
<1> QED BY <1>2, <1>3, <1>5, <1>7, <1>8, <1>9, <1>10

-----------------------------------------------------------------------------
(* The parts of a round.                                                   *)

Fds == {Server, Leader, Client} \cup ({"session"} \X Ids)

LEMMA Stations ==
  ASSUME NEW fds \in SUBSET Fds
  PROVE  /\ Station(fds) \in {"select", "sessions", "server", "read", "deliver"}
         /\ Station(fds) = "select" => fds = {}
         /\ Station(fds) = "server" =>
              Server \in fds /\ \A s \in Sessions : Own(s) \notin fds
         /\ Station(fds) = "read" => Leader \in fds /\ fds \subseteq {Leader, Client}
         /\ Station(fds) = "deliver" => fds = {Client}
         /\ fds \subseteq {Client} => Station(fds) \in {"select", "deliver"}
         /\ fds = {} => Station(fds) = "select"
<1>1. /\ \A f \in fds : f[1] = "session" \/ f \in {Server, Leader, Client}
      /\ \A s \in Sessions : Own(s)[1] = "session"
      /\ Server[1] = "server" /\ Leader[1] = "leader" /\ Client[1] = "client"
  BY DEF Fds, Own, Server, Leader, Client
<1>2. CASE \E f \in fds : f[1] = "session"
  <2>1. Station(fds) = "sessions" /\ fds # {} /\ ~(fds \subseteq {Client})
    BY <1>1, <1>2 DEF Station
  <2> QED BY <2>1
<1>3. CASE ~\E f \in fds : f[1] = "session"
  <2>1. fds \subseteq {Server, Leader, Client}
    BY <1>1, <1>3
  <2>2. CASE Server \in fds
    <3>1. Station(fds) = "server" /\ ~(fds \subseteq {Client}) /\ fds # {}
      BY <1>1, <1>3, <2>2 DEF Station
    <3> QED BY <1>1, <1>3, <2>2, <3>1
  <2>3. CASE Server \notin fds /\ Leader \in fds
    <3>1. Station(fds) = "read" /\ ~(fds \subseteq {Client}) /\ fds # {}
      BY <1>1, <1>3, <2>1, <2>3 DEF Station
    <3> QED BY <2>1, <2>3, <3>1
  <2>4. CASE Server \notin fds /\ Leader \notin fds /\ Client \in fds
    <3>1. fds = {Client}
      BY <2>1, <2>4
    <3>2. Station(fds) = "deliver"
      BY <1>1, <1>3, <3>1 DEF Station
    <3> QED BY <3>1, <3>2
  <2>5. CASE fds = {}
    <3>1. Station(fds) = "select"
      BY <2>5 DEF Station
    <3> QED BY <2>5, <3>1
  <2> QED BY <2>1, <2>2, <2>3, <2>4, <2>5
<1> QED BY <1>2, <1>3

LEMMA Where ==
  ASSUME Types, Reported
  PROVE  /\ at = "select" => ready = {}
         /\ at = "server" => Server \in ready /\ \A s \in Sessions : Own(s) \notin ready
         /\ at = "read" => Leader \in ready /\ ready \subseteq {Leader, Client}
         /\ at = "deliver" => ready = {Client}
<1>1. ready \in SUBSET Fds /\ at = Station(ready)
  BY DEF Types, TypeOK, Fds, Reported
<1> QED BY <1>1, Stations

LEMMA DoneTyped ==
  ASSUME Types, NEW f, Done(f)
  PROVE  /\ at' = Station(ready') /\ ready' = ready \ {f} /\ ready' \in SUBSET Fds
         /\ at' \in {"select", "sessions", "server", "read", "deliver"}
<1>1. ready' = ready \ {f} /\ at' = Station(ready')
  BY DEF Done
<1>2. ready' \in SUBSET Fds
  BY <1>1 DEF Types, TypeOK, Fds
<1> QED BY <1>1, <1>2, Stations

LEMMA SetToSeqTyped ==
  ASSUME NEW S, IsFiniteSet(S)
  PROVE  SetToSeq(S) \in Seq(S)
<1>1. Cardinality(S) \in Nat /\ ExistsBijection(1 .. Cardinality(S), S)
  BY FS_CardinalityType
<1>2. \E f \in [1 .. Cardinality(S) -> S] : IsInjective(f)
  BY <1>1 DEF ExistsBijection, Bijection, Injection, IsInjective
<1>3. SetToSeq(S) \in [1 .. Cardinality(S) -> S]
  BY <1>2 DEF SetToSeq
<1> QED BY <1>1, <1>3

LEMMA CloseNotifyTyped ==
  ASSUME Types, Single, NEW gone \in SUBSET mSessions
  PROVE  CloseNotify(gone) \in Seq(Replies)
<1> DEFINE X == {[j |-> s.peer, kind |-> "alert", key |-> 0] : s \in Closing(gone)}
<1>1. X \subseteq Replies
  BY DEF Closing, Types, TypeOK, Sessions, Replies, Kinds2
<1>2. IsFiniteSet(X)
  <2>1. CASE Closing(gone) = {}
    <3>1. X = {}
      BY <2>1
    <3> QED BY <3>1, FS_EmptySet
  <2>2. CASE Closing(gone) # {}
    <3>1. PICK s \in Closing(gone) : TRUE
      BY <2>2
    <3>2. X = {[j |-> s.peer, kind |-> "alert", key |-> 0]}
      BY <3>1 DEF Single, Closing
    <3> HIDE DEF X
    <3> QED BY <3>2, FS_Singleton
  <2> QED BY <2>1, <2>2
<1>3. CloseNotify(gone) = SetToSeq(X)
  BY DEF CloseNotify
<1> HIDE DEF X
<1>4. SetToSeq(X) \in Seq(X)
  BY <1>2, SetToSeqTyped
<1> QED BY <1>1, <1>3, <1>4

\* The types of the Commissioner's state and of what is outside.
LoopTypes ==
  /\ at \in {"select", "sessions", "server", "read", "deliver"}
  /\ ready \subseteq {Server, Leader, Client} \cup ({"session"} \X Ids)
  /\ mJoinerIid \in Joiners \cup {NoJoiner}
  /\ {served, mSocket} \subseteq BOOLEAN /\ mPSK \in Joiners \cup {Default}
  /\ mSessions \subseteq Sessions
  /\ {exporter, mDtlsSession, mKek} \subseteq Ids \cup {0}
  /\ mNeedAppendKek \in BOOLEAN
  /\ serverIn \in Seq(Datagrams) /\ clientIn \in Seq(Replies)
  /\ halt \in {"no", "blocked", "null"} /\ crossed \in BOOLEAN

OutsideTypes ==
  /\ rx \in Seq(Datagrams) /\ tx \in Seq(Messages)
  /\ jpc \in [Joiners -> {"idle", "hello", "cookie", "key", "fin", "joined", "gone"}]
  /\ jkey \in [Joiners -> Ids \cup {0}] /\ entrusted \in [Joiners -> Ids \cup {0}]
  /\ faults \in 0 .. MaxFaults /\ disturbed \in BOOLEAN

LEMMA TypesParts ==
  /\ Types <=> LoopTypes /\ OutsideTypes
  /\ Types' <=> LoopTypes' /\ OutsideTypes'
<1>1. ASSUME tx \in Seq(Messages)
      PROVE  \A i \in DOMAIN tx : tx[i].reply \in Replies /\ tx[i].to \in Joiners \cup {NoJoiner}
  <2>1. \A i \in DOMAIN tx : tx[i] \in Messages
    BY <1>1
  <2> QED BY <2>1 DEF Messages
<1>2. Types <=> LoopTypes /\ OutsideTypes
  BY <1>1 DEF Types, TypeOK, LoopTypes, OutsideTypes
<1> QED BY <1>2, PTL

-----------------------------------------------------------------------------
(* The steps of a round keep the invariant.                                *)

LEMMA UpdateFdSetKeeps ==
  ASSUME IndInv, halt = "no", UpdateFdSet
  PROVE  IndInv'
<1>1. PICK expired \in SUBSET {s \in mSessions : Alive(s)} :
        LET gone == {s \in mSessions : ~Alive(s)} \cup expired
            left == mSessions \ gone
        IN /\ mSessions' = left
           /\ clientIn' = clientIn \o CloseNotify(gone)
           /\ mDtlsSession' = IF Closing(gone) = {} THEN mDtlsSession ELSE 0
           /\ ready' = {Own(s) : s \in {t \in left : t.in # <<>>}}
                       \cup (IF serverIn # <<>> THEN {Server} ELSE {})
                       \cup (IF rx # <<>> THEN {Leader} ELSE {})
                       \cup (IF clientIn' # <<>> THEN {Client} ELSE {})
           /\ at' = Station(ready')
           /\ \/ faults < MaxFaults /\ faults' = faults + 1 /\ disturbed' = TRUE
              \/ UNCHANGED <<faults, disturbed>>
  BY DEF UpdateFdSet
<1> DEFINE gone == {s \in mSessions : ~Alive(s)} \cup expired
           left == mSessions \ gone
<1>2. /\ gone \in SUBSET mSessions /\ left \subseteq mSessions /\ \A s \in left : Alive(s)
      /\ mSessions' = left /\ clientIn' = clientIn \o CloseNotify(gone)
      /\ mDtlsSession' = IF Closing(gone) = {} THEN mDtlsSession ELSE 0
  BY <1>1
<1>3. \A s \in left : s.own /\ s.mState # "Error"
  BY <1>2 DEF IndInv, Answered, Alive
<1>4. /\ \A f \in ready' : \/ \E s \in left : f = Own(s) /\ s.in # <<>>
                           \/ f = Server /\ serverIn # <<>>
                           \/ f = Leader /\ rx # <<>>
                           \/ f = Client /\ clientIn' # <<>>
      /\ serverIn # <<>> => Server \in ready'
  BY <1>1
<1>5. at = "select" /\ ready = {}
  BY Where DEF IndInv, UpdateFdSet
<1>6. UNCHANGED <<mJoinerIid, served, mPSK, mSocket, exporter, mKek, mNeedAppendKek, serverIn,
                  rx, tx, jpc, jkey, entrusted, halt, crossed>>
  BY DEF UpdateFdSet
<1> HIDE DEF gone, left
<1>7. ready' \in SUBSET Fds
  <2>1. \A s \in left : Own(s) \in {"session"} \X Ids
    BY <1>2 DEF Own, IndInv, Types, TypeOK, Sessions
  <2> QED BY <1>4, <2>1 DEF Fds
<1>8. Types'
  <2>1. clientIn' \in Seq(Replies)
    BY <1>2, CloseNotifyTyped, ConcatProperties DEF IndInv, Types, TypeOK
  <2>2. at' \in {"select", "sessions", "server", "read", "deliver"}
    BY <1>1, <1>7, Stations
  <2>3. mSessions' \subseteq Sessions
    BY <1>2 DEF IndInv, Types, TypeOK
  <2>4. mDtlsSession' \in Ids \cup {0}
    BY <1>2 DEF IndInv, Types, TypeOK
  <2>5. faults' \in 0 .. MaxFaults /\ disturbed' \in BOOLEAN
    <3>1. faults \in 0 .. MaxFaults /\ disturbed \in BOOLEAN /\ MaxFaults \in Nat
      BY RelayAssumption DEF IndInv, Types, TypeOK
    <3>2. CASE faults < MaxFaults /\ faults' = faults + 1 /\ disturbed' = TRUE
      BY <3>1, <3>2
    <3>3. CASE UNCHANGED <<faults, disturbed>>
      BY <3>1, <3>3
    <3> QED BY <1>1, <3>2, <3>3
  <2>6. ready' \subseteq {Server, Leader, Client} \cup ({"session"} \X Ids)
    BY <1>7 DEF Fds
  <2> QED BY <1>6, <2>1, <2>2, <2>3, <2>4, <2>5, <2>6 DEF IndInv, Types, TypeOK
<1>9. Single'
  BY <1>2 DEF IndInv, Single
<1>10. /\ \A s \in Sessions : Own(s) # Server /\ Own(s) # Leader /\ Own(s) # Client
       /\ Server # Leader /\ Server # Client /\ Leader # Client
  BY DEF Own, Server, Leader, Client
<1>11. left \subseteq Sessions /\ rx' = rx /\ serverIn' = serverIn
  BY <1>2, <1>6 DEF IndInv, Types, TypeOK
<1>12. Reported'
  <2>1. Leader \in ready' => rx' # <<>>
    BY <1>4, <1>10, <1>11
  <2>2. Client \in ready' => clientIn' # <<>>
    BY <1>4, <1>10, <1>11
  <2>3. \A s \in left : Own(s) \in ready' => s.own /\ s.in # <<>> /\ Alive(s)
    <3> SUFFICES ASSUME NEW s \in left, Own(s) \in ready'
                 PROVE  s.in # <<>>
      BY <1>2, <1>3
    <3>1. PICK t \in left : t.in # <<>>
      BY <1>4, <1>10, <1>11
    <3> QED BY <1>2, <3>1 DEF IndInv, Single
  <2> QED BY <1>1, <1>2, <2>1, <2>2, <2>3 DEF Reported
<1>13. Current'
  <2>1. left # {} => Closing(gone) = {}
    BY <1>2, <1>3 DEF IndInv, Single, Closing, left
  <2> QED BY <1>2, <1>6, <2>1 DEF IndInv, Current
<1>14. Answered'
  BY <1>2, <1>3 DEF Answered
<1>15. Opening'
  <2> SUFFICES ASSUME serverIn # <<>>
               PROVE  Opening'
    BY <1>11 DEF Opening
  <2>1. left = {}
    BY <1>2, <1>3, <1>5 DEF IndInv, Opening
  <2> QED BY <1>2, <1>4, <1>6, <2>1 DEF IndInv, Opening
<1>16. Served'
  BY <1>4, <1>6, <1>10, <1>11 DEF IndInv, Served
<1>17. PskOfOpener'
  BY <1>2 DEF IndInv, PskOfOpener
<1> QED BY <1>8, <1>9, <1>12, <1>13, <1>14, <1>15, <1>16, <1>17 DEF IndInv

LEMMA SessionProcessKeeps ==
  ASSUME IsFiniteSet(Joiners), ~IsFiniteSet(Ids), IndInv, halt = "no", SessionProcess
  PROVE  IndInv'
<1>1. PICK s \in mSessions :
        /\ Own(s) \in ready /\ Done(Own(s))
        /\ \E r \in Outcomes([s EXCEPT !.in = Tail(@)], Head(s.in)) : Process(s, Head(s.in), r)
  BY DEF SessionProcess
<1>2. /\ at = "sessions"
      /\ UNCHANGED <<mJoinerIid, served, mPSK, mSocket, exporter, serverIn, rx, tx, envVars,
                     halt, disturbed, crossed>>
  BY DEF SessionProcess
<1>3. s \in Sessions /\ s.own /\ s.in # <<>> /\ Alive(s) /\ Types
  BY <1>1 DEF IndInv, Types, TypeOK, Reported
<1> DEFINE d == Head(s.in)
           u == [s EXCEPT !.in = Tail(@)]
<1>4. d \in Datagrams /\ Tail(s.in) \in Seq(Datagrams)
  <2>1. s.in \in Seq(Datagrams)
    BY <1>3 DEF Sessions
  <2> QED BY <1>3, <2>1, HeadTailProperties
<1>5. /\ u \in Sessions /\ Same(s, u) /\ u.mState = s.mState /\ u.expects = s.expects
      /\ u.key = s.key
  BY <1>3, <1>4 DEF Sessions, Same
<1>6. PICK r \in Outcomes(u, d) : Process(s, d, r)
  BY <1>1
<1> HIDE DEF d, u
<1>7. Kept(s, r)
  <2>1. Kept(u, r)
    BY <1>3, <1>4, <1>5, <1>6, OutcomesKept, IdFree DEF IndInv, Alive
  <2> QED BY <1>5, <2>1 DEF Kept, Same, Becomes
<1>8. PICK t \in Sessions :
        /\ mSessions' = (mSessions \ {s}) \cup {t}
        /\ t.id = s.id /\ t.opener = s.opener /\ t.psk = s.psk /\ t.mState = r.s.mState
        /\ s.own \/ r.out # <<>> => t.own
        /\ t.mState = "Ready" => t.key = s.key
        /\ t.mState = "Ready" =>
             \/ s.mState = "Ready" /\ mKek' = mKek /\ mDtlsSession' = mDtlsSession
             \/ mKek' = Exported(s) /\ mDtlsSession' = s.id
        /\ clientIn' \in Seq(Replies) /\ (clientIn # <<>> => clientIn' # <<>>)
        /\ {mDtlsSession', mKek'} \subseteq Ids \cup {0} /\ mNeedAppendKek' \in BOOLEAN
  <2>1. r.request => s \in mSessions /\ mDtlsSession = s.id
    BY <1>1, <1>7 DEF Kept, IndInv, Current
  <2> QED BY <1>3, <1>4, <1>6, <1>7, <2>1, ProcessKept DEF IndInv
<1>9. mSessions' = {t}
  BY <1>1, <1>8 DEF IndInv, Single
<1>10. at' = Station(ready') /\ ready' = ready \ {Own(s)} /\ ready' \in SUBSET Fds
       /\ at' \in {"select", "sessions", "server", "read", "deliver"}
  BY <1>1, <1>3, DoneTyped
<1>11. Types'
  <2>1. ready' \subseteq {Server, Leader, Client} \cup ({"session"} \X Ids)
    BY <1>10 DEF Fds
  <2> QED BY <1>2, <1>8, <1>9, <1>10, <2>1 DEF IndInv, Types, TypeOK, envVars
<1>12. Reported'
  <2>1. Own(t) \notin ready'
    BY <1>8, <1>10 DEF Own
  <2> QED BY <1>2, <1>8, <1>9, <1>10, <2>1 DEF IndInv, Reported
<1>13. Single' /\ PskOfOpener'
  BY <1>1, <1>8, <1>9 DEF IndInv, Single, PskOfOpener
<1>14. Current'
  BY <1>1, <1>2, <1>8, <1>9 DEF IndInv, Current, Exported
<1>15. Answered'
  BY <1>3, <1>8, <1>9 DEF Answered
<1>16. serverIn = <<>>
  BY <1>1, <1>2 DEF IndInv, Opening
<1>17. Opening'
  BY <1>2, <1>16 DEF Opening
<1>18. Served'
  BY <1>2, <1>10, <1>16 DEF IndInv, Served
<1> QED BY <1>11, <1>12, <1>13, <1>14, <1>15, <1>17, <1>18 DEF IndInv

LEMMA ServerAcceptsKeeps ==
  ASSUME IsFiniteSet(Joiners), ~IsFiniteSet(Ids), IndInv, halt = "no", ServerAccepts
  PROVE  IndInv'
<1> DEFINE id == Fresh
           d  == Head(serverIn)
           s  == NewSession(id, d)
<1>1. /\ at = "server" /\ Done(Server)
      /\ serverIn' = Tail(serverIn) /\ exporter' = id
      /\ \/ /\ Blocks(d) /\ halt' = "blocked" /\ mSessions' = mSessions \cup {s}
            /\ UNCHANGED <<kekVars, clientIn>>
         \/ /\ ~Blocks(d) /\ UNCHANGED halt
            /\ \E r \in Handshake(s, d) : Process(s, d, r)
      /\ UNCHANGED <<mJoinerIid, served, mPSK, mSocket, rx, tx, envVars, disturbed, crossed>>
  BY DEF ServerAccepts
<1>2. Types /\ Server \in ready /\ \A q \in Sessions : Own(q) \notin ready
  BY <1>1, Where DEF IndInv
<1>3. serverIn # <<>> /\ serverIn \in Seq(Datagrams)
  BY <1>2 DEF IndInv, Served, Types, TypeOK
<1>4. mSessions = {} /\ Len(serverIn) = 1 /\ (d.j \in Listed => mPSK = d.j)
  BY <1>1, <1>3 DEF IndInv, Opening
<1>5. d \in Datagrams /\ serverIn' = <<>>
  <2>1. Tail(serverIn) \in Seq(Datagrams) /\ Len(Tail(serverIn)) = 0 /\ d \in Datagrams
    BY <1>3, <1>4, HeadTailProperties
  <2> QED BY <1>1, <2>1
<1>6. id \in Ids
  BY <1>2, IdFree DEF IndInv
<1> HIDE DEF id, d
<1>7. /\ s \in Sessions /\ s.id = id /\ s.opener = d.j /\ s.psk = mPSK
      /\ s.mState = "Handshaking" /\ s.expects = "hello"
  <2>1. <<>> \in Seq(Datagrams)
    OBVIOUS
  <2> QED BY <1>2, <1>5, <1>6, <2>1 DEF NewSession, Sessions, Datagrams, Types, TypeOK
<1> HIDE DEF s
<1>8. at' = Station(ready') /\ ready' = ready \ {Server} /\ ready' \in SUBSET Fds
      /\ at' \in {"select", "sessions", "server", "read", "deliver"}
  BY <1>1, <1>2, DoneTyped
<1>9. /\ clientIn' \in Seq(Replies) /\ (clientIn # <<>> => clientIn' # <<>>)
      /\ {mDtlsSession', mKek'} \subseteq Ids \cup {0} /\ mNeedAppendKek' \in BOOLEAN
      /\ halt' \in {"no", "blocked", "null"}
      /\ \E t \in Sessions :
           /\ mSessions' = {t} /\ t.id = id /\ t.opener = d.j /\ t.psk = mPSK
           /\ t.mState # "Ready" /\ (halt' = "no" => t.own \/ t.mState = "Error")
  <2>1. CASE Blocks(d) /\ halt' = "blocked" /\ mSessions' = mSessions \cup {s}
             /\ UNCHANGED <<kekVars, clientIn>>
    <3>1. mSessions' = {s}
      BY <1>4, <2>1
    <3> QED BY <1>2, <1>7, <2>1, <3>1 DEF Types, TypeOK, kekVars
  <2>2. CASE ~Blocks(d) /\ UNCHANGED halt /\ \E r \in Handshake(s, d) : Process(s, d, r)
    <3>1. PICK r \in Handshake(s, d) : Process(s, d, r)
      BY <2>2
    <3>2. Kept(s, r) /\ r.s.mState # "Ready" /\ (r.out # <<>> \/ r.s.mState = "Error")
          /\ ~r.request /\ Single
      BY <1>5, <1>7, <2>2, <3>1, HandshakeKept DEF Kept, IndInv
    <3>3. PICK t \in Sessions :
            /\ mSessions' = (mSessions \ {s}) \cup {t}
            /\ t.id = s.id /\ t.opener = s.opener /\ t.psk = s.psk /\ t.mState = r.s.mState
            /\ s.own \/ r.out # <<>> => t.own
            /\ clientIn' \in Seq(Replies) /\ (clientIn # <<>> => clientIn' # <<>>)
            /\ {mDtlsSession', mKek'} \subseteq Ids \cup {0} /\ mNeedAppendKek' \in BOOLEAN
      BY <1>2, <1>5, <1>7, <3>1, <3>2, ProcessKept
    <3>4. mSessions' = {t}
      BY <1>4, <3>3
    <3> QED BY <1>2, <1>7, <2>2, <3>2, <3>3, <3>4 DEF Types, TypeOK
  <2> QED BY <1>1, <2>1, <2>2
<1>10. PICK t \in Sessions :
         /\ mSessions' = {t} /\ t.id = id /\ t.opener = d.j /\ t.psk = mPSK
         /\ t.mState # "Ready" /\ (halt' = "no" => t.own \/ t.mState = "Error")
  BY <1>9
<1>11. Types'
  <2>1. ready' \subseteq {Server, Leader, Client} \cup ({"session"} \X Ids)
    BY <1>8 DEF Fds
  <2>2. serverIn' \in Seq(Datagrams) /\ mSessions' \subseteq Sessions /\ exporter' \in Ids
    <3>1. <<>> \in Seq(Datagrams) /\ exporter' = id
      BY <1>1
    <3> QED BY <1>5, <1>6, <1>10, <3>1
  <2>3. OutsideTypes'
    BY <1>1, <1>2, TypesParts DEF OutsideTypes, envVars
  <2>4. LoopTypes'
    BY <1>1, <1>2, <1>8, <1>9, <2>1, <2>2, TypesParts DEF LoopTypes
  <2> QED BY <2>3, <2>4, TypesParts
<1>12. Reported'
  <2>1. Own(t) \notin ready'
    BY <1>2, <1>8, <1>10
  <2> QED BY <1>1, <1>8, <1>9, <1>10, <2>1 DEF IndInv, Reported
<1>13. Single' /\ Current' /\ Answered'
  BY <1>1, <1>10 DEF Single, Current, Answered
<1>14. PskOfOpener'
  BY <1>4, <1>10 DEF PskOfOpener
<1>15. Opening' /\ Served'
  BY <1>1, <1>5, <1>8 DEF IndInv, Opening, Served
<1> QED BY <1>11, <1>12, <1>13, <1>14, <1>15 DEF IndInv

LEMMA RelayReceiveKeeps ==
  ASSUME IndInv, halt = "no", HandleRelayReceive
  PROVE  IndInv'
<1> DEFINE d == Head(rx)
<1>1. /\ at = "read" /\ Done(Leader) /\ rx' = Tail(rx)
      /\ UNCHANGED <<served, mSocket, exporter, kekVars, clientIn, tx, envVars, disturbed>>
  BY DEF HandleRelayReceive
<1>2. Types /\ Leader \in ready /\ ready \subseteq {Leader, Client}
  BY <1>1, Where DEF IndInv
<1>3. rx # <<>> /\ rx \in Seq(Datagrams)
  BY <1>2 DEF IndInv, Reported, Types, TypeOK
<1>4. d \in Datagrams /\ rx' \in Seq(Datagrams)
  BY <1>1, <1>3, HeadTailProperties
<1>5. Server \notin ready /\ Leader \notin {Client} /\ \A s \in Sessions : Own(s) \notin ready
  BY <1>2 DEF Server, Leader, Client, Own
<1>6. serverIn = <<>>
  BY <1>1, <1>5 DEF IndInv, Opening
<1>7. at' = Station(ready') /\ ready' = ready \ {Leader} /\ ready' \in SUBSET Fds
      /\ at' \in {"select", "deliver"}
  <2>1. at' = Station(ready') /\ ready' = ready \ {Leader} /\ ready' \in SUBSET Fds
    BY <1>1, <1>2, DoneTyped
  <2> QED BY <1>2, <2>1, Stations
<1> HIDE DEF d
<1>8. /\ mJoinerIid' \in Joiners \cup {NoJoiner} /\ mPSK' \in Joiners \cup {Default}
      /\ crossed' \in BOOLEAN /\ halt' \in {"no", "null"}
      /\ serverIn' # <<>> =>
           serverIn' = <<d>> /\ mSocket /\ (d.j \in Listed => mPSK' = d.j)
           /\ \A s \in mSessions : ~s.own
      /\ \/ mSessions' = mSessions /\ serverIn' \in {<<>>, <<d>>}
         \/ /\ serverIn' = <<>>
            /\ \E s \in mSessions :
                 mSessions' = (mSessions \ {s}) \cup {[s EXCEPT !.in = Append(@, d)]}
  <2>1. CASE /\ Demux(d) /\ mJoinerIid' = d.j /\ FindEui(d.j)
             /\ crossed' = (crossed \/ /\ mJoinerIid # d.j
                                       /\ clientIn # <<>> \/ mNeedAppendKek)
    <3>1. d.j \in Joiners /\ (mSocket => served)
      BY <1>4 DEF Datagrams, IndInv, Served
    <3>2. mPSK' \in Joiners \cup {Default} /\ halt' \in {"no", "null"}
          /\ (mSocket /\ d.j \in Listed => mPSK' = d.j)
      BY <1>2, <2>1, <3>1 DEF FindEui, SetPSK, Types, TypeOK
    <3>3. CASE {s \in mSessions : s.own} # {}
      BY <1>6, <2>1, <3>1, <3>2, <3>3 DEF Demux
    <3>4. CASE {s \in mSessions : s.own} = {}
      <4>1. mSessions' = mSessions /\ serverIn' = IF mSocket THEN <<d>> ELSE <<>>
        BY <1>4, <1>6, <2>1, <3>4 DEF Demux
      <4> QED BY <2>1, <3>1, <3>2, <3>4, <4>1
    <3> QED BY <3>3, <3>4
  <2>2. CASE UNCHANGED <<mJoinerIid, mPSK, mSessions, serverIn, halt, crossed>>
    BY <1>2, <1>6, <2>2 DEF Types, TypeOK
  <2> QED BY <2>1, <2>2 DEF HandleRelayReceive, d
<1>9. /\ mSessions' \subseteq Sessions /\ \A s, t \in mSessions' : s = t
      /\ \A t \in mSessions' : \E s \in mSessions :
           /\ t.id = s.id /\ t.opener = s.opener /\ t.psk = s.psk /\ t.own = s.own
           /\ t.mState = s.mState /\ t.key = s.key
  <2>1. CASE mSessions' = mSessions
    BY <1>2, <2>1 DEF IndInv, Single, Types, TypeOK
  <2>2. CASE \E s \in mSessions :
               mSessions' = (mSessions \ {s}) \cup {[s EXCEPT !.in = Append(@, d)]}
    <3>1. PICK s \in mSessions :
            mSessions' = (mSessions \ {s}) \cup {[s EXCEPT !.in = Append(@, d)]}
      BY <2>2
    <3> DEFINE t == [s EXCEPT !.in = Append(@, d)]
    <3>2. s \in Sessions
      BY <1>2 DEF Types, TypeOK
    <3>3. Append(s.in, d) \in Seq(Datagrams)
      BY <1>4, <3>2, AppendProperties DEF Sessions
    <3>4. /\ t \in Sessions /\ t.id = s.id /\ t.opener = s.opener /\ t.psk = s.psk
          /\ t.own = s.own /\ t.mState = s.mState /\ t.key = s.key
      BY <3>2, <3>3 DEF Sessions
    <3>5. mSessions' = {t}
      BY <3>1 DEF IndInv, Single
    <3> HIDE DEF t
    <3> QED BY <3>4, <3>5
  <2> QED BY <1>8, <2>1, <2>2
<1>10. Types'
  <2>1. ready' \subseteq {Server, Leader, Client} \cup ({"session"} \X Ids)
    BY <1>7 DEF Fds
  <2>2. serverIn' \in Seq(Datagrams)
    <3>1. <<>> \in Seq(Datagrams) /\ <<d>> \in Seq(Datagrams)
      BY <1>4
    <3>2. serverIn' = <<>> \/ serverIn' = <<d>>
      BY <1>8
    <3> QED BY <3>1, <3>2
  <2>3. OutsideTypes'
    BY <1>1, <1>2, <1>4, TypesParts DEF OutsideTypes, envVars
  <2>4. mSessions' \subseteq Sessions
    BY <1>9
  <2>5. LoopTypes'
    BY <1>1, <1>2, <1>7, <1>8, <2>1, <2>2, <2>4, TypesParts DEF LoopTypes, kekVars
  <2> QED BY <2>3, <2>5, TypesParts
<1>11. Reported'
  <2>1. \A t \in mSessions' : Own(t) \notin ready'
    BY <1>5, <1>7, <1>9
  <2>2. Leader \notin ready'
    BY <1>7
  <2> QED BY <1>1, <1>7, <2>1, <2>2 DEF IndInv, Reported
<1>12. Single'
  BY <1>9 DEF Single
<1>13. Current'
  BY <1>1, <1>9 DEF IndInv, Current, kekVars
<1>14. Answered' /\ PskOfOpener'
  BY <1>9 DEF IndInv, Answered, PskOfOpener
<1>15. Opening'
  <2> SUFFICES ASSUME serverIn' # <<>>
               PROVE  Opening'
    BY DEF Opening
  <2>1. serverIn' = <<d>> /\ mSocket /\ (d.j \in Listed => mPSK' = d.j)
        /\ \A s \in mSessions : ~s.own
    BY <1>8
  <2>2. \A s \in mSessions : s.mState = "Error"
    BY <2>1 DEF IndInv, Answered
  <2>3. \A t \in mSessions' : ~t.own /\ t.mState = "Error"
    BY <1>9, <2>1, <2>2
  <2>4. Len(serverIn') = 1 /\ Head(serverIn') = d
    BY <2>1
  <2> QED BY <1>1, <1>7, <2>1, <2>3, <2>4 DEF Opening
<1>16. Served'
  BY <1>1, <1>5, <1>7 DEF IndInv, Served
<1> QED BY <1>10, <1>11, <1>12, <1>13, <1>14, <1>15, <1>16 DEF IndInv

LEMMA RelayTransmitKeeps ==
  ASSUME IndInv, halt = "no", SendRelayTransmit
  PROVE  IndInv'
<1>1. /\ at = "deliver" /\ Done(Client)
      /\ tx' = Append(tx, RelayTransmit(Head(clientIn))) /\ clientIn' = Tail(clientIn)
      /\ mNeedAppendKek' = FALSE /\ crossed' = (crossed /\ clientIn' # <<>>)
      /\ UNCHANGED <<mJoinerIid, served, serverVars, mDtlsSession, mKek, rx, envVars,
                     halt, disturbed>>
  BY DEF SendRelayTransmit
<1>2. Types /\ ready = {Client} /\ Client # Server
  BY <1>1, Where DEF IndInv, Client, Server
<1>3. clientIn # <<>> /\ clientIn \in Seq(Replies)
  BY <1>2 DEF IndInv, Reported, Types, TypeOK
<1>4. Head(clientIn) \in Replies /\ clientIn' \in Seq(Replies)
  BY <1>1, <1>3, HeadTailProperties
<1>5. RelayTransmit(Head(clientIn)) \in Messages
  BY <1>2, <1>4 DEF RelayTransmit, Messages, Types, TypeOK
<1>6. tx' \in Seq(Messages)
  BY <1>1, <1>2, <1>5, AppendProperties DEF Types
<1>7. at' = Station(ready') /\ ready' = {} /\ at' = "select"
  <2>1. at' = Station(ready') /\ ready' = {}
    BY <1>1, <1>2, DoneTyped
  <2> QED BY <2>1, Stations
<1>8. Types'
  <2>1. \A i \in DOMAIN tx' : tx'[i] \in Messages
    BY <1>6
  <2>2. \A i \in DOMAIN tx' : tx'[i].reply \in Replies /\ tx'[i].to \in Joiners \cup {NoJoiner}
    BY <2>1 DEF Messages
  <2> QED BY <1>1, <1>2, <1>4, <1>6, <1>7, <2>2 DEF Types, TypeOK, serverVars, envVars
<1>9. Reported' /\ Single' /\ Answered' /\ PskOfOpener' /\ Served'
  BY <1>1, <1>7 DEF IndInv, Reported, Single, Answered, PskOfOpener, Served, serverVars
<1>10. Current'
  BY <1>1 DEF IndInv, Current, serverVars
<1>11. Opening'
  BY <1>1, <1>2, <1>7 DEF IndInv, Opening, serverVars
<1> QED BY <1>8, <1>9, <1>10, <1>11 DEF IndInv

-----------------------------------------------------------------------------
(* The list, the network and the joiners.                                  *)

LEMMA OutsideKeeps ==
  ASSUME IndInv, at = "select", UNCHANGED loopVars, OutsideTypes'
  PROVE  IndInv'
<1>1. ready = {}
  BY Where DEF IndInv
<1>2. UNCHANGED <<at, ready, mJoinerIid, served, mPSK, mSocket, mSessions, exporter, serverIn,
                  mDtlsSession, mKek, mNeedAppendKek, clientIn, halt, crossed>>
  BY DEF loopVars, serverVars, kekVars
<1>3. LoopTypes'
  BY <1>2, TypesParts DEF IndInv, LoopTypes
<1>4. Types'
  BY <1>3, TypesParts
<1>5. Reported' /\ Single' /\ Current' /\ Answered' /\ Opening' /\ Served' /\ PskOfOpener'
  BY <1>1, <1>2 DEF IndInv, Reported, Single, Current, Answered, Opening, Served, PskOfOpener
<1> QED BY <1>4, <1>5 DEF IndInv

LEMMA SetJoinerKeeps ==
  ASSUME IndInv, SetJoiner
  PROVE  IndInv'
<1>1. /\ at = "select" /\ ~served /\ served' = TRUE /\ mSocket' \in BOOLEAN
      /\ \/ UNCHANGED <<faults, disturbed>>
         \/ faults < MaxFaults /\ faults' = faults + 1 /\ disturbed' = TRUE
      /\ UNCHANGED <<at, ready, mJoinerIid, mPSK, mSessions, exporter, serverIn, kekVars,
                     clientIn, rx, tx, jpc, jkey, entrusted, halt, crossed>>
  BY DEF SetJoiner, JoinerSession, Start
<1>2. ready = {} /\ serverIn = <<>>
  BY <1>1, Where DEF IndInv, Opening, Served
<1>3. faults' \in 0 .. MaxFaults /\ disturbed' \in BOOLEAN
  <2>1. faults \in 0 .. MaxFaults /\ disturbed \in BOOLEAN /\ MaxFaults \in Nat
    BY RelayAssumption, TypesParts DEF IndInv, OutsideTypes
  <2>2. CASE UNCHANGED <<faults, disturbed>>
    BY <2>1, <2>2
  <2>3. CASE faults < MaxFaults /\ faults' = faults + 1 /\ disturbed' = TRUE
    BY <2>1, <2>3
  <2> QED BY <1>1, <2>2, <2>3
<1>4. OutsideTypes'
  BY <1>1, <1>3, TypesParts DEF IndInv, OutsideTypes
<1>5. LoopTypes'
  BY <1>1, TypesParts DEF IndInv, LoopTypes, kekVars
<1>6. Types'
  BY <1>4, <1>5, TypesParts
<1>7. Reported' /\ Single' /\ Current' /\ Answered' /\ Opening' /\ Served' /\ PskOfOpener'
  BY <1>1, <1>2 DEF IndInv, Reported, Single, Current, Answered, Opening, Served, PskOfOpener,
                    kekVars
<1> QED BY <1>6, <1>7 DEF IndInv

LEMMA FlightTyped ==
  ASSUME NEW j \in Joiners, NEW state \in Kinds, NEW key \in Ids \cup {0}
  PROVE  Flight(j, state, key) \in Datagrams
BY DEF Flight, Datagrams

LEMMA JoiningKinds ==
  ASSUME OutsideTypes, NEW j \in Joiners, Joining(j)
  PROVE  jpc[j] \in {"hello", "cookie", "key", "fin"} /\ jpc[j] \in Kinds
BY DEF OutsideTypes, Joining, Kinds

\* One more of the faults that are counted.
LEMMA FaultTyped ==
  ASSUME OutsideTypes, faults < MaxFaults, faults' = faults + 1
  PROVE  faults' \in 0 .. MaxFaults
BY RelayAssumption DEF OutsideTypes

LEMMA DeliverTyped ==
  ASSUME OutsideTypes, Deliver
  PROVE  OutsideTypes'
<1> DEFINE m == Head(tx)
           j == m.reply.j
           ours == m.to = j /\ Joining(j)
           next == CASE ours /\ m.reply.kind = "alert" -> "hello"
                     [] ours /\ m.reply.kind # "alert" /\ Expected(j, m.reply) -> After[jpc[j]]
                     [] OTHER -> jpc[j]
           state == IF next = "joined" THEN "bye" ELSE next
<1>1. /\ tx # <<>> /\ tx' = Tail(tx)
      /\ entrusted' = IF m.kek = 0 THEN entrusted ELSE [entrusted EXCEPT ![m.to] = m.kek]
      /\ jpc' = [jpc EXCEPT ![j] = next]
      /\ jkey' = IF next # jpc[j] /\ next \in {"hello", "key"}
                   THEN [jkey EXCEPT ![j] = m.reply.key] ELSE jkey
      /\ rx' = IF next = jpc[j] THEN rx ELSE Append(rx, Flight(j, state, jkey'[j]))
      /\ faults' = faults /\ disturbed' = disturbed
  BY DEF Deliver
<1>2. m \in Messages /\ tx' \in Seq(Messages)
  BY <1>1, HeadTailProperties DEF OutsideTypes
<1>3. j \in Joiners /\ m.kek \in Ids \cup {0} /\ m.reply.key \in Ids \cup {0}
  BY <1>2 DEF Messages, Replies
<1>4. \/ next = jpc[j]
      \/ next \in {"hello", "cookie", "key", "fin", "joined"}
  <2>1. CASE ours
    <3>1. jpc[j] \in {"hello", "cookie", "key", "fin"}
      BY <1>3, <2>1, JoiningKinds
    <3>2. After[jpc[j]] \in {"cookie", "key", "fin", "joined"}
      BY <3>1 DEF After
    <3> HIDE DEF ours
    <3> QED BY <2>1, <3>2
  <2>2. CASE ~ours
    <3> HIDE DEF ours
    <3> QED BY <2>2
  <2> QED BY <2>1, <2>2
<1> HIDE DEF next, m
<1>5. jpc' \in [Joiners -> {"idle", "hello", "cookie", "key", "fin", "joined", "gone"}]
  BY <1>1, <1>3, <1>4 DEF OutsideTypes
<1>6. jkey' \in [Joiners -> Ids \cup {0}] /\ entrusted' \in [Joiners -> Ids \cup {0}]
  BY <1>1, <1>3 DEF OutsideTypes
<1>7. rx' \in Seq(Datagrams)
  <2>1. CASE next = jpc[j]
    BY <1>1, <2>1 DEF OutsideTypes
  <2>2. CASE next # jpc[j]
    <3>1. state \in Kinds
      BY <1>4, <2>2 DEF Kinds
    <3>2. jkey'[j] \in Ids \cup {0}
      BY <1>3, <1>6
    <3>3. Flight(j, state, jkey'[j]) \in Datagrams
      BY <1>3, <3>1, <3>2, FlightTyped
    <3> QED BY <1>1, <2>2, <3>3, AppendProperties DEF OutsideTypes
  <2> QED BY <2>1, <2>2
<1> QED BY <1>1, <1>2, <1>5, <1>6, <1>7 DEF OutsideTypes

LEMMA JoinerTyped ==
  ASSUME OutsideTypes, NEW j \in Joiners, Begin(j) \/ Resend(j) \/ GiveUp(j)
  PROVE  OutsideTypes'
<1>1. CASE Begin(j)
  <2>1. Flight(j, "hello", 0) \in Datagrams
    BY FlightTyped DEF Kinds
  <2>2. rx' \in Seq(Datagrams)
    BY <1>1, <2>1, AppendProperties DEF Begin, OutsideTypes
  <2>3. disturbed' \in BOOLEAN
    BY <1>1 DEF Begin
  <2> QED BY <1>1, <2>2, <2>3 DEF Begin, OutsideTypes
<1>2. CASE Resend(j)
  <2>1. Flight(j, jpc[j], jkey[j]) \in Datagrams
    BY <1>2, JoiningKinds, FlightTyped DEF Resend, OutsideTypes
  <2>2. rx' \in Seq(Datagrams)
    BY <1>2, <2>1, AppendProperties DEF Resend, OutsideTypes
  <2> QED BY <1>2, <2>2 DEF Resend, envVars, OutsideTypes
<1>3. CASE GiveUp(j)
  <2>1. Flight(j, "abort", 0) \in Datagrams
    BY FlightTyped DEF Kinds
  <2>2. Append(rx, Flight(j, "abort", 0)) \in Seq(Datagrams)
    BY <2>1, AppendProperties DEF OutsideTypes
  <2>3. rx' \in Seq(Datagrams) /\ faults' \in 0 .. MaxFaults
    BY <1>3, <2>2, FaultTyped DEF GiveUp, OutsideTypes
  <2> QED BY <1>3, <2>3 DEF GiveUp, OutsideTypes
<1> QED BY <1>1, <1>2, <1>3

LEMMA NetworkTyped ==
  ASSUME OutsideTypes, Lose \/ Repeat
  PROVE  OutsideTypes'
<1>1. faults' \in 0 .. MaxFaults
  BY FaultTyped DEF Lose, Repeat
<1>2. CASE Lose
  <2>1. rx' \in Seq(Datagrams) /\ tx' \in Seq(Messages)
    BY <1>2, HeadTailProperties DEF Lose, OutsideTypes
  <2> QED BY <1>1, <1>2, <2>1 DEF Lose, OutsideTypes
<1>3. CASE Repeat
  <2>1. Head(rx) \in Datagrams
    BY <1>3, HeadTailProperties DEF Repeat, OutsideTypes
  <2>2. rx' \in Seq(Datagrams)
    BY <1>3, <2>1, AppendProperties DEF Repeat, OutsideTypes
  <2> QED BY <1>1, <1>3, <2>2 DEF Repeat, OutsideTypes
<1> QED BY <1>2, <1>3

LEMMA EnvironmentKeeps ==
  ASSUME IndInv, Environment
  PROVE  IndInv'
<1>1. at = "select" /\ OutsideTypes
  BY TypesParts DEF Environment, IndInv
<1>2. CASE \E j \in Joiners : Begin(j) \/ Resend(j) \/ GiveUp(j)
  <2>1. UNCHANGED loopVars
    BY <1>2 DEF Begin, Resend, GiveUp
  <2> QED BY <1>1, <1>2, <2>1, JoinerTyped, OutsideKeeps
<1>3. CASE Deliver
  <2>1. UNCHANGED loopVars
    BY <1>3 DEF Deliver
  <2> QED BY <1>1, <1>3, <2>1, DeliverTyped, OutsideKeeps
<1>4. CASE Lose \/ Repeat
  <2>1. UNCHANGED loopVars
    BY <1>4 DEF Lose, Repeat
  <2> QED BY <1>1, <1>4, <2>1, NetworkTyped, OutsideKeeps
<1>5. CASE SetJoiner
  BY <1>5, SetJoinerKeeps
<1> QED BY <1>2, <1>3, <1>4, <1>5 DEF Environment

-----------------------------------------------------------------------------
(* The invariant, and what follows from it.                                *)

LEMMA InvInit == Init => IndInv
<1> SUFFICES ASSUME Init
             PROVE  IndInv
  OBVIOUS
<1>1. <<>> \in Seq(Datagrams) /\ <<>> \in Seq(Replies) /\ <<>> \in Seq(Messages)
  OBVIOUS
<1>2. LoopTypes
  BY <1>1 DEF Init, LoopTypes
<1>3. OutsideTypes
  <2>1. 0 \in 0 .. MaxFaults
    BY RelayAssumption
  <2> QED BY <1>1, <2>1 DEF Init, OutsideTypes
<1>4. at = Station(ready)
  <2>1. {} \in SUBSET Fds
    OBVIOUS
  <2> QED BY <2>1, Stations DEF Init
<1> QED BY <1>2, <1>3, <1>4, TypesParts
        DEF IndInv, Init, Reported, Single, Current, Answered, Opening, Served, PskOfOpener

LEMMA InvKept ==
  ASSUME IsFiniteSet(Joiners), ~IsFiniteSet(Ids)
  PROVE  IndInv /\ [Next]_vars => IndInv'
<1> SUFFICES ASSUME IndInv, [Next]_vars
             PROVE  IndInv'
  OBVIOUS
<1>1. CASE Round
  BY <1>1, UpdateFdSetKeeps, SessionProcessKeeps, ServerAcceptsKeeps, RelayReceiveKeeps,
     RelayTransmitKeeps DEF Round
<1>2. CASE Environment
  BY <1>2, EnvironmentKeeps
<1>3. CASE UNCHANGED vars
  <2>1. UNCHANGED <<at, ready, mJoinerIid, served, mPSK, mSocket, mSessions, exporter, serverIn,
                    mDtlsSession, mKek, mNeedAppendKek, clientIn, rx, tx, jpc, jkey, entrusted,
                    faults, halt, disturbed, crossed>>
    BY <1>3 DEF vars, serverVars, kekVars, envVars
  <2>2. LoopTypes' /\ OutsideTypes'
    BY <2>1, TypesParts DEF IndInv, LoopTypes, OutsideTypes
  <2>3. Reported' /\ Single' /\ Current' /\ Answered' /\ Opening' /\ Served' /\ PskOfOpener'
    BY <2>1 DEF IndInv, Reported, Single, Current, Answered, Opening, Served, PskOfOpener
  <2> QED BY <2>2, <2>3, TypesParts DEF IndInv
<1> QED BY <1>1, <1>2, <1>3 DEF Next, Rest

\* The inductive invariant of the relay, of JoinerSession and of the DTLS server
\* (commissioner.cpp, joiner_session.cpp, dtls_mbedtls.cpp), for any finite number of
\* joiners and messages, when ids of sessions do not run out.
THEOREM RelayInvariant ==
  ASSUME IsFiniteSet(Joiners), ~IsFiniteSet(Ids)
  PROVE  Spec => []IndInv
BY InvInit, InvKept, PTL DEF Spec

\* A session has the PSKd of the joiner that opened it, although the datagram was sent
\* to the server before the PSKd was set (commissioner.cpp:582).
THEOREM OpenersPsk ==
  ASSUME IsFiniteSet(Joiners), ~IsFiniteSet(Ids)
  PROVE  Spec => []PskOfOpener
<1>1. IndInv => PskOfOpener
  BY DEF IndInv
<1> QED BY <1>1, RelayInvariant, PTL

\* There is one session at a time, and once ready it is the one JoinerSession writes
\* to, the KEK being its own (joiner_session.cpp:66, dtls_mbedtls.cpp:636).
THEOREM ReadyAreCurrent ==
  ASSUME IsFiniteSet(Joiners), ~IsFiniteSet(Ids)
  PROVE  Spec => []ReadyIsCurrent
<1>1. IndInv => ReadyIsCurrent
  BY DEF IndInv, Types, Single, Current, ReadyIsCurrent
<1> QED BY <1>1, RelayInvariant, PTL

-----------------------------------------------------------------------------
(***************************************************************************)
(* Joiners that come one after the other.  As long as nothing has          *)
(* disturbed them there is one datagram or one answer of the joiner under  *)
(* way at a time, at most preceded by the good-bye of the joiner before:   *)
(* so the one that says JOIN_FIN, or goes, finds its session, and never    *)
(* gets a new one, in which the thread would block.                        *)
(***************************************************************************)
Connected(j) == \E s \in mSessions : s.mState = "Ready" /\ s.own /\ s.peer = j

\* The datagrams there are: of the joiner that is joining, the one it waits to
\* have answered, and the last one of a joiner that has joined.
Flights == {d \in Datagrams : Joining(d.j) /\ d.kind = jpc[d.j]}
Byes == {b \in Datagrams : jpc[b.j] = "joined" /\ b.kind = "bye" /\ Connected(b.j)}

\* Where they are: in RELAY_RX messages, the server's socket, a session's.
Queues(relayed, new, read) ==
  rx = relayed /\ serverIn = new /\ \A s \in mSessions : s.in = read

Quiet == Queues(<<>>, <<>>, <<>>)
OneFlight ==
  \E d \in Flights : \/ Queues(<<d>>, <<>>, <<>>) \/ Queues(<<>>, <<d>>, <<>>)
                     \/ Queues(<<>>, <<>>, <<d>>)
ByeFirst ==
  /\ \A j \in Joiners : Joining(j) => jpc[j] = "hello"
  /\ \E b \in Byes :
       \/ Queues(<<b>>, <<>>, <<>>) \/ Queues(<<>>, <<>>, <<b>>)
       \/ \E d \in Flights : \/ Queues(<<b, d>>, <<>>, <<>>) \/ Queues(<<d>>, <<>>, <<b>>)
                             \/ Queues(<<>>, <<>>, <<b, d>>)
Line == Quiet \/ OneFlight \/ ByeFirst

\* Joiners come one after the other; the one that waits for JOIN_FIN's response
\* has a session, and those that have one came.
Turns == \A j, k \in Joiners : Joining(j) /\ Joining(k) => j = k
Finishing == \A j \in Joiners : jpc[j] = "fin" => Connected(j)
Peers == \A s \in mSessions : /\ jpc[s.peer] # "idle"
                              /\ s.mState = "Close" => ~Joining(s.peer)

\* An answer to the one that is joining is the only one, and nothing else is
\* under way.
Right(r) == /\ jpc[r.j] # "idle"
            /\ Joining(r.j) => Quiet /\ (r.kind = "done" => Connected(r.j))
Answers ==
  /\ \A n \in DOMAIN clientIn : Right(clientIn[n])
  /\ \A n \in DOMAIN tx : Right(tx[n].reply)
  /\ \A m, n \in DOMAIN clientIn : Joining(clientIn[m].j) /\ Joining(clientIn[n].j) => m = n
  /\ \A m, n \in DOMAIN tx : Joining(tx[m].reply.j) /\ Joining(tx[n].reply.j) => m = n
  /\ \A m \in DOMAIN clientIn, n \in DOMAIN tx :
       ~(Joining(clientIn[m].j) /\ Joining(tx[n].reply.j))

InTurn == Turns /\ Finishing /\ Peers /\ Line /\ Answers
Stops == (halt = "null" => ~served) /\ (halt = "blocked" => disturbed)
Order == Stops /\ (halt = "no" /\ ~disturbed => InTurn)

-----------------------------------------------------------------------------
(* Sequences of one or two.                                                *)

LEMMA TwoPlaces ==
  ASSUME NEW S, NEW q \in Seq(S), Len(q) = 2
  PROVE  {1, 2} \subseteq DOMAIN q
BY LenProperties

LEMMA TwoEqual ==
  ASSUME NEW S, NEW p \in Seq(S), NEW q \in Seq(S), Len(p) = 2, Len(q) = 2,
         p[1] = q[1], p[2] = q[2]
  PROVE  p = q
BY SeqEqual

LEMMA Tuples ==
  ASSUME NEW S
  PROVE  /\ \A d \in S : /\ Head(<<d>>) = d /\ Tail(<<d>>) = <<>> /\ <<d>> # <<>>
                         /\ Append(<<>>, d) = <<d>> /\ 1 \in DOMAIN <<d>> /\ <<d>>[1] = d
         /\ \A b, d \in S : /\ Head(<<b, d>>) = b /\ Tail(<<b, d>>) = <<d>>
                            /\ Append(<<b>>, d) = <<b, d>> /\ <<b, d>> # <<>>
                            /\ \A q : q = <<b, d>> =>
                                 {1, 2} \subseteq DOMAIN q /\ q[1] = b /\ q[2] = d
<1>1. ASSUME NEW d \in S
      PROVE  /\ Head(<<d>>) = d /\ Tail(<<d>>) = <<>> /\ <<d>> # <<>>
             /\ Append(<<>>, d) = <<d>> /\ 1 \in DOMAIN <<d>> /\ <<d>>[1] = d
  <2>1. Head(<<d>>) = d /\ <<d>> # <<>> /\ <<d>>[1] = d /\ 1 \in DOMAIN <<d>>
    OBVIOUS
  <2>2. Append(<<>>, d) = <<d>>
    OBVIOUS
  <2>3. Tail(<<d>>) = <<>>
    OBVIOUS
  <2> QED BY <2>1, <2>2, <2>3
<1>2. ASSUME NEW b \in S, NEW d \in S
      PROVE  /\ Head(<<b, d>>) = b /\ Tail(<<b, d>>) = <<d>>
             /\ Append(<<b>>, d) = <<b, d>> /\ <<b, d>> # <<>>
             /\ \A q : q = <<b, d>> => {1, 2} \subseteq DOMAIN q /\ q[1] = b /\ q[2] = d
  <2>1. Head(<<b, d>>) = b /\ <<b, d>> # <<>> /\ <<b, d>>[1] = b /\ <<b, d>>[2] = d
    OBVIOUS
  <2>2. Append(<<b>>, d) = <<b, d>>
    <3>1. <<b>> \in Seq(S) /\ Len(<<b>>) = 1 /\ <<b>>[1] = b
      OBVIOUS
    <3>2. /\ Append(<<b>>, d) \in Seq(S) /\ Len(Append(<<b>>, d)) = 2
          /\ Append(<<b>>, d)[1] = b /\ Append(<<b>>, d)[2] = d
      BY <1>2, <3>1, AppendProperties
    <3>3. <<b, d>> \in Seq(S) /\ Len(<<b, d>>) = 2
      OBVIOUS
    <3> QED BY <2>1, <3>2, <3>3, TwoEqual
  <2>3. ASSUME NEW q, q = <<b, d>>
        PROVE  {1, 2} \subseteq DOMAIN q /\ q[1] = b /\ q[2] = d
    <3>1. q \in Seq(S) /\ Len(q) = 2 /\ q[1] = b /\ q[2] = d
      BY <2>1, <2>3
    <3> QED BY <3>1, TwoPlaces
  <2>4. Tail(<<b, d>>) = <<d>>
    <3>1. <<b>> \in Seq(S) /\ <<b>> # <<>> /\ Tail(<<b>>) = <<>>
      OBVIOUS
    <3>2. Tail(Append(<<b>>, d)) = Append(Tail(<<b>>), d)
      BY <3>1, HeadTailAppend
    <3> QED BY <1>1, <2>2, <3>1, <3>2
  <2> QED BY <2>1, <2>2, <2>3, <2>4
<1> QED BY <1>1, <1>2

LEMMA TailParts ==
  ASSUME NEW S, NEW q \in Seq(S), q # <<>>
  PROVE  /\ 1 \in DOMAIN q /\ Head(q) = q[1] /\ Tail(q) \in Seq(S)
         /\ \A n \in DOMAIN Tail(q) : n + 1 \in DOMAIN q /\ Tail(q)[n] = q[n + 1] /\ n \in Nat \ {0}
<1>1. Len(q) \in Nat \ {0} /\ DOMAIN q = 1 .. Len(q)
  BY EmptySeq, LenProperties
<1>2. /\ Tail(q) \in Seq(S) /\ Len(Tail(q)) = Len(q) - 1
      /\ \A i \in 1 .. Len(Tail(q)) : Tail(q)[i] = q[i + 1]
  BY HeadTailProperties
<1>3. DOMAIN Tail(q) = 1 .. Len(Tail(q))
  BY <1>2, LenProperties
<1>4. Head(q) = q[1]
  OBVIOUS
<1> QED BY <1>1, <1>2, <1>3, <1>4

LEMMA AppendParts ==
  ASSUME NEW S, NEW q \in Seq(S), NEW x \in S
  PROVE  /\ Append(q, x) \in Seq(S)
         /\ \A n \in DOMAIN Append(q, x) :
              \/ n \in DOMAIN q /\ Append(q, x)[n] = q[n]
              \/ n = Len(q) + 1 /\ Append(q, x)[n] = x
<1>1. Len(q) \in Nat /\ DOMAIN q = 1 .. Len(q)
  BY LenProperties
<1>2. /\ Append(q, x) \in Seq(S) /\ Len(Append(q, x)) = Len(q) + 1
      /\ \A i \in 1 .. Len(q) : Append(q, x)[i] = q[i]
      /\ Append(q, x)[Len(q) + 1] = x
  BY AppendProperties
<1>3. DOMAIN Append(q, x) = 1 .. Len(Append(q, x))
  BY <1>2, LenProperties
<1> QED BY <1>1, <1>2, <1>3

LEMMA ConcatParts ==
  ASSUME NEW S, NEW q \in Seq(S), NEW r \in Seq(S)
  PROVE  \A n \in DOMAIN (q \o r) :
           \/ n \in DOMAIN q /\ (q \o r)[n] = q[n]
           \/ \E i \in DOMAIN r : (q \o r)[n] = r[i]
<1>1. /\ Len(q) \in Nat /\ DOMAIN q = 1 .. Len(q)
      /\ Len(r) \in Nat /\ DOMAIN r = 1 .. Len(r)
  BY LenProperties
<1>2. /\ q \o r \in Seq(S) /\ Len(q \o r) = Len(q) + Len(r)
      /\ \A i \in 1 .. Len(q) + Len(r) : (q \o r)[i] = IF i <= Len(q) THEN q[i] ELSE r[i - Len(q)]
  BY ConcatProperties
<1>3. DOMAIN (q \o r) = 1 .. Len(q \o r)
  BY <1>2, LenProperties
<1> SUFFICES ASSUME NEW n \in DOMAIN (q \o r), ~(n \in DOMAIN q /\ (q \o r)[n] = q[n])
             PROVE  n - Len(q) \in DOMAIN r /\ (q \o r)[n] = r[n - Len(q)]
  OBVIOUS
<1> QED BY <1>1, <1>2, <1>3

\* Who is joining.
LEMMA Stages ==
  ASSUME Types, NEW j \in Joiners
  PROVE  /\ Joining(j) <=> jpc[j] \in {"hello", "cookie", "key", "fin"}
         /\ ~Joining(j) <=> jpc[j] \in {"idle", "joined", "gone"}
BY DEF Types, TypeOK, Joining

LEMMA AnswersTyped ==
  ASSUME Types
  PROVE  /\ clientIn \in Seq(Replies) /\ tx \in Seq(Messages)
         /\ \A n \in DOMAIN clientIn : clientIn[n] \in Replies /\ clientIn[n].j \in Joiners
         /\ \A n \in DOMAIN tx : tx[n].reply \in Replies /\ tx[n].reply.j \in Joiners
<1>1. clientIn \in Seq(Replies) /\ tx \in Seq(Messages)
  BY DEF Types, TypeOK
<1>2. \A n \in DOMAIN clientIn : clientIn[n] \in Replies
  BY <1>1, LenProperties, ElementOfSeq
<1>3. \A n \in DOMAIN tx : tx[n] \in Messages
  BY <1>1, LenProperties, ElementOfSeq
<1> QED BY <1>1, <1>2, <1>3 DEF Messages, Replies

-----------------------------------------------------------------------------
\* A joiner sends datagram x.
LEMMA Sent ==
  ASSUME NEW x \in Datagrams, rx' = Append(rx, x), UNCHANGED <<mSessions, serverIn>>
  PROVE  /\ Quiet => Queues(<<x>>, <<>>, <<>>)'
         /\ \A b \in Datagrams :
              /\ Queues(<<b>>, <<>>, <<>>) => Queues(<<b, x>>, <<>>, <<>>)'
              /\ Queues(<<>>, <<>>, <<b>>) => Queues(<<x>>, <<>>, <<b>>)'
<1>1. Append(<<>>, x) = <<x>>
  BY Tuples
<1>2. Quiet => Queues(<<x>>, <<>>, <<>>)'
  BY <1>1 DEF Quiet, Queues
<1>3. ASSUME NEW b \in Datagrams, Queues(<<b>>, <<>>, <<>>)
      PROVE  Queues(<<b, x>>, <<>>, <<>>)'
  <2>1. Append(<<b>>, x) = <<b, x>>
    BY Tuples
  <2>2. rx' = <<b, x>> /\ serverIn' = <<>>
    BY <1>3, <2>1 DEF Queues
  <2>3. \A s \in mSessions' : s.in = <<>>
    BY <1>3 DEF Queues
  <2> QED BY <2>2, <2>3 DEF Queues
<1>4. ASSUME NEW b \in Datagrams, Queues(<<>>, <<>>, <<b>>)
      PROVE  Queues(<<x>>, <<>>, <<b>>)'
  <2>2. rx' = <<x>> /\ serverIn' = <<>>
    BY <1>1, <1>4 DEF Queues
  <2>3. \A s \in mSessions' : s.in = <<b>>
    BY <1>4 DEF Queues
  <2> QED BY <2>2, <2>3 DEF Queues
<1> QED BY <1>2, <1>3, <1>4

LEMMA BeginInTurn ==
  ASSUME Types, InTurn, ~disturbed', NEW j \in Joiners, Begin(j)
  PROVE  InTurn'
<1>1. /\ jpc[j] = "idle" /\ jpc' = [jpc EXCEPT ![j] = "hello"]
      /\ rx' = Append(rx, Flight(j, "hello", 0)) /\ ~Disturbs(j)
      /\ UNCHANGED <<mSessions, ready, serverIn, clientIn, tx>>
  BY DEF Begin, loopVars, serverVars
<1>2. \A k \in Joiners : ~Joining(k)
  BY <1>1 DEF Disturbs, Joining
<1>3. \A k \in Joiners : IF k = j THEN jpc'[k] = "hello" ELSE jpc'[k] = jpc[k]
  BY <1>1 DEF Types, TypeOK
<1>4. \A k \in Joiners : (Joining(k))' <=> k = j
  BY <1>2, <1>3 DEF Joining
<1>5. PICK f \in Datagrams : f = Flight(j, "hello", 0) /\ f.j = j /\ f.kind = "hello"
  <2>1. /\ Flight(j, "hello", 0) \in Datagrams /\ Flight(j, "hello", 0).j = j
        /\ Flight(j, "hello", 0).kind = "hello"
    BY DEF Flight, Datagrams, Kinds
  <2> QED BY <2>1
<1>6. f \in Flights'
  BY <1>3, <1>4, <1>5 DEF Flights
<1>7. Flights = {} /\ \A b \in Byes : b \in Byes' /\ b \in Datagrams
  BY <1>1, <1>2, <1>3 DEF Flights, Byes, Datagrams, Connected
<1>8. Line'
  <2>1. CASE Quiet
    BY <1>1, <1>5, <1>6, <2>1, Sent DEF OneFlight, Line
  <2>2. CASE ByeFirst
    <3>1. PICK b \in Byes : Queues(<<b>>, <<>>, <<>>) \/ Queues(<<>>, <<>>, <<b>>)
      BY <1>7, <2>2 DEF ByeFirst
    <3>2. Queues(<<b, f>>, <<>>, <<>>)' \/ Queues(<<f>>, <<>>, <<b>>)'
      BY <1>1, <1>5, <1>7, <3>1, Sent
    <3> QED BY <1>3, <1>4, <1>6, <1>7, <3>2 DEF ByeFirst, Line
  <2> QED BY <1>7, <2>1, <2>2 DEF Line, InTurn, OneFlight
<1>9. Turns' /\ Finishing'
  BY <1>1, <1>3, <1>4 DEF Turns, Finishing, InTurn, Connected
<1>10. Peers'
  <2>1. \A s \in mSessions : s.peer \in Joiners
    BY DEF Types, TypeOK, Sessions
  <2> QED BY <1>1, <1>3, <1>4, <2>1 DEF Peers, InTurn
<1>11. Answers'
  <2>1. \A r \in Replies : Right(r) => r.j # j /\ (Right(r))'
    BY <1>1, <1>3, <1>4 DEF Right, Replies
  <2> QED BY <1>1, <1>4, <2>1, AnswersTyped DEF Answers, InTurn
<1> QED BY <1>8, <1>9, <1>10, <1>11 DEF InTurn

LEMMA ResendInTurn ==
  ASSUME Types, InTurn, NEW j \in Joiners, Resend(j)
  PROVE  InTurn'
<1>1. /\ Joining(j) /\ ~InTransit(j) /\ rx' = Append(rx, Flight(j, jpc[j], jkey[j]))
      /\ UNCHANGED <<mSessions, ready, serverIn, clientIn, tx, jpc>>
  BY DEF Resend, loopVars, serverVars, envVars
<1>2. \A k \in Joiners : Joining(k) => k = j
  BY <1>1 DEF InTurn, Turns
<1>3. PICK f \in Flights : f = Flight(j, jpc[j], jkey[j])
  <2>1. OutsideTypes
    BY TypesParts
  <2>2. Flight(j, jpc[j], jkey[j]) \in Datagrams
    BY <1>1, <2>1, JoiningKinds, FlightTyped DEF OutsideTypes
  <2>3. Flight(j, jpc[j], jkey[j]).j = j /\ Flight(j, jpc[j], jkey[j]).kind = jpc[j]
    BY DEF Flight
  <2> QED BY <1>1, <2>2, <2>3 DEF Flights
<1>4. Flights' = Flights /\ Byes' = Byes /\ Flights \subseteq Datagrams /\ Byes \subseteq Datagrams
  BY <1>1 DEF Flights, Byes, Joining, Connected
<1>5. Line'
  <2>1. CASE Quiet
    <3>1. Queues(<<f>>, <<>>, <<>>)'
      BY <1>1, <1>3, <1>4, <2>1, Sent
    <3> QED BY <1>3, <1>4, <3>1 DEF OneFlight, Line
  <2>2. \A d \in Flights : d.j = j
    BY <1>2 DEF Flights, Datagrams
  <2>3. CASE OneFlight
    <3>1. PICK d \in Flights : \/ Queues(<<d>>, <<>>, <<>>) \/ Queues(<<>>, <<d>>, <<>>)
                               \/ Queues(<<>>, <<>>, <<d>>)
      BY <2>3 DEF OneFlight
    <3>2. mSessions = {} /\ Queues(<<>>, <<>>, <<d>>)
      BY <1>1, <1>4, <2>2, <3>1, Tuples DEF Queues, InTransit
    <3> QED BY <2>1, <3>2 DEF Quiet, Queues
  <2>4. CASE ByeFirst
    <3>1. PICK b \in Byes :
             \/ Queues(<<b>>, <<>>, <<>>) \/ Queues(<<>>, <<>>, <<b>>)
             \/ \E d \in Flights : \/ Queues(<<b, d>>, <<>>, <<>>) \/ Queues(<<d>>, <<>>, <<b>>)
                                   \/ Queues(<<>>, <<>>, <<b, d>>)
      BY <2>4 DEF ByeFirst
    <3>2. mSessions # {}
      BY DEF Byes, Connected
    <3>3. Queues(<<b>>, <<>>, <<>>) \/ Queues(<<>>, <<>>, <<b>>)
      <4> SUFFICES ASSUME NEW d \in Flights,
                          \/ Queues(<<b, d>>, <<>>, <<>>) \/ Queues(<<d>>, <<>>, <<b>>)
                          \/ Queues(<<>>, <<>>, <<b, d>>)
                   PROVE  FALSE
        BY <3>1
      <4> QED BY <1>1, <1>4, <2>2, <3>2, Tuples DEF Queues, InTransit
    <3>4. Queues(<<b, f>>, <<>>, <<>>)' \/ Queues(<<f>>, <<>>, <<b>>)'
      BY <1>1, <1>3, <1>4, <3>3, Sent
    <3> QED BY <1>1, <1>3, <1>4, <2>4, <3>4 DEF ByeFirst, Line, Joining
  <2> QED BY <2>1, <2>3, <2>4 DEF Line, InTurn
<1>6. Turns' /\ Finishing' /\ Peers'
  BY <1>1 DEF InTurn, Turns, Finishing, Peers, Connected, Joining
<1>7. Answers'
  <2>1. \A r \in Replies : Joining(r.j) => r.j = j
    BY <1>2 DEF Replies
  <2>2. \A n \in DOMAIN clientIn : ~Joining(clientIn[n].j)
    BY <1>1, <2>1, AnswersTyped DEF InTransit
  <2>3. \A n \in DOMAIN tx : ~Joining(tx[n].reply.j)
    BY <1>1, <2>1, AnswersTyped DEF InTransit
  <2> QED BY <1>1, <2>2, <2>3 DEF InTurn, Answers, Right, Joining
<1> QED BY <1>5, <1>6, <1>7 DEF InTurn

LEMMA DeliverInTurn ==
  ASSUME Types, InTurn, Deliver
  PROVE  InTurn'
<1>0. PICK m, j : m = Head(tx) /\ j = m.reply.j
  OBVIOUS
<1> DEFINE ours == m.to = j /\ Joining(j)
           next == CASE ours /\ m.reply.kind = "alert" -> "hello"
                     [] ours /\ m.reply.kind # "alert" /\ Expected(j, m.reply) -> After[jpc[j]]
                     [] OTHER -> jpc[j]
<1>1. /\ tx # <<>> /\ tx' = Tail(tx) /\ jpc' = [jpc EXCEPT ![j] = next]
      /\ rx' = IF next = jpc[j] THEN rx
               ELSE Append(rx, Flight(j, IF next = "joined" THEN "bye" ELSE next, jkey'[j]))
      /\ UNCHANGED <<mSessions, ready, serverIn, clientIn>>
  BY <1>0 DEF Deliver, loopVars, serverVars
<1>2. /\ 1 \in DOMAIN tx /\ m = tx[1]
      /\ \A n \in DOMAIN tx' : n + 1 \in DOMAIN tx /\ tx'[n] = tx[n + 1] /\ n \in Nat \ {0}
  BY <1>0, <1>1, TailParts, AnswersTyped
<1>3. \A n \in DOMAIN tx' : n + 1 # 1
  BY <1>2
<1>4. j \in Joiners /\ m.reply \in Replies /\ Right(m.reply)
  BY <1>0, <1>2, AnswersTyped DEF InTurn, Answers
<1>5. /\ next # jpc[j] => Joining(j) /\ next \in {"hello", "cookie", "key", "fin", "joined"}
      /\ next = "fin" /\ next # jpc[j] => m.reply.kind = "done"
      /\ next = "joined" /\ next # jpc[j] => jpc[j] = "fin"
  <2>1. CASE ours /\ m.reply.kind = "alert"
    <3>1. jpc[j] \in {"hello", "cookie", "key", "fin"}
      BY <1>4, <2>1, Stages
    <3>2. next = "hello"
      BY <2>1, <3>1 DEF Awaited
    <3> QED BY <2>1, <3>2
  <2>2. CASE ours /\ m.reply.kind # "alert"
    <3>1. jpc[j] \in {"hello", "cookie", "key", "fin"}
      BY <1>4, <2>2, Stages
    <3> QED BY <2>2, <3>1 DEF After, Awaited, Expected
  <2>3. CASE ~ours
    BY <2>3
  <2> QED BY <2>1, <2>2, <2>3
<1> HIDE DEF next
<1>6. CASE next = jpc[j]
  <2>1. UNCHANGED <<jpc, rx>>
    BY <1>1, <1>4, <1>6 DEF Types, TypeOK
  <2>2. Turns' /\ Finishing' /\ Peers'
    BY <1>1, <2>1 DEF InTurn, Turns, Finishing, Peers, Connected, Joining
  <2>3. Line'
    BY <1>1, <2>1 DEF InTurn, Line, Quiet, OneFlight, ByeFirst, Queues, Flights, Byes, Joining,
                     Connected
  <2>4. \A r : Right(r) => (Right(r))'
    BY <1>1, <2>1 DEF Right, Quiet, Queues, Joining, Connected
  <2>5. /\ \A n \in DOMAIN clientIn' : Right(clientIn'[n])
        /\ \A n \in DOMAIN tx' : Right(tx'[n].reply)
    BY <1>1, <1>2 DEF InTurn, Answers
  <2>6. \A k : Joining(k)' = Joining(k)
    BY <2>1 DEF Joining
  <2>7. \A k, n \in DOMAIN tx' :
          (Joining(tx[k].reply.j))' /\ (Joining(tx[n].reply.j))' => k + 1 = n + 1
    BY <1>2, <2>6 DEF InTurn, Answers
  <2>8. \A k, n \in DOMAIN tx' :
          (Joining(tx[k].reply.j))' /\ (Joining(tx[n].reply.j))' => k = n
    BY <1>2, <2>7
  <2>9. \A k \in DOMAIN clientIn', n \in DOMAIN tx' :
          ~((Joining(clientIn[k].j))' /\ (Joining(tx[n].reply.j))')
    BY <1>1, <1>2, <2>6 DEF InTurn, Answers
  <2>10. \A k, n \in DOMAIN clientIn' :
          (Joining(clientIn[k].j))' /\ (Joining(clientIn[n].j))' => k = n
    BY <1>1, <2>6 DEF InTurn, Answers
  <2>11. Answers'
    BY <2>4, <2>5, <2>8, <2>9, <2>10 DEF Answers
  <2> QED BY <2>2, <2>3, <2>11 DEF InTurn
<1>7. CASE next # jpc[j]
  <2>1. Joining(j) /\ Quiet /\ (m.reply.kind = "done" => Connected(j))
    BY <1>0, <1>4, <1>5, <1>7 DEF Right
  <2>2. \A k \in Joiners : IF k = j THEN jpc'[k] = next ELSE jpc'[k] = jpc[k]
    <3>1. DOMAIN jpc = Joiners
      BY DEF Types, TypeOK
    <3> QED BY <1>1, <1>4, <3>1
  <2>3. \A k \in Joiners : Joining(k) => k = j
    BY <1>4, <2>1 DEF InTurn, Turns
  <2>4. \A k \in Joiners : (Joining(k))' <=> k = j /\ next # "joined"
    BY <1>5, <1>7, <2>2, <2>3 DEF Joining
  <2>5. /\ \A n \in DOMAIN tx' : ~Joining(tx'[n].reply.j)
        /\ \A n \in DOMAIN clientIn : ~Joining(clientIn[n].j)
    <3>1. 1 \in DOMAIN tx /\ Joining(tx[1].reply.j)
      BY <1>0, <1>2, <2>1
    <3> QED BY <1>2, <1>3, <3>1 DEF InTurn, Answers
  <2>6. PICK f \in Datagrams : /\ f.j = j /\ f.kind = IF next = "joined" THEN "bye" ELSE next
                              /\ rx' = Append(rx, f)
    <3>0. jkey'[j] \in Ids \cup {0}
      BY <1>4, DeliverTyped, TypesParts DEF OutsideTypes
    <3>1. ASSUME NEW kind \in Kinds
          PROVE  /\ Flight(j, kind, jkey'[j]) \in Datagrams /\ Flight(j, kind, jkey'[j]).j = j
                 /\ Flight(j, kind, jkey'[j]).kind = kind
      BY <1>4, <3>0 DEF Flight, Datagrams
    <3> QED BY <1>1, <1>5, <1>7, <3>1 DEF Kinds
  <2>7. Queues(<<f>>, <<>>, <<>>)'
    BY <1>1, <2>1, <2>6, Sent
  <2>8. next \in {"fin", "joined"} => Connected(j)'
    BY <1>1, <1>4, <1>5, <1>7, <2>1 DEF InTurn, Finishing, Connected
  <2>9. Line'
    <3>1. CASE next = "joined"
      <4>1. f \in Byes'
        BY <1>4, <2>2, <2>6, <2>8, <3>1 DEF Byes
      <4> QED BY <2>4, <2>7, <3>1, <4>1 DEF ByeFirst, Line
    <3>2. CASE next # "joined"
      <4>1. f \in Flights'
        BY <1>4, <2>2, <2>4, <2>6, <3>2 DEF Flights
      <4> QED BY <2>7, <4>1 DEF OneFlight, Line
    <3> QED BY <3>1, <3>2
  <2>10. Turns' /\ Finishing'
    <3>1. \A k \in Joiners : jpc[k] = "fin" => k = j
      BY <2>3 DEF Joining
    <3> QED BY <2>2, <2>4, <2>8, <3>1 DEF Turns, Finishing
  <2>11. Peers'
    <3>1. \A s \in mSessions : s.peer \in Joiners
      BY DEF Types, TypeOK, Sessions
    <3>2. \A s \in mSessions : s.mState = "Close" => s.peer # j
      BY <2>1 DEF InTurn, Peers
    <3> QED BY <1>1, <1>5, <1>7, <2>2, <2>4, <3>1, <3>2 DEF InTurn, Peers
  <2>12. Answers'
    <3>1. \A r \in Replies : Right(r) /\ ~Joining(r.j) => ~(Joining(r.j))' /\ (Right(r))'
      BY <1>5, <1>7, <2>1, <2>2, <2>4 DEF Right, Replies
    <3>2. \A n \in DOMAIN tx' : tx'[n].reply \in Replies /\ Right(tx'[n].reply)
      BY <1>2, AnswersTyped DEF InTurn, Answers
    <3>3. \A n \in DOMAIN clientIn : clientIn[n] \in Replies /\ Right(clientIn[n])
      BY AnswersTyped DEF InTurn, Answers
    <3> QED BY <1>1, <2>5, <3>1, <3>2, <3>3 DEF Answers
  <2> QED BY <2>9, <2>10, <2>11, <2>12 DEF InTurn
<1> QED BY <1>6, <1>7

LEMMA LoseInTurn ==
  ASSUME Types, InTurn, Lose
  PROVE  InTurn'
<1>1. UNCHANGED <<mSessions, ready, serverIn, clientIn, jpc>>
  BY DEF Lose, loopVars, serverVars
<1>2. /\ \A k : Joining(k)' = Joining(k)
      /\ \A k : Connected(k)' = Connected(k)
      /\ Flights' = Flights /\ Byes' = Byes
      /\ Flights \subseteq Datagrams /\ Byes \subseteq Datagrams
  BY <1>1 DEF Joining, Connected, Flights, Byes
<1>3. Turns' /\ Finishing' /\ Peers'
  BY <1>1, <1>2 DEF InTurn, Turns, Finishing, Peers
<1>4. CASE rx # <<>> /\ rx' = Tail(rx) /\ UNCHANGED tx
  <2>1. Line'
    <3>1. Quiet' \/ OneFlight' \/ ByeFirst'
      <4>1. CASE OneFlight
        <5>1. PICK d \in Flights : Queues(<<d>>, <<>>, <<>>)
          BY <1>4, <4>1 DEF OneFlight, Queues
        <5>2. Tail(<<d>>) = <<>>
          BY <1>2, Tuples
        <5> QED BY <1>1, <1>4, <5>1, <5>2 DEF Quiet, Queues
      <4>2. CASE ByeFirst
        <5>1. PICK b \in Byes :
                 \/ Queues(<<b>>, <<>>, <<>>)
                 \/ \E d \in Flights : Queues(<<b, d>>, <<>>, <<>>) \/ Queues(<<d>>, <<>>, <<b>>)
          BY <1>4, <4>2 DEF ByeFirst, Queues
        <5>2. CASE Queues(<<b>>, <<>>, <<>>)
          <6>1. Tail(<<b>>) = <<>>
            BY <1>2, Tuples
          <6> QED BY <1>1, <1>4, <5>2, <6>1 DEF Quiet, Queues
        <5>3. ASSUME NEW d \in Flights, Queues(<<b, d>>, <<>>, <<>>)
              PROVE  OneFlight'
          <6>1. Tail(<<b, d>>) = <<d>>
            BY <1>2, Tuples
          <6> QED BY <1>1, <1>2, <1>4, <5>3, <6>1 DEF OneFlight, Queues
        <5>4. ASSUME NEW d \in Flights, Queues(<<d>>, <<>>, <<b>>)
              PROVE  ByeFirst'
          <6>1. Tail(<<d>>) = <<>>
            BY <1>2, Tuples
          <6>2. Queues(<<>>, <<>>, <<b>>)'
            BY <1>1, <1>4, <5>4, <6>1 DEF Queues
          <6> QED BY <1>1, <1>2, <4>2, <6>2 DEF ByeFirst
        <5> QED BY <5>1, <5>2, <5>3, <5>4
      <4> QED BY <1>4, <4>1, <4>2 DEF InTurn, Line, Quiet, Queues
    <3> QED BY <3>1 DEF Line
  <2>2. ~Quiet
    BY <1>4 DEF Quiet, Queues
  <2>3. Answers'
    BY <1>1, <1>2, <1>4, <2>2 DEF InTurn, Answers, Right
  <2> QED BY <1>3, <2>1, <2>3 DEF InTurn
<1>5. CASE tx # <<>> /\ tx' = Tail(tx) /\ UNCHANGED rx
  <2>1. Line'
    BY <1>1, <1>2, <1>5 DEF InTurn, Line, Quiet, OneFlight, ByeFirst, Queues
  <2>2. \A n \in DOMAIN tx' : n + 1 \in DOMAIN tx /\ tx'[n] = tx[n + 1] /\ n \in Nat \ {0}
    BY <1>5, TailParts, AnswersTyped
  <2>3. \A r : Right(r) => (Right(r))'
    BY <1>1, <1>2, <1>5 DEF Right, Quiet, Queues
  <2>4. \A k, n \in DOMAIN tx' :
          Joining(tx'[k].reply.j) /\ Joining(tx'[n].reply.j) => k + 1 = n + 1
    BY <2>2 DEF InTurn, Answers
  <2>5. \A k, n \in DOMAIN tx' :
          Joining(tx'[k].reply.j) /\ Joining(tx'[n].reply.j) => k = n
    BY <2>2, <2>4
  <2>6. Answers'
    BY <1>1, <1>2, <2>2, <2>3, <2>5 DEF InTurn, Answers
  <2> QED BY <1>3, <2>1, <2>6 DEF InTurn
<1> QED BY <1>4, <1>5 DEF Lose

LEMMA SetJoinerInTurn ==
  ASSUME InTurn, SetJoiner
  PROVE  InTurn'
<1>1. UNCHANGED <<mSessions, ready, serverIn, clientIn, rx, tx, jpc>>
  BY DEF SetJoiner
<1>2. /\ \A k : Joining(k)' = Joining(k)
      /\ \A k : Connected(k)' = Connected(k)
      /\ Flights' = Flights /\ Byes' = Byes
  BY <1>1 DEF Joining, Connected, Flights, Byes
<1>3. Turns' /\ Finishing' /\ Peers'
  BY <1>1, <1>2 DEF InTurn, Turns, Finishing, Peers
<1>4. Line' /\ Quiet' = Quiet
  BY <1>1, <1>2 DEF InTurn, Line, Quiet, OneFlight, ByeFirst, Queues
<1>5. Answers'
  BY <1>1, <1>2, <1>4 DEF InTurn, Answers, Right
<1> QED BY <1>3, <1>4, <1>5 DEF InTurn

\* What closing sessions say.
LEMMA CloseNotifyPeers ==
  ASSUME Types, Single, NEW gone \in SUBSET mSessions
  PROVE  \A n \in DOMAIN CloseNotify(gone) :
           /\ CloseNotify(gone)[n].kind = "alert"
           /\ \E s \in Closing(gone) : CloseNotify(gone)[n].j = s.peer
<1> DEFINE X == {[j |-> s.peer, kind |-> "alert", key |-> 0] : s \in Closing(gone)}
<1>1. \A x \in X : x.kind = "alert" /\ \E s \in Closing(gone) : x.j = s.peer
  OBVIOUS
<1>2. IsFiniteSet(X)
  <2>1. CASE Closing(gone) = {}
    <3>1. X = {}
      BY <2>1
    <3> QED BY <3>1, FS_EmptySet
  <2>2. CASE Closing(gone) # {}
    <3>1. PICK s \in Closing(gone) : TRUE
      BY <2>2
    <3>2. X = {[j |-> s.peer, kind |-> "alert", key |-> 0]}
      BY <3>1 DEF Single, Closing
    <3> HIDE DEF X
    <3> QED BY <3>2, FS_Singleton
  <2> QED BY <2>1, <2>2
<1>3. CloseNotify(gone) = SetToSeq(X)
  BY DEF CloseNotify
<1> HIDE DEF X
<1>4. CloseNotify(gone) \in Seq(X)
  BY <1>2, <1>3, SetToSeqTyped
<1>5. \A n \in DOMAIN CloseNotify(gone) : CloseNotify(gone)[n] \in X
  BY <1>4, LenProperties, ElementOfSeq
<1> QED BY <1>1, <1>5

LEMMA UpdateFdSetInTurn ==
  ASSUME IndInv, InTurn, ~disturbed', UpdateFdSet
  PROVE  InTurn'
<1>1. PICK expired \in SUBSET {s \in mSessions : Alive(s)} :
        LET gone == {s \in mSessions : ~Alive(s)} \cup expired
            left == mSessions \ gone
        IN /\ mSessions' = left
           /\ clientIn' = clientIn \o CloseNotify(gone)
           /\ IF \E s \in expired : Joining(s.peer) \/ InTransit(s.peer)
                THEN faults < MaxFaults /\ faults' = faults + 1 /\ disturbed' = TRUE
                ELSE UNCHANGED <<faults, disturbed>>
  BY DEF UpdateFdSet
<1> DEFINE gone == {s \in mSessions : ~Alive(s)} \cup expired
<1>2. /\ gone \in SUBSET mSessions /\ mSessions' = mSessions \ gone
      /\ clientIn' = clientIn \o CloseNotify(gone)
      /\ \A s \in expired : ~Joining(s.peer) /\ ~InTransit(s.peer)
      /\ \A s \in gone : s \in expired \/ ~Alive(s)
  BY <1>1
<1>3. UNCHANGED <<serverIn, rx, tx, jpc>>
  BY DEF UpdateFdSet
<1>4. Types /\ Single /\ \A s \in mSessions : s.peer \in Joiners /\ s \in Sessions
  BY DEF IndInv, Types, TypeOK, Sessions
<1>5. \A s \in mSessions' : Alive(s)
  BY <1>1
<1> HIDE DEF gone
<1>6. \A k \in Joiners : (Joining(k) \/ InTransit(k)) /\ Connected(k) => (Connected(k))'
  BY <1>2 DEF Connected, Alive
<1>7. /\ \A k : (Joining(k))' = Joining(k)
      /\ Flights' = Flights
  BY <1>3 DEF Joining, Flights
<1>8. Line'
  <2>1. \A a, b, c : Queues(a, b, c) => (Queues(a, b, c))'
    BY <1>2, <1>3 DEF Queues
  <2>2. CASE Quiet
    BY <2>1, <2>2 DEF Quiet, Line
  <2>3. CASE OneFlight
    <3>1. PICK d \in Flights : \/ Queues(<<d>>, <<>>, <<>>) \/ Queues(<<>>, <<d>>, <<>>)
                               \/ Queues(<<>>, <<>>, <<d>>)
      BY <2>3 DEF OneFlight
    <3> QED BY <1>7, <2>1, <3>1 DEF OneFlight, Line
  <2>4. CASE ByeFirst
    <3>1. PICK b \in Byes :
             \/ Queues(<<b>>, <<>>, <<>>) \/ Queues(<<>>, <<>>, <<b>>)
             \/ \E d \in Flights : \/ Queues(<<b, d>>, <<>>, <<>>) \/ Queues(<<d>>, <<>>, <<b>>)
                                   \/ Queues(<<>>, <<>>, <<b, d>>)
      BY <2>4 DEF ByeFirst
    <3>2. b \in Datagrams /\ b.j \in Joiners /\ Connected(b.j) /\ mSessions # {}
      BY DEF Byes, Connected, Datagrams
    <3>3. Flights \subseteq Datagrams
      BY DEF Flights
    <3>4. InTransit(b.j)
      <4>1. CASE Queues(<<b>>, <<>>, <<>>) \/ Queues(<<>>, <<>>, <<b>>)
        BY <3>2, <4>1, Tuples DEF Queues, InTransit
      <4>2. ASSUME NEW d \in Flights, \/ Queues(<<b, d>>, <<>>, <<>>) \/ Queues(<<d>>, <<>>, <<b>>)
                                      \/ Queues(<<>>, <<>>, <<b, d>>)
            PROVE  InTransit(b.j)
        <5>1. /\ \A q : q = <<b, d>> => 1 \in DOMAIN q /\ q[1] = b
              /\ \A q : q = <<b>> => 1 \in DOMAIN q /\ q[1] = b
          BY <3>2, <3>3, Tuples
        <5> QED BY <3>2, <4>2, <5>1 DEF Queues, InTransit
      <4> QED BY <3>1, <4>1, <4>2
    <3>5. b \in Byes'
      BY <1>3, <1>6, <3>2, <3>4 DEF Byes
    <3>6. \A k \in Joiners : (Joining(k))' => jpc'[k] = "hello"
      BY <1>3, <1>7, <2>4 DEF ByeFirst
    <3> QED BY <1>7, <2>1, <3>1, <3>5, <3>6 DEF ByeFirst, Line
  <2> QED BY <2>2, <2>3, <2>4 DEF InTurn, Line
<1>9. Turns' /\ Finishing'
  BY <1>3, <1>6, <1>7, Stages, <1>4 DEF InTurn, Turns, Finishing
<1>10. Peers'
  BY <1>2, <1>3, <1>5, <1>7 DEF InTurn, Peers
<1>11. Answers'
  <2>1. \A r \in Replies : Right(r) => (Right(r))'
    BY <1>2, <1>3, <1>6, <1>7 DEF Right, Quiet, Queues, Replies
  <2>2. \A n \in DOMAIN CloseNotify(gone) :
          /\ CloseNotify(gone)[n].j \in Joiners /\ jpc[CloseNotify(gone)[n].j] # "idle"
          /\ ~Joining(CloseNotify(gone)[n].j)
    <3>1. \A s \in Closing(gone) : jpc[s.peer] # "idle" /\ ~Joining(s.peer)
      BY <1>2, <1>4 DEF Closing, InTurn, Peers, Alive, Sessions
    <3> QED BY <1>2, <1>4, <3>1, CloseNotifyPeers DEF Closing
  <2>3. \A n \in DOMAIN clientIn' :
          \/ n \in DOMAIN clientIn /\ clientIn'[n] = clientIn[n]
          \/ jpc[clientIn'[n].j] # "idle" /\ ~Joining(clientIn'[n].j)
    <3>1. clientIn \in Seq(Replies) /\ CloseNotify(gone) \in Seq(Replies)
      BY <1>2, <1>4, CloseNotifyTyped, AnswersTyped
    <3> QED BY <1>2, <2>2, <3>1, ConcatParts
  <2>4. \A n \in DOMAIN clientIn' : (Right(clientIn[n]))'
    <3> SUFFICES ASSUME NEW n \in DOMAIN clientIn'
                 PROVE  (Right(clientIn[n]))'
      OBVIOUS
    <3>1. CASE n \in DOMAIN clientIn /\ clientIn'[n] = clientIn[n]
      <4>1. PICK r \in Replies : r = clientIn[n] /\ Right(r)
        BY <1>4, <3>1, AnswersTyped DEF InTurn, Answers
      <4>2. (Right(r))' /\ clientIn'[n] = r
        BY <2>1, <3>1, <4>1
      <4> QED BY <4>2 DEF Right
    <3>2. CASE jpc[clientIn'[n].j] # "idle" /\ ~Joining(clientIn'[n].j)
      BY <1>3, <3>2 DEF Right, Joining
    <3> QED BY <2>3, <3>1, <3>2
  <2>5. \A n \in DOMAIN tx' : (Right(tx[n].reply))'
    <3> SUFFICES ASSUME NEW n \in DOMAIN tx
                 PROVE  (Right(tx[n].reply))'
      BY <1>3
    <3>1. PICK r \in Replies : r = tx[n].reply /\ Right(r)
      BY <1>4, AnswersTyped DEF InTurn, Answers
    <3>2. (Right(r))' /\ tx'[n].reply = r
      BY <1>3, <2>1, <3>1
    <3> QED BY <3>2 DEF Right
  <2>6. \A m, n \in DOMAIN clientIn' :
          (Joining(clientIn[m].j))' /\ (Joining(clientIn[n].j))' => m = n
    BY <1>3, <2>3 DEF InTurn, Answers, Joining
  <2>7. \A m \in DOMAIN clientIn', n \in DOMAIN tx' :
          ~((Joining(clientIn[m].j))' /\ (Joining(tx[n].reply.j))')
    BY <1>3, <2>3 DEF InTurn, Answers, Joining
  <2>8. \A m, n \in DOMAIN tx' :
          (Joining(tx[m].reply.j))' /\ (Joining(tx[n].reply.j))' => m = n
    BY <1>3 DEF InTurn, Answers, Joining
  <2> QED BY <2>4, <2>5, <2>6, <2>7, <2>8 DEF Answers
<1> QED BY <1>8, <1>9, <1>10, <1>11 DEF InTurn

\* What a session answers to a datagram, and what it makes of it: an alert is the
\* end of it, an answer has its key, a request was made with its key, and only when
\* the handshake begins again there is a new one.
AnswerOf(s, d, r, x) ==
  /\ x.j = d.j /\ ~r.request
  /\ x.kind = "done" => r.s.mState = "Ready" /\ r.s.peer = d.j
  /\ x.kind = "alert" => ~Alive(r.s)
  /\ x.kind \notin {"verify", "alert"} => x.key = s.key
Answering(s, d, r) ==
  /\ r.s.in = s.in /\ r.s.peer \in {s.peer, d.j} /\ r.s.own = s.own
  /\ r.out = <<>> \/ \E x \in Replies : r.out = <<x>> /\ AnswerOf(s, d, r, x)
  /\ r.s.mState = "Close" => d.kind = "bye" /\ d.j = s.peer
  /\ s.mState = "Ready" /\ s.peer = d.j /\ d.kind = "fin" => r.s = s
  /\ s.mState = "Ready" /\ s.peer = d.j /\ d.kind = "bye" => r.out = <<>> /\ ~r.request
  /\ r.request => s.mState = "Ready" /\ d.key = s.key /\ r.s = s
  /\ r.s.key = s.key \/ (r.s.key = Fresh /\ r.s.mState = "Handshaking" /\ r.out = <<>>)

LEMMA SayOne ==
  ASSUME NEW s \in Sessions, NEW j \in Joiners, NEW kind \in Kinds2
  PROVE  \E x \in Replies : /\ Say(s, j, kind) = <<x>> /\ x.j = j /\ x.kind = kind
                            /\ kind \in {"flight", "done"} => x.key = s.key
<1> DEFINE m == [j |-> j, kind |-> kind,
                 key |-> IF kind \in {"flight", "done"} THEN s.key ELSE 0]
<1>1. /\ m \in Replies /\ m.j = j /\ m.kind = kind
      /\ kind \in {"flight", "done"} => m.key = s.key
  BY DEF Replies, Sessions
<1>2. Say(s, j, kind) = <<m>>
  BY DEF Say
<1> HIDE DEF m
<1> QED BY <1>1, <1>2

LEMMA FailedAnswering ==
  ASSUME NEW s \in Sessions, NEW d \in Datagrams, NEW r, NEW kind \in {"verify", "alert"},
         r = Failed(s, <<>>) \/ r = Failed(s, Say(s, d.j, kind)),
         s.mState = "Ready" => s.peer # d.j \/ d.kind \notin {"fin", "bye"}
  PROVE  Answering(s, d, r)
<1> DEFINE t == [s EXCEPT !.mState = "Error"]
<1>1. t.in = s.in /\ t.peer = s.peer /\ t.own = s.own /\ t.mState = "Error" /\ t.key = s.key
  BY DEF Sessions
<1>2. PICK out : r = Res(t, out, FALSE) /\ (out = <<>> \/ out = Say(s, d.j, kind))
  BY DEF Failed
<1>3. PICK x \in Replies : Say(s, d.j, kind) = <<x>> /\ x.j = d.j /\ x.kind = kind
  BY SayOne DEF Datagrams, Kinds2
<1> HIDE DEF t
<1>4. r.s = t /\ r.out = out /\ r.request = FALSE
  BY <1>2 DEF Res
<1> QED BY <1>1, <1>2, <1>3, <1>4 DEF Answering, AnswerOf, Alive

LEMMA SaidAnswering ==
  ASSUME NEW s \in Sessions, NEW d \in Datagrams, NEW r, NEW t \in Sessions,
         NEW kind \in {"verify", "flight", "done"},
         r = Res(t, Say(s, d.j, kind), FALSE),
         t.in = s.in, t.peer \in {s.peer, d.j}, t.own = s.own, t.mState # "Close",
         t.key = s.key, kind = "done" => t.mState = "Ready" /\ t.peer = d.j,
         d.kind \notin {"fin", "bye"}
  PROVE  Answering(s, d, r)
<1>1. PICK x \in Replies : /\ Say(s, d.j, kind) = <<x>> /\ x.j = d.j /\ x.kind = kind
                           /\ kind \in {"flight", "done"} => x.key = s.key
  BY SayOne DEF Datagrams, Kinds2
<1>2. r.s = t /\ r.out = Say(s, d.j, kind) /\ r.request = FALSE
  BY DEF Res
<1> QED BY <1>1, <1>2 DEF Answering, AnswerOf

LEMMA NothingAnswering ==
  ASSUME NEW s \in Sessions, NEW d \in Datagrams, NEW r, NEW t \in Sessions,
         NEW request \in BOOLEAN, r = Res(t, <<>>, request),
         t.in = s.in, t.peer \in {s.peer, d.j}, t.own = s.own,
         t.mState = "Close" => d.kind = "bye" /\ d.j = s.peer,
         s.mState = "Ready" /\ s.peer = d.j /\ d.kind = "fin" => t = s,
         request => d.kind = "fin" /\ s.mState = "Ready" /\ d.key = s.key /\ t = s,
         t.key = s.key \/ (t.key = Fresh /\ t.mState = "Handshaking")
  PROVE  Answering(s, d, r)
<1>1. r.s = t /\ r.out = <<>> /\ r.request = request
  BY DEF Res
<1> QED BY <1>1 DEF Answering

LEMMA HandshakeAnswering ==
  ASSUME NEW s \in Sessions, s.mState = "Handshaking",
         NEW d \in Datagrams, NEW r \in Handshake(s, d)
  PROVE  Answering(s, d, r)
<1>1. d.j \in Joiners /\ d.kind \in Kinds
  BY DEF Datagrams
<1>2. ASSUME \/ r = Failed(s, <<>>)
             \/ \E kind \in {"verify", "alert"} : r = Failed(s, Say(s, d.j, kind))
      PROVE  Answering(s, d, r)
  BY <1>1, <1>2, FailedAnswering
<1>3. ASSUME r = Nothing(s)
      PROVE  Answering(s, d, r)
  BY <1>3, NothingAnswering DEF Nothing
<1>4. CASE s.expects = "hello"
  <2> DEFINE t == [s EXCEPT !.expects = "key", !.peer = d.j]
  <2>1. /\ t \in Sessions /\ t.in = s.in /\ t.peer = d.j /\ t.own = s.own
        /\ t.mState = "Handshaking" /\ t.key = s.key
    BY <1>1 DEF Sessions
  <2>2. \/ \E kind \in {"verify", "alert"} : r = Failed(s, Say(s, d.j, kind))
        \/ r = Failed(s, <<>>)
        \/ r = Res(t, Say(s, d.j, "flight"), FALSE) /\ d.kind = "cookie"
        \/ r = Nothing(s)
    BY <1>1, <1>4 DEF Handshake, Kinds
  <2> HIDE DEF t
  <2>3. ASSUME r = Res(t, Say(s, d.j, "flight"), FALSE), d.kind = "cookie"
        PROVE  Answering(s, d, r)
    BY <1>1, <2>1, <2>3, SaidAnswering
  <2> QED BY <1>2, <1>3, <2>2, <2>3
<1>5. CASE s.expects # "hello"
  <2> DEFINE t == [s EXCEPT !.mState = "Ready"]
  <2>1. /\ t \in Sessions /\ t.in = s.in /\ t.peer = s.peer /\ t.own = s.own
        /\ t.mState = "Ready" /\ t.key = s.key
    BY DEF Sessions
  <2>2. \/ r = Failed(s, Say(s, d.j, "alert"))
        \/ r = Failed(s, <<>>)
        \/ r = Res(t, Say(s, d.j, "done"), FALSE) /\ d.kind = "key" /\ d.j = s.peer
        \/ r = Res(s, Say(s, d.j, "flight"), FALSE) /\ d.kind = "cookie"
        \/ r = Nothing(s)
    BY <1>1, <1>5 DEF Handshake, Kinds
  <2> HIDE DEF t
  <2>3. ASSUME r = Res(t, Say(s, d.j, "done"), FALSE), d.kind = "key", d.j = s.peer
        PROVE  Answering(s, d, r)
    BY <1>1, <2>1, <2>3, SaidAnswering
  <2>4. ASSUME r = Res(s, Say(s, d.j, "flight"), FALSE), d.kind = "cookie"
        PROVE  Answering(s, d, r)
    BY <1>1, <2>4, SaidAnswering
  <2> QED BY <1>2, <1>3, <2>2, <2>3, <2>4
<1> QED BY <1>4, <1>5

LEMMA ReadAnswering ==
  ASSUME NEW s \in Sessions, s.mState = "Ready", NEW d \in Datagrams, Fresh \in Ids
  PROVE  Answering(s, d, Read(s, d))
<1>1. d.j \in Joiners /\ d.kind \in Kinds
  BY DEF Datagrams
<1> DEFINE t == [s EXCEPT !.mState = "Handshaking", !.expects = "hello", !.peer = d.j,
                          !.key = Fresh]
           u == [s EXCEPT !.mState = "Close"]
<1>2. /\ t \in Sessions /\ t.in = s.in /\ t.peer = d.j /\ t.own = s.own
      /\ t.mState = "Handshaking" /\ t.key = Fresh
  BY <1>1 DEF Sessions
<1>3. /\ u \in Sessions /\ u.in = s.in /\ u.peer = s.peer /\ u.own = s.own /\ u.mState = "Close"
      /\ u.key = s.key
  BY DEF Sessions
<1> DEFINE ours == d.j = s.peer /\ d.key = s.key
<1>4. \/ d.kind = "hello" /\ Read(s, d) = Res(s, Say(s, d.j, "verify"), FALSE)
      \/ d.kind = "cookie" /\ Read(s, d) = Res(t, <<>>, FALSE)
      \/ Read(s, d) = Res(s, <<>>, FALSE)
      \/ ours /\ d.kind = "fin" /\ Read(s, d) = Res(s, <<>>, TRUE)
      \/ ours /\ d.kind = "key" /\ Read(s, d) = Res(s, Say(s, d.j, "done"), FALSE)
      \/ ours /\ d.kind = "bye" /\ Read(s, d) = Res(u, <<>>, FALSE)
      \/ d.kind = "abort" /\ Read(s, d) = Failed(s, <<>>)
  BY <1>1 DEF Read, Kinds, Nothing
<1> HIDE DEF t, u
<1>5. CASE d.kind = "hello" /\ Read(s, d) = Res(s, Say(s, d.j, "verify"), FALSE)
  BY <1>1, <1>5, SaidAnswering
<1>6. CASE d.kind = "cookie" /\ Read(s, d) = Res(t, <<>>, FALSE)
  BY <1>1, <1>2, <1>6, NothingAnswering
<1>7. CASE Read(s, d) = Res(s, <<>>, FALSE)
  BY <1>1, <1>7, NothingAnswering
<1>8. CASE ours /\ d.kind = "fin" /\ Read(s, d) = Res(s, <<>>, TRUE)
  BY <1>1, <1>8, NothingAnswering
<1>9. CASE ours /\ d.kind = "key" /\ Read(s, d) = Res(s, Say(s, d.j, "done"), FALSE)
  BY <1>1, <1>9, SaidAnswering
<1>10. CASE ours /\ d.kind = "bye" /\ Read(s, d) = Res(u, <<>>, FALSE)
  BY <1>1, <1>3, <1>10, NothingAnswering
<1>11. CASE d.kind = "abort" /\ Read(s, d) = Failed(s, <<>>)
  BY <1>1, <1>11, FailedAnswering
<1> QED BY <1>4, <1>5, <1>6, <1>7, <1>8, <1>9, <1>10, <1>11

\* Session s, u when the datagram is taken from its socket, becomes session t.
Reads(s, u, t, d, r) ==
  /\ t.in = u.in /\ t.peer = r.s.peer /\ t.mState = r.s.mState /\ t.id = s.id
  /\ t.key = s.key \/ (t.key = Fresh /\ t.mState = "Handshaking" /\ clientIn' = clientIn)
  /\ r.request => t.mState = "Ready" /\ d.key = s.key
  /\ r.s.own => t.own
  /\ mNeedAppendKek' = (mNeedAppendKek \/ r.request)
  /\ (s.mState = "Handshaking" /\ t.mState = "Ready") \/ mKek' = mKek
  /\ \/ clientIn' = clientIn /\ ~r.request
     \/ \E x \in Replies :
          /\ clientIn' = Append(clientIn, x) /\ x.j = d.j
          /\ ~(u.mState = "Ready" /\ u.peer = d.j /\ d.kind = "bye")
          /\ x.kind = "done" => t.mState = "Ready" /\ t.own /\ t.peer = d.j
          /\ x.kind = "alert" => ~Alive(t)
          /\ x.kind \notin {"verify", "alert"} => x.key = s.key

LEMMA ProcessAnswers ==
  ASSUME Types, NEW s \in Sessions, NEW u \in Sessions, NEW d \in Datagrams, NEW r,
         Single, s.key = u.key, r.s.id = s.id, r.s \in Sessions, Answering(u, d, r),
         Process(s, d, r),
         r.request => s \in mSessions /\ mDtlsSession = s.id
  PROVE  \E t \in Sessions :
           /\ mSessions' = (mSessions \ {s}) \cup {t}
           /\ Reads(s, u, t, d, r)
<1> DEFINE toReady == s.mState = "Handshaking" /\ r.s.mState = "Ready"
           t == [r.s EXCEPT !.kek = IF toReady THEN Exported(s) ELSE @,
                            !.own = @ \/ r.out # <<>>]
           response == IF r.request /\ mDtlsSession # 0
                         THEN <<[j |-> d.j, kind |-> "rsp", key |-> KeyOf(mDtlsSession)]>> ELSE <<>>
<1>1. Exported(s) \in Ids \cup {0}
  BY DEF Exported, Sessions
<1>2. /\ t \in Sessions /\ t.in = u.in /\ t.peer = r.s.peer /\ t.mState = r.s.mState
      /\ t.id = s.id /\ t.key = r.s.key
      /\ r.request => t.mState = "Ready" /\ d.key = s.key /\ t.key = s.key
  <2>1. /\ r.s.in = u.in
        /\ r.request => u.mState = "Ready" /\ d.key = s.key /\ r.s = u
    BY DEF Answering
  <2> HIDE DEF toReady
  <2> QED BY <1>1, <2>1 DEF Sessions
<1>3. r.s.own \/ r.out # <<>> => t.own
  BY <1>1 DEF Sessions
<1>4. /\ mSessions' = (mSessions \ {s}) \cup {t} /\ clientIn' = clientIn \o r.out \o response
      /\ mNeedAppendKek' = (mNeedAppendKek \/ r.request)
      /\ toReady \/ mKek' = mKek
  BY DEF Process
<1> DEFINE m == [j |-> d.j, kind |-> "rsp", key |-> s.key]
<1>5. m \in Replies /\ m.j = d.j /\ m.kind = "rsp" /\ m.key = s.key /\ clientIn \in Seq(Replies)
  BY AnswersTyped DEF Datagrams, Replies, Kinds2, Sessions
<1>6. IF r.request THEN response = <<m>> ELSE response = <<>>
  <2>1. ASSUME r.request
        PROVE  KeyOf(mDtlsSession) = s.key /\ mDtlsSession # 0
    BY <2>1, RelayAssumption DEF KeyOf, Single, Sessions
  <2> QED BY <2>1
<1> HIDE DEF t, response, m
<1>7. CASE r.out = <<>>
  <2>1. clientIn' = clientIn \o response
    BY <1>4, <1>5, <1>7, ConcatEmptySeq
  <2>2. CASE ~r.request
    <3>1. clientIn' = clientIn
      BY <1>5, <1>6, <2>1, <2>2, ConcatEmptySeq
    <3>2. t.key = s.key \/ (t.key = Fresh /\ t.mState = "Handshaking")
      BY <1>2 DEF Answering
    <3> QED BY <1>2, <1>3, <1>4, <2>2, <3>1, <3>2 DEF Reads
  <2>3. CASE r.request
    <3>1. clientIn' = Append(clientIn, m)
      BY <1>5, <1>6, <2>1, <2>3, AppendIsConcat
    <3>2. ~(u.mState = "Ready" /\ u.peer = d.j /\ d.kind = "bye")
      BY <2>3 DEF Answering
    <3> QED BY <1>2, <1>3, <1>4, <2>3, <1>5, <3>1, <3>2 DEF Reads
  <2> QED BY <1>6, <2>2, <2>3
<1>8. CASE r.out # <<>>
  <2>1. PICK x \in Replies :
          /\ r.out = <<x>> /\ x.j = d.j /\ ~r.request
          /\ x.kind = "done" => r.s.mState = "Ready" /\ r.s.peer = d.j
          /\ x.kind = "alert" => ~Alive(r.s)
          /\ x.kind \notin {"verify", "alert"} => x.key = u.key
    BY <1>8 DEF Answering, AnswerOf
  <2>2. clientIn \o r.out = Append(clientIn, x) /\ Append(clientIn, x) \in Seq(Replies)
    BY <1>5, <2>1, AppendIsConcat, AppendProperties
  <2>3. clientIn' = Append(clientIn, x)
    BY <1>4, <1>6, <2>1, <2>2, ConcatEmptySeq
  <2>4. ~(u.mState = "Ready" /\ u.peer = d.j /\ d.kind = "bye")
    BY <1>8 DEF Answering
  <2>5. x.kind = "alert" => ~Alive(t)
    BY <1>2, <2>1 DEF Alive
  <2>6. t.key = s.key
    BY <1>2, <1>8 DEF Answering
  <2> QED BY <1>2, <1>3, <1>4, <1>8, <2>1, <2>3, <2>4, <2>5, <2>6 DEF Reads
<1> QED BY <1>7, <1>8

\* Nobody waits for an answer under way; a new one is for x.j.
LEMMA OneMoreAnswer ==
  ASSUME Types, InTurn, ~Quiet, UNCHANGED <<jpc, tx>>,
         \/ clientIn' = clientIn
         \/ \E x \in Replies : /\ clientIn' = Append(clientIn, x) /\ jpc[x.j] # "idle"
                               /\ Quiet' /\ (x.kind = "done" => (Connected(x.j))')
  PROVE  Answers'
<1>1. /\ \A n \in DOMAIN clientIn : jpc[clientIn[n].j] # "idle" /\ ~Joining(clientIn[n].j)
      /\ \A n \in DOMAIN tx : jpc[tx[n].reply.j] # "idle" /\ ~Joining(tx[n].reply.j)
  BY DEF InTurn, Answers, Right
<1>2. CASE clientIn' = clientIn
  BY <1>1, <1>2 DEF Answers, Right, Joining
<1>3. ASSUME NEW x \in Replies, clientIn' = Append(clientIn, x), jpc[x.j] # "idle",
             Quiet' /\ (x.kind = "done" => (Connected(x.j))')
      PROVE  Answers'
  <2>1. \A n \in DOMAIN clientIn' :
          \/ jpc[clientIn'[n].j] # "idle" /\ ~Joining(clientIn'[n].j)
          \/ n = Len(clientIn) + 1 /\ clientIn'[n] = x
    BY <1>1, <1>3, AnswersTyped, AppendParts
  <2>2. \A n \in DOMAIN clientIn' : (Right(clientIn[n]))'
    <3> SUFFICES ASSUME NEW n \in DOMAIN clientIn'
                 PROVE  (Right(clientIn[n]))'
      OBVIOUS
    <3>1. CASE jpc[clientIn'[n].j] # "idle" /\ ~Joining(clientIn'[n].j)
      BY <3>1 DEF Right, Joining
    <3>2. CASE clientIn'[n] = x
      BY <1>3, <3>2 DEF Right
    <3> QED BY <2>1, <3>1, <3>2
  <2>3. \A n \in DOMAIN clientIn' : (Joining(clientIn[n].j))' => n = Len(clientIn) + 1
    BY <2>1 DEF Joining
  <2>4. \A n \in DOMAIN tx' : (Right(tx[n].reply))' /\ ~(Joining(tx[n].reply.j))'
    BY <1>1 DEF Right, Joining
  <2> QED BY <2>2, <2>3, <2>4 DEF Answers
<1> QED BY <1>2, <1>3

LEMMA SessionReads ==
  ASSUME IsFiniteSet(Joiners), ~IsFiniteSet(Ids), IndInv, SessionProcess
  PROVE  \E s \in mSessions, u \in Sessions, t \in Sessions, d \in Datagrams :
         \E r \in Outcomes(u, d) :
           /\ mSessions' = {t} /\ Answering(u, d, r) /\ Reads(s, u, t, d, r)
           /\ Own(s) \in ready /\ ready' = ready \ {Own(s)} /\ Own(t) = Own(s)
           /\ d = Head(s.in) /\ u.in = Tail(s.in) /\ u.peer = s.peer /\ u.mState = s.mState
           /\ u.own = s.own /\ u.id = s.id /\ u.key = s.key
<1>1. PICK s \in mSessions :
        /\ Own(s) \in ready /\ Done(Own(s))
        /\ \E r \in Outcomes([s EXCEPT !.in = Tail(@)], Head(s.in)) : Process(s, Head(s.in), r)
  BY DEF SessionProcess
<1>2. /\ s \in Sessions /\ s.in # <<>> /\ Alive(s) /\ Types /\ Single
      /\ mSessions = {s} /\ Fresh \in Ids
  BY <1>1, IdFree DEF IndInv, Types, TypeOK, Reported, Single
<1>3. PICK d, u : d = Head(s.in) /\ u = [s EXCEPT !.in = Tail(@)]
  OBVIOUS
<1>4. d \in Datagrams /\ Tail(s.in) \in Seq(Datagrams)
  <2>1. s.in \in Seq(Datagrams)
    BY <1>2 DEF Sessions
  <2> QED BY <1>2, <1>3, <2>1, HeadTailProperties
<1>5. /\ u \in Sessions /\ u.in = Tail(s.in) /\ u.peer = s.peer /\ u.mState = s.mState
      /\ u.own = s.own /\ u.id = s.id /\ u.key = s.key
  BY <1>2, <1>3, <1>4 DEF Sessions
<1>6. PICK r \in Outcomes(u, d) : Process(s, d, r)
  BY <1>1, <1>3
<1>7. Answering(u, d, r) /\ Kept(u, r)
  <2>1. Alive(u) /\ Kept(u, r)
    BY <1>2, <1>4, <1>5, <1>6, OutcomesKept DEF Alive
  <2>2. CASE u.mState = "Handshaking"
    BY <1>4, <1>5, <1>6, <2>1, <2>2, HandshakeAnswering DEF Outcomes
  <2>3. CASE u.mState = "Ready"
    BY <1>2, <1>4, <1>5, <1>6, <2>1, <2>3, ReadAnswering DEF Outcomes
  <2> QED BY <2>1, <2>2, <2>3 DEF Alive
<1>8. r.s \in Sessions /\ r.s.id = s.id /\ (r.request => mDtlsSession = s.id)
  BY <1>1, <1>5, <1>7 DEF Kept, Same, IndInv, Current
<1>9. PICK t \in Sessions : mSessions' = (mSessions \ {s}) \cup {t} /\ Reads(s, u, t, d, r)
  BY <1>1, <1>2, <1>4, <1>5, <1>6, <1>7, <1>8, ProcessAnswers
<1>10. mSessions' = {t} /\ ready' = ready \ {Own(s)} /\ Own(t) = Own(s)
  BY <1>1, <1>2, <1>9 DEF Done, Own, Reads
<1> QED BY <1>1, <1>3, <1>4, <1>5, <1>7, <1>9, <1>10

LEMMA SessionProcessInTurn ==
  ASSUME IsFiniteSet(Joiners), ~IsFiniteSet(Ids), IndInv, InTurn, SessionProcess
  PROVE  InTurn'
<1>0. PICK s \in mSessions, u \in Sessions, t \in Sessions, d \in Datagrams :
      \E r \in Outcomes(u, d) :
        /\ mSessions' = {t} /\ Answering(u, d, r) /\ Reads(s, u, t, d, r)
        /\ Own(s) \in ready /\ ready' = ready \ {Own(s)} /\ Own(t) = Own(s)
        /\ d = Head(s.in) /\ u.in = Tail(s.in) /\ u.peer = s.peer /\ u.mState = s.mState
        /\ u.own = s.own /\ u.id = s.id /\ u.key = s.key
  BY SessionReads
<1>1. PICK r \in Outcomes(u, d) :
        /\ mSessions' = {t} /\ Answering(u, d, r) /\ Reads(s, u, t, d, r)
        /\ Own(s) \in ready /\ ready' = ready \ {Own(s)} /\ Own(t) = Own(s)
        /\ d = Head(s.in) /\ u.in = Tail(s.in) /\ u.peer = s.peer /\ u.mState = s.mState
        /\ u.own = s.own /\ u.id = s.id /\ u.key = s.key
  BY <1>0
<1>2. UNCHANGED <<serverIn, rx, tx, jpc>>
  BY DEF SessionProcess, envVars
<1>3. s \in Sessions /\ s.own /\ s.in # <<>> /\ Alive(s) /\ Types /\ mSessions = {s}
  BY <1>1 DEF IndInv, Types, TypeOK, Reported, Single
<1>4. d = Head(s.in)
  BY <1>1
<1>5. d \in Datagrams
  OBVIOUS
<1>6. /\ u \in Sessions /\ u.in = Tail(s.in) /\ u.peer = s.peer /\ u.mState = s.mState
      /\ u.own = s.own /\ u.id = s.id
  BY <1>1
<1>8. Answering(u, d, r)
  BY <1>1
<1>9. /\ t.in = u.in /\ t.peer = r.s.peer /\ t.mState = r.s.mState
      /\ r.s.own => t.own
      /\ \/ clientIn' = clientIn
         \/ \E x \in Replies :
              /\ clientIn' = Append(clientIn, x) /\ x.j = d.j
              /\ ~(u.mState = "Ready" /\ u.peer = d.j /\ d.kind = "bye")
              /\ x.kind = "done" => t.mState = "Ready" /\ t.own /\ t.peer = d.j
  BY <1>1 DEF Reads
<1>10. mSessions' = {t}
  BY <1>1
<1>12. /\ \A k : (Joining(k))' = Joining(k)
       /\ Flights' = Flights /\ Flights \subseteq Datagrams /\ Byes \subseteq Datagrams
  BY <1>2 DEF Joining, Flights, Byes
<1>13. Turns' /\ ~Quiet
  BY <1>2, <1>3, <1>12 DEF InTurn, Turns, Quiet, Queues
<1>14. CASE d \in Flights /\ Queues(<<>>, <<>>, <<d>>)
  <2>1. Tail(<<d>>) = <<>> /\ s.in = <<d>>
    BY <1>3, <1>5, <1>14, Tuples DEF Queues
  <2>2. Quiet'
    BY <1>2, <1>6, <1>9, <1>10, <1>14, <2>1 DEF Quiet, Queues
  <2>3. Joining(d.j) /\ d.kind = jpc[d.j] /\ d.kind # "bye" /\ jpc[d.j] # "idle" /\ d.j \in Joiners
    BY <1>14 DEF Flights, Joining, Datagrams, Types, TypeOK, IndInv
  <2>4. Finishing'
    <3> SUFFICES ASSUME NEW k \in Joiners, jpc[k] = "fin"
                 PROVE  (Connected(k))'
      BY <1>2 DEF Finishing
    <3>1. k = d.j /\ d.kind = "fin"
      BY <2>3 DEF InTurn, Turns, Joining
    <3>2. s.mState = "Ready" /\ s.peer = k
      BY <1>3 DEF InTurn, Finishing, Connected
    <3>3. r.s = u
      BY <1>6, <1>8, <3>1, <3>2 DEF Answering
    <3> QED BY <1>3, <1>6, <1>9, <1>10, <3>2, <3>3 DEF Connected
  <2>5. Peers'
    <3>1. t.mState # "Close" /\ jpc[t.peer] # "idle"
      BY <1>3, <1>6, <1>8, <1>9, <2>3 DEF Answering, InTurn, Peers
    <3> QED BY <1>2, <1>10, <3>1 DEF Peers
  <2>6. Answers'
    <3>1. ASSUME NEW x \in Replies, clientIn' = Append(clientIn, x), x.j = d.j,
                 x.kind = "done" => t.mState = "Ready" /\ t.own /\ t.peer = d.j
          PROVE  /\ jpc[x.j] # "idle" /\ Quiet'
                 /\ x.kind = "done" => (Connected(x.j))'
      BY <1>10, <2>2, <2>3, <3>1 DEF Connected
    <3> QED BY <1>2, <1>3, <1>9, <1>13, <3>1, OneMoreAnswer
  <2> QED BY <1>13, <2>2, <2>4, <2>5, <2>6 DEF InTurn, Line
<1>15. CASE /\ d \in Byes /\ \A j \in Joiners : Joining(j) => jpc[j] = "hello"
            /\ \/ Queues(<<>>, <<>>, <<d>>)
               \/ \E f \in Flights : Queues(<<f>>, <<>>, <<d>>) \/ Queues(<<>>, <<>>, <<d, f>>)
  <2>1. s.mState = "Ready" /\ s.peer = d.j /\ d.kind = "bye" /\ jpc[d.j] = "joined"
    BY <1>3, <1>15 DEF Byes, Connected
  <2>2. clientIn' = clientIn
    BY <1>6, <1>9, <2>1
  <2>3. Line'
    <3>1. CASE Queues(<<>>, <<>>, <<d>>)
      <4>1. Tail(<<d>>) = <<>> /\ s.in = <<d>>
        BY <1>3, <1>5, <3>1, Tuples DEF Queues
      <4> QED BY <1>2, <1>6, <1>9, <1>10, <3>1, <4>1 DEF Quiet, Queues, Line
    <3>2. ASSUME NEW f \in Flights, Queues(<<f>>, <<>>, <<d>>)
          PROVE  Line'
      <4>1. Tail(<<d>>) = <<>> /\ s.in = <<d>>
        BY <1>3, <1>5, <3>2, Tuples DEF Queues
      <4>2. Queues(<<f>>, <<>>, <<>>)'
        BY <1>2, <1>6, <1>9, <1>10, <3>2, <4>1 DEF Queues
      <4> QED BY <1>12, <4>2 DEF OneFlight, Line
    <3>3. ASSUME NEW f \in Flights, Queues(<<>>, <<>>, <<d, f>>)
          PROVE  Line'
      <4>1. Tail(<<d, f>>) = <<f>> /\ s.in = <<d, f>>
        BY <1>3, <1>5, <1>12, <3>3, Tuples DEF Queues
      <4>2. Queues(<<>>, <<>>, <<f>>)'
        BY <1>2, <1>6, <1>9, <1>10, <3>3, <4>1 DEF Queues
      <4> QED BY <1>12, <4>2 DEF OneFlight, Line
    <3> QED BY <1>15, <3>1, <3>2, <3>3
  <2>4. Finishing'
    BY <1>2, <1>15 DEF Finishing, Joining
  <2>5. Peers'
    <3>1. t.peer = d.j /\ ~Joining(d.j) /\ jpc[d.j] # "idle"
      BY <1>6, <1>8, <1>9, <2>1 DEF Answering, Joining
    <3> QED BY <1>2, <1>10, <1>12, <3>1 DEF Peers
  <2>6. Answers'
    BY <1>2, <1>3, <1>13, <2>2, OneMoreAnswer
  <2> QED BY <1>13, <2>3, <2>4, <2>5, <2>6 DEF InTurn
<1> QED
  <2>1. \A a, b, c : Queues(a, b, c) => s.in = c
    BY <1>3 DEF Queues
  <2>2. CASE OneFlight
    <3>1. PICK f \in Flights : Queues(<<>>, <<>>, <<f>>)
      BY <1>3, <2>1, <2>2 DEF OneFlight
    <3>2. d = f
      BY <1>4, <1>12, <2>1, <3>1, Tuples
    <3> QED BY <1>14, <3>1, <3>2
  <2>3. CASE ByeFirst
    <3>1. PICK b \in Byes :
            \/ Queues(<<>>, <<>>, <<b>>)
            \/ \E f \in Flights : Queues(<<f>>, <<>>, <<b>>) \/ Queues(<<>>, <<>>, <<b, f>>)
      BY <1>3, <2>1, <2>3 DEF ByeFirst
    <3>2. d = b
      <4>1. CASE s.in = <<b>>
        BY <1>4, <1>12, <4>1, Tuples
      <4>2. ASSUME NEW f \in Flights, s.in = <<b, f>>
            PROVE  d = b
        BY <1>4, <1>12, <4>2, Tuples
      <4> QED BY <2>1, <3>1, <4>1, <4>2
    <3> QED BY <1>15, <2>3, <3>1, <3>2 DEF ByeFirst
  <2> QED BY <1>13, <2>2, <2>3 DEF InTurn, Line

\* A new session for datagram d.
LEMMA ServerReads ==
  ASSUME IsFiniteSet(Joiners), ~IsFiniteSet(Ids), IndInv, ServerAccepts, ~Blocks(Head(serverIn))
  PROVE  \E d \in Datagrams, s \in Sessions, t \in Sessions :
         \E r \in Handshake(s, d) :
           /\ mSessions = {} /\ mSessions' = {t} /\ Answering(s, d, r) /\ Reads(s, s, t, d, r)
           /\ d = Head(serverIn) /\ ready' = ready \ {Server} /\ UNCHANGED halt
           /\ s.mState = "Handshaking" /\ s.expects = "hello" /\ s.peer = d.j /\ s.in = <<>>
           /\ s.key = Fresh /\ t.mState # "Ready" /\ ~r.request /\ Own(t) \notin ready'
<1>1. Types /\ Single /\ Server \in ready /\ (\A q \in Sessions : Own(q) \notin ready)
  BY Where DEF IndInv, ServerAccepts
<1>2. /\ serverIn # <<>> /\ serverIn \in Seq(Datagrams) /\ mSessions = {}
  BY <1>1 DEF IndInv, Served, Types, TypeOK, Opening, ServerAccepts
<1>3. PICK d, s : d = Head(serverIn) /\ s = NewSession(Fresh, d)
  OBVIOUS
<1>4. d \in Datagrams
  BY <1>2, <1>3, HeadTailProperties
<1>5. /\ UNCHANGED halt /\ ready' = ready \ {Server}
      /\ \E r \in Handshake(s, d) : Process(s, d, r)
  BY <1>3 DEF ServerAccepts, Done
<1>6. Fresh \in Ids
  BY <1>1, IdFree
<1>7. /\ s \in Sessions /\ s.mState = "Handshaking" /\ s.expects = "hello" /\ s.peer = d.j
      /\ s.in = <<>> /\ s.key = Fresh
  <2>1. <<>> \in Seq(Datagrams)
    OBVIOUS
  <2> QED BY <1>1, <1>3, <1>4, <1>6, <2>1 DEF NewSession, Sessions, Datagrams, Types, TypeOK
<1>8. PICK r \in Handshake(s, d) : Process(s, d, r)
  BY <1>5
<1>9. /\ Answering(s, d, r) /\ r.s \in Sessions /\ r.s.id = s.id /\ r.s.mState # "Ready"
      /\ ~r.request
  BY <1>4, <1>7, <1>8, HandshakeAnswering, HandshakeKept DEF Kept, Same
<1>10. PICK t \in Sessions : mSessions' = (mSessions \ {s}) \cup {t} /\ Reads(s, s, t, d, r)
  BY <1>1, <1>4, <1>7, <1>8, <1>9, ProcessAnswers
<1>11. mSessions' = {t} /\ t.mState # "Ready" /\ Own(t) \notin ready'
  BY <1>1, <1>2, <1>5, <1>9, <1>10 DEF Reads
<1> QED BY <1>2, <1>3, <1>4, <1>5, <1>7, <1>8, <1>9, <1>10, <1>11

\* While nothing is in the server's socket, or a joiner's next flight that opens a session.
LEMMA ServerAcceptsInTurn ==
  ASSUME IsFiniteSet(Joiners), ~IsFiniteSet(Ids), IndInv, InTurn, ServerAccepts
  PROVE  InTurn' /\ UNCHANGED halt
<1>1. Types /\ Server \in ready /\ at = "server" /\ (\A q \in Sessions : Own(q) \notin ready)
  BY Where DEF IndInv, ServerAccepts
<1>2. /\ serverIn # <<>> /\ serverIn \in Seq(Datagrams) /\ mSessions = {}
  BY <1>1 DEF IndInv, Served, Types, TypeOK, Opening
<1>3. PICK d \in Flights : Queues(<<>>, <<d>>, <<>>)
  BY <1>2 DEF InTurn, Line, Quiet, OneFlight, ByeFirst, Queues
<1>4. /\ d \in Datagrams /\ serverIn = <<d>> /\ d = Head(serverIn) /\ Tail(serverIn) = <<>>
      /\ rx = <<>>
  <2>1. d \in Datagrams
    BY DEF Flights
  <2> QED BY <1>3, <2>1, Tuples DEF Queues
<1>5. /\ Joining(d.j) /\ d.kind = jpc[d.j] /\ jpc[d.j] # "idle" /\ d.j \in Joiners
      /\ d.kind \in {"hello", "cookie", "key"}
  <2>1. ~Connected(d.j)
    BY <1>2 DEF Connected
  <2> QED BY <1>1, <1>4, <2>1, Stages DEF Flights, InTurn, Finishing, Datagrams
<1>6. PICK s \in Sessions, t \in Sessions : \E r \in Handshake(s, d) :
        /\ mSessions' = {t} /\ Answering(s, d, r) /\ Reads(s, s, t, d, r)
        /\ ready' = ready \ {Server} /\ UNCHANGED halt /\ Own(t) \notin ready'
        /\ s.mState = "Handshaking" /\ s.peer = d.j /\ s.in = <<>> /\ t.mState # "Ready"
  <2>1. ~Blocks(Head(serverIn))
    BY <1>4, <1>5 DEF Blocks
  <2> QED BY <1>4, <2>1, ServerReads
<1>7. serverIn' = <<>> /\ UNCHANGED <<rx, tx, jpc>>
  BY <1>4 DEF ServerAccepts, envVars
<1>8. PICK r \in Handshake(s, d) : Answering(s, d, r) /\ Reads(s, s, t, d, r)
  BY <1>6
<1>12. /\ t.in = s.in /\ t.peer = r.s.peer /\ t.mState = r.s.mState
       /\ \/ clientIn' = clientIn
          \/ \E x \in Replies :
               /\ clientIn' = Append(clientIn, x) /\ x.j = d.j
               /\ x.kind = "done" => t.mState = "Ready" /\ t.own /\ t.peer = d.j
  BY <1>8 DEF Reads
<1>13. mSessions' = {t} /\ t.in = <<>>
  BY <1>6, <1>12
<1>14. Quiet' /\ ~Quiet
  BY <1>2, <1>4, <1>7, <1>13 DEF Quiet, Queues
<1>15. Turns' /\ Finishing'
  <2>1. ASSUME NEW k \in Joiners, jpc[k] = "fin"
        PROVE  FALSE
    BY <1>5, <2>1 DEF InTurn, Turns, Joining
  <2> QED BY <1>7, <2>1 DEF InTurn, Turns, Finishing, Joining
<1>16. Peers'
  <2>1. t.peer = d.j /\ t.mState # "Close"
    BY <1>5, <1>6, <1>8, <1>12 DEF Answering
  <2> QED BY <1>5, <1>7, <1>13, <2>1 DEF Peers
<1>17. Answers'
  <2>1. ASSUME NEW x \in Replies, x.j = d.j, x.kind = "done" => t.mState = "Ready"
        PROVE  jpc[x.j] # "idle" /\ Quiet' /\ (x.kind = "done" => (Connected(x.j))')
    BY <1>5, <1>6, <1>14, <2>1
  <2> QED BY <1>1, <1>7, <1>12, <1>14, <2>1, OneMoreAnswer
<1> QED BY <1>6, <1>14, <1>15, <1>16, <1>17 DEF InTurn, Line

\* The datagram is dropped, or goes to the session, or to the server.
SameOtherwise(s, t) ==
  /\ t.id = s.id /\ t.peer = s.peer /\ t.mState = s.mState /\ t.own = s.own /\ t.key = s.key
Dropped == UNCHANGED <<mSessions, serverIn>>
ToSession ==
  \E s, t \in Sessions : /\ mSessions = {s} /\ mSessions' = {t} /\ UNCHANGED serverIn
                         /\ t.in = Append(s.in, Head(rx)) /\ SameOtherwise(s, t)
ToServer ==
  /\ UNCHANGED mSessions /\ serverIn' = Append(serverIn, Head(rx))
  /\ \A s \in mSessions : ~s.own

LEMMA RelayReceives ==
  ASSUME IndInv, HandleRelayReceive
  PROVE  /\ Dropped \/ ToSession \/ ToServer
         /\ rx # <<>> /\ rx \in Seq(Datagrams) /\ Head(rx) \in Datagrams
<1>1. Demux(Head(rx)) \/ UNCHANGED <<mSessions, serverIn>>
  BY DEF HandleRelayReceive
<1>2. /\ Types /\ Single /\ rx # <<>> /\ rx \in Seq(Datagrams)
      /\ \A s \in mSessions : s \in Sessions
  BY Where DEF IndInv, Reported, HandleRelayReceive, Types, TypeOK
<1>3. Head(rx) \in Datagrams
  BY <1>2, HeadTailProperties
<1>4. CASE Demux(Head(rx)) /\ {s \in mSessions : s.own} # {}
  <2>1. PICK s \in mSessions :
           mSessions' = (mSessions \ {s}) \cup {[s EXCEPT !.in = Append(@, Head(rx))]}
    BY <1>4 DEF Demux
  <2>2. serverIn' = serverIn
    BY <1>4 DEF Demux
  <2>3. Append(s.in, Head(rx)) \in Seq(Datagrams)
    BY <1>2, <1>3, AppendProperties DEF Sessions
  <2>4. PICK t \in Sessions : /\ t = [s EXCEPT !.in = Append(@, Head(rx))]
                             /\ t.in = Append(s.in, Head(rx)) /\ SameOtherwise(s, t)
    <3> DEFINE u == [s EXCEPT !.in = Append(@, Head(rx))]
    <3>1. u \in Sessions /\ u.in = Append(s.in, Head(rx)) /\ SameOtherwise(s, u)
      BY <1>2, <2>3 DEF Sessions, SameOtherwise
    <3> HIDE DEF u
    <3>2. \E t \in Sessions : t = u
      BY <3>1
    <3> QED BY <3>1, <3>2 DEF u
  <2>5. mSessions = {s} /\ mSessions' = {t}
    BY <1>2, <2>1, <2>4 DEF Single
  <2> QED BY <1>2, <1>3, <2>2, <2>4, <2>5 DEF ToSession
<1>5. CASE Demux(Head(rx)) /\ {s \in mSessions : s.own} = {}
  BY <1>2, <1>3, <1>5 DEF Demux, Dropped, ToServer
<1> QED BY <1>1, <1>2, <1>3, <1>4, <1>5 DEF Dropped

LEMMA RelayReceiveInTurn ==
  ASSUME IndInv, InTurn, HandleRelayReceive
  PROVE  InTurn'
<1>1. rx' = Tail(rx) /\ Done(Leader) /\ UNCHANGED <<clientIn, tx, jpc>>
  BY DEF HandleRelayReceive, envVars
<1>2. /\ Types /\ Single /\ rx # <<>> /\ rx \in Seq(Datagrams)
      /\ \A s \in mSessions : s \in Sessions
  BY Where DEF IndInv, Reported, HandleRelayReceive, Types, TypeOK
<1>3. \A s \in Sessions : Own(s) \notin ready'
  <2>1. ready \subseteq {Leader, Client} /\ ready' \subseteq ready
    BY <1>1, <1>2, Where DEF IndInv, HandleRelayReceive, Done
  <2> QED BY <2>1 DEF Own, Leader, Client
<1>4. Dropped \/ ToSession \/ ToServer
  BY RelayReceives
<1>5. /\ \A k \in Joiners : Connected(k) => (Connected(k))'
      /\ \A t \in mSessions' : t \in Sessions /\ \E s \in mSessions : SameOtherwise(s, t)
  BY <1>2, <1>4 DEF Connected, Dropped, ToSession, ToServer, SameOtherwise
<1>6. /\ Dropped => \A q, i : Queues(q, <<>>, i) => (Queues(Tail(q), <<>>, i))'
      /\ ToSession => \A q, i : Queues(q, <<>>, i) => (Queues(Tail(q), <<>>, Append(i, Head(q))))'
      /\ ToServer => \A q : Queues(q, <<>>, <<>>) => (Queues(Tail(q), Append(<<>>, Head(q)), <<>>))'
      /\ ToServer => \A k : ~Connected(k)
  BY <1>1 DEF Queues, Connected, Dropped, ToSession, ToServer, SameOtherwise
<1>7. /\ \A k : (Joining(k))' = Joining(k)
      /\ Flights' = Flights /\ Flights \subseteq Datagrams /\ Byes \subseteq Datagrams
  BY <1>1 DEF Joining, Flights, Byes
<1>8. ~Quiet /\ Byes \subseteq Byes'
  BY <1>1, <1>2, <1>5 DEF Quiet, Queues, Byes, Datagrams
<1>9. Line'
  <2>1. CASE OneFlight
    <3>1. PICK f \in Flights : Queues(<<f>>, <<>>, <<>>)
      BY <1>2, <2>1 DEF OneFlight, Queues
    <3>2. Tail(<<f>>) = <<>> /\ Head(<<f>>) = f /\ Append(<<>>, f) = <<f>>
      BY <1>7, Tuples
    <3>3. \/ (Queues(<<>>, <<>>, <<>>))' \/ (Queues(<<>>, <<f>>, <<>>))'
          \/ (Queues(<<>>, <<>>, <<f>>))'
      BY <1>4, <1>6, <3>1, <3>2
    <3> QED BY <1>7, <3>3 DEF Quiet, OneFlight, Line
  <2>2. CASE ByeFirst
    <3>1. PICK b \in Byes :
            \/ Queues(<<b>>, <<>>, <<>>)
            \/ \E f \in Flights : Queues(<<b, f>>, <<>>, <<>>) \/ Queues(<<f>>, <<>>, <<b>>)
      BY <1>2, <2>2 DEF ByeFirst, Queues
    <3>2. Dropped \/ ToSession
      BY <1>4, <1>6 DEF Byes
    <3>3. \A k \in Joiners : (Joining(k))' => jpc'[k] = "hello"
      BY <1>1, <1>7, <2>2 DEF ByeFirst
    <3>4. Tail(<<b>>) = <<>> /\ Head(<<b>>) = b /\ Append(<<>>, b) = <<b>>
      BY <1>7, Tuples
    <3>5. CASE Queues(<<b>>, <<>>, <<>>)
      <4>1. (Queues(<<>>, <<>>, <<>>))' \/ (Queues(<<>>, <<>>, <<b>>))'
        BY <1>6, <3>2, <3>4, <3>5
      <4> QED BY <1>8, <3>3, <4>1 DEF Quiet, ByeFirst, Line
    <3>6. ASSUME NEW f \in Flights, Queues(<<b, f>>, <<>>, <<>>)
          PROVE  Line'
      <4>1. Tail(<<b, f>>) = <<f>> /\ Head(<<b, f>>) = b
        BY <1>7, Tuples
      <4>2. (Queues(<<f>>, <<>>, <<>>))' \/ (Queues(<<f>>, <<>>, <<b>>))'
        BY <1>6, <3>2, <3>4, <3>6, <4>1
      <4> QED BY <1>7, <1>8, <3>3, <4>2 DEF OneFlight, ByeFirst, Line
    <3>7. ASSUME NEW f \in Flights, Queues(<<f>>, <<>>, <<b>>)
          PROVE  Line'
      <4>1. Tail(<<f>>) = <<>> /\ Head(<<f>>) = f /\ Append(<<b>>, f) = <<b, f>>
        BY <1>7, Tuples
      <4>2. (Queues(<<>>, <<>>, <<b>>))' \/ (Queues(<<>>, <<>>, <<b, f>>))'
        BY <1>6, <3>2, <3>7, <4>1
      <4> QED BY <1>7, <1>8, <3>3, <4>2 DEF ByeFirst, Line
    <3> QED BY <3>1, <3>5, <3>6, <3>7
  <2> QED BY <1>8, <2>1, <2>2 DEF InTurn, Line
<1>10. Turns' /\ Finishing'
  BY <1>1, <1>5, <1>7 DEF InTurn, Turns, Finishing
<1>11. Peers'
  BY <1>1, <1>3, <1>5, <1>7 DEF InTurn, Peers, SameOtherwise
<1>12. Answers'
  BY <1>1, <1>2, <1>8, OneMoreAnswer
<1> QED BY <1>9, <1>10, <1>11, <1>12 DEF InTurn

LEMMA RelayTransmitInTurn ==
  ASSUME IndInv, InTurn, SendRelayTransmit
  PROVE  InTurn'
<1>1. /\ at = "deliver" /\ Done(Client) /\ clientIn' = Tail(clientIn)
      /\ tx' = Append(tx, RelayTransmit(Head(clientIn)))
      /\ UNCHANGED <<mSessions, serverIn, rx, jpc>>
  BY DEF SendRelayTransmit, serverVars, envVars
<1>2. /\ Types /\ clientIn # <<>> /\ clientIn \in Seq(Replies) /\ tx \in Seq(Messages)
      /\ ready' = {}
  BY <1>1, Where, AnswersTyped DEF IndInv, Reported, Done
<1>3. PICK m : m = RelayTransmit(Head(clientIn))
  OBVIOUS
<1>4. /\ 1 \in DOMAIN clientIn /\ m.reply = clientIn[1]
      /\ \A n \in DOMAIN clientIn' :
           n + 1 \in DOMAIN clientIn /\ clientIn'[n] = clientIn[n + 1] /\ n \in Nat \ {0}
  BY <1>1, <1>2, <1>3, TailParts DEF RelayTransmit
<1>5. \A n \in DOMAIN tx' : \/ n \in DOMAIN tx /\ tx'[n] = tx[n]
                            \/ n = Len(tx) + 1 /\ tx'[n] = m
  BY <1>1, <1>2, <1>3
<1>6. /\ \A k : (Joining(k))' = Joining(k) /\ (Connected(k))' = Connected(k)
      /\ Flights' = Flights /\ Byes' = Byes
      /\ \A r : Right(r) => (Right(r))'
  BY <1>1 DEF Joining, Connected, Flights, Byes, Right, Quiet, Queues
<1>7. Line'
  BY <1>1, <1>6 DEF InTurn, Line, Quiet, OneFlight, ByeFirst, Queues
<1>8. Turns' /\ Finishing' /\ Peers'
  BY <1>1, <1>2, <1>6 DEF InTurn, Turns, Finishing, Peers
<1>9. Answers'
  <2>1. \A n \in DOMAIN clientIn' : n + 1 # 1
    BY <1>4
  <2>2. Right(m.reply) /\ \A n \in DOMAIN clientIn' : Right(clientIn'[n])
    BY <1>4 DEF InTurn, Answers
  <2>3. \A n \in DOMAIN tx' : Right(tx'[n].reply)
    BY <1>5, <2>2 DEF InTurn, Answers
  <2>4. Joining(m.reply.j) => /\ \A n \in DOMAIN clientIn' : ~Joining(clientIn'[n].j)
                              /\ \A n \in DOMAIN tx : ~Joining(tx[n].reply.j)
    BY <1>4, <2>1 DEF InTurn, Answers
  <2>5. \A k, n \in DOMAIN clientIn' :
          Joining(clientIn'[k].j) /\ Joining(clientIn'[n].j) => k + 1 = n + 1
    BY <1>4 DEF InTurn, Answers
  <2>6. \A k, n \in DOMAIN clientIn' :
          Joining(clientIn'[k].j) /\ Joining(clientIn'[n].j) => k = n
    BY <1>4, <2>5
  <2>7. \A k, n \in DOMAIN tx' : Joining(tx'[k].reply.j) /\ Joining(tx'[n].reply.j) => k = n
    BY <1>5, <2>4 DEF InTurn, Answers
  <2>8. \A k \in DOMAIN clientIn', n \in DOMAIN tx' :
          ~(Joining(clientIn'[k].j) /\ Joining(tx'[n].reply.j))
    BY <1>4, <1>5, <2>4 DEF InTurn, Answers
  <2> QED BY <1>6, <2>2, <2>3, <2>6, <2>7, <2>8 DEF Answers
<1> QED BY <1>7, <1>8, <1>9 DEF InTurn

-----------------------------------------------------------------------------
LEMMA OrderInit == Init => Order
<1> SUFFICES ASSUME Init
             PROVE  Order
  OBVIOUS
<1>1. \A j \in Joiners : jpc[j] = "idle"
  BY DEF Init
<1> QED BY <1>1 DEF Init, Order, Stops, InTurn, Turns, Finishing, Peers, Line, Quiet, Queues,
                    Answers, Joining

LEMMA StopsKept ==
  ASSUME IndInv, Order, [Next]_vars,
         ServerAccepts /\ halt = "no" /\ ~disturbed => UNCHANGED halt
  PROVE  Stops'
<1>1. CASE UNCHANGED <<halt, served, disturbed>>
  BY <1>1 DEF Order, Stops
<1>2. CASE ServerAccepts /\ halt = "no"
  <2>1. UNCHANGED <<served, disturbed>> /\ halt' \in {"no", "blocked"}
    BY <1>2 DEF ServerAccepts
  <2> QED BY <1>2, <2>1 DEF Stops
<1>3. CASE HandleRelayReceive
  <2>1. UNCHANGED <<served, disturbed>> /\ (UNCHANGED halt \/ ~served)
    BY <1>3 DEF HandleRelayReceive, FindEui
  <2>2. halt' # "blocked" \/ UNCHANGED halt
    BY <1>3 DEF HandleRelayReceive, FindEui
  <2> QED BY <2>1, <2>2 DEF Order, Stops
<1>4. CASE halt = "no" /\ UNCHANGED halt
  BY <1>4 DEF Stops
<1>5. ASSUME Round
      PROVE  Stops'
  <2>1. CASE UpdateFdSet
    BY <1>4, <1>5, <2>1 DEF UpdateFdSet, Round
  <2>2. CASE SessionProcess
    BY <1>4, <1>5, <2>2 DEF SessionProcess, Round
  <2>3. CASE SendRelayTransmit
    BY <1>4, <1>5, <2>3 DEF SendRelayTransmit, Round
  <2> QED BY <1>2, <1>3, <1>5, <2>1, <2>2, <2>3 DEF Round
<1>6. ASSUME Environment
      PROVE  Stops'
  <2>1. UNCHANGED halt
    BY <1>6 DEF Environment, Begin, Resend, GiveUp, Deliver, Lose, Repeat, SetJoiner, loopVars
  <2> QED BY <1>4, <1>6, <2>1 DEF Environment
<1>7. ASSUME UNCHANGED vars
      PROVE  Stops'
  BY <1>1, <1>7 DEF vars
<1> QED BY <1>5, <1>6, <1>7 DEF Next, Rest

LEMMA OrderKept ==
  ASSUME IsFiniteSet(Joiners), ~IsFiniteSet(Ids)
  PROVE  IndInv /\ Order /\ [Next]_vars => Order'
<1> SUFFICES ASSUME IndInv, Order, [Next]_vars
             PROVE  Order'
  OBVIOUS
<1>1. ServerAccepts /\ halt = "no" /\ ~disturbed => InTurn' /\ UNCHANGED halt
  BY ServerAcceptsInTurn DEF Order
<1>2. Stops'
  BY <1>1, StopsKept
<1> SUFFICES ASSUME halt' = "no", ~disturbed'
             PROVE  InTurn'
  BY <1>2 DEF Order
<1>3. Types /\ disturbed \in BOOLEAN
  BY DEF IndInv, Types, TypeOK
<1>4. CASE UNCHANGED vars
  <2>1. InTurn
    BY <1>4 DEF Order, vars
  <2>2. UNCHANGED <<mSessions, ready, serverIn, clientIn, rx, tx, jpc>>
    BY <1>4 DEF vars, serverVars, envVars
  <2>3. /\ \A k : (Joining(k))' = Joining(k)
        /\ \A k : (Connected(k))' = Connected(k)
        /\ Flights' = Flights /\ Byes' = Byes
    BY <2>2 DEF Joining, Connected, Flights, Byes
  <2>4. Turns' /\ Finishing' /\ Peers'
    BY <2>1, <2>2, <2>3 DEF InTurn, Turns, Finishing, Peers
  <2>5. Line' /\ Quiet' = Quiet
    BY <2>1, <2>2, <2>3 DEF InTurn, Line, Quiet, OneFlight, ByeFirst, Queues
  <2>6. Answers'
    BY <2>1, <2>2, <2>3, <2>5 DEF InTurn, Answers, Right
  <2> QED BY <2>4, <2>5, <2>6 DEF InTurn
<1>5. CASE Round
  <2>1. halt = "no" /\ ~disturbed
    BY <1>3, <1>5 DEF Round, UpdateFdSet, SessionProcess, ServerAccepts, HandleRelayReceive,
                      SendRelayTransmit
  <2>2. InTurn
    BY <2>1 DEF Order
  <2> QED BY <1>1, <1>5, <2>1, <2>2, UpdateFdSetInTurn, SessionProcessInTurn, RelayReceiveInTurn,
             RelayTransmitInTurn DEF Round
<1>6. CASE Environment
  <2>1. halt = "no" /\ ~disturbed
    BY <1>3, <1>6 DEF Environment, Begin, Resend, GiveUp, Deliver, Lose, Repeat, SetJoiner, Start,
                      JoinerSession
  <2>2. InTurn
    BY <2>1 DEF Order
  <2>3. ~Repeat /\ \A j \in Joiners : ~GiveUp(j)
    BY DEF GiveUp, Repeat
  <2> QED BY <1>3, <1>6, <2>2, <2>3, BeginInTurn, ResendInTurn, DeliverInTurn, LoseInTurn,
             SetJoinerInTurn DEF Environment
<1> QED BY <1>4, <1>5, <1>6 DEF Next, Rest

\* The thread neither blocks in a read nor uses a null pointer, if joiners come one after
\* the other (dtls_mbedtls.cpp:454, commissioner.cpp:557): for any number of them, whatever
\* is lost.
THEOREM ThreadRunsOn ==
  ASSUME IsFiniteSet(Joiners), ~IsFiniteSet(Ids)
  PROVE  Spec => []RunsOn
<1>1. Order /\ TypeOK => RunsOn
  BY DEF Order, Stops, RunsOn, TypeOK
<1>2. IndInv => TypeOK
  BY DEF IndInv, Types
<1> QED BY <1>1, <1>2, InvInit, InvKept, OrderInit, OrderKept, PTL DEF Spec

-----------------------------------------------------------------------------
(***************************************************************************)
(* Where answers go.  A datagram that is to be read is the one relayed     *)
(* last, so what answers it is for that joiner.  From the answer with      *)
(* which a joiner agrees upon a session's key, nothing is on its way that  *)
(* could make it agree upon another, until that session is over: so the    *)
(* KEK that follows JOIN_FIN, encrypted with that key, is the joiner's     *)
(* when it is sent, and still when it arrives.                             *)
(***************************************************************************)
\* What a session with this key does not send while it is alive.
Foreign(r, key) == r.kind # "verify" /\ (r.kind = "alert" \/ r.key # key)

\* RELAY_TX messages t and answers c, the older ones first: none is foreign; or
\* none that follows one with the key is.
Pure(t, key) == \A n \in DOMAIN t : ~Foreign(t[n].reply, key)
AllPure(t, c, key) == Pure(t, key) /\ \A n \in DOMAIN c : ~Foreign(c[n], key)
Since(t, c, key) ==
  /\ \A m, n \in DOMAIN t : m < n /\ t[m].reply.key = key => ~Foreign(t[n].reply, key)
  /\ \A m, n \in DOMAIN c : m < n /\ c[m].key = key => ~Foreign(c[n], key)
  /\ \A m \in DOMAIN t, n \in DOMAIN c : t[m].reply.key = key => ~Foreign(c[n], key)

\* Who sends datagrams with the key agrees upon it.
Theirs(q, keys, key) == \A n \in DOMAIN q : q[n].key = key => keys[q[n].j] = key

CleanFor(s) ==
  /\ (\E j \in Joiners : jkey[j] = s.key) => AllPure(tx, clientIn, s.key)
  /\ Since(tx, clientIn, s.key)
  /\ Theirs(rx, jkey, s.key) /\ Theirs(serverIn, jkey, s.key) /\ Theirs(s.in, jkey, s.key)

\* A datagram that is to be read is the one relayed last.
Recent ==
  /\ serverIn # <<>> => Head(serverIn).j = mJoinerIid
  /\ \A s \in mSessions : s.in # <<>> =>
       /\ Len(s.in) = 1 /\ Head(s.in).j = mJoinerIid
       /\ Own(s) \in ready \/ at \in {"select", "deliver"}

Uncrossed ==
  /\ \A n \in DOMAIN clientIn :
       ~crossed /\ clientIn[n].kind # "alert" => clientIn[n].j = mJoinerIid
  /\ \A n \in DOMAIN tx : ~tx[n].crossed /\ tx[n].reply.kind # "alert" => tx[n].to = tx[n].reply.j

Clean == \A s \in mSessions : Alive(s) => CleanFor(s)

\* The KEK that is to be sent stays the one of JOIN_FIN's session until it is.
Pending ==
  mNeedAppendKek =>
    /\ clientIn # <<>> /\ mJoinerIid \in Joiners
    /\ \A s \in mSessions : Own(s) \in ready => s.mState # "Handshaking"
    /\ Client \in ready \/ \E s \in mSessions : s.mState = "Ready" /\ Own(s) \notin ready
    /\ ~crossed => mKek = jkey[mJoinerIid] /\ Pure(tx, mKek)

Entrusting ==
  \A n \in DOMAIN tx : ~tx[n].crossed /\ tx[n].kek # 0 =>
    /\ tx[n].to \in Joiners /\ jkey[tx[n].to] = tx[n].kek
    /\ \A m \in DOMAIN tx : m < n => ~Foreign(tx[m].reply, tx[n].kek)

Delivered == Recent /\ Uncrossed /\ Clean /\ Pending /\ Entrusting

-----------------------------------------------------------------------------
(* Messages and answers when one is added, taken, or sent.                 *)

LEMMA MessageParts ==
  ASSUME NEW t \in Seq(Messages)
  PROVE  /\ DOMAIN t = 1 .. Len(t) /\ Len(t) \in Nat
         /\ \A n \in DOMAIN t : t[n] \in Messages /\ t[n].reply \in Replies
<1>1. DOMAIN t = 1 .. Len(t) /\ Len(t) \in Nat
  BY LenProperties
<1>2. \A n \in DOMAIN t : t[n] \in Messages
  BY <1>1, ElementOfSeq
<1> QED BY <1>1, <1>2 DEF Messages

\* An answer that is not foreign.
LEMMA AnswerAdded ==
  ASSUME NEW t \in Seq(Messages), NEW c \in Seq(Replies), NEW x \in Replies, NEW key,
         ~Foreign(x, key)
  PROVE  /\ AllPure(t, c, key) => AllPure(t, Append(c, x), key)
         /\ Since(t, c, key) => Since(t, Append(c, x), key)
<1>1. /\ Len(c) \in Nat /\ DOMAIN c = 1 .. Len(c)
      /\ \A n \in DOMAIN Append(c, x) : \/ n \in DOMAIN c /\ Append(c, x)[n] = c[n]
                                        \/ n = Len(c) + 1 /\ Append(c, x)[n] = x
  BY AppendParts, LenProperties
<1>2. AllPure(t, c, key) => AllPure(t, Append(c, x), key)
  BY <1>1 DEF AllPure
<1>3. ASSUME Since(t, c, key)
      PROVE  Since(t, Append(c, x), key)
  <2>1. ASSUME NEW m \in DOMAIN Append(c, x), NEW n \in DOMAIN Append(c, x), m < n,
               Append(c, x)[m].key = key
        PROVE  ~Foreign(Append(c, x)[n], key)
    <3>1. CASE n \in DOMAIN c /\ Append(c, x)[n] = c[n]
      <4>1. m \in DOMAIN c /\ Append(c, x)[m] = c[m]
        BY <1>1, <2>1, <3>1
      <4> QED BY <1>3, <2>1, <3>1, <4>1 DEF Since
    <3> QED BY <1>1, <3>1
  <2>2. \A m \in DOMAIN t, n \in DOMAIN Append(c, x) :
          t[m].reply.key = key => ~Foreign(Append(c, x)[n], key)
    BY <1>1, <1>3 DEF Since
  <2>3. \A m, n \in DOMAIN t : m < n /\ t[m].reply.key = key => ~Foreign(t[n].reply, key)
    BY <1>3 DEF Since
  <2> QED BY <2>1, <2>2, <2>3 DEF Since
<1> QED BY <1>2, <1>3

\* A message that arrives or is lost: if it has the key, the others are not foreign.
LEMMA MessageTaken ==
  ASSUME NEW t \in Seq(Messages), t # <<>>, NEW c \in Seq(Replies), NEW key
  PROVE  /\ Pure(t, key) => Pure(Tail(t), key) /\ ~Foreign(Head(t).reply, key)
         /\ AllPure(t, c, key) => AllPure(Tail(t), c, key)
         /\ Since(t, c, key) => Since(Tail(t), c, key)
         /\ Since(t, c, key) /\ Head(t).reply.key = key => AllPure(Tail(t), c, key)
<1>1. /\ 1 \in DOMAIN t /\ Head(t) = t[1]
      /\ \A n \in DOMAIN Tail(t) : n + 1 \in DOMAIN t /\ Tail(t)[n] = t[n + 1] /\ n \in Nat \ {0}
  BY TailParts
<1>2. Pure(t, key) => Pure(Tail(t), key) /\ ~Foreign(Head(t).reply, key)
  BY <1>1 DEF Pure
<1>3. AllPure(t, c, key) => AllPure(Tail(t), c, key)
  BY <1>2 DEF AllPure
<1>4. ASSUME Since(t, c, key)
      PROVE  Since(Tail(t), c, key)
  <2>1. \A m, n \in DOMAIN Tail(t) : m < n => m + 1 < n + 1
    BY <1>1
  <2>2. \A m, n \in DOMAIN Tail(t) :
          m < n /\ Tail(t)[m].reply.key = key => ~Foreign(Tail(t)[n].reply, key)
    BY <1>1, <1>4, <2>1 DEF Since
  <2>3. \A m \in DOMAIN Tail(t), n \in DOMAIN c :
          Tail(t)[m].reply.key = key => ~Foreign(c[n], key)
    BY <1>1, <1>4 DEF Since
  <2> QED BY <1>4, <2>2, <2>3 DEF Since
<1>5. ASSUME Since(t, c, key), Head(t).reply.key = key
      PROVE  AllPure(Tail(t), c, key)
  <2>1. \A n \in DOMAIN Tail(t) : 1 < n + 1
    BY <1>1
  <2>2. Pure(Tail(t), key)
    BY <1>1, <1>5, <2>1 DEF Since, Pure
  <2> QED BY <1>1, <1>5, <2>2 DEF Since, AllPure
<1> QED BY <1>2, <1>3, <1>4, <1>5

\* The oldest answer becomes the last message.
LEMMA AnswerSent ==
  ASSUME NEW t \in Seq(Messages), NEW c \in Seq(Replies), c # <<>>, NEW m \in Messages,
         m.reply = Head(c), NEW key
  PROVE  /\ AllPure(t, c, key) => AllPure(Append(t, m), Tail(c), key)
         /\ Since(t, c, key) => Since(Append(t, m), Tail(c), key)
<1>1. /\ 1 \in DOMAIN c /\ m.reply = c[1]
      /\ \A n \in DOMAIN Tail(c) :
           n + 1 \in DOMAIN c /\ Tail(c)[n] = c[n + 1] /\ n \in Nat \ {0} /\ 1 < n + 1
  <2>1. \A n \in Nat \ {0} : 1 < n + 1
    OBVIOUS
  <2> QED BY <2>1, TailParts
<1>2. /\ Len(t) \in Nat /\ DOMAIN t = 1 .. Len(t)
      /\ \A n \in DOMAIN Append(t, m) : \/ n \in DOMAIN t /\ Append(t, m)[n] = t[n]
                                        \/ n = Len(t) + 1 /\ Append(t, m)[n] = m
  BY AppendParts, LenProperties
<1>3. AllPure(t, c, key) => AllPure(Append(t, m), Tail(c), key)
  BY <1>1, <1>2 DEF AllPure, Pure
<1>4. ASSUME Since(t, c, key)
      PROVE  Since(Append(t, m), Tail(c), key)
  <2>1. ASSUME NEW k \in DOMAIN Append(t, m), NEW n \in DOMAIN Append(t, m), k < n,
               Append(t, m)[k].reply.key = key
        PROVE  ~Foreign(Append(t, m)[n].reply, key)
    <3>1. k \in DOMAIN t /\ Append(t, m)[k] = t[k]
      BY <1>2, <2>1
    <3> QED BY <1>1, <1>2, <1>4, <2>1, <3>1 DEF Since
  <2>2. \A k, n \in DOMAIN Tail(c) : k < n => k + 1 < n + 1
    BY <1>1
  <2>3. \A k, n \in DOMAIN Tail(c) :
          k < n /\ Tail(c)[k].key = key => ~Foreign(Tail(c)[n], key)
    BY <1>1, <1>4, <2>2 DEF Since
  <2>4. \A k \in DOMAIN Append(t, m), n \in DOMAIN Tail(c) :
          Append(t, m)[k].reply.key = key => ~Foreign(Tail(c)[n], key)
    BY <1>1, <1>2, <1>4 DEF Since
  <2> QED BY <2>1, <2>3, <2>4 DEF Since
<1> QED BY <1>3, <1>4

\* A new key: nothing has it, nobody agrees upon it.
LEMMA FreshUnused ==
  ASSUME IsFiniteSet(Joiners), ~IsFiniteSet(Ids), Types, Single
  PROVE  /\ \A j \in Joiners : jkey[j] # Fresh
         /\ Since(tx, clientIn, Fresh)
         /\ Theirs(rx, jkey, Fresh) /\ Theirs(serverIn, jkey, Fresh)
         /\ \A s \in mSessions : Theirs(s.in, jkey, Fresh)
<1>1. Fresh \notin InUse
  BY IdFree
<1>2. /\ \A j \in Joiners : jkey[j] \in InUse
      /\ \A n \in DOMAIN tx : tx[n].reply.key \in InUse
      /\ \A n \in DOMAIN clientIn : clientIn[n].key \in InUse
      /\ \A n \in DOMAIN rx : rx[n].key \in InUse
      /\ \A n \in DOMAIN serverIn : serverIn[n].key \in InUse
      /\ \A s \in mSessions : \A n \in DOMAIN s.in : s.in[n].key \in InUse
  BY DEF InUse, Ids2, Ids3
<1> QED BY <1>1, <1>2 DEF Since, Theirs

-----------------------------------------------------------------------------
\* Outside, a message arrives or is lost, and the joiner it is for may agree upon the
\* key in it; what the joiners send has no key or that of their sender.
Taken(t, t2, keys, keys2) ==
  \/ t2 = t /\ keys2 = keys
  \/ /\ t # <<>> /\ t2 = Tail(t)
     /\ \/ keys2 = keys
        \/ /\ Head(t).reply.kind # "verify"
           /\ keys2 = [keys EXCEPT ![Head(t).reply.j] = Head(t).reply.key]
Sending(q, q2, keys) ==
  \A n \in DOMAIN q2 :
    (\E m \in DOMAIN q : q2[n] = q[m]) \/ q2[n].key \in {0, keys[q2[n].j]}

Keys == [Joiners -> Ids \cup {0}]

LEMMA SendsOne ==
  ASSUME NEW j \in Joiners, NEW state \in Kinds, NEW keys \in Keys, NEW key \in {0, keys[j]},
         NEW q \in Seq(Datagrams)
  PROVE  Sending(q, Append(q, Flight(j, state, key)), keys)
<1>1. key \in Ids \cup {0}
  BY DEF Keys
<1>2. PICK x \in Datagrams : x = Flight(j, state, key)
  BY <1>1, FlightTyped
<1>3. x.j = j /\ x.key \in {0, keys[j]}
  BY <1>2 DEF Flight
<1>4. \A n \in DOMAIN Append(q, x) : \/ n \in DOMAIN q /\ Append(q, x)[n] = q[n]
                                     \/ n = Len(q) + 1 /\ Append(q, x)[n] = x
  BY AppendParts
<1> QED BY <1>2, <1>3, <1>4 DEF Sending

LEMMA Outside ==
  ASSUME IndInv, Environment
  PROVE  /\ at = "select" /\ tx \in Seq(Messages) /\ rx \in Seq(Datagrams) /\ jkey \in Keys
         /\ serverIn \in Seq(Datagrams) /\ \A s \in mSessions : s.in \in Seq(Datagrams)
         /\ UNCHANGED <<at, ready, mJoinerIid, mSessions, serverIn, clientIn, mKek,
                        mNeedAppendKek, crossed>>
         /\ Taken(tx, tx', jkey, jkey') /\ Sending(rx, rx', jkey')
<1>1. /\ at = "select" /\ tx \in Seq(Messages) /\ rx \in Seq(Datagrams) /\ jkey \in Keys
      /\ serverIn \in Seq(Datagrams) /\ \A s \in mSessions : s.in \in Seq(Datagrams)
      /\ OutsideTypes
  BY TypesParts DEF Environment, IndInv, Types, TypeOK, Keys, Sessions
<1>2. UNCHANGED <<at, ready, mJoinerIid, mSessions, serverIn, clientIn, mKek, mNeedAppendKek,
                  crossed>>
  BY DEF Environment, Begin, Resend, GiveUp, Deliver, Lose, Repeat, SetJoiner, loopVars,
         serverVars, kekVars
<1>3. Sending(rx, rx, jkey)
  BY DEF Sending
<1>4. ASSUME NEW j \in Joiners, Begin(j) \/ Resend(j) \/ GiveUp(j)
      PROVE  Taken(tx, tx', jkey, jkey') /\ Sending(rx, rx', jkey')
  <2>1. UNCHANGED <<tx, jkey>>
    BY <1>4 DEF Begin, Resend, GiveUp, envVars
  <2>2. \/ rx' = rx
        \/ \E state \in Kinds, key \in {0, jkey[j]} : rx' = Append(rx, Flight(j, state, key))
    <3>1. CASE Begin(j)
      BY <3>1 DEF Begin, Kinds
    <3>2. CASE Resend(j)
      BY <1>1, <3>2, JoiningKinds DEF Resend
    <3>3. CASE GiveUp(j)
      BY <3>3 DEF GiveUp, Kinds
    <3> QED BY <1>4, <3>1, <3>2, <3>3
  <2> QED BY <1>1, <1>3, <2>1, <2>2, SendsOne DEF Taken
<1>5. ASSUME Lose \/ Repeat
      PROVE  Taken(tx, tx', jkey, jkey') /\ Sending(rx, rx', jkey')
  <2>1. jkey' = jkey /\ (tx' = tx \/ (tx # <<>> /\ tx' = Tail(tx)))
    BY <1>5 DEF Lose, Repeat
  <2>2. rx' = rx \/ (rx # <<>> /\ (rx' = Tail(rx) \/ rx' = Append(rx, Head(rx))))
    BY <1>5 DEF Lose, Repeat
  <2>3. ASSUME rx # <<>>
        PROVE  Sending(rx, Tail(rx), jkey) /\ Sending(rx, Append(rx, Head(rx)), jkey)
    <3>1. /\ 1 \in DOMAIN rx /\ Head(rx) = rx[1] /\ Head(rx) \in Datagrams
          /\ \A n \in DOMAIN Tail(rx) : n + 1 \in DOMAIN rx /\ Tail(rx)[n] = rx[n + 1]
      BY <1>1, <2>3, TailParts, HeadTailProperties
    <3>2. \A n \in DOMAIN Append(rx, Head(rx)) :
            \/ n \in DOMAIN rx /\ Append(rx, Head(rx))[n] = rx[n]
            \/ n = Len(rx) + 1 /\ Append(rx, Head(rx))[n] = Head(rx)
      BY <1>1, <3>1, AppendParts
    <3> QED BY <3>1, <3>2 DEF Sending
  <2> QED BY <1>3, <2>1, <2>2, <2>3 DEF Taken
<1>6. ASSUME Deliver
      PROVE  Taken(tx, tx', jkey, jkey') /\ Sending(rx, rx', jkey')
  <2>0. PICK m, j : m = Head(tx) /\ j = m.reply.j
    OBVIOUS
  <2> DEFINE ours == m.to = j /\ Joining(j)
             next == CASE ours /\ m.reply.kind = "alert" -> "hello"
                       [] ours /\ m.reply.kind # "alert" /\ Expected(j, m.reply) -> After[jpc[j]]
                       [] OTHER -> jpc[j]
             state == IF next = "joined" THEN "bye" ELSE next
  <2>1. /\ tx # <<>> /\ tx' = Tail(tx)
        /\ jkey' = IF next # jpc[j] /\ next \in {"hello", "key"}
                     THEN [jkey EXCEPT ![j] = m.reply.key] ELSE jkey
        /\ rx' = IF next = jpc[j] THEN rx ELSE Append(rx, Flight(j, state, jkey'[j]))
    BY <1>6, <2>0 DEF Deliver
  <2>2. m \in Messages /\ j \in Joiners /\ jkey' \in Keys
    <3>1. m \in Messages
      BY <1>1, <2>0, <2>1, HeadTailProperties
    <3>2. OutsideTypes'
      BY <1>1, <1>6, DeliverTyped
    <3> QED BY <2>0, <3>1, <3>2 DEF Messages, Replies, OutsideTypes, Keys
  <2>3. next # jpc[j] =>
          /\ state \in Kinds
          /\ next \in {"hello", "key"} => m.reply.kind # "verify"
    <3>1. CASE ours
      <4>1. jpc[j] \in {"hello", "cookie", "key", "fin"}
        BY <1>1, <2>2, <3>1, JoiningKinds
      <4>2. CASE m.reply.kind = "alert"
        <5>1. next = "hello"
          BY <3>1, <4>2
        <5> QED BY <4>2, <5>1 DEF Kinds
      <4>3. CASE m.reply.kind # "alert" /\ Expected(j, m.reply)
        <5>1. next = After[jpc[j]]
          BY <3>1, <4>3
        <5>2. After[jpc[j]] \in {"cookie", "key", "fin", "joined"}
          BY <4>1 DEF After
        <5>3. After[jpc[j]] \in {"hello", "key"} => m.reply.kind # "verify"
          BY <4>1, <4>3 DEF After, Awaited, Expected
        <5> HIDE DEF next
        <5> QED BY <5>1, <5>2, <5>3 DEF Kinds
      <4>4. CASE m.reply.kind # "alert" /\ ~Expected(j, m.reply)
        BY <4>4
      <4> QED BY <4>2, <4>3, <4>4
    <3>2. CASE ~ours
      <4> HIDE DEF ours
      <4> QED BY <3>2
    <3> QED BY <3>1, <3>2
  <2> HIDE DEF next
  <2>4. Taken(tx, tx', jkey, jkey')
    BY <2>0, <2>1, <2>3 DEF Taken
  <2>5. Sending(rx, rx', jkey')
    <3>1. CASE next = jpc[j]
      BY <2>1, <3>1 DEF Sending
    <3>2. CASE next # jpc[j]
      <4>1. jkey'[j] \in {0, jkey'[j]}
        OBVIOUS
      <4> QED BY <1>1, <2>1, <2>2, <2>3, <3>2, <4>1, SendsOne
    <3> QED BY <3>1, <3>2
  <2> QED BY <2>4, <2>5
<1>7. ASSUME SetJoiner
      PROVE  Taken(tx, tx', jkey, jkey') /\ Sending(rx, rx', jkey')
  BY <1>3, <1>7 DEF SetJoiner, Taken
<1>8. Taken(tx, tx', jkey, jkey') /\ Sending(rx, rx', jkey')
  BY <1>4, <1>5, <1>6, <1>7 DEF Environment
<1> QED BY <1>1, <1>2, <1>8

\* A joiner stays agreed when the message it gets is not foreign.
FirstPure(t, key) == t # <<>> => ~Foreign(Head(t).reply, key)
Stay(keys, keys2, key) == \A j \in Joiners : keys[j] = key => keys2[j] = key

LEMMA KeyStays ==
  ASSUME NEW t \in Seq(Messages), NEW t2, NEW keys \in Keys, NEW keys2, Taken(t, t2, keys, keys2),
         NEW key, FirstPure(t, key)
  PROVE  Stay(keys, keys2, key)
<1>1. CASE keys2 = keys
  BY <1>1 DEF Stay
<1>2. CASE /\ t # <<>> /\ Head(t).reply.kind # "verify"
           /\ keys2 = [keys EXCEPT ![Head(t).reply.j] = Head(t).reply.key]
  <2>1. Head(t).reply.key = key
    BY <1>2 DEF FirstPure, Foreign
  <2> QED BY <1>2, <2>1 DEF Keys, Stay
<1> QED BY <1>1, <1>2 DEF Taken

LEMMA PureStays ==
  ASSUME NEW t \in Seq(Messages), NEW t2, NEW keys \in Keys, NEW keys2, Taken(t, t2, keys, keys2),
         NEW key, Pure(t, key)
  PROVE  Pure(t2, key) /\ Stay(keys, keys2, key)
<1>1. t # <<>> => ~Foreign(Head(t).reply, key) /\ Pure(Tail(t), key)
  <2>1. ASSUME t # <<>>
        PROVE  ~Foreign(Head(t).reply, key) /\ Pure(Tail(t), key)
    BY <2>1, MessageTaken, EmptySeq
  <2> QED BY <2>1
<1>2. Stay(keys, keys2, key)
  <2>1. FirstPure(t, key)
    BY <1>1 DEF FirstPure
  <2> QED BY <2>1, KeyStays
<1> QED BY <1>1, <1>2 DEF Taken

LEMMA CleanStays ==
  ASSUME NEW t \in Seq(Messages), NEW t2, NEW c \in Seq(Replies), NEW keys \in Keys, NEW keys2,
         Taken(t, t2, keys, keys2), NEW key,
         (\E j \in Joiners : keys[j] = key) => AllPure(t, c, key), Since(t, c, key)
  PROVE  /\ (\E j \in Joiners : keys2[j] = key) => AllPure(t2, c, key)
         /\ Since(t2, c, key)
         /\ \A q \in Seq(Datagrams) : Theirs(q, keys, key) => Theirs(q, keys2, key)
<1>1. t # <<>> => /\ AllPure(t, c, key) => AllPure(Tail(t), c, key)
                  /\ Since(Tail(t), c, key)
                  /\ Head(t).reply.key = key => AllPure(Tail(t), c, key)
  <2>1. ASSUME t # <<>>
        PROVE  /\ AllPure(t, c, key) => AllPure(Tail(t), c, key)
               /\ Since(Tail(t), c, key)
               /\ Head(t).reply.key = key => AllPure(Tail(t), c, key)
    BY <2>1, MessageTaken
  <2> QED BY <2>1
<1>2. Since(t2, c, key)
  BY <1>1 DEF Taken
<1>3. ASSUME NEW j \in Joiners, keys2[j] = key
      PROVE  AllPure(t2, c, key)
  <2>1. CASE keys2 = keys
    BY <1>1, <1>3, <2>1 DEF Taken
  <2>2. CASE /\ t # <<>> /\ t2 = Tail(t)
             /\ keys2 = [keys EXCEPT ![Head(t).reply.j] = Head(t).reply.key]
    <3>1. keys[j] = key \/ Head(t).reply.key = key
      BY <1>3, <2>2 DEF Keys
    <3> QED BY <1>1, <2>2, <3>1
  <2> QED BY <2>1, <2>2 DEF Taken
<1>4. ASSUME NEW q \in Seq(Datagrams), Theirs(q, keys, key)
      PROVE  Theirs(q, keys2, key)
  <2> SUFFICES ASSUME NEW n \in DOMAIN q, q[n].key = key
               PROVE  keys2[q[n].j] = key
    BY DEF Theirs
  <2>1. q[n].j \in Joiners /\ keys[q[n].j] = key
    <3>1. q[n] \in Datagrams
      BY LenProperties, ElementOfSeq
    <3> QED BY <1>4, <3>1 DEF Theirs, Datagrams
  <2>2. Pure(t, key)
    BY <2>1 DEF AllPure
  <2>3. Stay(keys, keys2, key)
    BY <2>2, PureStays
  <2> QED BY <2>1, <2>3 DEF Stay
<1> QED BY <1>2, <1>3, <1>4

LEMMA EnvironmentDelivers ==
  ASSUME IndInv, Delivered, Environment
  PROVE  Delivered'
<1>1. /\ at = "select" /\ tx \in Seq(Messages) /\ rx \in Seq(Datagrams) /\ jkey \in Keys
      /\ serverIn \in Seq(Datagrams) /\ \A s \in mSessions : s.in \in Seq(Datagrams)
      /\ UNCHANGED <<at, ready, mJoinerIid, mSessions, serverIn, clientIn, mKek, mNeedAppendKek,
                     crossed>>
      /\ Taken(tx, tx', jkey, jkey') /\ Sending(rx, rx', jkey')
  BY Outside
<1>2. ready = {} /\ clientIn \in Seq(Replies) /\ (\A s \in mSessions : s.key \in Ids)
  BY <1>1, Where, AnswersTyped DEF IndInv, Types, TypeOK, Sessions
<1>3. \/ tx' = tx /\ jkey' = jkey
      \/ /\ tx # <<>> /\ 1 \in DOMAIN tx /\ Head(tx) = tx[1]
         /\ \A n \in DOMAIN tx' : n + 1 \in DOMAIN tx /\ tx'[n] = tx[n + 1] /\ n \in Nat \ {0}
  BY <1>1, TailParts DEF Taken
<1>4. Recent'
  BY <1>1 DEF Delivered, Recent
<1>5. Uncrossed'
  BY <1>1, <1>3 DEF Delivered, Uncrossed
<1>6. Clean'
  <2> SUFFICES ASSUME NEW s \in mSessions, Alive(s)
               PROVE  (CleanFor(s))'
    BY <1>1 DEF Clean
  <2>1. CleanFor(s)
    BY DEF Delivered, Clean
  <2>2. /\ (\E j \in Joiners : jkey'[j] = s.key) => AllPure(tx', clientIn, s.key)
        /\ Since(tx', clientIn, s.key)
        /\ \A q \in Seq(Datagrams) : Theirs(q, jkey, s.key) => Theirs(q, jkey', s.key)
    BY <1>1, <1>2, <2>1, CleanStays DEF CleanFor
  <2>3. Theirs(rx, jkey', s.key) /\ Theirs(serverIn, jkey', s.key) /\ Theirs(s.in, jkey', s.key)
    BY <1>1, <2>1, <2>2 DEF CleanFor
  <2>4. s.key # 0
    BY <1>2, RelayAssumption
  <2>5. Theirs(rx', jkey', s.key)
    BY <1>1, <2>3, <2>4 DEF Theirs, Sending
  <2> QED BY <1>1, <2>2, <2>3, <2>5 DEF CleanFor
<1>7. Pending'
  <2> SUFFICES ASSUME mNeedAppendKek
               PROVE  /\ clientIn # <<>> /\ mJoinerIid \in Joiners
                      /\ \A s \in mSessions : Own(s) \in ready => s.mState # "Handshaking"
                      /\ \/ Client \in ready
                         \/ \E s \in mSessions : s.mState = "Ready" /\ Own(s) \notin ready
                      /\ ~crossed => mKek = jkey'[mJoinerIid] /\ Pure(tx', mKek)
    BY <1>1 DEF Pending
  <2>1. Pending
    BY DEF Delivered
  <2>2. ASSUME ~crossed
        PROVE  mKek = jkey'[mJoinerIid] /\ Pure(tx', mKek)
    <3>1. mKek = jkey[mJoinerIid] /\ Pure(tx, mKek) /\ mJoinerIid \in Joiners
      BY <2>1, <2>2 DEF Pending
    <3>2. Pure(tx', mKek) /\ Stay(jkey, jkey', mKek)
      BY <1>1, <3>1, PureStays
    <3> QED BY <3>1, <3>2 DEF Stay
  <2> QED BY <2>1, <2>2 DEF Pending
<1>8. Entrusting'
  <2>1. CASE tx' = tx /\ jkey' = jkey
    BY <2>1 DEF Delivered, Entrusting
  <2>2. CASE /\ tx # <<>> /\ 1 \in DOMAIN tx /\ Head(tx) = tx[1]
             /\ \A n \in DOMAIN tx' : n + 1 \in DOMAIN tx /\ tx'[n] = tx[n + 1] /\ n \in Nat \ {0}
    <3> SUFFICES ASSUME NEW n \in DOMAIN tx', ~tx'[n].crossed /\ tx'[n].kek # 0
                 PROVE  /\ tx'[n].to \in Joiners /\ jkey'[tx'[n].to] = tx'[n].kek
                        /\ \A m \in DOMAIN tx' : m < n => ~Foreign(tx'[m].reply, tx'[n].kek)
      BY DEF Entrusting
    <3>1. /\ tx'[n].to \in Joiners /\ jkey[tx'[n].to] = tx'[n].kek
          /\ \A m \in DOMAIN tx : m < n + 1 => ~Foreign(tx[m].reply, tx'[n].kek)
      BY <2>2 DEF Delivered, Entrusting
    <3>2. FirstPure(tx, tx'[n].kek)
      <4>1. 1 < n + 1
        BY <2>2
      <4> QED BY <2>2, <3>1, <4>1 DEF FirstPure
    <3>3. jkey'[tx'[n].to] = tx'[n].kek
      <4>1. Stay(jkey, jkey', tx'[n].kek)
        BY <1>1, <3>2, KeyStays
      <4> QED BY <3>1, <4>1 DEF Stay
    <3>4. \A m \in DOMAIN tx' : m < n => m + 1 < n + 1
      BY <2>2
    <3> QED BY <2>2, <3>1, <3>3, <3>4
  <2> QED BY <1>3, <2>1, <2>2
<1> QED BY <1>4, <1>5, <1>6, <1>7, <1>8 DEF Delivered

-----------------------------------------------------------------------------
\* A session that is over does not send anything else, and closing ones are told off.
LEMMA UpdateFdSetDelivers ==
  ASSUME IndInv, Delivered, UpdateFdSet
  PROVE  Delivered'
<1>1. PICK expired \in SUBSET {s \in mSessions : Alive(s)} :
        LET gone == {s \in mSessions : ~Alive(s)} \cup expired
            left == mSessions \ gone
        IN /\ mSessions' = left
           /\ clientIn' = clientIn \o CloseNotify(gone)
           /\ ready' = {Own(s) : s \in {t \in left : t.in # <<>>}}
                       \cup (IF serverIn # <<>> THEN {Server} ELSE {})
                       \cup (IF rx # <<>> THEN {Leader} ELSE {})
                       \cup (IF clientIn' # <<>> THEN {Client} ELSE {})
  BY DEF UpdateFdSet
<1> DEFINE gone == {s \in mSessions : ~Alive(s)} \cup expired
<1>2. /\ gone \in SUBSET mSessions /\ mSessions' = mSessions \ gone
      /\ clientIn' = clientIn \o CloseNotify(gone)
      /\ \A s \in mSessions' : s.in # <<>> => Own(s) \in ready'
      /\ clientIn' # <<>> => Client \in ready'
  BY <1>1
<1> HIDE DEF gone
<1>3. /\ at = "select" /\ ready = {} /\ Types /\ Single
      /\ UNCHANGED <<mJoinerIid, mKek, mNeedAppendKek, serverIn, rx, tx, jkey, crossed>>
  BY Where DEF UpdateFdSet, IndInv
<1>4. /\ clientIn \in Seq(Replies) /\ CloseNotify(gone) \in Seq(Replies)
      /\ \A n \in DOMAIN CloseNotify(gone) : CloseNotify(gone)[n].kind = "alert"
  BY <1>2, <1>3, AnswersTyped, CloseNotifyTyped, CloseNotifyPeers
<1>5. \A n \in DOMAIN clientIn' : \/ n \in DOMAIN clientIn /\ clientIn'[n] = clientIn[n]
                                  \/ clientIn'[n].kind = "alert"
  BY <1>2, <1>4, ConcatParts
<1>6. mSessions' # {} => clientIn' = clientIn
  <2> SUFFICES ASSUME mSessions' # {}
               PROVE  clientIn' = clientIn
    OBVIOUS
  <2>1. gone = {}
    BY <1>2, <1>3 DEF Single
  <2>2. DOMAIN CloseNotify(gone) = {}
    BY <1>2, <1>3, <2>1, CloseNotifyPeers DEF Closing
  <2>3. CloseNotify(gone) = <<>>
    <3>1. DOMAIN CloseNotify(gone) = 1 .. Len(CloseNotify(gone)) /\ Len(CloseNotify(gone)) \in Nat
      BY <1>4, LenProperties
    <3>2. Len(CloseNotify(gone)) = 0
      BY <2>2, <3>1
    <3> QED BY <1>4, <3>2, EmptySeq
  <2> QED BY <1>2, <1>4, <2>3, ConcatEmptySeq
<1>7. clientIn # <<>> => clientIn' # <<>>
  <2>1. ASSUME clientIn # <<>>, clientIn' = <<>>
        PROVE  FALSE
    <3>1. Len(clientIn') = Len(clientIn) + Len(CloseNotify(gone)) /\ Len(clientIn') = 0
      BY <1>2, <1>4, <2>1, ConcatProperties
    <3>2. Len(clientIn) \in Nat \ {0} /\ Len(CloseNotify(gone)) \in Nat
      BY <1>4, <2>1, EmptySeq, LenProperties
    <3> QED BY <3>1, <3>2
  <2> QED BY <2>1
<1>8. Recent'
  BY <1>2, <1>3 DEF Delivered, Recent
<1>9. Uncrossed'
  BY <1>3, <1>5 DEF Delivered, Uncrossed
<1>10. Clean'
  <2> SUFFICES ASSUME NEW s \in mSessions', Alive(s)
               PROVE  (CleanFor(s))'
    BY DEF Clean
  <2>1. clientIn' = clientIn /\ CleanFor(s)
    BY <1>2, <1>6 DEF Delivered, Clean
  <2> QED BY <1>3, <2>1 DEF CleanFor
<1>11. Pending'
  BY <1>2, <1>3, <1>7 DEF Delivered, Pending, Single
<1>12. Entrusting'
  BY <1>3 DEF Delivered, Entrusting
<1> QED BY <1>8, <1>9, <1>10, <1>11, <1>12 DEF Delivered

\* The answer of a session to the joiner relayed last.
LEMMA AnswerUncrossed ==
  ASSUME Types, Uncrossed, UNCHANGED <<mJoinerIid, crossed, tx>>,
         \/ clientIn' = clientIn
         \/ \E x \in Replies : clientIn' = Append(clientIn, x) /\ x.j = mJoinerIid
  PROVE  Uncrossed'
<1>1. CASE clientIn' = clientIn
  BY <1>1 DEF Uncrossed
<1>2. ASSUME NEW x \in Replies, clientIn' = Append(clientIn, x), x.j = mJoinerIid
      PROVE  Uncrossed'
  <2>1. \A n \in DOMAIN clientIn' : \/ n \in DOMAIN clientIn /\ clientIn'[n] = clientIn[n]
                                    \/ clientIn'[n] = x
    BY <1>2, AnswersTyped, AppendParts
  <2> QED BY <1>2, <2>1 DEF Uncrossed
<1> QED BY <1>1, <1>2

LEMMA SessionProcessDelivers ==
  ASSUME IsFiniteSet(Joiners), ~IsFiniteSet(Ids), IndInv, IndInv', Delivered, SessionProcess
  PROVE  Delivered'
<1>0. PICK s \in mSessions, u \in Sessions, t \in Sessions, d \in Datagrams :
      \E r \in Outcomes(u, d) :
        /\ mSessions' = {t} /\ Answering(u, d, r) /\ Reads(s, u, t, d, r)
        /\ Own(s) \in ready /\ ready' = ready \ {Own(s)} /\ Own(t) = Own(s)
        /\ d = Head(s.in) /\ u.in = Tail(s.in) /\ u.peer = s.peer /\ u.mState = s.mState
        /\ u.own = s.own /\ u.id = s.id /\ u.key = s.key
  BY SessionReads
<1>1. PICK r \in Outcomes(u, d) :
        /\ mSessions' = {t} /\ Answering(u, d, r) /\ Reads(s, u, t, d, r)
        /\ Own(s) \in ready /\ ready' = ready \ {Own(s)} /\ Own(t) = Own(s)
        /\ d = Head(s.in) /\ u.in = Tail(s.in) /\ u.peer = s.peer /\ u.mState = s.mState
        /\ u.own = s.own /\ u.id = s.id /\ u.key = s.key
  BY <1>0
<1>2. UNCHANGED <<mJoinerIid, serverIn, rx, tx, jkey, crossed>>
  BY DEF SessionProcess, envVars
<1>3. /\ s \in Sessions /\ s.in # <<>> /\ Alive(s) /\ Types /\ Single /\ mSessions = {s}
      /\ s.in \in Seq(Datagrams)
  BY <1>1 DEF IndInv, Types, TypeOK, Reported, Single, Sessions
<1>4. d.j = mJoinerIid /\ mJoinerIid \in Joiners /\ t.in = <<>>
  <2>1. Len(s.in) = 1 /\ d.j = mJoinerIid
    BY <1>1, <1>3 DEF Delivered, Recent
  <2>2. Tail(s.in) \in Seq(Datagrams) /\ Len(Tail(s.in)) = 0
    BY <1>3, <2>1, HeadTailProperties
  <2>3. t.in = Tail(s.in)
    BY <1>1 DEF Reads
  <2> QED BY <2>1, <2>2, <2>3, EmptySeq DEF Datagrams
<1>5. d = s.in[1] /\ 1 \in DOMAIN s.in
  BY <1>1, <1>3, TailParts
<1>6. CleanFor(s)
  BY <1>3 DEF Delivered, Clean
<1>7. Recent'
  BY <1>1, <1>2, <1>4 DEF Delivered, Recent
<1>8. Uncrossed'
  <2>1. \/ clientIn' = clientIn
        \/ \E x \in Replies : clientIn' = Append(clientIn, x) /\ x.j = mJoinerIid
    BY <1>1, <1>4 DEF Reads
  <2> QED BY <1>2, <1>3, <2>1, AnswerUncrossed DEF Delivered
<1>9. Clean'
  <2> SUFFICES ASSUME Alive(t)
               PROVE  (CleanFor(t))'
    BY <1>1 DEF Clean
  <2>1. \A keys, key : Theirs(<<>>, keys, key)
    BY DEF Theirs
  <2>2. CASE t.key = Fresh /\ clientIn' = clientIn
    <3>1. /\ \A j \in Joiners : jkey[j] # t.key
          /\ Since(tx, clientIn, t.key)
          /\ Theirs(rx, jkey, t.key) /\ Theirs(serverIn, jkey, t.key)
      BY <1>3, <2>2, FreshUnused
    <3> QED BY <1>2, <1>4, <2>1, <2>2, <3>1 DEF CleanFor
  <2>3. CASE t.key = s.key
    <3>1. \/ clientIn' = clientIn
          \/ \E x \in Replies : clientIn' = Append(clientIn, x) /\ ~Foreign(x, s.key)
      BY <1>1, <2>3 DEF Reads, Foreign
    <3>2. tx \in Seq(Messages) /\ clientIn \in Seq(Replies)
      BY <1>3, AnswersTyped
    <3>3. /\ AllPure(tx, clientIn, s.key) => AllPure(tx, clientIn', s.key)
          /\ Since(tx, clientIn, s.key) => Since(tx, clientIn', s.key)
      BY <3>1, <3>2, AnswerAdded
    <3> QED BY <1>2, <1>4, <1>6, <2>1, <2>3, <3>3 DEF CleanFor
  <2> QED BY <1>1, <2>2, <2>3 DEF Reads
<1>10. Pending'
  <2> SUFFICES ASSUME mNeedAppendKek'
               PROVE  Pending'
    BY DEF Pending
  <2>1. \A q \in mSessions' : Own(q) \notin ready'
    BY <1>1
  <2>2. Own(s) # Client
    BY DEF Own, Client
  <2>3. CASE r.request
    <3>1. t.mState = "Ready" /\ d.key = s.key /\ t.key = s.key /\ clientIn' # <<>>
      <4>1. \A x \in Replies : Append(clientIn, x) # <<>>
        BY <1>3, AnswersTyped, AppendProperties
      <4> QED BY <1>1, <2>3, <4>1 DEF Reads
    <3>2. mKek' = s.key
      BY <1>1, <3>1 DEF IndInv, Current
    <3>3. jkey[mJoinerIid] = s.key /\ Pure(tx, s.key)
      <4>1. jkey[d.j] = s.key
        BY <1>5, <1>6, <3>1 DEF CleanFor, Theirs
      <4> QED BY <1>4, <1>6, <4>1 DEF CleanFor, AllPure
    <3> QED BY <1>1, <1>2, <1>4, <2>1, <3>1, <3>2, <3>3 DEF Pending
  <2>4. CASE ~r.request
    <3>1. Pending /\ mNeedAppendKek
      BY <1>1, <2>4 DEF Reads, Delivered
    <3>2. s.mState # "Handshaking" /\ mKek' = mKek
      BY <1>1, <3>1 DEF Pending, Reads
    <3>3. Client \in ready'
      BY <1>1, <1>3, <2>2, <3>1 DEF Pending
    <3>4. clientIn' # <<>>
      <4>1. \A x \in Replies : Append(clientIn, x) # <<>>
        BY <1>3, AnswersTyped, AppendProperties
      <4> QED BY <1>1, <3>1, <4>1 DEF Reads, Pending
    <3> QED BY <1>2, <2>1, <3>1, <3>2, <3>3, <3>4 DEF Pending
  <2> QED BY <2>3, <2>4
<1>11. Entrusting'
  BY <1>2 DEF Delivered, Entrusting
<1> QED BY <1>7, <1>8, <1>9, <1>10, <1>11 DEF Delivered

LEMMA ServerAcceptsDelivers ==
  ASSUME IsFiniteSet(Joiners), ~IsFiniteSet(Ids), IndInv, Delivered, ServerAccepts
  PROVE  Delivered'
<1>1. /\ Types /\ Single /\ Server \in ready /\ (\A q \in Sessions : Own(q) \notin ready)
      /\ ready' = ready \ {Server}
      /\ UNCHANGED <<mJoinerIid, rx, tx, jkey, crossed>>
  BY Where DEF IndInv, ServerAccepts, Done, envVars
<1>2. /\ serverIn # <<>> /\ serverIn \in Seq(Datagrams) /\ mSessions = {}
      /\ serverIn' = <<>> /\ Head(serverIn).j = mJoinerIid
  <2>1. /\ serverIn # <<>> /\ serverIn \in Seq(Datagrams) /\ mSessions = {} /\ Len(serverIn) = 1
    BY <1>1 DEF IndInv, Served, Types, TypeOK, Opening, ServerAccepts
  <2>2. serverIn' = Tail(serverIn)
    BY DEF ServerAccepts
  <2>3. Tail(serverIn) \in Seq(Datagrams) /\ Len(Tail(serverIn)) = 0
    BY <2>1, HeadTailProperties
  <2> QED BY <2>1, <2>2, <2>3, EmptySeq DEF Delivered, Recent
<1>3. Server # Client
  BY DEF Server, Client
<1>4. /\ \A j \in Joiners : jkey[j] # Fresh
      /\ Since(tx, clientIn, Fresh) /\ Theirs(rx, jkey, Fresh)
      /\ \A keys : Theirs(<<>>, keys, Fresh)
  BY <1>1, FreshUnused DEF Theirs
<1>5. Entrusting'
  BY <1>1 DEF Delivered, Entrusting
<1>6. CASE Blocks(Head(serverIn))
  <2>1. PICK s : s = NewSession(Fresh, Head(serverIn))
    OBVIOUS
  <2>2. s.in = <<>> /\ s.key = Fresh /\ s.id = Fresh /\ s.mState = "Handshaking"
    BY <2>1 DEF NewSession
  <2>3. mSessions' = {s} /\ UNCHANGED <<mKek, mNeedAppendKek, clientIn>>
    BY <1>2, <1>6, <2>1 DEF ServerAccepts, kekVars
  <2>4. Own(s) \notin ready'
    <3>1. Fresh \in Ids /\ Head(serverIn) \in Datagrams /\ <<>> \in Seq(Datagrams)
      BY <1>1, <1>2, IdFree, HeadTailProperties
    <3>2. s \in Sessions
      BY <1>1, <2>1, <3>1 DEF NewSession, Sessions, Datagrams, Types, TypeOK
    <3> QED BY <1>1, <3>2
  <2>5. Recent'
    BY <1>2, <2>2, <2>3 DEF Recent
  <2>6. Uncrossed'
    BY <1>1, <2>3 DEF Delivered, Uncrossed
  <2>7. Clean'
    BY <1>1, <1>2, <1>4, <2>2, <2>3 DEF Clean, CleanFor
  <2>8. Pending'
    BY <1>1, <1>2, <1>3, <2>3, <2>4 DEF Delivered, Pending
  <2> QED BY <1>5, <2>5, <2>6, <2>7, <2>8 DEF Delivered
<1>7. CASE ~Blocks(Head(serverIn))
  <2>0. PICK d \in Datagrams, s \in Sessions, t \in Sessions : \E r \in Handshake(s, d) :
          /\ mSessions' = {t} /\ Answering(s, d, r) /\ Reads(s, s, t, d, r)
          /\ d = Head(serverIn) /\ s.in = <<>> /\ s.key = Fresh
          /\ t.mState # "Ready" /\ ~r.request /\ Own(t) \notin ready'
    BY <1>7, ServerReads
  <2>1. PICK r \in Handshake(s, d) :
          /\ mSessions' = {t} /\ Answering(s, d, r) /\ Reads(s, s, t, d, r)
          /\ d = Head(serverIn) /\ s.in = <<>> /\ s.key = Fresh
          /\ t.mState # "Ready" /\ ~r.request /\ Own(t) \notin ready'
    BY <2>0
  <2>2. /\ t.in = <<>> /\ t.key = Fresh /\ mKek' = mKek /\ mNeedAppendKek' = mNeedAppendKek
        /\ \/ clientIn' = clientIn
           \/ \E x \in Replies : /\ clientIn' = Append(clientIn, x) /\ x.j = mJoinerIid
                                 /\ Alive(t) => ~Foreign(x, Fresh)
    <3>1. mNeedAppendKek \in BOOLEAN
      BY <1>1 DEF Types, TypeOK
    <3>2. mNeedAppendKek' = mNeedAppendKek
      BY <2>1, <3>1 DEF Reads
    <3> QED BY <1>2, <2>1, <3>2 DEF Reads, Foreign
  <2>3. tx \in Seq(Messages) /\ clientIn \in Seq(Replies)
    BY <1>1, AnswersTyped
  <2>4. Recent'
    BY <1>2, <2>1, <2>2 DEF Recent
  <2>5. Uncrossed'
    BY <1>1, <2>2, AnswerUncrossed DEF Delivered
  <2>6. Clean'
    <3>1. Alive(t) => Since(tx, clientIn', Fresh)
      BY <1>4, <2>2, <2>3, AnswerAdded
    <3> QED BY <1>1, <1>2, <1>4, <2>1, <2>2, <3>1 DEF Clean, CleanFor
  <2>7. Pending'
    <3>1. clientIn # <<>> => clientIn' # <<>>
      <4>1. \A x \in Replies : Append(clientIn, x) # <<>>
        BY <2>3, AppendProperties
      <4> QED BY <2>2, <4>1
    <3> QED BY <1>1, <1>2, <1>3, <2>1, <2>2, <3>1 DEF Delivered, Pending
  <2> QED BY <1>5, <2>4, <2>5, <2>6, <2>7 DEF Delivered
<1> QED BY <1>6, <1>7

LEMMA RelayReceiveDelivers ==
  ASSUME IndInv, Delivered, HandleRelayReceive
  PROVE  Delivered'
<1>1. /\ rx' = Tail(rx) /\ at = "read" /\ Done(Leader) /\ Leader \in ready
      /\ ready \subseteq {Leader, Client} /\ ready' = ready \ {Leader}
      /\ UNCHANGED <<mKek, mNeedAppendKek, clientIn, tx, jkey>>
      /\ \/ /\ Demux(Head(rx)) /\ mJoinerIid' = Head(rx).j
            /\ crossed' = (crossed \/ /\ mJoinerIid # Head(rx).j
                                      /\ clientIn # <<>> \/ mNeedAppendKek)
         \/ UNCHANGED <<mJoinerIid, mSessions, serverIn, crossed>>
  BY Where DEF HandleRelayReceive, IndInv, Done, kekVars, envVars
<1>2. Types /\ Single /\ crossed \in BOOLEAN /\ mSessions \subseteq Sessions
  BY DEF IndInv, Types, TypeOK
<1>3. /\ Dropped \/ ToSession \/ ToServer
      /\ rx # <<>> /\ rx \in Seq(Datagrams) /\ Head(rx) \in Datagrams
  BY RelayReceives
<1>4. /\ 1 \in DOMAIN rx /\ Head(rx) = rx[1] /\ Head(rx).j \in Joiners
      /\ \A n \in DOMAIN Tail(rx) : n + 1 \in DOMAIN rx /\ Tail(rx)[n] = rx[n + 1]
  BY <1>3, TailParts DEF Datagrams
\* What was there before has been read.
<1>5. serverIn = <<>> /\ \A s \in mSessions : s.in = <<>>
  <2>1. Server \notin ready /\ \A s \in mSessions : Own(s) \notin ready
    BY <1>1 DEF Own, Server, Leader, Client
  <2> QED BY <1>1, <2>1 DEF IndInv, Opening, Delivered, Recent
<1>6. /\ at' \in {"select", "deliver"} /\ ready' \subseteq {Client}
      /\ Client \in ready => Client \in ready'
      /\ \A s \in Sessions : Own(s) \notin ready'
  <2>1. ready' \subseteq {Client} /\ Client # Leader
    BY <1>1 DEF Leader, Client
  <2>2. at' = Station(ready') /\ ready' \in SUBSET Fds
    BY <1>1, <1>2, DoneTyped
  <2> QED BY <1>1, <2>1, <2>2, Stations DEF Own, Client
<1>7. PICK d \in Datagrams : /\ d = Head(rx)
                            /\ Head(<<d>>) = d /\ Append(<<>>, d) = <<d>> /\ Len(<<d>>) = 1
                            /\ \A keys, key : Theirs(rx, keys, key) => Theirs(<<d>>, keys, key)
  <2>1. ASSUME NEW d \in Datagrams, d = Head(rx)
        PROVE  /\ Head(<<d>>) = d /\ Append(<<>>, d) = <<d>> /\ Len(<<d>>) = 1
               /\ \A keys, key : Theirs(rx, keys, key) => Theirs(<<d>>, keys, key)
    <3>1. Head(<<d>>) = d /\ Append(<<>>, d) = <<d>>
      BY Tuples
    <3>2. Len(<<d>>) = 1 /\ DOMAIN <<d>> = {1} /\ <<d>>[1] = d
      OBVIOUS
    <3> QED BY <1>4, <2>1, <3>1, <3>2 DEF Theirs
  <2> QED BY <1>3, <2>1
\* One queue at most has a datagram, this one, whose joiner is the one remembered.
<1>8. /\ serverIn' = <<>> \/ (serverIn' = <<d>> /\ mJoinerIid' = d.j)
      /\ \A t \in mSessions' :
           /\ t \in Sessions
           /\ t.in = <<>> \/ (t.in = <<d>> /\ mJoinerIid' = d.j)
           /\ \E s \in mSessions : SameOtherwise(s, t)
  <2>1. CASE UNCHANGED <<mSessions, serverIn>>
    BY <1>2, <1>5, <2>1 DEF SameOtherwise
  <2>2. CASE ~UNCHANGED <<mSessions, serverIn>>
    <3>1. mJoinerIid' = d.j
      BY <1>1, <1>7, <2>2
    <3> QED BY <1>2, <1>3, <1>5, <1>7, <2>2, <3>1 DEF Dropped, ToSession, ToServer, SameOtherwise
  <2> QED BY <2>1, <2>2
<1>9. /\ ~crossed' => ~crossed
      /\ clientIn # <<>> \/ mNeedAppendKek => crossed' \/ mJoinerIid' = mJoinerIid
      /\ mJoinerIid \in Joiners => mJoinerIid' \in Joiners
  <2>1. mNeedAppendKek \in BOOLEAN
    BY <1>2 DEF Types, TypeOK
  <2> QED BY <1>1, <1>2, <1>4, <2>1
<1>10. Recent'
  BY <1>6, <1>7, <1>8 DEF Recent
<1>11. Uncrossed'
  <2>1. ASSUME NEW n \in DOMAIN clientIn
        PROVE  clientIn # <<>>
    BY <2>1
  <2> QED BY <1>1, <1>9, <2>1 DEF Delivered, Uncrossed
<1>12. Clean'
  <2> SUFFICES ASSUME NEW t \in mSessions', Alive(t)
               PROVE  (CleanFor(t))'
    BY DEF Clean
  <2>1. PICK s \in mSessions : SameOtherwise(s, t)
    BY <1>8
  <2>2. t.key = s.key /\ CleanFor(s)
    BY <2>1 DEF SameOtherwise, Alive, Delivered, Clean
  <2>3. Theirs(<<>>, jkey, s.key) /\ Theirs(<<d>>, jkey, s.key) /\ Theirs(Tail(rx), jkey, s.key)
    BY <1>4, <1>7, <2>2 DEF CleanFor, Theirs
  <2>4. Theirs(t.in, jkey, s.key) /\ Theirs(serverIn', jkey, s.key)
    BY <1>8, <2>3
  <2> QED BY <1>1, <2>2, <2>3, <2>4 DEF CleanFor
<1>13. Pending'
  <2> SUFFICES ASSUME mNeedAppendKek
               PROVE  Pending'
    BY <1>1 DEF Pending
  <2>1. Pending
    BY DEF Delivered
  <2>2. \/ mSessions = {}
        \/ \E s, t \in Sessions :
             mSessions = {s} /\ mSessions' = {t} /\ SameOtherwise(s, t)
    BY <1>2, <1>3 DEF Dropped, ToSession, ToServer, SameOtherwise, Single
  <2>3. Client \in ready' \/ \E t \in mSessions' : t.mState = "Ready" /\ Own(t) \notin ready'
    BY <1>6, <2>1, <2>2 DEF Pending, SameOtherwise
  <2>4. \A t \in mSessions' : Own(t) \notin ready'
    BY <1>6, <1>8
  <2>5. ~crossed' => mKek = jkey[mJoinerIid'] /\ Pure(tx, mKek)
    BY <1>9, <2>1 DEF Pending
  <2> QED BY <1>1, <1>9, <2>1, <2>3, <2>4, <2>5 DEF Pending
<1>14. Entrusting'
  <2>1. tx' = tx /\ jkey' = jkey
    BY <1>1
  <2> QED BY <2>1 DEF Delivered, Entrusting
<1> QED BY <1>10, <1>11, <1>12, <1>13, <1>14 DEF Delivered

LEMMA RelayTransmitDelivers ==
  ASSUME IndInv, Delivered, SendRelayTransmit
  PROVE  Delivered'
<1>1. /\ at = "deliver" /\ Done(Client) /\ clientIn' = Tail(clientIn)
      /\ tx' = Append(tx, RelayTransmit(Head(clientIn)))
      /\ mNeedAppendKek' = FALSE /\ crossed' = (crossed /\ clientIn' # <<>>)
      /\ UNCHANGED <<mJoinerIid, mKek, mSessions, serverIn, rx, jkey>>
  BY DEF SendRelayTransmit, serverVars, envVars
<1>2. /\ Types /\ clientIn # <<>> /\ clientIn \in Seq(Replies) /\ tx \in Seq(Messages)
      /\ ready' = {} /\ at' = "select" /\ crossed \in BOOLEAN
  <2>1. /\ Types /\ clientIn # <<>> /\ clientIn \in Seq(Replies) /\ tx \in Seq(Messages)
        /\ ready' = {} /\ crossed \in BOOLEAN
    BY <1>1, Where, AnswersTyped DEF IndInv, Reported, Done, Types, TypeOK
  <2>2. at' = "select"
    BY <1>1, <2>1, DoneTyped, Stations
  <2> QED BY <2>1, <2>2
<1>3. PICK m \in Messages :
        /\ m = RelayTransmit(Head(clientIn)) /\ m.to = mJoinerIid /\ m.reply = Head(clientIn)
        /\ m.kek = (IF mNeedAppendKek THEN mKek ELSE 0) /\ m.crossed = crossed
  <2>1. Head(clientIn) \in Replies
    BY <1>2, HeadTailProperties
  <2>2. RelayTransmit(Head(clientIn)) \in Messages
    BY <1>2, <2>1 DEF RelayTransmit, Messages, Types, TypeOK
  <2> QED BY <2>2 DEF RelayTransmit
<1>4. /\ 1 \in DOMAIN clientIn /\ Head(clientIn) = clientIn[1]
      /\ \A n \in DOMAIN clientIn' : n + 1 \in DOMAIN clientIn /\ clientIn'[n] = clientIn[n + 1]
  BY <1>1, <1>2, TailParts
<1>5. /\ \A n \in DOMAIN tx' : \/ n \in DOMAIN tx /\ tx'[n] = tx[n]
                               \/ n = Len(tx) + 1 /\ tx'[n] = m
      /\ Len(tx) \in Nat /\ DOMAIN tx = 1 .. Len(tx)
  BY <1>1, <1>2, <1>3, AppendParts, LenProperties
<1>6. Recent'
  BY <1>1, <1>2 DEF Delivered, Recent
<1>7. Uncrossed'
  <2>1. \A n \in DOMAIN clientIn' : clientIn' # <<>>
    OBVIOUS
  <2>2. \A n \in DOMAIN clientIn' :
          ~crossed' /\ clientIn'[n].kind # "alert" => clientIn'[n].j = mJoinerIid
    BY <1>1, <1>2, <1>4, <2>1 DEF Delivered, Uncrossed
  <2>3. ~m.crossed /\ m.reply.kind # "alert" => m.to = m.reply.j
    BY <1>3, <1>4 DEF Delivered, Uncrossed
  <2> QED BY <1>1, <1>5, <2>2, <2>3 DEF Delivered, Uncrossed
<1>8. Clean'
  <2> SUFFICES ASSUME NEW s \in mSessions, Alive(s)
               PROVE  (CleanFor(s))'
    BY <1>1 DEF Clean
  <2>1. CleanFor(s)
    BY DEF Delivered, Clean
  <2>2. /\ AllPure(tx, clientIn, s.key) => AllPure(tx', clientIn', s.key)
        /\ Since(tx, clientIn, s.key) => Since(tx', clientIn', s.key)
    BY <1>1, <1>2, <1>3, AnswerSent
  <2> QED BY <1>1, <2>1, <2>2 DEF CleanFor
<1>9. Pending'
  BY <1>1 DEF Pending
<1>10. Entrusting'
  <2> SUFFICES ASSUME NEW n \in DOMAIN tx', ~tx'[n].crossed /\ tx'[n].kek # 0
               PROVE  /\ tx'[n].to \in Joiners /\ jkey[tx'[n].to] = tx'[n].kek
                      /\ \A k \in DOMAIN tx' : k < n => ~Foreign(tx'[k].reply, tx'[n].kek)
    BY <1>1 DEF Entrusting
  <2>1. \A k \in DOMAIN tx' : k < n => k \in DOMAIN tx /\ tx'[k] = tx[k]
    BY <1>5
  <2>2. CASE n \in DOMAIN tx /\ tx'[n] = tx[n]
    BY <2>1, <2>2 DEF Delivered, Entrusting
  <2>3. CASE tx'[n] = m
    <3>1. mNeedAppendKek /\ ~crossed /\ m.kek = mKek
      BY <1>3, <2>3
    <3>2. mJoinerIid \in Joiners /\ mKek = jkey[mJoinerIid] /\ Pure(tx, mKek)
      BY <3>1 DEF Delivered, Pending
    <3> QED BY <1>3, <2>1, <2>3, <3>1, <3>2 DEF Pure
  <2> QED BY <1>5, <2>2, <2>3
<1> QED BY <1>6, <1>7, <1>8, <1>9, <1>10 DEF Delivered

LEMMA DeliveredInit == Init => Delivered
<1> SUFFICES ASSUME Init
             PROVE  Delivered
  OBVIOUS
<1> QED BY DEF Init, Delivered, Recent, Uncrossed, Clean, Pending, Entrusting

LEMMA DeliveredKept ==
  ASSUME IsFiniteSet(Joiners), ~IsFiniteSet(Ids)
  PROVE  IndInv /\ IndInv' /\ Delivered /\ [Next]_vars => Delivered'
<1> SUFFICES ASSUME IndInv, IndInv', Delivered, [Next]_vars
             PROVE  Delivered'
  OBVIOUS
<1>1. CASE UNCHANGED vars
  <2>1. UNCHANGED <<at, ready, mJoinerIid, mSessions, serverIn, mKek, mNeedAppendKek, clientIn,
                    rx, tx, jkey, crossed>>
    BY <1>1 DEF vars, serverVars, kekVars, envVars
  <2>2. Recent' /\ Uncrossed' /\ Entrusting'
    BY <2>1 DEF Delivered, Recent, Uncrossed, Entrusting
  <2>3. Clean' /\ Pending'
    BY <2>1 DEF Delivered, Clean, CleanFor, Pending
  <2> QED BY <2>2, <2>3 DEF Delivered
<1>2. CASE Round
  BY <1>2, UpdateFdSetDelivers, SessionProcessDelivers, ServerAcceptsDelivers,
     RelayReceiveDelivers, RelayTransmitDelivers DEF Round
<1>3. CASE Environment
  BY <1>3, EnvironmentDelivers
<1> QED BY <1>1, <1>2, <1>3 DEF Next, Rest

\* What answers a joiner is sent to it, and the KEK with it is its own, unless another
\* joiner was relayed before all was sent (commissioner.cpp:638): for any number of joiners
\* and faults.
THEOREM AnswersGoRight ==
  ASSUME IsFiniteSet(Joiners), ~IsFiniteSet(Ids)
  PROVE  Spec => []RightRouter
<1>1. Delivered => RightRouter
  BY DEF Delivered, Uncrossed, Entrusting, RightRouter
<1> QED BY <1>1, InvInit, InvKept, DeliveredInit, DeliveredKept, PTL DEF Spec
=============================================================================
