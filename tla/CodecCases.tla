----------------------------- MODULE CodecCases -----------------------------
(***************************************************************************)
(* The conversions of Codecs, the poller and the event emitter, each       *)
(* applied to a case and compared with what it is to compute, defined      *)
(* another way.                                                            *)
(***************************************************************************)
EXTENDS Codecs, FiniteSets

CONSTANTS HexCases, LongCases, SteeringCases, TlvCases, UdpCases, PskcCases,
          ExpiryCases, DelayCases, PollCases, EmitterCases, NoCase, Iterations,
          Second,    \* ticks of the poller's clock
          Width,     \* of unsigned long
          Minute     \* kSessionTimeout

VARIABLES case, result

None == <<>>

Is(kind) == case # NoCase /\ case.kind = kind
Returns(r) == result = None /\ result' = <<r>> /\ UNCHANGED case

DecodeHex == Is("hex") /\ Returns(Hex2Bytes(case.hex, case.size))

\* HandleAvailableNetworkRequest shows the extended PAN id it was given.
ShowPanId == Is("long") /\ Returns(Long2Hex(HostSwap64(case.long)))

\* The joiners of UpdateJoinerList, one after the other.
ComputeSteering ==
  /\ Is("steering")
  /\ Returns(FoldLeft(LAMBDA f, h : ComputeSteeringData(f, case.mLength, FALSE, h),
                      {}, case.hashes))

WriteAndRead ==
  /\ Is("tlv")
  /\ Returns(Tlvs(FlattenSeq([i \in DOMAIN case.tlvs |->
               Tlv(case.tlvs[i].type, case.tlvs[i].value, case.tlvs[i].forced)])))

Answer ==
  /\ Is("udp")
  /\ Returns(SendToCommissioner(UdpProxyStream(
               UdpProxySend(case.packet, case.port, case.addr, case.sockPort))))

DeriveKey ==
  Is("pskc") /\ Returns(ComputePskc(case.extPanId, case.name, case.passphrase, Iterations))

\* A round of select, some time after each session was last heard of.
Expiration(age) == Wrapped(Width, case.now - age + Minute)
UpdateFdSet ==
  /\ Is("expiry")
  /\ Returns(Expire(Width, case.now, case.timeout, {Expiration(a) : a \in case.ages}))

\* mbedtls sets the timer of a flight and asks for it some time later.
AskTimer ==
  /\ Is("delay")
  /\ Returns(GetDelay(Width, SetDelay(Width, case.now, case.intermediate, case.final),
                      Wrapped(Width, case.now + case.elapsed)))

\* A round of the poller: watches 11, 12, ... of descriptors 1, 2, ...; timers
\* 1, 2, ... set at the time 1, and one whose time is taken back and is freed.
Poll == INSTANCE Poller

PollerOf(c) ==
  LET Watch(p, i) == Poll!WatchNew(p, 10 + i, i, c.watches[i])
      Timer(p, i) == Poll!TimeoutNew(p, i, 1, c.timers[i])
      p == FoldLeft(Timer, FoldLeft(Watch, Poll!NoPoller, [i \in DOMAIN c.watches |-> i]),
                    [i \in DOMAIN c.timers |-> i])
      n == Len(c.timers) + 1
  IN Poll!TimeoutFree(Poll!TimeoutUpdate(Poll!TimeoutNew(p, n, 1, 0), n, 1, Poll!Never), n)

kPollTimeout == [sec |-> 10, usec |-> 0]

ServePoller ==
  /\ Is("poll")
  /\ Returns([waits |-> Poll!UpdateFdSet(PollerOf(case), case.now, kPollTimeout),
               done  |-> Poll!Process(PollerOf(case), case.now, case.ready, case.does)])

Events == INSTANCE EventEmitter

\* The first event is emitted after handlers came and went.
EmitEvent ==
  /\ Is("emitter")
  /\ LET mEvents == FoldLeft(Events!Apply, [event \in 1..2 |-> <<>>], case.ops)
     IN Returns([before |-> mEvents, emitted |-> Events!Emit(mEvents, 1, case.does)])

CaseInit ==
  /\ result = None
  /\ case \in {NoCase} \cup HexCases \cup LongCases \cup SteeringCases \cup TlvCases
                \cup UdpCases \cup PskcCases \cup ExpiryCases \cup DelayCases \cup PollCases
                \cup EmitterCases

CaseNext ==
  DecodeHex \/ ShowPanId \/ ComputeSteering \/ WriteAndRead \/ Answer \/ DeriveKey
  \/ UpdateFdSet \/ AskTimer \/ ServePoller \/ EmitEvent

Computed(kind) == Is(kind) /\ result # None
Got == result[1]

Sorted(numbers) == SetToSortSeq(numbers, <)

-----------------------------------------------------------------------------

\* Hex2Bytes accepts the strings of digits for which there is room, of odd
\* length too, and no other; an extended PAN id is shown so that typing it in
\* again names the same network.
HexMeansBytes ==
  /\ Computed("hex") =>
       /\ Got.n # -1 <=> /\ Len(case.hex) <= 2 * case.size
                       /\ \A i \in DOMAIN case.hex : case.hex[i] # NoDigit
       /\ Got.n # -1 => /\ Got.n = (Len(case.hex) + 1) \div 2
                      /\ Got.n = Len(Got.bytes)
                      /\ Bytes2Hex(Got.bytes) \in {case.hex, <<0>> \o case.hex}
  /\ Computed("long") => Hex2Bytes(Got, 8) = [n |-> 8, bytes |-> case.long]

\* x^k modulo a polynomial, and with it the remainder of x^16 times a message.
Power(polynomial) ==
  LET x[k \in 0..80] ==
        IF k < 16 THEN {k}
        ELSE LET y == {b + 1 : b \in x[k - 1]}
             IN IF 16 \in y THEN Xor(y \ {16}, polynomial) ELSE y
  IN x

Remainder(polynomial, bytes) ==
  LET x == Power(polynomial)
      Terms == {<<j, b>> \in (DOMAIN bytes) \X (0..7) : b \in Bits(bytes[j])}
  IN {i \in 0..15 :
        Cardinality({t \in Terms : i \in x[16 + 8 * (Len(bytes) - t[1]) + t[2]]}) % 2 = 1}

\* The steering data admits the joiners it was computed for, by the rule a
\* joiner tests it with, and no bit is set for anything else: the two CRCs of
\* the id, taken modulo the number of bits, count from the end of the filter.
SteeringAdmitsJoiners ==
  Computed("steering") =>
    LET ids == {ComputeHashMac(case.hashes[i]) : i \in DOMAIN case.hashes}
        bits == 8 * case.mLength
    IN {8 * (case.mLength - 1 - x[1]) + x[2] : x \in Got}
         = UNION {{Number(Remainder(kCcitt, id)) % bits, Number(Remainder(kAnsi, id)) % bits}
                    : id \in ids}

\* A message of TLVs is read as it was written, with values on either side of
\* the length that needs the extended form.
TlvsReadAsWritten ==
  Computed("tlv") =>
    Got = [i \in DOMAIN case.tlvs |-> [type |-> case.tlvs[i].type, value |-> case.tlvs[i].value]]

\* A datagram that wpantund returns as it was sent, from the socket of the
\* border agent, reaches the commissioner that sent it, and no other does.
AnswerReachesSender ==
  Computed("udp") =>
    Got = IF case.sockPort # kBorderAgentUdpPort THEN {}
        ELSE {[packet |-> case.packet, addr |-> case.addr, port |-> case.port]}

\* PSKc is what PBKDF2 prescribes, and two networks with one key agree in the
\* extended PAN id, the name and the passphrase.
PskcOfNetwork ==
  Computed("pskc") =>
    /\ \A c \in PskcCases :
         ComputePskc(c.extPanId, c.name, c.passphrase, Iterations) = Got => c = case
    /\ LET U[i \in 1..Iterations] ==
             Prf(case.passphrase,
                 IF i = 1 THEN Plain(<<84, 104, 114, 101, 97, 100>> \o case.extPanId
                                       \o case.name \o <<0, 0, 0, 1>>)
                 ELSE U[i - 1])
       IN Got = {U[i] : i \in 1..Iterations}

\* A session is over once it has not been heard of for a minute, and select
\* returns when the first of the others will be, if not earlier; provided that
\* the clock of Width bits does not turn over in the lifetime of a session.
SessionsEndInTime ==
  /\ Computed("expiry")
  /\ \A a \in case.ages : case.now - a >= 0 /\ case.now - a + Minute < 2^Width
  => LET left == {a \in case.ages : a < Minute}
     IN /\ Got.alive = {Expiration(a) : a \in left}
        /\ Got.timeout = Min({case.timeout} \cup {Minute - a : a \in left})

\* The DTLS timer tells which delays are over, whether or not the clock turns
\* over in between: a retransmission is neither skipped nor sent at once.
TimerSurvivesWrap ==
  Computed("delay") =>
    Got = CASE case.final = 0 -> -1
            [] case.final # 0 /\ case.elapsed >= case.final -> 2
            [] case.final > case.elapsed /\ case.elapsed >= case.intermediate -> 1
            [] case.elapsed < case.intermediate -> 0

\* Select returns by the time of the first timer that is armed, provided that it is
\* handed a time of whole seconds; and a round calls each watch of which an event
\* has happened and then each timer whose time has come by then, in the order of
\* their creation, and no other: a timer that a watch has just armed or disarmed as
\* it is by now.  It can only go wrong when a watch is created or freed while the
\* watches are served, or a timer freed that is about to be called.
PollerServes ==
  Computed("poll") =>
    LET called == {i \in DOMAIN case.watches : \E e \in case.watches[i] : <<e, i>> \in case.ready}
        About(t, i) == case.does[10 + i].op \in {"arm", "free"} /\ case.does[10 + i].timer = t
        Touched(t) == {i \in called : About(t, i)}
        Freed(t)   == \E i \in Touched(t) : case.does[10 + i].op = "free"
        Time(t) == IF Touched(t) = {} THEN Poll!Due(1, case.timers[t])
                   ELSE Poll!Due(case.now, case.does[10 + Max(Touched(t))].after)
        due == {t \in DOMAIN case.timers : ~Freed(t) /\ Time(t) \in 1..case.now}
        pending == {Poll!Due(1, case.timers[t]) - case.now : t \in DOMAIN case.timers}
                     \ {-case.now}
        sleep == Second * Got.waits.timeout.sec + Got.waits.timeout.usec
    IN /\ \A wait \in pending : sleep <= Max({wait, 0})
       /\ sleep = 10 * Second \/ \E wait \in pending : wait < sleep + Second
       /\ Got.done.defined =>
            Got.done.calls = [i \in 1..Cardinality(called) |-> 10 + Sorted(called)[i]] \o Sorted(due)
       /\ Got.done.defined
            <=> /\ \A i \in called : case.does[10 + i].op \notin {"watch", "unwatch"}
                /\ \A t \in due : case.does[t].op = "free"
                     => ~\E x \in due : x > t /\ case.does[t].timer = x

\* Sessions end, flights are sent again, and timers are called when their time has
\* come.
TimesKept == SessionsEndInTime /\ TimerSurvivesWrap /\ PollerServes

\* A handler is registered as often as it registered and has not deregistered since;
\* an event calls each as often as that, in the order of registration, and one that
\* registers meanwhile too, but none that is deregistered before its turn.  It can
\* only go wrong when a handler deregisters itself.
HandlersCalled ==
  Computed("emitter") =>
    LET Times(h, s) == Cardinality({i \in DOMAIN s : s[i] = h})
        Count(n, o, h) == IF o.h # h \/ o.event # 1 THEN n
                          ELSE IF o.op = "on" THEN n + 1 ELSE IF n = 0 THEN 0 ELSE n - 1
        Registered(h) == FoldLeft(LAMBDA n, o : Count(n, o, h), 0, case.ops)
        handlers == DOMAIN case.does
        calls == Got.emitted.calls
        Does(op, h) == [op |-> op, event |-> 1, h |-> h]
        Came(h) == Cardinality({g \in ToSet(calls) : case.does[g] = Does("on", h)})
        Left(h) == \E g \in ToSet(calls) : case.does[g] = Does("off", h)
        Settled(h) == Came(h) = 0 /\ ~Left(h)
    IN /\ \A h \in handlers : Times(h, Got.before[1]) = Registered(h)
       /\ Got.emitted.defined <=> \A h \in ToSet(calls) : case.does[h] # Does("off", h)
       /\ Got.emitted.defined =>
            /\ SelectSeq(calls, Settled) = SelectSeq(Got.before[1], Settled)
            /\ \A h \in handlers : LET n == Times(h, calls) IN
                 /\ Times(h, Got.emitted.mEvents[1]) <= n
                 /\ n <= Registered(h) + Came(h)
                 /\ ~Left(h) => n = Registered(h) + Came(h)

\* Every conversion computes what it is to.
ConversionsHold ==
  /\ HexMeansBytes /\ SteeringAdmitsJoiners /\ TlvsReadAsWritten /\ AnswerReachesSender
  /\ PskcOfNetwork /\ TimesKept /\ HandlersCalled
=============================================================================
