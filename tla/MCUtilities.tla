---------------------------- MODULE MCUtilities ----------------------------
(***************************************************************************)
(* The command lines of up to three words, and those that use an option    *)
(* twice; and, with nothing on the command line, the cases of the          *)
(* conversions and of the programs.  The two share only the operators of   *)
(* Codecs.                                                                 *)
(***************************************************************************)
EXTENDS CommandLine, Programs

NoHex(n)  == [i \in 1..n |-> NoDigit]

Word(name, hex, number, pskd) ==
  [name |-> name, len |-> Len(hex), hex |-> hex, number |-> number, pskd |-> pskd]

OptionWords == {Word(o, NoHex(Len(o)), NaN, FALSE) : o \in Known \cup {"-h", "--selftest"}}

\* Numbers at the ends of the ranges; words as long as the buffers and longer;
\* digits for 8 and 16 bytes, one less, one more, or with another character.
ValueWords ==
  {Word("0", <<0>>, {0}, TRUE), Word("1", <<1>>, {1}, TRUE), Word("16", <<1, 6>>, {16}, TRUE),
   Word("17", <<1, 7>>, {17}, TRUE), Word("2", <<2>>, {2}, TRUE),
   Word("-1", <<NoDigit, 1>>, {-1}, FALSE), Word("86400", <<8, 6, 4, 0, 0>>, {86400}, TRUE),
   Word("86401", <<8, 6, 4, 0, 1>>, {86401}, TRUE),
   Word("16, with leading zeros", [i \in 1..100 |-> IF i = 100 THEN 6 ELSE IF i = 99 THEN 1 ELSE 0],
        {16}, TRUE)}
  \cup {Word("digits", [i \in 1..n |-> (7 * i + n) % 16], NaN, TRUE) : n \in {6, 15, 16, 17, 31, 32, 33}}
  \cup {Word("no digit at the end", [i \in 1..16 |-> IF i = 16 THEN NoDigit ELSE 3], NaN, FALSE),
        Word("no digit", NoHex(64), NaN, FALSE), Word("no digit", NoHex(65), NaN, TRUE)}

Words == OptionWords \cup ValueWords

Short == {<<>>} \cup {<<w>> : w \in Words} \cup (Words \X Words)
Triples == {<<w[1], w[2], x>> : w \in OptionWords \X Words, x \in Words}
Twice == {<<o, v, o, w>> : o \in {x \in OptionWords : Arity(x) = 2}, v \in ValueWords, w \in ValueWords}

MCArgvs == Short \cup Triples \cup Twice

-----------------------------------------------------------------------------

Hex(h, s) == [kind |-> "hex", hex |-> h, size |-> s]
MCHexCases == {Hex(h, s) : h \in UNION {[1..n -> {0, 9, 10, 15, NoDigit}] : n \in 0..4}, s \in 1..2}

MCLongCases == {[kind |-> "long", long |-> [i \in 1..8 |-> (a * i + b) % 256]] :
                  a \in {0, 1, 37}, b \in {0, 15, 16, 255}}

Hash(a, b) == [i \in 1..32 |-> (a * i * i + b) % 256]
Hashes == {Hash(a, b) : a \in {0, 29}, b \in {0, 2, 253}}
MCSteeringCases ==
  {[kind |-> "steering", mLength |-> l, hashes |-> hs] :
     l \in {1, 15, 16}, hs \in UNION {[1..n -> Hashes] : n \in 1..2}}

Bytes(n, b) == [i \in 1..n |-> (i + b) % 256]
SomeTlvs == {[type |-> t, value |-> Bytes(n, t), forced |-> f] :
               t \in {1, 255}, n \in {0, 1, 2, 254, 255, 256}, f \in BOOLEAN}
MCTlvCases == {[kind |-> "tlv", tlvs |-> ts] : ts \in UNION {[1..n -> SomeTlvs] : n \in 1..2}}

MCUdpCases ==
  {[kind |-> "udp", packet |-> Bytes(n, b), addr |-> Bytes(16, b), port |-> p, sockPort |-> q] :
     n \in {1, 20}, b \in {0, 250}, p \in {1, 255, 256, 49191, 65535},
     q \in {kBorderAgentUdpPort, 61631, 5683}}

MCPskcCases ==
  {[kind |-> "pskc", extPanId |-> Bytes(8, b), name |-> Bytes(n, c), passphrase |-> p] :
     b \in {0, 83}, n \in {1, 2, 16}, c \in {0, 83}, p \in {"secret", "other"}}

MCExpiryCases ==
  {[kind |-> "expiry", now |-> n, timeout |-> t, ages |-> A] :
     n \in 0..63, t \in {0, 5, 9, 30}, A \in {B \in SUBSET (0..11) : Cardinality(B) <= 2}}

MCDelayCases ==
  {d \in [kind : {"delay"}, now : 0..63, intermediate : 0..4, final : 0..7, elapsed : 0..20] :
     d.final = 0 \/ d.intermediate <= d.final}

Act(op, timer, after) == [op |-> op, timer |-> timer, after |-> after]
Acts == {Act("nothing", 0, 0), Act("watch", 0, 0), Act("unwatch", 0, 0)}
          \cup {Act("arm", t, a) : t \in 1..2, a \in {-1, 0, 2}} \cup {Act("free", t, 0) : t \in 1..2}
MCPollCases ==
  {[kind |-> "poll", watches |-> <<{"in"}, {"in", "out"}>>, timers |-> <<s, t>>, now |-> 1 + n,
    ready |-> r, does |-> (1 :> a) @@ (2 :> Act("arm", 2, -1)) @@ (11 :> b) @@ (12 :> Act("arm", 1, 3))] :
     s \in {-1, 0, 5}, t \in {-1, 0, 3, 9}, n \in {0, 2}, a \in Acts, b \in Acts,
     r \in {{}, {<<"in", 1>>}, {<<"out", 1>>, <<"out", 2>>}, {<<"in", 1>>, <<"in", 2>>}}}

Op(op, event, h) == [op |-> op, event |-> event, h |-> h]
Ops == {Op(op, 1, h) : op \in {"on", "off"}, h \in 1..2}
MCEmitterCases ==
  {[kind |-> "emitter", ops |-> ops, does |-> <<a, b>>] :
     ops \in UNION {[1..n -> Ops \cup {Op("on", 2, 1)}] : n \in 0..4},
     a \in Ops \cup {Events!Nothing}, b \in Ops \cup {Events!Nothing}}

Opt(opt, n) == [opt |-> opt, number |-> n]
DaemonWords == {Opt(o, 0) : o \in {"d", "I", "p", "v", "a", "x"}} \cup {Opt("", 7), Opt("", 65616)}
MCDaemonCases ==
  {[kind |-> "daemon", program |-> p, argv |-> a] :
     p \in {"otbr-agent", "otbr-web"}, a \in UNION {[1..n -> DaemonWords] : n \in 0..4}}

Eui64(b) == [i \in 1..16 |-> (i * b) % 16]
ToolWords == {Eui64(1), Eui64(3), [Eui64(1) EXCEPT ![16] = NoDigit], <<>>, <<0>>, <<1>>, <<1, 6>>,
              <<1, 7>>, <<1, 5, 11>>, <<11, 5>>, [i \in 1..15 |-> 0], [i \in 1..17 |-> NoDigit],
              [i \in 1..256 |-> NoDigit]}
MCToolCases == {[kind |-> "tool", argv |-> a] : a \in UNION {[1..n -> ToolWords] : n \in 0..3}}

\* In place of SHA-256: bytes that depend on all of the input.
MCSha256(bytes) ==
  [i \in 1..32 |-> FoldLeft(LAMBDA n, b : (37 * n + b + i) % 256, i, bytes)]

Numbers == {n * s : n \in {0, 1, 7, 9, 10, 99, 100, 9999, 10000, 32767, 999999999, 1000000000},
                   s \in {1, -1}}
Leaf == [type : {"int32", "uint32"}, number : Numbers]
          \cup [type : {"int16"}, number : {n \in Numbers : Abs(n) < 32768}]
          \cup [type : {"byte"}, bytes : {<<0>>, <<171>>}] \cup [type : {"uint16"}, bytes : {<<1, 255>>}]
          \cup [type : {"uint64"}, bytes : {Bytes(8, 250)}]
          \cup [type : {"boolean"}, holds : BOOLEAN] \cup [type : {"string"}, text : {"associated"}]
          \cup [type : {"other"}]
Few == {[type |-> "byte", bytes |-> <<171>>], [type |-> "int32", number |-> -42],
        [type |-> "string", text |-> "name"]}
Nest(V) == [type : {"array"}, items : UNION {[1..n -> V] : n \in 0..2}]
             \cup [type : {"dict"}, key : V, value : V] \cup [type : {"variant"}, value : V]
MCValueCases ==
  {[kind |-> "value", reply |-> <<>>]} \cup
  {[kind |-> "value", reply |-> <<[ret |-> r, value |-> v]>>] :
     r \in {0, 1}, v \in Leaf \cup Nest(Few) \cup Nest(Nest(Few))}

Root == <<"www">>
File(type, size, readable) == [type |-> type, size |-> size, readable |-> readable]
Trees == {(Root :> File("directory", 0, TRUE)) @@ (Append(Root, "index.html") :> f)
            @@ (Append(Root, "a") :> g) @@ (<<>> :> File("directory", 0, TRUE))
            @@ (<<"index.html">> :> File("regular", 9, TRUE)) @@ (<<"www2">> :> File("regular", 9, TRUE)) :
            f \in {File("directory", 0, TRUE), File("regular", 0, TRUE), File("regular", 5, FALSE)},
            g \in {File("directory", 0, TRUE), File("socket", 0, TRUE), File("regular", 4, FALSE)}
                    \cup {File("regular", n, TRUE) : n \in {0, 1023, 1024, 1025, 2048, 3000}}}
MCFileCases ==
  {[kind |-> "file", root |-> Root, path |-> p, files |-> t, taken |-> n] :
     p \in {Root, <<>>, <<"www2">>, <<"index.html">>, Append(Root, "a"), Append(Root, "b")},
     t \in Trees, n \in 0..3}

\* Texts of one line and of several, and as long as the buffers; the calls of a
\* log, one second and a half apart.
Ch == <<"c">>
Text(n) == [i \in 1..n |-> Ch]
Texts == {<<>>, <<Ch>>, <<Ch, NL>>, <<NL, Ch>>, <<Ch, CR, NL>>}
Settings == [op : {"init", "level"}, level : {3, 4, 5, 7}] \cup [op : {"deinit", "dtls"}]
              \cup [op : {"enable"}, enabled : BOOLEAN] \cup [op : {"file"}, opens : BOOLEAN]
FewSayings == [op : {"log"}, level : {3, 7}, text : {<<Ch>>, <<Ch, NL>>}]
                \cup [op : {"dump"}, level : {6}, memory : {Bytes(17, 0)}]
                \cup [op : {"mbedtls"}, level : {1, 4}, text : {<<Ch>>}]
Sayings == FewSayings
  \cup [op : {"log"}, level : {0, 4, 6}, text : Texts]
  \cup [op : {"dump"}, level : {3, 7}, memory : {Bytes(n, 240) : n \in {0, 1, 15, 16, 32, 33}}]
  \cup [op : {"mbedtls"}, level : 0..4, text : {<<Ch, NL>>}]
  \cup [op : {"mbed"}, text : Texts \cup {Append(Text(n), NL) : n \in DebugLine - 2 .. DebugLine},
        behind : {<<>>, <<Ch>>, <<NL, Ch>>}]
Opened == [op |-> "file", opens |-> TRUE]
Started == [op |-> "init", level |-> 7]
CallsOfLogs ==
  {Append(a, b) : a \in UNION {[1..n -> Settings] : n \in 0..2}, b \in Sayings}
  \cup {Append(a, b) : a \in [1..3 -> Settings], b \in FewSayings}
  \cup {<<a, b, c, d>> : a \in Settings, b \in FewSayings, c \in Settings, d \in FewSayings}
  \cup {<<Started, Opened, [op |-> "log", level |-> 6, text |-> Text(n)]>> : n \in LogLine - 2 .. LogLine + 1}
MCLogCases ==
  {[kind |-> "log", calls |-> [i \in DOMAIN q |-> q[i] @@ ("now" :> 1500 * i)]] : q \in CallsOfLogs}

-----------------------------------------------------------------------------

MCInit == Init /\ IF mARGV = <<>> THEN CaseInit \/ ProgramInit ELSE case = NoCase /\ result = None
MCNext == \/ Next /\ UNCHANGED <<case, result>>
          \/ (CaseNext \/ ProgramNext) /\ UNCHANGED vars
MCSpec == MCInit /\ [][MCNext]_<<vars, case, result>>
=============================================================================
