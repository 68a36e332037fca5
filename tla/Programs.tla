------------------------------ MODULE Programs ------------------------------
(***************************************************************************)
(* What the programs of the border router do with their words: the options *)
(* of the two daemons (agent/main.cpp, web/main.cpp), the tools pskc and   *)
(* steering-data (tools/*.cpp), the text the web service shows for a value *)
(* of a wpantund property (dbus_get.cpp), and the files it serves          *)
(* (web_server.cpp).                                                       *)
(*                                                                         *)
(* A word of a tool is a sequence of characters, a hexadecimal digit its   *)
(* value and any other NoDigit; a word of a daemon the letter of an option *)
(* or nothing, and what atoi makes of it.  getopt, SHA-256, libdbus and  *)
(* the file system are external.                                           *)
(***************************************************************************)
EXTENDS Logging, TLC

CONSTANTS DaemonCases, ToolCases, ValueCases, FileCases, Sha256(_)

-----------------------------------------------------------------------------
(* The daemons. *)

kHttpPort == 80
kLogInfo  == 6

\* The letters of getopt's string, with an argument and without.
Takes(program) == IF program = "otbr-agent" THEN {"d", "I"} ELSE {"d", "I", "p", "v"}
Alone(program) == IF program = "otbr-agent" THEN {"v"} ELSE {"a"}

\* One round of the loop over getopt.
GetVersion(s) == [s EXCEPT !.ends = <<0>>]
Usage(s)      == [s EXCEPT !.ends = <<-1>>]
Handle(s, opt, optarg) ==
  CASE opt = "d" -> [s EXCEPT !.logLevel = optarg.number]
    [] opt = "I" -> [s EXCEPT !.interfaceName = <<optarg>>]
    [] opt = "p" -> [s EXCEPT !.port = optarg.number % 65536]
    [] opt = "a" -> s  \* no argument, as if there were no option
    [] opt = "v" -> GetVersion(s)

GetoptFlags(program, s, word) ==  \* mutant: no option takes an argument
  IF s.ends # <<>> \/ word.opt = "" THEN s
  ELSE IF word.opt \in Takes(program) \cup Alone(program) THEN Handle(s, word.opt, word)
  ELSE Usage(s)
\* getopt passes over words that are no options, and takes any word as an argument.
Getopt(program, s, word) ==
  IF s.ends # <<>> THEN s
  ELSE IF s.opt # "" THEN Handle([s EXCEPT !.opt = ""], s.opt, word)
  ELSE IF word.opt = "" THEN s
  ELSE IF word.opt \in Takes(program) THEN [s EXCEPT !.opt = word.opt]
  ELSE IF word.opt \in Alone(program) THEN Handle(s, word.opt, word)
  ELSE Usage(s)

\* What the daemon is started with, or returns.
Main(program, argv) ==
  LET s == FoldLeft(LAMBDA t, w : Getopt(program, t, w),
                    [opt |-> "", ends |-> <<>>, logLevel |-> kLogInfo,
                     interfaceName |-> <<>>, port |-> kHttpPort], argv)
  IN IF s.opt # "" THEN Usage(s) ELSE s

-----------------------------------------------------------------------------
(* The tools. *)

Atoi(word) ==
  LET Digit(s, c) == IF s.over \/ c > 9 THEN [s EXCEPT !.over = TRUE]
                     ELSE [s EXCEPT !.n = 10 * @ + c]
  IN FoldLeft(Digit, [n |-> 0, over |-> FALSE], word).n

NoOutput == <<>>

ComputeJoinerId(eui64) == ComputeHashMac(Sha256(eui64))

SteeringDataUnchecked(argv) ==  \* mutant: what Hex2Bytes returns is not checked
  FoldLeft(LAMBDA s, w : IF Len(w) # 16 \/ s = NoOutput THEN NoOutput
                         ELSE <<ComputeBloomFilter(s[1], 16, ComputeJoinerId(Hex2Bytes(w, 8).bytes))>>,
           <<{}>>, argv)
\* A word as long as an EUI-64 is one; another one in the first place is the length.
SteeringData(argv) ==
  LET lengthGiven == Len(argv[1]) # 16
      length == IF lengthGiven THEN Atoi(argv[1]) ELSE 16
      joiners == IF lengthGiven THEN Tail(argv) ELSE argv
      Joiner(s, w) ==
        IF s = NoOutput \/ Len(w) # 16 \/ Hex2Bytes(w, 8).n # 8 THEN NoOutput
        ELSE <<ComputeBloomFilter(s[1], length, ComputeJoinerId(Hex2Bytes(w, 8).bytes))>>
  IN IF argv = <<>> \/ length \notin 1..kMaxSizeOfBloomFilter THEN NoOutput
     ELSE FoldLeft(Joiner, <<{}>>, joiners)

PrintPskc(argv) ==
  IF /\ Len(argv) = 3
     /\ Len(argv[1]) \in 1..255
     /\ Len(argv[2]) = 16 /\ \A i \in 1..16 : argv[2][i] # NoDigit
     /\ Len(argv[3]) \in 1..16
  THEN <<ComputePskc(Hex2Bytes(argv[2], 8).bytes, argv[3], argv[1], Iterations)>>
  ELSE NoOutput

-----------------------------------------------------------------------------
(* The values of properties. *)

Chars == <<"0", "1", "2", "3", "4", "5", "6", "7", "8", "9", "A", "B", "C", "D", "E", "F">>
HexText(bytes) == [i \in DOMAIN Bytes2Hex(bytes) |-> Chars[Bytes2Hex(bytes)[i] + 1]]

RECURSIVE Decimal(_)
Decimal(n) == IF n < 10 THEN <<Chars[n + 1]>> ELSE Append(Decimal(n \div 10), Chars[(n % 10) + 1])

Undefined == <<"undefined">>
Abs(v) == IF v < 0 THEN -v ELSE v

\* snprintf into temp, with floor(log10(abs(v))) + 2 as its size.
NumberTextShort(v, temp) ==  \* mutant: the size is the number of digits
  IF v = 0 THEN Undefined ELSE SubSeq(Decimal(Abs(v)), 1, Len(Decimal(Abs(v))) - 1)
NumberText(v, temp) ==
  LET text == (IF v < 0 THEN <<"-">> ELSE <<>>) \o Decimal(Abs(v))
      vLen == Len(Decimal(Abs(v))) + 1
  IN IF v = 0 \/ vLen > temp THEN Undefined ELSE SubSeq(text, 1, vLen - 1)

RECURSIVE DumpInfo(_, _)
DumpInfo(v, indent) ==
  CASE v.type = "dict"    -> DumpInfo(v.key, indent + 1) \o DumpInfo(v.value, indent + 1)
    [] v.type = "array"   ->
         LET depth == IF v.items = <<>> \/ v.items[1].type = "byte" THEN 0 ELSE indent
         IN <<"[">> \o FlattenSeq([i \in DOMAIN v.items |-> DumpInfo(v.items[i], depth + 1)])
              \o [i \in 1..depth |-> "\t"] \o <<"]">>
    [] v.type = "variant" -> DumpInfo(v.value, indent)
    [] v.type = "string"  -> <<v.text>>
    [] v.type = "byte"    -> HexText(v.bytes)
    [] v.type \in {"uint16", "uint64"} -> <<"0", "x">> \o HexText(v.bytes)
    [] v.type = "int16"   -> NumberText(v.number, 5)
    [] v.type \in {"int32", "uint32"} -> NumberText(v.number, 10)
    [] v.type = "boolean" -> IF v.holds THEN <<"true">> ELSE <<"false">>
    [] OTHER              -> <<"<invalid>">>

\* Nothing is shown of a property wpantund does not give.
GetPropertyValue(reply) ==
  IF reply = <<>> \/ reply[1].ret # 0 THEN <<>> ELSE DumpInfo(reply[1].value, 0)

-----------------------------------------------------------------------------
(* The files of the web page. *)

OT_BUFFER_SIZE == 1024

\* The lengths of the pieces a file is sent in, of which the connection takes so many.
RECURSIVE DefaultResourceSend(_, _)
DefaultResourceSend(size, taken) ==
  LET readLength == Min({size, OT_BUFFER_SIZE})
  IN IF readLength = 0 THEN <<>>
     ELSE IF readLength < OT_BUFFER_SIZE \/ taken = 0 THEN <<readLength>>
     ELSE <<readLength>> \o DefaultResourceSend(size - readLength, taken - 1)

Failure == [status |-> 400]

DefaultHttpResponseInside(webRootPath, path, files, taken) ==  \* mutant: any path will do
  LET file == IF path \in DOMAIN files /\ files[path].type = "directory"
              THEN Append(path, "index.html") ELSE path
  IN IF file \notin DOMAIN files \/ files[file].type # "regular" \/ ~files[file].readable THEN Failure
     ELSE [status |-> 200, length |-> files[file].size,
           pieces |-> DefaultResourceSend(files[file].size, taken)]

\* A path is the sequence of its parts, without links.
DefaultHttpResponse(webRootPath, path, files, taken) ==
  LET file == IF files[path].type = "directory" THEN Append(path, "index.html") ELSE path
  IN IF path \notin DOMAIN files \/ ~IsPrefix(webRootPath, path) THEN Failure
     ELSE IF file \notin DOMAIN files \/ files[file].type # "regular" THEN Failure
     ELSE IF ~files[file].readable THEN Failure
     ELSE [status |-> 200, length |-> files[file].size,
           pieces |-> DefaultResourceSend(files[file].size, taken)]

-----------------------------------------------------------------------------

Start   == Is("daemon") /\ Returns(Main(case.program, case.argv))
Compute == Is("tool") /\ Returns([filter |-> SteeringData(case.argv), pskc |-> PrintPskc(case.argv)])
Show    == Is("value") /\ Returns(GetPropertyValue(case.reply))

Serve   == Is("file") /\ Returns(DefaultHttpResponse(case.root, case.path, case.files, case.taken))

ProgramInit ==
  result = None /\ case \in DaemonCases \cup ToolCases \cup ValueCases \cup FileCases \cup LogCases
ProgramNext == Start \/ Compute \/ Show \/ Serve \/ WriteLog

-----------------------------------------------------------------------------
(* What they are to do. *)

\* The positions of the words that are options, the others being arguments or
\* passed over; and the last one of a letter.
OptionsOf(program, argv) ==
  LET isOption[i \in 0..Len(argv)] ==
        /\ i > 0 /\ argv[i].opt # ""
        /\ ~(isOption[i - 1] /\ argv[i - 1].opt \in Takes(program))
  IN {i \in DOMAIN argv : isOption[i]}

\* A daemon starts unless it is asked for its version, does not know an option, or
\* misses an argument; and it has what the last use of each option gave it.  The
\* address given to otbr-web with -a is not among that.
DaemonsStart ==
  Computed("daemon") =>
    LET options == OptionsOf(case.program, case.argv)
        Ending(i) == \/ case.argv[i].opt \notin {"d", "I", "p", "a"} \cap
                                                (Takes(case.program) \cup Alone(case.program))
                     \/ case.argv[i].opt \in Takes(case.program) /\ i = Len(case.argv)
        Given(opt) == {case.argv[i + 1] : i \in {j \in options :
                        case.argv[j].opt = opt /\ \A k \in options : case.argv[k].opt = opt => k <= j}}
    IN /\ Got.ends = <<>> <=> \A i \in options : ~Ending(i)
       /\ Got.ends = <<>> =>
            /\ {Got.logLevel} = IF Given("d") = {} THEN {kLogInfo} ELSE {w.number : w \in Given("d")}
            /\ {Got.port} = IF case.program = "otbr-agent" \/ Given("p") = {} THEN {kHttpPort}
                            ELSE {w.number % 65536 : w \in Given("p")}
            /\ ToSet(Got.interfaceName) = Given("I")

IsEui64(word) == Len(word) = 16 /\ \A i \in 1..16 : word[i] # NoDigit

\* steering-data prints the filter of the joiners given, all of them or none, and
\* takes the first word for its length only if it cannot be a joiner; pskc prints
\* the key of the three words.
ToolsCompute ==
  Computed("tool") =>
    LET argv == case.argv
        words == DOMAIN argv
        length == IF Len(argv[1]) = 16 THEN 16 ELSE Atoi(argv[1])
        bits == 8 * length
        joiners == {i \in words : i > 1 \/ Len(argv[1]) = 16}
        ids == {ComputeHashMac(Sha256([k \in 1..8 |-> 16 * argv[i][2*k - 1] + argv[i][2*k]])) :
                  i \in joiners}
    IN /\ Got.filter # NoOutput <=> words # {} /\ length \in 1..16
                                      /\ \A i \in joiners : IsEui64(argv[i])
       /\ Got.filter # NoOutput =>
            {8 * (length - 1 - x[1]) + x[2] : x \in Got.filter[1]}
              = UNION {{Number(Remainder(kCcitt, id)) % bits, Number(Remainder(kAnsi, id)) % bits}
                         : id \in ids}
       /\ Got.pskc # NoOutput <=> Len(argv) = 3 /\ IsEui64(argv[2])
                                    /\ Len(argv[1]) \in 1..255 /\ Len(argv[3]) \in 1..16

\* The number a text shows.
Shown(text) ==
  FoldLeft(LAMBDA n, c : 10 * n + (CHOOSE d \in 0..9 : Chars[d + 1] = c), 0,
           SelectSeq(text, LAMBDA c : c # "-"))

\* The leaves of a value, in order, each with its text.
RECURSIVE Leaves(_)
Leaves(v) ==
  CASE v.type = "dict"    -> Leaves(v.key) \o Leaves(v.value)
    [] v.type = "array"   -> FlattenSeq([i \in DOMAIN v.items |-> Leaves(v.items[i])])
    [] v.type = "variant" -> Leaves(v.value)
    [] OTHER              -> DumpInfo(v, 0)

\* A positive number is shown in full if there is room for it, of a negative one the
\* last digit is lost, and what is shown for 0 or a larger one is undefined; of
\* nested values all leaves are shown, between brackets that match.
ValuesShown ==
  Computed("value") /\ Got # <<>> =>
    LET v == case.reply[1].value
        Before(c, i) == Cardinality({j \in 1..i : Got[j] = c})
    IN /\ v.type \in {"int16", "int32", "uint32"} =>
            IF v.number = 0 \/ Abs(v.number) >= (IF v.type = "int16" THEN 10000 ELSE 1000000000)
            THEN Got = Undefined
            ELSE Shown(Got) = IF v.number > 0 THEN v.number ELSE Abs(v.number) \div 10
       /\ SelectSeq(Got, LAMBDA c : c \notin {"[", "]", "\t"}) = Leaves(v)
       /\ \A i \in DOMAIN Got : Before("]", i) <= Before("[", i)
       /\ Before("]", Len(Got)) = Before("[", Len(Got))

\* What a path below the root names is served, of a directory its index, and nothing
\* else; as a whole, in pieces that fill the buffer but for the last, unless the
\* connection breaks off.
FilesServed ==
  Computed("file") =>
    LET Below(path) == \E more \in {<<>>, <<"a">>, <<"b">>} : path = case.root \o more
        Readable(path) == /\ path \in DOMAIN case.files
                          /\ case.files[path].type = "regular" /\ case.files[path].readable
        named == {path \in DOMAIN case.files : Readable(path)} \cap
                   (IF case.path \in DOMAIN case.files /\ case.files[case.path].type = "directory"
                    THEN {Append(case.path, "index.html")} ELSE {case.path})
        sent == FoldLeft(LAMBDA n, piece : n + piece, 0, Got.pieces)
    IN /\ Got.status = 200 <=> Below(case.path) /\ named # {}
       /\ Got.status = 200 =>
            /\ \A path \in named : Got.length = case.files[path].size
            /\ sent = Min({Got.length, (case.taken + 1) * OT_BUFFER_SIZE})
            /\ \A i \in DOMAIN Got.pieces : i < Len(Got.pieces) => Got.pieces[i] = OT_BUFFER_SIZE

\* The conversions compute what they are to, and so do the programs that use them.
ComputationsCorrect == ConversionsHold /\ DaemonsStart /\ ToolsCompute /\ ValuesShown
                       /\ FilesServed /\ LogKept
=============================================================================
