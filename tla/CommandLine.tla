---------------------------- MODULE CommandLine ----------------------------
(***************************************************************************)
(* The command line of the commissioner (commissioner_argcargv.cpp).  Each *)
(* call of ParseArgs takes an option off argv and its handler the option's *)
(* value; the first call that fails ends the program.                      *)
(*                                                                         *)
(* A word of the command line is what the handlers can tell of it: name,   *)
(* for comparisons; len, its strlen; hex, its characters as hexadecimal    *)
(* digits; number, the set of the one value that strtol and the conversion *)
(* to int make of it, or NaN, the empty set; pskd, that it has only        *)
(* characters a PSKd may have.  Help texts and the log file are left out.  *)
(***************************************************************************)
EXTENDS Codecs, FiniteSets

CONSTANT Argvs   \* the command lines to try, without the name of the program

VARIABLES
  mARGV, mARGx,   \* the command line, and how much of it is consumed
  args,           \* the CommissionerArgs
  logLevel,
  outcome         \* "parsing", "done" or "error"

vars == <<mARGV, mARGx, args, logLevel, outcome>>

NaN == {}

\* What argv holds after its last word, and a text that was never written.
Null   == [name |-> "NULL", len |-> 0, hex |-> <<>>, number |-> NaN,
           pskd |-> FALSE]
NoWord == [Null EXCEPT !.name = ""]

\* A word is as long as it has characters, and strtol makes one number of it.
IsWord(w) ==
  /\ w \in [name : STRING, len : Nat, hex : Seq(0..NoDigit), number : SUBSET Int, pskd : BOOLEAN]
  /\ w # Null /\ w.len = Len(w.hex)
  /\ \A m, n \in w.number : m = n

ASSUME ArgvsAssumption ==
  \A argv \in Argvs : argv \in Seq(ToSet(argv)) /\ \A w \in ToSet(argv) : IsWord(w)

\* A byte that was never written.
Junk == 256

\* The options by their handlers, with the size of the buffer or the length in
\* bytes of the value.
StrSize == [o \in {"--network-name", "--agent-passphrase", "--agent-addr",
                   "--agent-port", "--log-filename"} |->
  CASE o = "--network-name" -> 17 [] o = "--agent-passphrase" -> 65
    [] o = "--agent-addr" -> 46 [] o = "--agent-port" -> 6
    [] o = "--log-filename" -> 4096]
JoinerHexLen  == [o \in {"--joiner-eui64", "--hashmac"} |-> 8]
NetworkHexLen == [o \in {"--xpanid", "--pskc-bin"} |-> IF o = "--pskc-bin" THEN 16 ELSE 8]
HexLen == [o \in DOMAIN JoinerHexLen \cup DOMAIN NetworkHexLen |->
             IF o \in DOMAIN JoinerHexLen THEN JoinerHexLen[o] ELSE NetworkHexLen[o]]
kDay == 86400   \* seconds
NumRange == [o \in {"--steering-length", "--comm-ka-rate", "--comm-envelope-timeout"} |->
  CASE o = "--steering-length" -> 1..16 [] o = "--comm-ka-rate" -> 3..kDay
    [] o = "--comm-envelope-timeout" -> 1..kDay]
Flags == {"--allow-all-joiners", "--compute-pskc", "--compute-hashmac",
          "--compute-steering", "--comm-ka-disabled", "--disable-syslog",
          "--commission-device"}

NumSize == 100
kPSKdLength == 32
OTBR_LOG_EMERG == 0
OTBR_LOG_INFO  == 6
OTBR_LOG_DEBUG == 7

\* The defaults of ParseArgs; texts and keys are what the memory held.
Defaults ==
  [text    |-> [o \in DOMAIN StrSize \cup DOMAIN HexLen \cup {"--joiner-passphrase"} |-> NoWord],
   bin     |-> [o \in DOMAIN HexLen |-> [i \in 1..HexLen[o] |-> Junk]],
   num     |-> [o \in DOMAIN NumRange |->
                  CASE o = "--steering-length" -> 15 [] o = "--comm-ka-rate" -> 15
                    [] o = "--comm-envelope-timeout" -> 300],
   flags   |-> {"--commission-device"},
   hasPskc |-> FALSE]

Init ==
  /\ mARGV \in Argvs /\ mARGx = 0
  /\ args = Defaults /\ logLevel = OTBR_LOG_INFO
  /\ outcome = IF mARGV = <<>> THEN "error" ELSE "parsing"

-----------------------------------------------------------------------------

Option == mARGV[mARGx + 1].name

\* StrParam: it fails for want of a value or of room for it.
Missing == mARGx + 2 > Len(mARGV)
Value   == IF mARGx + 2 <= Len(mARGV) THEN mARGV[mARGx + 2] ELSE Null
StrParam(size) == ~Missing /\ Value.len + 1 <= size

\* NumParam, with -1 for every error.
NumParamUnchecked ==
  IF StrParam(NumSize) THEN IF Value.number = NaN THEN 0 ELSE CHOOSE v \in Value.number : TRUE
  ELSE -1
NumParam == IF StrParam(NumSize) /\ Value.number # NaN THEN CHOOSE v \in Value.number : TRUE ELSE -1

Ends(o) == outcome' = o /\ mARGx' = mARGx + 1 /\ UNCHANGED <<mARGV, logLevel>>
Continues(words) == mARGx' = mARGx + words /\ UNCHANGED <<mARGV, outcome>>
Rejects == Ends("error") /\ UNCHANGED args

HandleStr ==
  /\ Option \in DOMAIN StrSize
  /\ IF StrParam(StrSize[Option])
     THEN Continues(2) /\ args' = [args EXCEPT !.text[Option] = Value] /\ UNCHANGED logLevel
     ELSE Rejects

\* The digits are kept, and what they decode to so far, even if they are rejected.
HandleHex ==
  LET o == Option
      r == Hex2Bytes(Value.hex, HexLen[o])
      Read == [args EXCEPT !.text[o] = Value, !.bin[o] = Stored(@, r.bytes)]
  IN /\ o \in DOMAIN HexLen
     /\ IF ~StrParam(2 * HexLen[o] + 1) THEN Rejects
        ELSE IF r.n # HexLen[o] THEN Ends("error") /\ args' = Read
        ELSE /\ Continues(2) /\ UNCHANGED logLevel
             /\ args' = [Read EXCEPT !.hasPskc = @ \/ o = "--pskc-bin"]

HandleNum ==
  /\ Option \in DOMAIN NumRange
  /\ IF NumParam # -1 /\ NumParam \in NumRange[Option]
     THEN Continues(2) /\ args' = [args EXCEPT !.num[Option] = NumParam] /\ UNCHANGED logLevel
     ELSE Rejects

HandlePskd ==
  /\ Option = "--joiner-passphrase"
  /\ IF StrParam(kPSKdLength + 1) /\ Value.len \in 6..32 /\ Value.pskd
     THEN Continues(2) /\ args' = [args EXCEPT !.text[Option] = Value] /\ UNCHANGED logLevel
     ELSE Rejects

HandleDebugLevel ==
  /\ Option = "--debug-level"
  /\ IF NumParam >= OTBR_LOG_EMERG
     THEN /\ Continues(2) /\ UNCHANGED args
          /\ logLevel' = IF NumParam > OTBR_LOG_DEBUG THEN OTBR_LOG_DEBUG ELSE NumParam
     ELSE Rejects

HandleFlag ==
  /\ Option \in Flags
  /\ Continues(1) /\ args' = [args EXCEPT !.flags = @ \cup {Option}] /\ UNCHANGED logLevel

Known == DOMAIN StrSize \cup DOMAIN HexLen \cup DOMAIN NumRange \cup Flags
           \cup {"--joiner-passphrase", "--debug-level"}

HelpOrUnknown == Option \notin Known /\ Rejects

ParseArgs ==
  /\ outcome = "parsing"
  /\ IF mARGx >= Len(mARGV)
     THEN outcome' = "done" /\ UNCHANGED <<mARGV, mARGx, args, logLevel>>
     ELSE \/ HelpOrUnknown \/ HandleStr \/ HandleHex \/ HandleNum \/ HandlePskd
          \/ HandleDebugLevel \/ HandleFlag

Next == ParseArgs

Spec == Init /\ [][Next]_vars

-----------------------------------------------------------------------------
(* What the words mean, read off the whole command line. *)

Arity(word) == IF word.name \in Flags THEN 1 ELSE 2

\* The positions at which an option starts: the first one, and with each the one
\* after the words of its option.
Closed(S) ==
  /\ 1 \in DOMAIN mARGV => 1 \in S
  /\ \A i \in S : i + Arity(mARGV[i]) \in DOMAIN mARGV => i + Arity(mARGV[i]) \in S
Starts == {i \in DOMAIN mARGV : \A S \in SUBSET DOMAIN mARGV : Closed(S) => i \in S}

\* The word after the last use of an option.
Given(o)   == {i \in Starts : mARGV[i].name = o}
ValueOf(o) == mARGV[CHOOSE i \in 2..Len(mARGV) :
                      i - 1 \in Given(o) /\ \A j \in Given(o) : j < i]

HexValue(hex) ==
  LET whole == IF Len(hex) % 2 = 1 THEN <<0>> \o hex ELSE hex
  IN [k \in 1..Len(whole) \div 2 |-> 16 * whole[2 * k - 1] + whole[2 * k]]

IsHex(hex) == \A k \in DOMAIN hex : hex[k] # NoDigit

\* An option whose value is in the domain the help text and the comments give.
Acceptable(i) ==
  LET o == mARGV[i].name
      value == mARGV[i + 1]
  IN \/ o \in Flags
     \/ /\ i < Len(mARGV)
        /\ \/ o \in DOMAIN StrSize /\ value.len < StrSize[o]
           \/ /\ o \in DOMAIN HexLen /\ IsHex(value.hex)
              /\ Len(value.hex) \in {2 * HexLen[o] - 1, 2 * HexLen[o]}
           \/ /\ o \in DOMAIN NumRange \cup {"--debug-level"} /\ value.number # NaN
              /\ value.len < NumSize
              /\ \A v \in value.number : IF o = "--debug-level" THEN v >= OTBR_LOG_EMERG
                                         ELSE v \in NumRange[o]
           \/ o = "--joiner-passphrase" /\ value.len \in 6..32 /\ value.pskd

\* No handler reads past the last word, or writes more than its buffer holds
\* (StrParam, HexParam, handle_pskd).
StaysInBounds ==
  /\ mARGx <= Len(mARGV)
  /\ \A o \in DOMAIN args.text :
       /\ args.text[o] # Null
       /\ args.text[o].len < IF o \in DOMAIN StrSize THEN StrSize[o]
                             ELSE IF o \in DOMAIN HexLen THEN 2 * HexLen[o] + 1
                             ELSE kPSKdLength + 1
  /\ \A o \in DOMAIN HexLen : DOMAIN args.bin[o] = 1..HexLen[o]

\* The parser gives up exactly at a command line with an option it does not know,
\* that lacks its value, or whose value is outside its domain: a value is never
\* taken for an option, nor an option skipped, nor more written than there is room.
RejectsNonsense ==
  /\ StaysInBounds
  /\ mARGV # <<>> => /\ outcome = "done"  => \A i \in Starts : Acceptable(i)
                     /\ outcome = "error" => \E i \in Starts : ~Acceptable(i)

\* The arguments of an accepted command line are those of the last use of each
\* option, or the defaults, whatever stood before it: a key decoded over an
\* earlier one keeps none of its bytes.
LastUseCounts ==
  outcome = "done" =>
    /\ \A o \in DOMAIN args.text :
         args.text[o] = IF Given(o) = {} THEN NoWord ELSE ValueOf(o)
    /\ \A o \in DOMAIN HexLen :
         args.bin[o] = IF Given(o) = {} THEN Defaults.bin[o] ELSE HexValue(ValueOf(o).hex)
    /\ \A o \in DOMAIN NumRange :
         {args.num[o]} = IF Given(o) = {} THEN {Defaults.num[o]} ELSE ValueOf(o).number
    /\ args.flags = Defaults.flags \cup {o \in Flags : Given(o) # {}}
    /\ {logLevel} = IF Given("--debug-level") = {} THEN {OTBR_LOG_INFO}
                    ELSE {IF v > OTBR_LOG_DEBUG THEN OTBR_LOG_DEBUG ELSE v :
                            v \in ValueOf("--debug-level").number}
    /\ args.hasPskc = (Given("--pskc-bin") # {})

\* The parser refuses what is not meant, and takes the rest as it is meant.
CommandLineMeant == RejectsNonsense /\ LastUseCounts
=============================================================================
