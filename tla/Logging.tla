------------------------------ MODULE Logging ------------------------------
(***************************************************************************)
(* The log (logging.cpp), which all threads of a program share, and the    *)
(* messages of mbedtls that go into it (dtls_mbedtls.cpp,                  *)
(* commissioner.cpp).  A log is what a sequence of calls leaves in the     *)
(* syslog and in the log files.                                            *)
(*                                                                         *)
(* A text is a sequence of items: a carriage return, a newline, any other  *)
(* character, a line of a hex dump with its address and digits, or a time  *)
(* stamp with its seconds and milliseconds.  A call has the time it is     *)
(* made at.  mbedtls, the syslog and the files are external; calls are     *)
(* made one after the other.                                               *)
(***************************************************************************)
EXTENDS CodecCases

CONSTANTS LogCases,
          LogLine,    \* LogVprintf's buffer
          DebugLine   \* MBedDebugPrint's buffer

ASSUME LoggingAssumption == LogLine \in Nat \ {0} /\ DebugLine \in Nat \ {0}

Emerg == 0
Err   == 3
Warning == 4
Info  == 6
Debug == 7

CR == <<"\r">>
NL == <<"\n">>
HexLine(addr, hex) == <<"dump", addr, hex>>
Stamp(sec, msec)   == <<"at", sec, msec>>

DumpLine == 16

\* syslog: the messages; files: the log files, the last one open; threshold:
\* the level up to which mbedtls has something to say.
Unused == [sLevel |-> Info, sSyslogEnabled |-> TRUE, sSyslogOpened |-> FALSE, files |-> <<>>,
           sLogCol0 |-> TRUE, sMsecsStart |-> 0, threshold |-> 0, syslog |-> <<>>,
           exited |-> FALSE]

otbrLogInit(s, level, now) ==
  [s EXCEPT !.sMsecsStart = now, !.sSyslogOpened = TRUE, !.sLevel = level]
otbrLogDeinit(s)           == [s EXCEPT !.sSyslogOpened = FALSE]
otbrLogSetLevel(s, level)  == [s EXCEPT !.sLevel = level]
otbrLogEnableSyslog(s, b)  == [s EXCEPT !.sSyslogEnabled = b]
otbrLogSetFilename(s, opens) ==
  IF opens THEN [s EXCEPT !.files = Append(@, <<>>)] ELSE [s EXCEPT !.exited = TRUE]

\* The level is for the syslog: into a file goes everything.
LogCheckFiltered(s, level) ==  \* mutant: into a file goes what the level lets pass
  {sink \in {"syslog", "file"} : level <= s.sLevel /\ (sink = "file" => s.files # <<>>)}
LogCheck(s, level) ==
  (IF s.sSyslogOpened /\ s.sSyslogEnabled /\ level <= s.sLevel THEN {"syslog"} ELSE {})
  \cup (IF s.files # <<>> THEN {"file"} ELSE {})

GetMsecsNow(s, now) == now - s.sMsecsStart

LogString(s, text, now) ==
  LET stamp == Stamp(GetMsecsNow(s, now) \div 1000, GetMsecsNow(s, now) % 1000)
      Put(t, ch) ==
        [t EXCEPT !.sLogCol0 = ch = NL,
                  !.files[Len(t.files)] = @ \o (IF t.sLogCol0 THEN <<stamp>> ELSE <<>>) \o <<ch>>]
  IN FoldLeft(Put, s, text)

LogVprintf(s, text, now) == LogString(s, SubSeq(text, 1, Min({Len(text), LogLine - 1})), now)

ToSyslog(s, level, text) == [s EXCEPT !.syslog = Append(@, [level |-> level, text |-> text])]

otbrLogv(s, level, text, now) ==
  LET r == LogCheck(s, level)
      t == IF "file" \in r THEN LogString(LogVprintf(s, text, now), <<NL>>, now) ELSE s
  IN IF "syslog" \in r THEN ToSyslog(t, level, text) ELSE t

RECURSIVE DumpFrom(_, _, _, _, _, _)
DumpFrom(s, r, level, memory, addr, now) ==
  IF memory = <<>> THEN s
  ELSE LET size == Min({Len(memory), DumpLine})
           line == <<HexLine(addr, Bytes2Hex(SubSeq(memory, 1, size)))>>
           t == IF "syslog" \in r THEN ToSyslog(s, level, line) ELSE s
           u == IF "file" \in r THEN LogVprintf(t, Append(line, NL), now) ELSE t
       IN DumpFrom(u, r, level, SubSeq(memory, size + 1, Len(memory)), addr + DumpLine, now)
otbrDump(s, level, memory, now) == DumpFrom(s, LogCheck(s, level), level, memory, 0, now)

-----------------------------------------------------------------------------
(* mbedtls: 1 is an error, 2 a change of state, 3 information and 4 more.  *)

FromOtbrLogLevel(level) ==
  CASE level < Err -> 0 [] level = Err -> 1 [] level = Warning -> 2
    [] level \in Warning + 1 .. Info -> 3 [] level = Debug -> 4

SetThreshold(s) == [s EXCEPT !.threshold = FromOtbrLogLevel(s.sLevel)]

\* What mbedtls says keeps its level, though those of the log differ.
MbedtlsDebug(s, level, text, now) ==
  IF level = 0 \/ level > s.threshold THEN s ELSE otbrLogv(s, level, text, now)

UpTo(ch, text) ==
  LET ends == {i \in DOMAIN text : text[i] = ch}
  IN IF ends = {} THEN text ELSE SubSeq(text, 1, Min(ends) - 1)

\* A text that fills the buffer is not terminated: what lies behind it follows.
MBedDebugPrint(s, text, behind, now) ==
  LET buf == IF Len(text) < DebugLine THEN text ELSE SubSeq(text, 1, DebugLine) \o behind
  IN otbrLogv(s, Info, UpTo(CR, UpTo(NL, buf)), now)

Call(s, c) ==
  CASE s.exited -> s
    [] ~s.exited /\ c.op = "init"     -> otbrLogInit(s, c.level, c.now)
    [] ~s.exited /\ c.op = "deinit"   -> otbrLogDeinit(s)
    [] ~s.exited /\ c.op = "level"    -> otbrLogSetLevel(s, c.level)
    [] ~s.exited /\ c.op = "enable"   -> otbrLogEnableSyslog(s, c.enabled)
    [] ~s.exited /\ c.op = "file"     -> otbrLogSetFilename(s, c.opens)
    [] ~s.exited /\ c.op = "log"      -> otbrLogv(s, c.level, c.text, c.now)
    [] ~s.exited /\ c.op = "dump"     -> otbrDump(s, c.level, c.memory, c.now)
    [] ~s.exited /\ c.op = "dtls"     -> SetThreshold(s)
    [] ~s.exited /\ c.op = "mbedtls"  -> MbedtlsDebug(s, c.level, c.text, c.now)
    [] ~s.exited /\ c.op = "mbed"     -> MBedDebugPrint(s, c.text, c.behind, c.now)

WriteLog == Is("log") /\ Returns(FoldLeft(Call, Unused, case.calls))

-----------------------------------------------------------------------------
(* What is to be in the log, from the calls before each.                   *)

\* The calls that were made: no file that cannot be opened came before.
Made == {i \in DOMAIN case.calls :
           \A j \in 1 .. i - 1 : case.calls[j].op = "file" => case.calls[j].opens}

\* The last call of an operation in ops before the i-th, <<>> if there is none.
LastOf(ops, i) ==
  LET before == {j \in 1 .. i - 1 : case.calls[j].op \in ops}
  IN IF before = {} THEN <<>> ELSE <<case.calls[Max(before)]>>

LevelAt(i) == LET c == LastOf({"init", "level"}, i) IN IF c = <<>> THEN Info ELSE c[1].level
ThresholdAt(i) ==
  LET servers == {j \in 1 .. i - 1 : case.calls[j].op = "dtls"}
      least   == <<Err, Warning, Warning + 1, Debug>>
  IN IF servers = {} THEN 0
     ELSE Cardinality({k \in 1..4 : least[k] <= LevelAt(Max(servers))})
SyslogAt(i) ==
  LET opened  == LastOf({"init", "deinit"}, i)
      enabled == LastOf({"enable"}, i)
  IN /\ opened # <<>> /\ opened[1].op = "init"
     /\ enabled # <<>> => enabled[1].enabled
FileAt(i)  == Cardinality({j \in 1 .. i - 1 : case.calls[j].op = "file"})
StartAt(i) == LET c == LastOf({"init"}, i) IN IF c = <<>> THEN 0 ELSE c[1].now

\* The messages of a call, each with its level: of a dump all bytes, sixteen in a
\* line; of what mbedtls says to the commissioner the first line.
Messages(i) ==
  LET c == case.calls[i]
      Said(level, text) == <<[level |-> level, text |-> text]>>
      End(k) == Min({16 * k, Len(c.memory)})
  IN CASE c.op = "log" -> Said(c.level, c.text)
       [] c.op = "mbedtls" /\ c.level \in 1 .. ThresholdAt(i) -> Said(c.level, c.text)
       [] c.op = "mbed" ->
            LET buf == IF Len(c.text) < DebugLine THEN c.text
                      ELSE SubSeq(c.text, 1, DebugLine) \o c.behind
                whole == {n \in 0 .. Len(buf) : \A j \in 1 .. n : buf[j] \notin {NL, CR}}
            IN Said(Info, SubSeq(buf, 1, Max(whole)))
       [] c.op = "dump" ->
            [k \in 1 .. (Len(c.memory) + 15) \div 16 |->
               [level |-> c.level,
                text |-> <<HexLine(16 * (k - 1),
                 [d \in 1 .. 2 * (End(k) - 16 * (k - 1)) |->
                    LET byte == c.memory[16 * (k - 1) + (d + 1) \div 2]
                    IN IF d % 2 = 1 THEN byte \div 16 ELSE byte % 16])>>]]
       [] OTHER -> <<>>

IsStamp(item) == item[1] = "at"

\* While the syslog is open and not disabled, every message up to the level of then
\* is in it and no other; a file has every message from its opening to the next
\* one's, shortened to the buffer, in lines of which each begins with the time since
\* the last otbrLogInit, and none elsewhere.  What mbedtls says is let through by the
\* level the log had when its server started, and says so with its own level.
LogKept ==
  Computed("log") =>
    LET n == Cardinality(Made)
        Logged(i) == IF SyslogAt(i)
                     THEN SelectSeq(Messages(i), LAMBDA m : m.level <= LevelAt(i)) ELSE <<>>
        InFile(i) == FlattenSeq([k \in DOMAIN Messages(i) |->
                       SubSeq(Messages(i)[k].text, 1, Min({LogLine - 1, Len(Messages(i)[k].text)}))
                         \o <<NL>>])
        Texts(f)  == FlattenSeq([i \in 1 .. n |-> IF FileAt(i) = f THEN InFile(i) ELSE <<>>])
        Times(f)  == {case.calls[i].now - StartAt(i) : i \in {j \in 1 .. n : FileAt(j) = f}}
    IN /\ Made = 1 .. n
       /\ Got.syslog = FlattenSeq([i \in 1 .. n |-> Logged(i)])
       /\ \A f \in DOMAIN Got.files :
            LET file == Got.files[f]
            IN /\ SelectSeq(file, LAMBDA item : ~IsStamp(item)) = Texts(f)
               /\ \A p \in DOMAIN file :
                    /\ IsStamp(file[p]) <=> p = 1 \/ file[p - 1] = NL
                    /\ IsStamp(file[p]) => /\ file[p][3] < 1000
                                           /\ 1000 * file[p][2] + file[p][3] \in Times(f)
=============================================================================
