---------------------------- MODULE UtilityProofs ----------------------------
(***************************************************************************)
(* The command line of the commissioner and the conversions it and the     *)
(* border router make, for inputs of any length: what a command line means *)
(* to the parser, hexadecimal strings, TLVs, the datagrams tunnelled       *)
(* through wpantund and the wrapping times of the DTLS server.             *)
(*                                                                         *)
(* The loops of the code are recursive functions, so what they compute is  *)
(* proved by induction over the rounds: a set of numbers that has 0 and    *)
(* the successor of each of its members is Nat (NatSetInduction), because  *)
(* the complement would have a least element.                              *)
(***************************************************************************)
EXTENDS CommandLine, SequenceTheorems, WellFoundedInduction, TLAPS

-----------------------------------------------------------------------------
(* Induction, and loops as recursive functions: what holds at 0 and at the
   next number holds at every number, from the well-foundedness of <. *)

\* A set of numbers that has 0 and the successor of each of its members is Nat.
LEMMA NatSetInduction ==
  ASSUME NEW S \in SUBSET Nat, 0 \in S, \A n \in S : n + 1 \in S
  PROVE  S = Nat
<1> SUFFICES ASSUME Nat \ S # {} PROVE FALSE
  OBVIOUS
<1> DEFINE T == Nat \ S
<1> DEFINE R == OpToRel(<, Nat)
<1>1. PICK x \in T : \A y \in T : <<y, x>> \notin R
  <2>1. T \subseteq Nat /\ T # {} /\ IsWellFoundedOn(R, Nat)
    BY NatLessThanWellFounded, Zenon
  <2> HIDE DEF T, R
  <2> QED BY <2>1, WFMin, Zenon
<1>2. \A m, n \in Nat : m < n => <<m, n>> \in R
  BY DEF OpToRel
<1> HIDE DEF R
<1>3. x \in Nat /\ x # 0 /\ (x - 1) + 1 = x
  OBVIOUS
<1>4. x - 1 \in Nat /\ x - 1 < x
  BY <1>3
<1>5. x - 1 \in T
  BY <1>3, <1>4
<1> QED BY <1>1, <1>2, <1>3, <1>4, <1>5

\* What holds at 0, and at the next position if at one, holds up to n.
LEMMA UpTo ==
  ASSUME NEW n \in Nat, NEW S, 0 \in S, \A i \in 0..n - 1 : i \in S => i + 1 \in S
  PROVE  0..n \subseteq S
<1> DEFINE T == {i \in Nat : i <= n => i \in S}
<1>1. 0 \in T /\ \A i \in T : i + 1 \in T
  OBVIOUS
<1>2. T = Nat
  <2>1. T \in SUBSET Nat
    OBVIOUS
  <2> HIDE DEF T
  <2> QED BY <1>1, <2>1, NatSetInduction
<1> QED BY <1>2

\* A loop: the states after 0, 1, ... n rounds, by the step of each.
Rounds(f, s, n, D) == f[0] = s /\ \A i \in 1..n : f[i] = D[i][f[i - 1]]

\* A loop has exactly such states to go through: a recursive function over 0..n
\* is defined.
LEMMA LoopDefined ==
  ASSUME NEW n \in Nat, NEW S, NEW s \in S, NEW D \in [1..n -> [S -> S]]
  PROVE  \E f \in [0..n -> S] : Rounds(f, s, n, D)
<1> DEFINE Good(f, m) == f[0] = s /\ \A i \in 1..m : f[i] = D[i][f[i - 1]]
           T == {m \in Nat : \E f \in [0..m -> S] : Good(f, m)}
<1>1. 0 \in T
  <2>1. [i \in 0..0 |-> s] \in [0..0 -> S] /\ Good([i \in 0..0 |-> s], 0)
    OBVIOUS
  <2> QED BY <2>1
<1>2. ASSUME NEW m \in 0..n - 1, m \in T PROVE m + 1 \in T
  <2>1. PICK f \in [0..m -> S] : Good(f, m)
    BY <1>2
  <2> DEFINE g == [i \in 0..m + 1 |-> IF i <= m THEN f[i] ELSE D[m + 1][f[m]]]
  <2>2. m \in 0..m /\ m + 1 \in 1..n /\ f[m] \in S
    OBVIOUS
  <2>3. D[m + 1] \in [S -> S]
    BY <2>2
  <2>4. D[m + 1][f[m]] \in S
    BY <2>2, <2>3
  <2>5. g \in [0..m + 1 -> S]
    BY <2>4
  <2>6. \A i \in 0..m : g[i] = f[i]
    OBVIOUS
  <2>7. g[m + 1] = D[m + 1][f[m]]
    OBVIOUS
  <2> HIDE DEF g
  <2>8. Good(g, m + 1)
    <3>1. g[0] = s
      BY <2>1, <2>6
    <3>2. ASSUME NEW i \in 1..m + 1 PROVE g[i] = D[i][g[i - 1]]
      <4>1. CASE i = m + 1
        <5>1. i - 1 = m
          BY <4>1
        <5> QED BY <5>1, <4>1, <2>6, <2>7, <2>2
      <4>2. CASE i # m + 1
        <5>1. i \in 1..m /\ i \in 0..m /\ i - 1 \in 0..m
          BY <4>2
        <5>2. g[i] = f[i] /\ g[i - 1] = f[i - 1]
          BY <5>1, <2>6
        <5> QED BY <5>1, <5>2, <2>1
      <4> QED BY <4>1, <4>2
    <3> QED BY <3>1, <3>2
  <2> QED BY <2>5, <2>8, <2>2
<1>3. 0..n \subseteq T
  <2> HIDE DEF T
  <2> QED BY <1>1, <1>2, UpTo
<1>4. n \in T
  BY <1>3
<1> QED BY <1>4 DEF Rounds

-----------------------------------------------------------------------------
(* Utils::Hex2Bytes. *)

Halves(n) == n = 2 * (n \div 2) + (n % 2) /\ n % 2 \in {0, 1}

\* A number in halves, and the half of the next one.
LEMMA HalvesOf == \A n \in Nat : Halves(n)
  BY DEF Halves

LEMMA NextHalf ==
  ASSUME NEW n \in Nat
  PROVE  /\ n % 2 = 0 => (n + 1) % 2 = 1 /\ (n + 1) \div 2 = n \div 2
         /\ n % 2 = 1 => (n + 1) % 2 = 0 /\ (n + 1) \div 2 = n \div 2 + 1
  OBVIOUS

\* The state of the loop of Hex2Bytes.
HexStates == [bytes : Seq(Int), numChars : Int, byte : Int, bad : BOOLEAN]
HexStart(hex) == [bytes |-> <<>>, numChars |-> Len(hex) % 2, byte |-> 0, bad |-> FALSE]
HexStep(s, c) ==
  IF s.bad \/ c = NoDigit THEN [s EXCEPT !.bad = TRUE]
  ELSE IF s.numChars = 1
       THEN [s EXCEPT !.bytes = Append(@, s.byte + c), !.numChars = 0, !.byte = 0]
       ELSE [s EXCEPT !.numChars = 1, !.byte = 16 * c]

HexLoop(hex, f) ==
  f = [i \in 0..Len(hex) |-> IF i = 0 THEN HexStart(hex) ELSE HexStep(f[i - 1], hex[i])]

\* The loop of Hex2Bytes keeps the types of its state, has a value for every
\* string, and goes through states of these types.
LEMMA HexStepTyped ==
  ASSUME NEW s \in HexStates, NEW c \in 0..NoDigit
  PROVE  HexStep(s, c) \in HexStates
<1>1. s.bytes \in Seq(Int) /\ s.numChars \in Int /\ s.byte \in Int /\ s.bad \in BOOLEAN
  BY DEF HexStates
<1>2. c \in Int /\ s.byte + c \in Int /\ 16 * c \in Int
  BY <1>1 DEF NoDigit
<1>3. Append(s.bytes, s.byte + c) \in Seq(Int)
  BY <1>1, <1>2
<1>4. CASE s.bad \/ c = NoDigit
  <2>1. HexStep(s, c) = [bytes |-> s.bytes, numChars |-> s.numChars, byte |-> s.byte, bad |-> TRUE]
    BY <1>4 DEF HexStep, HexStates
  <2> QED BY <2>1, <1>1 DEF HexStates
<1>5. CASE ~(s.bad \/ c = NoDigit) /\ s.numChars = 1
  <2>1. HexStep(s, c) = [bytes |-> Append(s.bytes, s.byte + c), numChars |-> 0, byte |-> 0,
                         bad |-> s.bad]
    BY <1>5 DEF HexStep, HexStates
  <2> QED BY <2>1, <1>1, <1>3 DEF HexStates
<1>6. CASE ~(s.bad \/ c = NoDigit) /\ s.numChars # 1
  <2>1. HexStep(s, c) = [bytes |-> s.bytes, numChars |-> 1, byte |-> 16 * c, bad |-> s.bad]
    BY <1>6 DEF HexStep, HexStates
  <2> QED BY <2>1, <1>1, <1>2 DEF HexStates
<1> QED BY <1>4, <1>5, <1>6

LEMMA HexLoopDefined ==
  ASSUME NEW hex \in Seq(0..NoDigit)
  PROVE  \E f \in [0..Len(hex) -> HexStates] : HexLoop(hex, f)
<1> DEFINE D == [i \in 1..Len(hex) |-> [s \in HexStates |-> HexStep(s, hex[i])]]
<1>1. Len(hex) \in Nat /\ \A i \in 1..Len(hex) : hex[i] \in 0..NoDigit
  BY DEF NoDigit
<1>2. HexStart(hex) \in HexStates
  BY <1>1 DEF HexStart, HexStates
<1>3. D \in [1..Len(hex) -> [HexStates -> HexStates]]
  BY <1>1, HexStepTyped
<1>4. \A i \in 1..Len(hex), s \in HexStates : D[i][s] = HexStep(s, hex[i])
  OBVIOUS
<1> HIDE DEF D
<1>5. PICK f \in [0..Len(hex) -> HexStates] :
        Rounds(f, HexStart(hex), Len(hex), D)
  BY <1>1, <1>2, <1>3, LoopDefined
<1>6. \A i \in 1..Len(hex) : f[i] = HexStep(f[i - 1], hex[i])
  <2> TAKE i \in 1..Len(hex)
  <2>1. i - 1 \in 0..Len(hex)
    BY <1>1
  <2>2. f[i - 1] \in HexStates
    BY <2>1
  <2> QED BY <2>2, <1>4, <1>5 DEF Rounds
<1>7. HexLoop(hex, f)
  <2>1. \A i \in 0..Len(hex) : i = 0 \/ i \in 1..Len(hex)
    BY <1>1
  <2>2. \A i \in 0..Len(hex) : f[i] = IF i = 0 THEN HexStart(hex) ELSE HexStep(f[i - 1], hex[i])
    BY <2>1, <1>5, <1>6 DEF Rounds
  <2> QED BY <2>2 DEF HexLoop
<1> QED BY <1>7

LEMMA HexLoopTyped ==
  ASSUME NEW hex \in Seq(0..NoDigit), NEW f, HexLoop(hex, f)
  PROVE  f \in [0..Len(hex) -> HexStates]
<1> DEFINE S == {i \in 0..Len(hex) : f[i] \in HexStates}
<1>1. Len(hex) \in Nat /\ \A i \in 1..Len(hex) : hex[i] \in 0..NoDigit
  BY DEF NoDigit
<1>2. 0 \in S
  <2>1. f[0] = HexStart(hex)
    BY <1>1 DEF HexLoop
  <2>2. HexStart(hex) \in HexStates
    BY <1>1 DEF HexStart, HexStates
  <2> QED BY <1>1, <2>1, <2>2
<1>3. ASSUME NEW i \in 0..Len(hex) - 1, i \in S PROVE i + 1 \in S
  <2>1. i + 1 \in 1..Len(hex) /\ i + 1 \in 0..Len(hex) /\ i + 1 # 0 /\ (i + 1) - 1 = i
    BY <1>1
  <2>2. f[i + 1] = HexStep(f[i], hex[i + 1])
    BY <2>1 DEF HexLoop
  <2>3. hex[i + 1] \in 0..NoDigit /\ f[i] \in HexStates
    BY <1>1, <1>3, <2>1
  <2>4. HexStep(f[i], hex[i + 1]) \in HexStates
    BY <2>3, HexStepTyped
  <2> QED BY <2>1, <2>2, <2>4
<1>4. 0..Len(hex) \subseteq S
  <2> HIDE DEF S
  <2> QED BY <1>1, <1>2, <1>3, UpTo
<1>5. f = [i \in 0..Len(hex) |-> f[i]]
  BY DEF HexLoop
<1> QED BY <1>4, <1>5

\* What Hex2Bytes makes of the state after the last character.
LEMMA HexUnfolded ==
  ASSUME NEW hex \in Seq(0..NoDigit), NEW size \in Nat
  PROVE  \E f : /\ f \in [0..Len(hex) -> HexStates] /\ HexLoop(hex, f)
                /\ Hex2Bytes(hex, size) =
                     IF (Len(hex) + 1) \div 2 > size THEN [n |-> -1, bytes |-> <<>>]
                     ELSE [n |-> IF f[Len(hex)].bad THEN -1 ELSE Len(f[Len(hex)].bytes),
                           bytes |-> f[Len(hex)].bytes]
<1> DEFINE f == CHOOSE f : HexLoop(hex, f)
<1>1. HexLoop(hex, f)
  BY HexLoopDefined
<1>2. Hex2Bytes(hex, size) =
        IF (Len(hex) + 1) \div 2 > size THEN [n |-> -1, bytes |-> <<>>]
        ELSE [n |-> IF f[Len(hex)].bad THEN -1 ELSE Len(f[Len(hex)].bytes),
              bytes |-> f[Len(hex)].bytes]
  BY DEF Hex2Bytes, HexLoop, HexStart, HexStep
<1> HIDE DEF f
<1>3. f \in [0..Len(hex) -> HexStates]
  BY <1>1, HexLoopTyped
<1> QED BY <1>1, <1>2, <1>3

\* The digits with a leading 0 if their number is odd.
Whole(hex) == IF Len(hex) % 2 = 1 THEN <<0>> \o hex ELSE hex
Good(hex, i) == \A k \in 1..i : hex[k] # NoDigit

\* Whole has an even number of digits: the digits of hex, after a 0 if need be.
LEMMA WholeAt ==
  ASSUME NEW hex \in Seq(0..NoDigit)
  PROVE  /\ Whole(hex) \in Seq(0..NoDigit) /\ Len(Whole(hex)) = Len(hex) + (Len(hex) % 2)
         /\ \A i \in 1..Len(hex) : Whole(hex)[(Len(hex) % 2) + i] = hex[i]
         /\ Len(hex) % 2 = 1 => Whole(hex)[1] = 0
         /\ Len(hex) % 2 \in {0, 1} /\ Len(Whole(hex)) % 2 = 0
<1>1. Len(hex) \in Nat /\ Len(hex) % 2 \in {0, 1}
  BY HalvesOf DEF Halves
<1>2. CASE Len(hex) % 2 = 0
  <2>1. Whole(hex) = hex
    BY <1>2 DEF Whole
  <2> QED BY <1>1, <1>2, <2>1
<1>3. CASE Len(hex) % 2 = 1
  <2>1. 0 \in 0..NoDigit
    BY DEF NoDigit
  <2>2. (Len(hex) + 1) % 2 = 0
    BY <1>1, <1>3, NextHalf
  <2>3. Whole(hex) = <<0>> \o hex
    BY <1>3 DEF Whole
  <2>4. <<0>> \o hex \in Seq(0..NoDigit)
    BY <2>1 DEF NoDigit
  <2>5. Len(<<0>> \o hex) = Len(hex) + 1 /\ (<<0>> \o hex)[1] = 0
         /\ \A i \in 1..Len(hex) : (<<0>> \o hex)[1 + i] = hex[i]
    BY <1>1
  <2> QED BY <1>1, <1>3, <2>2, <2>3, <2>4, <2>5
<1> QED BY <1>1, <1>2, <1>3

\* After i digits: the bytes read, and half a byte.
Read(hex, s, m) ==
  /\ ~s.bad /\ s.numChars = m % 2
  /\ Len(s.bytes) = m \div 2
  /\ \A k \in 1..m \div 2 : s.bytes[k] = 16 * Whole(hex)[2 * k - 1] + Whole(hex)[2 * k]
  /\ m % 2 = 1 => s.byte = 16 * Whole(hex)[m]

\* A round of the loop on a digit: a byte is complete, or half of the next is kept.
LEMMA HexStepReads ==
  ASSUME NEW s \in HexStates, NEW c, c # NoDigit, ~s.bad
  PROVE  /\ ~HexStep(s, c).bad
         /\ s.numChars = 1 => /\ HexStep(s, c).bytes = Append(s.bytes, s.byte + c)
                              /\ HexStep(s, c).numChars = 0
         /\ s.numChars = 0 => /\ HexStep(s, c).bytes = s.bytes
                              /\ HexStep(s, c).numChars = 1 /\ HexStep(s, c).byte = 16 * c
  BY DEF HexStep, HexStates

\* A state that has read m digits has, after one more round, read m + 1.
LEMMA ReadNext ==
  ASSUME NEW hex \in Seq(0..NoDigit), NEW m \in Nat, NEW s \in HexStates, Read(hex, s, m),
         m + 1 <= Len(Whole(hex)), Whole(hex)[m + 1] # NoDigit
  PROVE  Read(hex, HexStep(s, Whole(hex)[m + 1]), m + 1)
<1> DEFINE c == Whole(hex)[m + 1]  t == HexStep(s, c)  W == Whole(hex)
<1>0. W \in Seq(0..NoDigit) /\ Len(W) \in Nat /\ c \in 0..NoDigit /\ c # NoDigit
  <2>1. W \in Seq(0..NoDigit)
    BY WholeAt
  <2> HIDE DEF W
  <2>2. \A i \in 1..Len(W) : W[i] \in 0..NoDigit
    BY <2>1 DEF NoDigit
  <2>3. W[m + 1] # NoDigit /\ m + 1 <= Len(W)
    BY DEF W
  <2>4. c = W[m + 1]
    BY DEF W
  <2> QED BY <2>1, <2>2, <2>3, <2>4
<1>1. s.bytes \in Seq(Int) /\ s.byte \in Int
  BY DEF HexStates
<1>2. m = 2 * (m \div 2) + (m % 2) /\ m % 2 \in {0, 1} /\ m \div 2 \in Nat
  BY HalvesOf DEF Halves
<1>3. /\ ~s.bad /\ s.numChars = m % 2 /\ Len(s.bytes) = m \div 2
      /\ \A k \in 1..m \div 2 : s.bytes[k] = 16 * W[2 * k - 1] + W[2 * k]
      /\ m % 2 = 1 => s.byte = 16 * W[m]
  BY DEF Read
<1>4. /\ ~t.bad
      /\ m % 2 = 1 => t.bytes = Append(s.bytes, s.byte + c) /\ t.numChars = 0
      /\ m % 2 = 0 => t.bytes = s.bytes /\ t.numChars = 1 /\ t.byte = 16 * c
  BY <1>0, <1>3, HexStepReads
<1>5. c = W[m + 1]
  OBVIOUS
<1> HIDE DEF t, c, W
<1>6. CASE m % 2 = 0
  <2>1. (m + 1) % 2 = 1 /\ (m + 1) \div 2 = m \div 2
    BY <1>6, NextHalf
  <2>2. t.bytes = s.bytes /\ t.numChars = 1 /\ t.byte = 16 * W[m + 1]
    BY <1>4, <1>5, <1>6
  <2>3. Read(hex, t, m + 1)
    BY <2>1, <2>2, <1>3, <1>4 DEF Read, W
  <2> QED BY <2>3 DEF t, c, W
<1>7. CASE m % 2 = 1
  <2>1. (m + 1) % 2 = 0 /\ (m + 1) \div 2 = m \div 2 + 1
    BY <1>7, NextHalf
  <2> DEFINE q == m \div 2
  <2>2. s.byte = 16 * W[m] /\ m = 2 * (q + 1) - 1 /\ m + 1 = 2 * (q + 1)
    <3>1. q \in Nat /\ m = 2 * q + 1
      BY <1>2, <1>7
    <3> HIDE DEF q
    <3>2. m = 2 * (q + 1) - 1 /\ m + 1 = 2 * (q + 1)
      BY <3>1
    <3> QED BY <3>2, <1>3, <1>7
  <2>3. Len(s.bytes) = q /\ q \in Nat
    BY <1>2, <1>3
  <2>4. t.bytes = Append(s.bytes, s.byte + c) /\ s.byte + c \in Int
    BY <1>0, <1>1, <1>4, <1>7 DEF NoDigit
  <2>5. Len(t.bytes) = q + 1 /\ t.bytes[q + 1] = s.byte + c
    BY <2>3, <2>4, <1>1
  <2>6. \A k \in 1..q : t.bytes[k] = s.bytes[k]
    BY <2>3, <2>4, <1>1
  <2>7. t.bytes[q + 1] = 16 * W[2 * (q + 1) - 1] + W[2 * (q + 1)]
    BY <2>2, <2>5, <1>5
  <2>8. \A k \in 1..q + 1 : t.bytes[k] = 16 * W[2 * k - 1] + W[2 * k]
    <3> TAKE k \in 1..q + 1
    <3>1. k \in 1..q \/ k = q + 1
      BY <2>3
    <3> HIDE DEF q
    <3> QED BY <3>1, <2>6, <2>7, <1>3 DEF q
  <2>9. Read(hex, t, m + 1)
    <3>1. \A k \in 1..(m + 1) \div 2 : t.bytes[k] = 16 * W[2 * k - 1] + W[2 * k]
      BY <2>1, <2>8
    <3>2. ~t.bad /\ t.numChars = (m + 1) % 2 /\ Len(t.bytes) = (m + 1) \div 2
      BY <2>1, <2>5, <1>4, <1>7
    <3>3. (m + 1) % 2 # 1
      BY <2>1
    <3> QED BY <3>1, <3>2, <3>3 DEF Read, W
  <2> QED BY <2>9 DEF t, c, W
<1> QED BY <1>2, <1>6, <1>7

\* After i characters of a loop.
HexAfter(hex, f, i) ==
  IF Good(hex, i) THEN Read(hex, f[i], (Len(hex) % 2) + i) ELSE f[i].bad

\* After i rounds the loop has read i digits, or has met something that is none.
LEMMA HexLoopReads ==
  ASSUME NEW hex \in Seq(0..NoDigit), NEW f \in [0..Len(hex) -> HexStates], HexLoop(hex, f)
  PROVE  \A i \in 0..Len(hex) : HexAfter(hex, f, i)
<1> DEFINE S == {i \in 0..Len(hex) : HexAfter(hex, f, i)}
           W == Whole(hex)
           s == Len(hex) % 2
<1>0. Len(hex) \in Nat /\ s \in {0, 1}
  BY WholeAt
<1>1. 0 \in S
  <2>1. f[0] = HexStart(hex)
    BY <1>0 DEF HexLoop
  <2>2. Good(hex, 0)
    BY DEF Good
  <2>3. s % 2 = s /\ s \div 2 = 0 /\ s + 0 = s
    BY <1>0
  <2>4. s = 1 => W[s] = 0
    BY WholeAt
  <2>5. Read(hex, f[0], s + 0)
    BY <2>1, <2>3, <2>4 DEF Read, HexStart
  <2> QED BY <1>0, <2>2, <2>5 DEF HexAfter
<1>2. ASSUME NEW i \in 0..Len(hex) - 1, i \in S PROVE i + 1 \in S
  <2>1. i + 1 \in 1..Len(hex) /\ i + 1 # 0 /\ i \in 0..Len(hex) /\ (i + 1) - 1 = i
    BY <1>0
  <2>2. f[i + 1] = HexStep(f[i], hex[i + 1]) /\ f[i] \in HexStates
    <3>1. i + 1 \in 0..Len(hex)
      BY <2>1
    <3> QED BY <2>1, <3>1 DEF HexLoop
  <2>3. HexAfter(hex, f, i)
    BY <1>2
  <2>4. CASE Good(hex, i + 1)
    <3>1. Good(hex, i) /\ hex[i + 1] # NoDigit
      BY <2>1, <2>4 DEF Good
    <3>2. Read(hex, f[i], s + i)
      BY <2>3, <3>1 DEF HexAfter
    <3>3. W[s + (i + 1)] = hex[i + 1] /\ Len(W) = Len(hex) + s
      BY <2>1, WholeAt
    <3>4. s + i \in Nat /\ s + (i + 1) = (s + i) + 1 /\ (s + i) + 1 <= Len(W)
      BY <1>0, <2>1, <3>3
    <3> DEFINE m == s + i
    <3>5. m \in Nat /\ m + 1 <= Len(W) /\ W[m + 1] = hex[i + 1] /\ Read(hex, f[i], m)
      BY <3>2, <3>3, <3>4
    <3> HIDE DEF m
    <3>6. Read(hex, HexStep(f[i], W[m + 1]), m + 1)
      BY <2>2, <3>1, <3>5, ReadNext DEF W
    <3>7. Read(hex, f[i + 1], m + 1)
      BY <2>2, <3>5, <3>6
    <3>8. m + 1 = s + (i + 1)
      BY <3>4 DEF m
    <3> QED BY <2>1, <2>4, <3>7, <3>8 DEF HexAfter
  <2>5. CASE ~Good(hex, i + 1)
    <3>1. f[i].bad \/ hex[i + 1] = NoDigit
      <4>1. CASE Good(hex, i)
        <5>1. PICK k \in 1..i + 1 : hex[k] = NoDigit
          BY <2>5 DEF Good
        <5>2. k \in 1..i \/ k = i + 1
          BY <2>1
        <5> QED BY <4>1, <5>1, <5>2 DEF Good
      <4>2. CASE ~Good(hex, i)
        BY <4>2, <2>3 DEF HexAfter
      <4> QED BY <4>1, <4>2
    <3>2. f[i + 1].bad
      BY <2>2, <3>1 DEF HexStep, HexStates
    <3> QED BY <2>1, <2>5, <3>2 DEF HexAfter
  <2> QED BY <2>4, <2>5
<1>3. 0..Len(hex) \subseteq S
  <2> HIDE DEF S
  <2> QED BY <1>0, <1>1, <1>2, UpTo
<1> QED BY <1>3

\* Utils::Hex2Bytes (hex.cpp) accepts the strings of digits that fit in size bytes
\* and no others, returns the number of bytes, and stores the number that the
\* digits write, with a 0 before an odd number of them: for strings of any length.
THEOREM HexDecoded ==
  ASSUME NEW hex \in Seq(0..NoDigit), NEW size \in Nat
  PROVE  LET r == Hex2Bytes(hex, size)
             fits == IsHex(hex) /\ Len(hex) <= 2 * size
         IN /\ r.n = IF fits THEN (Len(hex) + 1) \div 2 ELSE -1
            /\ fits => r.bytes = HexValue(hex)
<1> DEFINE r == Hex2Bytes(hex, size)  n == Len(hex)  W == Whole(hex)  s == n % 2
<1>1. PICK f : /\ f \in [0..n -> HexStates] /\ HexLoop(hex, f)
               /\ r = IF (n + 1) \div 2 > size THEN [n |-> -1, bytes |-> <<>>]
                      ELSE [n |-> IF f[n].bad THEN -1 ELSE Len(f[n].bytes), bytes |-> f[n].bytes]
  BY HexUnfolded
<1>2. n \in Nat /\ s \in {0, 1} /\ Len(W) = n + s /\ (n + s) % 2 = 0
  BY WholeAt
<1>3. (n + 1) \div 2 > size <=> ~(n <= 2 * size)
  BY <1>2
<1>4. (n + 1) \div 2 = (s + n) \div 2 /\ (s + n) % 2 = 0
  BY <1>2
<1>5. HexAfter(hex, f, n)
  BY <1>1, <1>2, HexLoopReads
<1>6. Good(hex, n) <=> IsHex(hex)
  BY <1>2 DEF Good, IsHex
<1>7. HexValue(hex) = [k \in 1..(n + s) \div 2 |-> 16 * W[2 * k - 1] + W[2 * k]]
  BY <1>2 DEF HexValue, Whole
<1> HIDE DEF r
<1>8. CASE n <= 2 * size /\ IsHex(hex)
  <2>1. r.n = (IF f[n].bad THEN -1 ELSE Len(f[n].bytes)) /\ r.bytes = f[n].bytes
    BY <1>1, <1>3, <1>8
  <2>2. Read(hex, f[n], s + n)
    BY <1>5, <1>6, <1>8 DEF HexAfter
  <2>3. r.n = (n + 1) \div 2
    BY <2>1, <2>2, <1>4 DEF Read
  <2>4. Len(r.bytes) = (n + s) \div 2
        /\ \A k \in 1..(n + s) \div 2 : r.bytes[k] = 16 * W[2 * k - 1] + W[2 * k]
    BY <2>1, <2>2, <1>2 DEF Read
  <2>5. r.bytes \in Seq(Int)
    <3>1. f[n] \in HexStates
      BY <1>1, <1>2
    <3> QED BY <2>1, <3>1 DEF HexStates
  <2>6. r.bytes = HexValue(hex)
    <3> DEFINE q == (n + s) \div 2
    <3>1. r.bytes = [k \in 1..q |-> r.bytes[k]]
      BY <2>4, <2>5
    <3> QED BY <3>1, <2>4, <1>7
  <2> QED BY <2>3, <2>6, <1>8 DEF r
<1>9. CASE ~(n <= 2 * size)
  BY <1>1, <1>3, <1>9 DEF r
<1>10. CASE n <= 2 * size /\ ~IsHex(hex)
  <2>1. f[n].bad
    BY <1>5, <1>6, <1>10 DEF HexAfter
  <2> QED BY <2>1, <1>1, <1>3, <1>10 DEF r
<1> QED BY <1>8, <1>9, <1>10

-----------------------------------------------------------------------------
(* The command line: its options, and what ParseArgs makes of each. *)

\* A command line is a sequence of words.
LEMMA ArgvWords ==
  ASSUME NEW argv \in Argvs
  PROVE  /\ Len(argv) \in Nat /\ DOMAIN argv = 1..Len(argv)
         /\ \A i \in 1..Len(argv) : IsWord(argv[i])
<1>1. argv \in Seq(ToSet(argv)) /\ \A w \in ToSet(argv) : IsWord(w)
  BY ArgvsAssumption
<1>2. \A i \in DOMAIN argv : argv[i] \in ToSet(argv)
  BY DEF ToSet
<1> QED BY <1>1, <1>2

\* An option is one word, or two.
LEMMA ArityOneOrTwo == \A w : Arity(w) \in {1, 2}
  BY DEF Arity

\* Starts is the least set of positions that is closed under the arities.
LEMMA StartsClosed ==
  /\ Starts \in SUBSET DOMAIN mARGV /\ Closed(Starts)
  /\ \A S \in SUBSET DOMAIN mARGV : Closed(S) => Starts \subseteq S
<1>1. Starts \in SUBSET DOMAIN mARGV
  BY DEF Starts
<1>2. \A S \in SUBSET DOMAIN mARGV : Closed(S) => Starts \subseteq S
  BY DEF Starts
<1>3. 1 \in DOMAIN mARGV => 1 \in Starts
  BY DEF Starts, Closed
<1>4. ASSUME NEW i \in Starts, i + Arity(mARGV[i]) \in DOMAIN mARGV
      PROVE  i + Arity(mARGV[i]) \in Starts
  <2>1. ASSUME NEW S \in SUBSET DOMAIN mARGV, Closed(S) PROVE i + Arity(mARGV[i]) \in S
    <3>1. i \in S
      BY <1>2, <2>1
    <3> QED BY <3>1, <1>4, <2>1 DEF Closed
  <2> QED BY <2>1, <1>4 DEF Starts
<1> QED BY <1>1, <1>2, <1>3, <1>4 DEF Closed

\* The words before x are those of the options that start there.
Parsed(x) ==
  /\ x + 1 \in DOMAIN mARGV => x + 1 \in Starts
  /\ \A i \in Starts : i <= x => i + Arity(mARGV[i]) <= x + 1

\* The next start after an option is the one after its words.
LEMMA NextStart ==
  ASSUME mARGV \in Argvs, NEW x \in Nat, x < Len(mARGV), Parsed(x),
         NEW y, y = x + Arity(mARGV[x + 1])
  PROVE  /\ y \in Nat /\ x + 1 \in Starts /\ Parsed(y)
         /\ \A i \in Starts : i <= y <=> i <= x \/ i = x + 1
<1> DEFINE w == mARGV[x + 1]
           S == {i \in Starts : i <= x + 1 \/ i >= y + 1}
<1>1. Len(mARGV) \in Nat /\ DOMAIN mARGV = 1..Len(mARGV)
  BY ArgvWords
<1>2. Starts \in SUBSET (1..Len(mARGV)) /\ x + 1 \in Starts
  BY <1>1, StartsClosed DEF Parsed
<1>3. y \in {x + 1, x + 2}
  BY ArityOneOrTwo
<1>4. \A i \in S : i \in Nat /\ i \in Starts /\ Arity(mARGV[i]) \in {1, 2}
  BY <1>2, ArityOneOrTwo
<1>5. Closed(S)
  <2>1. 1 \in DOMAIN mARGV => 1 \in S
    BY <1>1, StartsClosed DEF Closed
  <2>2. ASSUME NEW i \in S, i + Arity(mARGV[i]) \in DOMAIN mARGV PROVE i + Arity(mARGV[i]) \in S
    <3>1. i + Arity(mARGV[i]) \in Starts
      BY <1>4, <2>2, StartsClosed DEF Closed
    <3>2. CASE i <= x
      <4>1. i + Arity(mARGV[i]) <= x + 1
        BY <1>4, <3>2 DEF Parsed
      <4> QED BY <4>1, <3>1
    <3>3. CASE i = x + 1
      <4>1. i + Arity(mARGV[i]) = y + 1
        BY <1>3, <3>3, ArityOneOrTwo
      <4> QED BY <4>1, <3>1, <1>3
    <3>4. CASE i >= y + 1
      <4>1. i + Arity(mARGV[i]) >= y + 1
        BY <1>3, <1>4, <3>4
      <4> QED BY <4>1, <3>1
    <3>5. i <= x \/ i = x + 1 \/ i >= y + 1
      BY <1>4
    <3> QED BY <3>2, <3>3, <3>4, <3>5
  <2> QED BY <2>1, <2>2 DEF Closed
<1>6. Starts \subseteq S
  <2>1. S \in SUBSET DOMAIN mARGV
    BY StartsClosed
  <2> HIDE DEF S
  <2> QED BY <1>5, <2>1, StartsClosed
<1>7. \A i \in Starts : i \in Nat /\ (i <= x + 1 \/ i >= y + 1)
  BY <1>2, <1>6
<1>8. \A i \in Starts : i <= y <=> i <= x \/ i = x + 1
  BY <1>3, <1>7
<1>9. Parsed(y)
  <2>1. y + 1 \in DOMAIN mARGV => y + 1 \in Starts
    <3>1. (x + 1) + Arity(mARGV[x + 1]) = y + 1
      BY <1>3, ArityOneOrTwo
    <3> QED BY <3>1, <1>2, StartsClosed DEF Closed
  <2>2. ASSUME NEW i \in Starts, i <= y PROVE i + Arity(mARGV[i]) <= y + 1
    <3>1. i \in Nat /\ Arity(mARGV[i]) \in {1, 2}
      BY <1>7, ArityOneOrTwo
    <3>2. CASE i <= x
      <4>1. i + Arity(mARGV[i]) <= x + 1
        BY <3>2 DEF Parsed
      <4> QED BY <4>1, <3>1, <1>3
    <3>3. CASE i = x + 1
      BY <3>3, <1>3, ArityOneOrTwo
    <3> QED BY <3>2, <3>3, <2>2, <1>8
  <2> QED BY <2>1, <2>2 DEF Parsed
<1> QED BY <1>2, <1>3, <1>8, <1>9

TextOptions == DOMAIN StrSize \cup DOMAIN HexLen \cup {"--joiner-passphrase"}
Valued == TextOptions \cup DOMAIN NumRange \cup {"--debug-level"}

StrNames == {"--network-name", "--agent-passphrase", "--agent-addr", "--agent-port", "--log-filename"}
HexNames == {"--joiner-eui64", "--hashmac", "--xpanid", "--pskc-bin"}
NumNames == {"--steering-length", "--comm-ka-rate", "--comm-envelope-timeout"}

\* The tables of the options: which they have, that none is in two of them, and
\* what is in them.
LEMMA OptionNames ==
  /\ DOMAIN StrSize = StrNames /\ DOMAIN NumRange = NumNames /\ DOMAIN HexLen = HexNames
<1>1. DOMAIN StrSize = StrNames
  BY DEF StrSize, StrNames
<1>2. DOMAIN NumRange = NumNames
  BY DEF NumRange, NumNames
<1>3. DOMAIN HexLen = HexNames
  BY DEF HexLen, JoinerHexLen, NetworkHexLen, HexNames
<1> QED BY <1>1, <1>2, <1>3

LEMMA OptionsApart ==
  /\ StrNames \cap HexNames = {} /\ StrNames \cap NumNames = {} /\ HexNames \cap NumNames = {}
  /\ Flags \cap (StrNames \cup HexNames \cup NumNames) = {}
  /\ "--joiner-passphrase" \notin Flags \cup StrNames \cup HexNames \cup NumNames
  /\ "--debug-level" \notin Flags \cup StrNames \cup HexNames \cup NumNames
  /\ "--joiner-passphrase" # "--debug-level"
  /\ "--pskc-bin" \in HexNames /\ "--commission-device" \in Flags
  BY DEF StrNames, HexNames, NumNames, Flags

LEMMA Sizes ==
  /\ \A o \in DOMAIN StrSize : StrSize[o] \in Nat
  /\ \A o \in DOMAIN HexLen : HexLen[o] \in {8, 16}
  /\ \A o \in DOMAIN NumRange : \A v \in NumRange[o] : v \in Int /\ v >= 1
<1>1. \A o \in DOMAIN StrSize : StrSize[o] \in Nat
  BY DEF StrSize
<1>2. \A o \in DOMAIN HexLen : HexLen[o] \in {8, 16}
  BY DEF HexLen, JoinerHexLen, NetworkHexLen
<1>3. \A o \in DOMAIN NumRange : \A v \in NumRange[o] : v \in Int /\ v >= 1
  <2>1. \A o \in NumNames : o = "--steering-length" \/ o = "--comm-ka-rate" \/ o = "--comm-envelope-timeout"
    BY DEF NumNames
  <2>2. NumRange["--steering-length"] = 1..16 /\ NumRange["--comm-ka-rate"] = 3..kDay
        /\ NumRange["--comm-envelope-timeout"] = 1..kDay
    BY DEF NumRange
  <2>3. /\ \A v \in NumRange["--steering-length"] : v \in Int /\ v >= 1
        /\ \A v \in NumRange["--comm-ka-rate"] : v \in Int /\ v >= 1
        /\ \A v \in NumRange["--comm-envelope-timeout"] : v \in Int /\ v >= 1
    BY <2>2
  <2> QED BY <2>1, <2>3, OptionNames, Zenon
<1> QED BY <1>1, <1>2, <1>3

LEMMA KnownOptions ==
  Known = Valued \cup Flags /\ Flags \cap Valued = {}
  BY OptionNames, OptionsApart DEF Known, Valued, TextOptions

WordSet == [name : STRING, len : Nat, hex : Seq(0..NoDigit), number : SUBSET Int, pskd : BOOLEAN]

\* The word after the option is there or not, and is a word.
LEMMA WordAt ==
  ASSUME mARGV \in Argvs, NEW x \in Nat, mARGx = x, x < Len(mARGV)
  PROVE  /\ Len(mARGV) \in Nat
         /\ Missing <=> ~(x + 1 < Len(mARGV))
         /\ x + 1 < Len(mARGV) => /\ Value = mARGV[(x + 1) + 1] /\ IsWord(Value)
                                  /\ Value.len \in Nat /\ Value.hex \in Seq(0..NoDigit)
                                  /\ Value.len = Len(Value.hex) /\ Value.number \subseteq Int
                                  /\ \A m, n \in Value.number : m = n
<1>1. Len(mARGV) \in Nat /\ \A i \in 1..Len(mARGV) : IsWord(mARGV[i])
  BY ArgvWords
<1>2. Missing <=> ~(x + 1 < Len(mARGV))
  BY <1>1 DEF Missing
<1>3. ASSUME x + 1 < Len(mARGV) PROVE Value = mARGV[(x + 1) + 1] /\ IsWord(Value)
  <2>1. x + 2 = (x + 1) + 1 /\ x + 2 <= Len(mARGV) /\ x + 2 \in 1..Len(mARGV)
    BY <1>1, <1>3
  <2>2. Value = mARGV[x + 2]
    BY <2>1 DEF Value
  <2> QED BY <2>1, <2>2, <1>1
<1>4. IsWord(Value) => /\ Value.len \in Nat /\ Value.hex \in Seq(0..NoDigit)
                       /\ Value.len = Len(Value.hex) /\ Value.number \subseteq Int
                       /\ \A m, n \in Value.number : m = n
  BY DEF IsWord
<1> QED BY <1>1, <1>2, <1>3, <1>4

\* A word has at most one number.
LEMMA NumberOfWord ==
  ASSUME NEW number \in SUBSET Int, \A m, n \in number : m = n, number # {}
  PROVE  (CHOOSE v \in number : TRUE) \in number /\ number = {CHOOSE v \in number : TRUE}
  OBVIOUS

\* The handler of an option accepts its value exactly if it is acceptable.
LEMMA FlagAccepted ==
  ASSUME mARGx \in Nat, Option \in Flags PROVE Acceptable(mARGx + 1)
  BY DEF Acceptable, Option

\* What each handler of the parser checks is what makes the option acceptable:
\* one lemma for each kind of option.
LEMMA UnknownRejected ==
  ASSUME mARGx \in Nat, Option \notin Known PROVE ~Acceptable(mARGx + 1)
  BY KnownOptions DEF Acceptable, Option, Valued, TextOptions

LEMMA StrAccepted ==
  ASSUME mARGV \in Argvs, mARGx \in Nat, mARGx < Len(mARGV), Option \in DOMAIN StrSize
  PROVE  StrParam(StrSize[Option]) <=> Acceptable(mARGx + 1)
<1>1. Option \notin Flags \cup DOMAIN HexLen \cup DOMAIN NumRange
        \cup {"--joiner-passphrase", "--debug-level"}
  BY OptionNames, OptionsApart
<1>2. StrSize[Option] \in Nat
  BY Sizes
<1>3. Acceptable(mARGx + 1)
        <=> mARGx + 1 < Len(mARGV) /\ mARGV[(mARGx + 1) + 1].len < StrSize[Option]
  BY <1>1 DEF Acceptable, Option
<1> QED BY <1>2, <1>3, WordAt DEF StrParam

LEMMA PskdAccepted ==
  ASSUME mARGV \in Argvs, mARGx \in Nat, mARGx < Len(mARGV), Option = "--joiner-passphrase"
  PROVE  (StrParam(kPSKdLength + 1) /\ Value.len \in 6..32 /\ Value.pskd) <=> Acceptable(mARGx + 1)
<1>1. Option \notin Flags \cup DOMAIN HexLen \cup DOMAIN NumRange \cup DOMAIN StrSize
  BY OptionNames, OptionsApart
<1>2. Acceptable(mARGx + 1)
        <=> mARGx + 1 < Len(mARGV) /\ mARGV[(mARGx + 1) + 1].len \in 6..32
            /\ mARGV[(mARGx + 1) + 1].pskd
  BY <1>1, OptionsApart DEF Acceptable, Option
<1>3. StrParam(kPSKdLength + 1) <=> mARGx + 1 < Len(mARGV) /\ Value.len <= 32
  BY WordAt DEF StrParam, kPSKdLength
<1>4. mARGx + 1 < Len(mARGV) => Value = mARGV[(mARGx + 1) + 1] /\ Value.len \in Nat
  BY WordAt
<1>5. Value.len \in 6..32 => Value.len <= 32
  <2>1. \A v \in 6..32 : v <= 32
    OBVIOUS
  <2> QED BY <2>1, Zenon
<1> QED BY <1>2, <1>3, <1>4, <1>5

LEMMA HexAccepted ==
  ASSUME mARGV \in Argvs, mARGx \in Nat, mARGx < Len(mARGV), Option \in DOMAIN HexLen
  PROVE  (StrParam(2 * HexLen[Option] + 1) /\ Hex2Bytes(Value.hex, HexLen[Option]).n = HexLen[Option])
           <=> Acceptable(mARGx + 1)
<1> DEFINE h == HexLen[Option]  r == Hex2Bytes(Value.hex, h)
<1>1. Option \notin Flags \cup DOMAIN StrSize \cup DOMAIN NumRange
        \cup {"--joiner-passphrase", "--debug-level"}
  BY OptionNames, OptionsApart
<1>2. h \in {8, 16}
  BY Sizes
<1>3. Acceptable(mARGx + 1)
        <=> /\ mARGx + 1 < Len(mARGV) /\ IsHex(mARGV[(mARGx + 1) + 1].hex)
            /\ Len(mARGV[(mARGx + 1) + 1].hex) \in {2 * h - 1, 2 * h}
  BY <1>1 DEF Acceptable, Option
<1>4. StrParam(2 * h + 1) <=> mARGx + 1 < Len(mARGV) /\ Value.len <= 2 * h
  BY <1>2, WordAt DEF StrParam
<1>5. ASSUME mARGx + 1 < Len(mARGV), Value.len <= 2 * h
      PROVE  r.n = h <=> IsHex(Value.hex) /\ Len(Value.hex) \in {2 * h - 1, 2 * h}
  <2> DEFINE n == Len(Value.hex)
  <2>1. Value.hex \in Seq(0..NoDigit) /\ n \in Nat /\ n <= 2 * h /\ h \in Nat
    BY <1>2, <1>5, WordAt
  <2>2. r.n = IF IsHex(Value.hex) /\ n <= 2 * h THEN (n + 1) \div 2 ELSE -1
    BY <2>1, HexDecoded
  <2> HIDE DEF n, r, h
  <2>3. (n + 1) \div 2 = h <=> n \in {2 * h - 1, 2 * h}
    BY <2>1, <1>2
  <2>4. n <= 2 * h
    BY <2>1
  <2>5. -1 # h
    BY <1>2
  <2>6. r.n = h <=> IsHex(Value.hex) /\ n \in {2 * h - 1, 2 * h}
    BY <2>2, <2>3, <2>4, <2>5
  <2> QED BY <2>6 DEF n
<1>6. mARGx + 1 < Len(mARGV) => /\ Value = mARGV[(mARGx + 1) + 1] /\ Value.len = Len(Value.hex)
                                /\ Value.len \in Nat
  BY WordAt
<1> HIDE DEF r, h
<1>7. (StrParam(2 * h + 1) /\ r.n = h) <=> Acceptable(mARGx + 1)
  BY <1>2, <1>3, <1>4, <1>5, <1>6
<1> QED BY <1>7 DEF r, h

LEMMA NumberRead ==
  ASSUME mARGV \in Argvs, mARGx \in Nat, mARGx < Len(mARGV)
  PROVE  /\ NumParam # -1 => Value.number = {NumParam} /\ NumParam \in Int
         /\ StrParam(NumSize) /\ Value.number # NaN => Value.number = {NumParam} /\ NumParam \in Int
         /\ ~(StrParam(NumSize) /\ Value.number # NaN) => NumParam = -1
<1>1. ASSUME StrParam(NumSize), Value.number # NaN PROVE Value.number = {NumParam} /\ NumParam \in Int
  <2>1. Value.number \in SUBSET Int /\ \A m, n \in Value.number : m = n
    BY <1>1, WordAt DEF StrParam
  <2>2. NumParam = CHOOSE v \in Value.number : TRUE
    BY <1>1 DEF NumParam
  <2> QED BY <2>1, <2>2, <1>1, NumberOfWord DEF NaN
<1>2. ~(StrParam(NumSize) /\ Value.number # NaN) => NumParam = -1
  BY DEF NumParam
<1> QED BY <1>1, <1>2

LEMMA NumAccepted ==
  ASSUME mARGV \in Argvs, mARGx \in Nat, mARGx < Len(mARGV)
  PROVE  /\ Option \in DOMAIN NumRange =>
              ((NumParam # -1 /\ NumParam \in NumRange[Option]) <=> Acceptable(mARGx + 1))
         /\ Option = "--debug-level" =>
              (NumParam >= OTBR_LOG_EMERG <=> Acceptable(mARGx + 1))
<1>1. NumSize \in Nat /\ OTBR_LOG_EMERG = 0
  BY DEF NumSize, OTBR_LOG_EMERG
<1>2. StrParam(NumSize) <=> mARGx + 1 < Len(mARGV) /\ mARGV[(mARGx + 1) + 1].len < NumSize
  BY <1>1, WordAt DEF StrParam
<1>3. mARGx + 1 < Len(mARGV) => Value = mARGV[(mARGx + 1) + 1]
  BY WordAt
<1>4. ASSUME Option \in DOMAIN NumRange
      PROVE  (NumParam # -1 /\ NumParam \in NumRange[Option]) <=> Acceptable(mARGx + 1)
  <2>1. Option \notin Flags \cup DOMAIN StrSize \cup DOMAIN HexLen
          \cup {"--joiner-passphrase", "--debug-level"}
    BY <1>4, OptionNames, OptionsApart
  <2>2. Acceptable(mARGx + 1)
          <=> /\ mARGx + 1 < Len(mARGV) /\ mARGV[(mARGx + 1) + 1].number # NaN
              /\ mARGV[(mARGx + 1) + 1].len < NumSize
              /\ \A v \in mARGV[(mARGx + 1) + 1].number : v \in NumRange[Option]
    BY <1>4, <2>1 DEF Acceptable, Option
  <2>3. Acceptable(mARGx + 1)
          <=> StrParam(NumSize) /\ Value.number # NaN /\ \A v \in Value.number : v \in NumRange[Option]
    BY <2>2, <1>2, <1>3
  <2>4. -1 \notin NumRange[Option]
    BY <1>4, Sizes
  <2> QED BY <2>3, <2>4, NumberRead
<1>5. ASSUME Option = "--debug-level" PROVE NumParam >= OTBR_LOG_EMERG <=> Acceptable(mARGx + 1)
  <2>1. Option \notin Flags \cup DOMAIN StrSize \cup DOMAIN HexLen \cup DOMAIN NumRange
          \cup {"--joiner-passphrase"}
    BY <1>5, OptionNames, OptionsApart
  <2>2. Acceptable(mARGx + 1)
          <=> /\ mARGx + 1 < Len(mARGV) /\ mARGV[(mARGx + 1) + 1].number # NaN
              /\ mARGV[(mARGx + 1) + 1].len < NumSize
              /\ \A v \in mARGV[(mARGx + 1) + 1].number : v >= OTBR_LOG_EMERG
    BY <1>5, <2>1 DEF Acceptable, Option
  <2>3. Acceptable(mARGx + 1)
          <=> StrParam(NumSize) /\ Value.number # NaN /\ \A v \in Value.number : v >= OTBR_LOG_EMERG
    BY <2>2, <1>2, <1>3
  <2>5. CASE StrParam(NumSize) /\ Value.number # NaN
    <3>1. Value.number = {NumParam}
      BY <2>5, NumberRead
    <3> QED BY <3>1, <2>3, <2>5
  <2>6. CASE ~(StrParam(NumSize) /\ Value.number # NaN)
    <3>1. NumParam = -1
      BY <2>6, NumberRead
    <3> QED BY <3>1, <2>3, <2>6, <1>1
  <2> QED BY <2>5, <2>6
<1> QED BY <1>4, <1>5

-----------------------------------------------------------------------------
(* What the arguments a and the level l hold of the options read so far. *)

Used(o, x) == {i \in Starts : i <= x /\ mARGV[i].name = o}
Latest(i, o, x) == i \in Used(o, x) /\ \A j \in Used(o, x) : j <= i

AtMostDebug(v) == IF v > OTBR_LOG_DEBUG THEN OTBR_LOG_DEBUG ELSE v

Holds(a, l, o, w) ==
  /\ o \in TextOptions => a.text[o] = w
  /\ o \in DOMAIN HexLen => a.bin[o] = HexValue(w.hex)
  /\ o \in DOMAIN NumRange => w.number = {a.num[o]}
  /\ o = "--debug-level" => {l} = {AtMostDebug(v) : v \in w.number}

HoldsDefault(a, l, o) ==
  /\ o \in TextOptions => a.text[o] = NoWord
  /\ o \in DOMAIN HexLen => a.bin[o] = Defaults.bin[o]
  /\ o \in DOMAIN NumRange => a.num[o] = Defaults.num[o]
  /\ o = "--debug-level" => l = OTBR_LOG_INFO

SameOf(o, a, l, b, k) ==
  /\ o \in TextOptions => b.text[o] = a.text[o]
  /\ o \in DOMAIN HexLen => b.bin[o] = a.bin[o]
  /\ o \in DOMAIN NumRange => b.num[o] = a.num[o]
  /\ o = "--debug-level" => k = l

ValueSoFar(a, l, o, x) ==
  \/ Used(o, x) = {} /\ HoldsDefault(a, l, o)
  \/ \E i : Latest(i, o, x) /\ Holds(a, l, o, mARGV[i + 1])

SoFar(a, l, x) ==
  /\ \A o \in Valued : ValueSoFar(a, l, o, x)
  /\ a.flags = Defaults.flags \cup {o \in Flags : Used(o, x) # {}}
  /\ a.hasPskc = (Used("--pskc-bin", x) # {})

\* What the options before the current one set, and the defaults of those that
\* were not given, survive the setting of another option.
LEMMA HeldStays ==
  ASSUME NEW o, NEW a, NEW l, NEW b, NEW k, SameOf(o, a, l, b, k)
  PROVE  /\ \A w : Holds(a, l, o, w) => Holds(b, k, o, w)
         /\ HoldsDefault(a, l, o) => HoldsDefault(b, k, o)
<1>1. \A w : Holds(a, l, o, w) => Holds(b, k, o, w)
  BY DEF Holds, SameOf
<1>2. HoldsDefault(a, l, o) => HoldsDefault(b, k, o)
  BY DEF HoldsDefault, SameOf
<1> QED BY <1>1, <1>2

\* One option more: its value is the latest, and those of the others are kept.
LEMMA OneMore ==
  ASSUME mARGV \in Argvs, NEW x \in Nat, x < Len(mARGV), Parsed(x),
         NEW o, o = mARGV[x + 1].name, NEW y, y = x + Arity(mARGV[x + 1]),
         NEW a, NEW l, NEW b, NEW k, SoFar(a, l, x),
         o \in Valued => Holds(b, k, o, mARGV[(x + 1) + 1]),
         \A p \in Valued : p # o => SameOf(p, a, l, b, k),
         b.flags = a.flags \cup (Flags \cap {o}),
         b.hasPskc = (a.hasPskc \/ o = "--pskc-bin")
  PROVE  SoFar(b, k, y)
<1>1. /\ x + 1 \in Starts
      /\ \A i \in Starts : i <= y <=> i <= x \/ i = x + 1
  BY NextStart
<1>2. Used(o, y) = Used(o, x) \cup {x + 1} /\ \A p : p # o => Used(p, y) = Used(p, x)
  BY <1>1 DEF Used
<1>3. Latest(x + 1, o, y)
  <2>1. \A j \in Used(o, x) : j \in Nat /\ j <= x
    <3>1. Starts \subseteq 1..Len(mARGV)
      BY StartsClosed, ArgvWords
    <3> QED BY <3>1 DEF Used
  <2> QED BY <2>1, <1>2 DEF Latest
<1>4. ASSUME NEW p \in Valued PROVE ValueSoFar(b, k, p, y)
  <2>1. CASE p = o
    BY <2>1, <1>3, <1>4 DEF ValueSoFar
  <2>2. CASE p # o
    <3>1. SameOf(p, a, l, b, k) /\ ValueSoFar(a, l, p, x)
      BY <2>2 DEF SoFar
    <3>2. Used(p, y) = Used(p, x)
      BY <2>2, <1>2
    <3>3. \A i : Latest(i, p, x) <=> Latest(i, p, y)
      BY <3>2 DEF Latest
    <3> QED BY <3>1, <3>2, <3>3, HeldStays DEF ValueSoFar
  <2> QED BY <2>1, <2>2
<1>5. b.flags = Defaults.flags \cup {p \in Flags : Used(p, y) # {}}
  <2>1. {p \in Flags : Used(p, y) # {}} = {p \in Flags : Used(p, x) # {}} \cup (Flags \cap {o})
    BY <1>2
  <2>2. a.flags = Defaults.flags \cup {p \in Flags : Used(p, x) # {}}
    BY DEF SoFar
  <2> QED BY <2>1, <2>2
<1>6. b.hasPskc = (Used("--pskc-bin", y) # {})
  <2>1. a.hasPskc = (Used("--pskc-bin", x) # {})
    BY DEF SoFar
  <2>2. (Used("--pskc-bin", y) # {}) <=> (Used("--pskc-bin", x) # {}) \/ o = "--pskc-bin"
    BY <1>2
  <2> QED BY <2>1, <2>2
<1> QED BY <1>4, <1>5, <1>6 DEF SoFar

-----------------------------------------------------------------------------
(* The record of the arguments. *)

Shape(a) ==
  /\ a = [text |-> a.text, bin |-> a.bin, num |-> a.num, flags |-> a.flags, hasPskc |-> a.hasPskc]
  /\ a.text = [o \in TextOptions |-> a.text[o]]
  /\ a.bin = [o \in DOMAIN HexLen |-> a.bin[o]]
  /\ a.num = [o \in DOMAIN NumRange |-> a.num[o]]
  /\ a.hasPskc \in BOOLEAN

SizeOf(o) == IF o \in DOMAIN StrSize THEN StrSize[o]
             ELSE IF o \in DOMAIN HexLen THEN 2 * HexLen[o] + 1 ELSE kPSKdLength + 1

Fits(w, o) == w # Null /\ w.len < SizeOf(o)

Room(a) ==
  /\ \A o \in TextOptions : Fits(a.text[o], o)
  /\ \A o \in DOMAIN HexLen : DOMAIN a.bin[o] = 1..HexLen[o]

\* What setting one option changes of the arguments, and what it leaves alone: a
\* text, a binary, the PSKc, a flag and a number.
LEMMA TextSet ==
  ASSUME NEW a, Shape(a), Room(a), NEW o \in TextOptions, NEW w, Fits(w, o)
  PROVE  LET b == [a EXCEPT !.text[o] = w]
         IN /\ Shape(b) /\ Room(b) /\ b.text[o] = w /\ \A p \in TextOptions : p # o => b.text[p] = a.text[p]
            /\ b.bin = a.bin /\ b.num = a.num /\ b.flags = a.flags /\ b.hasPskc = a.hasPskc
<1> DEFINE b == [a EXCEPT !.text[o] = w]
<1>1. b = [text |-> [a.text EXCEPT ![o] = w], bin |-> a.bin, num |-> a.num, flags |-> a.flags,
           hasPskc |-> a.hasPskc]
  BY DEF Shape
<1> HIDE DEF b
<1>2. b.text[o] = w /\ \A p \in TextOptions : p # o => b.text[p] = a.text[p]
  BY <1>1 DEF Shape
<1>3. b.text = [p \in TextOptions |-> b.text[p]]
  BY <1>1, <1>2 DEF Shape
<1>4. Shape(b)
  BY <1>1, <1>3 DEF Shape
<1>5. Room(b)
  BY <1>1, <1>2 DEF Room
<1>6. b.bin = a.bin /\ b.num = a.num /\ b.flags = a.flags /\ b.hasPskc = a.hasPskc
  BY <1>1
<1> QED BY <1>2, <1>4, <1>5, <1>6 DEF b

OnlyHex(a, b, o, w, v) ==
  /\ b.text[o] = w /\ \A p \in TextOptions : p # o => b.text[p] = a.text[p]
  /\ b.bin[o] = v /\ \A p \in DOMAIN HexLen : p # o => b.bin[p] = a.bin[p]
  /\ b.num = a.num /\ b.flags = a.flags /\ b.hasPskc = a.hasPskc

LEMMA HexSet ==
  ASSUME NEW a, Shape(a), Room(a), NEW o \in DOMAIN HexLen, NEW w, Fits(w, o), NEW v,
         DOMAIN v = 1..HexLen[o], NEW b, b = [a EXCEPT !.text[o] = w, !.bin[o] = v]
  PROVE  Shape(b) /\ Room(b) /\ OnlyHex(a, b, o, w, v)
<1>1. b = [text |-> [a.text EXCEPT ![o] = w], bin |-> [a.bin EXCEPT ![o] = v], num |-> a.num,
           flags |-> a.flags, hasPskc |-> a.hasPskc]
  <2> DEFINE c == [a EXCEPT !.text[o] = w]
  <2>1. b = [c EXCEPT !.bin[o] = v]
    OBVIOUS
  <2>2. c = [text |-> [a.text EXCEPT ![o] = w], bin |-> a.bin, num |-> a.num, flags |-> a.flags,
             hasPskc |-> a.hasPskc]
    BY DEF Shape
  <2> HIDE DEF c
  <2> QED BY <2>1, <2>2
<1>0. o \in TextOptions
  BY DEF TextOptions
<1>2. b.text[o] = w /\ \A p \in TextOptions : p # o => b.text[p] = a.text[p]
  BY <1>0, <1>1 DEF Shape
<1>3. b.text = [p \in TextOptions |-> b.text[p]]
  BY <1>1, <1>2 DEF Shape
<1>4. b.bin[o] = v /\ \A p \in DOMAIN HexLen : p # o => b.bin[p] = a.bin[p]
  BY <1>1 DEF Shape
<1>5. b.bin = [p \in DOMAIN HexLen |-> b.bin[p]]
  BY <1>1, <1>4 DEF Shape
<1>6. Shape(b)
  BY <1>1, <1>3, <1>5 DEF Shape
<1>7. Room(b)
  BY <1>2, <1>4 DEF Room
<1>8. b.num = a.num /\ b.flags = a.flags /\ b.hasPskc = a.hasPskc
  BY <1>1
<1> QED BY <1>2, <1>4, <1>6, <1>7, <1>8 DEF OnlyHex

LEMMA PskcSet ==
  ASSUME NEW a, Shape(a), Room(a), NEW h \in BOOLEAN
  PROVE  LET b == [a EXCEPT !.hasPskc = h]
         IN /\ Shape(b) /\ Room(b) /\ b.hasPskc = h
            /\ b.text = a.text /\ b.bin = a.bin /\ b.num = a.num /\ b.flags = a.flags
<1> DEFINE b == [a EXCEPT !.hasPskc = h]
<1>1. b = [text |-> a.text, bin |-> a.bin, num |-> a.num, flags |-> a.flags, hasPskc |-> h]
  BY DEF Shape
<1> HIDE DEF b
<1>2. /\ b.hasPskc = h
      /\ b.text = a.text /\ b.bin = a.bin /\ b.num = a.num /\ b.flags = a.flags
  BY <1>1
<1>3. Shape(b) /\ Room(b)
  BY <1>1, <1>2 DEF Shape, Room
<1> QED BY <1>2, <1>3 DEF b

LEMMA FlagSet ==
  ASSUME NEW a, Shape(a), Room(a), NEW f
  PROVE  LET b == [a EXCEPT !.flags = f]
         IN /\ Shape(b) /\ Room(b) /\ b.flags = f
            /\ b.text = a.text /\ b.bin = a.bin /\ b.num = a.num /\ b.hasPskc = a.hasPskc
<1> DEFINE b == [a EXCEPT !.flags = f]
<1>1. b = [text |-> a.text, bin |-> a.bin, num |-> a.num, flags |-> f, hasPskc |-> a.hasPskc]
  BY DEF Shape
<1> HIDE DEF b
<1>2. /\ b.flags = f
      /\ b.text = a.text /\ b.bin = a.bin /\ b.num = a.num /\ b.hasPskc = a.hasPskc
  BY <1>1
<1>3. Shape(b) /\ Room(b)
  BY <1>1, <1>2 DEF Shape, Room
<1> QED BY <1>2, <1>3 DEF b

OnlyNum(a, b, o, n) ==
  /\ b.num[o] = n /\ \A p \in DOMAIN NumRange : p # o => b.num[p] = a.num[p]
  /\ b.text = a.text /\ b.bin = a.bin /\ b.flags = a.flags /\ b.hasPskc = a.hasPskc

LEMMA NumSet ==
  ASSUME NEW a, Shape(a), Room(a), NEW o \in DOMAIN NumRange, NEW n, NEW b,
         b = [a EXCEPT !.num[o] = n]
  PROVE  Shape(b) /\ Room(b) /\ OnlyNum(a, b, o, n)
<1>1. b = [text |-> a.text, bin |-> a.bin, num |-> [a.num EXCEPT ![o] = n], flags |-> a.flags,
           hasPskc |-> a.hasPskc]
  BY DEF Shape
<1>2. b.num[o] = n /\ \A p \in DOMAIN NumRange : p # o => b.num[p] = a.num[p]
  BY <1>1 DEF Shape
<1>3. b.num = [p \in DOMAIN NumRange |-> b.num[p]]
  BY <1>1, <1>2 DEF Shape
<1>4. b.text = a.text /\ b.bin = a.bin /\ b.flags = a.flags /\ b.hasPskc = a.hasPskc
  BY <1>1
<1>5. Shape(b) /\ Room(b)
  BY <1>1, <1>3, <1>4 DEF Shape, Room
<1> QED BY <1>2, <1>4, <1>5 DEF OnlyNum

-----------------------------------------------------------------------------

\* As far as the command line is read, its options are acceptable, and the
\* arguments are those of their last uses.
ParserInv ==
  /\ mARGV \in Argvs /\ mARGx \in 0..Len(mARGV)
  /\ Shape(args) /\ Room(args)
  /\ outcome \in {"parsing", "done", "error"}
  /\ outcome # "error" =>
       /\ Parsed(mARGx) /\ \A i \in Starts : i <= mARGx => Acceptable(i)
       /\ SoFar(args, logLevel, mARGx)
  /\ outcome = "done" => mARGx = Len(mARGV)
  /\ outcome = "error" => mARGV = <<>> \/ \E i \in Starts : ~Acceptable(i)

\* The words do not change while they are parsed.
LEMMA SameWords ==
  ASSUME mARGV' = mARGV
  PROVE  /\ Starts' = Starts
         /\ \A i : Acceptable(i)' <=> Acceptable(i)
         /\ Parsed(mARGx)' <=> Parsed(mARGx')
         /\ SoFar(args, logLevel, mARGx)' <=> SoFar(args', logLevel', mARGx')
<1>1. Starts' = Starts
  BY DEF Starts, Closed, Arity
<1>2. \A i : Acceptable(i)' <=> Acceptable(i)
  BY DEF Acceptable, IsHex
<1>3. Parsed(mARGx)' <=> Parsed(mARGx')
  BY <1>1 DEF Parsed, Arity
<1>4. \A o : Used(o, mARGx)' = Used(o, mARGx')
  BY <1>1 DEF Used
<1>5. \A i, o : Latest(i, o, mARGx)' <=> Latest(i, o, mARGx')
  BY <1>4 DEF Latest
<1>6. \A o : ValueSoFar(args, logLevel, o, mARGx)' <=> ValueSoFar(args', logLevel', o, mARGx')
  BY <1>4, <1>5 DEF ValueSoFar, Holds, HoldsDefault
<1>7. SoFar(args, logLevel, mARGx)' <=> SoFar(args', logLevel', mARGx')
  BY <1>4, <1>6 DEF SoFar
<1> QED BY <1>1, <1>2, <1>3, <1>7

\* The defaults that CommissionerArgs has before any word is read.
LEMMA ParserInitHolds == Init => ParserInv
<1> SUFFICES ASSUME Init PROVE ParserInv
  OBVIOUS
<1>1. mARGV \in Argvs /\ Len(mARGV) \in Nat /\ DOMAIN mARGV = 1..Len(mARGV) /\ mARGx = 0
  BY ArgvWords DEF Init
<1>2. Starts \subseteq 1..Len(mARGV) /\ (1 \in 1..Len(mARGV) => 1 \in Starts)
  BY <1>1, StartsClosed DEF Closed
<1>3. \A i \in Starts : ~(i <= 0)
  BY <1>2
<1>4. Parsed(0)
  BY <1>1, <1>2, <1>3 DEF Parsed
<1>5. \A o : Used(o, 0) = {}
  BY <1>3 DEF Used
<1>6. Shape(Defaults) /\ Room(Defaults)
  <2>1. /\ Defaults.text = [o \in TextOptions |-> NoWord]
        /\ Defaults.bin = [o \in DOMAIN HexLen |-> [i \in 1..HexLen[o] |-> Junk]]
        /\ Defaults.num = [o \in DOMAIN NumRange |-> Defaults.num[o]]
    <3>1. Defaults.text = [o \in TextOptions |-> NoWord]
      BY DEF Defaults, TextOptions
    <3>2. Defaults.bin = [o \in DOMAIN HexLen |-> [i \in 1..HexLen[o] |-> Junk]]
      BY DEF Defaults
    <3>3. Defaults.num = [o \in DOMAIN NumRange |-> Defaults.num[o]]
      <4> DEFINE E(o) == CASE o = "--steering-length" -> 15 [] o = "--comm-ka-rate" -> 15
                           [] o = "--comm-envelope-timeout" -> 300
      <4>1. Defaults.num = [o \in DOMAIN NumRange |-> E(o)]
        BY DEF Defaults
      <4> HIDE DEF E
      <4> QED BY <4>1
    <3> QED BY <3>1, <3>2, <3>3
  <2>2. Shape(Defaults)
    <3>1. Defaults = [text |-> Defaults.text, bin |-> Defaults.bin, num |-> Defaults.num,
                      flags |-> Defaults.flags, hasPskc |-> Defaults.hasPskc]
      BY DEF Defaults
    <3>2. Defaults.hasPskc = FALSE
      BY DEF Defaults
    <3> QED BY <2>1, <3>1, <3>2 DEF Shape
  <2>3. NoWord # Null /\ NoWord.len = 0
    BY DEF NoWord, Null
  <2>4. \A o \in TextOptions : SizeOf(o) \in Nat /\ SizeOf(o) > 0
    <3>1. \A o \in DOMAIN StrSize : StrSize[o] \in Nat /\ StrSize[o] > 0
      BY DEF StrSize
    <3> QED BY <3>1, Sizes DEF SizeOf, kPSKdLength
  <2>5. Room(Defaults)
    BY <2>1, <2>3, <2>4 DEF Room, Fits
  <2> QED BY <2>2, <2>5
<1>7. SoFar(Defaults, OTBR_LOG_INFO, 0)
  <2>1. \A o : o \in TextOptions => Defaults.text[o] = NoWord
    BY DEF Defaults, TextOptions
  <2>2. \A o \in Valued : ValueSoFar(Defaults, OTBR_LOG_INFO, o, 0)
    BY <1>5, <2>1 DEF ValueSoFar, HoldsDefault
  <2>3. Defaults.hasPskc = FALSE
    BY DEF Defaults
  <2> QED BY <1>5, <2>2, <2>3 DEF SoFar
<1>8. outcome = IF mARGV = <<>> THEN "error" ELSE "parsing"
  BY DEF Init
<1>9. args = Defaults /\ logLevel = OTBR_LOG_INFO
  BY DEF Init
<1> QED BY <1>1, <1>3, <1>4, <1>6, <1>7, <1>8, <1>9 DEF ParserInv

\* A step that ends with an error, and one that goes on to the next option, keep
\* the invariant if they do to the arguments what the option asks.
LEMMA RejectedKeeps ==
  ASSUME ParserInv, outcome = "parsing", mARGx < Len(mARGV), ~Acceptable(mARGx + 1),
         Ends("error"), Shape(args'), Room(args')
  PROVE  ParserInv'
<1>1. mARGV' = mARGV /\ mARGx' = mARGx + 1 /\ outcome' = "error"
  BY DEF Ends
<1>2. mARGV \in Argvs /\ Len(mARGV) \in Nat /\ mARGx \in Nat /\ Parsed(mARGx)
  BY ArgvWords DEF ParserInv
<1>3. mARGx + 1 \in Starts
  BY <1>2, ArgvWords DEF Parsed
<1>4. \E i \in Starts' : ~Acceptable(i)'
  BY <1>1, <1>3, SameWords
<1>5. (mARGx \in 0..Len(mARGV))'
  BY <1>1, <1>2
<1>6. Shape(args)' /\ Room(args)'
  BY DEF Shape, Room, Fits, SizeOf
<1> QED BY <1>1, <1>2, <1>4, <1>5, <1>6 DEF ParserInv

LEMMA AcceptedKeeps ==
  ASSUME ParserInv, outcome = "parsing", mARGx < Len(mARGV), Acceptable(mARGx + 1),
         Continues(Arity(mARGV[mARGx + 1])), Shape(args'), Room(args'),
         Option \in Valued => Holds(args', logLevel', Option, mARGV[(mARGx + 1) + 1]),
         \A p \in Valued : p # Option => SameOf(p, args, logLevel, args', logLevel'),
         args'.flags = args.flags \cup (Flags \cap {Option}),
         args'.hasPskc = (args.hasPskc \/ Option = "--pskc-bin")
  PROVE  ParserInv'
<1> DEFINE x == mARGx  y == mARGx + Arity(mARGV[mARGx + 1])
<1>1. mARGV' = mARGV /\ mARGx' = y /\ outcome' = outcome
  BY DEF Continues
<1>2. mARGV \in Argvs /\ Len(mARGV) \in Nat /\ x \in Nat /\ Parsed(x) /\ SoFar(args, logLevel, x)
      /\ \A i \in Starts : i <= x => Acceptable(i)
  BY ArgvWords DEF ParserInv
<1>3. Option = mARGV[x + 1].name
  BY DEF Option
<1>4. SoFar(args', logLevel', y)
  BY <1>2, <1>3, OneMore
<1>5. /\ y \in Nat /\ Parsed(y)
      /\ \A i \in Starts : i <= y <=> i <= x \/ i = x + 1
  BY <1>2, NextStart
<1>6. y <= Len(mARGV)
  <2>1. CASE Option \in Flags
    <3>1. Arity(mARGV[x + 1]) = 1
      BY <2>1, <1>3 DEF Arity
    <3> QED BY <3>1, <1>2
  <2>2. CASE Option \notin Flags
    <3>1. Arity(mARGV[x + 1]) = 2 /\ x + 1 < Len(mARGV)
      BY <2>2, <1>3 DEF Arity, Acceptable
    <3> QED BY <3>1, <1>2
  <2> QED BY <2>1, <2>2
<1>7. \A i \in Starts : i <= y => Acceptable(i)
  BY <1>2, <1>5
<1> HIDE DEF x, y
<1>8. Parsed(mARGx)' /\ SoFar(args, logLevel, mARGx)'
  BY <1>1, <1>4, <1>5, SameWords
<1>9. (\A i \in Starts : i <= mARGx => Acceptable(i))'
  BY <1>1, <1>7, SameWords
<1>10. Shape(args)' /\ Room(args)'
  BY DEF Shape, Room, Fits, SizeOf
<1>11. (mARGx \in 0..Len(mARGV))'
  BY <1>1, <1>2, <1>5, <1>6
<1> QED BY <1>1, <1>2, <1>8, <1>9, <1>10, <1>11 DEF ParserInv

\* The handlers of main, one by one.
LEMMA StrKeeps ==
  ASSUME ParserInv, outcome = "parsing", mARGx < Len(mARGV), HandleStr PROVE ParserInv'
<1> DEFINE o == Option
<1>1. o \in DOMAIN StrSize /\ mARGV \in Argvs /\ mARGx \in Nat /\ Shape(args) /\ Room(args)
  BY ArgvWords DEF HandleStr, ParserInv
<1>2. CASE StrParam(StrSize[o])
  <2>1. /\ Continues(2) /\ args' = [args EXCEPT !.text[o] = Value] /\ logLevel' = logLevel
    BY <1>1, <1>2 DEF HandleStr
  <2>2. Acceptable(mARGx + 1)
    BY <1>1, <1>2, StrAccepted
  <2>3. /\ o \in TextOptions /\ o \notin DOMAIN HexLen \cup DOMAIN NumRange \cup Flags
        /\ o # "--debug-level" /\ o # "--pskc-bin"
    BY <1>1, OptionNames, OptionsApart DEF TextOptions
  <2>4. Arity(mARGV[mARGx + 1]) = 2
    BY <2>3 DEF Arity, Option
  <2>5. Value = mARGV[(mARGx + 1) + 1] /\ Fits(Value, o)
    <3>1. ~Missing /\ Value.len + 1 <= StrSize[o] /\ StrSize[o] \in Nat
      BY <1>1, <1>2, Sizes DEF StrParam
    <3>2. Value = mARGV[(mARGx + 1) + 1] /\ IsWord(Value) /\ Value.len \in Nat
      BY <1>1, <3>1, WordAt
    <3> QED BY <1>1, <3>1, <3>2 DEF Fits, SizeOf, IsWord
  <2>6. /\ Shape(args') /\ Room(args')
        /\ args'.text[o] = Value /\ \A p \in TextOptions : p # o => args'.text[p] = args.text[p]
        /\ args'.bin = args.bin /\ args'.num = args.num /\ args'.flags = args.flags
        /\ args'.hasPskc = args.hasPskc
    BY <1>1, <2>1, <2>3, <2>5, TextSet
  <2> HIDE DEF o
  <2>7. Holds(args', logLevel', o, mARGV[(mARGx + 1) + 1])
    BY <2>3, <2>5, <2>6 DEF Holds
  <2>8. \A p \in Valued : p # o => SameOf(p, args, logLevel, args', logLevel')
    BY <2>1, <2>6 DEF SameOf
  <2>9. /\ Continues(Arity(mARGV[mARGx + 1]))
        /\ args'.flags = args.flags \cup (Flags \cap {o})
        /\ args'.hasPskc = (args.hasPskc \/ o = "--pskc-bin")
    BY <1>1, <2>1, <2>3, <2>4, <2>6 DEF Shape
  <2> QED BY <2>2, <2>6, <2>7, <2>8, <2>9, AcceptedKeeps DEF o
<1>3. CASE ~StrParam(StrSize[o])
  <2>1. Ends("error") /\ args' = args
    BY <1>1, <1>3 DEF HandleStr, Rejects
  <2>2. ~Acceptable(mARGx + 1)
    BY <1>1, <1>3, StrAccepted
  <2> QED BY <1>1, <2>1, <2>2, RejectedKeeps
<1> QED BY <1>2, <1>3

LEMMA PskdKeeps ==
  ASSUME ParserInv, outcome = "parsing", mARGx < Len(mARGV), HandlePskd PROVE ParserInv'
<1> DEFINE o == Option
<1>1. o = "--joiner-passphrase" /\ mARGV \in Argvs /\ mARGx \in Nat /\ Shape(args) /\ Room(args)
  BY ArgvWords DEF HandlePskd, ParserInv
<1>2. CASE StrParam(kPSKdLength + 1) /\ Value.len \in 6..32 /\ Value.pskd
  <2>1. /\ Continues(2) /\ args' = [args EXCEPT !.text[o] = Value] /\ logLevel' = logLevel
    BY <1>1, <1>2 DEF HandlePskd
  <2>2. Acceptable(mARGx + 1)
    BY <1>1, <1>2, PskdAccepted
  <2>3. /\ o \in TextOptions /\ o \notin DOMAIN HexLen \cup DOMAIN NumRange \cup Flags \cup DOMAIN StrSize
        /\ o # "--debug-level" /\ o # "--pskc-bin"
    BY <1>1, OptionNames, OptionsApart DEF TextOptions
  <2>4. Arity(mARGV[mARGx + 1]) = 2
    BY <2>3 DEF Arity, Option
  <2>5. Value = mARGV[(mARGx + 1) + 1] /\ Fits(Value, o)
    <3>1. ~Missing /\ Value.len + 1 <= kPSKdLength + 1 /\ kPSKdLength = 32
      BY <1>2 DEF StrParam, kPSKdLength
    <3>2. Value = mARGV[(mARGx + 1) + 1] /\ IsWord(Value) /\ Value.len \in Nat
      BY <1>1, <3>1, WordAt
    <3>3. SizeOf(o) = kPSKdLength + 1
      BY <2>3 DEF SizeOf
    <3>4. Value # Null
      BY <3>2 DEF IsWord
    <3> HIDE DEF o
    <3> QED BY <3>1, <3>2, <3>3, <3>4 DEF Fits
  <2>6. /\ Shape(args') /\ Room(args')
        /\ args'.text[o] = Value /\ \A p \in TextOptions : p # o => args'.text[p] = args.text[p]
        /\ args'.bin = args.bin /\ args'.num = args.num /\ args'.flags = args.flags
        /\ args'.hasPskc = args.hasPskc
    BY <1>1, <2>1, <2>3, <2>5, TextSet
  <2> HIDE DEF o
  <2>7. Holds(args', logLevel', o, mARGV[(mARGx + 1) + 1])
    BY <2>3, <2>5, <2>6 DEF Holds
  <2>8. \A p \in Valued : p # o => SameOf(p, args, logLevel, args', logLevel')
    BY <2>1, <2>6 DEF SameOf
  <2>9. /\ Continues(Arity(mARGV[mARGx + 1]))
        /\ args'.flags = args.flags \cup (Flags \cap {o})
        /\ args'.hasPskc = (args.hasPskc \/ o = "--pskc-bin")
    BY <1>1, <2>1, <2>3, <2>4, <2>6 DEF Shape
  <2> QED BY <2>2, <2>6, <2>7, <2>8, <2>9, AcceptedKeeps DEF o
<1>3. CASE ~(StrParam(kPSKdLength + 1) /\ Value.len \in 6..32 /\ Value.pskd)
  <2>1. Ends("error") /\ args' = args
    BY <1>1, <1>3 DEF HandlePskd, Rejects
  <2>2. ~Acceptable(mARGx + 1)
    BY <1>1, <1>3, PskdAccepted
  <2> QED BY <1>1, <2>1, <2>2, RejectedKeeps
<1> QED BY <1>2, <1>3

LEMMA NumKeeps ==
  ASSUME ParserInv, outcome = "parsing", mARGx < Len(mARGV), HandleNum PROVE ParserInv'
<1> DEFINE o == Option
<1>1. o \in DOMAIN NumRange /\ mARGV \in Argvs /\ mARGx \in Nat /\ Shape(args) /\ Room(args)
  BY ArgvWords DEF HandleNum, ParserInv
<1>2. CASE NumParam # -1 /\ NumParam \in NumRange[o]
  <2>1. /\ Continues(2) /\ args' = [args EXCEPT !.num[o] = NumParam] /\ logLevel' = logLevel
    BY <1>1, <1>2 DEF HandleNum
  <2>2. Acceptable(mARGx + 1)
    BY <1>1, <1>2, NumAccepted
  <2>3. /\ o \notin TextOptions \cup DOMAIN HexLen \cup Flags
        /\ o # "--debug-level" /\ o # "--pskc-bin"
    BY <1>1, OptionNames, OptionsApart DEF TextOptions
  <2>4. Arity(mARGV[mARGx + 1]) = 2
    BY <2>3 DEF Arity, Option
  <2>5. Value = mARGV[(mARGx + 1) + 1] /\ Value.number = {NumParam}
    <3>1. StrParam(NumSize) /\ Value.number # NaN
      BY <1>1, <1>2, NumberRead
    <3> QED BY <1>1, <1>2, <3>1, WordAt, NumberRead DEF StrParam
  <2>6. /\ Shape(args') /\ Room(args')
        /\ args'.num[o] = NumParam /\ \A p \in DOMAIN NumRange : p # o => args'.num[p] = args.num[p]
        /\ args'.text = args.text /\ args'.bin = args.bin /\ args'.flags = args.flags
        /\ args'.hasPskc = args.hasPskc
    <3>1. Shape(args') /\ Room(args') /\ OnlyNum(args, args', o, NumParam)
      BY <1>1, <2>1, NumSet
    <3> QED BY <3>1 DEF OnlyNum
  <2> HIDE DEF o
  <2>7. Holds(args', logLevel', o, mARGV[(mARGx + 1) + 1])
    BY <2>3, <2>5, <2>6 DEF Holds
  <2>8. \A p \in Valued : p # o => SameOf(p, args, logLevel, args', logLevel')
    BY <2>1, <2>6 DEF SameOf
  <2>9. /\ Continues(Arity(mARGV[mARGx + 1]))
        /\ args'.flags = args.flags \cup (Flags \cap {o})
        /\ args'.hasPskc = (args.hasPskc \/ o = "--pskc-bin")
    BY <1>1, <2>1, <2>3, <2>4, <2>6 DEF Shape
  <2> QED BY <2>2, <2>6, <2>7, <2>8, <2>9, AcceptedKeeps DEF o
<1>3. CASE ~(NumParam # -1 /\ NumParam \in NumRange[o])
  <2>1. Ends("error") /\ args' = args
    BY <1>1, <1>3 DEF HandleNum, Rejects
  <2>2. ~Acceptable(mARGx + 1)
    BY <1>1, <1>3, NumAccepted
  <2> QED BY <1>1, <2>1, <2>2, RejectedKeeps
<1> QED BY <1>2, <1>3

LEMMA DebugLevelKeeps ==
  ASSUME ParserInv, outcome = "parsing", mARGx < Len(mARGV), HandleDebugLevel PROVE ParserInv'
<1> DEFINE o == Option
<1>1. o = "--debug-level" /\ mARGV \in Argvs /\ mARGx \in Nat /\ Shape(args) /\ Room(args)
  BY ArgvWords DEF HandleDebugLevel, ParserInv
<1>2. CASE NumParam >= OTBR_LOG_EMERG
  <2>1. Continues(2) /\ args' = args /\ logLevel' = AtMostDebug(NumParam)
    BY <1>1, <1>2 DEF HandleDebugLevel, AtMostDebug
  <2>2. Acceptable(mARGx + 1)
    BY <1>1, <1>2, NumAccepted
  <2>3. o \notin TextOptions \cup DOMAIN HexLen \cup DOMAIN NumRange \cup Flags /\ o # "--pskc-bin"
    BY <1>1, OptionNames, OptionsApart DEF TextOptions
  <2>4. Arity(mARGV[mARGx + 1]) = 2
    BY <2>3 DEF Arity, Option
  <2>5. Value = mARGV[(mARGx + 1) + 1] /\ Value.number = {NumParam}
    <3>1. NumParam # -1
      BY <1>2 DEF OTBR_LOG_EMERG
    <3>2. StrParam(NumSize) /\ Value.number # NaN
      BY <1>1, <3>1, NumberRead
    <3> QED BY <1>1, <3>2, WordAt, NumberRead DEF StrParam
  <2>6. Shape(args') /\ Room(args')
    BY <1>1, <2>1
  <2> HIDE DEF o
  <2>7. Holds(args', logLevel', o, mARGV[(mARGx + 1) + 1])
    <3>1. {AtMostDebug(v) : v \in Value.number} = {AtMostDebug(NumParam)}
      BY <2>5
    <3> QED BY <2>1, <2>3, <2>5, <3>1 DEF Holds
  <2>8. \A p \in Valued : p # o => SameOf(p, args, logLevel, args', logLevel')
    BY <1>1, <2>1 DEF SameOf
  <2>9. /\ Continues(Arity(mARGV[mARGx + 1]))
        /\ args'.flags = args.flags \cup (Flags \cap {o})
        /\ args'.hasPskc = (args.hasPskc \/ o = "--pskc-bin")
    BY <1>1, <2>1, <2>3, <2>4 DEF Shape
  <2> QED BY <2>2, <2>6, <2>7, <2>8, <2>9, AcceptedKeeps DEF o
<1>3. CASE ~(NumParam >= OTBR_LOG_EMERG)
  <2>1. Ends("error") /\ args' = args
    BY <1>1, <1>3 DEF HandleDebugLevel, Rejects
  <2>2. ~Acceptable(mARGx + 1)
    BY <1>1, <1>3, NumAccepted
  <2> QED BY <1>1, <2>1, <2>2, RejectedKeeps
<1> QED BY <1>2, <1>3

LEMMA FlagKeeps ==
  ASSUME ParserInv, outcome = "parsing", mARGx < Len(mARGV), HandleFlag PROVE ParserInv'
<1> DEFINE o == Option
<1>1. /\ o \in Flags /\ mARGV \in Argvs /\ mARGx \in Nat /\ Shape(args) /\ Room(args)
      /\ Continues(1) /\ args' = [args EXCEPT !.flags = args.flags \cup {o}] /\ logLevel' = logLevel
  BY ArgvWords DEF HandleFlag, ParserInv
<1>2. o \notin Valued /\ o # "--pskc-bin"
  BY <1>1, KnownOptions, OptionNames, OptionsApart
<1>3. Acceptable(mARGx + 1) /\ Arity(mARGV[mARGx + 1]) = 1
  BY <1>1, FlagAccepted DEF Arity, Option
<1>4. /\ Shape(args') /\ Room(args') /\ args'.flags = args.flags \cup {o}
      /\ args'.text = args.text /\ args'.bin = args.bin /\ args'.num = args.num
      /\ args'.hasPskc = args.hasPskc
  BY <1>1, FlagSet
<1>5. \A p \in Valued : p # o => SameOf(p, args, logLevel, args', logLevel')
  BY <1>1, <1>4 DEF SameOf
<1>6. /\ Continues(Arity(mARGV[mARGx + 1]))
      /\ args'.flags = args.flags \cup (Flags \cap {o})
      /\ args'.hasPskc = (args.hasPskc \/ o = "--pskc-bin")
  BY <1>1, <1>2, <1>3, <1>4 DEF Shape
<1> HIDE DEF o
<1> QED BY <1>2, <1>3, <1>4, <1>5, <1>6, AcceptedKeeps DEF o

LEMMA UnknownKeeps ==
  ASSUME ParserInv, outcome = "parsing", mARGx < Len(mARGV), HelpOrUnknown PROVE ParserInv'
<1>1. mARGx \in Nat /\ Shape(args) /\ Room(args) /\ Option \notin Known /\ Ends("error") /\ args' = args
  BY ArgvWords DEF HelpOrUnknown, Rejects, ParserInv
<1>2. ~Acceptable(mARGx + 1)
  BY <1>1, UnknownRejected
<1> QED BY <1>1, <1>2, RejectedKeeps

\* Copying into a buffer does not change its size, and an odd digit is a byte.
LEMMA StoredDomain == \A buffer, bytes : DOMAIN Stored(buffer, bytes) = DOMAIN buffer
  BY DEF Stored

LEMMA HalfLength == \A n \in Nat : (n + (n % 2)) \div 2 = (n + 1) \div 2
  OBVIOUS

\* A value of the length of the buffer leaves nothing of what was in it.
LEMMA StoredWhole ==
  ASSUME NEW buffer, NEW h \in Nat, DOMAIN buffer = 1..h,
         NEW hex \in Seq(0..NoDigit), (Len(hex) + 1) \div 2 = h
  PROVE  Stored(buffer, HexValue(hex)) = HexValue(hex)
<1> DEFINE w == Whole(hex)  v == HexValue(hex)
<1>1. v = [k \in 1..Len(w) \div 2 |-> 16 * w[2 * k - 1] + w[2 * k]]
  BY DEF HexValue, Whole
<1>2. Len(w) \div 2 = h
  <2>1. Len(w) = Len(hex) + (Len(hex) % 2) /\ Len(hex) \in Nat
    BY WholeAt
  <2> QED BY <2>1, HalfLength
<1>3. v = [k \in 1..h |-> v[k]] /\ DOMAIN v = 1..h
  <2> HIDE DEF w
  <2> QED BY <1>1, <1>2
<1> HIDE DEF v
<1>4. Stored(buffer, v) = [k \in 1..h |-> v[k]]
  BY <1>3 DEF Stored
<1> QED BY <1>3, <1>4 DEF v

\* The hexadecimal options: what Hex2Bytes returns is their length if and only if
\* they are acceptable.
LEMMA HexKeeps ==
  ASSUME ParserInv, outcome = "parsing", mARGx < Len(mARGV), HandleHex PROVE ParserInv'
<1> DEFINE o == Option
           h == HexLen[o]
           r == Hex2Bytes(Value.hex, h)
           read == [args EXCEPT !.text[o] = Value, !.bin[o] = Stored(args.bin[o], r.bytes)]
<1>1. o \in DOMAIN HexLen /\ mARGV \in Argvs /\ mARGx \in Nat /\ Shape(args) /\ Room(args)
      /\ args.hasPskc \in BOOLEAN
  BY ArgvWords DEF HandleHex, ParserInv, Shape
<1>2. /\ o \in TextOptions /\ o \notin DOMAIN NumRange \cup Flags \cup DOMAIN StrSize
      /\ o # "--debug-level" /\ h \in {8, 16}
  BY <1>1, OptionNames, OptionsApart, Sizes DEF TextOptions
<1>3. CASE ~StrParam(2 * h + 1)
  <2>1. Ends("error") /\ args' = args
    BY <1>1, <1>3 DEF HandleHex, Rejects
  <2>2. ~Acceptable(mARGx + 1)
    BY <1>1, <1>3, HexAccepted
  <2> QED BY <1>1, <2>1, <2>2, RejectedKeeps
<1>4. ASSUME StrParam(2 * h + 1)
      PROVE  /\ Value = mARGV[(mARGx + 1) + 1] /\ Value.hex \in Seq(0..NoDigit)
             /\ Shape(read) /\ Room(read)
             /\ OnlyHex(args, read, o, Value, Stored(args.bin[o], r.bytes))
  <2>1. ~Missing /\ Value.len + 1 <= 2 * h + 1
    BY <1>4 DEF StrParam
  <2>2. Value = mARGV[(mARGx + 1) + 1] /\ IsWord(Value) /\ Value.hex \in Seq(0..NoDigit)
    BY <1>1, <2>1, WordAt
  <2>3. Fits(Value, o)
    <3>1. SizeOf(o) = 2 * h + 1
      BY <1>1, <1>2 DEF SizeOf
    <3>2. Value # Null /\ Value.len \in Nat
      BY <2>2 DEF IsWord
    <3> HIDE DEF o, h
    <3>3. Value.len < 2 * h + 1
      BY <1>2, <2>1, <3>2
    <3> QED BY <3>1, <3>2, <3>3 DEF Fits
  <2>4. DOMAIN args.bin[o] = 1..h
    BY <1>1 DEF Room
  <2>5. DOMAIN Stored(args.bin[o], r.bytes) = 1..h
    BY <2>4, StoredDomain
  <2> DEFINE v == Stored(args.bin[o], r.bytes)
  <2>6. DOMAIN v = 1..HexLen[o] /\ read = [args EXCEPT !.text[o] = Value, !.bin[o] = v]
    BY <2>5
  <2> HIDE DEF v, read, o
  <2>7. Shape(read) /\ Room(read) /\ OnlyHex(args, read, o, Value, v)
    BY <1>1, <2>3, <2>6, HexSet
  <2> QED BY <2>2, <2>7 DEF v
<1>5. CASE StrParam(2 * h + 1) /\ r.n # h
  <2>1. Ends("error") /\ args' = read
    BY <1>1, <1>5 DEF HandleHex
  <2>2. ~Acceptable(mARGx + 1)
    BY <1>1, <1>5, HexAccepted
  <2>3. Shape(args') /\ Room(args')
    BY <1>4, <1>5, <2>1
  <2> QED BY <2>1, <2>2, <2>3, RejectedKeeps
<1>6. CASE StrParam(2 * h + 1) /\ r.n = h
  <2>1. /\ Continues(2) /\ logLevel' = logLevel
        /\ args' = [read EXCEPT !.hasPskc = read.hasPskc \/ o = "--pskc-bin"]
    BY <1>1, <1>6 DEF HandleHex
  <2>2. Acceptable(mARGx + 1)
    BY <1>1, <1>6, HexAccepted
  <2>3. Arity(mARGV[mARGx + 1]) = 2
    BY <1>2 DEF Arity, Option
  <2>4. Stored(args.bin[o], r.bytes) = HexValue(Value.hex)
    <3>1. r.bytes = HexValue(Value.hex) /\ (Len(Value.hex) + 1) \div 2 = h
      <4>1. Value.hex \in Seq(0..NoDigit) /\ h \in Nat /\ r.n # -1
        BY <1>2, <1>4, <1>6
      <4> QED BY <4>1, <1>6, HexDecoded
    <3>2. Value.hex \in Seq(0..NoDigit)
      BY <1>4, <1>6
    <3>3. DOMAIN args.bin[o] = 1..h
      BY <1>1 DEF Room
    <3>4. h \in Nat
      BY <1>2
    <3> HIDE DEF r, h, o
    <3>5. Stored(args.bin[o], HexValue(Value.hex)) = HexValue(Value.hex)
      BY <3>1, <3>2, <3>3, <3>4, StoredWhole
    <3> QED BY <3>1, <3>5
  <2>5. /\ Value = mARGV[(mARGx + 1) + 1] /\ Shape(read) /\ Room(read)
        /\ OnlyHex(args, read, o, Value, HexValue(Value.hex))
    BY <1>4, <1>6, <2>4
  <2>6. read.hasPskc = args.hasPskc /\ (read.hasPskc \/ o = "--pskc-bin") \in BOOLEAN
    BY <2>5 DEF OnlyHex
  <2> HIDE DEF read, o, r, h
  <2>7. /\ Shape(args') /\ Room(args') /\ args'.hasPskc = (read.hasPskc \/ o = "--pskc-bin")
        /\ args'.text = read.text /\ args'.bin = read.bin /\ args'.num = read.num
        /\ args'.flags = read.flags
    BY <2>1, <2>5, <2>6, PskcSet
  <2>8. /\ args'.text[o] = Value /\ \A p \in TextOptions : p # o => args'.text[p] = args.text[p]
        /\ args'.bin[o] = HexValue(Value.hex)
        /\ \A p \in DOMAIN HexLen : p # o => args'.bin[p] = args.bin[p]
        /\ args'.num = args.num /\ args'.flags = args.flags
    BY <2>5, <2>7 DEF OnlyHex
  <2>9. Holds(args', logLevel', o, mARGV[(mARGx + 1) + 1])
    BY <1>2, <2>5, <2>8 DEF Holds
  <2>10. \A p \in Valued : p # o => SameOf(p, args, logLevel, args', logLevel')
    BY <2>1, <2>8 DEF SameOf
  <2>11. /\ Continues(Arity(mARGV[mARGx + 1]))
         /\ args'.flags = args.flags \cup (Flags \cap {o})
         /\ args'.hasPskc = (args.hasPskc \/ o = "--pskc-bin")
    BY <1>2, <2>1, <2>3, <2>6, <2>7, <2>8
  <2> QED BY <2>2, <2>7, <2>9, <2>10, <2>11, AcceptedKeeps DEF o
<1> QED BY <1>3, <1>5, <1>6

\* Every step of the parser keeps the invariant.
LEMMA ParserStepKeeps == ParserInv /\ [Next]_vars => ParserInv'
<1> SUFFICES ASSUME ParserInv, [Next]_vars PROVE ParserInv'
  OBVIOUS
<1>1. CASE UNCHANGED vars
  <2>1. mARGV' = mARGV /\ mARGx' = mARGx /\ args' = args /\ logLevel' = logLevel /\ outcome' = outcome
    BY <1>1 DEF vars
  <2> QED BY <2>1, SameWords DEF ParserInv, Shape, Room, Fits, SizeOf
<1>2. CASE ParseArgs /\ mARGx >= Len(mARGV)
  <2>1. outcome = "parsing" /\ outcome' = "done" /\ mARGV' = mARGV /\ mARGx' = mARGx /\ args' = args
        /\ logLevel' = logLevel
    BY <1>2 DEF ParseArgs
  <2>2. mARGx = Len(mARGV)
    BY <1>2, ArgvWords DEF ParserInv
  <2> QED BY <2>1, <2>2, SameWords DEF ParserInv, Shape, Room, Fits, SizeOf
<1>3. CASE ParseArgs /\ ~(mARGx >= Len(mARGV))
  <2>1. outcome = "parsing" /\ mARGx < Len(mARGV)
    BY <1>3, ArgvWords DEF ParseArgs, ParserInv
  <2>2. HelpOrUnknown \/ HandleStr \/ HandleHex \/ HandleNum \/ HandlePskd \/ HandleDebugLevel
        \/ HandleFlag
    BY <1>3 DEF ParseArgs
  <2> QED BY <2>1, <2>2, UnknownKeeps, StrKeeps, HexKeeps, NumKeeps, PskdKeeps, DebugLevelKeeps,
             FlagKeeps
<1> QED BY <1>1, <1>2, <1>3 DEF Next

\* At the end of the command line, the uses so far are all the uses.
LEMMA AllUsed ==
  ASSUME mARGV \in Argvs PROVE \A o : Given(o) = Used(o, Len(mARGV))
<1>1. Len(mARGV) \in Nat /\ Starts \subseteq 1..Len(mARGV)
  BY ArgvWords, StartsClosed
<1>2. \A i \in Starts : i <= Len(mARGV)
  BY <1>1
<1> HIDE DEF Starts
<1> QED BY <1>2, Zenon DEF Given, Used

\* ValueOf is the word after the latest use.
LEMMA LatestValue ==
  ASSUME mARGV \in Argvs, NEW o, NEW i, Latest(i, o, Len(mARGV)), i < Len(mARGV)
  PROVE  ValueOf(o) = mARGV[i + 1]
<1>1. Len(mARGV) \in Nat /\ Starts \subseteq 1..Len(mARGV)
  BY ArgvWords, StartsClosed
<1>2. Given(o) = Used(o, Len(mARGV))
  BY AllUsed
<1>3. i \in Given(o) /\ i \in Nat /\ i >= 1 /\ \A j \in Given(o) : j \in Nat /\ j <= i
  <2>1. i \in Given(o) /\ \A j \in Given(o) : j <= i
    BY <1>2 DEF Latest
  <2>2. Given(o) \subseteq 1..Len(mARGV)
    BY <1>1 DEF Given
  <2> QED BY <2>1, <2>2, <1>1
<1> DEFINE After(k) == k - 1 \in Given(o) /\ \A j \in Given(o) : j < k
<1>4. i + 1 \in 2..Len(mARGV) /\ After(i + 1)
  BY <1>1, <1>3
<1>5. \A k \in 2..Len(mARGV) : After(k) => k = i + 1
  <2> SUFFICES ASSUME NEW k \in 2..Len(mARGV), After(k) PROVE k = i + 1
    OBVIOUS
  <2>1. k \in Int /\ k - 1 <= i /\ i < k
    BY <1>1, <1>3
  <2> QED BY <2>1, <1>3
<1>6. (CHOOSE k \in 2..Len(mARGV) : After(k)) = i + 1
  <2> HIDE DEF After
  <2> QED BY <1>4, <1>5
<1> QED BY <1>6 DEF ValueOf

\* What the invariant says of an option when the command line is used up.
LEMMA HeldAtTheEnd ==
  ASSUME ParserInv, outcome = "done", NEW o \in Valued
  PROVE  \/ Given(o) = {} /\ HoldsDefault(args, logLevel, o)
         \/ Given(o) # {} /\ Holds(args, logLevel, o, ValueOf(o))
<1>1. mARGV \in Argvs /\ mARGx = Len(mARGV) /\ SoFar(args, logLevel, mARGx)
  BY DEF ParserInv
<1>2. Len(mARGV) \in Nat /\ Starts \subseteq 1..Len(mARGV)
  BY <1>1, ArgvWords, StartsClosed
<1>3. Given(o) = Used(o, mARGx)
  BY <1>1, AllUsed
<1>4. CASE Used(o, mARGx) = {} /\ HoldsDefault(args, logLevel, o)
  BY <1>3, <1>4
<1>5. ASSUME NEW i, Latest(i, o, mARGx), Holds(args, logLevel, o, mARGV[i + 1])
      PROVE  Given(o) # {} /\ Holds(args, logLevel, o, ValueOf(o))
  <2>1. i \in Starts /\ i <= mARGx /\ mARGV[i].name = o /\ i \in Given(o)
    BY <1>3, <1>5 DEF Latest, Used
  <2>2. Acceptable(i)
    BY <2>1 DEF ParserInv
  <2>3. o \notin Flags
    BY KnownOptions
  <2>4. i < Len(mARGV)
    BY <2>1, <2>2, <2>3 DEF Acceptable
  <2>5. ValueOf(o) = mARGV[i + 1]
    BY <1>1, <1>5, <2>4, LatestValue
  <2> QED BY <1>5, <2>1, <2>5
<1> QED BY <1>1, <1>4, <1>5 DEF SoFar, ValueSoFar

\* The invariant says what the command line means.
LEMMA ParserInvMeans == ParserInv => CommandLineMeant
<1> SUFFICES ASSUME ParserInv PROVE CommandLineMeant
  OBVIOUS
<1>1. Len(mARGV) \in Nat /\ Starts \subseteq 1..Len(mARGV) /\ mARGx \in 0..Len(mARGV)
  BY ArgvWords, StartsClosed DEF ParserInv
<1>2. /\ DOMAIN args.text = TextOptions
      /\ \A o \in TextOptions : args.text[o] # Null /\ args.text[o].len < SizeOf(o)
      /\ \A o \in DOMAIN HexLen : DOMAIN args.bin[o] = 1..HexLen[o]
  BY DEF ParserInv, Shape, Room, Fits
<1>3. StaysInBounds
  <2>1. mARGx <= Len(mARGV)
    BY <1>1
  <2> QED BY <1>2, <2>1 DEF StaysInBounds, SizeOf
<1>4. RejectsNonsense
  <2>1. ASSUME outcome = "done", NEW i \in Starts PROVE Acceptable(i)
    <3>1. mARGx = Len(mARGV) /\ i <= mARGx
      BY <1>1, <2>1 DEF ParserInv
    <3> QED BY <2>1, <3>1 DEF ParserInv
  <2>2. mARGV # <<>> /\ outcome = "error" => \E i \in Starts : ~Acceptable(i)
    BY DEF ParserInv
  <2> QED BY <1>3, <2>1, <2>2 DEF RejectsNonsense
<1>5. ASSUME outcome = "done"
      PROVE  /\ \A o \in DOMAIN args.text :
                  args.text[o] = IF Given(o) = {} THEN NoWord ELSE ValueOf(o)
             /\ \A o \in DOMAIN HexLen :
                  args.bin[o] = IF Given(o) = {} THEN Defaults.bin[o] ELSE HexValue(ValueOf(o).hex)
             /\ \A o \in DOMAIN NumRange :
                  {args.num[o]} = IF Given(o) = {} THEN {Defaults.num[o]} ELSE ValueOf(o).number
             /\ {logLevel} = IF Given("--debug-level") = {} THEN {OTBR_LOG_INFO}
                             ELSE {AtMostDebug(v) : v \in ValueOf("--debug-level").number}
  <2>1. \A o \in Valued : \/ Given(o) = {} /\ HoldsDefault(args, logLevel, o)
                          \/ Given(o) # {} /\ Holds(args, logLevel, o, ValueOf(o))
    BY <1>5, HeldAtTheEnd
  <2>2. TextOptions \subseteq Valued /\ DOMAIN NumRange \subseteq Valued /\ "--debug-level" \in Valued
        /\ DOMAIN HexLen \subseteq TextOptions
    BY DEF Valued, TextOptions
  <2>3. \A o \in TextOptions : args.text[o] = IF Given(o) = {} THEN NoWord ELSE ValueOf(o)
    BY <2>1, <2>2 DEF Holds, HoldsDefault
  <2>4. \A o \in DOMAIN HexLen :
          args.bin[o] = IF Given(o) = {} THEN Defaults.bin[o] ELSE HexValue(ValueOf(o).hex)
    BY <2>1, <2>2 DEF Holds, HoldsDefault
  <2>5. \A o \in DOMAIN NumRange :
          {args.num[o]} = IF Given(o) = {} THEN {Defaults.num[o]} ELSE ValueOf(o).number
    BY <2>1, <2>2 DEF Holds, HoldsDefault
  <2>6. {logLevel} = IF Given("--debug-level") = {} THEN {OTBR_LOG_INFO}
                     ELSE {AtMostDebug(v) : v \in ValueOf("--debug-level").number}
    BY <2>1, <2>2 DEF Holds, HoldsDefault
  <2> QED BY <1>2, <2>3, <2>4, <2>5, <2>6
<1>6. ASSUME outcome = "done"
      PROVE  /\ args.flags = Defaults.flags \cup {o \in Flags : Given(o) # {}}
             /\ args.hasPskc = (Given("--pskc-bin") # {})
  <2>1. mARGx = Len(mARGV) /\ SoFar(args, logLevel, mARGx)
    BY <1>6 DEF ParserInv
  <2>2. \A o : Given(o) = Used(o, mARGx)
    BY <2>1, AllUsed DEF ParserInv
  <2> QED BY <2>1, <2>2 DEF SoFar
<1>7. LastUseCounts
  BY <1>5, <1>6 DEF LastUseCounts, AtMostDebug
<1> QED BY <1>4, <1>7 DEF CommandLineMeant

\* Whatever the command lines: ParseArgs (commissioner_argcargv.cpp) takes one that
\* is not empty if and only if each of its options is acceptable as the usage and
\* the comments have it, stays within argv and its buffers, and leaves each
\* argument with the value that was given last, or the default.
THEOREM CommandLineCorrect == Spec => []CommandLineMeant
<1>1. Init => ParserInv
  BY ParserInitHolds
<1>2. ParserInv /\ [Next]_vars => ParserInv'
  BY ParserStepKeeps
<1>3. ParserInv => CommandLineMeant
  BY ParserInvMeans
<1> QED BY <1>1, <1>2, <1>3, PTL DEF Spec

-----------------------------------------------------------------------------
(* Times that wrap. *)

\* A number as a multiple and a remainder.
LEMMA Remainders ==
  ASSUME NEW M \in Nat, M > 0, NEW a \in Int
  PROVE  \E q \in Int : a = M * q + (a % M) /\ 0 <= a % M /\ a % M < M
  BY SMTT(30)

LEMMA RemainderOf ==
  ASSUME NEW M \in Nat, M > 0, NEW q \in Int, NEW r \in Int, 0 <= r, r < M
  PROVE  (M * q + r) % M = r
  BY SMTT(30)

\* What two times modulo M differ by.
LEMMA WrappedDifference ==
  ASSUME NEW M \in Nat, M > 0, NEW a \in Int, NEW b \in Int
  PROVE  ((a % M) - (b % M)) % M = (a - b) % M
<1>1. PICK q \in Int : a = M * q + (a % M) /\ 0 <= a % M /\ a % M < M
  BY Remainders
<1>2. PICK p \in Int : b = M * p + (b % M) /\ 0 <= b % M /\ b % M < M
  BY Remainders
<1>3. PICK s \in Int : (a - b) = M * s + ((a - b) % M) /\ 0 <= (a - b) % M /\ (a - b) % M < M
  BY Remainders
<1> DEFINE x == a % M  y == b % M  z == (a - b) % M
<1>4. x \in Int /\ y \in Int /\ z \in Int
  OBVIOUS
<1> HIDE DEF x, y, z
<1>5. a = M * q + x /\ b = M * p + y /\ a - b = M * s + z /\ 0 <= z /\ z < M
  BY <1>1, <1>2, <1>3 DEF x, y, z
<1>6. M * q \in Int /\ M * p \in Int /\ M * s \in Int /\ s - q + p \in Int
  OBVIOUS
<1>7. M * (s - q + p) = M * s - M * q + M * p
  OBVIOUS
<1>8. x - y = M * (s - q + p) + z
  BY <1>4, <1>5, <1>6, <1>7
<1>9. (M * (s - q + p) + z) % M = z
  BY <1>4, <1>5, <1>6, RemainderOf
<1> QED BY <1>8, <1>9 DEF x, y, z

\* The signed difference of two wrapped times is how far they are apart, if that
\* is less than half of the clock's period.
LEMMA SignedDifference ==
  ASSUME NEW width, NEW H \in Nat, H > 0, 2^(width - 1) = H, 2^width = 2 * H,
         NEW a \in Int, NEW b \in Int, -H <= a - b, a - b < H
  PROVE  Signed(width, Wrapped(width, a) - Wrapped(width, b)) = a - b
<1> DEFINE M == 2 * H  u == (a - b) % M
<1>1. M \in Nat /\ M > 0
  OBVIOUS
<1>2. ((a % M) - (b % M)) % M = u
  <2> HIDE DEF M
  <2> QED BY <1>1, WrappedDifference
<1>3. Signed(width, Wrapped(width, a) - Wrapped(width, b)) = IF u >= H THEN u - M ELSE u
  BY <1>2 DEF Signed, Wrapped
<1>4. CASE 0 <= a - b
  <2>1. u = M * 0 + (a - b)
    <3> HIDE DEF M
    <3>1. a - b < M
      BY DEF M
    <3>2. (M * 0 + (a - b)) % M = a - b
      BY <1>1, <1>4, <3>1, RemainderOf
    <3>3. M * 0 + (a - b) = a - b
      BY <1>1
    <3> QED BY <3>2, <3>3
  <2> QED BY <2>1, <1>3, <1>1
<1>5. CASE a - b < 0
  <2>1. u = (a - b) + M
    <3>1. 0 <= (a - b) + M /\ (a - b) + M < M /\ (a - b) + M \in Int
      BY <1>5
    <3> HIDE DEF M
    <3>2. (M * (-1) + ((a - b) + M)) % M = (a - b) + M
      BY <1>1, <3>1, RemainderOf
    <3>3. M * (-1) + ((a - b) + M) = a - b
      BY <1>1
    <3> QED BY <3>2, <3>3
  <2> QED BY <2>1, <1>3, <1>1
<1> QED BY <1>4, <1>5

\* The DTLS timer tells which delays are over, whether or not the clock turned
\* over since it was set, if they are shorter than half of the clock's period.
Told(width, now, intermediate, final, elapsed) ==
  GetDelay(width, SetDelay(width, now, intermediate, final), Wrapped(width, now + elapsed))
    = IF final = 0 THEN -1
      ELSE IF elapsed >= final THEN 2 ELSE IF elapsed >= intermediate THEN 1 ELSE 0

TimerTells(width, half) ==
  \A now \in Nat, intermediate \in Nat, final \in Nat, elapsed \in Nat :
    intermediate <= final /\ final < half /\ elapsed <= half
      => Told(width, now, intermediate, final, elapsed)

\* Two of the hypotheses are arithmetic: powers with a variable exponent are not
\* evaluated by the provers.
LEMMA TimerTellsAnyWidth ==
  ASSUME NEW width, NEW H \in Nat, H > 0, 2^(width - 1) = H, 2^width = 2 * H
  PROVE  TimerTells(width, H)
<1>1. ASSUME NEW now \in Nat, NEW intermediate \in Nat, NEW final \in Nat, NEW elapsed \in Nat,
             intermediate <= final, final < H, elapsed <= H
      PROVE  Told(width, now, intermediate, final, elapsed)
  <2> DEFINE later == Wrapped(width, now + elapsed)
             f == Signed(width, Wrapped(width, now + final) - later)
             i == Signed(width, Wrapped(width, now + intermediate) - later)
  <2>1. GetDelay(width, SetDelay(width, now, intermediate, final), later)
          = IF ~(final # 0) THEN -1 ELSE IF f <= 0 THEN 2 ELSE IF i <= 0 THEN 1 ELSE 0
    BY DEF GetDelay, SetDelay
  <2>2. f = (now + final) - (now + elapsed)
    <3>1. -H <= (now + final) - (now + elapsed) /\ (now + final) - (now + elapsed) < H
      BY <1>1
    <3> QED BY <3>1, SignedDifference
  <2>3. i = (now + intermediate) - (now + elapsed)
    <3>1. /\ -H <= (now + intermediate) - (now + elapsed)
          /\ (now + intermediate) - (now + elapsed) < H
      BY <1>1
    <3> QED BY <3>1, SignedDifference
  <2> HIDE DEF f, i, later
  <2>4. (f <= 0 <=> elapsed >= final) /\ (i <= 0 <=> elapsed >= intermediate)
    BY <2>2, <2>3
  <2> QED BY <2>1, <2>4 DEF later, Told
<1> QED BY <1>1, Zenon DEF TimerTells

\* With the 32 bit times of time.hpp, the timer that the DTLS server sets and asks
\* (dtls_mbedtls.cpp) tells at any time of the clock that none, the first or both
\* of its delays have passed, for 2^31 ms after it was set.
THEOREM TimerTells32 == TimerTells(32, 2^31)
<1>1. 2^31 \in Nat /\ 2^31 > 0 /\ 32 - 1 = 31 /\ 2^32 = 2 * 2^31
  OBVIOUS
<1>2. 2^(32 - 1) = 2^31
  OBVIOUS
<1> QED BY <1>1, <1>2, TimerTellsAnyWidth

-----------------------------------------------------------------------------
(* Datagrams through wpantund. *)

IsNumber(u, v) == u \in Seq(0..255) /\ Len(u) = 2 /\ u[2] + 256 * u[1] = v

\* Two bytes hold a number below 2^16.
LEMMA TwoBytes == ASSUME NEW v \in Nat, v < 65536 PROVE IsNumber(UInt16(v), v)
<1>1. v \div 256 \in 0..255 /\ v % 256 \in 0..255 /\ (v % 256) + 256 * (v \div 256) = v
  OBVIOUS
<1> QED BY <1>1 DEF UInt16, IsNumber

\* The elements of a concatenation, by which part they are of.
Joins(u, s, t, m, n) ==
  /\ u \in Seq(0..255) /\ Len(u) = m + n
  /\ \A i \in 1..m : u[i] = s[i]
  /\ \A i \in 1..n : u[m + i] = t[i]

\* Two sequences one after the other, and a part of a sequence.
LEMMA Joined ==
  ASSUME NEW s \in Seq(0..255), NEW t \in Seq(0..255), NEW m \in Nat, NEW n \in Nat,
         Len(s) = m, Len(t) = n, NEW u, u = s \o t
  PROVE  Joins(u, s, t, m, n)
<1>1. /\ u \in Seq(0..255) /\ Len(u) = m + n
      /\ \A i \in 1..m + n : u[i] = IF i <= m THEN s[i] ELSE t[i - m]
  BY ConcatProperties
<1>2. \A i \in 1..m : i \in 1..m + n /\ i <= m
  OBVIOUS
<1>3. \A i \in 1..n : m + i \in 1..m + n /\ ~(m + i <= m) /\ (m + i) - m = i
  OBVIOUS
<1> QED BY <1>1, <1>2, <1>3 DEF Joins

\* A part of a sequence, by its elements.
Within(t, s, m, n) == \A i \in 1..n : s[m + i] = t[i]
IsPart(t, s, first, last) == SubSeq(s, first, last) = t

LEMMA Part ==
  ASSUME NEW s \in Seq(0..255), NEW t \in Seq(0..255), NEW m \in Nat, NEW n \in Nat, Len(t) = n,
         Within(t, s, m, n)
  PROVE  IsPart(t, s, m + 1, m + n)
<1>1. (m + n) - (m + 1) + 1 = n /\ \A i \in 1..n : (m + 1) + i - 1 = m + i
  OBVIOUS
<1>2. SubSeq(s, m + 1, m + n) = [i \in 1..n |-> s[m + i]]
  BY <1>1
<1>3. t = [i \in 1..n |-> t[i]]
  OBVIOUS
<1> QED BY <1>2, <1>3 DEF Within, IsPart

Parts(buf, n, p, q, a, r) ==
  /\ Len(buf) = n + 20
  /\ SubSeq(buf, 1, n) = p /\ SubSeq(buf, n + 3, n + 18) = a
  /\ buf[n + 1] = q[1] /\ buf[n + 2] = q[2] /\ buf[n + 19] = r[1] /\ buf[n + 20] = r[2]

\* A datagram is its packet, port, address and port, where they are read from.
LEMMA DatagramParts ==
  ASSUME NEW p \in Seq(0..255), NEW q \in Seq(0..255), NEW a \in Seq(0..255), NEW r \in Seq(0..255),
         NEW n \in Nat, Len(p) = n, Len(q) = 2, Len(a) = 16, Len(r) = 2,
         NEW buf, buf = ((p \o q) \o a) \o r
  PROVE  Parts(buf, n, p, q, a, r)
<1> DEFINE b == p \o q  c == b \o a
<1>0. b = p \o q /\ c = b \o a /\ buf = c \o r
  OBVIOUS
<1> HIDE DEF b, c
<1>a. n + 2 \in Nat /\ n + 18 \in Nat /\ (n + 2) + 16 = n + 18 /\ (n + 18) + 2 = n + 20
  OBVIOUS
<1>b. Joins(b, p, q, n, 2)
  BY <1>0, Joined
<1>1. /\ b \in Seq(0..255) /\ Len(b) = n + 2
      /\ \A i \in 1..n : b[i] = p[i]
      /\ \A i \in 1..2 : b[n + i] = q[i]
  BY <1>b DEF Joins
<1>c. Joins(c, b, a, n + 2, 16)
  BY <1>0, <1>1, <1>a, Joined
<1>2. /\ c \in Seq(0..255) /\ Len(c) = n + 18
      /\ \A i \in 1..n + 2 : c[i] = b[i]
      /\ \A i \in 1..16 : c[(n + 2) + i] = a[i]
  BY <1>a, <1>c DEF Joins
<1>d. Joins(buf, c, r, n + 18, 2)
  BY <1>0, <1>2, <1>a, Joined
<1>3. /\ buf \in Seq(0..255) /\ Len(buf) = n + 20
      /\ \A i \in 1..n + 18 : buf[i] = c[i]
      /\ \A i \in 1..2 : buf[(n + 18) + i] = r[i]
  BY <1>a, <1>d DEF Joins
<1>4. \A i \in 1..n : buf[i] = p[i]
  <2>1. \A i \in 1..n : i \in 1..n + 2 /\ i \in 1..n + 18
    OBVIOUS
  <2> QED BY <2>1, <1>1, <1>2, <1>3
<1>5. buf[n + 1] = q[1] /\ buf[n + 2] = q[2]
  <2>1. n + 1 \in 1..n + 2 /\ n + 2 \in 1..n + 2 /\ n + 1 \in 1..n + 18 /\ n + 2 \in 1..n + 18
    OBVIOUS
  <2>2. b[n + 1] = q[1] /\ b[n + 2] = q[2]
    BY <1>1
  <2> QED BY <2>1, <2>2, <1>2, <1>3
<1>6. \A i \in 1..16 : buf[(n + 2) + i] = a[i]
  <2>1. \A i \in 1..16 : (n + 2) + i \in 1..n + 18
    OBVIOUS
  <2> QED BY <2>1, <1>2, <1>3
<1>7. buf[n + 19] = r[1] /\ buf[n + 20] = r[2]
  <2>1. buf[(n + 18) + 1] = r[1] /\ buf[(n + 18) + 2] = r[2]
    BY <1>3
  <2>2. (n + 18) + 1 = n + 19 /\ (n + 18) + 2 = n + 20
    OBVIOUS
  <2> QED BY <2>1, <2>2
<1>8. SubSeq(buf, 1, n) = p
  <2>1. Within(p, buf, 0, n)
    BY <1>4 DEF Within
  <2>2. IsPart(p, buf, 0 + 1, 0 + n)
    BY <1>3, <2>1, Part
  <2>3. 0 + 1 = 1 /\ 0 + n = n
    OBVIOUS
  <2> QED BY <2>2, <2>3 DEF IsPart
<1>9. SubSeq(buf, n + 3, n + 18) = a
  <2>1. n + 2 \in Nat /\ (n + 2) + 1 = n + 3 /\ (n + 2) + 16 = n + 18
    OBVIOUS
  <2>2. Within(a, buf, n + 2, 16)
    BY <1>6 DEF Within
  <2>3. IsPart(a, buf, (n + 2) + 1, (n + 2) + 16)
    BY <1>3, <2>1, <2>2, Part
  <2> QED BY <2>1, <2>3 DEF IsPart
<1> QED BY <1>3, <1>5, <1>7, <1>8, <1>9 DEF Parts

Packed(p, q, a, r) == ((p \o q) \o a) \o r

ReadAs(buf, sockPort, peerAddr, peerPort, packet) ==
  UdpProxyStream(buf)
    = [sockPort |-> sockPort, peerAddr |-> peerAddr, peerPort |-> peerPort, packet |-> packet]

LEMMA DatagramRead ==
  ASSUME NEW p \in Seq(0..255), NEW q, NEW a \in Seq(0..255), NEW r, Len(a) = 16,
         NEW port, NEW sockPort, IsNumber(q, port), IsNumber(r, sockPort),
         NEW buf, buf = Packed(p, q, a, r)
  PROVE  ReadAs(buf, sockPort, a, port, p)
<1>1. /\ q \in Seq(0..255) /\ Len(q) = 2 /\ q[2] + 256 * q[1] = port
      /\ r \in Seq(0..255) /\ Len(r) = 2 /\ r[2] + 256 * r[1] = sockPort
  BY DEF IsNumber
<1>2. PICK n \in Nat : Len(p) = n
  OBVIOUS
<1>3. Parts(buf, n, p, q, a, r)
  BY <1>1, <1>2, DatagramParts DEF Packed
<1>4. PICK m \in Nat : m = Len(buf) /\ m = n + 20
  BY <1>3 DEF Parts
<1>5. m - 1 = n + 19 /\ m - 17 = n + 3 /\ m - 2 = n + 18 /\ m - 18 = n + 2
      /\ m - 19 = n + 1 /\ m - 20 = n
  BY <1>4
<1>6. UdpProxyStream(buf)
        = [sockPort |-> buf[m] + 256 * buf[m - 1], peerAddr |-> SubSeq(buf, m - 17, m - 2),
           peerPort |-> buf[m - 18] + 256 * buf[m - 19], packet |-> SubSeq(buf, 1, m - 20)]
  BY <1>4 DEF UdpProxyStream
<1>7. /\ buf[m] + 256 * buf[m - 1] = sockPort /\ SubSeq(buf, m - 17, m - 2) = a
      /\ buf[m - 18] + 256 * buf[m - 19] = port /\ SubSeq(buf, 1, m - 20) = p
  BY <1>1, <1>3, <1>4, <1>5 DEF Parts
<1> QED BY <1>6, <1>7 DEF ReadAs

\* NcpWpantund (ncp_wpantund.cpp): UdpProxyStream reads from the property of
\* wpantund the packet, the address and the ports that UdpProxySend wrote, for
\* packets of any length.
THEOREM DatagramReadAsSent ==
  ASSUME NEW packet \in Seq(0..255), NEW peerPort \in Nat, peerPort < 65536,
         NEW peerAddr \in Seq(0..255), Len(peerAddr) = 16, NEW sockPort \in Nat, sockPort < 65536
  PROVE  UdpProxyStream(UdpProxySend(packet, peerPort, peerAddr, sockPort))
           = [sockPort |-> sockPort, peerAddr |-> peerAddr, peerPort |-> peerPort, packet |-> packet]
<1>1. IsNumber(UInt16(peerPort), peerPort) /\ IsNumber(UInt16(sockPort), sockPort)
  BY TwoBytes
<1>2. UdpProxySend(packet, peerPort, peerAddr, sockPort)
        = ((packet \o UInt16(peerPort)) \o peerAddr) \o UInt16(sockPort)
  BY DEF UdpProxySend
<1> DEFINE q == UInt16(peerPort)  r == UInt16(sockPort)
           buf == ((packet \o q) \o peerAddr) \o r
<1>3. buf = Packed(packet, q, peerAddr, r)
  BY DEF Packed
<1> HIDE DEF q, r, buf
<1>4. IsNumber(q, peerPort) /\ IsNumber(r, sockPort)
  BY <1>1 DEF q, r
<1>5. ReadAs(buf, sockPort, peerAddr, peerPort, packet)
  BY <1>3, <1>4, DatagramRead
<1> QED BY <1>2, <1>5 DEF q, r, buf, ReadAs

-----------------------------------------------------------------------------
(* Bytes2Hex, and back. *)

\* Two digits of each byte.
LEMMA DigitsOfBytes ==
  ASSUME NEW bytes \in Seq(0..255)
  PROVE  /\ Bytes2Hex(bytes) \in Seq(0..15) /\ Len(Bytes2Hex(bytes)) = 2 * Len(bytes)
         /\ \A k \in 1..Len(bytes) : /\ Bytes2Hex(bytes)[2 * k - 1] = bytes[k] \div 16
                                     /\ Bytes2Hex(bytes)[2 * k] = bytes[k] % 16
<1> DEFINE n == Len(bytes)
           D(k) == IF k % 2 = 1 THEN bytes[(k + 1) \div 2] \div 16 ELSE bytes[k \div 2] % 16
<1>1. n \in Nat /\ 2 * n \in Nat /\ \A k \in 1..n : bytes[k] \in 0..255
  <2>1. n \in Nat /\ \A k \in 1..n : bytes[k] \in 0..255
    BY ElementOfSeq
  <2> HIDE DEF n
  <2> QED BY <2>1
<1>2. Bytes2Hex(bytes) = [k \in 1..2 * n |-> D(k)]
  BY DEF Bytes2Hex
<1>3. ASSUME NEW k \in 1..2 * n PROVE D(k) \in 0..15
  <2>0. \A b \in 0..255 : b \div 16 \in 0..15 /\ b % 16 \in 0..15
    OBVIOUS
  <2>1. CASE k % 2 = 1
    <3>1. (k + 1) \div 2 \in 1..n
      BY <1>1, <2>1
    <3> QED BY <2>0, <2>1, <3>1, <1>1
  <2>2. CASE k % 2 # 1
    <3>1. k \div 2 \in 1..n
      BY <1>1, <2>2
    <3> QED BY <2>0, <2>2, <3>1, <1>1
  <2> QED BY <2>1, <2>2
<1>4. ASSUME NEW k \in 1..n PROVE D(2 * k - 1) = bytes[k] \div 16 /\ D(2 * k) = bytes[k] % 16
  <2>1. k \in Int /\ (2 * k - 1) % 2 = 1 /\ ((2 * k - 1) + 1) \div 2 = k
    BY <1>1
  <2>2. (2 * k) % 2 = 0 /\ (2 * k) \div 2 = k
    BY <2>1
  <2> QED BY <2>1, <2>2
<1> HIDE DEF D, n
<1>5. [k \in 1..2 * n |-> D(k)] \in Seq(0..15)
  BY <1>1, <1>3, IsASeq
<1>6. Len([k \in 1..2 * n |-> D(k)]) = 2 * n
  BY <1>1
<1>7. \A k \in 1..n : 2 * k - 1 \in 1..2 * n /\ 2 * k \in 1..2 * n
  BY <1>1
<1> QED BY <1>2, <1>4, <1>5, <1>6, <1>7 DEF n

\* Utils::Hex2Bytes reads back what Utils::Bytes2Hex (hex.cpp) wrote, for any
\* number of bytes that the buffer has room for.
THEOREM HexRoundTrip ==
  ASSUME NEW bytes \in Seq(0..255), NEW size \in Nat, Len(bytes) <= size
  PROVE  /\ Hex2Bytes(Bytes2Hex(bytes), size).n = Len(bytes)
         /\ Hex2Bytes(Bytes2Hex(bytes), size).bytes = bytes
<1> DEFINE hex == Bytes2Hex(bytes)  n == Len(bytes)
<1>1. /\ hex \in Seq(0..15) /\ Len(hex) = 2 * n /\ n \in Nat
      /\ \A k \in 1..n : hex[2 * k - 1] = bytes[k] \div 16 /\ hex[2 * k] = bytes[k] % 16
  BY DigitsOfBytes
<1> HIDE DEF hex
<1>2. hex \in Seq(0..NoDigit) /\ IsHex(hex)
  <2>1. DOMAIN hex = 1..Len(hex) /\ \A k \in 1..Len(hex) : hex[k] \in 0..15
    BY <1>1
  <2>2. \A c \in 0..15 : c \in 0..NoDigit /\ c # NoDigit
    BY DEF NoDigit
  <2>3. 0..15 \subseteq 0..NoDigit
    BY <2>2
  <2>4. hex \in Seq(0..NoDigit)
    BY <1>1, <2>3, SeqMonotonic
  <2> QED BY <2>1, <2>2, <2>4 DEF IsHex
<1>3. Len(hex) % 2 = 0 /\ (Len(hex) + 1) \div 2 = n /\ Len(hex) \div 2 = n /\ Len(hex) <= 2 * size
  <2> HIDE DEF n
  <2>1. (2 * n) % 2 = 0 /\ (2 * n + 1) \div 2 = n /\ (2 * n) \div 2 = n
    BY <1>1
  <2>2. n <= size
    BY DEF n
  <2> QED BY <1>1, <2>1, <2>2
<1>4. HexValue(hex) = bytes
  <2>1. HexValue(hex) = [k \in 1..n |-> 16 * hex[2 * k - 1] + hex[2 * k]]
    <3> HIDE DEF n
    <3>1. ~(Len(hex) % 2 = 1) /\ Len(hex) \div 2 = n
      BY <1>3
    <3> QED BY <3>1 DEF HexValue
  <2>2. \A b \in 0..255 : 16 * (b \div 16) + (b % 16) = b
    OBVIOUS
  <2>3. \A k \in 1..n : bytes[k] \in 0..255
    BY ElementOfSeq
  <2>4. \A k \in 1..n : 16 * hex[2 * k - 1] + hex[2 * k] = bytes[k]
    <3> HIDE DEF n
    <3> TAKE k \in 1..n
    <3>1. hex[2 * k - 1] = bytes[k] \div 16 /\ hex[2 * k] = bytes[k] % 16
      BY <1>1
    <3>2. bytes[k] \in 0..255
      BY <2>3
    <3> QED BY <2>2, <3>1, <3>2
  <2>5. bytes = [k \in 1..n |-> bytes[k]]
    OBVIOUS
  <2> HIDE DEF n
  <2> QED BY <2>1, <2>4, <2>5
<1>5. Hex2Bytes(hex, size).n = n /\ Hex2Bytes(hex, size).bytes = bytes
  <2>1. IsHex(hex) /\ Len(hex) <= 2 * size
    BY <1>2, <1>3
  <2>2. Hex2Bytes(hex, size).n = (Len(hex) + 1) \div 2
    BY <1>2, <2>1, HexDecoded
  <2>3. Hex2Bytes(hex, size).bytes = HexValue(hex)
    BY <1>2, <2>1, HexDecoded
  <2> QED BY <2>2, <2>3, <1>3, <1>4
<1> QED BY <1>5 DEF hex

-----------------------------------------------------------------------------
(* The TLVs of a message. *)

IsTlv(u) ==
  /\ u = [type |-> u.type, value |-> u.value, forced |-> u.forced]
  /\ u.type \in 0..255 /\ u.value \in Seq(0..255) /\ Len(u.value) < 65536 /\ u.forced \in BOOLEAN

Written(u) == Tlv(u.type, u.value, u.forced)
Meant(u) == [type |-> u.type, value |-> u.value]

\* The bytes before the value: two of them, or four.
Short(w, t, v) ==
  /\ w \in Seq(0..255) /\ Len(w) = 2 + Len(v) /\ Len(v) < kLengthEscape
  /\ w[1] = t /\ w[2] = Len(v) /\ \A k \in 1..Len(v) : w[2 + k] = v[k]
Long(w, t, v) ==
  /\ w \in Seq(0..255) /\ Len(w) = 4 + Len(v)
  /\ w[1] = t /\ w[2] = kLengthEscape /\ w[3] * 256 + w[4] = Len(v)
  /\ \A k \in 1..Len(v) : w[4 + k] = v[k]

IsByte(x, b) == x \in Seq(0..255) /\ Len(x) = 1 /\ x[1] = b
IsText(v, n) == v \in Seq(0..255) /\ Len(v) = n

Cat(u, s, t) == u = s \o t

LEMMA OneByte == ASSUME NEW b \in 0..255 PROVE IsByte(<<b>>, b)
  BY DEF IsByte

\* The bytes of a TLV with a short and with an extended length.
LEMMA ShortJoined ==
  ASSUME NEW t, NEW x, NEW y, NEW v, NEW n \in Nat, IsByte(x, t), IsByte(y, n), IsText(v, n),
         n < kLengthEscape, NEW a, Cat(a, x, y), NEW w, Cat(w, a, v)
  PROVE  Short(w, t, v)
<1>0. /\ x \in Seq(0..255) /\ Len(x) = 1 /\ x[1] = t
      /\ y \in Seq(0..255) /\ Len(y) = 1 /\ y[1] = n
      /\ v \in Seq(0..255) /\ Len(v) = n
  BY DEF IsByte, IsText
<1>1. Joins(a, x, y, 1, 1)
  BY <1>0, Joined DEF Cat
<1>2. a \in Seq(0..255) /\ Len(a) = 2 /\ a[1] = t /\ a[2] = n
  <2>1. a \in Seq(0..255) /\ Len(a) = 1 + 1 /\ a[1] = x[1] /\ a[1 + 1] = y[1]
    BY <1>1 DEF Joins
  <2> QED BY <2>1, <1>0
<1>3. Joins(w, a, v, 2, n)
  BY <1>0, <1>2, Joined DEF Cat
<1>4. /\ w \in Seq(0..255) /\ Len(w) = 2 + n /\ w[1] = a[1] /\ w[2] = a[2]
      /\ \A k \in 1..n : w[2 + k] = v[k]
  BY <1>3 DEF Joins
<1> QED BY <1>0, <1>2, <1>4 DEF Short

LEMMA LongJoined ==
  ASSUME NEW t, NEW x, NEW y, NEW z, NEW v, NEW n \in Nat, IsByte(x, t),
         IsByte(y, kLengthEscape), IsNumber(z, n), IsText(v, n),
         NEW a, Cat(a, y, z), NEW b, Cat(b, x, a), NEW w, Cat(w, b, v)
  PROVE  Long(w, t, v)
<1>0. /\ x \in Seq(0..255) /\ Len(x) = 1 /\ x[1] = t
      /\ y \in Seq(0..255) /\ Len(y) = 1 /\ y[1] = kLengthEscape
      /\ z \in Seq(0..255) /\ Len(z) = 2 /\ z[2] + 256 * z[1] = n
      /\ v \in Seq(0..255) /\ Len(v) = n
  BY DEF IsByte, IsNumber, IsText
<1>1. Joins(a, y, z, 1, 2)
  BY <1>0, Joined DEF Cat
<1>2. a \in Seq(0..255) /\ Len(a) = 3 /\ a[1] = kLengthEscape /\ a[2] = z[1] /\ a[3] = z[2]
  <2>1. a \in Seq(0..255) /\ Len(a) = 1 + 2 /\ a[1] = y[1] /\ a[1 + 1] = z[1] /\ a[1 + 2] = z[2]
    BY <1>1 DEF Joins
  <2> QED BY <2>1, <1>0
<1>3. Joins(b, x, a, 1, 3)
  BY <1>0, <1>2, Joined DEF Cat
<1>4. /\ b \in Seq(0..255) /\ Len(b) = 4 /\ b[1] = t /\ b[2] = kLengthEscape
      /\ b[3] = z[1] /\ b[4] = z[2]
  <2>1. /\ b \in Seq(0..255) /\ Len(b) = 1 + 3 /\ b[1] = x[1]
        /\ b[1 + 1] = a[1] /\ b[1 + 2] = a[2] /\ b[1 + 3] = a[3]
    BY <1>3 DEF Joins
  <2> QED BY <2>1, <1>0, <1>2
<1>5. Joins(w, b, v, 4, n)
  BY <1>0, <1>4, Joined DEF Cat
<1>6. /\ w \in Seq(0..255) /\ Len(w) = 4 + n
      /\ w[1] = b[1] /\ w[2] = b[2] /\ w[3] = b[3] /\ w[4] = b[4]
      /\ \A k \in 1..n : w[4 + k] = v[k]
  BY <1>5 DEF Joins
<1>7. z[1] * 256 + z[2] = n
  <2>1. z[1] \in 0..255 /\ z[2] \in 0..255
    <3>1. 1 \in 1..Len(z) /\ 2 \in 1..Len(z)
      BY <1>0
    <3> QED BY <1>0, <3>1, ElementOfSeq
  <2>2. \A p, q \in 0..255 : q + 256 * p = p * 256 + q
    OBVIOUS
  <2> QED BY <2>1, <2>2, <1>0
<1> QED BY <1>0, <1>4, <1>6, <1>7 DEF Long

\* Every TLV is written in one of the two ways.
LEMMA TlvWritten ==
  ASSUME NEW u, IsTlv(u)
  PROVE  Short(Written(u), u.type, u.value) \/ Long(Written(u), u.type, u.value)
<1> DEFINE t == u.type  v == u.value  n == Len(v)  w == Written(u)
           x == <<t>>  e == <<kLengthEscape>>  y == <<n>>  z == UInt16(n)
<1>1. t \in 0..255 /\ n \in Nat /\ n < 65536 /\ IsText(v, n)
  BY DEF IsTlv, IsText
<1>2. IsByte(x, t)
  <2> HIDE DEF t
  <2> QED BY <1>1 DEF IsByte
<1>3. CASE n >= kLengthEscape \/ u.forced
  <2> DEFINE a == e \o z  b == x \o a
  <2>1. Cat(a, e, z) /\ Cat(b, x, a) /\ Cat(w, b, v)
    BY <1>3 DEF Written, Tlv, SetLength, Cat
  <2>2. IsByte(e, kLengthEscape)
    BY OneByte DEF kLengthEscape
  <2>3. IsNumber(z, n)
    <3> HIDE DEF n
    <3> QED BY <1>1, TwoBytes
  <2> HIDE DEF t, v, n, w, x, e, y, z, a, b
  <2>4. Long(w, t, v)
    BY <1>1, <1>2, <2>1, <2>2, <2>3, LongJoined
  <2> QED BY <2>4 DEF t, v, w
<1>4. CASE ~(n >= kLengthEscape \/ u.forced)
  <2> DEFINE a == x \o y
  <2>1. Cat(a, x, y) /\ Cat(w, a, v)
    BY <1>4 DEF Written, Tlv, SetLength, Cat
  <2>2. n < kLengthEscape /\ n \in 0..255
    <3> HIDE DEF n
    <3> QED BY <1>1, <1>4 DEF kLengthEscape
  <2>3. IsByte(y, n)
    BY <2>2, OneByte
  <2> HIDE DEF t, v, n, w, x, e, y, z, a
  <2>4. Short(w, t, v)
    BY <1>1, <1>2, <2>1, <2>2, <2>3, ShortJoined
  <2> QED BY <2>4 DEF t, v, w
<1> QED BY <1>3, <1>4

\* The loop of Tlvs over a buffer of n bytes.
TlvFits(buffer, p) ==
  /\ p < Len(buffer)
  /\ buffer[p + 1] = kLengthEscape => p + 3 <= Len(buffer)
  /\ GetNext(buffer, p) <= Len(buffer) + 1
TlvAt(buffer, p) ==
  [type  |-> buffer[p],
   value |-> SubSeq(buffer, GetValue(buffer, p), GetNext(buffer, p) - 1)]
TlvsFrom(buffer, f, p) ==
  IF ~TlvFits(buffer, p) THEN <<>> ELSE <<TlvAt(buffer, p)>> \o f[GetNext(buffer, p)]
TlvLoop(buffer, f) == f = [p \in 1..Len(buffer) + 1 |-> TlvsFrom(buffer, f, p)]

\* A Tlv ends behind where it starts.
LEMMA NextIsLater ==
  ASSUME NEW buffer \in Seq(0..255), NEW p \in 1..Len(buffer) + 1, TlvFits(buffer, p)
  PROVE  GetNext(buffer, p) \in p + 1..Len(buffer) + 1
<1>1. p \in Nat /\ p >= 1 /\ p < Len(buffer) /\ Len(buffer) \in Nat
  BY DEF TlvFits
<1>2. \A i \in 1..Len(buffer) : buffer[i] \in 0..255
  BY ElementOfSeq
<1>3. GetValue(buffer, p) \in Nat /\ GetValue(buffer, p) > p
  BY <1>1 DEF GetValue
<1>4. GetLength(buffer, p) \in Nat
  <2>1. CASE buffer[p + 1] # kLengthEscape
    <3>1. p + 1 \in 1..Len(buffer)
      BY <1>1
    <3>2. buffer[p + 1] \in 0..255 /\ GetLength(buffer, p) = buffer[p + 1]
      BY <2>1, <3>1, <1>2 DEF GetLength
    <3>3. \A b \in 0..255 : b \in Nat
      OBVIOUS
    <3> QED BY <3>2, <3>3
  <2>2. CASE buffer[p + 1] = kLengthEscape
    <3>1. p + 2 \in 1..Len(buffer) /\ p + 3 \in 1..Len(buffer)
      BY <1>1, <2>2 DEF TlvFits
    <3>2. buffer[p + 2] \in 0..255 /\ buffer[p + 3] \in 0..255
      BY <3>1, <1>2
    <3>3. GetLength(buffer, p) = buffer[p + 2] * 256 + buffer[p + 3]
      BY <2>2 DEF GetLength
    <3>4. \A x, y \in 0..255 : x * 256 + y \in Nat
      OBVIOUS
    <3> QED BY <3>2, <3>3, <3>4
  <2> QED BY <2>1, <2>2
<1>5. GetNext(buffer, p) = GetValue(buffer, p) + GetLength(buffer, p)
      /\ GetNext(buffer, p) <= Len(buffer) + 1
  BY DEF GetNext, TlvFits
<1> QED BY <1>1, <1>3, <1>4, <1>5

\* The loop is defined from every position, from the last one backwards.
FromThere(buffer, f, q) ==
  DOMAIN f = q..Len(buffer) + 1 /\ \A p \in q..Len(buffer) + 1 : f[p] = TlvsFrom(buffer, f, p)

\* The loop of the reader has a value for every buffer, and Tlvs is its value at
\* the first byte.
LEMMA TlvLoopDefined ==
  ASSUME NEW buffer \in Seq(0..255) PROVE \E f : TlvLoop(buffer, f)
<1>0. PICK n \in Nat : n = Len(buffer)
  OBVIOUS
<1> DEFINE S == {j \in 0..n : \E f : FromThere(buffer, f, n + 1 - j)}
<1>1. 0 \in S
  <2> DEFINE f == [p \in n + 1..n + 1 |-> <<>>]
  <2>1. \A p \in n + 1..n + 1 : TlvsFrom(buffer, f, p) = <<>>
    BY <1>0 DEF TlvsFrom, TlvFits
  <2>2. FromThere(buffer, f, n + 1 - 0)
    BY <2>1, <1>0 DEF FromThere
  <2> QED BY <2>2
<1>2. ASSUME NEW j \in 0..n - 1, j \in S PROVE j + 1 \in S
  <2>1. PICK q \in 1..n : q = n - j /\ n + 1 - j = q + 1 /\ n + 1 - (j + 1) = q
    BY <1>0
  <2>2. PICK f : FromThere(buffer, f, q + 1)
    BY <1>2, <2>1
  <2> DEFINE g == [p \in q..n + 1 |-> IF p = q THEN TlvsFrom(buffer, f, q) ELSE f[p]]
  <2>3. \A p \in q + 1..n + 1 : p \in q..n + 1 /\ p # q
    OBVIOUS
  <2>4. DOMAIN g = q..n + 1 /\ g[q] = TlvsFrom(buffer, f, q) /\ \A p \in q + 1..n + 1 : g[p] = f[p]
    BY <2>3
  <2> HIDE DEF g
  <2>5. ASSUME NEW p \in q..n + 1 PROVE TlvsFrom(buffer, g, p) = TlvsFrom(buffer, f, p)
    <3>1. CASE ~TlvFits(buffer, p)
      BY <3>1 DEF TlvsFrom
    <3>2. CASE TlvFits(buffer, p)
      <4>1. p \in 1..n + 1
        OBVIOUS
      <4>2. GetNext(buffer, p) \in p + 1..n + 1
        BY <4>1, <3>2, <1>0, NextIsLater
      <4>3. GetNext(buffer, p) \in q + 1..n + 1
        BY <4>2
      <4>4. g[GetNext(buffer, p)] = f[GetNext(buffer, p)]
        BY <4>3, <2>4
      <4> QED BY <4>4 DEF TlvsFrom
    <3> QED BY <3>1, <3>2
  <2>6. ASSUME NEW p \in q..n + 1 PROVE g[p] = TlvsFrom(buffer, g, p)
    <3>1. CASE p = q
      BY <3>1, <2>4, <2>5
    <3>2. CASE p # q
      <4>1. p \in q + 1..n + 1
        BY <3>2
      <4>2. f[p] = TlvsFrom(buffer, f, p)
        BY <4>1, <2>2, <1>0 DEF FromThere
      <4> QED BY <4>1, <4>2, <2>4, <2>5
    <3> QED BY <3>1, <3>2
  <2>7. FromThere(buffer, g, q)
    BY <2>4, <2>6, <1>0 DEF FromThere
  <2>8. j + 1 \in 0..n
    OBVIOUS
  <2> QED BY <2>1, <2>7, <2>8
<1>3. n \in S
  <2>1. 0..n \subseteq S
    <3> HIDE DEF S
    <3> QED BY <1>1, <1>2, UpTo
  <2> QED BY <2>1
<1>4. PICK f : FromThere(buffer, f, 1)
  <2>1. n + 1 - n = 1
    OBVIOUS
  <2> QED BY <1>3, <2>1
<1> DEFINE g == [p \in 1..n + 1 |-> f[p]]
<1>5. \A p \in 1..n + 1 : TlvsFrom(buffer, g, p) = TlvsFrom(buffer, f, p)
  <2> TAKE p \in 1..n + 1
  <2>1. CASE ~TlvFits(buffer, p)
    BY <2>1 DEF TlvsFrom
  <2>2. CASE TlvFits(buffer, p)
    <3>1. GetNext(buffer, p) \in p + 1..n + 1
      BY <2>2, <1>0, NextIsLater
    <3>2. GetNext(buffer, p) \in 1..n + 1
      BY <3>1
    <3>3. g[GetNext(buffer, p)] = f[GetNext(buffer, p)]
      BY <3>2
    <3> QED BY <3>3 DEF TlvsFrom
  <2> QED BY <2>1, <2>2
<1>6. \A p \in 1..n + 1 : f[p] = TlvsFrom(buffer, f, p)
  BY <1>4, <1>0 DEF FromThere
<1>7. g = [p \in 1..n + 1 |-> TlvsFrom(buffer, f, p)]
  BY <1>6
<1> HIDE DEF g
<1>8. g = [p \in 1..n + 1 |-> TlvsFrom(buffer, g, p)]
  BY <1>5, <1>7
<1> QED BY <1>8, <1>0 DEF TlvLoop

LEMMA TlvsUnfolded ==
  ASSUME NEW buffer \in Seq(0..255)
  PROVE  \E f : Tlvs(buffer) = f[1] /\ \A p \in 1..Len(buffer) + 1 : f[p] = TlvsFrom(buffer, f, p)
<1> DEFINE f == CHOOSE f : TlvLoop(buffer, f)
<1>1. TlvLoop(buffer, f)
  BY TlvLoopDefined
<1>2. Tlvs(buffer) = f[1]
  BY DEF Tlvs, TlvLoop, TlvsFrom, TlvFits, TlvAt
<1> HIDE DEF f
<1>3. \A p \in 1..Len(buffer) + 1 : f[p] = TlvsFrom(buffer, f, p)
  BY <1>1 DEF TlvLoop
<1> QED BY <1>2, <1>3

\* The bytes of w are in the buffer from position p on.
ThereAt(buffer, p, w) ==
  p + Len(w) <= Len(buffer) + 1 /\ \A k \in 1..Len(w) : buffer[(p - 1) + k] = w[k]

ReadAt(buffer, p, t, v, next) ==
  /\ TlvFits(buffer, p) /\ GetNext(buffer, p) = next
  /\ TlvAt(buffer, p) = [type |-> t, value |-> v]

\* Where a TLV is in a buffer, it is what is read there.
LEMMA ShortRead ==
  ASSUME NEW buffer \in Seq(0..255), NEW p \in Nat, p >= 1, NEW t, NEW v \in Seq(0..255), NEW w,
         Short(w, t, v), ThereAt(buffer, p, w)
  PROVE  ReadAt(buffer, p, t, v, p + Len(w))
<1>0. PICK n \in Nat : n = Len(v)
  OBVIOUS
<1>1. PICK m \in Nat : m = Len(buffer)
  OBVIOUS
<1>2. /\ Len(w) = 2 + n /\ n < kLengthEscape
      /\ w[1] = t /\ w[2] = n /\ \A k \in 1..n : w[2 + k] = v[k]
  BY <1>0 DEF Short
<1>3. p + (2 + n) <= m + 1 /\ \A k \in 1..2 + n : buffer[(p - 1) + k] = w[k]
  BY <1>1, <1>2 DEF ThereAt
<1>4. buffer[p] = t /\ buffer[p + 1] = n
  <2>1. 1 \in 1..2 + n /\ 2 \in 1..2 + n /\ (p - 1) + 1 = p /\ (p - 1) + 2 = p + 1
    OBVIOUS
  <2> QED BY <2>1, <1>2, <1>3
<1>5. n # kLengthEscape /\ p < m /\ p + (2 + n) = (p + 2) + n
  BY <1>2, <1>3 DEF kLengthEscape
<1>6. GetLength(buffer, p) = n /\ GetValue(buffer, p) = p + 2
  BY <1>4, <1>5 DEF GetLength, GetValue
<1>7. GetNext(buffer, p) = p + (2 + n)
  BY <1>5, <1>6 DEF GetNext
<1>8. TlvFits(buffer, p)
  BY <1>1, <1>3, <1>4, <1>5, <1>7 DEF TlvFits
<1>9. SubSeq(buffer, p + 2, (p + (2 + n)) - 1) = v
  <2>1. \A k \in 1..n : buffer[(p + 1) + k] = v[k]
    <3> TAKE k \in 1..n
    <3>1. 2 + k \in 1..2 + n /\ (p - 1) + (2 + k) = (p + 1) + k
      OBVIOUS
    <3> QED BY <3>1, <1>2, <1>3
  <2>2. Within(v, buffer, p + 1, n)
    BY <2>1 DEF Within
  <2>3. IsPart(v, buffer, (p + 1) + 1, (p + 1) + n)
    BY <2>2, <1>0, Part
  <2>4. (p + 1) + 1 = p + 2 /\ (p + 1) + n = (p + (2 + n)) - 1
    OBVIOUS
  <2> QED BY <2>3, <2>4 DEF IsPart
<1>10. TlvAt(buffer, p) = [type |-> t, value |-> v]
  BY <1>4, <1>6, <1>7, <1>9 DEF TlvAt
<1> QED BY <1>2, <1>7, <1>8, <1>10 DEF ReadAt

LEMMA LongRead ==
  ASSUME NEW buffer \in Seq(0..255), NEW p \in Nat, p >= 1, NEW t, NEW v \in Seq(0..255), NEW w,
         Long(w, t, v), ThereAt(buffer, p, w)
  PROVE  ReadAt(buffer, p, t, v, p + Len(w))
<1>0. PICK n \in Nat : n = Len(v)
  OBVIOUS
<1>1. PICK m \in Nat : m = Len(buffer)
  OBVIOUS
<1>2. /\ Len(w) = 4 + n
      /\ w[1] = t /\ w[2] = kLengthEscape /\ w[3] * 256 + w[4] = n
      /\ \A k \in 1..n : w[4 + k] = v[k]
  BY <1>0 DEF Long
<1>3. p + (4 + n) <= m + 1 /\ \A k \in 1..4 + n : buffer[(p - 1) + k] = w[k]
  BY <1>1, <1>2 DEF ThereAt
<1>4. /\ buffer[p] = t /\ buffer[p + 1] = kLengthEscape
      /\ buffer[p + 2] = w[3] /\ buffer[p + 3] = w[4]
  <2>1. /\ 1 \in 1..4 + n /\ 2 \in 1..4 + n /\ 3 \in 1..4 + n /\ 4 \in 1..4 + n
        /\ (p - 1) + 1 = p /\ (p - 1) + 2 = p + 1 /\ (p - 1) + 3 = p + 2 /\ (p - 1) + 4 = p + 3
    OBVIOUS
  <2> QED BY <2>1, <1>2, <1>3
<1>5. p < m /\ p + 3 <= m /\ p + (4 + n) = (p + 4) + n
  BY <1>3
<1>6. GetLength(buffer, p) = n /\ GetValue(buffer, p) = p + 4
  BY <1>2, <1>4 DEF GetLength, GetValue
<1>7. GetNext(buffer, p) = p + (4 + n)
  BY <1>5, <1>6 DEF GetNext
<1>8. TlvFits(buffer, p)
  BY <1>1, <1>3, <1>5, <1>7 DEF TlvFits
<1>9. SubSeq(buffer, p + 4, (p + (4 + n)) - 1) = v
  <2>1. \A k \in 1..n : buffer[(p + 3) + k] = v[k]
    <3> TAKE k \in 1..n
    <3>1. 4 + k \in 1..4 + n /\ (p - 1) + (4 + k) = (p + 3) + k
      OBVIOUS
    <3> QED BY <3>1, <1>2, <1>3
  <2>2. Within(v, buffer, p + 3, n)
    BY <2>1 DEF Within
  <2>3. IsPart(v, buffer, (p + 3) + 1, (p + 3) + n)
    <3>1. p + 3 \in Nat
      OBVIOUS
    <3> QED BY <2>2, <3>1, <1>0, Part
  <2>4. (p + 3) + 1 = p + 4 /\ (p + 3) + n = (p + (4 + n)) - 1
    OBVIOUS
  <2> QED BY <2>3, <2>4 DEF IsPart
<1>10. TlvAt(buffer, p) = [type |-> t, value |-> v]
  BY <1>4, <1>6, <1>7, <1>9 DEF TlvAt
<1> QED BY <1>2, <1>7, <1>8, <1>10 DEF ReadAt

\* A Tlv is read as it was written, wherever it is in a buffer.
LEMMA TlvReadAsWritten ==
  ASSUME NEW buffer \in Seq(0..255), NEW p \in Nat, p >= 1, NEW u, IsTlv(u),
         ThereAt(buffer, p, Written(u))
  PROVE  ReadAt(buffer, p, u.type, u.value, p + Len(Written(u)))
<1>1. u.value \in Seq(0..255)
  BY DEF IsTlv
<1> QED BY <1>1, TlvWritten, ShortRead, LongRead

\* Where a sequence is in a buffer, so are its parts.
LEMMA SplitThere ==
  ASSUME NEW buffer \in Seq(0..255), NEW p \in Nat, p >= 1, NEW s \in Seq(0..255),
         NEW t \in Seq(0..255), NEW u, Cat(u, s, t), ThereAt(buffer, p, u)
  PROVE  /\ u \in Seq(0..255) /\ Len(u) = Len(s) + Len(t)
         /\ ThereAt(buffer, p, s) /\ ThereAt(buffer, p + Len(s), t)
<1>1. PICK m \in Nat : m = Len(s)
  OBVIOUS
<1>2. PICK n \in Nat : n = Len(t)
  OBVIOUS
<1>3. Joins(u, s, t, m, n)
  BY <1>1, <1>2, Joined DEF Cat
<1>4. /\ u \in Seq(0..255) /\ Len(u) = m + n
      /\ \A i \in 1..m : u[i] = s[i]
      /\ \A i \in 1..n : u[m + i] = t[i]
  BY <1>3 DEF Joins
<1>5. PICK l \in Nat : l = Len(buffer)
  OBVIOUS
<1>6. p + (m + n) <= l + 1 /\ \A k \in 1..m + n : buffer[(p - 1) + k] = u[k]
  BY <1>4, <1>5 DEF ThereAt
<1>7. ThereAt(buffer, p, s)
  <2>1. \A k \in 1..m : k \in 1..m + n
    OBVIOUS
  <2>2. \A k \in 1..m : buffer[(p - 1) + k] = s[k]
    BY <2>1, <1>4, <1>6
  <2> QED BY <2>2, <1>1, <1>5, <1>6 DEF ThereAt
<1>8. ThereAt(buffer, p + m, t)
  <2>1. \A k \in 1..n : m + k \in 1..m + n /\ (p - 1) + (m + k) = ((p + m) - 1) + k
    OBVIOUS
  <2>2. \A k \in 1..n : buffer[((p + m) - 1) + k] = t[k]
    BY <2>1, <1>4, <1>6
  <2> QED BY <2>2, <1>2, <1>5, <1>6 DEF ThereAt
<1> QED BY <1>1, <1>2, <1>4, <1>7, <1>8

\* The messages of the last n - i of n TLVs, for each i.
IsMessage(message, tlvs, n) ==
  /\ message[n] = <<>>
  /\ \A i \in 1..n : IsTlv(tlvs[i]) /\ message[i - 1] = Written(tlvs[i]) \o message[i]

\* Messages are bytes, and their TLVs are where they were written.
LEMMA WrittenBytes == ASSUME NEW u, IsTlv(u) PROVE Written(u) \in Seq(0..255)
  BY TlvWritten DEF Short, Long

LEMMA MessageBytes ==
  ASSUME NEW n \in Nat, NEW tlvs, NEW message, IsMessage(message, tlvs, n)
  PROVE  \A i \in 0..n : message[i] \in Seq(0..255)
<1> DEFINE S == {j \in 0..n : message[n - j] \in Seq(0..255)}
<1>1. 0 \in S
  <2>1. n - 0 = n /\ 0 \in 0..n /\ <<>> \in Seq(0..255)
    OBVIOUS
  <2> QED BY <2>1 DEF IsMessage
<1>2. ASSUME NEW j \in 0..n - 1, j \in S PROVE j + 1 \in S
  <2>1. PICK i \in 1..n : i = n - j /\ i - 1 = n - (j + 1)
    OBVIOUS
  <2>2. j + 1 \in 0..n
    OBVIOUS
  <2>3. message[i] \in Seq(0..255)
    BY <1>2, <2>1
  <2>4. message[i - 1] = Written(tlvs[i]) \o message[i] /\ Written(tlvs[i]) \in Seq(0..255)
    BY WrittenBytes DEF IsMessage
  <2>5. message[i - 1] \in Seq(0..255)
    BY <2>3, <2>4, ConcatProperties
  <2> QED BY <2>1, <2>2, <2>5
<1>3. 0..n \subseteq S
  <2> HIDE DEF S
  <2> QED BY <1>1, <1>2, UpTo
<1>4. ASSUME NEW i \in 0..n PROVE message[i] \in Seq(0..255)
  <2>1. n - i \in 0..n /\ n - (n - i) = i
    OBVIOUS
  <2> QED BY <1>3, <2>1
<1> QED BY <1>4

\* Each message is the end of the first.
LEMMA MessagesThere ==
  ASSUME NEW n \in Nat, NEW tlvs, NEW message, IsMessage(message, tlvs, n),
         NEW buffer, buffer = message[0], NEW l \in Nat, l = Len(buffer)
  PROVE  \A i \in 0..n : /\ (l + 1) - Len(message[i]) \in Nat /\ (l + 1) - Len(message[i]) >= 1
                         /\ ThereAt(buffer, (l + 1) - Len(message[i]), message[i])
<1> DEFINE P(i) == (l + 1) - Len(message[i])
           S == {i \in 0..n : P(i) \in Nat /\ P(i) >= 1 /\ ThereAt(buffer, P(i), message[i])}
<1>0. \A i \in 0..n : message[i] \in Seq(0..255) /\ Len(message[i]) \in Nat
  BY MessageBytes
<1>1. buffer \in Seq(0..255) /\ 0 \in 0..n
  BY <1>0
<1>2. 0 \in S
  <2>1. P(0) = 1
    OBVIOUS
  <2>2. \A k \in 1..l : (1 - 1) + k = k
    OBVIOUS
  <2>3. ThereAt(buffer, 1, message[0])
    BY <2>2 DEF ThereAt
  <2> HIDE DEF P
  <2> QED BY <1>1, <2>1, <2>3
<1>3. ASSUME NEW i \in 0..n - 1, i \in S PROVE i + 1 \in S
  <2> DEFINE w == Written(tlvs[i + 1])
  <2>1. i + 1 \in 1..n /\ i + 1 \in 0..n /\ i \in 0..n /\ (i + 1) - 1 = i
    OBVIOUS
  <2>2. message[i] = w \o message[i + 1] /\ w \in Seq(0..255)
    BY <2>1, WrittenBytes DEF IsMessage
  <2>3. PICK t : t = message[i + 1] /\ t \in Seq(0..255) /\ Len(t) \in Nat
    BY <2>1, <1>0
  <2>4. PICK p \in Nat : p = P(i) /\ p >= 1 /\ ThereAt(buffer, p, message[i])
    BY <1>3
  <2>5. PICK u : u = message[i] /\ Cat(u, w, t)
    BY <2>2, <2>3 DEF Cat
  <2> HIDE DEF w
  <2>6. Len(u) = Len(w) + Len(t) /\ ThereAt(buffer, p + Len(w), t)
    <3>1. ThereAt(buffer, p, u) /\ Cat(u, w, t)
      BY <2>4, <2>5
    <3>2. w \in Seq(0..255) /\ t \in Seq(0..255) /\ p >= 1
      BY <2>2, <2>3, <2>4
    <3> QED BY <1>1, <3>1, <3>2, SplitThere
  <2>7. Len(w) \in Nat
    BY <2>2
  <2>8. P(i + 1) = p + Len(w)
    BY <2>3, <2>4, <2>5, <2>6, <2>7
  <2>9. p + Len(w) \in Nat /\ p + Len(w) >= 1
    BY <2>4, <2>7
  <2> HIDE DEF P
  <2> QED BY <2>1, <2>3, <2>6, <2>8, <2>9
<1>4. 0..n \subseteq S
  <2> HIDE DEF S
  <2> QED BY <1>2, <1>3, UpTo
<1> QED BY <1>4

\* A sequence put together from its first element and the rest.
LEMMA Consed ==
  ASSUME NEW S, NEW x \in S, NEW j \in Nat, NEW rest \in Seq(S), Len(rest) = j,
         NEW e \in Seq(S), Len(e) = j + 1, e[1] = x, \A k \in 1..j : e[k + 1] = rest[k]
  PROVE  <<x>> \o rest = e
<1> DEFINE s == <<x>>
<1>1. s \in Seq(S) /\ Len(s) = 1 /\ s[1] = x
  OBVIOUS
<1> HIDE DEF s
<1>2. /\ s \o rest \in Seq(S) /\ Len(s \o rest) = 1 + j
      /\ \A i \in 1..1 + j : (s \o rest)[i] = IF i <= 1 THEN s[i] ELSE rest[i - 1]
  <2>1. /\ s \o rest \in Seq(S) /\ Len(s \o rest) = Len(s) + Len(rest)
        /\ \A i \in 1..Len(s) + Len(rest) :
             (s \o rest)[i] = IF i <= Len(s) THEN s[i] ELSE rest[i - Len(s)]
    BY <1>1, ConcatProperties, Zenon
  <2> QED BY <2>1, <1>1, Zenon
<1> DEFINE r == s \o rest
<1>3. ASSUME NEW i \in 1..1 + j PROVE r[i] = e[i]
  <2>1. CASE i = 1
    BY <2>1, <1>1, <1>2
  <2>2. CASE i # 1
    <3>1. ~(i <= 1) /\ i - 1 \in 1..j /\ (i - 1) + 1 = i
      BY <2>2
    <3> QED BY <3>1, <1>2
  <2> QED BY <2>1, <2>2
<1>4. r \in Seq(S) /\ Len(r) = 1 + j /\ 1 + j = j + 1
  BY <1>2
<1> HIDE DEF r
<1>5. r = e
  BY <1>3, <1>4, SeqEqual
<1> QED BY <1>5 DEF r, s

LEMMA NotLater == \A l, q \in Nat : (l + 1) - q <= l + 1
  OBVIOUS

\* The reader of TLVs (tlv.hpp: GetNext, GetLength, GetValue) finds in a message, of
\* however many TLVs with short or extended lengths, those that were written.
THEOREM MessageReadAsWritten ==
  ASSUME NEW n \in Nat, NEW tlvs, NEW message, IsMessage(message, tlvs, n)
  PROVE  Tlvs(message[0]) = [i \in 1..n |-> Meant(tlvs[i])]
<1> DEFINE buffer == message[0]
<1>1. \A i \in 0..n : message[i] \in Seq(0..255)
  BY MessageBytes
<1>2. buffer \in Seq(0..255)
  BY <1>1
<1>3. PICK l \in Nat : l = Len(buffer)
  BY <1>2
<1> DEFINE P(i) == (l + 1) - Len(message[i])
           Rest(j) == [k \in 1..j |-> Meant(tlvs[(n - j) + k])]
<1>4. PICK f : Tlvs(buffer) = f[1] /\ \A p \in 1..l + 1 : f[p] = TlvsFrom(buffer, f, p)
  BY <1>2, <1>3, TlvsUnfolded
<1>5. \A i \in 0..n : P(i) \in Nat /\ P(i) >= 1 /\ P(i) <= l + 1 /\ ThereAt(buffer, P(i), message[i])
  <2>1. \A i \in 0..n : P(i) \in Nat /\ P(i) >= 1 /\ ThereAt(buffer, P(i), message[i])
    BY <1>3, MessagesThere
  <2>2. \A i \in 0..n : Len(message[i]) \in Nat
    BY <1>1
  <2>3. \A i \in 0..n : P(i) <= l + 1
    <3> TAKE i \in 0..n
    <3>1. PICK q \in Nat : q = Len(message[i])
      BY <2>2
    <3>2. (l + 1) - q <= l + 1
      BY <3>1, NotLater
    <3> QED BY <3>1, <3>2
  <2> HIDE DEF P, buffer
  <2> QED BY <2>1, <2>3
<1> DEFINE S == {j \in 0..n : f[P(n - j)] = Rest(j)}
<1>6. 0 \in S
  <2>1. n - 0 = n /\ 0 \in 0..n /\ n \in 0..n
    OBVIOUS
  <2>2. P(n) = l + 1
    BY DEF IsMessage
  <2>3. f[l + 1] = <<>>
    <3>1. l + 1 \in 1..l + 1 /\ ~(l + 1 < l)
      OBVIOUS
    <3>2. ~TlvFits(buffer, l + 1)
      BY <1>3, <3>1 DEF TlvFits
    <3> HIDE DEF buffer
    <3> QED BY <3>1, <3>2, <1>4 DEF TlvsFrom
  <2>4. Rest(0) = <<>>
    OBVIOUS
  <2> HIDE DEF P, Rest, buffer
  <2> QED BY <2>1, <2>2, <2>3, <2>4
<1>7. ASSUME NEW j \in 0..n - 1, j \in S PROVE j + 1 \in S
  <2>1. PICK i \in 1..n : i = n - j /\ i - 1 = n - (j + 1)
    OBVIOUS
  <2>2. i \in 0..n /\ i - 1 \in 0..n /\ j + 1 \in 0..n
    OBVIOUS
  <2>3. PICK u : u = tlvs[i] /\ IsTlv(u)
    BY DEF IsMessage
  <2>4. PICK w : w = Written(u) /\ w \in Seq(0..255) /\ Len(w) \in Nat
    BY <2>3, WrittenBytes
  <2>5. PICK t : t = message[i] /\ t \in Seq(0..255) /\ Len(t) \in Nat
    BY <1>1, <2>2
  <2>6. PICK m : m = message[i - 1] /\ Cat(m, w, t)
    BY <2>3, <2>4, <2>5 DEF IsMessage, Cat
  <2>7. PICK p \in Nat : p = P(i - 1) /\ p >= 1 /\ p <= l + 1 /\ ThereAt(buffer, p, m)
    BY <1>5, <2>2, <2>6
  <2>8. Len(m) = Len(w) + Len(t) /\ ThereAt(buffer, p, w)
    <3> HIDE DEF buffer, P
    <3>1. buffer \in Seq(0..255) /\ w \in Seq(0..255) /\ t \in Seq(0..255) /\ p >= 1
      BY <1>2, <2>4, <2>5, <2>7
    <3>2. Cat(m, w, t) /\ ThereAt(buffer, p, m)
      BY <2>6, <2>7
    <3> QED BY <3>1, <3>2, SplitThere
  <2>9. P(i) = p + Len(w)
    BY <2>4, <2>5, <2>6, <2>7, <2>8
  <2>10. ReadAt(buffer, p, u.type, u.value, p + Len(w))
    <3> HIDE DEF buffer
    <3> QED BY <1>2, <2>3, <2>4, <2>7, <2>8, TlvReadAsWritten
  <2>11. f[p] = <<Meant(u)>> \o f[P(i)]
    <3> HIDE DEF buffer, P
    <3>1. p \in 1..l + 1
      BY <2>7
    <3>2. f[p] = TlvsFrom(buffer, f, p)
      BY <1>4, <3>1
    <3> QED BY <3>2, <2>9, <2>10 DEF TlvsFrom, ReadAt, Meant
  <2>12. f[P(i)] = Rest(j)
    BY <1>7, <2>1
  <2>13. <<Meant(u)>> \o Rest(j) = Rest(j + 1)
    <3> DEFINE T == {Meant(tlvs[k]) : k \in 1..n}  e == Rest(j + 1)  rest == Rest(j)
    <3>1. \A k \in 1..j : k + 1 \in 1..j + 1 /\ (n - (j + 1)) + (k + 1) = (n - j) + k
      OBVIOUS
    <3>2. \A k \in 1..j : e[k + 1] = rest[k]
      BY <3>1
    <3>3. (n - (j + 1)) + 1 = i /\ 1 \in 1..j + 1 /\ j \in Nat /\ j + 1 \in Nat
      BY <2>1
    <3>4. e[1] = Meant(u)
      BY <3>3, <2>3
    <3>5. rest \in Seq(T) /\ Len(rest) = j
      <4>1. \A k \in 1..j : Meant(tlvs[(n - j) + k]) \in T
        <5>1. \A k \in 1..j : (n - j) + k \in 1..n
          OBVIOUS
        <5> QED BY <5>1
      <4> HIDE DEF T
      <4> QED BY <4>1, <3>3
    <3>6. e \in Seq(T) /\ Len(e) = j + 1
      <4>1. \A k \in 1..j + 1 : Meant(tlvs[(n - (j + 1)) + k]) \in T
        <5>1. \A k \in 1..j + 1 : (n - (j + 1)) + k \in 1..n
          OBVIOUS
        <5> QED BY <5>1
      <4> HIDE DEF T
      <4> QED BY <4>1, <3>3
    <3>7. Meant(u) \in T
      BY <2>3
    <3> HIDE DEF e, rest, T
    <3>8. <<Meant(u)>> \o rest = e
      BY <3>2, <3>3, <3>4, <3>5, <3>6, <3>7, Consed
    <3> QED BY <3>8 DEF e, rest
  <2>14. f[P(n - (j + 1))] = Rest(j + 1)
    <3> HIDE DEF P, Rest
    <3> QED BY <2>1, <2>7, <2>11, <2>12, <2>13
  <2> QED BY <2>2, <2>14
<1>8. n \in S
  <2>1. 0..n \subseteq S
    <3> HIDE DEF S
    <3> QED BY <1>6, <1>7, UpTo
  <2>2. n \in 0..n
    OBVIOUS
  <2> HIDE DEF S
  <2> QED BY <2>1, <2>2
<1>9. f[1] = Rest(n)
  <2>1. n - n = 0 /\ P(0) = 1
    BY <1>3
  <2> HIDE DEF P, Rest
  <2> QED BY <1>8, <2>1
<1>10. Rest(n) = [i \in 1..n |-> Meant(tlvs[i])]
  <2>1. \A k \in 1..n : (n - n) + k = k
    OBVIOUS
  <2>2. \A k \in 1..n : Meant(tlvs[(n - n) + k]) = Meant(tlvs[k])
    BY <2>1
  <2> QED BY <2>2
<1> QED BY <1>4, <1>9, <1>10

\* What a string of digits was decoded to is shown as that string, with the 0
\* that an odd number of digits lacks.
THEOREM HexShownAgain ==
  ASSUME NEW hex \in Seq(0..NoDigit), IsHex(hex), NEW size \in Nat, Len(hex) <= 2 * size
  PROVE  Bytes2Hex(Hex2Bytes(hex, size).bytes) = Whole(hex)
<1> DEFINE W == Whole(hex)  v == HexValue(hex)
<1>0. PICK m \in Nat : m = Len(W) /\ m % 2 = 0
  BY WholeAt
<1>1. PICK h \in Nat : h = Len(W) \div 2 /\ Len(W) = 2 * h
  <2>1. m \div 2 \in Nat /\ m = 2 * (m \div 2)
    BY <1>0
  <2> HIDE DEF W
  <2> QED BY <2>1, <1>0
<1>2. W \in Seq(0..NoDigit) /\ \A i \in 1..2 * h : W[i] \in 0..15
  <2>1. PICK n \in Nat : n = Len(hex)
    OBVIOUS
  <2>2. PICK s \in {0, 1} : s = n % 2 /\ 2 * h = n + s
    BY <2>1, <1>1, WholeAt
  <2>3. /\ W \in Seq(0..NoDigit) /\ \A i \in 1..n : W[s + i] = hex[i]
        /\ s = 1 => W[1] = 0
    BY <2>1, <2>2, WholeAt
  <2>4. \A i \in 1..n : hex[i] \in 0..NoDigit /\ hex[i] # NoDigit
    <3>1. \A i \in 1..n : hex[i] \in 0..NoDigit
      BY <2>1, ElementOfSeq
    <3>2. \A i \in 1..n : hex[i] # NoDigit
      BY <2>1 DEF IsHex
    <3> QED BY <3>1, <3>2
  <2>5. \A c \in 0..NoDigit : c # NoDigit => c \in 0..15
    BY DEF NoDigit
  <2> HIDE DEF W
  <2>6. ASSUME NEW i \in 1..2 * h PROVE W[i] \in 0..15
    <3>1. CASE s = 1 /\ i = 1
      BY <3>1, <2>3
    <3>2. CASE ~(s = 1 /\ i = 1)
      <4>1. i - s \in 1..n /\ s + (i - s) = i
        BY <3>2, <2>2
      <4>2. W[i] = hex[i - s]
        BY <4>1, <2>3
      <4> QED BY <4>1, <4>2, <2>4, <2>5
    <3> QED BY <3>1, <3>2
  <2> QED BY <2>3, <2>6
<1>3. v = [k \in 1..h |-> 16 * W[2 * k - 1] + W[2 * k]]
  BY <1>1 DEF HexValue, Whole
<1> HIDE DEF W, v
<1>4. \A k \in 1..h : 2 * k - 1 \in 1..2 * h /\ 2 * k \in 1..2 * h
  OBVIOUS
<1>5. \A x, y \in 0..15 : (16 * x + y) \div 16 = x /\ (16 * x + y) % 16 = y /\ 16 * x + y \in 0..255
  OBVIOUS
<1>6. \A k \in 1..h : v[k] \div 16 = W[2 * k - 1] /\ v[k] % 16 = W[2 * k] /\ v[k] \in 0..255
  <2> TAKE k \in 1..h
  <2>1. W[2 * k - 1] \in 0..15 /\ W[2 * k] \in 0..15
    BY <1>2, <1>4
  <2>2. v[k] = 16 * W[2 * k - 1] + W[2 * k]
    BY <1>3
  <2>3. PICK x \in 0..15, y \in 0..15 : x = W[2 * k - 1] /\ y = W[2 * k] /\ v[k] = 16 * x + y
    BY <2>1, <2>2
  <2>4. (16 * x + y) \div 16 = x /\ (16 * x + y) % 16 = y /\ 16 * x + y \in 0..255
    BY <1>5
  <2> QED BY <2>3, <2>4, Zenon
<1>7. v \in Seq(0..255) /\ Len(v) = h
  <2>1. v = [k \in 1..h |-> v[k]]
    BY <1>3
  <2>2. [k \in 1..h |-> v[k]] \in Seq(0..255)
    BY <1>6, IsASeq
  <2>3. Len([k \in 1..h |-> v[k]]) = h
    OBVIOUS
  <2> QED BY <2>1, <2>2, <2>3
<1> DEFINE b == Bytes2Hex(v)
<1>8. /\ b \in Seq(0..15) /\ Len(b) = 2 * h
      /\ \A k \in 1..h : b[2 * k - 1] = v[k] \div 16 /\ b[2 * k] = v[k] % 16
  BY <1>7, DigitsOfBytes
<1> HIDE DEF b
<1>9. ASSUME NEW i \in 1..2 * h PROVE b[i] = W[i]
  <2>1. CASE i % 2 = 1
    <3>1. PICK k \in 1..h : i = 2 * k - 1
      <4>1. (i + 1) \div 2 \in 1..h /\ i = 2 * ((i + 1) \div 2) - 1
        BY <2>1
      <4> QED BY <4>1
    <3> QED BY <3>1, <1>6, <1>8
  <2>2. CASE i % 2 # 1
    <3>1. PICK k \in 1..h : i = 2 * k
      <4>1. i \div 2 \in 1..h /\ i = 2 * (i \div 2)
        BY <2>2
      <4> QED BY <4>1
    <3> QED BY <3>1, <1>6, <1>8
  <2> QED BY <2>1, <2>2
<1>10. b = W
  <2>1. DOMAIN b = 1..2 * h /\ DOMAIN W = 1..2 * h
    <3>1. DOMAIN b = 1..Len(b)
      BY <1>8, LenProperties
    <3>2. DOMAIN W = 1..Len(W)
      BY <1>2, LenProperties
    <3> QED BY <3>1, <3>2, <1>1, <1>8
  <2>2. b = [i \in 1..2 * h |-> b[i]] /\ W = [i \in 1..2 * h |-> W[i]]
    BY <1>1, <1>2, <1>8, <2>1
  <2> QED BY <2>2, <1>9
<1>11. Hex2Bytes(hex, size).bytes = v
  BY HexDecoded DEF v
<1> QED BY <1>10, <1>11 DEF b, W

LEMMA ReversedTwice ==
  ASSUME NEW long \in Seq(0..255) PROVE Reverse(Reverse(long)) = long
<1>1. PICK n \in Nat : n = Len(long)
  OBVIOUS
<1> DEFINE r == Reverse(long)
<1>2. r = [i \in 1..n |-> long[(n - i) + 1]]
  BY <1>1 DEF Reverse
<1>3. Len(r) = n
  <2>1. Len([i \in 1..n |-> long[(n - i) + 1]]) = n
    OBVIOUS
  <2> QED BY <1>2, <2>1
<1>4. Reverse(r) = [i \in 1..n |-> r[(n - i) + 1]]
  BY <1>3 DEF Reverse
<1>5. \A i \in 1..n : (n - i) + 1 \in 1..n /\ (n - ((n - i) + 1)) + 1 = i
  OBVIOUS
<1> HIDE DEF r
<1>6. \A i \in 1..n : r[(n - i) + 1] = long[i]
  BY <1>2, <1>5
<1>7. long = [i \in 1..n |-> long[i]]
  BY <1>1
<1> QED BY <1>4, <1>6, <1>7 DEF r

\* An extended PAN id is shown (Long2Hex and HostSwap64, hex.cpp and
\* encoding.hpp) as the digits that Hex2Bytes turns into the same 8 bytes.
THEOREM PanIdTypedIn ==
  ASSUME NEW long \in Seq(0..255), Len(long) = 8
  PROVE  LET shown == Long2Hex(HostSwap64(long))
         IN Hex2Bytes(shown, 8).n = 8 /\ Hex2Bytes(shown, 8).bytes = long
<1>1. Long2Hex(HostSwap64(long)) = Bytes2Hex(long)
  BY ReversedTwice DEF Long2Hex, HostSwap64
<1>2. 8 \in Nat /\ Len(long) <= 8
  OBVIOUS
<1> QED BY <1>1, <1>2, HexRoundTrip

\* What was sent through wpantund (ncp_wpantund.cpp) is handed to the border agent
\* with its address and port if its socket's port is kBorderAgentUdpPort, and
\* otherwise dropped.
THEOREM AnswerReaches ==
  ASSUME NEW packet \in Seq(0..255), NEW peerPort \in Nat, peerPort < 65536,
         NEW peerAddr \in Seq(0..255), Len(peerAddr) = 16, NEW sockPort \in Nat, sockPort < 65536
  PROVE  SendToCommissioner(UdpProxyStream(UdpProxySend(packet, peerPort, peerAddr, sockPort)))
           = IF sockPort = kBorderAgentUdpPort
             THEN {[packet |-> packet, addr |-> peerAddr, port |-> peerPort]} ELSE {}
<1> DEFINE e == UdpProxyStream(UdpProxySend(packet, peerPort, peerAddr, sockPort))
<1>1. e = [sockPort |-> sockPort, peerAddr |-> peerAddr, peerPort |-> peerPort, packet |-> packet]
  BY DatagramReadAsSent
<1> HIDE DEF e
<1>2. e.sockPort = sockPort /\ e.peerAddr = peerAddr /\ e.peerPort = peerPort /\ e.packet = packet
  BY <1>1
<1> QED BY <1>2 DEF SendToCommissioner, e

=============================================================================
