------------------------------- MODULE Codecs -------------------------------
(***************************************************************************)
(* The conversions of the border router: hexadecimal strings (hex.cpp),    *)
(* CRCs and the Bloom filter of the steering data (crc16.cpp,              *)
(* steering_data.cpp, device_hash.cpp), the TLVs of MeshCoP messages       *)
(* (tlv.hpp), the datagrams tunnelled through wpantund (ncp_wpantund.cpp), *)
(* the key PSKc (pskc.cpp) and the times of the DTLS server (time.hpp,     *)
(* dtls_mbedtls.cpp).                                                      *)
(*                                                                         *)
(* A buffer is a sequence of bytes, a character of a hexadecimal string    *)
(* its value or NoDigit, a 64 bit number the sequence of its bytes, most   *)
(* significant first, a CRC the set of its bits that are 1, and a Bloom    *)
(* filter the set of the <<byte, bit>> that are 1.                         *)
(***************************************************************************)
EXTENDS Integers, SequencesExt

NoDigit == 16

Bits(byte) == {i \in 0..7 : (byte \div 2^i) % 2 = 1}

-----------------------------------------------------------------------------
(* hex.cpp, encoding.hpp *)

\* The value returned, n, and the bytes stored: a character that is no digit
\* ends the conversion after what was stored before it.
Hex2Bytes(hex, size) ==
  LET Digit(s, c) ==
        IF s.bad \/ c = NoDigit THEN [s EXCEPT !.bad = TRUE]
        ELSE IF s.numChars = 1
             THEN [s EXCEPT !.bytes = Append(@, s.byte + c), !.numChars = 0, !.byte = 0]
             ELSE [s EXCEPT !.numChars = 1, !.byte = 16 * c]
      after[i \in 0..Len(hex)] ==
        IF i = 0 THEN [bytes |-> <<>>, numChars |-> Len(hex) % 2, byte |-> 0, bad |-> FALSE]
        ELSE Digit(after[i - 1], hex[i])
      read == after[Len(hex)]
  IN IF (Len(hex) + 1) \div 2 > size THEN [n |-> -1, bytes |-> <<>>]
     ELSE [n |-> IF read.bad THEN -1 ELSE Len(read.bytes), bytes |-> read.bytes]

\* The first bytes of a buffer overwritten.
StoredShort(buffer, bytes) ==
  [i \in DOMAIN buffer |-> IF i + 1 \in DOMAIN bytes THEN bytes[i] ELSE buffer[i]]
Stored(buffer, bytes) ==
  [i \in DOMAIN buffer |-> IF i \in DOMAIN bytes THEN bytes[i] ELSE buffer[i]]

Bytes2Hex(bytes) ==
  [k \in 1..2 * Len(bytes) |->
     IF k % 2 = 1 THEN bytes[(k + 1) \div 2] \div 16 ELSE bytes[k \div 2] % 16]

Long2HexForward(long) == Bytes2Hex(long)
Long2Hex(long) == Bytes2Hex(Reverse(long))

\* On a little-endian host.
HostSwap64(long) == Reverse(long)

-----------------------------------------------------------------------------
(* crc16.cpp, steering_data.cpp, device_hash.cpp *)

kCcitt == {0, 5, 12}
kAnsi  == {0, 2, 15}

Xor(a, b) == (a \ b) \cup (b \ a)

Update(polynomial, crc, byte) ==
  LET Shift(c, i) ==
        LET shifted == {b + 1 : b \in c \ {15}}
        IN IF 15 \in c THEN Xor(shifted, polynomial) ELSE shifted
  IN FoldLeft(Shift, Xor(crc, {i + 8 : i \in Bits(byte)}), [i \in 1..8 |-> i])

Crc16(polynomial, bytes) ==
  FoldLeft(LAMBDA c, b : Update(polynomial, c, b), {}, bytes)

Number(bits) == FoldSet(LAMBDA i, n : n + 2^i, 0, bits)

kMaxSizeOfBloomFilter == 16

SetBitForward(filter, mLength, aBit) ==
  filter \cup {<<(aBit % 256) \div 8, aBit % 8>>}
SetBit(filter, mLength, aBit) ==
  filter \cup {<<mLength - 1 - (aBit % 256) \div 8, aBit % 8>>}

ComputeBloomFilter(filter, mLength, joinerId) ==
  LET Bit(polynomial) == Number(Crc16(polynomial, joinerId)) % (mLength * 8)
  IN SetBit(SetBit(filter, mLength, Bit(kCcitt)), mLength, Bit(kAnsi))

ComputeHashMac(sha256) ==
  [SubSeq(sha256, 1, 8) EXCEPT ![1] = IF 1 \in Bits(@) THEN @ ELSE @ + 2]

ComputeSteeringData(filter, mLength, allowAny, sha256) ==
  IF allowAny THEN (0..kMaxSizeOfBloomFilter - 1) \X (0..7)
  ELSE ComputeBloomFilter(filter, mLength, ComputeHashMac(sha256))

-----------------------------------------------------------------------------
(* tlv.hpp: a position p in a buffer is the Tlv that starts there. *)

kLengthEscape == 255

UInt16(v) == <<v \div 256, v % 256>>

SetLengthAbove(length, forceExtended) ==
  IF length > kLengthEscape \/ forceExtended
  THEN <<kLengthEscape>> \o UInt16(length) ELSE <<length>>
SetLength(length, forceExtended) ==
  IF length >= kLengthEscape \/ forceExtended
  THEN <<kLengthEscape>> \o UInt16(length) ELSE <<length>>

Tlv(type, value, forceExtended) ==
  <<type>> \o SetLength(Len(value), forceExtended) \o value

GetLength(buffer, p) ==
  IF buffer[p + 1] # kLengthEscape THEN buffer[p + 1]
  ELSE buffer[p + 2] * 256 + buffer[p + 3]

GetValue(buffer, p) == IF buffer[p + 1] # kLengthEscape THEN p + 2 ELSE p + 4

GetNext(buffer, p) == GetValue(buffer, p) + GetLength(buffer, p)

\* The loop of every handler that reads a message.  It would run past the end of
\* a Tlv that is cut off; here it stops before.
Tlvs(buffer) ==
  LET Fits(p) == /\ p < Len(buffer)
                 /\ buffer[p + 1] = kLengthEscape => p + 3 <= Len(buffer)
                 /\ GetNext(buffer, p) <= Len(buffer) + 1
      from[p \in 1..Len(buffer) + 1] ==
        IF ~Fits(p) THEN <<>>
        ELSE <<[type  |-> buffer[p],
                value |-> SubSeq(buffer, GetValue(buffer, p), GetNext(buffer, p) - 1)]>>
             \o from[GetNext(buffer, p)]
  IN from[1]

-----------------------------------------------------------------------------
(* ncp_wpantund.cpp, border_agent.cpp: a commissioner's datagrams go to the *)
(* Thread network, and its answers back, as values of a wpantund property.  *)

kBorderAgentUdpPort == 49191

UdpProxySendHostOrder(packet, peerPort, peerAddr, sockPort) ==
  packet \o Reverse(UInt16(peerPort)) \o peerAddr \o UInt16(sockPort)
UdpProxySend(packet, peerPort, peerAddr, sockPort) ==
  packet \o UInt16(peerPort) \o peerAddr \o UInt16(sockPort)

UdpProxyStream(buf) ==
  LET n == Len(buf) IN
    [sockPort |-> buf[n] + 256 * buf[n - 1], peerAddr |-> SubSeq(buf, n - 17, n - 2),
     peerPort |-> buf[n - 18] + 256 * buf[n - 19], packet |-> SubSeq(buf, 1, n - 20)]

\* What the border agent sends of it, and where.
SendToCommissioner(e) ==
  IF e.sockPort = kBorderAgentUdpPort
  THEN {[packet |-> e.packet, addr |-> e.peerAddr, port |-> e.peerPort]} ELSE {}

-----------------------------------------------------------------------------
(* pskc.cpp *)

SaltNoName(extPanId, networkName) == <<84, 104, 114, 101, 97, 100>> \o extPanId
Salt(extPanId, networkName) ==
  <<84, 104, 114, 101, 97, 100>> \o extPanId \o networkName

\* aes_cmac_prf_128, of which only what went into it matters: a string of
\* bytes, and the keys it was applied with.
Plain(bytes) == [bytes |-> bytes, keys |-> <<>>]
Prf(key, input) == [input EXCEPT !.keys = Append(@, key)]

\* The exclusive or of its iterations (OT_ITERATION_COUNTS), as the set of its
\* terms.  The key is as long as one block.
ComputePskc(extPanId, networkName, passphrase, iterations) ==
  LET Iterate(s, i) == LET u == Prf(passphrase, s.prfOutput)
                       IN [prfOutput |-> u, keyBlock |-> Xor(s.keyBlock, {u})]
      first == Prf(passphrase, Plain(Salt(extPanId, networkName) \o <<0, 0, 0, 1>>))
  IN FoldLeft(Iterate, [prfOutput |-> first, keyBlock |-> {first}],
              [i \in 1..iterations - 1 |-> i]).keyBlock

-----------------------------------------------------------------------------
(* time.hpp, dtls_mbedtls.cpp: a time is a number of milliseconds modulo   *)
(* 2^width, the range of unsigned long.                                    *)

Wrapped(width, t) == t % 2^width
Signed(width, t) ==
  LET u == Wrapped(width, t) IN IF u >= 2^(width - 1) THEN u - 2^width ELSE u

\* UpdateFdSet: the sessions that stay, and the time select may take.
ExpireLate(width, now, timeout, expirations) ==
  LET alive == {e \in expirations : e >= now}
  IN [alive |-> alive,
      timeout |-> FoldSet(LAMBDA e, t : IF Signed(width, e - (now + t)) < 0
                                        THEN Wrapped(width, e - now) ELSE t,
                          timeout, alive)]
Expire(width, now, timeout, expirations) ==
  LET alive == {e \in expirations : e > now}
  IN [alive |-> alive,
      timeout |-> FoldSet(LAMBDA e, t : IF Signed(width, e - (now + t)) < 0
                                        THEN Wrapped(width, e - now) ELSE t,
                          timeout, alive)]

SetDelay(width, now, intermediate, final) ==
  [mIntermediate |-> Wrapped(width, now + intermediate),
   mFinal |-> Wrapped(width, now + final), mIsTimerSet |-> final # 0]

\* 0: neither delay is over, 1: the intermediate one is, 2: both are.
GetDelayUnsigned(width, timer, now) ==
  IF ~timer.mIsTimerSet THEN -1
  ELSE IF timer.mFinal <= now THEN 2
  ELSE IF timer.mIntermediate <= now THEN 1 ELSE 0
GetDelay(width, timer, now) ==
  IF ~timer.mIsTimerSet THEN -1
  ELSE IF Signed(width, timer.mFinal - now) <= 0 THEN 2
  ELSE IF Signed(width, timer.mIntermediate - now) <= 0 THEN 1 ELSE 0
=============================================================================
