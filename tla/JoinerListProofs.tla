-------------------------- MODULE JoinerListProofs --------------------------
(***************************************************************************)
(* The copies of the joiner list agree, the filter admits exactly the      *)
(* joiners listed and the network is told: for any names, EUI64s, bits,    *)
(* requests and number of restarts.  A joiner just edited or removed is    *)
(* found accordingly if no body POSTed names a joiner twice.               *)
(***************************************************************************)
EXTENDS JoinerList, SequenceTheorems, WellFoundedInduction, TLAPS

-----------------------------------------------------------------------------
(* Sequences.                                                              *)

\* A set of numbers that is not empty has a least element, which Min returns.
LEMMA MinIsLeast ==
  ASSUME NEW T, T \subseteq Nat, T # {}
  PROVE  Min(T) \in T /\ \A x \in T : Min(T) <= x
<1> DEFINE R == {ss \in Nat \X Nat : ss[1] < ss[2]}
<1>1. IsWellFoundedOn(R, Nat)
  BY NatLessThanWellFounded DEF OpToRel
<1> HIDE DEF R
<1>2. PICK x \in T : \A y \in T : <<y, x>> \notin R
  BY <1>1, WFMin
<1>3. ASSUME NEW y \in T
      PROVE  x <= y
  <2>1. x \in Nat /\ y \in Nat
    OBVIOUS
  <2>2. y < x => <<y, x>> \in R
    BY <2>1 DEF R
  <2> QED BY <1>2, <2>1, <2>2
<1> QED BY <1>3 DEF Min

\* IndexOf returns the first place of a name in the array.
LEMMA IndexOfFirst ==
  ASSUME NEW name, array \in Seq(Names)
  PROVE  \/ IndexOf(name) = 0 /\ \A i \in 1..Len(array) : array[i] # name
         \/ /\ IndexOf(name) \in 1..Len(array)
            /\ array[IndexOf(name)] = name
<1> DEFINE I == {i \in 1..Len(array) : array[i] = name}
<1>1. IndexOf(name) = IF I # {} THEN Min(I) ELSE 0
  BY DEF IndexOf, SelectInSeq
<1>2. I \subseteq Nat
  OBVIOUS
<1> HIDE DEF I
<1>3. I # {} => Min(I) \in I
  BY <1>2, MinIsLeast
<1> QED BY <1>1, <1>3 DEF I

\* What is accepted of a body are entries, all of them before the first bad one.
LEMMA AcceptedEntries ==
  ASSUME NEW body \in Seq(Entries \cup {Bad})
  PROVE  /\ Accepted(body) \in Seq(Entries)
         /\ Len(Accepted(body)) <= Len(body)
         /\ \A i \in 1..Len(Accepted(body)) : Accepted(body)[i] = body[i] /\ body[i] # Bad
<1> DEFINE I == {i \in 1..Len(body) : body[i] = Bad}
<1>1. Accepted(body) = LET i == IF I # {} THEN Min(I) ELSE 0
                       IN IF i = 0 THEN body ELSE SubSeq(body, 1, i - 1)
  BY DEF Accepted, SelectInSeq
<1>2. CASE I = {}
  <2>1. Accepted(body) = body
    BY <1>1, <1>2
  <2>2. \A i \in 1..Len(body) : body[i] \in Entries /\ body[i] # Bad
    BY <1>2
  <2>3. body \in Seq(Entries)
    BY <2>2, LenProperties
  <2> QED BY <2>1, <2>2, <2>3
<1>3. CASE I # {}
  <2> DEFINE m == Min(I)
  <2>1. m \in I /\ \A x \in I : m <= x
    <3>1. I \subseteq Nat
      OBVIOUS
    <3> HIDE DEF I
    <3> QED BY <1>3, <3>1, MinIsLeast
  <2> HIDE DEF m
  <2>2. /\ m \in 1..Len(body)
        /\ \A i \in 1..(m - 1) : body[i] \in Entries /\ body[i] # Bad
    BY <2>1
  <2>3. Accepted(body) = SubSeq(body, 1, m - 1)
    <3>1. m # 0
      BY <2>2
    <3> HIDE DEF I
    <3> QED BY <1>1, <1>3, <3>1 DEF m
  <2> QED BY <2>2, <2>3, SubSeqProperties
<1> QED BY <1>2, <1>3

\* RemoveAt takes out one element and moves the later ones up.
LEMMA RemoveAtProperties ==
  ASSUME NEW S, NEW s \in Seq(S), NEW i \in 1..Len(s)
  PROVE  /\ RemoveAt(s, i) \in Seq(S)
         /\ Len(RemoveAt(s, i)) = Len(s) - 1
         /\ \A j \in 1..(Len(s) - 1) :
              RemoveAt(s, i)[j] = IF j < i THEN s[j] ELSE s[j + 1]
<1> DEFINE a == SubSeq(s, 1, i - 1)
           b == SubSeq(s, i + 1, Len(s))
<1>1. Len(s) \in Nat /\ i \in Int /\ \A j \in 1..Len(s) : s[j] \in S
  BY ElementOfSeq, LenProperties
<1>2. /\ a \in Seq(S) /\ Len(a) = i - 1
      /\ \A j \in 1..(i - 1) : a[j] = s[j]
  BY <1>1, SubSeqProperties
<1>3. /\ b \in Seq(S) /\ Len(b) = Len(s) - i
      /\ \A j \in 1..(Len(s) - i) : b[j] = s[i + j]
  <2>1. \A j \in (i + 1)..Len(s) : s[j] \in S
    BY <1>1
  <2> QED BY <1>1, <2>1, SubSeqProperties
<1>4. RemoveAt(s, i) = a \o b
  BY DEF RemoveAt
<1> HIDE DEF a, b
<1>5. /\ a \o b \in Seq(S) /\ Len(a \o b) = Len(s) - 1
      /\ \A j \in 1..(Len(s) - 1) : (a \o b)[j] = IF j <= i - 1 THEN a[j] ELSE b[j - (i - 1)]
  <2>1. Len(a) + Len(b) = Len(s) - 1
    BY <1>1, <1>2, <1>3
  <2>2. /\ a \o b \in Seq(S) /\ Len(a \o b) = Len(a) + Len(b)
        /\ \A j \in 1..(Len(a) + Len(b)) :
             (a \o b)[j] = IF j <= Len(a) THEN a[j] ELSE b[j - Len(a)]
    BY <1>2, <1>3, ConcatProperties
  <2>3. Len(a) = i - 1
    BY <1>2
  <2> QED BY <2>1, <2>2, <2>3
<1>6. \A j \in 1..(Len(s) - 1) : (a \o b)[j] = IF j < i THEN s[j] ELSE s[j + 1]
  <2> TAKE j \in 1..(Len(s) - 1)
  <2>1. CASE j < i
    BY <1>1, <1>2, <1>5, <2>1
  <2>2. CASE ~(j < i)
    <3>1. j - (i - 1) \in 1..(Len(s) - i) /\ i + (j - (i - 1)) = j + 1
      BY <1>1, <2>2
    <3> QED BY <1>1, <1>3, <1>5, <2>2, <3>1
  <2> QED BY <2>1, <2>2
<1> QED BY <1>4, <1>5, <1>6
-----------------------------------------------------------------------------
(* The invariant.                                                          *)

OpType ==
  \/ op.kind = "write" /\ op.body \in Bodies
  \/ /\ op.kind = "edit"
     /\ op \in [kind : {"edit"}, name : Names, psk : Psks, recalc : BOOLEAN]
     /\ at = "begun" => ~op.recalc
  \/ op.kind = "remove" /\ op.name \in Names /\ op.recalc
  \/ op.kind = "clear"
  \/ op.kind = "read" /\ at = "begun"

TypeOK ==
  /\ array \in Seq(Names) /\ vector \in Seq(Entries)
  /\ updated \in BOOLEAN /\ missed \in BOOLEAN
  /\ at \in {"idle", "begun", "half"}
  /\ tpc \in {"test", "take", "finish"}
  /\ at # "idle" => OpType

BitsUpTo(v, n) == UNION {Bits(v[i].name) : i \in 1..n}

\* The filter holds the bits of the vector, except half-way through a request:
\* then those of the entry just appended are missing, or all of them are about
\* to be computed again.
SteeringKnown ==
  /\ at # "half" => steering = BitsUpTo(vector, Len(vector))
  /\ at = "half" /\ op.kind = "clear" => vector = <<>> /\ steering = {}
  /\ at = "half" /\ op.kind = "edit" =>
       /\ Len(vector) > 0
       /\ ~op.recalc => steering = BitsUpTo(vector, Len(vector) - 1)

\* What was sent is current from the moment it is sent, unless a request is
\* half-way, until the list changes: it then raises the flag again, or is missed.
ToldKnown ==
  at # "half" /\ ~missed /\ (tpc = "finish" \/ (tpc = "test" /\ ~updated))
  => told = steering

IndInv == TypeOK /\ Aligned /\ SteeringKnown /\ ToldKnown

\* What a name's EUI64 sets in the filter depends on the vector up to there.
LEMMA BitsAgree ==
  ASSUME NEW v, NEW w, NEW n \in Nat, \A i \in 1..n : v[i].name = w[i].name
  PROVE  BitsUpTo(v, n) = BitsUpTo(w, n)
BY DEF BitsUpTo, Bits

LEMMA BitsExtend ==
  ASSUME NEW v, NEW n \in Nat, n > 0
  PROVE  BitsUpTo(v, n) = BitsUpTo(v, n - 1) \cup Bits(v[n].name)
<1>1. 1..n = 1..(n - 1) \cup {n}
  OBVIOUS
<1> QED BY <1>1 DEF BitsUpTo

LEMMA BitsOfNone == ASSUME NEW v PROVE BitsUpTo(v, 0) = {}
<1>1. 1..0 = {}
  OBVIOUS
<1> QED BY <1>1 DEF BitsUpTo

LEMMA InitHolds == Init => IndInv
<1> SUFFICES ASSUME Init PROVE IndInv
  OBVIOUS
<1>1. Len(array) = 0 /\ Len(vector) = 0 /\ array = <<>> /\ vector = <<>>
  BY EmptySeq DEF Init
<1>2. TypeOK
  BY EmptySeq DEF Init, TypeOK
<1>3. Aligned
  BY <1>1 DEF Aligned
<1>4. SteeringKnown
  BY <1>1, BitsOfNone DEF Init, SteeringKnown
<1>5. ToldKnown
  BY DEF Init, ToldKnown
<1> QED BY <1>2, <1>3, <1>4, <1>5 DEF IndInv

\* Raising the flag settles what is to be told.
LEMMA FlagRaised ==
  ASSUME TypeOK, SetUpdated, UNCHANGED threadVars
  PROVE  updated' \in BOOLEAN /\ missed' \in BOOLEAN /\ ToldKnown'
BY DEF TypeOK, SetUpdated, ToldKnown, threadVars

\* A step that leaves the lists and the filter keeps what is known of them.
LEMMA ListsKept ==
  ASSUME IndInv, UNCHANGED <<listVars, steering>>, at' # "half"
  PROVE  /\ array' \in Seq(Names) /\ vector' \in Seq(Entries) /\ Aligned'
         /\ at # "half" => SteeringKnown'
BY DEF IndInv, TypeOK, Aligned, SteeringKnown, listVars

LEMMA BeginKeeps ==
  ASSUME IndInv, NEW o \in Requests, Begin(o)
  PROVE  IndInv'
<1>1. CASE Touch(o)
  <2>1. UNCHANGED <<array, vector, steering, updated, op, at, tpc, told, missed>>
    BY <1>1 DEF Touch, listVars, threadVars
  <2>2. TypeOK'
    BY <2>1 DEF IndInv, TypeOK, OpType
  <2>3. Aligned' /\ SteeringKnown' /\ ToldKnown'
    BY <2>1 DEF IndInv, Aligned, SteeringKnown, ToldKnown
  <2> QED BY <2>2, <2>3 DEF IndInv
<1>2. CASE at = "idle" /\ at' = "begun" /\ op' = o /\
           UNCHANGED <<listVars, steering, updated, threadVars, missed>>
  <2>1. OpType'
    <3>1. CASE o \in {[kind |-> "write", body |-> b] : b \in Bodies}
      BY <1>2, <3>1 DEF OpType
    <3>2. CASE o \in {[kind |-> "edit", name |-> n, psk |-> p, recalc |-> FALSE] :
                        n \in Names, p \in Psks}
      <4>1. PICK n \in Names, p \in Psks :
              o = [kind |-> "edit", name |-> n, psk |-> p, recalc |-> FALSE]
        BY <3>2
      <4>2. /\ o \in [kind : {"edit"}, name : Names, psk : Psks, recalc : BOOLEAN]
            /\ o.kind = "edit" /\ ~o.recalc
        BY <4>1
      <4> QED BY <1>2, <4>2 DEF OpType
    <3>3. CASE o \in {[kind |-> "remove", name |-> n, recalc |-> TRUE] : n \in Names}
      BY <1>2, <3>3 DEF OpType
    <3>4. CASE o \in {[kind |-> "clear"], [kind |-> "read"]}
      BY <1>2, <3>4 DEF OpType
    <3> QED BY <3>1, <3>2, <3>3, <3>4 DEF Requests
  <2>2. TypeOK' /\ Aligned' /\ SteeringKnown'
    BY <1>2, <2>1, ListsKept DEF IndInv, TypeOK, threadVars
  <2>3. ToldKnown'
    BY <1>2 DEF IndInv, ToldKnown, threadVars
  <2> QED BY <2>2, <2>3 DEF IndInv
<1> QED BY <1>1, <1>2 DEF Begin

-----------------------------------------------------------------------------
(* Write.                                                                  *)

\* Filling the lists from a body aligns them and the filter.
LEMMA Filled ==
  ASSUME NEW entries \in Seq(Entries), Fill(entries)
  PROVE  /\ array' \in Seq(Names) /\ vector' \in Seq(Entries)
         /\ Aligned'
         /\ steering' = BitsUpTo(vector', Len(vector'))
<1>1. /\ DOMAIN entries = 1..Len(entries) /\ Len(entries) \in Nat
      /\ \A i \in 1..Len(entries) : entries[i].name \in Names
  <2>1. \A i \in 1..Len(entries) : entries[i] \in Entries
    BY ElementOfSeq
  <2> QED BY <2>1, LenProperties DEF Entries
<1>2. vector' = entries
  BY DEF Fill
<1>3. /\ array' \in Seq(Names) /\ Len(array') = Len(entries)
      /\ \A i \in 1..Len(entries) : array'[i] = entries[i].name
  BY <1>1 DEF Fill
<1>4. Aligned'
  BY <1>2, <1>3, LenProperties DEF Aligned
<1>5. steering' = BitsUpTo(vector', Len(vector'))
  BY <1>1, <1>2 DEF Fill, BitsUpTo
<1> QED BY <1>2, <1>3, <1>4, <1>5

LEMMA WriteClearKeeps == ASSUME IndInv, WriteClear PROVE IndInv'
<1>1. /\ array' = <<>> /\ vector' = <<>> /\ at' = "half" /\ op' = op
      /\ op.kind = "write" /\ UNCHANGED <<updated, missed, tpc>> /\ at = "begun"
  BY DEF WriteClear, threadVars
<1>2. OpType'
  BY <1>1 DEF IndInv, TypeOK, OpType
<1>3. TypeOK'
  BY <1>1, <1>2, EmptySeq DEF IndInv, TypeOK
<1>4. Aligned'
  BY <1>1, EmptySeq DEF Aligned
<1>5. SteeringKnown' /\ ToldKnown'
  BY <1>1 DEF SteeringKnown, ToldKnown
<1> QED BY <1>3, <1>4, <1>5 DEF IndInv

LEMMA WriteAllKeeps == ASSUME IndInv, WriteAll PROVE IndInv'
<1>1. op.body \in Seq(Entries \cup {Bad}) /\ Bad \notin Range(op.body)
  BY JoinerListAssumption DEF WriteAll, IndInv, TypeOK, OpType
<1>2. op.body \in Seq(Entries)
  <2>1. \A i \in 1..Len(op.body) : op.body[i] \in Entries
    BY <1>1, ElementOfSeq, LenProperties DEF Range
  <2> QED BY <1>1, <2>1, LenProperties
<1>3. /\ array' \in Seq(Names) /\ vector' \in Seq(Entries) /\ Aligned'
      /\ steering' = BitsUpTo(vector', Len(vector'))
  BY <1>2, Filled DEF WriteAll
<1>4. at' = "idle" /\ tpc' = tpc
  BY DEF WriteAll, Return, threadVars
<1>5. updated' \in BOOLEAN /\ missed' \in BOOLEAN /\ ToldKnown'
  BY FlagRaised DEF WriteAll, IndInv
<1>6. TypeOK' /\ SteeringKnown'
  BY <1>3, <1>4, <1>5 DEF IndInv, TypeOK, SteeringKnown
<1> QED BY <1>3, <1>5, <1>6 DEF IndInv

LEMMA WriteRejectedKeeps == ASSUME IndInv, WriteRejected PROVE IndInv'
<1>1. op.body \in Seq(Entries \cup {Bad})
  BY JoinerListAssumption DEF WriteRejected, IndInv, TypeOK, OpType
<1>2. /\ array' \in Seq(Names) /\ vector' \in Seq(Entries) /\ Aligned'
      /\ steering' = BitsUpTo(vector', Len(vector'))
  BY <1>1, AcceptedEntries, Filled DEF WriteRejected
<1>3. at' = "idle" /\ tpc' = tpc /\ missed' = TRUE /\ updated' = updated
  BY DEF WriteRejected, threadVars
<1>4. TypeOK' /\ SteeringKnown' /\ ToldKnown'
  BY <1>2, <1>3 DEF IndInv, TypeOK, SteeringKnown, ToldKnown
<1> QED BY <1>2, <1>4 DEF IndInv
-----------------------------------------------------------------------------
(* Edit and Remove.                                                        *)

\* Both lists lose the element at the same place.
LEMMA Erased ==
  ASSUME array \in Seq(Names), vector \in Seq(Entries), Aligned, NEW i \in 0..Len(array)
  PROVE  /\ ErasedArray(i) \in Seq(Names) /\ ErasedVector(i) \in Seq(Entries)
         /\ Len(ErasedArray(i)) = Len(ErasedVector(i))
         /\ \A j \in 1..Len(ErasedArray(i)) : ErasedArray(i)[j] = ErasedVector(i)[j].name
<1>1. /\ Len(array) = Len(vector) /\ Len(array) \in Nat
      /\ \A j \in 1..Len(array) : array[j] = vector[j].name
  BY LenProperties DEF Aligned
<1>2. CASE i = 0
  BY <1>1, <1>2 DEF ErasedArray, ErasedVector
<1>3. CASE i # 0
  <2>1. i \in 1..Len(array) /\ i \in 1..Len(vector)
    BY <1>1, <1>3
  <2>2. ErasedArray(i) = RemoveAt(array, i) /\ ErasedVector(i) = RemoveAt(vector, i)
    BY <1>3 DEF ErasedArray, ErasedVector
  <2>3. /\ RemoveAt(array, i) \in Seq(Names) /\ Len(RemoveAt(array, i)) = Len(array) - 1
        /\ \A j \in 1..(Len(array) - 1) :
             RemoveAt(array, i)[j] = IF j < i THEN array[j] ELSE array[j + 1]
    BY <2>1, RemoveAtProperties
  <2>4. /\ RemoveAt(vector, i) \in Seq(Entries) /\ Len(RemoveAt(vector, i)) = Len(array) - 1
        /\ \A j \in 1..(Len(array) - 1) :
             RemoveAt(vector, i)[j] = IF j < i THEN vector[j] ELSE vector[j + 1]
    BY <1>1, <2>1, RemoveAtProperties
  <2>5. \A j \in 1..(Len(array) - 1) : RemoveAt(array, i)[j] = RemoveAt(vector, i)[j].name
    BY <1>1, <2>1, <2>3, <2>4
  <2> QED BY <2>2, <2>3, <2>4, <2>5
<1> QED BY <1>2, <1>3

\* Appending a name to one and its entry to the other keeps them aligned.
LEMMA Appended ==
  ASSUME NEW a \in Seq(Names), NEW v \in Seq(Entries), NEW e \in Entries,
         Len(a) = Len(v), \A j \in 1..Len(a) : a[j] = v[j].name,
         array' = Append(a, e.name), vector' = Append(v, e)
  PROVE  /\ array' \in Seq(Names) /\ vector' \in Seq(Entries) /\ Aligned'
         /\ Len(vector') = Len(v) + 1 /\ Len(v) \in Nat
         /\ \A j \in 1..Len(v) : vector'[j] = v[j]
         /\ vector'[Len(v) + 1] = e
<1>1. e.name \in Names /\ Len(v) \in Nat
  BY LenProperties DEF Entries
<1>2. /\ array' \in Seq(Names) /\ Len(array') = Len(v) + 1
      /\ \A j \in 1..Len(v) : array'[j] = a[j]
      /\ array'[Len(v) + 1] = e.name
  BY <1>1, AppendProperties
<1>3. /\ vector' \in Seq(Entries) /\ Len(vector') = Len(v) + 1
      /\ \A j \in 1..Len(v) : vector'[j] = v[j]
      /\ vector'[Len(v) + 1] = e
  BY AppendProperties
<1>4. DOMAIN array' = 1..(Len(v) + 1)
  BY <1>2, LenProperties
<1>5. ASSUME NEW j \in DOMAIN array'
      PROVE  array'[j] = vector'[j].name
  BY <1>1, <1>2, <1>3, <1>4
<1> QED BY <1>1, <1>2, <1>3, <1>5 DEF Aligned

LEMMA EditListKeeps == ASSUME IndInv, EditList PROVE IndInv'
<1> DEFINE i == IndexOf(op.name)
           e == [name |-> op.name, psk |-> op.psk]
<1>1. /\ at = "begun" /\ at' = "half" /\ UNCHANGED <<updated, missed, tpc>>
      /\ op.kind = "edit" /\ op' = [op EXCEPT !.recalc = (i # 0)]
      /\ array' = Append(ErasedArray(i), op.name)
      /\ vector' = Append(ErasedVector(i), e)
      /\ steering' = IF i # 0 THEN {} ELSE steering
  BY DEF EditList, threadVars
<1>2. op \in [kind : {"edit"}, name : Names, psk : Psks, recalc : BOOLEAN]
  BY <1>1 DEF IndInv, TypeOK, OpType
<1>3. e \in Entries /\ e.name = op.name
  BY <1>2 DEF Entries
<1>4. i \in 0..Len(array)
  BY IndexOfFirst, LenProperties DEF IndInv, TypeOK
<1> HIDE DEF i, e
<1>5. /\ ErasedArray(i) \in Seq(Names) /\ ErasedVector(i) \in Seq(Entries)
      /\ Len(ErasedArray(i)) = Len(ErasedVector(i))
      /\ \A j \in 1..Len(ErasedArray(i)) : ErasedArray(i)[j] = ErasedVector(i)[j].name
  BY <1>4, Erased DEF IndInv, TypeOK
<1>6. /\ array' \in Seq(Names) /\ vector' \in Seq(Entries) /\ Aligned'
      /\ Len(vector') = Len(ErasedVector(i)) + 1 /\ Len(ErasedVector(i)) \in Nat
      /\ \A j \in 1..Len(ErasedVector(i)) : vector'[j] = ErasedVector(i)[j]
  BY <1>1, <1>3, <1>5, Appended
<1>7. op' \in [kind : {"edit"}, name : Names, psk : Psks, recalc : BOOLEAN]
      /\ op'.kind = "edit" /\ op'.recalc = (i # 0)
  BY <1>1, <1>2
<1>8. TypeOK'
  BY <1>1, <1>6, <1>7 DEF IndInv, TypeOK, OpType
<1>9. SteeringKnown'
  <2>1. CASE i = 0
    <3>1. ErasedVector(i) = vector /\ steering' = steering
      BY <1>1, <2>1 DEF ErasedVector
    <3>2. steering = BitsUpTo(vector, Len(vector))
      BY <1>1 DEF IndInv, SteeringKnown
    <3>3. BitsUpTo(vector, Len(vector)) = BitsUpTo(vector', Len(vector))
      BY <1>6, <3>1, BitsAgree
    <3> QED BY <1>1, <1>6, <1>7, <3>1, <3>2, <3>3 DEF SteeringKnown
  <2>2. CASE i # 0
    BY <1>1, <1>6, <1>7, <2>2 DEF SteeringKnown
  <2> QED BY <2>1, <2>2
<1>10. ToldKnown'
  BY <1>1 DEF ToldKnown
<1> QED BY <1>6, <1>8, <1>9, <1>10 DEF IndInv

LEMMA RemoveFoundKeeps == ASSUME IndInv, RemoveFound PROVE IndInv'
<1> DEFINE i == IndexOf(op.name)
<1>1. /\ at = "begun" /\ at' = "half" /\ UNCHANGED <<updated, missed, tpc, op>>
      /\ op.kind = "remove" /\ array' = ErasedArray(i) /\ vector' = ErasedVector(i)
  BY DEF RemoveFound, threadVars
<1>2. i \in 0..Len(array)
  BY IndexOfFirst, LenProperties DEF IndInv, TypeOK
<1> HIDE DEF i
<1>3. /\ array' \in Seq(Names) /\ vector' \in Seq(Entries)
      /\ Len(array') = Len(vector')
      /\ \A j \in 1..Len(array') : array'[j] = vector'[j].name
  BY <1>1, <1>2, Erased DEF IndInv, TypeOK
<1>4. Aligned'
  BY <1>3, LenProperties DEF Aligned
<1>5. OpType'
  BY <1>1 DEF IndInv, TypeOK, OpType
<1>6. TypeOK'
  BY <1>1, <1>3, <1>5 DEF IndInv, TypeOK
<1>7. SteeringKnown' /\ ToldKnown'
  BY <1>1 DEF SteeringKnown, ToldKnown
<1> QED BY <1>4, <1>6, <1>7 DEF IndInv

LEMMA ComputeSteeringKeeps == ASSUME IndInv, ComputeSteering PROVE IndInv'
<1>1. /\ at = "half" /\ at' = "idle" /\ tpc' = tpc /\ op.kind \in {"edit", "remove"}
      /\ UNCHANGED <<array, vector>> /\ steering' = Recomputed
  BY DEF ComputeSteering, Return, listVars, threadVars
<1>2. vector \in Seq(Entries) /\ Len(vector) \in Nat /\ DOMAIN vector = 1..Len(vector)
  BY LenProperties DEF IndInv, TypeOK
<1>3. steering' = BitsUpTo(vector, Len(vector))
  <2>1. CASE op.recalc
    BY <1>1, <1>2, <2>1 DEF Recomputed, BitsUpTo
  <2>2. CASE ~op.recalc
    <3>1. op.kind = "edit"
      BY <1>1, <2>2 DEF IndInv, TypeOK, OpType
    <3>2. Len(vector) > 0 /\ steering = BitsUpTo(vector, Len(vector) - 1)
      BY <1>1, <2>2, <3>1 DEF IndInv, SteeringKnown
    <3>3. steering' = steering \cup Bits(vector[Len(vector)].name)
      BY <1>1, <2>2 DEF Recomputed, Last
    <3> QED BY <1>2, <3>2, <3>3, BitsExtend
  <2> QED BY <2>1, <2>2
<1>4. updated' \in BOOLEAN /\ missed' \in BOOLEAN /\ ToldKnown'
  BY FlagRaised DEF ComputeSteering, IndInv
<1>5. TypeOK' /\ Aligned' /\ SteeringKnown'
  BY <1>1, <1>3, <1>4 DEF IndInv, TypeOK, Aligned, SteeringKnown
<1> QED BY <1>4, <1>5 DEF IndInv

LEMMA RemoveNotFoundKeeps == ASSUME IndInv, RemoveNotFound PROVE IndInv'
<1>1. /\ at = "begun" /\ at' = "idle"
      /\ UNCHANGED <<listVars, steering, updated, tpc, told, missed>>
  BY DEF RemoveNotFound, Return, threadVars
<1>2. TypeOK' /\ Aligned' /\ SteeringKnown'
  BY <1>1, ListsKept DEF IndInv, TypeOK
<1>3. ToldKnown'
  BY <1>1 DEF IndInv, ToldKnown
<1> QED BY <1>2, <1>3 DEF IndInv

-----------------------------------------------------------------------------
(* Clear and Read.                                                         *)

LEMMA ClearListsKeeps == ASSUME IndInv, ClearLists PROVE IndInv'
<1>1. /\ array' = <<>> /\ vector' = <<>> /\ steering' = {} /\ at' = "half" /\ op' = op
      /\ op.kind = "clear" /\ UNCHANGED <<updated, missed, tpc>>
  BY DEF ClearLists, threadVars
<1>2. TypeOK'
  BY <1>1, EmptySeq DEF IndInv, TypeOK, OpType
<1>3. Aligned'
  BY <1>1, EmptySeq DEF Aligned
<1>4. SteeringKnown' /\ ToldKnown'
  BY <1>1 DEF SteeringKnown, ToldKnown
<1> QED BY <1>2, <1>3, <1>4 DEF IndInv

LEMMA ClearDoneKeeps == ASSUME IndInv, ClearDone PROVE IndInv'
<1>1. /\ at = "half" /\ at' = "idle" /\ tpc' = tpc /\ op.kind = "clear"
      /\ UNCHANGED <<array, vector, steering>>
  BY DEF ClearDone, Return, listVars, threadVars
<1>2. vector = <<>> /\ steering = {} /\ Len(vector) = 0
  BY <1>1, EmptySeq DEF IndInv, SteeringKnown
<1>3. updated' \in BOOLEAN /\ missed' \in BOOLEAN /\ ToldKnown'
  BY FlagRaised DEF ClearDone, IndInv
<1>4. TypeOK' /\ Aligned' /\ SteeringKnown'
  BY <1>1, <1>2, <1>3, BitsOfNone DEF IndInv, TypeOK, Aligned, SteeringKnown
<1> QED BY <1>3, <1>4 DEF IndInv

LEMMA ReadKeeps == ASSUME IndInv, Read PROVE IndInv'
<1>1. /\ at = "begun" /\ at' = "idle"
      /\ UNCHANGED <<listVars, steering, updated, tpc, told, missed>>
  BY DEF Read, Return, threadVars
<1>2. TypeOK' /\ Aligned' /\ SteeringKnown'
  BY <1>1, ListsKept DEF IndInv, TypeOK
<1>3. ToldKnown'
  BY <1>1 DEF IndInv, ToldKnown
<1> QED BY <1>2, <1>3 DEF IndInv

-----------------------------------------------------------------------------
(* The commissioner thread.                                                *)

LEMMA ThreadKeeps == ASSUME IndInv, ThreadStep PROVE IndInv'
<1>1. UNCHANGED <<array, vector, steering, op, at>>
  BY DEF ThreadStep, WasListUpdated, TakeSteering, ListUpdateFinished, NewCommissioner, listVars
<1>2. /\ tpc' \in {"test", "take", "finish"}
      /\ updated' \in BOOLEAN /\ missed' \in BOOLEAN
  BY DEF IndInv, TypeOK, ThreadStep, WasListUpdated, TakeSteering, ListUpdateFinished, NewCommissioner
<1>3. TypeOK'
  BY <1>1, <1>2 DEF IndInv, TypeOK, OpType
<1>4. Aligned' /\ SteeringKnown'
  BY <1>1 DEF IndInv, Aligned, SteeringKnown
<1>5. ToldKnown'
  <2>1. CASE WasListUpdated
    BY <2>1 DEF WasListUpdated, ToldKnown
  <2>2. CASE TakeSteering
    BY <2>2 DEF TakeSteering, ToldKnown
  <2>3. CASE ListUpdateFinished
    BY <2>3 DEF IndInv, ListUpdateFinished, ToldKnown
  <2>4. CASE NewCommissioner
    BY <2>4 DEF NewCommissioner, ToldKnown
  <2> QED BY <2>1, <2>2, <2>3, <2>4 DEF ThreadStep
<1> QED BY <1>3, <1>4, <1>5 DEF IndInv
-----------------------------------------------------------------------------
(* Every step keeps the invariant.                                         *)

LEMMA StepKeeps == IndInv /\ [Next]_vars => IndInv'
<1> SUFFICES ASSUME IndInv, [Next]_vars PROVE IndInv'
  OBVIOUS
<1>1. CASE \E o \in Requests : Begin(o)
  BY <1>1, BeginKeeps
<1>2. CASE RequestStep
  BY <1>2, WriteClearKeeps, WriteAllKeeps, WriteRejectedKeeps, EditListKeeps,
     RemoveFoundKeeps, RemoveNotFoundKeeps, ComputeSteeringKeeps, ClearListsKeeps,
     ClearDoneKeeps, ReadKeeps DEF RequestStep
<1>3. CASE ThreadStep
  BY <1>3, ThreadKeeps
<1>4. CASE UNCHANGED vars
  <2>1. UNCHANGED <<array, vector, steering, updated, op, at, tpc, told, missed>>
    BY <1>4 DEF vars, listVars, threadVars
  <2>2. TypeOK'
    BY <2>1 DEF IndInv, TypeOK, OpType
  <2>3. Aligned' /\ SteeringKnown' /\ ToldKnown'
    BY <2>1 DEF IndInv, Aligned, SteeringKnown, ToldKnown
  <2> QED BY <2>2, <2>3 DEF IndInv
<1> QED BY <1>1, <1>2, <1>3, <1>4 DEF Next

\* What is known of the lists holds in every reachable state.
THEOREM ListInvariant == Spec => []IndInv
<1> QED BY InitHolds, StepKeeps, PTL DEF Spec

\* The array GET shows and the vector joiners are looked up in agree place by
\* place, in every state: Edit and Remove (joiner_list_api.hpp:154, 201) may use
\* the index found in one for the other.
THEOREM ListsAligned == Spec => []Aligned
<1>1. IndInv => Aligned
  BY DEF IndInv
<1> QED BY <1>1, ListInvariant, PTL

\* Between requests the filter has the bits of the joiners listed and no others,
\* however the bits of different joiners coincide.
THEOREM FilterExact == Spec => []SteeringExact
<1>1. IndInv => SteeringExact
  <2> SUFFICES ASSUME IndInv, at = "idle"
               PROVE  steering = UNION {Bits(vector[i].name) : i \in DOMAIN vector}
    BY DEF SteeringExact
  <2>1. DOMAIN vector = 1..Len(vector)
    BY LenProperties DEF IndInv, TypeOK
  <2> QED BY <2>1 DEF IndInv, SteeringKnown, BitsUpTo
<1> QED BY <1>1, ListInvariant, PTL

\* The network has the current filter once the flag is down, unless the change
\* fell into the handling of the flag, was rejected half-way, or a new
\* Commissioner has not sent anything.
THEOREM NetworkTold == Spec => []ToldUnlessMissed
<1>1. IndInv => ToldUnlessMissed
  BY DEF IndInv, ToldKnown, ToldUnlessMissed
<1> QED BY <1>1, ListInvariant, PTL

-----------------------------------------------------------------------------
(* Looking joiners up.                                                     *)

\* No body POSTed names a joiner twice.
Distinct ==
  \A b \in Bodies : \A i, j \in 1..Len(b) :
    b[i] # Bad /\ b[j] # Bad /\ b[i].name = b[j].name => i = j

Unique == \A i, j \in 1..Len(vector) : vector[i].name = vector[j].name => i = j

EntryOf(o) == [name |-> o.name, psk |-> o.psk]

\* The request o has been carried out on the vector.
Placed(o) == Len(vector) > 0 /\ vector[Len(vector)] = EntryOf(o)
Gone(o)   == \A i \in 1..Len(vector) : vector[i].name # o.name

LookupInv ==
  /\ Unique
  /\ at = "idle" => /\ last.kind = "edit" => Placed(last)
                    /\ last.kind = "remove" => Gone(last)
  /\ at = "half" => /\ op.kind = "edit" => Placed(op)
                    /\ op.kind = "remove" => Gone(op)

LEMMA LookupInit == Init => LookupInv
BY EmptySeq DEF Init, LookupInv, Unique, Idle

\* An empty one.
LEMMA LookupEmpty == ASSUME vector' = <<>> PROVE Unique'
BY EmptySeq DEF Unique

LEMMA LookupFilled ==
  ASSUME IndInv, Distinct, WriteAll \/ WriteRejected
  PROVE  LookupInv'
<1>1. op.kind = "write" /\ op.body \in Bodies
  BY DEF IndInv, TypeOK, OpType, WriteAll, WriteRejected
<1>2. op.body \in Seq(Entries \cup {Bad})
  BY <1>1, JoinerListAssumption
<1>3. /\ vector' \in {op.body, Accepted(op.body)}
      /\ Bad \notin Range(op.body) \/ vector' = Accepted(op.body)
      /\ at' = "idle" /\ last' \in {op, Idle}
  BY DEF WriteAll, WriteRejected, Fill, Return
<1>4. Unique'
  <2>1. CASE vector' = Accepted(op.body)
    BY <1>1, <1>2, <2>1, AcceptedEntries, LenProperties DEF Unique, Distinct
  <2>2. CASE vector' = op.body /\ Bad \notin Range(op.body)
    <3>1. \A i \in 1..Len(op.body) : op.body[i] # Bad
      BY <1>2, <2>2, LenProperties DEF Range
    <3> QED BY <1>1, <2>2, <3>1 DEF Unique, Distinct
  <2> QED BY <1>3, <2>1, <2>2
<1>5. last'.kind \in {"write", "idle"}
  BY <1>1, <1>3 DEF Idle
<1> QED BY <1>3, <1>4, <1>5 DEF LookupInv

\* The first element with a name is the only one, so that none is left.
LEMMA ErasedGone ==
  ASSUME IndInv, Unique, NEW name
  PROVE  /\ ErasedVector(IndexOf(name)) \in Seq(Entries)
         /\ \A j \in 1..Len(ErasedVector(IndexOf(name))) :
              ErasedVector(IndexOf(name))[j].name # name
         /\ \A j, k \in 1..Len(ErasedVector(IndexOf(name))) :
              ErasedVector(IndexOf(name))[j].name = ErasedVector(IndexOf(name))[k].name
              => j = k
<1> DEFINE i == IndexOf(name)
<1>1. /\ vector \in Seq(Entries) /\ Len(array) = Len(vector) /\ Len(vector) \in Nat
      /\ \A j \in 1..Len(vector) : array[j] = vector[j].name
  BY LenProperties DEF IndInv, TypeOK, Aligned
<1>2. \/ i = 0 /\ \A j \in 1..Len(array) : array[j] # name
      \/ i \in 1..Len(array) /\ array[i] = name
  BY IndexOfFirst DEF IndInv, TypeOK
<1> HIDE DEF i
<1>3. CASE i = 0
  <2>1. ErasedVector(i) = vector
    BY <1>3 DEF ErasedVector
  <2> QED BY <1>1, <1>2, <1>3, <2>1 DEF Unique, i
<1>4. CASE i # 0
  <2>1. i \in 1..Len(vector) /\ vector[i].name = name
    BY <1>1, <1>2, <1>4
  <2> DEFINE v == RemoveAt(vector, i)
  <2>2. ErasedVector(i) = v
    BY <1>4 DEF ErasedVector
  <2>3. /\ v \in Seq(Entries) /\ Len(v) = Len(vector) - 1
        /\ \A j \in 1..(Len(vector) - 1) : v[j] = IF j < i THEN vector[j] ELSE vector[j + 1]
    BY <1>1, <2>1, RemoveAtProperties
  <2> HIDE DEF v
  <2> DEFINE From(j) == IF j < i THEN j ELSE j + 1
  <2>4. \A j \in 1..Len(v) : From(j) \in 1..Len(vector) /\ From(j) # i /\ v[j] = vector[From(j)]
    BY <1>1, <2>1, <2>3
  <2>5. \A j, k \in 1..Len(v) : From(j) = From(k) => j = k
    BY <1>1, <2>1, <2>3
  <2> HIDE DEF From
  <2>6. \A j \in 1..Len(v) : v[j].name # name
    BY <2>1, <2>4 DEF Unique
  <2>7. \A j, k \in 1..Len(v) : v[j].name = v[k].name => j = k
    BY <2>4, <2>5 DEF Unique
  <2> QED BY <2>2, <2>3, <2>6, <2>7 DEF i
<1> QED BY <1>3, <1>4

LEMMA LookupEdited ==
  ASSUME IndInv, LookupInv, EditList
  PROVE  LookupInv'
<1> DEFINE v == ErasedVector(IndexOf(op.name))
           e == EntryOf(op)
<1>1. /\ op.kind = "edit" /\ at = "begun" /\ at' = "half"
      /\ op' = [op EXCEPT !.recalc = (IndexOf(op.name) # 0)]
      /\ vector' = Append(v, e)
  BY DEF EditList, EntryOf
<1>2. op \in [kind : {"edit"}, name : Names, psk : Psks, recalc : BOOLEAN]
  BY <1>1 DEF IndInv, TypeOK, OpType
<1>3. /\ v \in Seq(Entries)
      /\ \A j \in 1..Len(v) : v[j].name # op.name
      /\ \A j, k \in 1..Len(v) : v[j].name = v[k].name => j = k
  BY ErasedGone DEF LookupInv
<1>4. e \in Entries /\ e.name = op.name /\ EntryOf(op') = e /\ op'.kind = "edit"
  BY <1>1, <1>2 DEF Entries, EntryOf
<1> HIDE DEF v, e
<1>5. /\ Len(vector') = Len(v) + 1 /\ Len(v) \in Nat
      /\ \A j \in 1..Len(v) : vector'[j] = v[j]
      /\ vector'[Len(v) + 1] = e
  BY <1>1, <1>3, <1>4, AppendProperties, LenProperties
<1>6. Unique'
  <2> SUFFICES ASSUME NEW j \in 1..(Len(v) + 1), NEW k \in 1..(Len(v) + 1),
                      vector'[j].name = vector'[k].name
               PROVE  j = k
    BY <1>5 DEF Unique
  <2> QED BY <1>3, <1>4, <1>5
<1>7. Placed(op)'
  BY <1>4, <1>5 DEF Placed
<1> QED BY <1>1, <1>4, <1>6, <1>7 DEF LookupInv

LEMMA LookupRemoved ==
  ASSUME IndInv, LookupInv, RemoveFound
  PROVE  LookupInv'
<1>1. /\ at' = "half" /\ op' = op /\ op.kind = "remove"
      /\ vector' = ErasedVector(IndexOf(op.name))
  BY DEF RemoveFound
<1>2. Unique' /\ Gone(op)'
  BY <1>1, ErasedGone DEF LookupInv, Unique, Gone
<1> QED BY <1>1, <1>2 DEF LookupInv

LEMMA LookupReturned ==
  ASSUME IndInv, LookupInv, RemoveNotFound \/ ComputeSteering \/ ClearDone \/ Read
  PROVE  LookupInv'
<1>1. /\ at' = "idle" /\ last' = op /\ vector' = vector
  BY DEF RemoveNotFound, ComputeSteering, ClearDone, Read, Return, listVars
<1>2. /\ op.kind = "edit" => Placed(op)
      /\ op.kind = "remove" => Gone(op)
  <2>1. CASE RemoveNotFound
    <3>1. op.kind = "remove" /\ IndexOf(op.name) = 0
      BY <2>1 DEF RemoveNotFound
    <3>2. \A i \in 1..Len(array) : array[i] # op.name
      BY <3>1, IndexOfFirst DEF IndInv, TypeOK
    <3>3. \A i \in 1..Len(vector) : array[i] = vector[i].name /\ i \in 1..Len(array)
      BY LenProperties DEF IndInv, TypeOK, Aligned
    <3> QED BY <3>1, <3>2, <3>3 DEF Gone
  <2>2. CASE ComputeSteering
    BY <2>2 DEF ComputeSteering, LookupInv
  <2>3. CASE ClearDone \/ Read
    BY <2>3 DEF ClearDone, Read
  <2> QED BY <2>1, <2>2, <2>3
<1>3. Unique' /\ (Placed(op) => Placed(last)') /\ (Gone(op) => Gone(last)')
  BY <1>1 DEF LookupInv, Unique, Placed, Gone
<1> QED BY <1>1, <1>2, <1>3 DEF LookupInv

LEMMA LookupKeeps == Distinct /\ IndInv /\ LookupInv /\ [Next]_vars => LookupInv'
<1> SUFFICES ASSUME Distinct, IndInv, LookupInv, [Next]_vars PROVE LookupInv'
  OBVIOUS
<1>1. CASE vector' = vector /\ op' = op /\ at' = at /\ last' = last
  BY <1>1 DEF LookupInv, Unique, Placed, Gone
<1>2. CASE \E o \in Requests : Begin(o)
  <2>1. CASE at' = "begun" /\ vector' = vector
    BY <2>1 DEF LookupInv, Unique
  <2> QED BY <1>1, <1>2, <2>1 DEF Begin, Touch, listVars
<1>3. CASE WriteClear \/ ClearLists
  <2>1. vector' = <<>> /\ at' = "half" /\ op' = op /\ op.kind \in {"write", "clear"}
    BY <1>3 DEF WriteClear, ClearLists
  <2> QED BY <2>1, LookupEmpty DEF LookupInv
<1>4. CASE RequestStep
  BY <1>3, <1>4, LookupFilled, LookupEdited, LookupRemoved, LookupReturned DEF RequestStep
<1>5. CASE ThreadStep
  BY <1>1, <1>5 DEF ThreadStep, WasListUpdated, TakeSteering, ListUpdateFinished,
                    NewCommissioner, listVars
<1>6. CASE UNCHANGED vars
  BY <1>1, <1>6 DEF vars, listVars
<1> QED BY <1>2, <1>4, <1>5, <1>6 DEF Next

LEMMA LookupHolds == ASSUME IndInv, LookupInv PROVE LookupFollows
<1> SUFFICES ASSUME at = "idle", vector # <<>>, last.kind \in {"edit", "remove"},
                    \A i \in DOMAIN vector :
                      EuiOf[vector[i].name] = EuiOf[last.name] => vector[i].name = last.name
             PROVE  Found(EuiOf[last.name]) = {IF last.kind = "edit" THEN last.psk ELSE NoPsk}
  BY DEF LookupFollows
<1> DEFINE I == {i \in 1..Len(vector) : EuiOf[vector[i].name] = EuiOf[last.name]}
<1>1. Found(EuiOf[last.name]) =
        LET i == IF I # {} THEN Min(I) ELSE 0
        IN {IF i = 0 THEN NoPsk ELSE vector[i].psk}
  BY DEF Found, SelectInSeq
<1>2. DOMAIN vector = 1..Len(vector) /\ Len(vector) \in Nat
  BY LenProperties DEF IndInv, TypeOK
<1>3. I \subseteq Nat /\ \A i \in I : vector[i].name = last.name
  BY <1>2
<1>4. CASE last.kind = "remove"
  <2>1. I = {}
    BY <1>3, <1>4 DEF LookupInv, Gone
  <2> HIDE DEF I
  <2> QED BY <1>1, <1>4, <2>1
<1>5. CASE last.kind = "edit"
  <2>1. /\ Len(vector) > 0 /\ vector[Len(vector)].name = last.name
        /\ vector[Len(vector)].psk = last.psk
    BY <1>5 DEF LookupInv, Placed, EntryOf
  <2>2. Len(vector) \in I
    BY <1>2, <2>1
  <2>3. \A i \in I : i = Len(vector)
    <3>1. Unique /\ Len(vector) \in 1..Len(vector)
      BY <1>2, <2>1 DEF LookupInv
    <3>2. \A i \in I : i \in 1..Len(vector) /\ vector[i].name = vector[Len(vector)].name
      BY <1>3, <2>1
    <3> QED BY <3>1, <3>2 DEF Unique
  <2> HIDE DEF I
  <2>4. Min(I) = Len(vector)
    BY <1>3, <2>2, <2>3, MinIsLeast
  <2> QED BY <1>1, <1>2, <1>5, <2>1, <2>2, <2>4
<1> QED BY <1>4, <1>5

\* If no body names a joiner twice, a joiner added or edited is given its new
\* PSKd and a removed one none, when FindEui looks it up by its binary EUI64,
\* whatever else was POSTed, edited or removed before.
THEOREM LookupsFollow == ASSUME Distinct PROVE Spec => []LookupFollows
<1>1. Init => IndInv /\ LookupInv
  BY InitHolds, LookupInit
<1>2. IndInv /\ LookupInv /\ [Next]_vars => (IndInv /\ LookupInv)'
  BY StepKeeps, LookupKeeps
<1>3. IndInv /\ LookupInv => LookupFollows
  BY LookupHolds
<1> QED BY <1>1, <1>2, <1>3, PTL DEF Spec

-----------------------------------------------------------------------------
(* The joiner list implements the map from EUI64s to PSKds of JoinerMap,   *)
(* as long as no body names a joiner twice (with one that does, an edit    *)
(* leaves an older entry).                                                 *)

\* Between requests none is being served.
OpIdle == at = "idle" => op = Idle

MapInv == IndInv /\ LookupInv /\ OpIdle

LEMMA OpIdleKept == IndInv /\ OpIdle /\ [Next]_vars => OpIdle'
<1> SUFFICES ASSUME IndInv, OpIdle, [Next]_vars PROVE OpIdle'
  OBVIOUS
<1>1. CASE \E o \in Requests : Begin(o)
  BY <1>1 DEF Begin, Touch, OpIdle
<1>2. CASE RequestStep
  BY <1>2 DEF RequestStep, OpIdle, WriteClear, WriteAll, WriteRejected, EditList, RemoveFound,
       RemoveNotFound, ComputeSteering, ClearLists, ClearDone, Read, Return
<1>3. CASE ThreadStep
  BY <1>3 DEF ThreadStep, WasListUpdated, TakeSteering, ListUpdateFinished, NewCommissioner, OpIdle
<1>4. CASE UNCHANGED vars
  BY <1>4 DEF vars, OpIdle
<1> QED BY <1>1, <1>2, <1>3, <1>4 DEF Next

-----------------------------------------------------------------------------
(* The map a vector stands for.                                            *)

\* PskOf with the vector as a parameter.
PskIn(v, name) ==
  LET i == SelectInSeq(v, LAMBDA j : j.name = name)
  IN IF i = 0 THEN NoPsk ELSE v[i].psk

\* v says p of a name.
Says(v, name, p) ==
  \/ p = NoPsk /\ \A i \in 1..Len(v) : v[i].name # name
  \/ \E i \in 1..Len(v) : v[i].name = name /\ v[i].psk = p

\* Names are not repeated in v.
NoTwice(v) == \A i, j \in 1..Len(v) : v[i].name = v[j].name => i = j

LEMMA PskOfIsPskIn ==
  ASSUME NEW name
  PROVE  PskOf(name) = PskIn(vector, name) /\ PskOf(name)' = PskIn(vector', name)
BY DEF PskOf, PskIn, SelectInSeq

LEMMA PskInSays ==
  ASSUME NEW v \in Seq(Entries), NoTwice(v), NEW name, NEW p, Says(v, name, p)
  PROVE  PskIn(v, name) = p
<1> DEFINE I == {i \in 1..Len(v) : v[i].name = name}
<1>1. PskIn(v, name) = LET i == IF I # {} THEN Min(I) ELSE 0
                       IN IF i = 0 THEN NoPsk ELSE v[i].psk
  BY DEF PskIn, SelectInSeq
<1>2. CASE p = NoPsk /\ \A i \in 1..Len(v) : v[i].name # name
  <2>1. I = {}
    BY <1>2
  <2> HIDE DEF I
  <2> QED BY <1>1, <1>2, <2>1
<1>3. ASSUME NEW i \in 1..Len(v), v[i].name = name, v[i].psk = p
      PROVE  PskIn(v, name) = p
  <2>1. I \subseteq Nat /\ I # {}
    BY <1>3
  <2>2. \A j \in I : j = i
    BY <1>3 DEF NoTwice
  <2> HIDE DEF I
  <2>3. Min(I) \in I
    BY <2>1, MinIsLeast
  <2>4. Min(I) = i /\ i # 0
    BY <2>2, <2>3
  <2> QED BY <1>1, <1>3, <2>1, <2>4
<1> QED BY <1>2, <1>3 DEF Says

\* A vector says one thing of every name: what PskIn returns.
LEMMA SaysPskIn ==
  ASSUME NEW v \in Seq(Entries), NoTwice(v), NEW name
  PROVE  Says(v, name, PskIn(v, name))
<1>1. CASE \A i \in 1..Len(v) : v[i].name # name
  <2>1. Says(v, name, NoPsk)
    BY <1>1 DEF Says
  <2> QED BY <2>1, PskInSays
<1>2. ASSUME NEW i \in 1..Len(v), v[i].name = name
      PROVE  Says(v, name, PskIn(v, name))
  <2>1. Says(v, name, v[i].psk)
    BY <1>2 DEF Says
  <2> QED BY <2>1, PskInSays
<1> QED BY <1>1, <1>2

\* The entries a body has before the first bad one, as JoinerMap writes them.
PairsOf(v) == [i \in DOMAIN v |-> <<v[i].name, v[i].psk>>]

LEMMA MapOfPairs ==
  ASSUME NEW v \in Seq(Entries), NoTwice(v)
  PROVE  Map!MapOf(PairsOf(v)) = [n \in Names |-> PskIn(v, n)]
<1> DEFINE s == PairsOf(v)
<1>1. DOMAIN v = 1..Len(v)
  BY LenProperties
<1>2. DOMAIN s = 1..Len(v) /\ \A i \in 1..Len(v) : s[i][1] = v[i].name /\ s[i][2] = v[i].psk
  BY <1>1 DEF PairsOf
<1> HIDE DEF s
<1>3. ASSUME NEW n \in Names
      PROVE  PskIn(v, n) = IF \E i \in DOMAIN s : s[i][1] = n
                           THEN s[CHOOSE i \in DOMAIN s : s[i][1] = n][2] ELSE NoPsk
  <2>1. CASE \E i \in DOMAIN s : s[i][1] = n
    <3> DEFINE c == CHOOSE i \in DOMAIN s : s[i][1] = n
    <3>1. c \in DOMAIN s /\ s[c][1] = n
      BY <2>1
    <3> HIDE DEF c
    <3>2. Says(v, n, s[c][2])
      BY <1>2, <3>1 DEF Says
    <3>3. PskIn(v, n) = s[c][2]
      BY <3>2, PskInSays
    <3> QED BY <2>1, <3>3 DEF c
  <2>2. CASE ~\E i \in DOMAIN s : s[i][1] = n
    <3>1. Says(v, n, NoPsk)
      BY <1>2, <2>2 DEF Says
    <3> QED BY <2>2, <3>1, PskInSays
  <2> QED BY <2>1, <2>2
<1> QED BY <1>3 DEF Map!MapOf, s

\* Erasing a name changes what is said of it only.
LEMMA ErasedSays ==
  ASSUME IndInv, Unique, NEW name, NEW other, other # name
  PROVE  LET v == ErasedVector(IndexOf(name))
         IN  \A p : Says(vector, other, p) => Says(v, other, p)
<1> DEFINE i == IndexOf(name)
<1>1. /\ vector \in Seq(Entries) /\ Len(array) = Len(vector) /\ Len(vector) \in Nat
      /\ \A j \in 1..Len(vector) : array[j] = vector[j].name
  BY LenProperties DEF IndInv, TypeOK, Aligned
<1>2. \/ i = 0
      \/ i \in 1..Len(array) /\ array[i] = name
  BY IndexOfFirst DEF IndInv, TypeOK
<1> HIDE DEF i
<1>3. CASE i = 0
  <2>1. ErasedVector(i) = vector
    BY <1>3 DEF ErasedVector
  <2> QED BY <2>1 DEF i
<1>4. CASE i # 0
  <2>1. i \in 1..Len(vector) /\ vector[i].name = name
    BY <1>1, <1>2, <1>4
  <2> DEFINE v == RemoveAt(vector, i)
  <2>2. ErasedVector(i) = v
    BY <1>4 DEF ErasedVector
  <2>3. /\ v \in Seq(Entries) /\ Len(v) = Len(vector) - 1
        /\ \A j \in 1..(Len(vector) - 1) : v[j] = IF j < i THEN vector[j] ELSE vector[j + 1]
    BY <1>1, <2>1, RemoveAtProperties
  <2> HIDE DEF v
  <2>4. ASSUME NEW p, Says(vector, other, p)
        PROVE  Says(v, other, p)
    <3>1. CASE p = NoPsk /\ \A j \in 1..Len(vector) : vector[j].name # other
      <4>1. \A j \in 1..Len(v) : v[j].name # other
        <5> TAKE j \in 1..Len(v)
        <5>1. j \in 1..Len(vector) /\ j + 1 \in 1..Len(vector) /\ j \in 1..(Len(vector) - 1)
          BY <1>1, <2>3
        <5> QED BY <2>3, <3>1, <5>1
      <4> QED BY <3>1, <4>1 DEF Says
    <3>2. ASSUME NEW j \in 1..Len(vector), vector[j].name = other, vector[j].psk = p
          PROVE  Says(v, other, p)
      <4>1. j # i
        BY <2>1, <3>2
      <4>2. CASE j < i
        <5>1. j \in 1..Len(v) /\ v[j] = vector[j]
          BY <1>1, <2>1, <2>3, <4>2
        <5> QED BY <3>2, <5>1 DEF Says
      <4>3. CASE j > i
        <5>1. j - 1 \in 1..Len(v) /\ v[j - 1] = vector[j]
          BY <1>1, <2>1, <2>3, <4>3
        <5> QED BY <3>2, <5>1 DEF Says
      <4> QED BY <1>1, <2>1, <4>1, <4>2, <4>3
    <3> QED BY <2>4, <3>1, <3>2 DEF Says
  <2> QED BY <2>2, <2>4 DEF i
<1> QED BY <1>3, <1>4
-----------------------------------------------------------------------------
(* The steps.                                                              *)

AbsPsk == [n \in Names |-> PskIn(vector, n)]

LEMMA AbsPskIs == /\ [n \in Names |-> PskOf(n)] = AbsPsk
                  /\ [n \in Names |-> PskOf(n)]' = AbsPsk'
BY PskOfIsPskIn DEF AbsPsk

LEMMA EmptySays == ASSUME NEW n PROVE PskIn(<<>>, n) = NoPsk
<1>1. Says(<<>>, n, NoPsk) /\ NoTwice(<<>>) /\ <<>> \in Seq(Entries)
  BY EmptySeq DEF Says, NoTwice
<1> QED BY <1>1, PskInSays

LEMMA InitRefines == Init => Map!Init
<1> SUFFICES ASSUME Init PROVE Map!Init
  OBVIOUS
<1>1. vector = <<>> /\ op = Idle
  BY DEF Init
<1>2. AbsPsk = Map!Nobody
  BY <1>1, EmptySays DEF AbsPsk, Map!Nobody
<1>3. Call = Map!Idle
  BY <1>1 DEF Call, Idle, Map!Idle
<1> QED BY <1>2, <1>3, AbsPskIs DEF Map!Init

\* A step that leaves the vector and the request alone.
LEMMA StutterRefines ==
  ASSUME vector' = vector, op' = op
  PROVE  UNCHANGED Map!vars
<1>1. AbsPsk' = AbsPsk
  BY DEF AbsPsk
<1>2. Call' = Call
  BY DEF Call
<1> QED BY <1>1, <1>2, AbsPskIs DEF Map!vars

LEMMA BeginRefines ==
  ASSUME MapInv, NEW o \in Requests, Begin(o)
  PROVE  [Map!Next]_(Map!vars)
<1>1. CASE vector' = vector /\ op' = op
  BY <1>1, StutterRefines
<1>2. CASE at = "idle" /\ vector' = vector /\ op' = o
  <2>1. AbsPsk' = AbsPsk
    BY <1>2 DEF AbsPsk
  <2>2. Call = Map!Idle
    BY <1>2 DEF MapInv, OpIdle, Call, Idle, Map!Idle
  <2>3. o.kind \in {"write", "edit", "remove", "clear", "read"}
    BY DEF Requests
  <2>4. Call'.kind = o.kind
    BY <1>2, <2>3 DEF Call
  <2>5. Map!Begin
    BY <2>1, <2>2, <2>3, <2>4, AbsPskIs DEF Map!Begin
  <2> QED BY <2>5 DEF Map!Next
<1> QED BY <1>1, <1>2 DEF Begin, Touch, listVars

\* Emptying the list.
LEMMA EmptiedRefines ==
  ASSUME MapInv, WriteClear \/ ClearLists
  PROVE  [Map!Next]_(Map!vars)
<1>1. vector' = <<>> /\ op' = op /\ op.kind \in {"write", "clear"}
  BY DEF WriteClear, ClearLists
<1>2. AbsPsk' = Map!Nobody
  BY <1>1, EmptySays DEF AbsPsk, Map!Nobody
<1>3. Call' = Call /\ Call.kind = op.kind
  BY <1>1 DEF Call
<1>4. Map!Write \/ Map!Clear
  BY <1>1, <1>2, <1>3, AbsPskIs DEF Map!Write, Map!Clear
<1> QED BY <1>4 DEF Map!Next

\* Filling it, with all of the body or what precedes the first bad entry.
LEMMA FilledRefines ==
  ASSUME MapInv, MapInv', WriteAll \/ WriteRejected
  PROVE  [Map!Next]_(Map!vars)
<1>1. op.kind = "write" /\ op.body \in Bodies /\ op' = Idle
  BY DEF MapInv, IndInv, TypeOK, OpType, WriteAll, WriteRejected, Return
<1>2. op.body \in Seq(Entries \cup {Bad})
  BY <1>1, JoinerListAssumption
<1>3. vector' = Accepted(op.body)
  <2>1. CASE WriteAll
    <3>1. \A i \in 1..Len(op.body) : op.body[i] # Bad
      BY <1>2, <2>1, LenProperties DEF WriteAll, Range
    <3>2. {i \in 1..Len(op.body) : op.body[i] = Bad} = {}
      BY <3>1
    <3>3. Accepted(op.body) = op.body
      BY <3>2 DEF Accepted, SelectInSeq
    <3> QED BY <2>1, <3>3 DEF WriteAll, Fill
  <2>2. CASE WriteRejected
    BY <2>2 DEF WriteRejected, Fill
  <2> QED BY <2>1, <2>2
<1>4. vector' \in Seq(Entries) /\ NoTwice(vector')
  BY DEF MapInv, IndInv, TypeOK, LookupInv, Unique, NoTwice
<1>5. /\ DOMAIN vector' = 1..Len(vector')
      /\ \A i \in 1..Len(vector') : vector'[i] = op.body[i]
  BY <1>2, <1>3, <1>4, AcceptedEntries, LenProperties
<1>6. Call.kind = "write" /\ Call.entries = PairsOf(vector')
  <2>1. Call.kind = "write" /\ Call.entries = [i \in DOMAIN Accepted(op.body) |->
                                                <<op.body[i].name, op.body[i].psk>>]
    BY <1>1 DEF Call
  <2> QED BY <1>3, <1>5, <2>1 DEF PairsOf
<1>7. AbsPsk' = Map!MapOf(Call.entries)
  BY <1>4, <1>6, MapOfPairs DEF AbsPsk
<1>8. Call' = Map!Idle
  BY <1>1 DEF Call, Idle, Map!Idle
<1>9. Map!Write
  BY <1>6, <1>7, <1>8, AbsPskIs DEF Map!Write
<1> QED BY <1>9 DEF Map!Next

\* One joiner changes.
LEMMA ChangedRefines ==
  ASSUME MapInv, MapInv', EditList \/ RemoveFound
  PROVE  [Map!Next]_(Map!vars)
<1> DEFINE v == ErasedVector(IndexOf(op.name))
           p == IF op.kind = "edit" THEN op.psk ELSE NoPsk
<1>1. /\ \/ op.kind = "edit" /\ vector' = Append(v, [name |-> op.name, psk |-> op.psk])
         \/ op.kind = "remove" /\ vector' = v
      /\ at = "begun" /\ at' = "half"
  BY DEF EditList, RemoveFound
<1>2. /\ op.name \in Names
      /\ op.kind = "edit" => op.psk \in Psks /\ op'.kind = "edit"
                             /\ op'.name = op.name /\ op'.psk = op.psk
      /\ op.kind = "remove" => op' = op
  BY <1>1 DEF MapInv, IndInv, TypeOK, OpType, EditList, RemoveFound
<1>3. /\ vector \in Seq(Entries) /\ NoTwice(vector)
      /\ vector' \in Seq(Entries) /\ NoTwice(vector')
      /\ v \in Seq(Entries)
  BY ErasedGone DEF MapInv, IndInv, TypeOK, LookupInv, Unique, NoTwice
<1>4. PskIn(vector', op.name) = p
  <2>1. Says(vector', op.name, p)
    <3>1. CASE op.kind = "edit"
      <4>1. Len(vector') > 0 /\ vector'[Len(vector')] = EntryOf(op')
        BY <1>1, <1>2, <3>1 DEF MapInv, LookupInv, Placed
      <4>2. /\ Len(vector') \in 1..Len(vector')
            /\ vector'[Len(vector')].name = op.name /\ vector'[Len(vector')].psk = op.psk
        BY <1>2, <1>3, <3>1, <4>1, LenProperties DEF EntryOf
      <4> QED BY <3>1, <4>2 DEF Says
    <3>2. CASE op.kind = "remove"
      BY <1>1, <1>2, <3>2 DEF MapInv, LookupInv, Gone, Says
    <3> QED BY <1>1, <3>1, <3>2
  <2> QED BY <1>3, <2>1, PskInSays
<1>5. ASSUME NEW n \in Names, n # op.name
      PROVE  PskIn(vector', n) = PskIn(vector, n)
  <2> DEFINE q == PskIn(vector, n)
  <2>1. Says(vector, n, q)
    BY <1>3, SaysPskIn
  <2>2. Says(v, n, q)
    BY <1>5, <2>1, ErasedSays DEF MapInv, LookupInv
  <2> HIDE DEF q
  <2>3. Says(vector', n, q)
    <3>1. CASE op.kind = "remove"
      BY <1>1, <2>2, <3>1
    <3>2. CASE op.kind = "edit"
      <4> DEFINE e == [name |-> op.name, psk |-> op.psk]
      <4>1. e \in Entries /\ e.name = op.name
        BY <1>2, <3>2 DEF Entries
      <4>2. vector' = Append(v, e)
        BY <1>1, <3>2
      <4> HIDE DEF e, v
      <4>3. /\ Len(vector') = Len(v) + 1 /\ Len(v) \in Nat
            /\ \A i \in 1..Len(v) : vector'[i] = v[i]
            /\ vector'[Len(v) + 1] = e
        BY <1>3, <4>1, <4>2, AppendProperties, LenProperties
      <4>4. \A i \in 1..Len(vector') : i \in 1..Len(v) \/ i = Len(v) + 1
        BY <4>3
      <4>5. CASE q = NoPsk /\ \A i \in 1..Len(v) : v[i].name # n
        BY <1>5, <4>1, <4>3, <4>4, <4>5 DEF Says
      <4>6. ASSUME NEW i \in 1..Len(v), v[i].name = n, v[i].psk = q
            PROVE  Says(vector', n, q)
        <5>1. i \in 1..Len(vector')
          BY <4>3
        <5> QED BY <4>3, <4>6, <5>1 DEF Says
      <4> QED BY <2>2, <4>5, <4>6 DEF Says
    <3> QED BY <1>1, <3>1, <3>2
  <2> QED BY <1>3, <2>3, PskInSays DEF q
<1> HIDE DEF v
<1>6. AbsPsk' = [AbsPsk EXCEPT ![op.name] = p]
  BY <1>2, <1>4, <1>5 DEF AbsPsk
<1>7. /\ Call' = Call /\ Call.kind = op.kind /\ Call.name = op.name
      /\ op.kind = "edit" => Call.psk = op.psk
  BY <1>1, <1>2 DEF Call
<1>8. Map!Edit \/ Map!Remove
  BY <1>1, <1>6, <1>7, AbsPskIs DEF Map!Edit, Map!Remove
<1> QED BY <1>8 DEF Map!Next

\* A request returns with its change made.
LEMMA ReturnRefines ==
  ASSUME MapInv, MapInv', RemoveNotFound \/ ComputeSteering \/ ClearDone \/ Read
  PROVE  [Map!Next]_(Map!vars)
<1>1. /\ op.kind \in {"edit", "remove", "clear", "read"}
      /\ at' = "idle" /\ last' = op /\ op' = Idle /\ vector' = vector
  BY DEF RemoveNotFound, ComputeSteering, ClearDone, Read, Return, listVars
<1>2. AbsPsk' = AbsPsk /\ Call' = Map!Idle /\ Call.kind = op.kind
  BY <1>1 DEF AbsPsk, Call, Idle, Map!Idle
<1>3. vector \in Seq(Entries) /\ NoTwice(vector)
  BY DEF MapInv, IndInv, TypeOK, LookupInv, Unique, NoTwice
<1>4. at # "idle" /\ (op.kind \in {"edit", "remove"} => op.name \in Names)
  BY DEF MapInv, IndInv, TypeOK, OpType, RemoveNotFound, ComputeSteering, ClearDone, Read
<1>5. CASE op.kind = "edit"
  <2>1. Len(vector) > 0 /\ vector[Len(vector)] = EntryOf(op)
    BY <1>1, <1>5 DEF MapInv, LookupInv, Placed
  <2>2. Says(vector, op.name, op.psk)
    BY <1>3, <2>1, LenProperties DEF Says, EntryOf
  <2>3. AbsPsk[op.name] = op.psk
    BY <1>3, <1>4, <1>5, <2>2, PskInSays DEF AbsPsk
  <2>4. Call.name = op.name /\ Call.psk = op.psk
    BY <1>5 DEF Call
  <2> QED BY <1>2, <1>5, <2>3, <2>4, AbsPskIs DEF Map!Return, Map!Next
<1>6. CASE op.kind = "remove"
  <2>1. Says(vector, op.name, NoPsk)
    BY <1>1, <1>6 DEF MapInv, LookupInv, Gone, Says
  <2>2. AbsPsk[op.name] = NoPsk
    BY <1>3, <1>4, <1>6, <2>1, PskInSays DEF AbsPsk
  <2>3. Call.name = op.name
    BY <1>6 DEF Call
  <2> QED BY <1>2, <1>6, <2>2, <2>3, AbsPskIs DEF Map!Return, Map!Next
<1>7. CASE op.kind = "clear"
  <2>1. vector = <<>>
    BY <1>7 DEF MapInv, IndInv, SteeringKnown, ClearDone, RemoveNotFound, ComputeSteering, Read
  <2>2. AbsPsk = Map!Nobody
    BY <2>1, EmptySays DEF AbsPsk, Map!Nobody
  <2> QED BY <1>2, <1>7, <2>2, AbsPskIs DEF Map!Return, Map!Next
<1>8. CASE op.kind = "read"
  BY <1>2, <1>8, AbsPskIs DEF Map!Return, Map!Next
<1> QED BY <1>1, <1>5, <1>6, <1>7, <1>8

LEMMA StepRefines == MapInv /\ MapInv' /\ [Next]_vars => [Map!Next]_(Map!vars)
<1> SUFFICES ASSUME MapInv, MapInv', [Next]_vars PROVE [Map!Next]_(Map!vars)
  OBVIOUS
<1>1. CASE \E o \in Requests : Begin(o)
  BY <1>1, BeginRefines
<1>2. CASE RequestStep
  BY <1>2, EmptiedRefines, FilledRefines, ChangedRefines, ReturnRefines DEF RequestStep
<1>3. CASE ThreadStep
  <2>1. vector' = vector /\ op' = op
    BY <1>3 DEF ThreadStep, WasListUpdated, TakeSteering, ListUpdateFinished, NewCommissioner, listVars
  <2> QED BY <2>1, StutterRefines
<1>4. CASE UNCHANGED vars
  BY <1>4, StutterRefines DEF vars, listVars
<1> QED BY <1>1, <1>2, <1>3, <1>4 DEF Next

\* If no body names a joiner twice, the three copies of the list behave, step by
\* step, like the one map the REST interface describes: each request changes the
\* PSKd of its joiner and of no other, and returns with the change made.
THEOREM ListImplementsMap == ASSUME Distinct PROVE Spec => ImplementsMap
<1>1. Init => MapInv
  BY InitHolds, LookupInit DEF Init, MapInv, OpIdle
<1>2. MapInv /\ [Next]_vars => MapInv'
  BY StepKeeps, LookupKeeps, OpIdleKept DEF MapInv
<1> QED BY <1>1, <1>2, InitRefines, StepRefines, PTL DEF Spec, ImplementsMap, Map!Spec
=============================================================================
