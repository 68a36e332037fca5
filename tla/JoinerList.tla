----------------------------- MODULE JoinerList -----------------------------
(***************************************************************************)
(* JoinerList (inc/joiner_list_api.hpp): the joiners the commissioner      *)
(* admits, kept three times over, as a JSON array for GET, as a vector for *)
(* looking PSKds up and as a Bloom filter (the steering data) for the      *)
(* network.  An HTTP thread changes the list; the commissioner thread      *)
(* polls `updated`, sends the steering data and resets the flag (src/      *)
(* comm.cpp, lines 125 to 130), without a lock.  Requests that change the  *)
(* list come one at a time here.                                           *)
(*                                                                         *)
(* An EUI64 is bound to its textual forms by EuiOf and to its two bits of  *)
(* the filter by BitsOf; bits of different EUI64s may coincide.            *)
(***************************************************************************)
EXTENDS Integers, SequencesExt

CONSTANTS Names,        \* textual EUI64s: "18b4..." and "18B4..." differ
          Euis,         \* binary EUI64s
          EuiOf,        \* [Names -> Euis]
          BitsOf,       \* [Euis -> SUBSET bits of the filter]
          Psks, NoPsk,
          Bodies,       \* lists POSTed: sequences of entries and Bad
          Bad,          \* what is not an object with a psk and an eui64
          MaxLength,    \* bound: entries of the list
          MaxRestarts   \* bound: new Commissioners

Entries == [name : Names, psk : Psks]

ASSUME JoinerListAssumption ==
  /\ EuiOf \in [Names -> Euis]
  /\ DOMAIN BitsOf = Euis
  /\ NoPsk \notin Psks
  /\ Bodies \subseteq Seq(Entries \cup {Bad})
  /\ MaxLength \in Nat /\ MaxRestarts \in Nat

VARIABLES
  array,      \* the names in the JSON array
  vector,     \* the entries of the vector
  steering,   \* bits set in the Bloom filter
  updated,
  freed,      \* the array holds elements that have been freed
  undefined,  \* such an element was used
  op, at,     \* the request being served, and how far it got
  last,       \* the request that returned last, unless it was rejected
  tpc,        \* the commissioner thread: "test", "take", "finish"
  told,       \* the steering data this Commissioner last sent, or {}
  missed,     \* why told may be old: see ToldUnlessMissed
  restarts

listVars   == <<array, vector>>
threadVars == <<tpc, told, restarts>>
vars == <<listVars, steering, updated, freed, undefined, op, at, last, threadVars, missed>>

Idle == [kind |-> "idle"]
Requests ==
  {[kind |-> "write", body |-> b] : b \in Bodies}
  \cup {[kind |-> "edit", name |-> n, psk |-> p, recalc |-> FALSE] : n \in Names, p \in Psks}
  \cup {[kind |-> "remove", name |-> n, recalc |-> TRUE] : n \in Names}
  \cup {[kind |-> "clear"], [kind |-> "read"]}

Init ==
  /\ array = <<>> /\ vector = <<>> /\ steering = {}
  /\ updated = FALSE /\ freed = FALSE /\ undefined = FALSE
  /\ op = Idle /\ at = "idle" /\ last = Idle
  /\ tpc = "test" /\ told = {} /\ missed = FALSE /\ restarts = 0

Bits(name) == BitsOf[EuiOf[name]]

\* The index of the first element with this text, or 0.
IndexOf(name) == SelectInSeq(array, LAMBDA n : n = name)

\* Every request walks the JSON array, or clears it.
Touch(o) ==
  /\ freed /\ undefined' = TRUE
  /\ UNCHANGED <<listVars, steering, updated, freed, op, at, last, threadVars, missed>>

Begin(o) ==
  /\ at = "idle" /\ ~undefined
  /\ \/ Touch(o)
     \/ /\ ~freed
        /\ o.kind = "edit" => IndexOf(o.name) # 0 \/ Len(vector) < MaxLength
        /\ op' = o /\ at' = "begun"
        /\ UNCHANGED <<listVars, steering, updated, freed, undefined, last, threadVars, missed>>

Return ==
  /\ at' = "idle" /\ op' = Idle /\ last' = op

\* updated = true.  If the commissioner thread has tested the flag and not
\* yet reset it, this is lost.
SetUpdated ==
  /\ updated' = TRUE
  /\ missed' = (tpc # "test")
-----------------------------------------------------------------------------
(* Write                                                                   *)

\* The three copies are emptied before the body is looked at.
WriteClear ==
  /\ op.kind = "write" /\ at = "begun"
  /\ array' = <<>> /\ vector' = <<>> /\ steering' = {}
  /\ at' = "half"
  /\ UNCHANGED <<updated, freed, undefined, op, last, threadVars, missed>>

\* The entries before the first bad one.
Accepted(body) ==
  LET i == SelectInSeq(body, LAMBDA x : x = Bad)
  IN IF i = 0 THEN body ELSE SubSeq(body, 1, i - 1)

Fill(entries) ==
  /\ vector' = entries
  /\ array' = [i \in DOMAIN entries |-> entries[i].name]
  /\ steering' = UNION {Bits(entries[i].name) : i \in DOMAIN entries}

WriteAll ==
  /\ op.kind = "write" /\ at = "half" /\ Bad \notin Range(op.body)
  /\ Fill(op.body)
  /\ SetUpdated
  /\ Return
  /\ UNCHANGED <<freed, undefined, threadVars>>

\* A bad entry: the request is rejected with the entries before it already on
\* the list.  They are borrowed from the parsed text, which is released.
WriteRejected ==
  /\ op.kind = "write" /\ at = "half" /\ Bad \in Range(op.body)
  /\ Fill(Accepted(op.body))
  /\ freed' = (Accepted(op.body) # <<>>)
  /\ missed' = TRUE
  /\ at' = "idle" /\ op' = Idle /\ last' = Idle
  /\ UNCHANGED <<updated, undefined, threadVars>>
-----------------------------------------------------------------------------
(* Edit and Remove: the first element with the same text goes, from both.  *)

\* Mutant of ErasedVector: the entry stays in the vector.
ErasedVectorNot(i) == vector

ErasedVector(i) == IF i = 0 THEN vector ELSE RemoveAt(vector, i)
ErasedArray(i)  == IF i = 0 THEN array ELSE RemoveAt(array, i)

\* Mutant of EditList: the joiner is added whether or not it is on the list.
EditListAppends ==
  /\ op.kind = "edit" /\ at = "begun"
  /\ array' = Append(array, op.name)
  /\ vector' = Append(vector, [name |-> op.name, psk |-> op.psk])
  /\ at' = "half"
  /\ UNCHANGED <<steering, op, updated, freed, undefined, last, threadVars, missed>>

EditList ==
  LET i == IndexOf(op.name)
  IN /\ op.kind = "edit" /\ at = "begun"
     /\ array' = Append(ErasedArray(i), op.name)
     /\ vector' = Append(ErasedVector(i), [name |-> op.name, psk |-> op.psk])
     /\ steering' = IF i # 0 THEN {} ELSE steering
     /\ op' = [op EXCEPT !.recalc = (i # 0)]
     /\ at' = "half"
     /\ UNCHANGED <<updated, freed, undefined, last, threadVars, missed>>

RemoveFound ==
  LET i == IndexOf(op.name)
  IN /\ op.kind = "remove" /\ at = "begun"
     /\ i # 0
     /\ array' = ErasedArray(i)
     /\ vector' = ErasedVector(i)
     /\ steering' = {}
     /\ at' = "half"
     /\ UNCHANGED <<updated, freed, undefined, op, last, threadVars, missed>>

RemoveNotFound ==
  /\ op.kind = "remove" /\ at = "begun"
  /\ IndexOf(op.name) = 0
  /\ Return
  /\ UNCHANGED <<listVars, steering, updated, freed, undefined, threadVars, missed>>

\* Mutant of Recomputed: the new entry's bits are added to what is left.
RecomputedLast == steering \cup (IF vector = <<>> THEN {} ELSE Bits(Last(vector).name))

\* ComputeSteering(recalc_all).
Recomputed ==
  IF op.recalc THEN UNION {Bits(vector[i].name) : i \in DOMAIN vector}
  ELSE steering \cup Bits(Last(vector).name)

ComputeSteering ==
  /\ op.kind \in {"edit", "remove"} /\ at = "half"
  /\ steering' = Recomputed
  /\ SetUpdated
  /\ Return
  /\ UNCHANGED <<listVars, freed, undefined, threadVars>>
-----------------------------------------------------------------------------
ClearLists ==
  /\ op.kind = "clear" /\ at = "begun"
  /\ array' = <<>> /\ vector' = <<>> /\ steering' = {}
  /\ at' = "half"
  /\ UNCHANGED <<updated, freed, undefined, op, last, threadVars, missed>>

\* Mutant of ClearDone: nobody is told.
ClearDoneSilently ==
  /\ op.kind = "clear" /\ at = "half"
  /\ Return
  /\ UNCHANGED <<listVars, steering, freed, undefined, threadVars, updated, missed>>

ClearDone ==
  /\ op.kind = "clear" /\ at = "half"
  /\ SetUpdated
  /\ Return
  /\ UNCHANGED <<listVars, steering, freed, undefined, threadVars>>

Read ==
  /\ op.kind = "read" /\ at = "begun"
  /\ Return
  /\ UNCHANGED <<listVars, steering, updated, freed, undefined, threadVars, missed>>

RequestStep ==
  \/ WriteClear \/ WriteAll \/ WriteRejected \/ EditList \/ RemoveFound
  \/ RemoveNotFound \/ ComputeSteering \/ ClearLists \/ ClearDone \/ Read
-----------------------------------------------------------------------------
(* The commissioner thread, once in each round of its loop                 *)

WasListUpdated ==
  /\ tpc = "test" /\ updated
  /\ tpc' = "take"
  /\ UNCHANGED <<listVars, steering, updated, freed, undefined, op, at, last, told,
                 restarts, missed>>

\* CommissionerSet(GetSteering()).
TakeSteering ==
  /\ tpc = "take" /\ tpc' = "finish"
  /\ told' = steering
  /\ UNCHANGED <<listVars, steering, updated, freed, undefined, op, at, last, restarts, missed>>

ListUpdateFinished ==
  /\ tpc = "finish" /\ tpc' = "test"
  /\ updated' = FALSE
  /\ UNCHANGED <<listVars, steering, freed, undefined, op, at, last, told, restarts, missed>>

\* Another POST /network: a new Commissioner and thread, the same list.
NewCommissioner ==
  /\ tpc = "test" /\ restarts < MaxRestarts
  /\ restarts' = restarts + 1
  /\ told' = {} /\ missed' = TRUE
  /\ UNCHANGED <<listVars, steering, updated, freed, undefined, op, at, last, tpc>>

ThreadStep == WasListUpdated \/ TakeSteering \/ ListUpdateFinished \/ NewCommissioner

Next ==
  \/ ~undefined /\ ((\E o \in Requests : Begin(o)) \/ RequestStep \/ ThreadStep)
  \/ undefined /\ UNCHANGED vars

Spec == Init /\ [][Next]_vars
-----------------------------------------------------------------------------
\* FindEui: the PSKds a joiner may be given.  With an empty list the bound of
\* GetJoinerInstance underflows, and what used to be there is compared.
Found(e) ==
  LET i == SelectInSeq(vector, LAMBDA j : EuiOf[j.name] = e)
  IN IF vector = <<>> THEN Psks \cup {NoPsk}
     ELSE {IF i = 0 THEN NoPsk ELSE vector[i].psk}

\* The array and the vector agree position by position: Edit and Remove find
\* the index in one and erase in the other.
Aligned ==
  /\ Len(array) = Len(vector)
  /\ \A i \in DOMAIN array : array[i] = vector[i].name

\* Between requests the steering data lets in exactly the joiners on the
\* list: removing one must not drop a bit another still needs, nor keep one
\* that nobody needs.
SteeringExact ==
  at = "idle" => steering = UNION {Bits(vector[i].name) : i \in DOMAIN vector}

\* The network has been sent the current steering data, unless the last
\* change came while the flag was being handled, was made by a request that
\* was rejected, or a new Commissioner has not sent any yet.
ToldUnlessMissed ==
  at = "idle" /\ tpc = "test" /\ ~updated /\ ~missed => told = steering

\* With no repetition in a POST the list is the map, from the texts of EUI64s
\* to PSKds, that the REST interface promises.
PskOf(name) ==
  LET i == SelectInSeq(vector, LAMBDA j : j.name = name)
  IN IF i = 0 THEN NoPsk ELSE vector[i].psk

Call ==
  IF op.kind = "write"
    THEN [kind |-> "write", rejected |-> Bad \in Range(op.body),
          entries |-> [i \in DOMAIN Accepted(op.body) |->
                         <<op.body[i].name, op.body[i].psk>>]]
  ELSE IF op.kind = "edit" THEN [kind |-> "edit", name |-> op.name, psk |-> op.psk]
  ELSE IF op.kind = "remove" THEN [kind |-> "remove", name |-> op.name]
  ELSE op

Map == INSTANCE JoinerMap WITH psk <- [n \in Names |-> PskOf(n)], call <- Call

ImplementsMap == Map!Spec

\* A joiner added or edited by its text is given the new PSKd, and one removed
\* none, when it is looked up by its binary EUI64, as long as the list has it in
\* no other spelling; an empty list is the exception.
LookupFollows ==
  /\ at = "idle" /\ vector # <<>> /\ last.kind \in {"edit", "remove"}
  /\ \A i \in DOMAIN vector :
       EuiOf[vector[i].name] = EuiOf[last.name] => vector[i].name = last.name
  => Found(EuiOf[last.name]) = {IF last.kind = "edit" THEN last.psk ELSE NoPsk}
=============================================================================
