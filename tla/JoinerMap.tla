------------------------------ MODULE JoinerMap ------------------------------
(***************************************************************************)
(* What the joiner requests of the REST interface promise (src/RESTAPI.md, *)
(* /joiners): one PSKd for each EUI64 on the list, none for any other.  An *)
(* EUI64 is the text the client gave: two spellings are two joiners here.  *)
(* A request takes effect between its call and its return; a list that is  *)
(* being overwritten may be seen empty, and a rejected one leaves some     *)
(* first entries of the list it held.                                      *)
(***************************************************************************)
EXTENDS Sequences, Naturals

CONSTANTS Names, Psks, NoPsk

VARIABLES psk,    \* the PSKd of each EUI64
          call    \* the request being served

vars == <<psk, call>>

Nobody == [n \in Names |-> NoPsk]

\* The list a sequence of <<name, PSKd>> entries without repetition stands for.
MapOf(s) ==
  [n \in Names |-> IF \E i \in DOMAIN s : s[i][1] = n
                    THEN s[CHOOSE i \in DOMAIN s : s[i][1] = n][2]
                    ELSE NoPsk]

Idle == [kind |-> "idle"]
-----------------------------------------------------------------------------
Init == psk = Nobody /\ call = Idle

Begin ==
  /\ call = Idle
  /\ call'.kind \in {"write", "edit", "remove", "clear", "read"}
  /\ UNCHANGED psk

Write ==
  /\ call.kind = "write"
  /\ \/ psk' = Nobody /\ UNCHANGED call
     \/ psk' = MapOf(call.entries) /\ call' = Idle
     \/ /\ call.rejected /\ call' = Idle
        /\ \E n \in 0 .. Len(call.entries) : psk' = MapOf(SubSeq(call.entries, 1, n))

Edit ==
  /\ call.kind = "edit"
  /\ psk' = [psk EXCEPT ![call.name] = call.psk]
  /\ UNCHANGED call

Remove ==
  /\ call.kind = "remove"
  /\ psk' = [psk EXCEPT ![call.name] = NoPsk]
  /\ UNCHANGED call

Clear ==
  /\ call.kind = "clear"
  /\ psk' = Nobody
  /\ UNCHANGED call

\* A request that changes one entry returns with the change made.
Return ==
  /\ call.kind \in {"edit", "remove", "clear", "read"}
  /\ call.kind = "edit" => psk[call.name] = call.psk
  /\ call.kind = "remove" => psk[call.name] = NoPsk
  /\ call.kind = "clear" => psk = Nobody
  /\ call' = Idle
  /\ UNCHANGED psk

Next == Begin \/ Write \/ Edit \/ Remove \/ Clear \/ Return

Spec == Init /\ [][Next]_vars
=============================================================================
