----------------------------- MODULE ServiceRefs -----------------------------
(***************************************************************************)
(* PublisherMDnsSd (mdns_mdnssd.cpp) in a program that polls it, as        *)
(* tests/mdns/main.cpp does: the services it records, each with a          *)
(* DNSServiceRef of the daemon's library, which has a socket to poll and   *)
(* must be given back once.  The library and the daemon are external: a    *)
(* registration is answered, with an error or not; a service may be taken  *)
(* back later; and one whose name is in use is renamed, in the answer.     *)
(***************************************************************************)
EXTENDS Naturals, Sequences, FiniteSets

CONSTANTS Services,   \* the services the program publishes
          Renamed,    \* what a daemon makes of the name of one
          MaxRefs     \* bound: registrations

ASSUME ServiceRefsAssumption == Renamed \notin Services /\ MaxRefs \in Nat

VARIABLES
  mState,      \* of the publisher
  mServices,   \* its services, with their references
  live,        \* references the library has given out and not been given back
  given,       \* their number so far
  reply,       \* what the daemon says next on a reference
  readyServices, \* of Process: references still to be handled in this round, with
                 \* their places in mServices
  renames,     \* the daemon has renamed a service
  failure      \* "none", "assert" or "undefined"

refsVars == <<mState, mServices, live, given, reply, readyServices, renames, failure>>

Names == Services \cup {Renamed}
Refs  == 1 .. MaxRefs
Replies == [name : Names, kind : {"add", "remove", "error"}]
Silent == [name |-> Renamed, kind |-> "none"]

RefsInit ==
  /\ mState = "idle" /\ mServices = <<>>
  /\ live = {} /\ given = 0
  /\ reply = [r \in Refs |-> Silent]
  /\ readyServices = {} /\ renames = FALSE /\ failure = "none"

Named(s) == \E i \in DOMAIN mServices : mServices[i].name = s
IndexOf(s) == CHOOSE i \in DOMAIN mServices : mServices[i].name = s
Without(i) == SubSeq(mServices, 1, i - 1) \o SubSeq(mServices, i + 1, Len(mServices))

\* DNSServiceRefDeallocate; the second time nothing can be said any more.
Deallocate(refs) == live' = live \ refs

RecordTwice(s, r) ==  \* mutant: without looking for the service first
  mServices' = Append(mServices, [name |-> s, ref |-> r]) /\ UNCHANGED failure

RecordService(s, r) ==
  IF Named(s)
  THEN /\ failure' = IF mServices[IndexOf(s)].ref = r THEN failure ELSE "assert"
       /\ UNCHANGED mServices
  ELSE mServices' = Append(mServices, [name |-> s, ref |-> r]) /\ UNCHANGED failure

\* A service that is not recorded fails the assertion at its end.
DiscardService(s, r) ==
  IF Named(s) /\ mServices[IndexOf(s)].ref = r
  THEN mServices' = Without(IndexOf(s)) /\ Deallocate({r}) /\ UNCHANGED failure
  ELSE failure' = "assert" /\ UNCHANGED <<mServices, live>>

Idle == failure = "none" /\ readyServices = {}

Start ==
  /\ Idle /\ mState' = "ready"
  /\ UNCHANGED <<mServices, live, given, reply, readyServices, renames, failure>>

\* The service's records are replaced, or it is registered, which may fail.
PublishService(s) ==
  /\ Idle /\ mState = "ready"
  /\ \/ Named(s) /\ UNCHANGED <<mServices, live, given, failure>>
     \/ /\ ~Named(s) /\ given < MaxRefs
        /\ given' = given + 1 /\ live' = live \cup {given'}
        /\ RecordService(s, given')
  /\ UNCHANGED <<mState, reply, readyServices, renames>>

\* Every reference is given back, twice if it is recorded twice.
Stop ==
  /\ Idle /\ mState = "ready"
  /\ failure' = IF \E i, j \in DOMAIN mServices : i # j /\ mServices[i].ref = mServices[j].ref
                THEN "undefined" ELSE failure
  /\ Deallocate({mServices[i].ref : i \in DOMAIN mServices})
  /\ mServices' = <<>>
  /\ UNCHANGED <<mState, given, reply, readyServices, renames>>

\* A round of the loop: UpdateFdSet and Process ask for the socket of each
\* reference; those with an answer are handled in turn.
Pending(r) == r \in live /\ reply[r].kind # "none"

Poll ==
  /\ Idle
  /\ IF \E i \in DOMAIN mServices : mServices[i].ref \notin live
     THEN failure' = "undefined" /\ UNCHANGED readyServices
     ELSE /\ readyServices' = {[place |-> i, ref |-> mServices[i].ref] :
                                 i \in {k \in DOMAIN mServices : Pending(mServices[k].ref)}}
          /\ UNCHANGED failure
  /\ UNCHANGED <<mState, mServices, live, given, reply, renames>>

HandleServiceRegisterResult(r) ==
  IF reply[r].kind = "add" THEN RecordService(reply[r].name, r) /\ UNCHANGED live
                           ELSE DiscardService(reply[r].name, r)

\* DNSServiceProcessResult of the next reference that was ready.
Process ==
  /\ failure = "none"
  /\ \E next \in readyServices :
       LET r == next.ref
       IN /\ \A other \in readyServices : next.place <= other.place
          /\ readyServices' = readyServices \ {next}
          /\ IF Pending(r)
             THEN HandleServiceRegisterResult(r) /\ reply' = [reply EXCEPT ![r] = Silent]
             ELSE failure' = "undefined" /\ UNCHANGED <<mServices, live, reply>>
  /\ UNCHANGED <<mState, given, renames>>

\* The daemon answers for a service, by its name or by another.
Reply ==
  /\ failure = "none"
  /\ \E i \in DOMAIN mServices, kind \in {"add", "remove", "error"}, rename \in BOOLEAN :
       LET r == mServices[i].ref
       IN /\ r \in live /\ ~Pending(r)
          /\ reply' = [reply EXCEPT ![r] =
                         [name |-> IF rename THEN Renamed ELSE mServices[i].name, kind |-> kind]]
          /\ renames' = (renames \/ rename)
  /\ UNCHANGED <<mState, mServices, live, given, readyServices, failure>>

RefsNext ==
  \/ Start \/ Stop \/ Poll \/ Process \/ Reply
  \/ \E s \in Services : PublishService(s)

RefsSpec == RefsInit /\ [][RefsNext]_refsVars

-----------------------------------------------------------------------------

RefsTypeOK ==
  /\ mState \in {"idle", "ready"}
  /\ mServices \in Seq([name : Names, ref : Refs])
  /\ live \subseteq Refs /\ given \in 0 .. MaxRefs
  /\ reply \in [Refs -> Replies \cup {Silent}]
  /\ readyServices \subseteq [place : Nat, ref : Refs]
  /\ renames \in BOOLEAN /\ failure \in {"none", "assert", "undefined"}

\* As long as the daemon renames no service, its answers, publications and stops in
\* any order leave each reference in one service, each service with one reference
\* that is still valid, and none in nobody's hands; no assertion fails.
RefsKept ==
  /\ RefsTypeOK
  /\ ~renames =>
       /\ failure = "none"
       /\ live = {mServices[i].ref : i \in DOMAIN mServices}
       /\ \A i, j \in DOMAIN mServices :
            i # j => /\ mServices[i].ref # mServices[j].ref
                     /\ mServices[i].name # mServices[j].name
=============================================================================
