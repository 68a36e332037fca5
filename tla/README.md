# A TLA+ model of the Thread commissioner plugin

The repository is a plugin for a REST host process. It lets a client configure a
Thread *commissioner* over HTTP: the plugin connects to a border agent over DTLS,
petitions the Thread leader, keeps the session alive, and admits the joiners on a
list it is given. The C++ of the plugin is in `src/src` and `src/inc` (paths are
given from the directory that holds `src/`); the commissioner is derived from
OpenThread's border router, `src/lib/borderrouter`, which also holds the border agent
(a daemon), its mDNS publishers, a web server and several tools. Paths below are
relative to one of these.

This directory holds the specifications, the TLC configurations that check them, and
the proofs that TLAPS checks. `PROJECT.json` lists components, runs, mutants,
the source lines of every definition, findings, hazards and theorems.

## 1. The system

| component | source | state | operations | used by |
|---|---|---|---|---|
| ReturnStatus | `inc/comm_rest_api.hpp` | promise, future, old_status, mutex | Set, Get | Set: manager and commissioner threads; Get: GET /network |
| Plugin threads | `src/comm.cpp`, `inc/comm.hpp`, `inc/thread_api.hpp` | the manager `Mngr`, per manager `Init` (thread) and `Comm` (Commissioner), the shared pointer `commissioner` | ManagerThread, CommissionerThread, ResetCommissioner, unloading | REST handlers, plugin host |
| CommissionerArgs, REST handlers | `inc/args_api.hpp`, `inc/comm_rest_api.hpp` | parameters, mParametersChanged, json_obj | ParametersChange, Clear, Read | POST/GET/DELETE /network; both threads |
| JoinerList | `inc/joiner_list_api.hpp` | JSON array, vector, Bloom filter, updated | Write, Edit, Read, Clear, Remove; GetSteering, WasListUpdated, ListUpdateFinished, GetJoinerInstance | /joiners; commissioner thread |
| Commissioner | `commissioner/commissioner.cpp` | mCommissionState, mPetitionRetryCount, session id, keep-alive time | InitDtls, TryDtlsHandshake, CommissionerPetition, CommissionerSet, Process and the response handlers | commissioner thread |
| CoAP agent | `agent/coap_libcoap.cpp`, libcoap | resources, queue of confirmable requests | AddResource, RemoveResource, Send, Input, HandleRequest, HandleResponse | Commissioner |
| Relay and joiner session | `commissioner.cpp`, `joiner_session.cpp` | the joiner being relayed, KEK state, a loopback socket | HandleRelayReceive, FindEui, SendRelayTransmit, JOIN_FIN | commissioner thread |
| DTLS server | `agent/dtls_mbedtls.cpp` | sessions, the PSK, one socket | Start, SetPSK, Process, session states and expiry | JoinerSession |
| Border agent | `agent/border_agent.cpp`, `agent_instance.cpp`, `main.cpp` | network name, extended PAN id, Thread started or not | Start, handlers of wpantund's events, PublishService, UDP proxy | a daemon of its own |
| Ncp wpantund | `agent/ncp_wpantund.cpp` | D-Bus connection and watches, wpantund's bus name | Init, RequestEvent, property signals, UdpProxySend | border agent |
| mDNS publishers | `agent/mdns_avahi.cpp`, `mdns_mdnssd.cpp` | services, client and group state, poller | Start, Stop, PublishService, UpdateFdSet, Process, callbacks of the daemons | border agent, `tests/mdns` |
| EventEmitter | `common/event_emitter.cpp` | handlers by event | On, Off, Emit | wpantund, border agent |
| Web service and WPAN controller | `web/` | mNetworks, mNetworksCount | one HTTP request at a time, a list of D-Bus calls each; the page `app.js` in the users' browsers | a daemon of its own |
| Command lines and tools | `commissioner/commissioner_argcargv.cpp`, `agent/main.cpp`, `web/main.cpp`, `tools/` | argv, the arguments | ParseArgs and the options' handlers, getopt loops, pskc, steering-data | |
| Codecs | `utils/`, `common/`, `web/pskc-generator` | none | hexadecimal strings, CRC, Bloom filter, TLVs, PSKc, times | all of them |
| Logging | `common/logging.cpp` | level, syslog open and enabled, log file, start of a line, start time | otbrLogInit, otbrLog, otbrDump, the setters, the callbacks of mbedtls | all of them |
| Third-party code, the plugin host | | | | |

How they interact: HTTP threads call straight into CommissionerArgs, JoinerList,
ReturnStatus and ResetCommissioner. The manager polls `mParametersChanged`, builds a
Commissioner and starts a commissioner thread, which works through the shared pointer
and polls `updated` of the joiner list. The two threads share a condition variable and
each is ended by a promise that `~Thread` sets before it joins. Only ReturnStatus has a
lock. The commissioner and the leader exchange datagrams; the joiners' DTLS datagrams
come to it wrapped in relay messages, and go over the loopback to a DTLS server in the
same thread. The border agent hears of wpantund by D-Bus signals, emitted to
its handlers, and advertises the network through an mDNS daemon. The web server turns each request
of its page into D-Bus calls to wpantund.

What is hard here, and so what the properties are about:

- unlocked flags that are tested, acted upon and then cleared (`mParametersChanged`,
  `updated`), with a request in between;
- the lifetime of threads and Commissioners over POST, DELETE, unloading, and managers
  that overlap;
- a lock-free fast path in front of a locked one (`ReturnStatus::Get`);
- requests whose answers come late, in another order, or never, and three response
  handlers that write one state and share one retry counter;
- one list kept three times over;
- requests that are rejected half-way, and lists of calls of which one fails;
- one socket, one PSKd, one session and one KEK for all joiners;
- signals queued behind the answers to requests, and daemons that restart;
- a list the user saw and an index into the list the server has by then;
- select loops over libraries that keep queues of their own;
- conversions at the ends of their ranges and buffers.

## 2. Modules

```
SafeRegister  <--implements--  StatusRegister
Plugin        <--EXTENDS--  PluginProofs
Commissioner  <--EXTENDS--  CommissionerProofs
JoinerMap     <--implements--  JoinerList  <--EXTENDS--  MCJoinerList
                               JoinerList  <--EXTENDS--  JoinerListProofs
Relay         <--EXTENDS--  RelayProofs
BorderAgent   <--EXTENDS--  BorderAgentProofs
WpanService   <--EXTENDS--  WebPage  <--  MCWebPage
                            WebPage  <--EXTENDS--  WebPageProofs
Codecs        <--EXTENDS--  CommandLine  <--EXTENDS--  UtilityProofs
Codecs        <--EXTENDS--  CodecCases (with instances of Poller, EventEmitter)
CodecCases    <--EXTENDS--  Logging  <--EXTENDS--  Programs
CommandLine, Programs          <--EXTENDS--  MCUtilities
AgentLoop, ServiceRefs, Coap   <--EXTENDS--  MCLoops
AgentLoop, ServiceRefs, Coap, StatusRegister   <--EXTENDS--  LoopProofs
```

An operator whose comment starts with "Mutant of" or "mutant:" is a wrong version of
the definition next to it. It is used by no specification; it is there to show that the
property named in `PROJECT.json` notices the mistake.

### StatusRegister, SafeRegister

`StatusRegister` is `ReturnStatus<T>` access by access. `Set` is BeginSet, Lock,
DropPromise, DropFuture, Renew (the three visible steps of `Reset`), Satisfy, Assign,
Assigned, Unlock. `Get` is BeginGet, IsReady, and then either ReadOld or Lock, Take,
Reset, Unlock. `old_status = val` takes two steps, with the value `Torn` in between,
since `Get` may read it unlocked. `IsReady` on a dropped or consumed future sets
`crashed`, after which nothing happens. `SafeRegister` is what callers may rely on: a
read that overlaps no write returns the last value written.

### Plugin

One process per manager, per commissioner thread and per HTTP thread, plus unloading.
A POST is cut where another thread can look: the address is copied, the PSKc computed,
the flag raised, the JSON object updated; a rejected POST has copied what was good.
DELETE clears the JSON object, starts a new manager, puts it in the place of the old
one (whose promise is set) and joins the old one. A notification is lost unless the
manager is in its wait. Commissioners live in two slots per manager, because the new
one is built before the old one is deleted; a call through a pointer to a deleted one
sets `undefined`, and the model stops there. `ReadBlocks` is `mbedtls_ssl_read` on the
blocking socket. `late` records that a POST raised the flag in the window in which the
manager will clear it.

`status.Set` is one step here: `StatusRegister` justifies that as long as no two GETs
race, which is the business of that module.

### Commissioner

The loop of the commissioner thread, one action per stage: Handshake, FirstPetition,
then in each round either Receive or NothingRead, keep-alive, list update, stop test.
Receive contains all of `coap_dispatch`, the response handler, and the petition that
`CommissionerResponseNext` may send. `sendqueue` is libcoap's queue; a request whose
empty acknowledgement has come is "separate" and is from then on matched by token.
Nothing retransmits requests, so the network is `net`, a set from which messages may
vanish (`Lossy`); a peer may answer in two messages (`Separate`), which may overtake
each other and of which the second may be repeated. The leader is external: it judges
petitions as it likes, and accepts keep-alives and datasets from its current session
only. The session id and the time of the last keep-alive are uninitialised at first;
the id may be that of a session the leader still holds.

### JoinerList, JoinerMap

An entry has a text (`Names`) and a PSKd; `EuiOf` gives the binary EUI64 of a text,
since upper and lower case differ in the text only; `BitsOf` the bits it sets in the
filter. Each operation is cut in two, between emptying and refilling the filter, so
that the commissioner thread can run in between. `freed` says that the JSON array
holds elements released by a rejected Write; `missed` records why the network may not
have been sent the current filter. `JoinerMap` is the list as the REST interface
describes it, one PSKd per joiner.

### Relay

The joiner side of a Commissioner: HandleRelayReceive, FindEui, SendRelayTransmit,
JoinerSession and its DTLS server, all in the one commissioner thread. A round is cut
where the code is: the descriptors found ready by select (`at`, `ready`), the DTLS
server's sessions, the loopback socket, the relayed messages. HandleRelayReceive sends
the joiner's datagram to the server *before* it looks the PSKd up, and the socket is
connected to one sender for all joiners, so that a session can only be told from
another by the order of events. A session has its `opener`, the joiner whose datagram
made it, so that the properties can say whose PSKd and KEK it ought to have. A
datagram of an established or repeated handshake may leave the server in a blocking
read of its socket, and FindEui may use `mJoinerSession` before the first list update
made one: `halt` names these, and the model stops. The joiners (`Begin`, `Resend`,
`GiveUp`) and the network (`Deliver`, `Lose`, `Repeat`) are external; a DTLS flight is
one datagram. What is encrypted carries the key of its handshake, in both directions: a
record under another key is dropped by mbedtls, so that a JOIN_FIN that is repeated into
a later session of the same joiner is not answered there. A session whose client
reconnects keeps its place and gets a new key. `disturbed` records that a joiner gave up, a message was repeated, a
session expired while its joiner was at it, or two joiners overlapped.

### BorderAgent

`BorderAgent::Start` step by step (wpantund's name is looked up, the socket bound, the
handlers registered, three properties requested), then one action for each signal that
is dispatched, with everything its handler does: to parse the value, store it, and stop, start or
rename the published service. `build` chooses the publisher: `PublishService`,
`StartPublisher` and `StopPublisher` follow `mdns_avahi.cpp` or `mdns_mdnssd.cpp`. `pub` is
what the publisher holds and what the mDNS daemon announces. wpantund changes its
properties, restarts and loses its name on the bus; the daemon stops, starts, registers
slowly and may find a collision. `unseen` holds the properties whose last value was lost by a
failing request or look-up; `pub.missed` says that the publisher's daemon was away, or
not ready, when it was told to publish, which the agent never hears of.

### AgentLoop

The loop of `otbr-agent`: UpdateFdSet, select, Process of the D-Bus connection, then of the
agent's socket. What is followed is the way of signals from the bus's socket through the
connection's queue to the filter, and of datagrams from the agent's socket through the
connection's queue to the bus. libdbus reads what there is in any call, writes at once
what it can, and toggles its write watch; it frees its watches when the bus is gone.
A SIGTERM is heeded in select only.

### ServiceRefs

`PublisherMDnsSd` in a program that polls it (`tests/mdns/main.cpp`): which
`DNSServiceRef` belongs to which service, over registrations, answers, errors,
removals, renamings and stops. `Process` first collects the ready references and then
handles each, while handling one may free another; `failure` records a failed
assertion or the use of a reference that was given back.

### Coap

Two agents of `coap_libcoap.cpp`: one with resources, which are added and removed in
libcoap and in the agent's own map, keyed by libcoap's pointer, and one that sends
requests with a handler each. Responses come with the acknowledgement or
separately, late, in any order and repeatedly.

### WpanService, WebPage

`WpanService` is the server: it handles one request at a time, and a request is the list
of the D-Bus calls it makes (`todo`). Each call may be done and answered, refused, or
left unanswered, done or not; the first that fails ends the request, and what was done
stays. A value in wpantund is the id of the request that set it, so that a mixture of
two requests shows. `mNetworks` is filled by a scan and read by a join, by index. `WebPage` is
`app.js` in the browsers of several users: panels, the dialog that asks for
a key, alerts that replace it, and requests and responses on their way, in any order.

### Codecs, CodecCases, Poller, EventEmitter, Logging, CommandLine, Programs

`Codecs` has the conversions as operators on sequences of bytes. `CodecCases` applies
each to a case and compares the result with a definition of another kind: a CRC is
compared with the remainder of a polynomial division, steering data with the union of
the joiners' bits, TLVs with the positions they ought to have, the PSKc with the salt
spelled out, times with times that do not wrap. `Poller` is avahi's poller of `mdns_avahi.cpp` (watches, timers,
UpdateFdSet, Process), `EventEmitter` On, Off and Emit with handlers that register and
deregister handlers, themselves included, while they are called. `Logging` has every
call of the log as a function of the log's state, and the messages of mbedtls on their way
into it; `LogKept` reads off the calls made before each message whether it is in the syslog,
in which file, and where a line with a time stamp begins.

`CommandLine` is the commissioner's ParseArgs with every option's handler. A word is
what the handlers can tell of it: its name, length, hexadecimal digits, number and
whether it may be a PSKd. `Programs` has the options of `otbr-agent` and `otbr-web`, the tools `pskc` and
`steering-data`, the text `dbus_get` makes of a property's value, and the files the
web server sends. `CommandLineMeant` and `ComputationsCorrect` compare all this with what
usage texts and comments say of the words.

## 3. Runs

Runs that pass:

| run | bounds | shows |
|---|---|---|
| status_safety | 2 readers, 2 writers, 2 strings, fairness | promise and stored string agree (Coherent), SafeRegister is implemented; Set and Get return as long as no two GETs overlap |
| plugin_steady | 2 configurations, 1 client, 2 POSTs, both values of the uninitialised flag, unloading at any time, fairness | a thread uses its own Commissioner, a POST is served unless late, "Timeout" is true, a raised flag is dealt with, unloading ends |
| plugin_delete | 1 client, 1 POST and 1 DELETE in either order, unloading, fairness | joins nest with overlapping managers, one manager is left, unloading leaves nothing, DELETE ends |
| commissioner_faults | 2 requests under way, 2 retries, loss, separate and repeated answers, 1 list change, 1 expiry | petition budget, handlers run once |
| commissioner_heals | 2 requests under way, 2 retries, 1 list change, 1 expiry, fairness, no loss | never idle without the leader's consent, petitions are decided, sessions agree in the end |
| joiner_list_sync | 3 texts of 2 EUI64s that share a bit, lists up to 3, rejected bodies, 1 restart | the three copies agree, the filter is exact, the network is told, FindEui follows the requests, JoinerMap is implemented |
| relay | 2 joiners, both listed, 7 session ids and keys, 1 fault: a relay message lost or repeated, a joiner that gives up, a session that expires, a server that cannot start; fairness | PSKd, session, KEK and recipient belong together, the thread runs on, a joiner left alone joins |
| border_agent | either publisher, 2 names, 2 extended PAN ids, 3 changes or restarts of wpantund, 2 faults: failing calls, daemons that go, collisions; fairness | what is announced is what the agent knows, and, once the signals are handled, what wpantund has |
| wpan_service | 2 users, 2 networks, room for 2 scan results, scans that hear none, one, both or three beacons, 3 requests, fairness | settings are of one request, an index leads to the network seen, success is real, everyone is answered |
| utilities | command lines of up to 3 words and those that use an option twice; sets of cases (below) | what the parsers, conversions, poller, emitter and tools compute |
| loops | one of three programs: the agent's loop with 2 signals and 2 datagrams; the publisher with 2 services and 3 registrations; CoAP with 2 requests, 2 paths, 3 registrations, 1 repetition; fairness | nothing waits unseen, references are kept, exchanges match, all is served |

Run that is expected to find a violation, of what `RESTAPI.md` says of GET /network:

| run | the code |
|---|---|
| status_two_readers | a second concurrent GET blocks for ever with the mutex held |

### Known deviations without a run

The models take the following steps, and each can be exhibited by adding the negation
as an invariant, or by dropping the exception from the property that names it; no
configuration is kept for them. "Not modelled" is said of those found by reading only.

The plugin:

- `comm_rest_api.hpp:51`: `IsReady` can meet the future while Set replaces it
  (`crashed` in StatusRegister).
- `comm.cpp:59`: a POST during the two-second wait is lost (`late` in Plugin).
- `comm.cpp:78`: the Commissioner has the PSKc of one POST and the address of another
  (`object[o].pskc # object[o].addr` in Plugin); its handshake then fails.
- `comm.cpp:102`: the status stays Active after the commissioner has ended by itself.
- `args_api.hpp:70`: DELETE leaves the parameters and the flag, and the new manager may
  start a commissioner for the configuration just deleted.
- `args_api.hpp:110`: POST /network with a bad or short extended PAN id keeps old bytes
  in it (not modelled).
- `comm.hpp:90`: after managers have overlapped, a thread may call a deleted
  Commissioner (`undefined` in Plugin).

Joiners and the commissioner:

- `joiner_list_api.hpp:233`: on an empty list the bound underflows and an erased joiner
  may still be found (`Found` in JoinerList).
- `joiner_list_api.hpp:136`: after a rejected POST /joiners the JSON array holds freed
  elements (`freed`, then `undefined`, in JoinerList).
- `joiner_list_api.hpp:165`: PUT leaves the old PSKd in use if the joiner was listed twice
  (`Distinct` is the assumption under which it does not).
- `commissioner.cpp:230`: one lost datagram ends the retrying (`Lossy`); nothing calls
  `coap_retransmit`, so no CoAP request is ever sent a second time.
- `commissioner.cpp:355`: a COMMISSIONER_SET sent before the petition was answered has
  an uninitialised session id; if that is the leader's current session, the state
  becomes Accepted with no petition granted.
- `commissioner.cpp:557`: FindEui before the first list update uses a null
  `mJoinerSession` (`halt = "null"` in Relay).
- `commissioner.cpp:661`: `mCoapToken` comes round; only its low 16 bits are the message
  id (not modelled: a request has a number of its own).

Relay and DTLS server:

- `commissioner.cpp:638`: when joiners overlap, replies and the KEK go to the one
  relayed last (`crossed`).
- `dtls_mbedtls.cpp:454`: a repeated or late datagram of the second epoch leaves the
  commissioner thread in the server's blocking socket (`halt = "blocked"`).
- `dtls_mbedtls.cpp:621`: a datagram that is relayed in the round in which the server
  answers a HelloVerify or closes a session is lost; the joiner's retransmission helps.
- `joiner_session.cpp:66`: a joiner that starts again and fails leaves `mDtlsSession`
  leading to a deleted session (`mDtlsSession` is the id of none).
- `commissioner.cpp:582`: an unlisted joiner is given the PSKd that was there.
- `joiner_session.cpp`: the result of the server's Start is ignored; with it failed, the
  port refuses the relayed datagrams and no joiner joins (`mSocket`).
- `dtls_mbedtls.cpp`: where `unsigned long` has 32 bits, session expirations wrap
  (the proviso of `SessionsEndInTime`).

Border agent, wpantund, publishers:

- The publisher is never polled by the agent: with a daemon that is down or still registering at
  Start, the service is published only at the next change of name or restart of Thread;
  a collision or a restart of the daemon goes unheard (`pub.missed`).
- `border_agent.cpp:97`: `SuccessOrExit(bind(...))` leaves the error NONE, so that an
  agent without socket and handlers runs on (`handlers`).
- `mNetworkName` and `mExtPanId` stay uninitialised when their request fails (`Junk`).
- `ncp_wpantund.cpp:89`: a failing look-up drops the signal and forgets wpantund's name
  (`unseen`).
- `ncp_wpantund.cpp:101`: an inverted SuccessOrExit, without consequence.
- ParseEvent's stream length underflows for arrays below 20 bytes (not modelled).
- `mdns_mdnssd.cpp`: Stop leaves mState at Ready; a service that the daemon renamed has
  its reference recorded twice, and freed twice (the proviso of `RefsKept`).
- `ncp_wpantund.cpp`, AddDBusWatch: a disabled watch is recorded as enabled (in AgentLoop;
  without consequence).
- `agent/main.cpp:51`: a SIGTERM outside select is forgotten; signals that were queued during
  Start wait until the first select returns, up to ten seconds (`fresh`).
- `mdns_avahi.cpp`: AvahiTimeout takes absolute times for relative ones; timers are not
  one-shot; callbacks may insert and erase while their lists are iterated; a timer freed by
  an earlier one is still called; UpdateFdSet keeps `tv_usec` when it shortens `tv_sec`,
  so that with `tests/mdns/main.cpp`'s {INT_MAX, INT_MAX} select oversleeps
  (the provisos of `PollerServes`).
- `event_emitter.cpp`: a handler that deregisters itself while it is called invalidates
  the iterator (the proviso of `HandlersCalled`).

Web service:

- `dbus_join.cpp:70`: ProcessReply returns 0 when there was no reply (the exception
  `job.lost` of `SuccessIsReal`); a scan without reply counts as a success, too.
- `wpan_service.cpp`: the index is not checked against mNetworksCount (`Zero` entries); the list is stale
  when another scan replaced it (the proviso of `JoinsSeen`).
- `app.js`: a response that alerts closes an open join dialog.
- The PSKc of an earlier Form stays in wpantund after a Join.
- `dbus_base.cpp`: GetDBusInterfaceName returns a pointer into a destroyed object;
  members that were never set are freed (not modelled: the outcome is anything).
- `web/main.cpp`: `-a` ignores its address and `-v` demands an argument; `-p` is taken
  modulo 65536 (`Takes`, `Alone` in Programs).
- `dbus_get.cpp`: negative numbers lose their last digit; 0 and numbers of 5 (int16) or
  10 digits are undefined (`ValuesShown` says so); mPropertyValue has no bound.

Conversions and the rest:

- `commissioner_argcargv.cpp`: -1 is both a value and NumParam's error; numbers are
  taken modulo 2^32; HexParam accepts one digit less than "exactly" the length;
  AddOption has no guard for a full table. `commissioner/main.cpp` calls a constructor that
  Commissioner does not have, and is not built.
- `pskc.cpp`: an empty network name leaves mSaltLen uninitialised.
- `coap_libcoap.cpp:182`: Send checks its size in the wrong units; a path hash has no
  separators; two Resources with one path would leave dangling pointers on removal (not
  modelled: paths are registered once).
- `dtls_mbedtls.cpp:126`: MbedtlsDebug logs with mbedtls' level, not the converted one, so an
  error is logged as LOG_ALERT (`MbedtlsDebug` of Logging). It does not filter, as the comment at
  line 154 says: mbedtls itself does, by the level the log had when the server was started.
- `commissioner.cpp:70`: strncpy does not terminate a text of mbedtls of 100 characters or more;
  whatever lies behind the buffer is logged with it (`behind` in Logging).
- `logging.cpp`: nothing the plugin runs calls otbrLogInit, so it writes to no syslog, and the stamps
  in its log file count from 1970.
- `tools/steering-data`: a first word of any length other than 16 is taken for the filter's length.

### Why the bounds are enough

Two POSTs put one before and one inside the window of the
first; the manager's loop then repeats. One DELETE gives two managers; a second one at
the same time would be a race on the `unique_ptr` itself, and two clients, which TLC does
not reach in time together with a DELETE, are covered by the theorems. A Commissioner sends at most
three petitions (proved), so `kPetitionMaxRetry` has its real value;
two requests under way are enough for an answer to arrive between a request and its
own answer, or for two petitions at once. Time is only compared
with `Rate`, so `age` stops at `Rate + 1` and `Rate = 1` stands for the plugin's 15
seconds. The bound `Ids` postpones a keep-alive or COMMISSIONER_SET until a request is
answered or lost; the code has no such limit.

In the joiner list two of the three texts have one EUI64, and the two EUI64s share a bit of the
filter: removing one joiner may neither drop nor keep a bit wrongly. Two joiners are
enough for a relay to be confused, as it remembers one; one fault at any
point shows each of the reactions in the code, and the ids are as many as
sessions and handshakes the joiners can start. Three changes of wpantund let a value go,
come back and go again around a restart, with two faults in between. Two users with
three requests are one scan, another scan and a join between them; a buffer of two with
three beacons is a full list. The cases of utilities lie on either side of every limit:
up to three changes of the log's settings before a message or two messages between them, with
buffers of 12 and 8 characters in place of 1024 and 100;
TLV lengths around the extended form, hexadecimal strings of odd and even length around
the size of the buffer, steering data of up to 16 bytes, delays and expiries around the
end of a clock of `Width` = 6 bits with a minute of 10 ticks, two watches and up to two
timers with a second of 4 ticks,
up to four registrations of two handlers and everything a handler may do when called,
files of 0 to 3000 bytes around OT_BUFFER_SIZE, daemon lines of up to four words, tool
lines of up to three, values nested twice. SHA-256 and AES-CMAC are functions given as
constants or terms, since only equality matters, and the PSKc takes 3 iterations instead
of 16384. In loops two signals and two datagrams let one be under way
while the other waits; three registrations of two services let one be published twice.

Deadlock is checked except in the runs in which the system may rest: status_safety and
status_two_readers, where two
readers do block each other, border_agent, wpan_service, utilities and loops, where all
requests are served. The stuttering disjuncts `Crashed`, `Done`, `Rest` and the one of
`undefined` or unloaded are where the program is over.

## 4. Fairness

Threads are preemptively scheduled, so each has weak fairness on its own steps.

- `StatusRegister`: a waiter gets the mutex eventually if it is free again and again
  (strong fairness of Lock). Nobody is obliged to call. That Set and Get return is
  claimed under `[]OneGet`, no two GETs at once, and refuted without it.
- `Plugin`: the two-second wait ends. The peer owes nothing: a handshake or a read may
  last for ever. The liveness properties assume `[]<>~Reads`, that no commissioner
  thread stays in a blocking read; without that, the code does not end.
- `Commissioner`: the thread runs, time passes, the leader answers what reaches it and
  a message that is not lost arrives (strong fairness per message, since the thread may
  be busy). The number of expiries is bounded, which is "from some time on the leader
  keeps its sessions". The liveness runs have no loss; with loss the property fails.
- `Relay`: the thread runs, a message that is not lost arrives, and a joiner sends its
  flight again, as DTLS does. The number of faults is bounded.
- `BorderAgent`: the agent's thread goes on: a request ends after ten seconds at most,
  and waiting signals are dispatched. wpantund and the mDNS daemon owe nothing.
- `WebPage`: the server's thread goes on, as a D-Bus call ends within a minute, answered
  or not; responses reach the browser. Users owe nothing.
- `loops`: the agent's thread runs, select returns after ten seconds at most, and a bus
  that is full is read again.

## 5. Proofs

TLAPS checks the following for every value of the constants.

`LoopProofs`, its last section: `IndInv` of StatusRegister is inductive (`StatusInvariant`).
Coherent alone is not: it has to be known who holds the mutex (`Exclusion`), and how
far a Set has got (`Written`), to see that at unlock the promise and `old_status` hold
the same string. From it follow `StatusCoherent` and, step by step,
`StatusImplementsSafeRegister`. The assumptions are that readers and writers are
different threads and that `Torn` is no string.

`CommissionerProofs`: `IndInv` of Commissioner adds two facts to the types: before the
first petition nothing was counted, and a request that was answered has left the queue.
`BudgetKept` follows because each way to send another petition passes through
`CommissionerResponseNext`, which counts it, and because the loop ends once the state
is Invalid; `HandlersRunOnce` because a handler runs only for a request in the queue
and `coap_cancel_all_messages` removes it. Both hold with loss, reordering and
repetition. The proof has a lemma for types, one for the budget and one for the queue,
each with one step per action. `ConsentIsSought` has the hypothesis `Reliable`: nothing
is lost, and an answer is one message. Then each id has one message under way, the
request or its answer, and the request is in the queue until it is answered
(`OneMessageEach`), so that an answer always finds its handler; and a handler that leads away from
consent petitions again, if the budget allows it. Messages may still overtake each other.

`BorderAgentProofs`: `IndInv` of BorderAgent says what the publisher's state is between
events (`Clean`: at most the one service of what the agent holds, and nothing without a
connection, a ready publisher and the name in `mServices`, so that Stop finds all there is to withdraw)
and what the agent knows (`Informed`: the last signal under way for a property has
wpantund's value; without one, the agent has it, unless it was lost). The lemmas say
what PublishService, Start and Stop of either publisher do to a `Tidy` state. From it
follow `AnnouncesWhatIsKnown` and `AgentNeverStale`.

`JoinerListProofs`: `Aligned` and `SteeringExact` need the facts that hold half-way
through an operation, while the filter is empty or partly filled (`SteeringKnown`), and
what the network was sent (`ToldKnown`). `NetworkTold` follows. For `LookupsFollow`,
that FindEui gives what the requests gave, the vector may name no joiner twice
(`Unique`): then an entry that is edited is erased from its only place (`Gone`) and is
found at the end (`Placed`). That needs the hypothesis
`Distinct`, that no body names a joiner twice, without which it is false (see the
deviations). Under the same hypothesis JoinerList implements JoinerMap: Write, Edit,
Clear and Remove map to its actions, all else stutters.

`PluginProofs`: the invariant has two parts. `NestInv` says of each manager where its
thread, its commissioner thread and its Commissioners are: a thread that runs is owned
by a manager that has not passed its join. `HandInv` says
who has a manager that was started but is not yet in place, or was replaced but
is not yet joined: the handlers have each one of their own, and the number of managers
started and pending is bounded by the DELETEs, which is why the set of handlers has
to be finite. `JoinsNest`, `OneIsLeft` and `UnloadsClean` follow for any number of
clients, POSTs and DELETEs. `ThreadsOwnTheirs` and `TimeoutIsTrue` have the hypothesis
`MaxDeletes = 0`: with overlapping managers, which share one pointer, they are false.
`ShownIsServed` has the hypothesis `OneClient`, one HTTP thread and no DELETE, for two
POSTs at once mix their settings. Its invariant follows one PSKc on its way from the
request to the parameters, to the Commissioner that is built of them and to the JSON object
(`ShownIsCopied`, `BuiltInv`): while they differ the client is on the way between them,
or the flag is raised, or was raised too late.

`WebPageProofs`: a job has an id of its own, and the lists on the pages, in the dialogs
and in the requests are lists of scans that were answered (`Numbered`, `Lists`): the
next scan cannot bring back the id of a list somebody looks at. Hence what is shown of
the list the server has is what the server has (`Shown`), and `JoinsAreSeen`. What is
left of the calls of a join or a form tells what the calls made so far have set
(`Progress`): the network was left first, so nothing of it remains, and each setting
made since is of this request. Hence `SettingsAreOwn`, also when a call in the middle
fails or is never answered, and `SuccessesAreReal`. All hold for any finite number of
users, networks, requests and any length of the list.

`RelayProofs`: a session is deleted before select when it has failed, and before another
can be made; one that has not failed has answered (`Answered`), so that its socket takes
all that is relayed. Hence a datagram gets into the server's socket only when every
session has failed, is the only one there, and no other is relayed before the server has
read it (`Opening`): the parts of a round run in the order of `Station`, the server before
the relay. From this follow that there is one session (`Single`), that it was made last,
so that the exported keys are its own (`Current`), `OpenersPsk` and `ReadyAreCurrent`.
They hold for any finite number of joiners, listed or not, that come at any time, and any
number of faults; the keys of handshakes must not run out, as the set of ids is infinite
(in the code a session is told by its address, and keys are random).

`ThreadRunsOn` is about joiners that come one after the other, none of which gives up,
while nothing is repeated. As long as that is so (`InTurn`), one datagram or one answer of
the joiner is under way at a time, at most behind the good-bye of the one before
(`Line`), and a joiner that waits for the answer to JOIN_FIN has its session
(`Finishing`), as does one whose good-bye is under way. So a datagram that no session
takes is a flight that opens one, never one in which the thread would block.

`AnswersGoRight` needs to know what is in the queues between session, relay and joiner
(`Delivered`). A datagram that is to be read is the one relayed last (`Recent`), so its
answer is for that joiner. While a session is alive, no answer that could make a joiner
give its key up follows one with which it may agree upon it (`Clean`): the first answer with the
key agrees, and the joiner then sends nothing under another. So a JOIN_FIN that a session
can read comes from a joiner that agrees upon the session's key, which is the KEK; it
still does when the message with the KEK is sent (`Pending`), and when it
arrives (`Entrusting`), as messages do not overtake each other. Nothing is assumed of the
joiners: they may overlap, give up, start again, and repeat; `RightRouter` itself excepts
messages sent after another joiner was relayed.

The rest of `LoopProofs` is about the three small programs of the run loops. `NothingUnseen`: the agent
collects its descriptors with an empty queue of signals, once its first round is over,
and the watch for writing is on whenever there is something to write (`QueueEmpty`,
`WriteAsked`). `ReferencesKept`: unless the daemon renames a service (the variable
`renames`; the property is false otherwise), the references that live are those of the
services, each in one (`OneEach`), and an answer on a reference is for the service that has it
(`Answered`), so that the callback renames or drops no other. `ExchangesAreMatched`: what
is under way is about a request that was sent (`AboutSent`), a response from a path was given by
its handler (`FromHandlers`), and a request is in libcoap's queue only as long as its handler
was not called (`Waiting`): so whatever the network loses, delays, reorders or repeats, a
response reaches the handler of its request, once.

`UtilityProofs` is about `CommandLine` and the operators of `Codecs`, for inputs of any length.
The loops of the code are recursive functions there. The induction theorems of the library
cannot be used (they take an operator), but a form of induction that needs none can: a set
of numbers that has 0 and each successor is Nat (`NatSetInduction`), because what it lacks
would have a least element. Each loop is shown to have a value in every round and to go
through these values (`LoopDefined`, `HexLoopDefined`, `TlvLoopDefined`), and what a round
keeps holds after all of them (`UpTo`).

- `CommandLineCorrect`: `ParserInv` says that the position is the start of an option or the
  end, that every option before it is acceptable, and that each argument is that of
  the latest use so far (`SoFar`), in a record of the right shape whose buffers have the room
  (`Shape`, `Room`). There is one lemma for each handler: what it checks is
  acceptability (`StrAccepted`, `HexAccepted`, ...), and what it writes is what the use asks
  (`StrKeeps`, `HexKeeps`, ...). The starts of options are a least closed set, so the parser,
  which steps from one to the next, visits all of them and no other position
  (`StartsClosed`, `Parsed`). Of the command lines it is assumed that a word's length is
  its number of characters, that strtol makes at most one number of it, and that it is not
  the NULL after the last word.
- `HexDecoded` is what `Hex2Bytes` accepts and stores, for all strings of digits and other
  characters, and `HexRoundTrip`, `HexShownAgain` and `PanIdTypedIn` follow: bytes shown and
  typed in are the same bytes, digits typed in and shown the same digits with a 0 before an
  odd number of them.
- `MessageReadAsWritten`: a TLV is read where it lies, and the next one starts
  where it ends (`TlvReadAsWritten`), so from the last TLV to the first, the rest of the
  message is read as the rest of the TLVs.
- `DatagramReadAsSent` and `AnswerReaches`: the parts of a datagram are told from its end, so
  the packet may be of any length.
- `TimerTells32`: the signed difference of two times of the clock is the true one, as long
  as it is less than half of the clock's period. `TimerTellsAnyWidth` says it of any width, with the
  two equations between powers that the provers cannot work out for a variable exponent.

Only model-checked: `ComputationsCorrect` as a whole, whose module declares RECURSIVE
operators and where CRCs, steering data, the PSKc, the poller, the emitter, the log and the
tools are compared case by case (the parts above are proved of the operators it uses); and
all liveness: fairness and ENABLED are out of the prover's reach. Every other property of a
passing run is a theorem.

## 6. Not modelled

See `components` in `PROJECT.json` for each part and its reason. Of the modelled parts:

- JSON decoding, buffer sizes that nothing above mentions, cryptography and the wording
  of logs and responses are left out.
- Calls of the log by two threads at once race on `sLogCol0` and mix their characters; the
  log is modelled with one call after the other.
- Two HTTP threads in the joiner list at once race on a `std::vector`: the outcome is
  anything.
- A D-Bus command that wpantund carries out after its call has timed out and later
  calls were made is left out, and so are `GetAllPropertyValues`, `SetSeed`, which nothing calls,
  and the destructor of MbedtlsServer.
- `commissioner/main.cpp` is not built and does not fit the class it uses; its loop is
  the one `Commissioner` models.
- mbedtls, libcoap, jansson, avahi, dns_sd, libdbus, the HTTP frameworks and the
  CppUTest headers under `._stage` are third-party code; they are modelled only as far as
  the code relies on them.

## 7. Plan

What is left, in this order:

1. `Plugin`: a run with two clients and two DELETEs at once.
2. `WpanService`: commands that wpantund carries out late.
3. A composition of Plugin, Commissioner and JoinerList for a whole session: POST,
   joiners, DELETE.
4. Theorems about CRCs and steering data: that they are sums over bits needs a theory of
   folds over sets that the library does not have.
