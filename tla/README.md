# Formal models of vitap-mate

This directory holds TLA+ models of the parts of vitap-mate whose correctness
depends on the order in which things happen: the UDP transport between the app
and the gateway, the session files it shares between isolates, the VTOP session
all fetches and sign-ins of the phone share, the sessions the gateway keeps for
pages, the outing tools of the MCP server, the Durable Object of the edge
Worker that finds VTOP sessions for a linked account, the engine's sign-in
with the codes VTOP mails, and the events the edge sends an install. TLC checks the models on
small instances; TLAPS proves the central invariants for every value of the
constants.

Paths below are relative to `src/`. Line numbers are those of the commit the
models were written from; `PROJECT.json` maps every definition to its lines.

```
tlc -config MCWireExchange.cfg MCWire        # any run: see PROJECT.json "runs"
tlapm SessionSlotsProof.tla                  # any module with theorems
```

## 1. The system

The app (Dart, with a Rust core) reads VTOP, the university's portal. It talks
to VTOP itself, or through the edge Worker over HTTPS, or through a gateway
over UDP. The edge keeps, per student, an *account object* (linked phones, keys
of browser extensions and AI agents, a sealed session, sealed credentials), per
install a *device object* (an event log and a push token) and per forwarding
address a *mailbox object*. The *engine* is a stateless service that signs in
to VTOP and seals secrets for the edge.

| Part | Where | State | Operations | What is hard about it | What makes it correct |
|---|---|---|---|---|---|
| Replay window | `rust/vtop-wire/src/frame.rs` | newest counter, bitmap | `accept` | reordered and repeated frames, the window's edge | each counter passes once; nothing fresh inside the window is refused |
| Wire client sessions | `rust/vtop-wire/src/client.rs` | four `session.N` files, their locks, the counter of the running fetch | claim, read, reserve a block, write | several isolates, a crash between or inside writes, a reset by the gateway | no nonce for two plaintexts; one fetch per session |
| Wire client exchange | `client.rs`, `link.rs`, `msg.rs` | symbols received, rounds asked for, timers | send, ask, ack, done | loss, duplicates, late symbols, timeouts | the answer is that of one run of this request; a fetch that keeps asking is answered |
| Wire gateway | `rust/vtop-wire/src/gateway.rs` | sessions, handshakes and timestamps seen, requests, send queue, proven addresses | `receive`, `respond`, `poll`, `sweep`, `set_keys` | restart, retransmission, several copies of a request, addresses that move | one run per request; bounded work for a device; counters used once |
| Erasure code | `fec.rs` | none | `encode`, `decode` | any k of n symbols | decode of k symbols of one run is its response |
| Gateway service | `rust/vtop-gateway/src/lib.rs` | keys, kept VTOP sessions | `answer`, `renewed`, `sign_in`, `keep` | a session that expires between two calls, eviction | a page comes from the account it was asked for |
| UDP route of the app | `rust/src/api/wire.rs` | the page-session file | `fetch_page` | two fetches, an age counted on both sides, a busy gateway | the session is sent again before the gateway forgets it |
| MCP server | `rust/vtop-mcp` | sessions kept for keys, confirmation codes | outing tools, page tools, `with_retry` | a second send of a code, a retry of a send whose answer was lost | nothing is filed that was not shown, nothing twice, reports as true as VTOP's page |
| Account object | `rust/vtop-edge/src/account.ts`, `account-state.ts` | account row, vault, session, phones, keys, requests, alarm | session call, app sign-in, engine's outcome, phone's answer, alarm, linked operations | every `await` lets another handler run on a copy of its own | one pending request, one sign-in for it, somebody always attends to it, no finished request is undone |
| Device object | `device.ts`, `event-stream.ts`, `fcm.ts` | event log, push token, socket | append, fetch, connect | catch-up against live delivery, pruning | no event is missed or delivered out of order |
| Mailbox object | `state.ts`, `mail.ts`, `store.ts` | members, codes, waiters | wait, mail arrives | a code that comes before its waiter, codes of other sign-ins | no code that came in time is missed |
| Gateway keys | `udp-gateway.ts` | current and next key | `keys` | rotation on both sides of an hour | a phone's key is always one the gateway holds, or it is told |
| Edge routing | `index.ts`, `vtop-proxy.ts`, `store.ts` | key and mailbox indexes | HTTP | indexes and objects saved in two steps | the index leads to the object |
| Engine | `rust/vtop-bridge` | none between calls; a sign-in under way | session, login, seal, Gmail | waits in steps over a connection that breaks, stale codes | the sign-in ends in time, with the code if it came |
| VTOP client | `rust/vtop-core` | session state, cookie jar, validation mutex | login, OTP, restore, fetch, resume | one expired answer resets a session shared by several calls | a reset only hits the session that expired |
| App back ends | `lib/vtop/backend`, `client_provider.dart`, `global_async_queue_provider.dart` | generation, re-login in flight, queue | fetch with re-login, ensureLogin, adoptSession | several pages find the session dead at once | one sign-in for all of them, and every fetch ends |
| App pages | `lib/vtop/vtop_page.dart` | cached page, semester | build, refresh | the semester changes under a refresh | no page shows another semester's data |
| App OTP challenge | `lib/vtop/vtop_otp_challenge_provider.dart` | prompt state | ask, answer, cancel | background and foreground answer the same prompt | one prompt, one answer |
| App events | `lib/vtop/edge` | cursor, numbers handled, stream, timers | connect, accept, close, retry | missed and repeated events, two isolates, a connection that comes and goes | every event is handled, once |
| Browser extension | `extension/src` | request it polls | poll, set cookies | a second request while one is polled | cookies of the latest request |

How they interact: the app's route calls `fetch` of the wire client, which
exchanges datagrams with the wire gateway; the gateway service hands requests
to the engine's code and answers with `respond`. The app's pages and actions go
through the re-login back end to one VTOP client, or to the server with that
client's session, and both sign-ins leave their session in it. Extensions and agents call the
edge with a key; the key index leads to the account object, which calls the
engine (check, sign-in, seal) and the device objects (events), and is called
back by the engine (`loginDone`) and by the phone (`/v1/session/answer`).
Durable Objects run one handler at a time between awaits and any number across
them.

Every place where this goes wrong in a way that a test hardly reaches is a
hazard in `PROJECT.json`, with the property that watches it or the reason why
none does yet.

## 2. The modules

| Module | Models | State in the code |
|---|---|---|
| `ReplayWindow` | `ReplayWindow::accept` as operators: a window is its newest counter and the set of offsets behind it whose bit is set | `top`, `bits`, `started` |
| `ReplayGuard` | one gateway session that hears any counter in any order any number of times | `window`; `opened` is the history of frames acted on |
| `SessionSlots` | the session files under concurrent isolates, torn writes and crashes | `file`, `holder` (the file lock), `run` (one `fetch` call), `sealed` (history of nonces) |
| `WireNet` | message formats and the network: loss, duplication, reordering, sockets | the wire |
| `WireGateway` | `Gateway`: one action per entry point and branch | its fields one to one; `jobs` are engine calls under way |
| `WireClient` | `fetch`, `fresh`, `handshake`, `exchange`, `ask`, the timer | `client[l]` is `Run` and the locals of `exchange`; `kept[l]` the session file |
| `Wire` | the three together; the properties | - |
| `FetchPromise` | what a caller of `fetch` may rely on (abstract) | - |
| `AccountSession` | the account object's sessions | `db` the account row, `requests`, `pending`, `alarmAt` storage; `calls` the handlers and their copies; `jobs` sign-ins at the engine, `prompts` questions at the phone |
| `SessionManager` | the session data of a VTOP client as a value, one operator per setter | `AuthState`, CSRF token, external cookie header, registration number, `AuthStage`, `logged_in_at` |
| `PhoneSession` | one client shared by fetches, the sign-in task, the OTP prompt and the re-login | `jar` the cookie store, `client` `ClientState`, `mutex` `validation`, `fetch` a fetch's place and the request it has under way, `login` the queue's `vtop_login` task, `relogin`, `generation` the fields of `ReloginVtopBackend` |
| `Outings` | the MCP server's outing tools, its cached sessions and VTOP's list of outings | `kept` `CachedSessions`, `edge` the session the edge keeps, `codes` confirmation codes handed out, `call` a tool call, `rows` VTOP's list |
| `PageSessions` | a page over UDP: the phone's file, the gateway's kept sessions, renewal, adoption | `sent` the page-session file, `kept` `Engine.sessions`, `fetch` one `fetch_page` and the gateway's part of it, `phone` the session of the app's client |
| `EdgeEvents` | the event log of an install, its streams and pushes, and the app's event channel in two isolates | `seq`, `first` the device object's log; `front`, `settled`, `timer`, `retry`, `failures`, `connecting`, `stream` the fields of `EdgeEventChannel`; `leaked` a watchdog it no longer knows of; `lane` a `connect()` under way or a stream listened to; `cursor`, `listed` the preferences on disk; `seen` and `task` each isolate's `_seen` and `accept()` calls |
| `ServerSignIn` | the engine's sign-in, the waits for its code at the mailbox object or in Gmail, the mails | `signin` the locals of `sign_in` and `login_with_otp_from`, `calls` `awaitCode` calls, `waiters` the table of that name, `mails` a mail and the loop of `handToWaiters`, `inbox` Gmail |

`MC*` modules only give constants values. `*Proof` modules hold the theorems,
`WireProof` also those of `ReplayGuard`, whose window is the gateway's.

Composition: `Wire` extends `WireGateway` and `WireClient`, which extend `WireNet`;
`WireGateway` uses `ReplayWindow`, the same operators `ReplayGuard` is proved about.
`WireClient` takes one lane per session file and lets a lane fetch one thing at a time:
that this is sound is what `SessionSlots` shows (`OneRunPerSession`). `PhoneSession`
extends `SessionManager`. `PageSessions` takes an exchange of `Wire` for one step at each
end: request and answer may be lost, and the gateway's part goes on after the phone gave
up. `Wire` implements `FetchPromise` under the mapping of its `Promise` instance: a lane's
fetch, its status and the run whose symbols its answer came from; the gateway's runs; its
restarts.

### Conventions

- What arrives, and whether a call fails, is a free choice. What follows is the
  handler's whole code up to its next await or return.
- *Scenarios*: where bounds multiply (losses, copies, fetches, restarts, calls,
  time), a run takes a set of records and a behaviour stays in one of them
  (`scenario`). So one run asks its question of several adversities without
  combining all of them.
- A comment "Mutant of X" marks the form of X a plausible mistake would give
  it. No behaviour uses it; it is there to see that the properties notice.

### What the models abstract

*Replay window.* The bitmap is a set of offsets; `Width` stands for 64. The
round-number and counter widths (u32) are not reached.

*Session slots.* A packet is its nonce and a name for its plaintext. A write
that fails or is cut short leaves the file as it was, or without a session, or
complete (`set_len(0)`, then `write_all`; half a text does not parse). A fetch
that finds all slots locked runs without one.

*Wire.* Keys are names: a packet opens for whoever holds the session, handshake
or reset key it names. Symbols are numbers; any `Symbols` different ones of one
run decode to that run's answer, those of two runs to garbage (0, which no run
has). Left out: pacing (a queued packet is due at some time; packets of one
session leave in the order of their counters), the link figures, which only set
when a timer fires and how many symbols are asked for (both are free choices),
the choice of source and destination ports, address resolution, `MAX_REQUEST`,
and fetches without a session file. Round numbers do not wrap. No
time passes that would leave a fetch waiting beyond its deadline (`InTime`): a phone
that sleeps in the middle of a fetch, and goes on with it past the deadline, is left
out. A packet of a session that is for another of its requests counts as heard, but is
not the last one the next echo names, which only sets the link figures. Packets that
come before message 2 (`early`) count as still under way. The gateway hears a
clock of its own and a phone's clock may be ahead by one of `Leads`.

*Account.* A handler's copy of the row and the column by column save are as in
the code, for the columns sessions depend on. Left out: the rate limit, key use
and sign-in history, push tokens, `tellPhones`, the app's wait loop, a second
phone (a key asks only the phone that made it), a phone's answer sent twice. The
alarm deletes old requests at its start rather than one by one. A crash loses
all handlers and makes an alarm that was running ring again, as the platform
does.

*Phone session.* A request's answer is one step: VTOP's decision and what the
client does with it. VTOP may drop a session at any moment, so a request meets
its death at any time after it was sent. Rejected CAPTCHAs, and codes refused
before the last one, are folded into their outcome. A fetch makes one request.
The read and the write lock `flutter_rust_bridge` takes on the opaque client are
guards: `MayRead` while no sign-in is inside, `NoFetchInside` for a sign-in. A
session's age against Session Reuse is young or old. A new session's cookies
replace the old ones in one step. Left out: whether the student's saved
credentials are valid, persisted snapshots after the start,
`resend_security_otp`.

*Outings.* An application is the trip it is for; the form's other fields only
travel with it. VTOP may refuse anything, answer too late and act on a send
nobody waits for any more. Any of its pages may come without the table of
requests, and its page after a send with a notice, a `success` text, both or
neither, whatever it did. Permissions of outing passes (a download) and the
reading tools, which are `with_retry` around one page, are left out.

*Page sessions.* A page over HTTPS, which the app falls back to, is not modelled.
The unit of time is longer than an exchange, so at most one strikes in it. The
session of a fetch and the account sent with it are read in two steps, with
anything between. An account stays in the gateway's entry after the student turned server sign-in
off, as in the code.

*Server sign-in.* A code is the sign-in it is for; sealing, the text of a mail
and the device boxes it also goes to are left out. VTOP's page flow before the
challenge is one step. A call between the engine and the edge takes no time while
the connection is sound; when it hangs (`Hangs`), up to the engine's own timeout of
40 s (`Hang`), whatever is left of the wait. Calls to VTOP take any time. A poll of
Gmail is the list, which has the mails there are when it is asked for (`Lists`), and
what the engine does when its requests are over (`Reads`), up to four timeouts of
15 s later (`Reading`). The alarm drops expired
waiters at any moment after their time: a waiter made while an earlier alarm is
set only goes with that one or with the next mail. An address, once deleted, is
not made again. `due` and `hurt` are history.

*Edge events.* An event is its number. The handlers are a call that may fail.
The Worker's stream and the device object's socket are one queue, and the app's
Developer → Connect At Launch is on. Frames are whole: the buffer of their lines
(`_data`) is one for all streams and cleared when one opens, so with two streams a
frame can be lost or mixed when a chunk ends between a `data:` line and the blank
line after it, which is not modelled. A stream that ends counted as stable or not
(`_stableAfter`) by free choice, and `failures` counts to `Long`, the attempts
after which the backoff (16 s and more) outlasts a heartbeat (15 s). A lost push is one that
is late for ever. Whether a stream is wanted before the app has been in front for
long is a free choice (somebody holds it, `alwaysOn`). Left out: on-device mode,
another registration (`restart`), the limits of `_seen` (256) and of the list
(128). `trouble`, `applied`, `cut`, `lost`, `clashed` and `shut` are history.

## 3. What is checked

| Run | Question | Bounds that matter |
|---|---|---|
| `replay_guard` | is each counter acted on once, and is nothing fresh refused? | window of 3, counters 0-6 in any order: frames jump past the window, land on its edge and behind it |
| `session_slots` | is a nonce ever used twice, a session ever shared? | 2 isolates, 2 files, 3 fetches, blocks of 2: a third fetch meets what two others left, complete or torn |
| `wire_exchange` | over any order of events: are counters used once, has a request always a way to the gateway unless it follows message 2, does the fetch end in its answer, that of one run of its request? | responses of 2 symbols; timers at any moment with one loss or one copy, of a fetch with or without a secret or of two that do not ask again; or 4 patient timers with 2 losses, a second lane, 2 rotations and a new address, or a restart and a loss |
| `wire_limits` | does a repeated message 1 run its request again, do the limits hold, is anything forgotten that a fetch waits for? | room for 2 sessions, 1 open request in each; 3 deliveries over more time than the gateway remembers, a phone's clock ahead by `FRESH`; answers over the limit; a third session while a fetch waits; sweeps while the next fetch waits, engine calls as long as one likes, a second answer to a request |
| `wire_secret` | is a request that follows message 2 brought again when it is lost? (It is not) | one fetch, one loss |
| `account_session` | one pending request, one sign-in for it, somebody at work on it | 2 handlers and the alarm; 1-2 calls among session, app, link and changes of the row; a crash; time past every expiry |
| `phone_session` | is a restored session validated once, does no late answer drop a newer session, does every fetch end? | 2 fetches, a page and an action or two actions; the app's saved session, live, dead or none, and 2 new ones; VTOP drops one; on the phone and with the server |
| `outings` | is only what was shown filed or cancelled, a trip filed once, and the report as true as VTOP's page? | 3 calls of one key for 2 requests of one trip; one of: session dropped, cache lapsed, mentor accepts, student files, key forbidden, time passes |
| `page_sessions` | is every page of the account asked for, and the session sent again in time? | a phone two students use, 2 fetches at a time, 3 sessions, room for 1 device and another that takes it; 3 hours, or 2 other events, or an hour and one |
| `server_sign_in` | is every code that came in time tried, does the wait keep to `otp_wait`, does the sign-in end? | a sign-in of the engine and one of the app, each with a mail in any order; 3 units of wait in steps of 2, a waiter of 3, calls that hang for 2, polls of 1; one bad connection, failed call, second delivery or deleted address |
| `edge_events` | does the cursor pass no event that was not delivered, is each applied once, and at last? | 2 events, pages of 1, 2 `connect()` calls or streams at a time, `Long` 2, a push that comes at any moment to either isolate, and one of: a stream dropped or refused, the app in the background, a release, a death, a pruning |
| `account_wins` | does a request that ended stay as it ended? (It does not) | smallest instance that shows it |

The times in a run keep the order of the code's: `CLIENT_REPEAT` and `BREAKER` < the
deadline of a fetch < `FRESH` = `RESPONSE_KEEP` < `PENDING_KEEP` < 2 `FRESH` <
`SESSION_IDLE` (`wire_exchange`, in which no time passes, takes every copy of message 1
for a retry), and `phoneWaitSecs` < `REQUEST_TIMEOUT_SECS` < `REQUEST_KEEP_SECS` <
`vaultTtlSecs` < `SESSION_CACHE_SECS`. Only these comparisons matter to the guards, so a unit
per step reaches every case on both sides of each limit.

Why the bounds are enough: the hazards listed need one adverse event at a
chosen moment, or two of the same kind (a loss of the answer to a loss; two
copies of message 1), and at most two actors of a kind. Each scenario provides
these at every moment. What they do not reach is stated with the hazard: more
repair symbols than the pool has. That nothing is forgotten is asked where time
passes and sessions are scarce (`wire_limits`), that a request is not stranded and
the promise kept where packets are lost and copied (`wire_exchange`); the theorems of
section 4 have it all at once.

In `phone_session` a late answer needs the request, a sign-in that replaced its session
meanwhile and a third session to sign in to after; in `outings` the third call is the
retry or second send after a look and a first one; in `page_sessions` `Resend` = 1 and
`Keep` = 3 leave one hour for the exchange as the code's five and six hours leave one too,
and an exchange takes seconds of it. In `server_sign_in` another sign-in of the engine
would be to the first what the app's is: who else's code a waiter gets does not matter to
it, and waiters share nothing else; the wait ends after its waiter when VTOP asks for the
code late. A hung call of 2 units overruns the deadline from either side of it, a poll of
1 may straddle it. In `edge_events` the second event is the one a cursor could skip to or
a page could cut; two streams at once need no trouble, only a second `connect()` in time.

Deadlock is not checked in the runs that end by their bounds: when all fetches
or calls a scenario allows are over, the system rests.

### Fairness

`Wire.FairSpec`: the network delivers what it does not lose, the gateway's loop
polls (`vtop-gateway/src/lib.rs:166-210` comes round for ever), the engine
answers, the phone's timer fires and its deadline comes. Nothing is fair about
losses, restarts, rotations or moves, which are bounded instead. In the scenarios
`Answered` is about timers are patient (`scenario.patient`): they fire when nothing is
under way any more. The code's timers are multiples of the measured round trip, and a
timer that fires early only sends more; the other scenarios have them at any moment for
the safety properties. The deadline comes after the last timer: the code's is
the caller's `timeout_ms`, many times a timer (`client.rs:716-758`).

`AccountSession.FairSpec`: time passes, a due alarm rings, and an await ends
some time, with an answer or an error. Neither the phone nor a sign-in the
engine took need ever end.

`PhoneSession.FairSpec`: each fetch and the sign-in go on. Requests are answered
or fail (reqwest's timeouts), a task of the queue runs on, and the student
answers or dismisses the prompt. Nothing is fair about VTOP dropping sessions or
the session growing old.

`ServerSignIn.FairSpec`: each request of a sign-in is answered or fails
(`HttpEdge` and the VTOP client have timeouts), the object's waits and its loop
over waiters go on, and time passes. No mail need arrive, nothing has to break.

`EdgeEvents.Spec`: `accept()` and `connect()` calls go on and streams are read,
the timers for a retry and for settling fire, the retry unless a leaked watchdog
sets it again before it is due (`~Starved`), and the student opens the app again
some day (`Resume`): a push that FCM loses can only come then. Nothing is
fair about FCM, and streams break, the app goes back and dies at most
`MaxTrouble` times.

### What the runs found

*A request after message 2 is sent once* (`wire_secret`). With `request_in_handshake`
off (secrets, and sign-ins with an account, `api/wire.rs:119`) the request goes out
after message 2, which has already set `heard` (`client.rs:309`). If that one datagram
is lost, the timers' packets never carry the body again (540), the gateway answers
nothing to them (`gateway.rs:494`) and the fetch times out, although a `REQ` repeats the
body "in case the gateway never got round 0" (`msg.rs:16-17`). `OthersNotStranded` is
the same of all other requests; `wire_exchange` checks it and section 4 proves it.

*A finished request can be undone* (`account_wins`). `answer` decides by a copy
read before its await and writes the whole request back (`account.ts:1166-1169`),
so a sign-in that succeeded meanwhile ends as an error. `startSession` guards
against this at 832; `loginDone` (1016) and `alarm` (1480) do not either.

Seen while modelling, with no run of their own:

*UDP.* At `MAX_PENDING` open requests a new one is passed over without a word
(`gateway.rs:502`), but its session moved to the sender's address by then, so a
packet of an older request can reach it there, set `heard`, and leave the body
unsent; it takes four fetches of one session given up within `PENDING_KEEP`. After a
rotation a restarted gateway answers a short frame with the reset under the new key
only (`gateway.rs:422`), and a phone on the older key ignores it. A new request
drops what is queued for the device's other sessions (`gateway.rs:505-508`), so two
lanes cost each other a timer. The pool of repair symbols wraps (`gateway.rs:636`)
where `lib.rs:18` says they never repeat. Timestamps are compared with a window of
`FRESH_MS` either way (`gateway.rs:348`) where `lib.rs:10-11` speaks of newer ones.
After BUSY `fetch_page` notes a session as sent that the gateway did not keep
(`wire.rs:146`, `misled` in `PageSessions`), which costs one exchange.

*Sessions of the phone.* A bounce takes a pending OTP with it: `login` leaves the
state `authenticated` of the session it replaces, no lock is held while the
student looks for the code, and a fetch that waited for the read lock goes out on
the half signed-in session, bounces, and `mark_session_expired` resets the stage
and the cookies the code was sent for (`client/mod.rs:220`). With a session the
server made, a late answer on the old one drops the new one, as `resume_session`
does not wait for readers (`RetriesOnNew` says "on the phone"). `adoptSession`
gives a renewed session to the client there is, even the next student's
(`client_provider.dart:79-83`), and a fetch reads the session before several awaits
and the account to send with it after them (`server_vtop.dart:529`, `256`), so a
student who signs in in between has their account sent with the session of the one
before, and the gateway renews a dead session into theirs. `OwnPages` leaves out
the phones either happened to (`mixed` in `PageSessions`).

*Account and sign-in.* Setting `vaultTtlSecs` does not reschedule the alarm, so
credentials past it are unused but stored until a later request. A wait whose
connection broke goes on at the edge and may take the code for nobody
(`store.ts:192`, `hurt` in `ServerSignIn`). An address deleted in the middle of a
sign-in ends it as `forwarding_required` although the credentials have Gmail
access (`engine.rs:469`). `newest_otp` lists three mails before it leaves out
those already tried, so a sign-in's own mail behind three newer ones is not found
(`gmail.rs:178`).

*Outings.* Two sends of one confirmation code side by side file a trip twice (`FiledOnce`
leaves out trips whose list was read while another send was on its way), and so does a
page without its table before a send, which is an empty list to `request_rows`
(`hostel.rs:191-193`; left out too, `Hidden`). A report goes by what the page says: a
notice means it was not filed, a `success` text that it was, without a look at the list
(`hostel.rs:117-132`, `148-153`); `ReportsWhatVtopDid` is about pages whose words are
true, and claims nothing of a "not cancelled" or "not applied" read from a page without
the table. A call that is running when the student forbids its key still files
(`outings.rs:292-293`). A cancellation is reported although the mentor accepted the
request in between. A session fetched before `expire` is kept after it
(`bridge.rs:221-228`).

*Edge events.* Behind a page of events the app never "asks again from the last"
(`device.ts:18`), and its cursor passes what did not fit with the next event
(`cut`). `accept` writes the list of handled numbers back as it read it, so one
added meanwhile can be applied twice (`edge_events.dart:309-317`, `clashed`), and a
death after the list or the cursor was written loses the event (`lost`). `connect`
calls that overlap open two streams, of which the app closes one (151-154). They
also leave the watchdog of the first running (198 writes over it): with no stream
open it calls `_onDropped` every 15 s, which cancels the retry and sets it again
(271, 284), so that once the backoff is 16 s or more the retry never fires while
the app stays in front, and what FCM loses does not come until the next hold or
return to the app. `EveryEventApplied` leaves out what is starved for ever
(`[]Starved`); without that exception TLC finds the case. A close
decided before the stream was wanted can close it after, and nothing opens it
until the next hold or return to the app (124, `shut`). A mail's OTP that a
background isolate takes is marked handled there, so that the stream does not
catch up as `fcm_cookie_bridge_service.dart:222-224` says.

## 4. What is proved

TLAPS checks these for every value of the constants that satisfies the named
assumptions.

| Theorem | Statement | Assumes |
|---|---|---|
| `OpenedAtMostOnce` | `GuardSpec => []OpenedOnce` | `WidthAssumption`, `CountersAssumption` |
| `FreshPasses` | `GuardSpec => []NoFalseReject` | the same |
| `WindowStaysTyped` | `GuardSpec => []GuardTyped` | the same |
| `TypeCorrect` | `Spec => []TypeOK` (session slots) | `SlotsAssumption`, `BoundsAssumption`, `BlockCovers` |
| `NoNonceReuse` | `Spec => []NonceOnce` | the same |
| `SessionsNotShared` | `Spec => []OneRunPerSession` | the same |
| `TypeOKHolds` | `Spec => []TypeOK` (wire) | `ScenariosAssumption`, `LimitsAssumption`, `SymbolsAssumption`, `WidthAssumption`, `LanesAssumption`, `ClientAssumption` |
| `WithinLimitsHolds` | `Spec => []WithinLimits` | the same |
| `SealedOnceHolds` | `Spec /\ []WithinBlock => []SealedOnce` | the same |
| `HelloRunsOnceHolds` | `Spec => []HelloRunsOnce` if every lead is below `Fresh` | the same, `FreshAssumption` |
| `PromiseKeptHolds` | `Spec /\ []NoneForgotten => PromiseKept` if every lead is below `Fresh`: `Wire` implements `FetchPromise` | the same |
| `StillHeldHolds` | `Spec /\ []HasRoom => []StillHeld` if `Timeout < ResponseKeep` and every lead is below `Fresh` | the same, `KeepsAssumption`, `TimeoutAssumption` |
| `PromiseKeptInTime` | `Spec /\ []HasRoom => PromiseKept` if the same | the same |
| `OthersNotStrandedHolds` | `Spec /\ []HasRoom /\ []NotFull => []OthersNotStranded` if the same | the same |
| `OneRequestAtATime` | `Spec => OneStarted` (account object) | `TimesAssumption` |
| `OneLoginHolds` | `Spec => []OneLogin` | the same |
| `AccountTyped` | `Spec => []TypeOK` (account object) | the same, `ScenariosAssumption` |
| `NobodyForgetsHolds` | `Spec => []NobodyForgets` | the same |
| `TypeCorrect` | `Spec => []TypeOK` (phone session) | `SessionsAssumption`, `SetupsAssumption`, `MaxDeathsAssumption`, `NoOneAssumption`, `SavedAssumption` |
| `ValidatedOnce` | `Spec => []OneValidation` | the same |
| `OwnSessionDropped` | `Spec => OnlyOwnDropped` | the same |
| `RetriesOnNewSession` | `Spec => []RetriesOnNew` | the same |
| `PagesAreOwn` | `Spec => []OwnPages` (page sessions) | `LimitsAssumption` |
| `NamedSoonEnough` | `Spec => []NamedInTime` (page sessions) | the same, `HoursAssumption` |
| `SessionsTyped` | `Spec => []TypeOK` (page sessions) | the same |
| `FiledAtMostOnce` | `Spec => []FiledOnce` (outings) | `BoundsAssumption` |
| `ActsOnlyAsShown` | `Spec => ActsAsShown` | the same |
| `ReportsTruly` | `Spec => []ReportsWhatVtopDid` | the same |
| `OutingsTyped` | `Spec => []TypeOK` (outings) | the same |
| `CursorSkipsNone` | `Spec => NothingSkipped` (edge events) | `BoundsAssumption` |
| `EventsTyped` | `Spec => []TypeOK` (edge events) | the same |
| `AppliesOnce` | `Spec => []AppliedOnce` | the same |
| `TypeOKHolds` | `Spec => []TypeOK` (server's sign-in) | `ChallengesAssumption`, `ClocksAssumption` |
| `WaitsInTimeHolds` | `Spec => []WaitsInTime` | the same |
| `AskedToForwardHolds` | `Spec => []AskedToForward` | the same |
| `ForwardedCodesReach` | `Spec => []`(`NoCodeMissed` of sign-ins without Gmail) | the same |
| `NoCodeMissedHolds` | `Spec /\ []Listing => []NoCodeMissed` | the same |

*Replay guard.* `OpenedOnce` alone is not inductive: it does not say why a
counter that passed cannot pass again. `GuardInv` adds that every counter that
passed is at most `top` (`BehindTop`), that inside the window its bit is set
(`Marked`), and, for the second theorem, that no other bit is (`OnlyMarked`).
A frame ahead of `top` shifts the bits; the lemma `AcceptKeeps` follows each
offset through the shift.

*Session slots.* A nonce is reused if a run seals under a counter at or below
one used before. `IInv` says where all used counters lie: behind the counter of
the run that owns the session (`BehindRun`) and behind the one its file would
tell the next run (`BehindFile`); a sealing run's whole block is below what its
file says (`Reserved`). That a session has one owner needs that it is in one
file at most, that nobody but the run on that file has it (`OneFile`), that the
run holds the lock (`LockHeld`), and that new keys are new (`KeysKnown`).
`Release`, which ends a fetch in four different actions, has a lemma of its own
(`EndKeeps`).

`BlockCovers` (an exchange seals at most `Block` packets) is a hypothesis of
these theorems because the code does not check it: nothing compares `ctr` with
`reserved_end`. The deadline and the timers' backoff keep an exchange far below
1024 packets.

*Wire.* `Typed` gives every variable its shape, with what a shape needs to be kept:
what is numbered was drawn (`IsReq`, `HandshakesTyped`, `LanesTyped`), a packet
in the queue has a size, so that its credit can be taken off (`IsQueued`), and a
session has no more open requests than it may (`IsResponses`). Both `TypeOK` and
`WithinLimits` follow from it. The two directions of `SealedOnce` are apart.
What the gateway sealed lies below the counter of its session (`FramesBehind`);
request, answer and notice each seal from there on, in the queue and on its way
alike (`Sealing`). What the phones sealed lies below the counter of a fetch on
the session and below the one saved for it (`PacketsBehind`), so the next fetch
starts behind all of it; but only if a session has one lane (`OneOwner`) and a new
session's counters, which start at 0, were never used. That is the longest part:
a session is handed out for one message 1 (`OneOffer`), which one fetch waits for
(`OneShaking`), and until its reply is taken nothing was sealed under it
(`NotYetUsed`), although the reply may come twice, or after a reset.

`WithinBlock`, that an exchange seals within the block it reserved, is a
hypothesis for the reason `BlockCovers` is: nothing in the code compares the
counter with `reserved_end`. A fetch that goes past it and ends in an answer saves
the counter it reached (`client.rs:589`); one that fails does not.

For `HelloRunsOnce`, a message 1 that can still come (`Ones`: on its way, or in the
hands of a phone that may repeat it) and whose request has run is either known by
its ephemeral key or too old for the gateway's clock (`Remembers`), and a key is only
forgotten when its timestamp is out of date (`AcceptedInTime`, as `Remembered` is
twice `Fresh`). The theorem needs a lead below `Fresh`: a clock that leads by all of
it leaves one instant, when the key was just swept, in which the message passes
again, unless its timestamp is still among the 64 remembered. Requests of one id
that go another way do not exist, as a body in a frame is never that of a message 1
(`BodiesDrawn`).

`PromiseKept` is the refinement: every step of `Wire` is a step of `FetchPromise` or
leaves its variables alone. A step of a lane is one of four moves (`LaneMove`): on
with its request, to its end, to a new request, or into the session that message 2
brought; `...Moves` shows it of every handler of `WireClient`. Of these only the
first request of a fetch and its end are visible above (`MoveMaps`), and of the
gateway's steps only a run that begins and a restart (`RunMaps`, `RestartMaps`).
Two invariants carry it. `RunsInv`: the gateway keeps, queues and sends under a
session, a request and a run only what that run of that request gave, and it resets
only sessions that are gone. `WaitInv`: of a fetch that waits, every former request
is `Settled` (no body of it is in a message 1, and the session of its packets and
runs is gone), what it collected is of runs of its own request, and of that request
each session had one run. So what it decodes is of one run (`DecodedRun`).

That a request runs once while somebody waits (`FirstOfLife`) needs what the gateway
remembers. A body comes again in message 1, which `HelloInv` above makes too old or
known, or in a frame on the session, where the gateway has to find the request among
those it knows. `NoneForgotten` says that it does. It is a hypothesis of
`PromiseKeptHolds`, and `PromiseKeptInTime` says when the gateway's limits and times
bring it about. `StillHeld`, which `wire_limits` checks without any hypothesis, is the
same but for a fetch whose session a crowded gateway may have given away.

Two conditions are needed. `HasRoom`, stated of whole behaviours: no fetch waits at a
gateway that holds `MAX_SESSIONS` (50 000) sessions and has heard from all of them
since the fetch began (`Crowded`), as otherwise the one heard from longest ago, which
is evicted (`gateway.rs:390`), may be the fetch's. A gateway that is only full evicts
another (`NotEvicted`). `Timeout < ResponseKeep`: a fetch ends before it is as old as
an answer gets (`RESPONSE_KEEP`, 120 seconds). Its deadline is set when it begins
(`client.rs:107-108`), to 45 seconds for a page (`settings.dart:142`) and to 110 for a
sign-in (`server_vtop.dart:240`); that no fetch waits beyond it is the invariant
`Punctual`. A user may set the first to more than 120; then a page that takes as long
may be run twice. `KeepsAssumption` orders the gateway's times as the code's constants
are. Neither condition is about what the gateway remembers.

`HeldInv` is the invariant. The request of a fetch that waits, its session and its answer
are as young as the fetch (`HeldSince`), so a sweep spares them. An engine call that is
still to answer has answered nothing before (`JobsOpen`), as a second answer takes the
response away (`gateway.rs:193`); and a `T_DONE` on its way is of a fetch that is over
(`DonesOver`, `gateway.rs:449`). Each handler of the gateway either leaves all requests as
they are (`Leaves`, with a lemma for each that does) or begins one (`OnRequestLeaves`). For
the phones, a handler is one of five turns (`Turn`), by where its fetch is sent from, when
it began, what it was told and what it sends: `...Turns` shows it of each.

`OthersNotStranded` relates the two ends: a phone stops sending the body when it hears
something, and the gateway sends something to a phone without having its request
(message 2, a notice of an older request, a reset). Why that is sound is `BringInv`. A
fetch has an address that nobody had before (`Addresses`), so what comes there is sent to
this fetch, because the gateway heard from there; all it hears from there on a saved
session is of the one request, with its body until that request was taken
(`Carries`); and so, when the fetch can hear anything, its request was taken or its session
is gone (`Brings`), in which case a reset makes it start over. A session that message 2
brings was made with the request that rode in message 1 (`HelloRan`): one ephemeral
key is of one request, and none of a request that rides is ever used for one that
follows (`OneId`, `Rides`, `Follows`). That what was taken is still there is `HeldInv`.
Two kinds of fetches the property leaves out, as the code fails them: those whose
request went out after message 2 (`AfterMessage2`, section 3 tells why), and those on a
session just made when the gateway restarts (`Forgotten`), which the code accepts (a
reset is not heeded there, `client.rs:420`). The further condition `NotFull` is that no
request finds its session with `MAX_PENDING` open. When fetches are given up after 45
seconds, at most three older ones of a session are open as another comes: the first is
forgotten after 150 (`PENDING_KEEP`).

*Account object.* A handler decides whether to join a request by the time it
was called (`k.at`, `account.ts:801`), not by the time it is. A request that was
over when a handler was called could be pending again only if time went back
or its `made` were not a number to compare; `CalledBefore` says neither happens:
every handler under way was called at or before `now` (`Underway`), and every
request, stored or in a handler's copy, was made at some time (`Requests`,
`IsCall`). It has a lemma per action (`...Keeps`), the stale copies handlers
write back included. Then `MakesAlone`: only the branch that creates a request
changes `pending`, and it found nothing to join at `k.at`, so nothing is pending
at `now`. What the proof shows of the code is that nothing is awaited between
looking for a request to join and storing the new one.

`OneLogin` is a matter of whose turn it is. A request has one handler at most that
may still sign in for it (`OneSigner`): its maker, or the alarm, which takes what
waits in the table. It begins to wait there (`due` set, not `started`) only as its
maker leaves it, and until then stale copies of it cannot make it wait (`Role`: no
other handler's copy has a `due`). Whoever may sign in, and whatever waits, has no
sign-in behind it (`NotSigned`, `WaitsUnsigned`), but for one per crash: an alarm
handler that dies between the engine's yes and its own write rings again.

For `TypeOK`, a handler's copies are as sound as what they were read from (`Sound`,
`Shaped`), and the alarm is set to a minimum, which exists because the times are
naturals (`FirstOfNat`, by well-foundedness).

`NobodyForgets` is the longest argument, because a handler writes back whole
requests it read before an await, over whatever happened to them. `Attends` follows
a request through its hands: one that lives and waits for no phone is *taken*, by a
prompt, a sign-in of the engine or a handler that falls back to the phone, or a
handler signs in for it; one that waits has an alarm in time or is in the alarm's
hand (`Followed`). A stale copy does no harm because copies agree on when their
request was made, so all are over at once (`OneMade`, `Over`); a copy that was
asked about was prompted (`AskedPrompted`); one with an end settled it
(`EndsSettle`); and a settled request is written back as pending only if somebody
signed in for it, so that it cannot come to wait again (`ReopensSigned`, with
`OneLogin`). `StepKeeps` proves once what a step of one handler must leave in order
(`StepOf`), and there is one lemma per action (`...Attends`) that it does. A crash
loses handlers, hence the hypothesis in the property itself.

*Phone session.* That a late answer cannot drop a newer session is a matter of
locks: `LockExcludes` says that a sign-in inside the client and a fetch inside it
exclude each other, and therefore (`CarriesJar`) on the phone a request under
way carries the jar's session, or the client has none left. Replacing the jar
without the write lock happens only with the server's sessions (`ServerOnly`).
`OneValidation` needs that a second fetch with the mutex in hand finds what the
first one left: a client that still is `restored` was not validated since it was
resumed, unless the mutex is held (`ValidatesOnce`); a validation that succeeds
leaves a session that is usable (`TrustsComplete`), one that fails none, and what
is being checked is a restored session (`ChecksRestored`). `LoginHolds` says what
a sign-in on the phone finds in the client at each of its steps. There is one
lemma per action; `MoveKeeps`, `ResetKeeps` and `SettledKeeps` carry what actions
that move a fetch, drop the session or end the sign-in have in common.
`RetriesOnNew` rests on the same: the session that was made while a fetch waited is
the client's (`Held`) until it is given up, and VTOP makes a dead one live only if it
is still to be signed in (`SignsIn`); so a fetch that met it and is turned away again
was turned away by that session's own end.

*Page sessions.* `OwnPages` speaks of the end of a fetch; `IInv` follows the
account from the phone to there. On a phone that is not mixed, the
account a request carries owns the session it names (`FetchOwn`), stays with it
at the gateway (`KeptOwn`), and a sign-in for it gives a session of the same
account (`EdgeOwn`, lemma `SignedInGives`), which is the client's own when it is
adopted (`PhoneOwn`). A student who signs in does not disturb the fetches whose
request is out, because they carry the account they asked with: `OthersKeep` says
so once, and every action uses it.

`NamedInTime` compares two clocks that start at different moments: the gateway
counts from when it got the session, the phone from when it heard so. `TInv` says
how far apart they are. An hour strikes at most once in an exchange, so what the
gateway keeps for a fetch that brought a session, or had one renewed, is at most
an hour old when the answer comes (`Soon`), and the phone's note at most an hour
younger than the gateway's entry (`NotedSoon`). A phone that only names a session
noted it less than `Resend` hours ago, so the entry is less than `Resend + 1`
hours old then; hours being whole, at most `Resend`, and at most `Resend + 1`
when the request comes (`Soon`, by `Crossed`), which is less than `Keep`. The
gateway's entries only get newer or go (`Fresher`); `OthersSoon` uses that once
for all fetches that do not move. That `TypeOK` bounds what the gateway holds needs
that `keep` evicts before it adds (`RoomOn`).

*Outings.* That a trip is filed once is mutual exclusion: a row of the trip, a call
between the list and its send, and a send VTOP has yet to handle exclude each other, and
there is one of them at most (`OneFiling`), unless a list was read while another send was
on its way or came without a row it has. A call enters only by the check that finds none
of the three, a send takes the call's place and the row the send's; the retry of a send
enters by the check again, which is why the code re-reads the list inside the closure it
retries. `Shaped` and `LateShown` say that a call that sends, and later its send, were
shown under a code good at the call's beginning: codes are only added, so a call that does
not move keeps its own (`OneCall`). Then every new or vanished row has a send behind it
(`HandledActs`). For the reports, `FiledKeeps` shows that filing makes the list longer by
one, which needs that VTOP's list is finite and that its ids are new, and `Shaped` that a
call about to cancel saw the row waiting; a true notice or `success` text decides like the
list does. `TypeOK` says that no two rows share an id, since ids only grow, and that a
call reaches VTOP with a session the edge made.

*Edge events.* What the cursor may not pass is what a stream still owes: the queue
of every stream is ascending (`Ordered`), and every event of the log is behind
the cursor, pruned, cut or in the queue of each open stream (`Covered`), so that
nothing else lies between the cursor and the head of a queue. A second stream
only moves the cursor on, for all streams alike; one that opens starts behind the
cursor that was sent for it (`Sent`), which the cursor may have passed since but
not the reverse. That a push does not move the cursor is needed: `Covered` says
nothing of what comes by push. For `AppliedOnce`, a number that was handed out is on
the list, unless it was cut from it, and an `accept` that has yet to write the list
read it there, or the number is one of those the property leaves out (`clashed`).

*Sign-in of the server.* `TypeOK` says that a sign-in that waits for the edge has one
call there; `OneCall` names it, and each way a call begins, goes on or ends has a
lemma that it stays the one. `WaitsInTime` and `AskedToForward` need what a call
was given (`CallTimes`): a wait ends with the sign-in's deadline or before, the
answer "no address" comes only while there is none, and registering never sleeps.
`WaitsInTime` also needs when each await is over at the latest (`by` in `Times`): a
call within `Hang` of its start, and no call starts after the deadline; a poll starts
by the deadline and reads for `Reading`. So a sign-in may outlast `otp_wait` by the
timeout of the call under way, 40 s at the edge or 60 s at Gmail, and by no more.

`NoCodeMissed` is the main result. `CodeInv` says where the code of a sign-in is
that came while the sign-in waited for it (`Safe`): tried or submitted, in a mail
being handed to the waiters, with the sign-in's waiter, in the answer of the one
call the engine still hears (`Underway`), or in the inbox. That the mail goes to the
sign-in at all is the order of `sign_in`: it registers before VTOP is asked
(`Registration`, `Reached`), so its waiter began before VTOP's mail by more than the
clocks differ, and lives for `Ttl` from then (`WaiterTimes`, `MailTimes`). That a code
with the waiter is heard in time is the loop of `awaitCode`: no call sleeps while its
waiter has a code, unless it is woken (`Asleep`), so that time passes only when the
code is on no such way any more (`TickCodes`), and a sign-in that looks again has time
left or lost it to VTOP's refusal of another code (`late`). A call that was cut off may
take a code for nobody; `Asleep` says that its sign-in is `hurt`, which the
property leaves out.

A poll of Gmail that had its list before the code came goes round again, as a code
counts as in time only if this one can end early enough for another (`InTime`,
`InRead`).

For forwarded codes nothing else is needed (`ForwardedCodesReach`). A Gmail student
needs `Listing`: `newest_otp` reads the newest three mails (`gmail.rs:178`), and a
code behind three newer ones is never seen. Nothing in the code prevents that, so
it is a hypothesis; the run has two codes and three places, where it holds.

The inductive invariants were checked by TLC before they were proved.

Only model-checked: liveness (`Answered`, `EverySignInEnds` and the like), as TLAPS has
no support for fairness and ENABLED here. Every other property the passing runs check
is stated by a theorem.

## 5. The plan

Done, in this order: `ReplayWindow`/`ReplayGuard` and `SessionSlots`; `WireNet`,
`WireGateway`, `WireClient`, `Wire` and the refinement of `FetchPromise`;
`AccountSession`, `PhoneSession`, `Outings`, `PageSessions`, `ServerSignIn` and
`EdgeEvents`; then the proofs: of each of these, the type invariant and every
safety property named in section 4, and that `Wire` implements `FetchPromise`.

Next, most important first:

1. `AccountLinks`: phones, keys and the key index of the account object: links
   side by side, a phone removed during its own call, the key limit, a key in
   the index and not in the account. Adds to `AccountSession` the credentials a
   sign-in was given, for late rejections and rejected credentials in use.
2. An abstract feed that `EdgeEvents` implements; then another registration of
   an install, whose log starts over while pushes of the old one are on their way.
3. `GatewayKeys` (`udp-gateway.ts` with `WireGateway.SetKeys`) and the members
   of a mailbox.
4. `ServerSignIn` under `AccountSession`, whose `jobs` it is one of; a
   `PhoneSession` whose fetches make several requests; then pages under a change
   of semester, the OTP prompt and the extension.

## 6. What is not modelled, and why

Page parsers, the captcha model and link estimation compute data from data;
a model would repeat them. Screens, platform channels and generated glue have no
protocol. The edge's routing and the MCP server's reading tools are stateless. Cryptography
(Noise, AEAD, sealing) is taken to do what it says, and the erasure code is a
library's. `PROJECT.json` lists every component with its reason.
