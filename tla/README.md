# A verification of coap-rs in TLA+

coap-rs is a CoAP library: a server that keeps an observe registry and calls a
handler for every request, a router with extractors and resource discovery, a
client that runs concurrent requests over one transport, block-wise transfers, and
an EDHOC key exchange. This directory holds TLA+ modules translated from the Rust
source, the TLC configurations that check them on small instances, and proofs
checked by TLAPS. Paths such as `observer.rs:343` are relative to `src/src/`.

## 1. Inventory

| Part | State | Operations | What is hard |
|---|---|---|---|
| Observe registry (`observer.rs`) | registrations by endpoint, by resource and by key; newest state of every resource; pending (unacknowledged) notifications by message id; a 16-bit message id | register, deregister, Reset, acknowledge, resource changed (PUT), timer | four tables that must agree, `unwrap`s that rely on it, a counter that overflows, a retransmission that reads the counter |
| Server loop (`server.rs`) | the registry and coap-lite's block handler behind one lock; a task for every forwarded request | `run`, `intercept_request`, `intercept_response` | handler tasks are not ordered; a response is cut into blocks from the state that is newest when the handler is done |
| UDP listener (`server.rs`) | socket, queue of responses | relay in both directions, multicast membership | an error ends it and nobody notices |
| DTLS (`dtls.rs`) | a task per connection and per response | relay | responses leave in any order |
| Client transport (`client.rs`) | registry token -> sender, error of the transport, one receive loop | request with retries, `MessageReceiver`, failure, drop | two locks, senders used after unlock, tokens shared, waiters that are not told |
| Client block-wise (`client.rs`) | block state, ETag | upload in chunks, download in blocks, with ETag check for notifications | late answers to earlier blocks, a peer that changes the block size or the resource |
| Client observe (`client.rs`) | the task that passes on notifications | observe, fetch of the rest of a notification, terminate | notifications wait while blocks are fetched, silent end, acknowledgements without token |
| EDHOC responder and initiator (`edhoc/mod.rs`) | pending sessions by C_R, completed sessions by message 3 | messages 1 to 4, hook | duplicates handled in parallel under two locks, 48 identifiers, expiry |
| Router (`router/`) | the table of routes, fixed before the first request | route, fallback, discovery, handle | patterns, precedence of routes, methods and fallbacks |
| Extractors (`router/extract/`) | none | Path (a serde deserializer), Query, Json, Cbor, State, tuples | what a type gets from which parameters, which error is whose fault |
| Discovery (`discovery.rs`, `client.rs`) | none | filter, link format written and read | prefixes, several words, flags and empty values |
| Request builder and URLs (`request.rs`, `client.rs`) | none | URL to request, discovery URL | decoding once, options set twice |

How they interact: a listener pushes datagrams into one queue; `Server::run`
takes them one by one, locks its state, lets the block handler and then the
registry look at the request, and either answers or spawns a task that calls the
application's handler (a router, if it likes), locks the state again for the
response and answers. The registry sends notifications directly to the responder
that registered. On the client every task that waits registers a channel under its
token with the `TransportSynchronizer`; one receive loop looks the token of every
packet up and pushes the packet into the channel. Observing, block-wise transfer
and EDHOC are sequences of such requests.

What makes each part correct:

- **Observe registry**: its tables agree; no `unwrap` or `assert` of it fails; only
  its owner ends a registration; every observer is sent the newest state in an order
  it can reconstruct; unacknowledged notifications are given up.
- **Server loop and listeners**: a block that an observer asks for is a block of the
  payload it was notified of, or the client can tell.
- **Client transport**: a task gets answers to its own request and no other; a
  request ends; a task that ends leaves nothing behind; a failure is told to all.
- **Client block-wise**: the payload put together is one the server had, whole; an
  upload that succeeds has reached the peer, whole; a transfer ends.
- **Client observe**: the handler is told whole payloads, in order; the end of an
  observation is noticed and leaves nothing behind.
- **EDHOC**: both sides derive the same secrets with crossed identifiers; the hook
  is told once of each exchange that was done; copies of a message change nothing.
- **Router and extractors**: a route takes the paths its pattern describes; adding
  a route does not change what earlier ones answer; values arrive at the place or
  name they were meant for; a refusal is an error, of the side whose fault it is.
- **Discovery and URLs**: a client reads from a discovery what the table holds, and
  what it writes in a URL is what the handler gets.

## 2. Modules

| Module | Models | EXTENDS | Runs |
|---|---|---|---|
| `Observer` | the observe registry | | `observer_*` |
| `Server` | server loop, listeners, block cache, tasks | `Observer` | `server` |
| `Observation` | the client's observation, the network, with the server | `Server` | `server` |
| `RequestReply` | what a client's transport promises (abstract) | | `client_shared` |
| `ClientTransport` | requests that share a transport; implements `RequestReply` | | `client_*` |
| `BlockState` | how blocks are put together | | with the next, and in `Observation` |
| `BlockTransfer` | a block-wise transfer against a peer | `BlockState` | `client_transfer` |
| `Edhoc` | initiators and responder of EDHOC | | `edhoc_*` |
| `RoutePath` | texts, patterns and matching | | `router` |
| `PathValue` | the `Path` extractor's deserializers | | `router` |
| `LinkFormat` | links: filter, written and read | `RoutePath` | `router` |
| `RequestUrl` | URL to request, answer to links | `LinkFormat` | `router` |
| `Router` | the table, handlers, extractors, replies | `PathValue`, `RequestUrl` | `router` |
| `MC...` | values of the constants, symmetry sets | its module | |
| `ObserverProofs`, `ClientTransportProofs`, `ClientPromiseProofs`, `EdhocProofs`, `BlockTransferProofs`, `BlockAssemblyProofs`, `RouterProofs` | theorems | its module, TLAPS | |
| `ObservationProofs` | theorems, those of the registry among them | `Observation`, `ObserverProofs` | |

`PROJECT.json` ("map") names the lines every definition stands for. A definition
whose comment begins with "Mutant of" is not part of the model: it is that
definition with a plausible bug, and each property has one that refutes it.

### Observer

State: `registers`, `resources`, `registerResources`, `unacknowledgeMessages` and
`currentMessageId` are the fields of `Observer` (`observer.rs:26-35`); a key is a
pair of endpoint and path instead of the formatted string. `lastSent` is what was
last handed to the responder of a registration, `canceller` who asked for the last
removal: both are kept for properties only. `panicked` says that an `unwrap`, an
`assert` or an overflow check has failed.

All operations take `&mut self` and the server holds its lock around them
(`server.rs:311`), so one operation is one action, except the two that send in a
loop, `resource_changed` and `timer_handler`: each is a first action that fills
`todo` and one action for each round, in any order, since a `HashMap` gives them
in any order. Nothing else happens until the loop is over. A message is given to the
responder only if coap-lite can encode it (`HandOver`, `observer.rs:245, 570`): one
whose body is longer than `MaxBody` is dropped, and the registry goes on as if it had
been sent. The registry's other outcomes (an unknown resource is answered 4.04, an unknown id is ignored) change
nothing and are not actions.

A payload is its length, which decides whether a client's preferred block size
cuts it. A resource's successive states are told apart by the sequence number.

### Server and Observation

`Server` puts the loop of `Server::run` around the actions of `Observer`. One
client is followed; the other endpoints only change its resource (`ReceivePut`).
Its requests are in `inbox`; each is taken with the lock held (`Received`) and is
answered by the block handler, which sees it first (`FromCache`: a fetch, or a
registration that asks for a block size, and which then never reaches the registry), answered by the
registry (`ReceiveRegister`), or given to a task (`Forward`, `tasks`). `Handled` is
the end of such a task: the lock is taken again, and what the observer replaces in
the response (`Replacement`, `server.rs:345-358`) is made of the state the registry
has then. `Notify` is a round of the registry's loop with the message put on
its way. The queue of the UDP listener and the tasks of the DTLS listener differ in
which message of `outbox` may leave next (`Leaves`). `automatic` is the switch for
the observe handling. coap-lite's block handler is external: it may or may not
still have the response it would cut a block from. Acknowledgements and
deregistrations with a token that does not fit are taken and change nothing; PUTs
run to the end of their round before another request is taken.

`Observation` is the task behind `observe_with` (`client.rs:741-935`), the channel
it listens to, the fetch of the rest of a notification with a token of its own
(`Fetch`, `FetchAnswered`, the ETag check and `BlockState`), `Terminate`, the
three ways to end, and `Dropped`: the caller drops the future of `observe_with` while
it registers or makes its first fetch, and nothing removes its senders
(`client.rs:759-772`). The token of a fetch is any of `RandomToken`, which may be the
observation's own (`GenToken`, `client.rs:1212`): then the fetch takes the
observation's place in the registry, and `collided` remembers it. `outgoing` is the client's registry as `ClientTransport` has it,
reduced to whose sender a token has. `Deliver` is one turn of the receive loop:
acknowledge first, then look the token up. Messages and requests may be lost, and
requests are sent again. `told` is what the handler was told last, with the
sequence number of the notification it was about.

### ClientTransport and RequestReply

State: `outgoing` and `failError` are `TransportSynchronizer` (`client.rs:73-76`),
`channel` the `mpsc` queue of each task, `pc` what a task does next, `loop`,
`packet` and `sender` the receive loop with the packet it works on and the sender
it has cloned. A `Request` is a task in `do_request_response_for_packet`, a
`Receiver` the holder of a `MessageReceiver`.

An action reaches to the next point where another thread may run: one lock, one
send, one poll. So `set_sender` is `CheckForError` and `Insert`, `get_sender` and
the use of what it returned are `GetSender` and `Deliver`, `fail` is `SetError` and
`FailAll`. A task that drops its future at an `.await` is `Cancel`. Network and
server are external: what has been sent may be answered later, repeatedly, out of
order or never (`Receive`); an answer is represented by the task it answers and
carries that task's token. That a timeout expires needs no clock: an attempt may
end whenever nothing is in the channel (`AttemptFails`), which also stands for a
closed channel, as in the code.

`RequestReply` knows no registry, channel or loop: a caller opens a request, tries
it a limited number of times, and is given once an answer to something that was
tried under the same label, or an error when no try is left; a listener takes any
number of answers. `ClientTransport` implements it (`Promised`, with `View`
hiding where a task is between two of these steps).

### BlockState and BlockTransfer

A payload is a sequence of cells; a cell knows the version of the resource it is
from and its offset there, so that every misplaced, mixed or missing piece shows.
`HandleBlockwise` is `handle_blockwise` (`client.rs:1222-1270`) with coap-lite's
`extending_splice` as `Splice`. `BlockTransfer` is `send_request` with its chunks
(`Upload`), then `receive` or `receive_with_etag_validation` (`Download`). All
requests of a transfer have one token, so the client takes any answer to any of
them (`Receive`); requests and answers are never removed, so they may be late and
repeated. `mode` is how it starts: `send` with a request that fits in a block,
`upload` with one that does not, `fetch` with the first block of a notification
already in the state. The peer is external, and need not be this library: it may refuse,
answer in smaller blocks or not at all in blocks, echo a chunk's number with an
error, take the last chunk for one in the middle, and its resource changes.

### Edhoc

State: `pending` and `completed` are the two tables of `EdhocResponderStore`
(`edhoc/mod.rs:418-424`), `task` what each handler task of a `message_3` is doing;
`phase`, `cI` and `heard` are the local variables of `edhoc_initiate`; `requests`
and `responses` everything ever sent. A request may be received any number of
times: the client sends it again until it is answered, the network may copy it,
and the server starts a handler for each copy. `served`, `refused` and `hooked` are
kept for properties.

`process_message_1` allocates C_R and inserts the session under one lock and is one
action. `process_message_3` takes three locks in turn and awaits the hook:
`CheckCompleted`, `TakePending`, `Verify`, `Notify`, `Answer`. On a single-threaded
runtime there is no `.await` between the first three, so what needs them to
interleave needs a multi-threaded runtime (tokio's default).

The cryptography (the lakers crate) is external. A message is represented by the
session it belongs to, and verifies in that session only (`Verifies`,
`ProcessMessage4`). A credential verifies when its owner is in `Trusted`.
Expiry of completed sessions is the choice of `old` in `CheckCompleted`. What
`edhoc/router.rs` adds, the status of a response, is `Respond` and `Error`; its
route and extractors are in `Router`.

### Router and what it uses

The table of routes is built before the first request and only read afterwards, by
handlers that share nothing else. So the state machine is short (the calls of
`route`, `fallback` and `enable_discovery` in any legal order, then one request)
and what is checked are the functions: `BuildRegex` and `MatchPath` for
`route.rs`, `Deserialize` for the five deserializers of `extract/path/de.rs`,
`MatchesQuery`, `WriteLinkFormat` and `ParseLinkFormat` for `discovery.rs`, `Handle`
for `Router::handle`. Requests come either from any client (`Serve`) or from this
library's own, by way of a URL (`Fetch`, `Discover`).

A text is a sequence of characters (`Char`); a percent-escape is one character, and
one stands for a byte that is not UTF-8. A type for `Path` is a record with the shape
serde's data model gives it (`Shaped`), `wraps` listing the Options and newtypes
around it; `PathType` holds the types a program uses and the types inside them. A
tuple among the extractors of a handler is written as its members, in its place, since
the first rejection ends either; `around` are the statuses put around a reply, of which
the outermost counts. What serde_json, ciborium and serde_html_form make of
a body or a value is external: a body is known by the codec that can read it.

The definitions are folds and recursive functions and not recursive operators, so
that they can be proved about.

## 3. Runs

| Run | Instance | States | Shows |
|---|---|---|---|
| `observer_notify` | 2 endpoints, 1 path, 2 tokens, payloads below and above the block size and what a message holds, 4 ids, overflow checks | 507 129 | the tables agree, the only panic is the overflow, only the owner cancels, every observer is sent the newest state it can be sent in an order it can reconstruct, a pending notification settles |
| `observer_retransmit` | 2 endpoints, one retry | | *finding*: a Reset of a retransmission is not recognised |
| `observer_wrap` | 2 endpoints, 2 paths, 4 ids, no overflow checks | | *finding*: after a wrap two registrations share an id, and an `unwrap` fails |
| `client_shared` | 2 requests (1 confirmable, 2 attempts), 1 of them with the receiver's token | 262 262 | `ClientTransport` implements `RequestReply`; own answers and a lasting sender for the task that shares nothing; no stale senders; requests end |
| `client_shared_token` | 2 requests with the empty token | | *finding*: one takes the answer of the other |
| `client_lost_waiter` | 2 requests | | *finding*: a task registers after the failure and is not told |
| `edhoc_parallel` | 2 initiators (1 trusted), 2 tasks, 3 identifiers, 2 sessions, expiry | 379 741 | secrets agree, key confirmed, hook told, and once, pending sessions kept |
| `edhoc_sequential` | 2 initiators, 1 task, 3 sessions, no expiry | 15 675 | a copy is answered again; a `message_3` takes its own session |
| `edhoc_duplicate` | 2 tasks | | *finding*: a copy handled in parallel fails |
| `router` | tables of one or two routes and 30 handlers, with and without fallback and discovery; requests and URLs with escapes, empty segments, queries and bodies | 134 908 | routing, extractors, discovery and URLs against reference definitions |
| `client_transfer` | uploads of 3 chunks, blocks of 2 and 4 cells, 1 change of the resource | 368 112 | no chunk skipped, no success invented, payloads in place and of one version, transfers end |
| `server` | client and server, 1 resource that changes once, payloads of two and of three blocks, two tokens for fetches of which one is the observation's, UDP and DTLS, with and without the automatic handling | 1 292 418 | what the handler of an observation is told, and what is left when it has ended |

Why the bounds are enough:

- *Observer.* Two endpoints are what a step of one can do to the other; two tokens a
  right and a wrong one. `observer_notify` has one path: with two, states grow
  twentyfold, and what a registration does to another of the same endpoint concerns
  the tables only, whose agreement is proved for any number of paths. `MidModulus`
  (65 536 in the code) is small so that ids run out (`observer_notify`) or wrap
  (`observer_wrap`). `MaxTry` is 1 instead of 10: the comparison is reached on both
  sides. `MaxBody` is 2: of the payloads of 1 and 3 the longer is sent to an observer
  that prefers blocks of 2, and to no other. `MaxSequence` bounds how often a resource changes; with two observers two
  changes and a retransmission use more ids than there are.
- *Client.* A registry of tokens meets its conflicts with two tasks on a token and a
  third that has its own. `MaxQueue` bounds how many packets wait in a channel, so
  that copies of answers are finite. `Retries` is two attempts instead of the
  code's default of five: the first, and one that follows a failed one.
- *EDHOC.* `MaxSessions` allows a session for each initiator and, in
  `edhoc_sequential`, one for a duplicate of `message_1`; three identifiers leave,
  after C_I, one that is in use and one that is not, or none
  (`NoConnectionIdentifierAvailable`); the code has 48.
- *Block-wise.* Two block sizes let a peer answer in smaller blocks than it is asked
  for. The rest of a notification is nine cells long first and five after the change
  (the others five and three), so that a late, smaller block of a resource that has
  shrunk replaces a larger one: with shorter payloads every assembly would be in
  place, ETag or not. Three chunks have a first, a middle and a last.
- *Server and observation.* The resource changes once, so that there are two states,
  equal or not, each of two or of three blocks. `MaxQueue` and `MaxChannel` bound what
  waits in the listener and in the task's channel: two messages are enough to change
  places, one notification to wait behind a fetch. `MaxMishaps` bounds how often a
  request is sent again or a fetch draws the observation's token, one or the other
  here. `RandomToken` (65 536 values in the code) is one that collides and one that
  does not; two fetches with the second have one token, so late answers to an earlier
  one are there too. Which tokens there are does not matter to the proofs.
- *Router.* Every pair of six patterns (static, one and two parameters, a wildcard, a
  shared prefix) with three method routers; each of the extractors' types, and a pattern
  with an escape, on its own route, since handlers share no state.
- Symmetry is used in runs of safety properties only, over sets whose members no
  definition names.

Deadlock is not checked: in every model the system may really stop (a panic; all
tasks done and the loop stopped; no exchange left; a transfer that is done; a request
answered; an observation that has ended).

Fairness, assumed in the runs of liveness properties only:

- `Observer!FairSpec`: a loop that has begun goes on, and the timer is polled. The
  second is a condition on the embedding program: `Observer` has its timer in its
  API, and `Server` of this crate never polls it (so in `Server` there is no such
  action), and an unacknowledged notification stays pending there until the
  registration is sent another.
- `ClientTransport!FairSpec`: the runtime polls a task that can go on and timers
  fire; so a request that has started goes on by itself, as does the receive loop
  once it has a packet. Nothing is assumed of network, server or callers.
- `Edhoc!FairSpec`: a handler task runs to its end, which includes that the
  application's hook returns. Nothing is assumed of the initiators or the network.
- `BlockTransfer!FairSpec`: a request ends, with an answer or after its last
  retransmission, which is `RequestEnds` of `ClientTransport`.
- `ObservationFairSpec`: the runtime polls the task of the observation while it
  fetches, and its timers fire (`FetchStep`). Nothing is assumed of the server, the
  network or the rest of the task.

## 4. Properties worth reading first

- `NewestStateSent`: whatever the order of changes, registrations and
  retransmissions, between two requests each observer was sent the newest state
  under the token and block size it registered last, unless it is more than one
  message holds (finding 8).
- `NotificationsOrdered`: reordered datagrams can be put in order, as the sequence
  number and the message id grow together.
- `KeepsPromise` (refinement) and `UnsharedOwnAnswer`: a client's transport with its
  two locks, its loop and its failure looks to its callers like a table of tries; a
  task whose token nobody else uses gets its own answers whatever the others share.
- `StaysRegistered`: nobody removes another's sender (by `Drop`, whose removal is a
  task of its own, or when a request ends), if the token is its own.
- `SecretsAgree`: what the hook is given is what the initiator of that session has,
  though sessions end, identifiers are used again and copies are late.
- `TakesOwnSession`: needs that tasks do not overlap and no completed session
  expires. In parallel, a late copy of a `message_3` may take, and so use up, the
  pending session of another exchange that was given the same C_R; that exchange
  then fails, but `SecretsAgree` and `HookOnce` still hold.
- `ToldIsNotified`: the server makes the later blocks of a notification from the
  state that is newest then, not from the one notified; it is the ETag, a hash of
  the payload, with which the client notices (two payloads with one hash are not
  modelled).
- `ToldForwards`: on UDP, and on a network that keeps the order of datagrams (as the
  model's does), the handler never hears an older state after a newer one; a network
  that reorders would break it at once, as the client's task looks at no sequence
  number. The property is restricted to UDP, as over DTLS each response leaves by a task of its
  own (`dtls.rs:58`) and the client's task compares no sequence numbers.
- `AckSettlesNothing`: this library's client acknowledges with an empty message, and
  this library's server wants the token of the registration, so an acknowledgement
  never ends the retransmissions.
- `AssembledInPlace` and `OneVersion`: without ETags blocks of two versions may be put
  together, and the payload may even be shifted; with one version, or an ETag, neither
  happens, whatever comes late.
- `LostOnlyWithError` and `NothingLeft`: what the end of an observation means. The
  first leaves out a collision of tokens (finding 6), the second a future that is
  dropped (finding 7).
- `UploadConcluded`: a success is never made of a stale answer. The peer of the model
  answers a chunk in the middle with 2.31 or an error; any other success code would
  be handed to the caller as it is (`client.rs:1019-1025`).
- `NothingSkipped`: an acknowledgement counts for the chunk it names, so one that is
  late or repeated skips none.
- `UrlArrives`: the path of every URL; the query only of those in which no escape
  stands for a character the form encoding reserves, since the client and the extractor
  both decode it (`client.rs:1164`). An escaped percent sign is not among the
  characters.
- `RoutedByPattern`, `StructAgreesWithTuple`: the regular expressions and the five
  deserializers against what a pattern and a type mean.
- `AppendKeepsAnswers`: a route added last takes no request from the others, which also
  says that a route with the right path and the wrong method hides a later one.
- `DiscoveryReachesClient`, `WiderFilterShowsMore`: what is written is what is read,
  and a filter that asks for less shows at least as much.
- `PanicOnlyOnNestedPair`: the one `unreachable!()` of the deserializer that is reached
  (finding 9), and by which types only.

## 5. Proofs

All theorems are for every value of the constants that satisfies the assumptions
in the modules, which TLC evaluates in the runs: `ObserverAssumption`,
`ClientTransportAssumption`, `EdhocAssumption`, `BlockTransferAssumption`, the
`NoneAssumption`s and `AbsentAssumption` (an absent value is not one of those that may
be there) and, of the router, `CharAssumption`, `PathTypeAssumption`,
`ProgramsAssumption` and `RequestsAssumption` (programs and requests have the shape the
Rust types give them). What a theorem needs beyond them it states.

**ObserverProofs.** `TypeCorrect`: `TypeOK` is inductive on its own.
`IndexesCorrect`: so is `IndexesAgree` together with it, with or without overflow
checks. `OnlyOwnerCancelsCorrect` is an action property and needs `TypeOK` only.
`PendingCorrect` and `PanicCorrect`, under `OverflowChecks`, need the stronger `IInv`:
a round that is left finds its registration (`RoundsLeft`), and the next id is not in
use as no id above `currentMessageId` was issued (`MidsIssued`). Without the second,
`PendingAgrees` is not inductive: `observer_wrap` shows the step that breaks it.
`NewestStateSentCorrect` holds in both builds. Its invariant `NewestInv` says of every
registration that it is current, or that a round for it is left in `todo`, so the
property, which speaks of the moments between requests, is what remains when `todo` is
empty. Both except a state that is more than one message holds (`Encodable`), which is
recorded as pending but never sent. `NotificationsOrderedCorrect`, under `OverflowChecks` again (the order of ids is
lost when they wrap, see `observer_wrap`), rests on `SentInv`: what was last sent to an
observer, one that is gone included, is not ahead of its resource nor under an id that
was not issued yet.

**ClientTransportProofs.** `TypeCorrect` and, from `TokensAgree` (what is bound to
a token, carried by the loop or queued in a channel has that token),
`AnswerHasTokenCorrect`. `UnsharedOwnAnswerCorrect` follows, for every task whose token
no other has. `NoStaleSenderCorrect` is inductive with types. `StaysRegisteredCorrect`
needs that the registry is emptied only after the error is set (`FailingIsKnown`).

**ClientPromiseProofs.** `KeepsPromiseCorrect`: every step of `ClientTransport` is a
step of `RequestReply` or changes nothing of it, under the mapping `View`. The
invariant it needs is `AnswersSent`: an answer in the loop's hands (`PacketSent`) or in
a channel (`QueuedSent`) is to a request that was sent. With `TokensAgree`, a channel is
fed only with what the abstract caller may be given.

**EdhocProofs.** `TypeCorrect`, and `InvariantHolds` for `IInv`: what is on the way
belongs to what its sender remembers (`RequestsAgree`, `ResponsesAgree`), a pending
or taken session is the one its `message_2` announced (`SessionsStarted`), what a
task has verified belongs together (`TasksAgree`), and a session is in one place:
pending, in the hands of one task, or handed over (`OnePlace`). The last is what
makes `HookOnce` inductive: a task that is about to call the hook holds a session
that nobody else has. From it: `SecretsAgreeCorrect`, `HookOnceCorrect`,
`IdentifiersDifferCorrect`, `KeyConfirmedCorrect`, `PendingOnlyTakenCorrect`.
`DuplicateAnsweredCorrect` assumes `Sequential`: there is one task, and no completed
session gets old. Both are needed, the first by `edhoc_duplicate`, the second because a
session that has expired is forgotten. `TakesOwnSessionCorrect` needs in addition that
all initiators are trusted (as in `edhoc_sequential`): a `message_3` that fails to verify
leaves no completed session, so a copy of it, which is late, takes whatever is pending
under its C_R by then.

**BlockTransferProofs.** `NothingSkippedCorrect` from `SkipInv`: a request for a chunk
exists only when the peer has the chunks before it, and a 2.31 that names a chunk
means that the peer has it, or that it is the last (a wrong answer the client
refuses). `UploadConcludedCorrect` from `ConcludeInv`, which adds that nothing of the
response exists before the request has been processed.

**BlockAssemblyProofs.** `AssembledInPlaceCorrect` and `OneVersionCorrect` from
`PlaceInv`: nothing has been asked for, or answered, past the end of what has been put
together (`Reached`), so no padding is ever left; every block but the last of its
version is full, so what follows it stays in place (`MorePut`); and where a last block
does move what follows, the two are of different versions (`LastPut`). `Spliced` is
the lemma about coap-lite's splice, `Divides` the one about sizes that divide each
other.

**ObservationProofs.** `ImplementsRegistry`: the client, the network and the server loop
together take only steps of the registry's own specification, so every theorem of
`ObserverProofs` holds of the composed system; the proofs below use `TypeCorrect` and
`IndexesCorrect` in this way. `AckSettlesNothingCorrect`: whatever removes a pending
notification is not the acknowledgement (`RegistryCalled` is the part of the
registry's steps that the server really takes, and `OneRegistration` says that they bind
no token but the observation's). `ToldIsNotifiedCorrect` needs most: every message
on its way, cached or queued says what the resource was in the state it names
(`Stated`, `CacheTyped`, `MessagesTyped`), a block lies in the payload its ETag is of, and what a
fetch has put together is a beginning of it (`FetchPlaced`). Beside it stands `OneSize`:
all of them are cut into blocks of one size. `NothingLeftCorrect` is in the same invariant
(`Senders`: who has a sender in the registry in each state of the task; where a fetch has
drawn the observation's token, its own sender is the only one, and none is left once it
has ended). It speaks of the three ways in which an observation ends by itself or by its
handle, not of a dropped future. `LostOnlyWithErrorCorrect` follows from `FailureTold`
and speaks of observations without a collision of tokens. `ToldForwardsCorrect`, on UDP,
from `Ordered`: the sequence numbers along the whole way from the registry over the
listener's queue, the network and the task's channel to the handler never decrease.

**RouterProofs.** Two invariants of the state machine, `TableTyped` and `Answered` (an
answer is what `Handle` makes of the request with this table), reduce the properties to
facts about functions. Those are folds (`Split`, `Join`, `Those`, `Scan`), and the library defines
a fold by a choice of a function on sets of indices: `FoldExists` shows that there is one, and
`FoldRun` unfolds it into one step per element. `SetInduction`, which follows from the
well-foundedness of the naturals, then carries a fact from step to step; it takes a set where
an induction rule would take a predicate, so it needs no operator as a parameter.
`AppendKeepsAnswersCorrect`: earlier routes keep their numbers, so the first
hit stays. `PanicOnlyOnNestedPairCorrect` follows a panic from the handler back
through each deserializer (`DeserializeTag`). `WiderFilterShowsMoreCorrect` is about
prefixes and the first "=" of a query; `DiscoveryReachesClientCorrect` about the forms
of an attribute (`AttributeRead`) and the order of values and flags, which is lost, and
the elements, which are not. `StructAgreesWithTupleCorrect` pairs each field with the
parameter of its name. `RoutedByPatternCorrect` reads a pattern character by character:
filling a pattern spells out the pieces that `Scan` has made of it (`FillIsSpell`), and
a row of `Captures` is, in both directions, a way to spell the path so (the search for
the ends of each piece is sound and complete: `CapturesSound`, `CapturesComplete`).
`UrlArrivesCorrect` needs one more invariant: a request that has a URL is what the
client makes of it, and its answer that of the table (`FromUrlCorrect`). The part about the query has
the property's condition: no escape in it stands for a reserved character. The rest is
that decoding commutes with filling a pattern (`FilledDecoded`), with cutting a text at
"/", "&" and "=" (`SplitDecoded`) and with leaving out what is empty, and that joining
what was cut gives the text back (`JoinSplit`).

Only model-checked: `PendingSettles`, `RequestEnds`, `HookTold`, `TransferEnds` and
`FetchEnds`, which are liveness under fairness and beyond the installed provers. Every
other property of a run that passes has a theorem.

## 6. Findings

1. `observer_retransmit`: a retransmission goes out under the id generated last
   instead of the id of the message it repeats, so a Reset of it is not found.
2. `observer_wrap`: without overflow checks (a release build) the id wraps onto one
   still pending and an `unwrap` of the registry fails later.
3. `client_shared_token`: requests built without a token share the empty one, and
   concurrent ones take each other's answers.
4. `client_lost_waiter`: a task between `check_for_error` and the insertion into the
   registry is not told that the transport failed.
5. `edhoc_duplicate`: a copy of `message_3` handled in parallel is answered with an
   error, where the documentation promises the same `message_4`.

The following have no run of their own. The modules take the steps they describe, and
the properties that would otherwise fail name them as exceptions.

6. `gen_token` draws 16 bits without a check (`client.rs:1212-1214`). The comment at
   `client.rs:896-897` says "Use a different token for the short-lived blockwise
   continuation to avoid interfering with the long-lived observe mapping"; if the fetch
   draws the observation's token, its sender replaces the observation's, and the task
   then ends at `sock_rx?` (`client.rs:792`) without a word to the handler.
   `LostOnlyWithError` excepts it by `collided`.
7. The comment at `client.rs:765` says "Ensure we clean up the long-lived observe mapping
   if registration fails", which the code does when the registration returns an error;
   if the caller drops the future of `observe_with` (a timeout around it does), the
   sender of the observation, and that of a fetch under way, stay in the registry.
   `NothingLeft` does not speak of the phase `"dropped"`.
8. A notification that coap-lite cannot encode is dropped without an error, but is
   recorded as pending and later "retransmitted" until the observer is removed for not
   answering (`observer.rs:245, 570`). `NewestStateSent` excepts it by `Encodable`.
9. The comment above the `unreachable!()` of `de.rs:464` says "`self.key` is only `None`
   when deserializing maps so `deserialize_seq` wouldn't be called for that"; a sequence
   of pairs whose second element is a pair reaches it. `PanicOnlyOnNestedPair` says that
   nothing else does.
10. A query is decoded by the client (`client.rs:1164`) and again by the extractor
   (`extract/query.rs:49`), so an escaped "&", "=" or "+" does not arrive as what it
   was. `UrlArrives` excepts such queries.

## 7. Not modelled, and what is left

Not modelled: the client's multicast (`send_all_coap`, `send_multicast`: one datagram,
no state), multicast membership of the UDP listener (socket calls), the handshake,
accept loop, drop hook and configuration of DTLS (calls of webrtc-dtls whose state no
other part reads), constructors and setters, logging, examples and benchmarks. Within
what is modelled: the limit of 16 KiB of `extending_splice` (a transfer that reaches it
fails like any other error); the 16 bits of a block number, whose unchecked addition
(`client.rs:1264`, `client.rs:904`) panics or wraps, at line 904 already on a single
notification with the last number; errors of a single
send, an escaped percent sign in a URL, quoting inside an attribute's value (coap-lite), the wording of errors. Other
crates are external: the cryptography of EDHOC (lakers), coap-lite's block handler, the
codecs of bodies and queries.

Left, in this order:

1. Abstract specifications of the other services: an observer is sent the newest state
   (`Observer`), a session is open, agreed or dead (`Edhoc`), each with a refinement.
2. Two observations on one client, whose fetches and tokens meet in one registry.
