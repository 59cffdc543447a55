# upside-python-sdk: specifications, checks and proofs

TLA+ models of the parts of `upside-python-sdk` whose correctness is hard to
test: the WebSocket subscription registry with its reconnecting reader thread,
the facade in front of it with its tick-size cache and the routing of frames,
the path of a signed write with its nonces and retries, the rules an order
passes before it is signed, and the signing of every other action. TLC checks
small instances; TLAPS proves every safety property of the passing runs, the
action properties and the three refinements for every value of the constants. Paths below are relative to
`src/src/upside/`.

## 1. The system

| Component | Source | State | Operations | Modelled by |
|---|---|---|---|---|
| WebSocket registry and connection | `websocket_manager.py:134-327` | `_lock`, `ws_ready`, `_active`, `_id_counter`, `_auth_account_id`, the socket | `subscribe`, `unsubscribe`, `authenticate`, `stop`, `run`, `_on_open`, `_on_message`, `_on_error`, `_on_close`, `_send` | `WebsocketManager`, `ConnectedService` |
| WebSocket identifiers and routing | `websocket_manager.py:37-131, 309-319` | none | `normalize_subscription`, `subscription_to_identifier`, `ws_message_to_identifier`, `_callbacks_for` | `Routing`, `Streams` |
| WebSocket facade and tick-size cache | `info.py:29-44, 284-335` | the manager, cached tick sizes | `subscribe`, `unsubscribe`, `_tick_size`, `ws_authenticate`, `close` | `Streams`, `SubscriptionService` |
| REST transport and retries | `api.py` | one session; per call the attempt counter | `post`, `_handle_response`, the failure classification | `WritePath`, `AtMostOnce` |
| Nonces | `utils/signing.py:198-219` | `_last`, its lock | `NonceManager.next` | `WritePath` |
| Order family | `exchange.py:196-441, 509-613, 744-939` | `sync` flag of the client | `order`, `market_order`, `trigger_order`, `bulk_orders`, `cancel*`, `modify`, `tp_sl` | `OrderEntry`; `cancel_tp_sl`, `cancel_conditional` as calls of `AccountActions` |
| Account, agent, margin, collateral actions | `exchange.py:65-195, 443-508, 615-742` | `account_id`; a generated agent key | one method per action, all through `_post_action` | `AccountActions` |
| EIP-712 signing | `utils/signing.py:28-188` | none | `eip712_digest`, `sign_action`, recovery | `Signing` |
| Info queries | `info.py` | none | one method per query, all through `API.post` | partly (reads of `WritePath`) |
| Types, constants, errors | `utils/types.py`, `utils/constants.py`, `utils/error.py` | none | definitions | as used by the modules above |
| Examples, tests, packaging | `src/examples`, `src/tests` | none | | not part of the library |

**How they interact.** `Exchange` builds an action, takes a nonce, signs and
calls `API.post`; `Info` calls `API.post` for a query and starts a
`WebsocketManager` thread when it is constructed (unless `skip_ws`). Any number of `Exchange`
objects can share one `NonceManager`, and calls may come from any thread. The
manager's thread runs websocket-client's `run_forever`, which calls back into
`_on_open`, `_on_message`, `_on_error` and `_on_close`; application callbacks
run on that thread and may call the public methods again. `_lock` protects the
registry and is held over a send; `authenticate` does not take it.

**What is hard.** A reconnect between any two steps of a call; a drop nobody has
noticed yet; a replay that dies half way; a server that removes a grouping while
it is subscribed or unsubscribed; callbacks that re-enter; a retry of a write
that may have been executed; late copies and lost answers; a clock set back; two
nonce managers on one key; an order field lost or let through between the
arguments and the signed action; a tick-size cache that two threads read and
overwrite without a lock, on which the identifier of a subscription depends; one
stream spelled in many ways; a generated key whose approval is executed while its
answer is lost. `PROJECT.json` lists these as hazards with
the source line and the properties aimed at each.

**What makes each part correct.**

* Registry: every callback gets its stream whatever the interleaving, nothing is
  streamed that nobody wants, a live connection is never left with sends turned
  off, callbacks may re-enter.
* Write path: a write is executed at most once and what the caller is told
  (result, error or `OutcomeUnknownError`) is true and stays true; nonces are
  fresh and near the clock; every call ends.
* Facade and routing: each frame reaches the callbacks that asked for its stream
  and no other, spellings and the cache do not matter, an unsubscribe removes its
  own callback and nothing else.
* Actions and signing: what is sent recovers to its signer under every
  configuration and a signature for no other request, a client does not lose its account id, no approved key is lost
  without a sign.
* Order entry: nothing the gateway would refuse or silently drop is signed, a
  requested take-profit or stop-loss arrives as requested, no sound order is
  refused.

## 2. The modules

### `WebsocketManager` (checked with `MCWebsocketManager`, proved in `WebsocketManagerProofs` and `WebsocketServerProofs`)

A step ends where another thread can observe the state: at a lock operation, at
a socket send, and at each access `authenticate` makes without the lock.

| Code | Model |
|---|---|
| `_lock`, `ws_ready`, `_active`, `_id_counter`, `_auth_account_id` | `lock`, `ws_ready`, `active` (ids per channel), `id_counter`, `auth_account_id` |
| locals of a running method | `call[t]`, `replay`, `todo` |
| position of the reader in `run_forever` | `rpc` |
| ids the callers of `subscribe` got back | `returned` |
| `subscribe` | `Subscribe`, then `SendSubscribe` when it sends |
| `unsubscribe` | `Unsubscribe`, then `SendUnsubscribe` |
| `authenticate` | `Authenticate`, `AuthTest`, `AuthSend`, `AuthClosed` |
| `stop` | `Stop` |
| `_on_open` | `OnOpen`, `OpenAuth`, `SendOpenAuth`, `Replay`, `OpenDone` |
| `_on_message` | `OnData`, `OnGroupRemoved`, `OnErrorFrame`, `OnGarbledFrame`, then `RunCallback`, `CallbackReturns`, `DispatchDone` |
| `_on_error`, `_on_close` | `OnError`, `OnClose` |
| `_send` | `SendMay` with `ReadyAfterSend` |
| websocket-client (external) | `Connect`, `ConnectFails`, `ReadFails`, `NewSocket`, `ReadStopped`, `ServerClose` |
| network and server (external) | `Drop`, `Push`, `PushControl`, `Delist`, `Answer` |

A channel stands for an identifier, since the registry only compares them. A
callback is its id. `Families` are the channels one `userAccount` frame without a
deployer is handed to. The order in which `_active` is replayed or callbacks are
run is left open. What is assumed of the outside:

* `ws.send` delivers on a socket that is up; on one that is dead but open it
  either swallows the bytes or raises `OSError`; on none it raises
  `WebSocketConnectionClosedException` (the exception the code catches).
* A frame that was read before a drop is handled, those not read are lost.
* Whether `run_forever` reports every lost connection before it reconnects, and
  whether it reconnects after a close frame, differs between versions of
  websocket-client. `SilentReconnect` and `CloseReconnects` make both a choice;
  a run with `TRUE` covers either behaviour, because each only adds one.
* The server answers each subscribe, streaming an offered channel and refusing
  another, and forgets everything with the connection. `auth_told` is the set of
  accounts it was told on the connection; which of several it goes by is its affair.

### `ConnectedService` (refined by `WebsocketManager`, proved in `ConnectedServiceProofs`)

What an application may rely on while its connection comes and goes, in five
variables: who wants which topic, which ids are issued, what the server offers,
whether there is a connection, what flows on it. A topic starts to flow only when it
is wanted, offered and connected to, and stops only when nobody wants it, it is
withdrawn, or the connection is lost with all of them; a callback stops wanting only
by its own `Unsubscribe` or after a withdrawal (`Forget`). `WebsocketManager`
implements it: `wanted` is `active`, `flowing` what the server streams, `issued` the
ids up to `id_counter`, `up` the state of the socket. Locks, local state of calls, the
replay (apart from each stream that it starts) and failing sends are stutters. The
service says what may happen; that what is wanted does flow once nothing is on its way
is `ServedWhenQuiet`, and that this comes about `SubscriptionServed`.

### `WritePath` and `AtMostOnce` (checked with `MCWritePath`, proved in `WritePathProofs`)

A call is `StartWrite` (nonce and signature, once per call) or `StartRead`, then
per attempt `Send` or `FailBeforeSending` (a refused connection, a rejected certificate,
a request that cannot be built, or a connection cut while it is being set up: a reset or
a TLS error in the handshake, a proxy that fails, which the code cannot tell from a
connection cut later), and then `Respond`, `FailAfterSending`
or `FailAfterRedirect`. Each ends in `Retry` (`_wait_before_retry`) or `Finish`.
`NeverSent`, `MaybeDelivered`, `RetryFailure`, `RaisedFor`, `Transient` and
`ResultOf` are the rules of `api.py` over five classes of failure that the code
tells apart. What attempt `k` of call `p` puts on the wire is the copy `<<p, k>>`;
the gateway may handle it at any later time or never, may accept it and still
answer 504 or garbage, and refuses a nonce that it has accepted before (`used`). The clock can
be set anywhere at any time. `Redirects` says whether a server may answer a POST
with a redirect, which `requests` follows.

`AtMostOnce` is the promise made to a caller, in two variables: an action takes
effect at most once; *success* is told only if it has, *failure* only if it has
not and never will, *unknown* says nothing. `WritePath` implements it under the
mapping `Effects` (accepted copies of a call) and `ToldOf` (a `ServerError` and an
`OutcomeUnknownError` are *unknown*, since a 5xx to a write leaves its outcome
open; a `ClientError` and a plain `RequestException` are *failure*).

### `OrderEntry` (checked with `MCOrderEntry`, proved in `OrderEntryProofs`)

One action per method: it takes its arguments, applies the checks in the code and
ends with the envelope that is signed, or refused. Values are the classes that
the checks distinguish (absent, not an integer, negative, zero, positive, above
int64). `order` and `trigger_order` go through the `OrderRequest` dict
(`OrderRequest`, `TriggerRequest`), `bulk_orders` through `BatchChecked`, every
order through `RequestChecked` and `ToWire`. `Taken` is the reference: what the
gateway takes, as the docstrings of `exchange.py` and the comments of
`constants.py` state it, said of the wire format and written independently of
the checks. `CallSound` says the same of the arguments. `MaxBatch` stands for the
limit of 10.

### `Routing` and `Streams` (checked with `MCStreams`, proved in `StreamsProofs`)

`Routing` has the pure functions of `websocket_manager.py:37-131`: `Normalize` (and
`Normalizable`, the interval check), `SubscriptionToIdentifier` with `Identifiable`
(the errors of `_field`), and `WsMessageToIdentifier`. A subscription is a record
with the fields the caller gave; an int and a decimal text, or two cases of an
address, are different values (`Spelled`, `LowerCase`). An identifier is a record of
the parts that the code joins into text.

| Code | Model |
|---|---|
| `_tick_sizes` | `tick_sizes` |
| a running `Info.subscribe` or `unsubscribe` | `call[t]`, its `pc` naming the next access to shared state |
| `_normalize_l2book_group` | `NeedsTickSize`, `IsRawBook`, `Mapped` |
| `_tick_size`: test of the cache, query, store, membership test, read | `Look`, `Fetch` or `FetchFails`, `Store`, `Has`, `Read` |
| `WebsocketManager.subscribe`, `unsubscribe`, connected | `RegisterSubscribe`, `RegisterUnsubscribe`, `Refuse` |
| `_callbacks_for` | `Reached` |
| `_on_open` after a reconnect | `Reconnect` |
| `_active` | `entries`; the subscription behind each id is in `asked` |
| server (external): contracts, groupings, streams | `listed`, `offered`, `streams`; `List`, `Delist`, `RemoveGroup` |

The facade takes no lock, so every access to the cache is a step of its own. The
registry's step is atomic here: `WebsocketManager` has the details of its lock, of a
connection that is down and of drops. The server takes a subscription only in the
form that the code's comments give (`WireForm`: text asset, lower-case address, int
group), so a spelling that normalisation missed would show. `StreamNamed` says what
a subscription means without using the identifiers of the code. A caller of
`unsubscribe` passes a subscription with the same meaning as the one it subscribed,
not necessarily in the same spelling.

The contracts in `Later` are listed and delisted while the client runs, at any moment
between its steps. `Settled(s)` says that the contract of `s` is none of them. Properties
that depend on a tick size are about settled subscriptions: findings 4 and 5 show what
happens to the others.

### `SubscriptionService` (refined by `Streams`, proved in `SubscriptionServiceProofs`)

The abstract service has four variables: who wants which topic, which ids are
issued, what the server offers, what flows. `Subscribe` and `Unsubscribe` change what
one callback wants, `Withdraw` ends a topic, and after each step what flows is exactly
what is wanted and offered. `Streams` implements it for settled subscriptions:
`wanted` are the entries of the registry under the stream they mean (whatever
identifier the code keeps them under), `flowing` is what the server streams.
Lookups, refused calls, reconnects and contracts that come and go are stutters.

### `Signing` and `AccountActions` (checked with `MCAccountActions`, proved in `AccountActionsProofs`)

`Signing` has the choices of `signing.py`: the fields of the six structs (`Typed`,
`StructFields`), what `eip712_digest` fills in (`WithDefaults`), what raises before a
signature exists (`Encodable`), `Domain` and `Digest`. A digest is the record of what
goes into it, so keccak is free of collisions; what the encodings forget (the case
of an address) is forgotten. `RecoversTo` is the server: it reads the fields of a
struct by name, takes a number only as a JSON integer, and takes a
`signatureChainId` it is sent for the domain.

| Code | Model |
|---|---|
| arguments of a method | a member of `Requests`, in the form of the action |
| the checks and conversions of the methods | `Accepted`, `Built` |
| `_chain_id_for`, `Exchange.__init__` | `ChainIdFor`, `ChainId` |
| `_post_action` | `Post`, with `Sent`, `EnvelopeChain`, `Sign` |
| `register_account`, `revoke_agent`, `lock_collateral`, ... | `Call` |
| `approve_agent` that generates its key | `ApproveAgent`; the key is in `posted[n].key` until `Return` hands it over |
| `sign_action` called directly | `SignByHand` |
| the answer, an error answer, an unknown outcome | `Return`, `Fail`, `OutcomeUnknown` |
| `Exchange(agent_key, account_id=...)` | `NewAgentClient` |
| server (external) | `Refuse`, `Reject`, `Register`, `Approve`, `Revoke`, `Execute` |

A posted request may be handled late or never; that it is executed at most once is
what `WritePath` shows. `WellConfigured` says that the chain id of the client is that
of the server it reaches, given or known from the host. For any other host
`_chain_id_for` falls back to Mainnet, as the docstring of `Exchange` says; `Recovers`
is about well configured clients.

## 3. The runs

| Run | Question | Bounds |
|---|---|---|
| `ws_core` | Two threads and re-entrant callbacks over two channels (one removable), drops, reported or not, and reconnects: `NoLostSubscription`, `NoLeakedStream`, `LiveConnectionReady`, `NoSelfDeadlock`, `ServedWhenQuiet`, `KeepsService` (refinement of `ConnectedService`), and under fairness `SubscriptionServed` | 2 subscriptions, 3 connections, 1 unread frame |
| `ws_auth` | The same with `authenticate`, which takes no lock, with drops that are reported, and a family of channels: `AccountTold`, `NoLostSubscription`, `NoDuplicateSubscribe`, `ServedWhenQuiet` | 2 accounts, 2 subscriptions, 2 connections |
| `ws_auth_clobbers_ready` | counterexample to `LiveConnectionReady` with `authenticate` | 1 user, 1 subscription |
| `ws_send_raises` | counterexample to `NoOrphanedCallback` | 1 user, 2 subscriptions |
| `streams` | Two threads through the facade, every type of subscription and spelling, a contract listed and delisted, groupings removed, reconnects: `RoutedRight`, `RoutedAll`, `Served`, `NothingLeftRunning`, `Unsubscribed`, `ActsAsService` (refinement of `SubscriptionService`) | 2 contracts (one comes and goes), 2 groupings, 2 subscriptions |
| `streams_listed_later` | counterexample to `UnsubscribedAnyContract` | 1 subscription |
| `streams_lookup_race` | counterexample to `LookupSafe` | 2 threads, 1 subscription |
| `write_shared` | Three writes on two managers of one key: `WritesSentOnce`, `NoDuplicateNonce`, `NoncesNearClock`, `FailureMeansUnsent`, `KeepsPromise` (refinement of `AtMostOnce`) | 1 retry, clock 0..2 |
| `write_live` | With redirects: does every call end (`CallsDwindle`, `CallsEnd`), and is a write that is sent twice executed once (`ExecutedOnce`)? | 1 write, 1 read, 1 retry |
| `write_redirect` | counterexample to `WritesSentOnce` with redirects | 1 write, 1 retry |
| `order_entry` | `NothingMalformedSigned`, `ProtectionKept`, `SoundOrdersSigned` | batches of 0..3 against a limit of 2 |
| `account_actions` | Every action under three configurations, answers late or lost: `Recovers`, `SignatureBinds`, `AccountIdKept`, `AgentKeyKnown` | 2 requests, 2 agent keys, 3 agent names |

**Why the bounds are enough for the questions.** Three connections give a first
connect, a reconnect and a reconnect after that, so a stale flag or frame can
survive one connection and hurt the next. The last connection stays up unless
stopped, so that the model does not hide a loss behind a later replay. Two
subscriptions are the fewest for which the first and the last of an identifier
differ and two threads, or a thread and a callback, contend for one channel. One unread frame is enough to put a removal in flight
against everything else; a longer queue only adds frames that touch nothing. One
retry gives a first and a last attempt, three writes on two managers have a pair
that shares one and pairs that do not, and three values of the clock let it let it stand
still, advance and be set back. In `streams` two threads race two lookups, and every
subscription meets every other that it could be confused with, while the second contract
is listed and delisted any number of times; `BooksApart` keeps
books and other streams in separate behaviours, because only books go through the
cache and identifiers of different types never meet. In `account_actions` two
requests let an approval, a registration, a revocation and a use of the key
overtake each other. Batches run from empty to one
over the limit. In `MCOrderEntry` one part of a request varies over all its classes
while the rest is sound, and the two legs, or the orders of a batch, vary
together: the checks of other parts do not depend on each other. The proofs do
not depend on any of these bounds.

**Seeded faults.** A definition that stands before another and carries its name with a
suffix (`MayRetryOffByOne`, `MineAndOthers`, `WireLegSizeLost`) is a plausible bug in that
code. No action uses it; put in the place of the definition it precedes, it
makes the property named with it under `mutants` in `PROJECT.json` fail.

**Deadlock.** It is checked in the `ws_*` and `streams*` runs and in `order_entry`. In the `write_*`
runs and `account_actions` all calls may have ended and all requests may have been
handled, so it is off.

**Fairness.** `ws_core`: threads that run get on with their calls and callbacks
return (`WF` on `CallStep`, `ReaderStep`); `run_forever(reconnect=5)` retries for
ever and not every attempt fails (`SF` on `Connect`, strong because a failing
attempt disables it). Nothing is assumed of calls being made, drops or frames.
`write_live`: connect and read timeouts end every attempt, since `API` always
passes a timeout (`WF` on `ClientStep`); the network and the gateway may do
nothing for ever.

## 4. What the code does not do

Five runs show a disagreement between the code and what it says of itself; each
is under `findings` in `PROJECT.json`.

1. `ws_auth_clobbers_ready`: `authenticate` calls `_send` without the lock. Its send
   finds the socket closed, a reconnect completes and sets `ws_ready`, and then
   the handler (`websocket_manager.py:326`) clears it. Sends stay off on a live
   connection, the state the comment at lines 295-297 rules out.
2. `ws_send_raises`: `_send` catches one exception class. On a socket that is dead
   but open `ws.send` raises `OSError`, `subscribe` raises after it registered the
   callback, and the id that could unsubscribe it is lost.
3. `write_redirect`: `requests` follows redirects. A connection refused by the target
   of a redirect counts as "never sent", though the first server has had the
   request, and the write is sent again. Since it is signed once, its nonce keeps the
   second copy from being executed (`ExecutedOnce`, proved with redirects); what the
   caller is told can be wrong all the same: a plain exception, or the refusal of the
   second copy, for a write that was executed.
4. `streams_listed_later`: a subscription to the `tickSize` grouping of a contract that is
   listed only afterwards is kept under that grouping; `unsubscribe` (`info.py:296`) then
   maps it to the raw book and finds nothing, against "Remove a previously registered
   subscription callback".
5. `streams_lookup_race`: `_tick_size` tests the cache at `info.py:313` and reads it at 314.
   Thread A has fetched `configs` before a contract is listed; B fetches them after,
   stores them and finds the contract; A stores its older answer; B's read is a `KeyError`,
   where the docstring promises a miss to be "refetched once". A delisting does the same
   with the answers in order. A contract that stays listed is safe, since every answer has
   it.

Not findings, but limits of what the properties say:

* **Unchecked fields.** `_tpsl_to_wire` (`exchange.py:938`, and `tp_sl` at 585-586) copies
  trigger types unchecked, and builder fields are copied unchecked too, although the
  module says "checks every field it sends before signing" (`exchange.py:27-28`) and
  `constants.py:45-46` that type 2 is rejected. `NothingMalformedSigned` is about callers
  that pass the two valid trigger types.
* **Two accounts.** `_on_open` can read one account, `authenticate` store and send another,
  and the replay then send the first: the server hears the stored account, but not last.
  The code promises no order. `AccountTold` says that the stored account was told on the
  connection, or that the call that stored it has not yet sent it.
* **An unknown outcome of a write that was not sent.** A reset, a TLS error or a failing
  proxy before the request has left counts as "maybe delivered" (`api.py:183-206`) and
  raises `OutcomeUnknownError`. That is on the safe side; `FailureMeansUnsent` is the other
  direction, which callers rely on when they repeat a write.
* **A clock set back.** `NoncesNearClock` measures from the latest time the clock has shown:
  after the clock is set back by some hours, nonces stay those hours ahead of it.
* **A generated key.** If the outcome of `approve_agent` is unknown, its key is gone with
  the exception (`exchange.py:187`), whether or not the server has approved it.
  `AgentKeyKnown` covers the calls that return.

## 5. The proofs

All theorems hold for any number of threads, channels, calls, managers, retries,
and any clock; they assume only the named `ASSUME`s of the modules and what is said
here. Every invariant and every refinement of the passing runs is proved.

**`WebsocketManagerProofs`.** `TypeCorrect`, `Invariance`, `SubscriptionsNotLost`,
`CallbacksHoldNoLock`. `NoLostSubscription` speaks of a connection that `_on_open` has
finished with, so it is not inductive: during the replay a channel may be
neither answered nor being asked for. `CoveredInv` extends it to `_on_open` by
adding "still to be replayed". That it survives `OpenDone` needs `OpenInv` (nothing
is left to replay outside `_on_open`, and a failed `_on_open` means a dead
socket). That it survives an unsubscribe needs `UnsubscribeInv` (a call about to
send an unsubscribe has removed the last callback), which survives a
concurrent subscribe only because both hold the lock: `LockInv` says who holds it
in which step, and `CallInv` ties the reader's calls to its callbacks. `IInv` is their
conjunction with `TypeOK`, and `InvStep` has one lemma per group of actions.

**`WebsocketServerProofs`.** Builds on `IInv`. `LiveConnectionsReady` and `StreamsNotLeaked`
assume that nobody authenticates (`Accounts = {}`; finding 1 shows that the first is
false otherwise), `SubscribesNotDuplicated` that lost connections are reported
(`SilentReconnect = FALSE`). `SInv`
relates the two ends: what the server streams is registered or about to be
unsubscribed, and what it knows of the client is what `_on_open` or `authenticate` has
sent on this connection.

`LastAccountTold` has no hypothesis: with any number of accounts and of concurrent
`authenticate` calls, the account stored last has been told to every live, ready
connection, or the call that stored it is still to send it (`Pending`, `AuthInv`: what
`_on_open` did not read was stored after it read, by a call that will send).

**`ConnectedServiceProofs`.** `ServiceKept` has no hypothesis: no step of any thread, of the
reader, of the network or of the server, in any interleaving, does to the registry
and its streams what the service does not allow. `RInv` adds to `SInv` what the mapping
needs. `IdsInv`: an id is registered under one channel, so taking it out of that
channel's list is `Unsubscribe` of the id. `RefusedInv`: only withdrawn channels were
refused. A send of a `subscribe` is a `Start` because its channel is still registered
(`WantedInv`), a send of an `unsubscribe` is an `End` because it is not
(`UnsubscribeInv`); both would fail if the lock were released before the send. One
lemma per kind of step (`AskingSeen`, `NotSeen`, ...). `QuietlyServed` holds when nobody
authenticates or when every lost connection is reported. Otherwise finding 1 breaks it:
on a connection that nobody noticed was new a subscribe is sent before `_on_open` has run,
`authenticate` clears `ws_ready`, the unsubscribe is left out, and `_on_open` turns sends on
again with the stream still running.

**`StreamsProofs`.** Six properties from one invariant, `StreamsInv`. Its idea is
`Meaning`: the stream that an identifier names, the `tickSize` grouping being the raw
book. `IdentOf`, `NormalForm` and `FrameNamesStream` compute what `Routing` does to every
kind of subscription and frame; of the pure functions alone, `NormalizedOnce` and
`IdentifierPerStream` say that normalising is idempotent and that identifiers and streams
correspond one to one, `tickSize` groupings aside. `CallsInv`: a call that reaches the registry drops
the group only when it names the raw book, and does drop it when it names that of a
contract that stays listed. `CacheInv`: any cache, however old, has those
contracts. `RegistryInv`: an entry's identifier means what was asked for. `RemoteInv`:
the server streams only what it has. `Served` and `NothingLeftRunning` are inductive only
together with these: the last unsubscribe of an identifier ends a stream, so no
other settled entry may be kept elsewhere under the same meaning.

**`SubscriptionServiceProofs`.** `ServiceRefinement` maps every step. What flows follows
from `StreamsInv` in both states (`ServesWanted`), so a step that leaves the registry and
the offers alone is not seen (`Unseen`), a reconnect included; the others are a
`Subscribe`, an `Unsubscribe` or a `Withdraw`.

**`AccountActionsProofs`.** `RequestsRecover` needs that the server reads the same struct from
every action that is sent as the client signed; `AccountIdsKept`, that an account
once given keeps its id. `SignaturesBind` is about any envelope (`DigestBinds`): equal
digests come from the same struct, its fields as the server reads them and the same
nonce, because no struct is called `Agent` and the types of structs differ; `SignedInv`
ties it to what `_post_action` sent. `AgentKeysKnown`, that the server has only agent addresses
that were posted, and that a generated key belongs to one approval.

**`WritePathProofs`.** Two invariants. `AnyInv` holds with redirects too: `WireInv` (what was
answered was sent, and what was sent was started), `NonceInv` (a manager's nonces are
distinct and at most its `_last`), `AnswerInv` (what each answer says of the copy),
`UsedInv` (each used nonce was used up by one accepted copy), `ReturnedInv`. From it,
without any hypothesis, follow `TypeCorrect`, `WritesExecutedOnce`, `NoncesNotShared` (the
form of `NoDuplicateNonce` that survives redirects: a write can lose its nonce only to
an earlier copy of itself, or to another manager), `NoncesStayNear` (`DrawnInv` counts
the writes that were started) and `CallsBounded`: each step of a call lowers `StepsLeft`, which
nothing raises. That is the safety half of `CallsEnd`; fairness adds that the steps are
taken. `IInv` adds what redirects break (finding 3), so `Invariance`, `SentOnce`,
`NoncesFresh`, `FailedUnsent` and `Refinement` assume `Redirects = FALSE`, which
`write_redirect` shows to be necessary for the first of these properties. `SentInv`: a
write's only copy is the one of its current attempt, and it is waiting or done.
`ResultInv`: what each result says of the gateway. `Refinement` maps every step:
`AcceptWrite` is a `TakeEffect` (`AcceptedInTime`: it cannot follow a failure
told), `Finish` a `Tell` that is true (`TellsTruth`), the rest stutter. The counting of
copies and nonces uses `FiniteSetTheorems`.

**`OrderEntryProofs`.** `OnlyWellFormedSigned`: for arbitrary argument sets and batch
limit, provided callers pass only the trigger types MARK and ORACLE, which nothing in the code
checks (section 4). `OrderTypes`, `LegsProtected` and `SoundOrdersPass` need no such
condition; they rest on `OutcomeInv`, which ties the outcome to the call. One lemma per shape on the wire (a leg, a request, a
batch, a `tpSl`, a `modify`), combined by `FamilyOutcome`.

**Only model-checked.** `SubscriptionServed` and `CallsEnd`: liveness is out of the
prover's reach. What is proved towards them is `CallsBounded` and, for connections that are
ready, `SubscriptionsNotLost` and `QuietlyServed`.

## 6. Not modelled

* What the query methods of `info.py` put into a query, and history paging: each
  builds one dictionary from its arguments and keeps no state; the paging loop is
  the caller's. A query as such is a read of `WritePath`.
* The byte layout of the encodings, keccak and the curve. Of the widths of the
  encodings the lower end of unsigned fields is modelled, the upper end of int32
  and int64 ids is not.
* Builder fields, which go to the action unchecked, and fields of other actions
  that no check and no encoding looks at.
* A POST that is redirected and then answered: a redirect is modelled with the failures
  that follow it. The server that redirects is taken not to execute the request.
* Backoff times (a retry may come at any time), ping and pong (a missed pong is
  one of the ways `ReadFails` happens).
* `Streams` and `WebsocketManager` in one state space: each abstracts what the other
  has (identifiers there, the lock and the connection here). They meet at the
  registry's step, which is atomic in `Streams` because the lock makes it so, and at
  `Families`, the channels one frame is handed to.

## 7. Plan

Done, in this order: `WebsocketManager`; `AtMostOnce` and `WritePath`; `OrderEntry`;
`Routing` and `Streams`; `Signing` and `AccountActions`; `SubscriptionService`;
`ConnectedService`; and the proofs about all of them.

Left, most useful first:

1. The windows of the history queries (`info.py:259-281`) with the paging that the
   docstring of `user_fills` prescribes, against a server that cuts pages short.
2. `Cloid` and the upper ends of the id ranges.
