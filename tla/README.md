# TLA+ models of the udap core (uplexa-network)

This directory holds TLA+ models of the concurrent and protocol logic in
`src/`, the TLC configurations that check them, and `PROJECT.json`, which
records the components, the runs, the mutants that show each property can
fail, the source lines each definition translates, the findings and the
hazards.

## 1. The system and its parts

The core has these parts (spec.md §2–§5):

| Part | Source | State | Operations | Interacts with |
|---|---|---|---|---|
| IWP handshake engine | `crypto_async.cpp` 41–322 | per exchange: nonce, token, session key K, result buffer (nulled on failure) | `gen_intro`, `verify_intro`, `gen_introack`, `verify_introack`, `gen_session_start`, `verify_session_start` | worker pool, logic thread, link sessions (outside src/) |
| Async dispatch | `crypto_async.cpp` 18–40, 324–349, 353–496 | job queues of the worker pool and of the logic thread | `iwp_call_async_*`, `inform_*`, `hmac_then_decrypt`, `encrypt_then_hmac` | every handshake step and frame job |
| IWP frame codec | `crypto_async.cpp` 361–411 | frame buffer, `success` flag | `iwp_encrypt_frame`, `iwp_decrypt_frame` | link sessions |
| Encrypted envelope | `encrypted_frame.cpp` | `hash‖nonce‖pubkey‖body` buffer | `EncryptInPlace`, `DecryptInPlace` | relay commit/ack records |
| Path registry | `path.cpp` 12–249 | two mutex-guarded multimaps PathID → hop | `PutTransitHop`, `AddOwnPath`, `HasTransitHop`, `GetByUpstream`, `GetByDownstream`, `ExpirePaths` | link layer (lookups), LR commit handler (puts), router tick (sweep) |
| Path lifecycle and onion | `path.cpp` 261–427 | hops with tx/rx IDs, status, build hook, last latency probe | constructor, `HandleUpstream`, `HandleDownstream`, `HandlePathConfirmMessage`, `HandlePathLatencyMessage`, `Expired` | registry, path builder |
| Relay ack | `relay_ack.cpp` | decrypter bound to `frames` | `LR_AckMessage::HandleMessage`, `LRAM_Decrypt::Decrypted` | envelope |
| API client / parser | `api/client.cpp`, `api/parser.cpp`, `api/message.cpp` | parser's `msg`, message hash | `RecvFrom`, `ParseMessage`, `OnKey`, `IsWellFormed`, `CalculateHash` | UDP socket |
| Addresses | `net.hpp` | sockaddr_in6 | `operator<`, `operator==` | maps keyed by address |
| Helpers | `aligned.hpp`, `bencode.hpp`, `mem.cpp`, `str.hpp`, `logger.hpp`, … | none | conversions, comparisons, logging | everything |

What makes the code hard: the registry is reached by several threads with a
lock per call, not per operation, and hands out raw pointers; the sweep
erases by key in a multimap whose keys are not unique; the handshake runs
over a network that loses, replays and reorders, against routers that lie;
completion hooks run partly on the worker thread and partly on the logic
thread; the codecs have size and failure paths that differ between the two
directions.

## 2. Modules

### PathRegistry (`PathRegistry.tla`, `MCPathRegistry.tla`)

Models `PathContext` (path.cpp 76–231).

* State: `transit[k][h]` and `ours[k][p]` count the multimap entries under
  key `k` holding hop `h` / own path `p` (a multimap may hold a pair
  twice). `status[h]` is `unborn`, `live` (allocated) or `freed` (after the
  sweep's `delete p`). `info[h]` is the hop's `TransitHopInfo` with its
  creation time and lifetime. `pc[t]`/`arg[t]` say where thread `t` is
  inside an operation that makes two calls. `now` is `udap_time_now_ms()`.
* Actions: `PutTransitHopTx`/`PutTransitHopRx` are the two `MapPut`s of
  `PutTransitHop` (199, 200), each under its own lock. The first is taken
  by a relay-commit handler (outside src/) for a commit `HasTransitHop`
  (`MapHas`, 91–103, 145–151) does not find. The commit is either for
  fresh IDs or a retransmission of the commit of a hop that is still
  allocated; likewise
  `AddOwnPathTx`/`AddOwnPathRx` (140–142). `GetByUpstream` and
  `GetByDownstream` are the whole lookups (own table first, then the transit
  table filtered by neighbour); they leave the returned pointer in `arg[t]`
  and `UseHandler` is the caller's use of it. `ExpirePaths` is the whole
  sweep, atomic under the table lock: collect every hop reached through an
  entry that has expired, erase both keys of each, delete it. `Tick`
  advances the clock.
* Abstractions: path IDs and routers are model values; the path builders
  called at the end of `ExpirePaths` are outside src/ and left out.
  `TransitHop::Expired`, the own path's `PathSet::GetByUpstream` and
  `TransitHopInfo`'s equality (the two IDs and the two neighbours) are not
  under src/ and are modelled from spec §4.4 (marked `spec_modelled`).

### IwpHandshake (`IwpHandshake.tla`, `MCIwpHandshake.tla`)

Models the three flights of spec §4.1 as the code computes them
(crypto_async.cpp 41–322).

* Crypto is symbolic. `Key(c, s, n)` is `TKE(c.k, s.k, n)`;
  `transport_dh_client(remote, local, n)` and
  `transport_dh_server(remote, local, n)` give the same key when the roles
  match. A stream-cipher field is `[pt, ks]`: applying keystream `<<k, n>>`
  toggles it in `ks`, so XOR with the same key twice decrypts. `MDS(k, body)`
  is the keyed hash; the MAC check is equality of that record.
* State: `ini[a]` is router `a`'s initiator slot, `rsp[b]` its responder
  slot (state, peer, nonce, token, K, runs used). `net` is every packet ever
  sent: delivery takes any of them, any number of times, so the network
  loses, duplicates and reorders. `issued` and `iniKeys` are history
  variables for the properties; `fresh` hands out fresh nonces and tokens.
* Honest actions, one per code function: `GenIntro`, `VerifyIntro`,
  `GenIntroAck`, `VerifyIntroAck`, `GenSessionStart`, `VerifySessionStart`;
  `DropInitiator`/`DropResponder` are the link session giving up an exchange
  (outside src/, spec §5 "abandoned by the caller").
* A packet carries the link header's message kind; the link session
  (outside src/, spec §4.1) hands a packet to the slot that expects its
  kind (`Delivered`). No verify function reads the kind and no MAC covers
  it, so the verify actions test nothing but the bytes, as the code does.
* The attacker (`Attack`, at most `MaxAttacks` packets per behaviour):
  `Redirect` sends a packet on to another router, under another kind, or
  both; `Tamper` flips the ciphertext, changes the nonce or re-MACs
  under a key the attacker does not hold, `Forge` builds packets from the
  attacker router's own keys and the tokens it has seen.

### AsyncCrypto (`AsyncCrypto.tla`, `MCAsyncCrypto.tla`)

Models the dispatch of crypto_async.cpp: `iwp_call_async_*` (413–476)
queue a job on the worker pool; each job function runs on a worker and
either calls the caller's hook right there (`gen_intro`, `gen_introack`,
`verify_introack`, `gen_session_start`, `verify_session_start`,
`encrypt_then_hmac`) or queues `inform_*` on the logic thread
(`verify_intro`, `hmac_then_decrypt`). Frame jobs run `iwp_encrypt_frame` /
`iwp_decrypt_frame` (361–411) and delete the frame after the hook.

* State: `st[j]` is where request `j` is (`new`, `pool`, `running`,
  `logic`, `done`); `pool` and `lq` are the two FIFO queues; `busy[th]` the
  request whose hook thread `th` is inside; `hooks[j]`, `freed[j]` count hook
  calls and frees; `frame`, `success`, `key` and `wire` the frame job's
  buffer, result flag, session key and what was sent.
* Actions: `CallAsync`, and `ThreadStep(th)`: a worker takes a job and runs
  the whole job function (`WorkerHook`, `VerifyIntro`, `HmacThenDecrypt`,
  `EncryptThenHmac`), the logic thread runs `LogicInform`, a thread enters
  (`EnterHook`) and returns from (`HookReturn`) a hook.
* The handshake computations themselves are `IwpHandshake`'s; here a
  request is its kind.

### Envelope (`Envelope.tla`, `MCEnvelope.tla`)

Models `EncryptedFrame::EncryptInPlace` and `DecryptInPlace`
(encrypted_frame.cpp 32–151) with the symbolic crypto of the handshake: a
buffer is `[hash, nonce, pubkey, body, len]`, `len` the payload size above
the 96-byte overhead.

* State per envelope object `e`: sender `from`, recipient key `to` (an
  honest router or a low-order key), plaintext `pt`, the sender's buffer
  `buf` and result `st`; the receiving router `rcpt`, the copy as it arrived
  `arrived`, the receiver's buffer `rbuf` and result `rst`.
* Actions: `Seal` (EncryptInPlace), `Deliver` (a copy reaches a router:
  as sent, hash, body, nonce or public key altered, truncated, or re-MACed
  by an attacker router under its own key; spec modelled), `Open`
  (DecryptInPlace).
* `Init` is the zero-filled buffer `Encrypted(sz)` creates (13–30): a zero
  public key, which is of low order.

### PathLifecycle and AbstractPath (`PathLifecycle.tla`, `AbstractPath.tla`, `MCPathLifecycle.tla`)

Models one own `Path` (path.cpp 261–420): `Construct` (the constructor's
ID chaining and the builder setting the hook), `HandleUpstream` /
`SendRoutingMessage`, `HandleDownstream` with `HandleRoutingMessage`'s
dispatch to `HandlePathConfirm`, `HandlePathLatency`, and the refusing
`HandlePathTransfer` and `HandleDHT` (path.cpp 377–384, 422–427), and
`Path::Expired` (path.cpp 320–329) with the expiry sweep it serves.

* State: `hops` (tx/rx IDs; hop `i`'s shared secret is `i`), `status`,
  `hook` and `hookCalls`, `lastTestID`/`lastTestTime` (the probe),
  `latency`, the clock `now`, frames in flight `up` and `down` (sets, so
  reordered), `confirms`,
  and `lifetime` (`hops[0].lifetime`, chosen by the builder from
  `Lifetimes`). `status` adds "removed" for a path the sweep has freed;
  a frame for it is no longer delivered to it.
* `Expired(t)` is the code's three branches: lifetime when Established,
  `BuildTimeout` (`PATH_BUILD_TIMEOUT`, defined outside the repository)
  when Building, true otherwise. `BuilderExpire` is the path builder's
  `ExpirePaths(now)`, which `PathContext::ExpirePaths` calls once per
  sweep (path.cpp 227–230). The builder is outside src/, so the action is
  modelled from spec 4.4 and 7 (marked `spec_modelled`): it removes and frees a path for which `Expired(now)` holds.
  The clock starts with the build (`Tick` needs a built path): only time
  differences enter the code, so nothing is lost.
* The relays and far end are TransitHops outside src/ (spec modelled,
  spec 4.3 and 9): `Traverse` applies every hop's layer once,
  `EndpointConfirm` sends a PathConfirm, a PathTransfer or a DHT message
  (up to `MaxConfirms` messages, so a confirm can be duplicated),
  `EndpointEcho` answers a PathLatency probe.
* `AbstractPath` is what the path builder relies on: none → Building →
  Established once, removal from either at any time, the hook fired at that step, one probe then, and
  latency measured only with a probe outstanding. `PathLifecycle`
  implements it under the mapping `astatus <- status`,
  `hooked <- hookCalls`, `probe <- lastTestID`,
  `measured <- latency # NoLatency`.

### ApiClient (`ApiClient.tla`, `MCApiClient.tla`)

Models the API client tool (api/client.cpp, parser.cpp, message.cpp):
`Start` is `Client::Start` with `BindDefault`, `StartSession` and
`SendMessage` of a `CreateSessionMessage`; `RecvFrom` is one datagram
handled by the event loop: the source-address filter, then
`MessageParser::ParseMessage` and the `delete` of what it returns.

* State: `phase` (before `Start`, running the loop, stopped, crashed),
  `apiAddr`, the datagrams `sent`, the parser's `parserMsg`, the heap
  (`live` and `freed` message numbers), `recvd`, and a ghost `misuse`.
* A datagram is its source and a sequence of `<<key, value>>` entries;
  `ReadDict` is `bencode_read_dict` (libudap, not in this repository)
  calling `OnKeyOutcomes` (`OnKey`) per key and once more with the end of
  the dict; `DecodeKey` and `ReadsAs` are `IMessage::DecodeKey` and the
  `BEncodeMaybeRead*` helpers. `BEncode` builds the dict the client sends
  from `WriteDictEntry`, the `BEncodeWriteDict*` helpers of bencode.hpp.
* A call through a freed message is undefined behaviour. The model
  offers every outcome a build can give: a crash, or `DecodeKey`
  answering true or false.
* `Start` keeps the url's failure paths: no ':', a failed bind, a port
  `std::stoi` throws on (the process ends), -1, a port truncated to 16
  bits, and a malformed host that `inet_pton` rejects with 0. That last
  one passes the `== -1` check and leaves the address uninitialised.

## 3. Runs

| Run | Checks | Shows |
|---|---|---|
| `registry_serial` | `TypeOK`, `PairedEntries`, `NoDanglingEntry`, `SweepExact`, `ExpiredEventuallyFreed` | one logic thread, unique IDs: entries stay paired, no entry names a deleted hop, the sweep deletes exactly the expired hops and all their entries, and every expired hop is eventually deleted by the periodic sweep |
| `registry_id_collision` (violation) | `PairedEntries` | two live hops sharing an ID: the sweep of one erases the other's entry |
| `registry_get_race` (violation) | `NoUseAfterFree` | a pointer from `GetByUpstream` is deleted by a concurrent sweep before use |
| `async_serial` | `TypeOK`, `HookOnce`, `FrameRoundTrip`, `FrameAuthentic`, `AllComplete` | every request completes exactly once, frames round-trip and only unaltered frames under the right key decrypt successfully |
| `async_hooks` (violation) | `HooksSerialized` | hooks run at once on two workers, or on a worker and the logic thread |
| `frame_decrypt_fail` (violation) | `FailedFrameUntouched` | a frame that fails its MAC check is decrypted in place anyway |
| `envelope` | `TypeOK`, `EnvelopeAuthentic`, `UnchangedOnFailure`, `RoundTrip` | an envelope is accepted only unaltered from the router its header names, is left as it arrived when rejected, and round-trips when its payload is non-empty |
| `path` | `TypeOK`, `AbstractPathSpec`, `LatencyMeasured`, `BuildResolves` | the path implements `AbstractPath`, every established path gets a latency unless it expires first, and a path whose confirmation never comes is removed after the build timeout instead of staying Building |
| `handshake_honest` | `TypeOK`, `KeyAgreement`, `HandshakeCompletes` | two honest routers agree on K and every fairly delivered intro completes |
| `handshake_attack` | `IntroAuthentic` | replay, redirection, relabelling, tampering and forging by a third router never make a responder accept an intro from an honest router that did not send it |
| `api_stale_msg` (violation) | `NoUseAfterFree` | after a parsed message is deleted, the next datagram from the API address decodes into it, or gets it back and deletes it again |
| `handshake_reflect` (violation) | `KeyAgreement` | a responder's own IntroAck, sent back to it as a SessionStart, passes `verify_session_start`: the responder establishes a key its peer never derives |

Every property of a passing run has a mutant in `PROJECT.json`: a
plausible bug in the definition it names (a dropped guard, an off-by-one,
a swapped order) under which TLC finds the property violated.

Bounds and why they suffice:

* Registry: two transit hops and one own path, six path IDs (two per hop
  or path), two routers, lifetimes {0, 1}, time up to 2. Two hops are the least for two hops to interact through the shared
  tables; lifetime 0 expires after one tick and lifetime 1 after two, so a
  run holds an expired and an unexpired hop side by side. The collision run
  uses three IDs for two hops so two hops must share one; the race run uses
  two threads, the least for the race.
* Handshake: two honest routers, and in the attack run a third router `M`
  with its own keys and token; two runs per slot so a replay from an earlier
  run can reach a later one; one attacker packet (redirected, relabelled,
  tampered or forged) per behaviour, on top of unbounded replay and
  reordering by the network. Five nonces and two tokens cover two full
  runs. The reflection run needs only one run and one redirect.
* Async dispatch: four requests, one of each kind of hook placement (hook
  on the worker, hook via the logic thread, encrypt frame, decrypt frame),
  two workers and the logic thread, so every pair of hook contexts can
  overlap; two session keys and two nonces, so a frame can arrive under
  the wrong key or with another nonce.
* Envelope: two honest routers and one attacker router, two envelopes,
  payloads of 0 and 1 bytes (the size check's boundary), two nonces; each
  envelope's recipient may be a router or a low-order key.
* Path: one to four hops (three gives a relay between two others, four
  two adjacent relays), two path IDs so randomized IDs collide, two rand()
  tokens including 0, two tunnel nonces, time up to 3 (so a probe can be
  answered at several later times) and up to two routing messages from
  the far end (a duplicated PathConfirm, or a PathConfirm and a message
  the path refuses, before or after it; three took four minutes). Build timeout 1 and
  lifetimes 2 and 4: a Building path expires at time 2, so a confirmation
  can come before the timeout, after it but before the sweep (the late
  confirm), or never; an Established path with lifetime 2 expires at
  time 3, and one with lifetime 4 outlives the clock, so its latency must
  be measured.
* API client: one host with one port, plus a malformed host; url ports
  -1, 80 and 65616 (65616 wraps to 80); keys f, F, I, Z and an unknown
  one; values a known and an unknown function name, an integer and a
  hash; dicts of up to two entries, the empty one included; three
  datagrams. A message takes one datagram to parse and be deleted, and a
  second to be reached again.

Symmetry: path IDs and routers (registry), nonces and tokens (handshake),
keys and nonces (async dispatch) and nonces (envelope) are only compared
for equality, so their permutations are symmetries in the safety runs.
Runs with liveness properties use no SYMMETRY (TLC's symmetry reduction is
unsound for them). In `registry_serial` the path IDs are the numbers 1..6
instead, and `MCPathRegistry` overrides `FreshIDs` so that a new hop or own
path with distinct IDs always takes the two least unused IDs: every other
choice of unused IDs gives a behaviour equal up to renaming, so this
canonical choice loses no behaviour for safety or liveness, and it lets one
run check both with a transit hop, an own path and three puts.

Fairness: the registry sweep is called from the router's periodic tick, so
it is strongly fair (it recurs however often the thread is busy in
between); the second half of a put and the caller's use of a handler are
weakly fair (the thread is running them). In the handshake, every honest
step is weakly fair (a worker job that is queued runs) and the attacker is
not fair. In the async dispatch each worker and the logic thread is weakly
fair: a thread with a job in its queue or inside a hook keeps running. In
the path, the relays' forwarding, the logic thread's handling of
arriving frames, the clock and the builder's sweep are weakly fair. The
sweep runs from the router's periodic tick, and once enabled it stays
enabled: an expired path stays expired while its status is unchanged.
The far end's PathConfirm is not fair: a commit or a confirmation may be
lost, and `BuildResolves` checks that the build timeout then removes the
path. The envelope and path runs end when their bounded work is done, so
they do not check deadlock.

## 4. Findings

See `PROJECT.json` "findings":

* the sweep's erase by key (path.cpp 223–224) removes the entry of a live
  hop that shares an ID with an expired one;
* `MapGet`'s pointer escapes the lock (path.cpp 86) and a concurrent sweep
  can delete the hop before it is used;
* no MAC covers the message kind or binds a packet to the exchange it
  answers: a responder's own IntroAck, sent back to it as a SessionStart,
  passes `verify_session_start` (crypto_async.cpp 292, 301), and the
  responder holds a key its peer never derives. The same lets an
  initiator's own Intro pass `verify_introack` (148–153) and a restarted
  initiator accept the IntroAck of its abandoned intro (139); these two
  are reached by the model and listed as hazards;
* most job functions call their hook on the worker thread
  (crypto_async.cpp 72), so completions are not serialized as spec 4.1 and
  5 say;
* `iwp_decrypt_frame` decrypts in place even when the MAC check failed
  (crypto_async.cpp 384), unlike spec 4.1 step 4;
* `MessageParser::msg` is never reset (api/parser.cpp 37), while
  `RecvFrom` deletes the message: the second datagram from the API
  address uses freed memory, and an empty dict hands the freed message
  back to be deleted twice (TLC's trace: `Start`, a datagram that parses
  and is deleted, then a second datagram whose dict ends with the stale
  message set).

## 5. Plan and what is left

Done: `PathRegistry`, `IwpHandshake`, `AsyncCrypto` (dispatch and session
frame codec), `Envelope`, `PathLifecycle` with `AbstractPath`,
`ApiClient` (client and parser).

Left for later work:

* composing `AsyncCrypto` with `IwpHandshake`, so the handshake steps run
  as the pool's jobs and their hooks drive the slots;
* composing `PathLifecycle` with `PathRegistry` (an own path registered
  under both IDs and reaped by the builder's sweep);
* a passing run for `ApiClient` and a run for `Addr::operator<`: the
  project is at the number of runs it keeps, so each would replace an
  existing one. Two attacker actions in `handshake_attack` (instead of
  one) were tried and do not finish in 15 minutes.

## 6. Not modelled

* `LR_AckMessage` (relay_ack.cpp): `DecodeKey` and `LR_AckRecord::BDecode`
  are stubs returning false, so no ack decodes and `HandleMessage` is never
  reached from the wire.
* `IMessage::IsWellFormed` and `CalculateHash` (api/message.cpp): nothing
  in src/ calls them; `DecodeParams` lives in messages.hpp, which is not
  in this repository, so incoming datagrams carry no "P" key. The API has
  no passing run: the one property the code or its comments state for it
  (the parser starts each datagram afresh) fails. What the API server
  sends is not described anywhere, so incoming dicts may use either "f"
  (the parser's key) or "F" (the encoder's).
* `Path::HandleHiddenServiceData` (path.cpp 342–347): a stub returning
  false with no caller in src/.
* The removal of own paths from `m_OurPaths`: nothing in src/ does it
  (`MapDel` has no caller); it is listed as a hazard.
* `udap_async_iwp_new` and `udap_async_iwp_free` (crypto_async.cpp
  478–496): the link layer outside src/ creates and frees the context.
  Freeing it with jobs still queued is listed as a hazard. A check of it
  would be a violation run, and the project keeps twelve runs.
* A second latency probe: nothing in src/ sends one, so a lost probe or
  echo leaves the latency unmeasured. Spec 5 expects the next probe to
  replace it. This is listed as a hazard. The path run delivers probes
  and echoes.
* `DiscardMessage` (messages/discard.hpp): a padding message with no
  state. Its padding constructor memsets an unchecked size into the
  10000-byte pad, a single write with nothing for a model checker to
  interleave.
* `Addr::operator<` (net.hpp 182): a pure comparison, listed as a hazard.
* Logging, bencode byte layout, memory helpers and byte-buffer classes are
  conversions with no state of their own; the models use symbolic values
  in their place. The path builder, link sessions, router and threadpool
  implementations are outside src/.
