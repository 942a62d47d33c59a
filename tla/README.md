# TLA+ models of the Satori video SDK RTM client and image decoder

This directory holds TLA+ models of the C++ code under `src/`, the TLC
configurations that check them, and `PROJECT.json`. That file records the runs,
the mutants, the map from each definition to the source lines it models, the
findings and the hazards.

## The system

The SDK connects a video bot to the Satori RTM service. Its parts are:

| part | source | role |
|---|---|---|
| `secure_client` | `src/src/rtm_client.cpp` 196-606 | A websocket-over-TLS session with a single-threaded asio `io_service`. It keeps a subscription registry (`std::map<channel, subscription_impl>`), request ids, a read loop (`ask_for_read`), a ping timer and `process_input` for PDUs. |
| `resilient_client` | `rtm_client.cpp` 621-735 | It wraps a `secure_client`. It keeps a replay list of subscriptions, and `on_error` calls `restart()`, which builds a new client, starts it and re-subscribes. |
| `thread_checking_client` | `rtm_client.cpp` 737-823 | It forwards calls made from other threads to the io thread with `io.post`. Calls made on the io thread run at once. |
| `channel_position` | `src/src/rtmclient.h` 33-55 | The `gen:pos` parse and print functions. |
| the older `resilient_client` | `rtmclient.h` 120-178 | A mutex-based variant that uses the same replay-list logic. |
| the bot environment | `src/src/bot_environment.cpp` | It wires the client, the decoder and the bot, and routes bot output by message kind. |
| the image decoder | `src/src/decode_image_frames.cpp` 37-291 | A stream stage that pulls encoded packets (metadata or frames) on demand, feeds FFmpeg's send/receive decoder and delivers scaled images downstream. |
| CLI, logging, the test bot | `cli_streams.h`, `logging_impl.h`, `test_bot.cpp` | Option parsing, log output and an example bot. |

Everything in the RTM client runs on one asio thread. A public call or a completion handler
runs to its end before the next one starts. That makes each of them one TLA+
action. A network completion, however, is queued separately from the handler
that consumes it. That gap is where most of the subtle behaviour lives.

## Modules

### `RtmSession` models `secure_client`

**State**

| variable | models |
|---|---|
| `client_state` | `_client_state` (`Stopped`, `Running`, `PendingStopped`) |
| `subscriptions` | `_subscriptions`: channel ↦ `[sub, status, pending]`, with `NoSub` for "absent" and `NoId` for `UINT64_MAX` |
| `request_id` | `_request_id` |
| `conn` | The socket: `Init`, `Open`, `Broken`, `Closed` or `Failed` |
| `read_op`, `read_frame` | The outstanding `async_read`: `Pending`, completed `Ok` with a frame, `Err`, or `Aborted` |
| `ping_timer`, `ping_op` | The `_ping_timer` wait and the `async_ping` |
| `to_server`, `from_server`, `server_subs` | The two directions of the wire and the server's view of the subscriptions |
| `errors` | The `on_error` reports, in order |
| `crash` | A failed `CHECK`/`ABORT`, or an uncaught exception |
| `held`, `received` | The caller's side: which channel each subscription handle holds, and the `on_data` calls it got |

**Actions, one per operation or handler**

- The public calls are `start`, `stop`, `publish`, `subscribe_channel` and `unsubscribe`.
- The read-loop handler is split by outcome: `on_read_aborted`, `on_read_error`, `on_read_unparsable` and `on_read_frame`. The last one calls `process_input`, then issues the next read.
- The other handlers are `timer_handler` and `ping_write_handler`.

`process_input` is the disjunction of three operators:

- `process_subscription_data`
- `process_response`, which covers subscribe/unsubscribe ok/error
- `process_subscription_error`

A `CHECK` is `check(cond)`, which sets `crash`. The blocking `_ws.write` is
`write`. On a broken link, `write` either loses the request or throws.

**Environment actions**

These are not code:

- The server consumes requests and answers them (`ServerReceives`).
- The server sends data (`ServerSendsData`) or drops a subscription.
- A frame that does not parse arrives (`MalformedFrameArrives`).
- The link breaks (`LinkBreaks`).
- Pending operations complete (`ReadCompletes`, `TimerExpires`, `PingCompletes`).

Faults, data frames and request ids are bounded by the constants `MaxFaults`,
`MaxData` and `MaxRequestId`.

**The caller**

The caller is part of the environment too. `Discipline` selects how careful it
is:

- `"Contract"` keeps only the client interface contract. It unsubscribes only a handle it holds, and never subscribes twice on one handle or channel.
- `"Registry"` also waits until the registry is settled. It unsubscribes only once the subscription is `Current`, and resubscribes a channel only after its entry is gone.

`MCRtmSession` gives the model values two channels and two handles.

### `SubscriptionRegistry` is the lifecycle `secure_client` promises

It is an abstract module, with one entry per channel and the session's phase:

- `Subscribe` makes an entry `PendingSubscribe`, and only for a channel with no entry.
- `Confirm` and `Refuse` are the server's answers.
- `Unsubscribe` applies only to a `Current` entry.
- `Unsubscribed` erases an entry that is `PendingUnsubscribe`.
- `Closed` forgets everything when a closing session ends.

`RtmSession` maps onto it: `AbstractRegistry` drops `pending_request_id`, and `AbstractPhase` renames `_client_state`. `LifecycleRefined` is `Lifecycle!Spec`, checked as a PROPERTY in `session_core`.

One case makes the refinement non-trivial. After a handle unsubscribes one channel and subscribes another, it owns two entries, and `unsubscribe` takes the first one in channel order (`rtm_client.cpp:371`). The refinement holds because the server answers in order: the old entry's unsubscribe reply arrives before the new entry can be confirmed, so the new entry is never `Current` while the old one exists.

### `ResilientClient` models `resilient_client` over client generations

**State**

| variable | models |
|---|---|
| `client` | The generation `_client` points to. 0 is the null pointer. |
| `started` | `_started` |
| `replay` | The `_subscriptions` vector, as a sequence of `[channel, sub]` |
| `sess` | The `_client_state` of the current `secure_client` |
| `registry`, `unacked` | Its `std::map` from channel name to handle, and the entries still `PendingSubscribe` |
| `outstanding` | Destroyed clients whose read or timer handlers are still queued |
| `freed_access` | A handler has run on a destroyed client |
| `held` | The caller: the channel each handle holds |

Channel names are the numbers 1 and 2. The empty name a moved-from string
leaves behind is `Empty = 0`, so the map's key order is the order of the
numbers.

**Actions**

- The public calls are `rc_start`, `rc_stop`, `rc_publish`, `rc_subscribe` and `rc_unsubscribe`.
- `rc_unsubscribe` forwards to the client, then applies `remove_if` to the replay list. `remove_if` is `std::remove_if`, modelled by the recursive `compact`. The vector is never erased, and every element that is moved from keeps its pointers and gets an empty channel.
- The handlers that call `on_error`, and so `restart` from inside themselves, are `LinkFails` and `SubscribeRefused`.
- `SubscribeConfirmed` and `ReadAborted` are the other handlers of the current client.
- `StaleHandlerRuns` runs a queued handler of a destroyed client. Its read of `_client_state` is undefined behaviour, modelled as a choice: nothing happens, or another `on_error` triggers another restart.

`restart` replaces the client, then takes one of three branches:

- If not started, the new client stays `Stopped`.
- Otherwise it starts the new client and subscribes every replay entry in order. `emplace` keeps the first entry per channel.
- Or the start fails. The error goes to `bot_environment::on_error`, which ABORTs.

**Caller discipline**

The caller subscribes a free handle to a free channel. It unsubscribes only a handle whose subscribe has been confirmed, which avoids `RtmSession`'s `session_contract_abort`.

**What is abstracted**

- The request/reply protocol of the wrapped client is `RtmSession`'s.
- Here an unsubscribe takes effect at once.
- A subscribe that the server will answer for an entry that no longer exists counts as an ABORT.

### `ChannelPosition` models `channel_position`

- `str` is `channel_position::str`. Its helper `ToDecimal` is `std::to_string`.
- `parse` is `channel_position::parse`. It uses `strtoll` and `strtoull`, modelled by what the C library does:
  - skip white space;
  - take one optional sign and the longest run of digits;
  - leave `endptr` at `nptr` when there are no digits;
  - saturate on overflow;
  - `strtoull` negates a minus modulo 2^64.
- `to_gen` is the `static_cast<uint32_t>`.
- Texts are sequences of one-character strings.
- Widths are scaled: `GenBits = 2` stands for 32, and `LongBits = 4` for 64.

**State and actions**

The state is the last text, the position that goes with it, and whether it was printed or parsed. The actions are:

- `print(p)`, for every position in range;
- `parse_text(s)`, for every text of up to four characters over `1 9 : - + space`.

`BOOST_ASSERT` is compiled out in a release build. `AssertsEnabled` models the other build.

### `ThreadCheckingClient` models `thread_checking_client`

- `forward(t, call)` is the shape of `publish`, `subscribe_channel` and `unsubscribe`. On the io thread the call runs at once (`Execute`). On any other thread it is appended to `queue`, the `io_service`'s FIFO of posted handlers, and returns.
- `run_posted` is the io thread running the oldest handler.
- The wrapped `secure_client` is reduced to its `_client_state` and `_subscriptions`: `session_publish`, `session_subscribe`, `session_unsubscribe`, `read_aborted` and `unsubscribe_ok` keep its guards, early returns, `CHECK`s and `ABORT`s.
- A subscribe counts as confirmed when it runs. The unconfirmed window is `RtmSession`'s.
- `tc_stop` sets `PendingStopped` and queues the aborted read that closing the socket causes. So closures posted before `stop()` run ahead of it, and see `PendingStopped`.
- `start` and `stop` are io-thread calls. Their `CHECK_EQ` on the thread id is the caller's discipline, not a modelled failure.

- `subscription_data(c)` is `process_input` for `rtm/subscription/data`, in `Running` or `PendingStopped`: the read handler processes data read before the close in any state. The server sends it only for an entry it holds. An entry `PendingUnsubscribe` returns early. A `Current` one calls `on_data` on the caller's callbacks, counted in `received`.

**The caller.** `Uses` lists the (thread, handle, channel) triples the caller's code uses. Each handle is subscribed once. Calls are made while the client runs.

**The promise.** `DirectClient` is the client as spec.md's thread-affinity decorator promises it: a forwarded call acts as if it had been made on the io thread when the caller made it. Its state is the registry, Running or not, and the caller's `held` and `used`. `ThreadCheckingClient` instantiates it as `Direct` with:
- `registry <- Drained(registry, queue)`: the registry once every waiting closure has run (a `FoldLeft` of the queued calls);
- `phase <- "Running"` while `_client_state` is `Running`, `"Stopped"` otherwise.

Under this mapping a posted call is the abstract step, and the closure running later is a stuttering step.

### `ImageDecoder` models `image_decoder_op::instance`

The decoder is a reactive-stream stage. The source answers each `request(1)` with one packet (`on_next`), or ends with `on_complete` or `on_error`. The downstream's demand is `needs()`. `drain()` calls `drain_impl` in a loop.

**State.** The variables mirror the members:
- `metadata`, `ctx` and `packet` are `_metadata`, `_context` and `_packet`. `_frame` is allocated together with `_packet`.
- `image` is the frame size `_image` and `_sws_context` were built for.
- `source` is whether `_source` is null.

Around them are the codec's state (`buffered` packets not yet returned as frames, and `flushing`), the source's outstanding `requested` and emitted `sent` counts, the downstream's `needs`, and what it has received (`out`, `terminal`).

**Actions.**
- The source's steps are `on_next`, which visits `on_metadata` or `on_frame` and then drains, `on_complete` and `on_error`.
- The downstream's step is `request`.
- The loop's steps are `drain_impl`, which runs `receive_frame` and `deliver_frame`/`init_image`, and `drain_done`.

**Environment.** Two parts of the decoder's environment are not in this repository.
- FFmpeg is a nondeterministic codec that holds up to `MaxDelay` packets. `send_packet` on an open context accepts a packet, refuses it (`EAGAIN` when full) or fails; on a null context it dereferences null (`on_frame`'s `null_context` crash). `receive_frame` returns a frame, `EAGAIN`, `AVERROR_EOF` once flushed and empty, or an error. `decoder_context` returns null for the codecs in `BadCodecs`. Image allocations may fail.
- `drain_source_impl` (the stream library) is taken to call `drain_impl` while `needs() > 0` and no terminal signal has gone out, and to pass on the first terminal signal only.

**Abstractions.** A frame is reduced to its size, which is that of its stream's metadata. Pixels, the bounding box and proportions are left out.

## Runs

| run | cfg | expect | what it shows |
|---|---|---|---|
| `session_core` | `MCRtmSession.cfg` | pass | With a registry-disciplined caller, under one fault, the checks hold (list below). |
| `session_contract_abort` | `MCRtmSessionContract.cfg` | violation | Unsubscribing before the subscribe acknowledgement arrives ABORTs the process. |
| `session_stop_stall` | `MCRtmSessionStop.cfg` | violation | `stop()` can stay `PendingStopped` forever. |
| `session_uncaught_exception` | `MCRtmSessionThrow.cfg` | violation | A failed TLS handshake, or a write on a broken link, throws out of the client. |
| `resilient_core` | `MCResilientClient.cfg` | pass | No held subscription is lost (below). |
| `resilient_replay_released` | `MCResilientClientReplay.cfg` | violation | After an unsubscribe, the next restart re-subscribes the released channel. |
| `resilient_use_after_free` | `MCResilientClientFreed.cfg` | violation | `restart` destroys the client whose handler is running. |
| `position_round_trip` | `MCChannelPosition.cfg` | pass | `parse(str(p)) = p` for every position in range. |
| `threads_core` | `MCThreadCheckingClient.cfg` | pass | With each subscription used from one thread, forwarded calls never crash the wrapped client, the client refines `DirectClient`, and late data reaches released callbacks only while the unsubscribe is queued. |
| `threads_cross_thread_unsubscribe` | `MCThreadCheckingClientShared.cfg` | violation | A direct io-thread unsubscribe overtakes the worker's posted subscribe and ABORTs. |
| `decoder_core` | `MCImageDecoder.cfg` | pass | A completed source always ends the downstream, and no more images than packets go out. |
| `decoder_resolution_change` | `MCImageDecoderResize.cfg` | violation | After metadata changes the frame size, frames are scaled with the old `_sws_context`. |

These are the checks in `session_core`:

- `NoContractAbort`: no `CHECK` fires.
- `ResponsesCorrelate`: each pending entry has exactly one request or reply in flight with its id and kind, and every id in flight has an entry.
- `HaltIsReported`: a read loop that halts while `Running` has been reported.
- `SubscribeResolves`: every subscribe is eventually settled unless the link or the loop is gone.
- `LifecycleRefined`: the session implements `SubscriptionRegistry` under the mapping above.
- `TypeOK`.

The session run reaches 603,239 distinct states in about 1m40s.

`resilient_core` checks these, over 37,665 distinct states, with subscribes, unsubscribes, link failures, refused subscribes and handlers of destroyed clients:

- `HeldKept`: while the client is started and Running, every subscription the caller holds is in the registry of the current client.
- `TypeOK`.

`threads_core` checks these, over 2,269 distinct states, with one subscription on the io thread and one on a worker:

- `NoCheckFailure`: no `CHECK` or `ABORT` of the wrapped client. It holds because the queue is FIFO: a worker's unsubscribe runs after its subscribe, and every closure posted while `Running` runs before the aborted read.
- `DirectRefined`: the client implements `DirectClient`. Every step is a direct-client step or leaves its registry unchanged. So a handle the caller holds is `Current` on its channel in the drained registry, and an unsubscribe marks that entry only.
- `LateDataOnlyWhileQueued`: once a worker's `unsubscribe` has returned, and the caller may release its callbacks, `on_data` still reaches them only while the posted closure waits in the queue. After it runs, the entry is `PendingUnsubscribe` and `process_input` drops the data. The exception is a client stopping: a closure run in `PendingStopped` returns early (`rtm_client.cpp:365-367`) and leaves the entry `Current`, and data read before the close is still processed, since the read handler runs `process_input` in any state. The property allows that case; without it TLC finds the delivery (`:791`), the same one `MCRtmSessionStopData.cfg` shows.

`decoder_core` checks these, over 3,521 distinct states. The source sends metadata first. It sends up to six packets over three metadata values, one of them a codec that does not open. One library failure is allowed.

- `CompletionDelivered`: once the source has completed or failed, the downstream eventually gets `on_complete` or `on_error`.
- `TypeOK`: in particular no more images go out than packets came in.

The violation runs are findings, recorded in `PROJECT.json`. These are the three for `RtmSession`:

- **`session_contract_abort`** (`rtm_client.cpp:534`): `unsubscribe` overwrites `pending_request_id` of an entry that is still `PendingSubscribe`. The late `rtm/subscribe/ok` then matches nothing and ABORTs.
- **`session_stop_stall`** (`:423`, `:450`): a read completion that was queued before the close reissues a read on the closed socket. The failure of that read is ignored outside `Running`, so `operation_aborted` never arrives, and the registry is never cleared. The same happens if the loop had already ended on an error.
- **`session_uncaught_exception`** (`:257`, `:326`): `start()` calls the TLS `handshake` without an `error_code`, so a failed handshake throws instead of returning `TransportError`. `_ws.write` on a broken link throws `system_error` out of `publish`, `subscribe_channel` and `unsubscribe`. spec.md says start reports handshake failures as `TransportError` and that a failing write is silent. `NoUncaughtException` says no exception leaves the client; `crash = "exception"` records one.

These are the two for `ResilientClient`:

- **`resilient_replay_released`** (`rtm_client.cpp:664`): `std::remove_if` is called without `erase`. The released entry stays in the list, or is shifted and leaves a moved-from copy with an empty channel. `restart` subscribes it again. This breaks `RegistryMatchesHeld`, which requires the registry to be exactly what the caller holds. The same leftover entry has a second effect. After an unsubscribe and a new subscribe of the same channel, the list holds the channel twice. `restart` subscribes both, and the reply to the second one finds no entry and ABORTs (`:731`).
- **`resilient_use_after_free`** (`:716`): `restart`, run from a `secure_client` handler, destroys that client. The `subscribe/error` branch then erases from the freed registry, and the destroyed client's queued handlers run with a dangling `this`.

And this one for `ThreadCheckingClient`:

- **`threads_cross_thread_unsubscribe`** (`rtm_client.cpp:795`): a subscription is subscribed from a worker and unsubscribed on the io thread. The unsubscribe runs before the posted subscribe, and `secure_client` ABORTs with "didn't find subscription". spec.md presents the decorator as sparing callers on any context from reasoning about the single-writer connection.

And this one for `ImageDecoder`:

- **`decoder_resolution_change`** (`decode_image_frames.cpp:199`): new metadata replaces `_context` but keeps `_image` and `_sws_context`, which `deliver_frame` builds only while `_image` is null. After a resolution change, every frame goes to `sws_scale` with a context built for the old source size.

Three further violations are kept as configurations beside the model. They are not among the listed runs, and can be run with `tlc -config <cfg> <MC module>`:

- `MCRtmSessionStopData.cfg` (`MCRtmSession`, `DataOnlyToHolder`, `rtm_client.cpp:517`). In `PendingStopped`, `unsubscribe` returns early, but data read before `stop()` is still delivered to the released subscription.
- `MCChannelPositionMalformed.cfg` (`MCChannelPosition`, `MalformedIsZero`, `rtmclient.h:48`). spec.md says malformed or out-of-range text gives `(0,0)`. Instead, `"1:"` gives `(1,0)`, leading white space and `+` are accepted, `"-1:5"` wraps to generation 2^32-1, and an oversized offset saturates to `UINT64_MAX`. No source file includes `rtmclient.h`.
- `MCImageDecoderBadCodec.cfg` (`MCImageDecoder`, `NoCrash`, `decode_image_frames.cpp:141`). Metadata whose codec does not open reports `StreamInitializationError` but leaves `_packet` allocated and `_context` null (`:112-117`). A frame the source still sends is passed to `avcodec_send_packet` with the null context, which FFmpeg dereferences. Whether the source still sends after the stage's `on_error` is up to the stream library, which is not in this repository.

Each property of a passing run has a mutant in `PROJECT.json`, a plausible
bug in the mapped code that TLC finds:

- `_request_id` post-incremented into the entry
- the unsubscribe id not stored
- the confirmed id reset to 0
- the status left `PendingSubscribe`
- a parse failure not reported
- the restore loop skipped
- a move that also nulls the pointer
- digits printed in reverse
- an aborted read that does not clear `_subscriptions` (breaks `LifecycleRefined`)
- an `io_service` drained by several threads, which is not FIFO
- an `unsubscribe` loop that does not skip other handles' entries (breaks `DirectRefined`)
- data for an entry `PendingUnsubscribe` delivered as well (breaks `LateDataOnlyWhileQueued`)
- `AVERROR_EOF` that ends the loop without `deliver_on_complete` (breaks `CompletionDelivered`)
- `EAGAIN` taken for success, which delivers the stale `_frame` again (breaks `TypeOK`: more images than packets)

## Bounds

- **Two channels and two handles.** This is enough for two subscriptions to interleave and for a handle to move from one channel to another.
- **`MaxRequestId = 4`.** This allows a subscribe and an unsubscribe on each of two channels, or a re-subscribe.
- **`MaxFaults = 1`.** One link break, server drop, malformed frame or start failure per behaviour. Every fault ends the session's useful life, so a second fault adds no new case.
- **`MaxData = 1` and `MaxWire = 2`.** A data frame and two requests in flight are enough for a reply to overtake nothing and for data to race `stop()`.

For `ResilientClient`:

- **`MaxGen = 3`**: two restarts, enough for a restore followed by a second failure.
- **`MaxReplay = 3`**: a subscribe, an unsubscribe and a resubscribe, or two channels and the moved-from copy.
- **`MaxFaults = 1`**: one link failure or failed start.

Refused subscribes are bounded by `MaxGen`, because each one restarts the client.

For `ChannelPosition`, the scaled widths keep the three numeric regimes apart: a generation above `uint32` but within `long long`, above `long long`, and negative. Texts of four characters reach every branch of `parse`.

For `ImageDecoder`:

- **`MaxDelay = 2`.** The codec can hold a frame back and can be full (send `EAGAIN`).
- **`MaxDemand = 2`.** The downstream can be ahead of the decoder or caught up.
- **`MaxPackets = 6`.** Enough for metadata, frames, a change of codec and a repeat of the same metadata.
- **`MaxFaults = 1`.** One FFmpeg or allocation failure. Every failure ends the stream.
- **Two sizes.** The resolution run has two sizes.

For `ThreadCheckingClient`, `MaxQueue = 4` posted handlers allow a worker's subscribe, publish and unsubscribe, plus the aborted read, to be waiting at once. `MaxData = 2` data messages per handle let data arrive both before and after a worker's unsubscribe returns.

## Fairness

`FairSpec` assumes weak fairness of the following:

- The three completion handlers and the completion of pending operations. The `io_service` runs every queued handler, and a pending socket operation completes.
- The server's answers to requests. The RTM service answers every PDU, which `SubscribeResolves` needs.

No fairness is assumed for the caller or for faults.

`ImageDecoder`'s `FairSpec` assumes weak fairness of the drain loop's steps, because a `drain()` call runs to its end on its thread. It also assumes weak fairness of the downstream's `request`: the bot pipeline keeps asking for images. No fairness is assumed for the source.

## Not modelled, and the plan

The modules are to be added in this order:

1. `ResilientClient` is done. It checks safety only: each restart is synchronous, so there is no eventual step to wait for.
2. `ThreadCheckingClient` is done, with data frames and the `DirectClient` refinement. `subscribe_filter`, `position` and `is_up` are left out: in `thread_checking_client` and in the `secure_client` every decorator reaches, they only `ABORT` with "not implemented", and no file of the sources calls them.
3. `ChannelPosition` is done.
4. `SubscriptionRegistry` is done, with `RtmSession` refining it. `DirectClient` is done, with `ThreadCheckingClient` refining it.
5. `ImageDecoder` is done, apart from the destructor's `cancel` and the operator plumbing of `decode_image_frames`. `bot_environment` is not modelled; the reasons are below.

These parts are left out:

- The CLI, logging and the test bot.
- JSON/CBOR conversion, which is abstracted to records.
- Metrics.
- `subscribe_filter`, `position` and `is_up`, which only ABORT.
- In the image decoder: pixel data, plane copying and the image geometry of `init_image`, which are data and not control. The `err > 0` test at `:143` is also left out, because with either test a failed send only drops the packet. The test decides only a log line and a metric sample.
- `bot_environment.cpp`. `main()` wires objects whose code is not in this repository: `cli_streams::configuration`'s `rtm_client` and `decoded_publisher`, `bot_instance`, and the stream operators. So the client stack it builds, and the thread that runs `do_finally`, cannot be read from the source. Its hazards are listed: `finished` is an unsynchronized `bool` polled by the main thread (`:298`), `rtm_client->stop()` may be called off the io thread (`:286`), and `do_finally` sets `finished` before the clean-up it announces, so `main` can return and destroy the `io_service` and the static environment while that clean-up still runs (`:282`). The `cli_streams::configuration` that `main()` calls (`to_boost`, `validate(vm)`, `rtm_client(cmd_args, ...)`) is also not the one declared in `cli_streams.h`.
- The legacy mutex `resilient_client` in `rtmclient.h`. It has no caller here and repeats the replay-list logic `ResilientClient` models, including the same `remove_if` without `erase`.
