# A TLA+ model of the Domoio firmware for the ESP8266

This directory models the firmware in `src/`: what the device does between
power-on and an established session with the Domoio server, and the data
structures and codecs it is built on. The modules are checked with TLC on small
instances; the theorems are checked with TLAPS for every value of the constants.

`PROJECT.json` lists the components, the runs, the mapping from every definition
to the lines it models, the hazards, and the theorems. This file explains them.

## 1. The system

The firmware is one thread, the Arduino *sketch* (`setup()` and then `loop()` for
ever), plus callbacks of the SDK's software timers (`Ticker`), which run only
while the sketch yields: in `delay()`, in blocking calls of the network library,
and between two calls of `loop()`.

| Component | State it keeps | Operations | Talks to |
|---|---|---|---|
| **Session** (`main.cpp: loop`, `domoio.cpp`) | `client`, `reconnect_requested`, `last_seen_at`, `ping_ticker` | `connect`, `handsake`, `disconnect`, `receive_messages`, `ping` | the server over TLS; the application (`handle_event`); the SDK's timer |
| **Boot, portal, stores** (`main.cpp: setup`, `wificonf.cpp`, `flash.cpp`, `domoio_core.h`, `storage.cpp`) | SPIFFS files `/wifi`, `/ota`; device id in the EEPROM | `setup`, `try_ota_update_from_file`, `connect_wifi`, `handle_config`, `handle_flash`, `WifiConfig::save/remove` | a user's browser, the access point, the API server |
| **Registration** (`domoio.cpp: register_device`) | none of its own | one HTTP POST | portal, EEPROM |
| **CoAP PDU** (`cantcoap.cpp`) | the bytes of a message and five numbers about them | `addOption`, `setToken`, `setPayload`, `reset`, `validate`, `getOptions` | `message.cpp`, `process_message` |
| **CoAP URIs** (`cantcoap.cpp`) | none | `setURI`, `getURI` | `message.cpp`, `process_message` |
| **SimpleList** (`SimpleList.h`) | array, end, allocated and preallocated blocks | the operations of a list | ports, watchers |
| **Blob transfer** (`actions.cpp`) | `chunk_buffer`, `received` | start, chunk, end | `process_message` |
| **Timed waits, watchers** (`watcher.cpp`, `domoio.h`, and waits everywhere) | a start time each | compare it with `millis()` | everything |
| **Dispatch and ports** (`domoio.cpp: process_message`, `port.cpp`) | `value` of each port | route a message, set a port | Session, LED |
| **Framing** (`domoio.cpp: receive, send`) | `buffer` | two length bytes and a frame | Session |
| **LED, button, controllers** (`led.cpp`, `scenes.h`, `reactduino.cpp`) | `pressed`, `pressed_at`, `reset_mode`, the controller stack | poll the button, blink | Lifecycle, ports |
| **Value codec, messages** (`tools.cpp`, `message.cpp`) | none | integers to bytes and back, build a message | ports, CoAP PDU |
| **RSA and Base64**, **byte order macros** | none | third-party arithmetic | handshake |

The sketch's parts interact by calls, and with the ticker through shared
variables: `ping()` reads and writes `client`, `last_seen_at` and
`reconnect_requested` wherever the sketch happens to yield.

### What is hard, and the properties that make each part correct

* **Session.** Two actors on one set of globals, a peer that may be slow, silent or
  gone, answers that come after their time-out, a login that fails half way.
  Correct when: a dead peer is given up in bounded time; a requested reconnection
  can always be and is carried out; whoever was told "connected" is watched over;
  the two ends agree on the login; and the device returns to a session when the
  faults are over.
* **Boot and stores.** Every store is written in more than one step and the power
  may go between any two. Correct when: no cut leaves a configured device without an
  identity, an update that kills the device is not tried at every boot, and saved
  credentials survive everything but the button.
* **CoAP PDU.** Options may be added in any order; each holds the *difference* to the
  one before it, in one, two or three bytes, so an insertion re-encodes its neighbour
  in place. Correct when the bytes always hold the token, options and payload that
  the calls describe, and the reader finds what the writer wrote.
* **Timed waits.** Every time-out remembers `millis()` and compares it later, each in an
  arithmetic of its own (double, unsigned, signed), on a clock that wraps after 49 days.
  Correct when a wait is over at the first poll after its time, and not before.
* **SimpleList.** Four operations move items in place or copy them to a new array, each
  with code of its own. Correct when no item is lost, doubled or out of order, and nothing
  is accessed outside the array.
* **CoAP URIs.** One character of look-ahead and a buffer that may be too short.
  Correct when `getURI` inverts `setURI` and a cut URI is a prefix.
* **Blob transfer.** Three handlers share a pointer and a counter and check neither; the
  connection may be replaced between any two chunks, and the memory may run out. Correct when
  every write falls into the block, the blob is whole at its end, and only a cut leaks.
* **Dispatch, ports, values.** Routes are compared by prefix, in an order that matters; integers
  and floats are taken apart and put together by hand. Correct when a message changes the
  ports it names to the values it means and no other, and the server reads what the application
  meant.
* **Framing.** TCP delivers in pieces, and `receive()` never looks whether all of a frame is
  there. Correct when every frame that has arrived is taken as it was sent, and a new
  connection heals what an early read has broken.
* **Button and LED.** The button is only looked at where the sketch gets round to it, and the
  sketch blocks, restarts and reconnects in between; the LED is switched by a ticker. Correct
  when no tap deletes the credentials, a long hold does, and the LED tells what goes on.

## 2. The modules

| Module | What it is | Run by | Proved in |
|---|---|---|---|
| `Presence` | what Session promises the application | - | - |
| `Session` | sketch, ticker, link and server | `MCSession` | `SessionProofs` |
| `Lifecycle` | setup, portal, stores, button, power | itself | `LifecycleProofs` |
| `CoapMessage` | an abstract message: token, sorted options, payload | - | - |
| `CoapPdu` | the bytes of a message under construction | `MCCoapPdu` | `CoapProofs` |
| `CoapUri` | `setURI` and `getURI` | `MCCoapUri` | `CoapProofs` |
| `Timers` | the waits of the firmware and a clock that wraps | `MCTimers` | `TimersProofs` |
| `ItemList` | what SimpleList promises | - | - |
| `SimpleList` | the array and its blocks | itself | `SimpleListProofs` |
| `Codec` | the conversions of `tools.cpp` | (part of `Messages`) | `MessagesProofs` |
| `Ports` | values and pins of the ports | (part of `Messages`) | - |
| `Messages` | routes, blob transfer, ports, outgoing messages | `MCMessages` | `MessagesProofs` |
| `FrameQueue` | what `receive()` promises of a connection | - | - |
| `Framing` | the bytes of the stream, `send()` and `receive()` | itself | `FramingProofs` |
| `Panel` | reset button and LED, composed with `Lifecycle` | itself | `PanelProofs` |

`Messages` extends `Ports` and `Codec`. `Panel` instantiates `Lifecycle` and adds a variable for
the turns of `loop()`, which `Session` has in detail. `Session` and `Messages` take frames as
wholes; that this is right for a frame that has arrived is what `FrameQueue` states and `Framing` keeps.

A definition whose name ends in `Bug` (`TimedOut_Bug`, ...) is what the definition
after it would be with a plausible slip in the code. Nothing uses it: put in the
place of the real one, it makes a property fail, which shows that the property
depends on that line of the code. `PROJECT.json` pairs them under "mutants".

### Session and Presence

*State.* `pc` is the place in the sketch where it may yield: the head of `loop()`
(`Loop`), its `delay(1000)` before `connect()` (`Backoff`), the blocking
`client->connect()` (`Connecting`), the two `block_until_receive()` of `handsake()`
(`AwaitNonce`, `AwaitHello`), `client->stop()` in `disconnect()` (`Stopping...`) and the
delay before an update (`OtaDelay`). What the sketch does between two such places
is one action; `Ping` may come between any two actions. `age` is
`millis() - last_seen_at`, `phase` the time since the ticker last ran, both in seconds.
`leaked` counts the client objects whose pointer `connect()` overwrote. `link`,
`stalled`, `toServer`, `toDevice` and `srv` are the TCP connection and the server;
they are external and modelled from what `handsake()` and `process_message()` expect.

*Time.* `Tick` is one second, and is possible only when neither the sketch nor the
ticker has anything to do (what the firmware computes takes no time next to its
waits). With `PromptServer` the server, too, answers within the second; without it,
it may be as slow as it likes, which is how answers get late.

*Undefined behaviour.* When no challenge comes, `handsake()` declares an array of size
-1 and goes on. `NonceTimeout` has both outcomes of the build: a nonce of junk, or an
exception that restarts the device.

*Left out.* `session_started` (written, never read) and the message ids; the
application's own `handle_event` is assumed to return without touching the globals;
`client->write()` is one step.

`Presence` is the application's view: `EVENT_CONNECTED` comes only after
`EVENT_DISCONNECTED`, and while the application believes in a connection the
device has heard from the server within `Limit` seconds. `KeepsPresence` says that
`Session` implements it, with `Limit = NETWORK_TIMEOUT + PingPeriod`.

### Lifecycle

*State.* `wifi`, `ota` and `id` are the three stores, each `None`, `Torn` (opened or
erased, not finished) or `Saved`; they survive `PowerCycle`, everything else does not.
`apOk` says whether the access point takes the credentials, and changes at will.
`created` and `attempts` count files `/ota` and the updates started from them.
One action per step of `setup()` and of the two portal requests; the writes are two
actions each, because the power may fail between them. `ButtonReset` is possible
exactly where the code polls the button (`Polled`). The whole of module Session is
the location `Online`.

### CoapPdu and CoapMessage

`pdu` holds the real bytes, with the real encodings (thresholds 13 and 269), and
the other variables are the object's fields. Each action has a branch where
`realloc` fails. Positions are C indices plus one; a byte that was allocated and
never written is `Junk` (256). Callers add options and set the token before the
payload (`message.cpp`), which the guards say. With `CallerStops` no option is added
after one that failed. The insertion and the truncated copy of long values are the code's own.
So is the old length that `setToken()` keeps in a `uint8_t` (`OldLength`): of a PDU of 256 bytes or
more it moves the wrong bytes, and when its `realloc` fails it cuts the PDU to that length. The
only caller sets the token of a new PDU. The `realloc` of the branch where the PDU gets smaller
is taken to succeed.
`HoldsMessage` is the refinement: the bytes, decoded by the code's own reader
(`Options`), behave like `CoapMessage`, whose `AddOption` inserts into a sorted sequence, and
(`CallsKept`) every call that succeeds is the step of `CoapMessage` with *its own* arguments. The
firmware adds its options in ascending order; that any order is right is about the class as a library.

Three loops walk over the options: `getOptions()` (`Walk`), `findInsertionPosition()`
(`InsertionPosition`, of which `Advanced` is a round) and `validate()` (`Validate`, of which `Checked` is
a round). Each is a function of the number of rounds, and where its loop stops the rounds
change nothing any more. `Malformed` is what `validate()` tests before it takes an option, with a
peculiarity of the code: `computeExtraBytes()` is asked about a *nibble*, so that it counts one
byte for 14, which stands for two.

`PduInv` says what the three rely upon: the options lie one behind the other (`Laid`), each with its number
as the difference to the one before it, up to the end of the PDU or the payload marker; and
`_maxAddedOptionNumber` is the number of the last one, unless a call has failed.

### CoapUri

A URI is a sequence over `Char`, of which `/`, `?` and `&` separate (for TLC there is one more
that does not). `Split` is the loop of `setURI`, with `Segment` as one of its rounds, and `Joined` the
loop of `getURI`, with `Join` as one round and its two checks for room. Both loops are functions of the
number of rounds; that of `setURI` goes on for as many rounds as the URI has characters, and the rounds
after its last one change nothing. Its specification is `UriSpec`.

### Timers

A behaviour is about one wait, `kind`: the silence of `ping()`, the frame of
`block_until_receive()`, `wait_for_wifi()`, the reset button, or a watcher. `start` is what the
code remembers of the clock, `elapsed` the true time since then. `Pass` is the time between two
polls, at most `Gap`; a poll is the code's test, in the code's arithmetic: on doubles for `ping()`,
the frame and the button, unsigned for `wait_for_wifi()`, signed for a watcher. `Init` puts the
clock anywhere. The limits keep the order of the real ones.

A watcher's `last_exection` is never initialised; the model starts with its first run. That
`wait_for_wifi()` gives up at once in the first ten seconds after a restart is in the model: it is
the exception in `NeverEarly`.

### SimpleList and ItemList

`array` is the allocated array with the items *and* what lies behind them; `Junk` is an element
of `new T[]` that was never written. A position is the C index plus one. `NewArray` is the copying of
`AllocOneBlock()` and `DeAllocOneBlock()`, `MovedUp` and `MovedDown` the loops that move items in
place. `copy` is the copy constructor or the assignment, after which the copy is used.
`HoldsList` is the refinement: what the iterators see behaves like `ItemList`, a sequence, and
(`CallsKept`) each operation does to it what the one of the same name does. The
firmware only calls `push_back()`; the rest is about the class as a library.

### Messages, Ports and Codec

*State.* `stream` are the frames sent to the device and not yet read, `next` where the server is
with its transfer. The heap block of a transfer is `block` (null, live or freed) and its `cells`;
a cell holds which byte of which blob was copied there, or `Junk`. `received` is the code's
counter, `lost` counts the blocks nothing points to. `value` and `level` are the ports and their
pins. `sent` is the frame the device wrote last and `meant` what the application put into it.

*The server is external.* That it transfers one blob at a time, its chunks in order, and starts
anew on a new connection is assumed, not read from code: `actions.cpp` guards nothing, and another
order may write outside the block. What is checked is that *with* such a server no replaced
connection, interleaved request, failed `malloc()` or restart breaks the transfer. `from` and `to`
of a frame stand for what its payload says (length, index, data); the rest of them is for the
properties. `Cut` stands for all of `Session`: one connection is gone, and another is there.

*Undefined behaviour.* `malloc()` may fail; the write through the null pointer that follows is an
exception of the CPU, and so a restart. Writes outside a block are not given an outcome:
`InBounds` shows there are none.

*Routes.* A URI is one of the names the code compares with. `/set_ports` is compared to its end (11
characters with the terminating zero), every other route is a prefix; `/set` is one of `/set_ports`, the
only pair that depends on the order. A URI with anything behind these names is not sent. Another
URI or an invalid PDU is `other`. A message of a transfer is never acknowledged.

*Codec.* A number is split into bytes with `\div` and `%`, as the shifts and masks do, and a float
is sign, exponent and mantissa as `frexp()` and `ldexp()` yield them. Denormals, infinities and
NaN are outside `Normal`. `IntOf` and `FloatOf` are the formats of the other end. `buff32_to_int()`
never reads the byte of the bits 16 to 23, so that a `/set` to 65536 sets the port to 0; `Obeys`
speaks of the other values, and theorem `IntsRead` says that exactly these are read right.

*Payloads.* A port setting is read from a fixed number of bytes. `/set_ports` reads as
many as the payload has room for, perhaps none; `/set` reads one without looking how long the payload
is. That the server always sends it one is assumed, so that the `ports` of such a frame are never empty.

*A bound.* The application speaks only when there is nothing to read; it touches nothing the
handlers use.

### Framing and FrameQueue

`wire` are bytes under way, `inbox` bytes that have arrived. A byte is a digit to the base `Base`; a
length is two of them. `receive` reads the length and then as many bytes, whether they are there
or not: a byte that is not there reads as 255, a lone byte gives a length of -1 and is lost, and a
frame that is too long loses its length while its data stays and is taken for frames. `queue` and
`inStep` belong to the observer: `inStep` is true until a frame is read in part or found too
long. `FrameQueue` says what may be relied upon, and `KeepsPromise` that `Framing` implements it,
with `whole`, the number of frames that have arrived, computed from the bytes.

### Panel

`turn` is where `loop()` is, `down` and `held` the user's finger, `pressed`, `reset_mode` and `age`
(`millis() - pressed_at`) the fields of `HomeIM`, `flipper` the period of the LED's ticker and `lit`
the `led_state`. `missed` belongs to the observer: the user let go and pressed again while the sketch
believed the button held, which happens when it does not poll for a while, as in
`client->connect()`. Every action of `Lifecycle` occurs in `Panel` with what it dispatches to the LED;
`ButtonReset` occurs only as `ReleaseLong`. Theorem `IsLifecycle` proves that `Panel` implements
`Lifecycle`.

What the model shows of the code, besides its properties:

* `current_action` is never set, so that every `dispatch()` starts its period anew.
* A reconnection while the reset mode is on shows the LED of the connection, and a login shows it
  steady; the reset mode stays on.
* A reset that is pending is lost when an update or a registration restarts the device first, and
  a device that was being configured may then have saved its credentials.
* After `verify_keys()` has failed the ticker blinks an LED whose pin is not yet an output.

Left out: a board without a reset port (`reset_port` is null and is dereferenced at the first
poll), and a message that sets the LED's own port, after which `led_state` and the port differ
until the ticker's next turn.

## 3. The runs

| Run | Bounds | States | Shows |
|---|---|---|---|
| `session_safety` | real periods in seconds (10, 15, 5, 1, 3), 3 faults, 1 request, 1 leaked client, 3 frames in flight, slow server | 729 000 | five invariants and two action properties of Session |
| `session_live` | 2 faults, 1 request, prompt server | 52 380 | liveness, see below; `NeverGivesUp`: before the first fault the ping period leaves room for the answers |
| `session_torn_down` | 2 faults | *violation* | a ticker left over from a lost connection tears the next session down |
| `lifecycle` | 3 power cuts, 2 updates | 2 320 | safety and liveness of the stores |
| `coap_pdu` | 3 options of 4 numbers and 3 values, 3 tokens, 2 payloads | 16 776 | `HoldsMessage`, `ReadBack`, and `PduInv`, from which both are proved |
| `coap_uri` | all 87 381 URIs of up to 8 characters, a buffer of 7 | 262 141 | `RoundTrip`, `CutNotGarbled`, `StaysInBuffer` |
| `timers` | a clock of 48, waits of 2 to 6, polls up to 3 apart, 20 of a wait | 45 116 | `NeverEarly`, `NeverLate` |
| `simple_list` | 3 items, 4 in the list, reservations of 0, 1, 3, 4 | 1 157 | `InBounds`, `HoldsList`, `ListInv` |
| `messages` | 2 blobs of 3 and 4 bytes, chunks of 2, 3 ports, 4 payloads, 7 values, 2 unread frames, 2 connections replaced | 289 440 | buffer, leak, ports and values |
| `panel` | 1 power cut, 1 update, a `RESET_TIMEOUT` of 2 ticks | 80 912 | LED and button over the life of the device |
| `framing` | frames of up to 3 bytes, a buffer of 2, 10 bytes unread, digits to the base 2 | 25 910 | `receive()` takes what has arrived as it was sent |
| `default_settings` | as `messages` | *violation* | a log message is sent with the default type |

**Why the bounds are enough.** In Session the hazards need a fault to lose the
connection, a second to make an answer late or refuse a connection, and a third
during the session that follows; the periods are the real ones, so that the order in which
time-outs, pings and back-offs fall is the real one. `MaxInFlight` cuts off a server
that reads nothing for 30 seconds and more. In Lifecycle three cuts hit all three
stores in one life. The option numbers of CoapPdu make deltas that need 0, 1 and 2 extra bytes
*and* shrink from one size to another on insertion; three options are a first, a
last and one in between. A URI of eight characters has a path of two elements,
a query of two, and one that does not fit. The clock of Timers
is longer than twice the wait that is looked at, as the real one is, and starts at every value.
Four items and reservations below, at and above them fill, overfill and empty the array on every path.
In Messages one blob fills its last chunk and the other does not, the ports are active-high,
active-low and analogic, one payload names a port twice, one an unknown port, one a float, and one
an integer with bits 16 to 23; two unread frames are enough for a request between two chunks, and two
cuts for a block that is lost and a transfer that starts again twice. In Panel the time-out of two ticks is
missed, reached and exceeded; one power cut and one update visit every location, and time is not bounded
(it saturates). In Framing ten bytes are two of the longest frames or five empty ones; the base of
2 makes lengths that need both digits, and a frame of 3 is too long.

**Liveness and fairness.** `DeviceFairness` is weak fairness of the sketch (`loop()` is
called for ever), of `Ping` (the SDK runs a timer that is due) and of `Tick` (time passes).
`ServerFairness` says the server reads what has reached it and drops who failed to log in; it
may close, stall and send requests as it likes. There is no fairness on faults or on
`Resume`. In Lifecycle the sketch is fair (`Device`), and `register_device()` is assumed
to succeed in the end, since its loop has no other exit; `TornRecovers` adds a user who
holds the button. In Panel the sketch (`Sketch`) is weakly fair, as in `Lifecycle`, and `ReleaseLong`
is strongly fair: `loop()` calls `reactduino::loop()` at the top of every turn, so that the button is
looked at again and again even when every connection fails and no single moment of it lasts. It
is not looked at all the time (`client->connect()` blocks), hence strong. Nothing is assumed
of the user, the network or the reset mode.

* `RequestServed`, `LossNoticed` hold outright.
* `Converges`: if no answer is ever late, the device ends in a session for good.
* `ReleaseRestarts`: a user who lets the button go in reset mode gets a restart, or has pressed it again.
* `ConvergesOrStrands`: without that proviso it may also end in `Limbo`, connected and never
  logged in. `connect()` ignores what `handsake()` returns, `loop()` looks only at the TCP
  connection, and no keep-alive runs (or a stale one, which the server's answers keep
  content). The disjunct is what the code does, not a wish.

**What the code does elsewhere**, visible in the definitions without a run of its own:
`CoapPDU::reset()` leaves the version at 0, so that `validate()` rejects what is built next (`Reset`);
a token set on a PDU of 256 bytes or more spoils or cuts it (`SetToken`); of
an option value of 269 bytes or more the last 269 are not copied (`Copied`); an option added after
one whose `realloc()` failed gets a wrong number (`AddOption` where `CallerStops` is false); and a query of
one character is lost by `setURI()` (`Split`). `ReadBack`, `TokenInTime`, the constants of `coap_pdu`
and `WellFormed` exclude these cases by name. Other properties admit by name what the code does and
bound it: `Limbo` in `ConvergesOrStrands`, `Wrapped` in `NeverLate`, the first seconds
after a restart in `NeverEarly`, `missed` in `HeldToDelete`, `inStep` in `KeepsPromise`. They say that
nothing *else* goes wrong; the "note" of a hazard in `PROJECT.json` tells the two apart.

**What the violation runs say** is under "findings" in `PROJECT.json`: each quotes the
comment the code does not keep. The counterexamples are short (TLC prints them);
e.g. for `session_torn_down`: a session is up; the link drops; `loop()` sees it, waits and
connects without `stop_ping()`; the old ticker finds `age > NETWORK_TIMEOUT` during the
handshake and sets `reconnect_requested`; the login succeeds; the first turn of `loop()` disconnects.

**Which slip each property notices** (the `_Bug` variants):

| Property | The slip |
|---|---|
| `IInv`, `RequestServable` | `disconnect()` leaves the ticker attached |
| `SilenceBound` | a time-out of twice the length |
| `AppWatched`, `LossNoticed` | `handsake()` succeeds without `start_ping()` |
| `SessionAgreed` | any answer is taken for HELLO |
| `NoLiveClientLeaked` | `is_connected()` asks for a login as well, and a live client is forgotten |
| `KeepsPresence` | `loop()` announces a loss only to whoever was told of something before |
| `NeverGivesUp` | `receive()` does not note the time |
| `RequestServed`, `Converges` | `disconnect()` does not clear the request |
| `ConvergesOrStrands` | `is_connected()` only tests the pointer |
| `LInv`, `AtMostOnce` | `/ota` is not removed before the attempt |
| `ConfiguredIsRegistered` | the portal does not wait for the registration |
| `CredentialsKept`, `ComesOnline` | an unreachable network sends a configured device to the portal |
| `TornRecovers` | the wait for the network does not poll the button |
| `PduInv` | the extra byte is stored without subtracting 13 |
| `ReadBack` | `setToken()` does not move the options |
| `HoldsMessage` | the neighbour keeps its delta; an option is put before those of equal number |
| `RoundTrip`, `CutNotGarbled`, `StaysInBuffer` | the type stays Path; a value without room is skipped; the zero is not counted |
| `NeverEarly` | the sum of `block_until_receive()` wraps with the clock |
| `NeverLate` | `should_run()` without its test for a time gone backwards |
| `InBounds` | the array is taken for full one item too late |
| `ListInv` | blocks are given back although they were reserved |
| `HoldsList` | `erase()` and `pop_front()` in place move one item too few down |
| `MInv`, `Intact` | `received` is not reset by a start |
| `InBounds` of Messages | no byte is allocated for the terminating zero |
| `LeaksOnlyCut` | the end does not free the block |
| `Obeys` | `/set` is compared before `/set_ports`; active-low is ignored; the byte of the bits 8 to 15 is not read |
| `SentAsMeant` | a shift of 7 for 8; an exponent bias of 127 for 126 |
| `PInv` | `press()` does not note the time; `CONNECTED` does not stop the ticker |
| `HeldToDelete` | the reset mode is entered one tick early |
| `ReleaseRestarts` | the release is looked at only while the device is online |
| `InStep` | a frame that just fits the buffer is taken for an overflow |
| `KeepsPromise` | the two bytes of the length are swapped |

## 4. The proofs

The modules `SessionProofs`, `LifecycleProofs`, `TimersProofs`, `SimpleListProofs`, `CoapProofs`,
`FramingProofs`, `MessagesProofs` and `PanelProofs` prove, for every value of the constants that
satisfies the `ASSUME`s of the modules, every safety property the passing runs check. `TypeOK` of Session and CoapPdu,
`UpdateIsUnconfigured`, `TInv` and `NoSlack` are proved as well
and have no run of their own. The assumptions are natural numbers where there are numbers; a
positive ping period; a clock that wraps no sooner than twice the longest wait; blobs of any length and
a positive chunk length; values that are 32-bit integers or normal floats; URIs over any set of
characters that contains the three separators, and a buffer of at least two bytes; frames and a buffer of
any size, lengths of two digits to any base that suffices for them; option numbers of 16 bits, values
whose size with a header is one, tokens of at most eight bytes.

Of five theorems the hypotheses are more. `NeverGivenUp` supposes a server that answers within the second
(`PromptServer`) and a ping period of at most `NETWORK_TIMEOUT`. They are 10 and 15 seconds
(`start_ping()`, `domoio_core.h`), and a slow server *is* given up: that is what the time-out is for.
The four about `CoapPdu` (`OptionsLieInOrder`, `PduTypes`, `BuiltIsReadBack`, `PduHoldsMessage`) are about
callers that add no option after a failed call (`CallerStops`), and suppose that no `setToken()` changes a
PDU of 256 bytes or more, be it by setting the token or by failing to (`TokenInTime`, a condition on the
steps). `setURI()` returns at the first
`addOption()` that fails, and the only call of `setToken()` is on a new PDU (`domoio.cpp:147`). Without
either, the bytes are *not* what the calls describe; see sections 2 (`CoapPdu`) and 3. `PduHoldsMessage` is about
values of less than 269 bytes as well, because the last 269 bytes of a longer one are not copied; the
others hold of longer ones, too.

**Induction over data.** What a loop computes is proved by induction over its rounds, and the theorems
of the library for that take an operator as a parameter, which the provers cannot instantiate.
`SetInduction` and `UpTo` are induction over a *set* of numbers: a set of naturals that holds 0 and
with every number the next holds all of them, because the complement would have a least element
(`WFMin`). A recursive function is the `CHOOSE` of its equation; `RoundsExist` and
`PrefixesExist` show that there is one that satisfies it, by induction on the number of rounds.

**Session.** The properties are not inductive. `IInv` adds what makes them so:
`ControlInv` (what each location says of the client, link and application),
`TickerInv` (no ticker runs while the client is being stopped), `SilenceInv` (between
two pings the silence is at most `NetworkTimeout + phase`), `BeliefInv` (the application
is told within the second) and `LoginInv` (a HELLO is in flight only from a server
that accepted). `SilenceInv` is the heart: it ties the two clocks together,
and `SilenceBound` is `SilenceInv` at `phase = PingPeriod`. Each conjunct of `IInv` has its own
lemma over the actions. `Invariance` collects them, the invariants follow, and the two action
properties (`OnlyDeadClientsLeak`, `PresenceKept`) follow from `IInv` and the step. `PresenceKept` is
the refinement: the initial state maps to the initial state of `Presence`, and every step of
`Session` to a step of `Presence` or to a stutter. `NeverGivesUp` needs a second invariant,
`PromptInv`: before the first fault there is either an answer due (a ping the server has not read, or its
answer the device has not), or the silence is no longer than the time since the last ping. A
server that answers within the second leaves nothing due when the time passes, so that the next ping
finds `age = PingPeriod`.

**Lifecycle.** `LInv` adds `FilesInv` (what each location says of the files: `/wifi` and
`/ota` are never there together) and `AttemptsInv` (`attempts` plus the file still pending is
at most `created`).

**Timers.** `TInv` adds to the types that the clock is `start + elapsed`, once around at most
(`ClockInv`), and, for the one exception of `wait_for_wifi()`, where its start must have been
(`WifiInv`). `NotOverInTime` is the lemma about the five tests: what a poll that fails says of the
three numbers. `Punctual` then follows by induction over the polls, `NotPremature` from `TInv` alone.

**SimpleList.** `ListInv` is the conjunction of the types, `InBounds` and `NoSlack`; the last is what
makes it inductive: the number of blocks is determined by the items and the reservation, so that a
list that is not full has a cell behind its items, and a list with spare blocks can give one
back. One lemma per operation says what the new array holds, and so preserves `ListInv`; the refinement
(`CallsAreKept`, `Refines`, `ImplementsList`) compares these contents with the sequences of `ItemList`,
operation by operation.

**CoapUri.** `Formed` says what a URI without empty segments looks like and `Cuts`, for such a URI, where
`setURI` has cut it: the k-th option is what stands between the k-th cut and the next, and its type tells
the side of the `?`. `NextCut` and `SegmentCuts` are the rounds of `setURI`, `SplitCuts` the
induction; `JoinFollows` is a round of `getURI` on such options: what is written is the URI up to
the cut and one separator more, so that the last of them is what `getURI` removes or, when it fails, a
prefix of the URI is what is left (`ReadUriFollows`). `RestoresUris` and `CutsUris` follow.
`NeverOverruns` holds of any URI and any options, and needs only that each round leaves room for the
zero (`JoinFits`).

**CoapPdu.** `PduInv` is inductive, and `Laid` its heart: `at` are the places where the options begin,
the last of them where they end, and between two places stands the encoding of one option. The three
walks are proved against it, each by induction over its rounds. A round of any of them decodes one
option, and `OptionIs` says that what was encoded is what is decoded, in each of the nine
combinations of sizes. So `getOptions()` visits the places and returns the options
(`WalkIs`), the insertion stops behind the last option that is not greater (`PositionIs`),
and `validate()` finds none of them malformed and counts them all (`OptionWellFormed`, `ValidateIs`). The
places and the options are determined by the bytes (`OptionsAre`), so that a step preserves the invariant
when there is *some* partition after it. The steps are then about bytes: `AppendedIs` puts an option behind the last; `InsertedBeforeIs` puts one
before another, whose delta shrinks, and whose header may, while all behind it moves up; `RetokenedBytes`
moves all options to make room for the token or to close up; and `LaidInserted` says what a partition
becomes with one option more. `AddStep`, `TokenStep`, `PayloadStep` and `ResetStep` are the actions.
`BuiltIsReadBack` follows from the invariant. For the refinement, `BeforeIs` shows that the place the
insertion has found is where `CoapMessage` inserts: behind as many options as have no greater number;
`CallsAreKept` ties each call to its arguments.

**Framing.** `InStep` is inductive: while no frame was read in part, what has arrived and what is under
way are together the packets of the frames that are due. The lemmas before it say what the length and
the data of the first packet are (`HeadIsRead`) and what `receive()` leaves of the stream (`Receives`).
`ImplementsFrameQueue` maps every step to one of `FrameQueue`. Its `whole`, the number of frames
that have arrived, is the greatest number whose packets are no longer than what has arrived; each
lemma on `WholeOf` says how it changes when a frame is sent, bytes arrive, or a frame is taken.

**Codec** (at the head of `MessagesProofs`). `IntsArrive` and `FloatsArrive` show that what the device
writes is what the formats of the other end read, for every 32-bit integer and every normal float;
`IntsRead` shows for which numbers `buff32_to_int()` is right. The lemmas before them split a number
into bytes, one shift at a time.

**Messages.** `Intact` and `InBounds` are not inductive: they speak only of the frame that is read
next. `MInv` adds `Chained` (each frame in the stream goes on where the one before it ended, and
the last one ends where the server is) and `HoldsTransferred` (the block has room for the blob and its
zero, and holds all that was transferred up to the first unread frame, or the allocation failed).
`LeaksOnlyCut` carries its own strengthening: a block that is live while no transfer is under
way counts as lost already. There is one lemma for each handler and for each way the stream
changes; `ChunkStep` is the arithmetic of a chunk. `ReadAsMeant` follows from the theorems about the codec.
`PortsObey` is the action property `Obeys`. Setting the ports of a payload one after the other is a fold
over it; `FoldIs` says what it makes of the board: of each port the last setting in the payload that
names it, and of a port that none names what it was. `FoldSteps` is one step of the fold and
`FoldExists` shows that the recursion has a solution. `PortsOK`, the types of the ports, and `MInv` say
that the payload is one.

**Panel.** `IsLifecycle` maps every step to a step of `Lifecycle` or a stutter, and so brings `LInv` to
the composition. `PInv` adds to the types what the LED shows in each stage (`LedTells`) and
`HeldAsLong`: the time the sketch believes the button held is never more than the time it was,
unless it was pressed again unseen. `HeldBeforeDeleted` follows from it and the step.

**Only model-checked:** the liveness properties, `Converges` and `ConvergesOrStrands` among them
(fairness and `ENABLED` are out of the prover's reach).

## 5. Not modelled, and the plan

* Session, Lifecycle and Panel count time without a wrap of `millis()` (`Timers` has it).
* The contents of the files, forms and HTTP answers. Among them an `ssid` of 32 characters, which
  `strncpy()` stores without its terminating zero and which is read back together with the
  password. A registration that the server always refuses is outside the fairness of Lifecycle: that
  loop has no exit and does not poll the button.
* RSA, MD5 and Base64, which are arithmetic of libraries; of `verify_keys()` only its answer
  counts. The MD5 of a blob decides on a log message, and nothing calls `save_device()`, so that a
  blob, once transferred, is dropped.
* The heap, but for the clients of Session and the blobs of Messages: each failed
  `join_wifi_network()` leaks a `DNSServer`.
* In cantcoap the accessors of single header fields, PDUs in a caller's buffer,
  `setContentFormat()` and the printing. The firmware uses the accessors on PDUs that `CoapPdu`
  builds or validates.

What is left to do, in this order:

1. `Messages` on top of `Framing`: the stream of the one is the queue of the other while `inStep`.
2. The credentials of `Lifecycle` as values with a length, for the missing terminating zero.
