# ws2812strip: specification and proofs

The program drives a matrix of WS2812 LEDs from a Raspberry Pi. `src/src/main.cpp` makes one
`WS2811Strip` of 16 by 32 LEDs, offers its operations as RPC handlers on port 9000, and runs one
thread that renders the strip every 10 ms while `auto_render` is set. `src/src/inc/render.hpp` has
everything about pixels. The RPC server, `src/3rd/inc/rest_rpc`, is vendored.

Contents: [system](#the-system), [modules](#the-modules), [runs](#the-runs),
[proofs](#the-proofs), [what is left out](#what-is-not-modelled), [observations](#observations),
[plan](#plan).

## The system

| part | state | operations | shared with, called by |
|---|---|---|---|
| main: handlers (`main.cpp` 22-59) | captures the strip and `auto_render` by reference | render, draw_pixel, draw_text, draw_number, clear, width, height, pixel, set_rotate, set_transparent, set_background, set_auto_render | run on the io threads of the server, **without a lock** |
| main: render thread (61-67) | - | `if (auto_render) strip.render()`, every 10 ms | the strip |
| `IPaintDevice` (`render.hpp` 99-160) | `transparent_`, `back` | clear, draw, flip, set_transparent, set_background | calls led_ref, width, height of the device |
| `IRotatablePaintDevice` (162-269) | `rotate_helper_` (a shared_ptr), `width_`, `height_`, `logic_width_`, `logic_height_` | set_rotate, index | |
| `IStripIndex`, `StripRotateHelper` (33-97) | references to the size | index | |
| `WS2811Strip` (484-535) | `channel[0].leds` of the ws2811 library | init, render, wait, uninit, led, led_ref | the library reads the array |
| sources of pixels (282-482, 538-589) | text or digits, two colours | width, height, led | read by draw |
| `Pixmap` (271-280), `Window` (591-677) | a vector of LEDs; a window also children and a parent | led, led_ref; add, move, remove | not used by main |
| `rpc_server` (`rpc_server.h`) | `connections_`, `sub_map_`, `token_list_`, flags and threads to stop | accept, clean, clean_sub_pub, publish, stop | its contexts, two threads of its own |
| `connection` (`connection.h`) | socket, timer, `write_queue_`, `has_closed_` | read_head, read_body, response, on_write, timer, close | `router`, on one io thread |
| `router` (`router.h`) | the handlers by name | route | answers through the connection |
| `io_service_pool` (`io_service_pool.h`) | io contexts, next one | run, stop | one thread per context |
| `rpc_client` (`rpc_client.hpp`) | `outbox_`, futures, callbacks, `has_connected_` | connect, call, async_call, read, reconnect | the programs of users |

How they interact: a connection belongs to one io context and one thread runs each context, so a
connection's handlers run one after the other, and handlers of connections on different contexts
run at the same time. All of them, and the render thread, use the one strip. No mutex protects it.

What is hard here, and what makes it correct:

- **Threads over the strip.** `index()` calls through a `shared_ptr` that `set_rotate` replaces;
  `draw()` checks a coordinate against sizes that `set_rotate` changes. Correct means: no access
  outside the array or through a destroyed helper, and a helper and a size that agree.
  It holds under conditions, and the models find them.
- **Geometry.** Sixteen rotations, a snake, clipping at two edges, a panel that is not square.
  Correct means: logical coordinates and LEDs correspond one to one, and clear, draw and flip do to
  the picture what they say.
- **Rendering.** Frames are read while handlers paint. Correct means: an undisturbed render shows
  the array, and with auto_render on the strip comes to show what was painted last.
- **Stale sizes.** A client reads `height` and rotates the strip afterwards.
- **A connection of the server.** The timer against a late request, members that the next head or
  the next write reuses, a queue of answers that io and publishing threads share, a client that
  hangs up anywhere. Correct means: every call is answered once, in order, under its own id, or the
  connection closes; and nobody keeps a connection by falling silent.
- **The server around them.** A connection is served before it is listed, two threads clean up at
  the same time, flags are tested outside their locks. Correct means: the lists follow the
  connections, and a signal ends the program.
- **A client.** The outbox, one `header_` and one `head_` for all messages, two maps of pending
  calls, an owner who closes, a network that fails, reconnecting by itself. Correct means: nothing
  is stuck, nothing is delivered twice, and a reconnected client is as useful as before.
- **Windows.** Parents and children that point at each other and are destroyed in any order.
- **An int as digits.** Truncating division, a negation that wraps around.

`PROJECT.json` lists every hazard at its line, with the properties that address it.

## The modules

| module | models |
|---|---|
| `StripIndex` | the layouts, the rotations and the sizes, as operators; extended by those below |
| `StripService` | `main.cpp` and what it uses of `render.hpp`: threads, one step per access to shared memory |
| `ReadmeClient` | extends `StripService` with the client of `src/README.md`, line by line |
| `Canvas` | abstract: a picture on a panel, and clear, draw, flip, set_rotate as single steps on it |
| `PaintDevice` | the loops of `IPaintDevice` over an array of LEDs, for one thread; implements `Canvas` |
| `DigitGroup` | how an int is split into the digits of a label |
| `WindowTree` | the pointers between windows: construction, add, move, remove, destruction, use |
| `RpcChannel` | abstract: calls are answered one after the other, none left out, each once and under its own id, with publications to a subscriber in between, until the connection closes |
| `RpcConnection` | `connection.h` and `router.h`: one connection of the server; implements `RpcChannel` |
| `RpcServer` | `rpc_server.h` and `io_service_pool.h`: accepting, the two lists, cleaning, `stop()`, the end of main |
| `RpcClient` | `rpc_client.hpp`: callers, io thread, owner and network, against a server that keeps `RpcChannel`'s promise |
| `StripIndexProofs`, `StripServiceProofs`, `PaintDeviceProofs`, `DigitGroupProofs`, `WindowTreeProofs`, `RpcConnectionProofs`, `RpcServerProofs`, `RpcClientProofs` | theorems |
| `MCStripService`, `MCReadmeClient`, `MCPaintDevice`, `MCWindowTree`, `MCRpcConnection`, `MCRpcServer`, `MCRpcClient` | instances for TLC |

How they fit together: `StripService` is what the handlers do, `RpcConnection` what carries a call
to a handler and its answer back, `RpcServer` what a connection lives in, `RpcClient` the other end.
Each takes of its neighbours only what they show at the interface. `Receive` of `StripService` is the
`Route` of a connection; `Close(c)` of `RpcServer` stands for every way in which `RpcConnection` sets
`has_closed_`; `Publish` of `RpcConnection` is the `publish()` of the server on another thread; the
`server` of `RpcClient` answers as `RpcChannel` says, and publishes in between, and `RpcConnection`
implements `RpcChannel`.

### StripService and the code

`leds`, `logic_width`, `logic_height`, `transparent`, `back`, `auto_render` are the variables of
those names. `helper` is the rotation that `*rotate_helper_` implements. `shown` is what the LEDs
display. `job[t]` is what thread `t` executes: the handler (`op`), its place (`pc`), loop counters
(`x`, `y`), the offset and the source of a draw, the colour about to be written (`ink`), and the
helper it has loaded (`held`).

- A request is taken up by `Receive`, `SetRotate`, `SetTransparent`, `SetBackground` or
  `SetAutoRender`. The last three write one variable and return in the same step.
- `clear()` is `ClearRow` (test of `height()`), `ClearCol` (test of `width()`), `ClearInk` (reads
  `back`), `LoadHelper` (loads `rotate_helper_`) and `Access` (calls it, writes the LED).
  `draw()` is `DrawRow`, `DrawCol`, `DrawInk` (reads `transparent_`), `DrawTest` (reads `back`, if it
  was set) and the same last two. `draw_pixel` and `pixel` are the last two alone.
- The arithmetic of `draw()` is that of `int`: `Overflow` is the sum `y + dy` or `x + dx` that leaves it.
- `set_rotate` is five accesses: load the old pointer (`SetRotate`), exchange it and release the
  old object (`StoreHelper`), `SetLogicWidth`, `SetLogicHeight`. A degree that is not one of the
  four throws before anything is touched, so it is no step.
- Two releases of one object are `DoubleRelease`; an access outside the array, or through a helper
  that is gone, may be `Stray`. These and `Overflow` leave the thread at `"undefined"`, where the model stops
  (`Halted`). A helper that is gone may also still answer (`Access`): both outcomes are explored.
- `render()` reads the LEDs one after the other (`Scan`) and sends them (`Show`). The library is
  external: its sources are a submodule that is not in the tree. The render thread is `AutoRender`,
  `Scan`, `Show`.
- `met[t]` (the handlers that overlapped the one `t` runs) and `mixed` (the last set_rotate to end
  had met another one) are history variables: no action of the program reads them.

Kept abstract: colours are a few model values; a text or a number is a set of lit cells; widths are
those of the instance. Memory is sequentially consistent at the granularity of one access to one
variable. C++ calls unsynchronised accesses undefined altogether; the outcomes modelled are those
that a build for this hardware has for plain aligned words.

Coordinates. The handlers take any int: `draw_pixel` and `pixel` check nothing, and `draw()` only the
lower and the right edge. So `Receive` takes any of `Pixels` and `Offsets`, which may hold any ints
(`MaxInt` is the largest), at any time. A client that read the size before another client's
`set_rotate` sends its pixel off the panel in good faith, and no handlers need overlap for that to
index outside the array. `Placed(j)` says that the coordinates of a handler suit the strip as it is
by then, and the properties name it where they depend on it: the code promises nothing otherwise.

`width` and `height` read one variable and change nothing; they are not actions. `ReadmeClient`
reads `logic_height` where the client calls `height`.

### PaintDevice, Canvas

`PaintDevice` has the loops as folds over the coordinates in the order of the two `for`s, each
element one body of the inner loop, on either layout (`snake`). A write beyond the last LED gives
an array with a larger domain, which `TypeOK` excludes. `Promise == INSTANCE Canvas WITH picture <-
PictureOf(leds), view <- helper` maps the array to what an onlooker sees: the layout is undone, and
the rotation is not part of the picture, as `set_rotate` moves no pixel.

A refinement alone admits that a call does nothing (that is a stuttering step), and calls may look
alike. `LoopsPaint` therefore also compares, in every reachable state, the picture each single call
would leave with the one `Canvas` defines for the same arguments.

### RpcConnection, RpcChannel

An io context takes one completion handler at a time; each handler is an action.

- `OnHead`, `HeadFails` are the two branches of the handler in `read_head`, with the next read and
  the timer that `read_head` renews; `OnBody`, `BodyFails` those of `read_body`. The body's handler
  starts the next read before it routes, so it is `OnBody` and then `Route`, with `handling` set and
  no other handler of the thread in between (`IoThreadFree`). `Aborted` is a handler that finds
  `has_closed_` set.
- `armed` is a wait of `timer_`; `Expire` queues its handler (`due`), which no `cancel()` takes back;
  `OnTimeout` closes.
- `Response` is `response_interal` under its lock: append, and write if nothing else is queued.
  `wire` has the writes handed to asio; `Transmit` and `WriteFails` are the kernel, `OnWritten` and
  `OnWriteFailed` the handler. `header` is the one `header_` that a write in flight points to.
- `StartPublish` and `Publish` are the two halves of `publish()` for this connection: it tests
  `has_closed()`, and answers then. Close may come between.
- `SendHead`, `SendBody`, `HangUp` are the peer: every frame of `Frame`, in two parts, cut off
  anywhere.

`sent` is both what the peer has sent and the input still to be read (`taken`). The refinement maps
`requests` to the frames sent to the end (`Requests`), `received` to everything that has reached the
peer, publications among it (`Received`), and `answered` to the last call whose answer has
(`LastAnswered`). A step that delivers an answer is then a `Reply`, which takes the next call and no
other; one that delivers a publication is a `Push`.

### RpcServer

`Accept` and `List` are the two halves of the handler of `async_accept`: the connection is started,
on the context that comes next, and then entered. `Close(c)` and `Subscribe(c, p)` run on the context
of the connection. The threads `clean` and `clean_sub_pub` go round `TestFlag` (outside the lock),
`Wait` (under it) and `Clean` or `CleanSubPub`; their `wait_for` may return at any time, and a
notification is lost on a thread that is not waiting (`Notify`). `Signal` is the handler of SIGINT, SIGTERM or SIGQUIT,
which runs `stop()`: `Notify`, `Join` for one thread after the other, `StopReturns` when the contexts
have been stopped. `RunReturns` is the join of the pool and `Terminate` the first destructor of
main, that of the joinable `render_thread`. The acceptor, the signals and the connections share the
contexts in turn (`After`), so a `stop()` that waits keeps every connection of its context waiting.

A topic is a key together with its token, as `sub_map_` has them; whether the text of a token occurs
in the text of a topic (`find` in `clean_sub_pub`) is the relation `Within`. `departed` is a history
variable.

### RpcClient

- A call with a future is `Register` (`future_map_`), `Send` (`write`: append, and begin a write if
  the outbox was empty) and perhaps `GiveUp` (the time limit of `call`). One with a callback is first
  `Check` (`has_connected_`, or the callback at once with an error). A subscription is `Send` and then
  `Enter` (`key_token_set_`), in that order.
- `pending` is what asio has under way and `ready` the queue of completion handlers with their
  results, which the one io thread takes in order. `OnConnected` and `OnConnectFailed`, `OnHead` and
  `OnHeadFailed`, `OnBody`, `OnWritten` and `OnWriteFailed` are those handlers. Two go on for longer,
  as the owner's thread may come between: `OnBody` then is within `call_back()` (`CallBack`), and
  `OnConnected` within `resend_subscribe()` (`ResendSubscribe`).
- `ErrorCallback` is `error_callback` and, after `enable_auto_reconnect()`, `async_reconnect`: the
  socket is closed again and a connect begins. `Aborted` queues the handlers of what a closed socket
  had under way; `Started` and `Refused` begin an operation on an open or a closed socket.
- The owner's `close()` takes three steps that the io thread can come between: `CloseSocket`,
  `ClearOutbox`, `ClearMaps`.
- `Sent`, `HeadArrives`, `BodyArrives`, `LinkFails`, `OperationFails` are the network and the server:
  calls are answered once, in the order they arrive. When the server goes, `link` is `"lost"`: the
  operations under way fail one after the other, in any order, but a write may still succeed for all
  the client can tell (`Swallowed`), as the kernel takes what nobody will read. It is `"down"` when
  the client has closed its socket. `Publish` puts a publication among the answers, as
  long as the same one is not already waiting. `CallBack` takes both: `callback_sub()` changes nothing
  here.

- `OnConnectFailed` begins again after `enable_auto_reconnect()`, and may after `set_reconnect_count()`:
  how often is left open.

Names of calls stand for request ids: each is called once. `orphans`, `connects`, `failures`,
`write_failed`, `swallowed` and `user_closed` are history variables or bounds.

`connect()` tests `has_connected_` and nothing else, and no user can see whether the io thread is idle.
So `Connect` may come at any time while `connected` is false: while handlers of the connection before
are queued, while one is running, while a connect is under way, and again after one has failed. A
socket that has a connection refuses a second one; any other begins. `hasty` remembers that a
`connect()` came while something was left (`HandlersLeft`): a handler that was queued for the old
connection then finds the new socket open, takes it for its own, and begins a read beside that of the
new connection, or runs the callbacks of calls that were registered meanwhile. What is claimed of such
a client is its types, and that its outbox moves.

`pending` is a set, and loses nothing by it: when an operation begins while another of its kind is
under way, on the same stream and into the same `head_`, `body_` or `header_`, `crossed_reads` or
`crossed_writes` records it (`BeingUsed`) and the model stops (`Stopped`), as the code then reads or
writes a stream that two operations have mixed.

### WindowTree, DigitGroup

A Window is an address, alive or not, that can be used again. Every operation is one step, as
nothing here is concurrent. `undefined` is set where a pointer to a destroyed window is followed, or
`led()` descends into a circle, and the model stops there. `readded`, `misremoved` and `outlived`
remember three uses that part a child from its parent; no action reads them. `DigitGroup` has ints of
a chosen width (`Least`), whose negation wraps around and whose division truncates. `MCWindowTree`
explores the two side by side; they share nothing.

## The runs

| run | instance | checks | states |
|---|---|---|---|
| `geometry` | 3x2 strip, 2 io threads, 2 rotations, one text that overhangs, pixels on and off the panel | `TypeOK`, `GeometryAgrees`, `StrayOnlyByMisuse`, `Support` | 1.08 million |
| `single` | 3x2, 1 io thread, all 16 rotations, 2 texts, 6 offsets, 4 pixels, 2 colours | `StrayOnlyIfMisplaced`, `PaintStaysInside`, `ClearPaintsAll`, `DrawShowsImage` | 2.46 million |
| `auto_render` | 2x1, 2 io threads that paint and render, and the render thread, fair | `AutoRenderShows`, `FrameFaithful` | 850 000 |
| `returns` | 2x1, 2 io threads, rotations, fair | `HandlersReturn` | 452 000 |
| `readme_world` | 2x4, the client of README.md, fair | `WorldShown` | 423 |
| `readme_hello` | the same | `HelloDrawn`, **violated** | - |
| `paint_device` | 3x2, both layouts, 16 rotations, 2 sources, 3 offsets, 4 mirrorings | `TypeOK`, `LoopsPaint`, `KeepsPromise` | 8192 |
| `connection` | 2 frames of any kind and id, 2 publications, fair | `TypeOK`, `AnswersMatch`, `NeverStalls`, `Watched`, `KeepsPromise`, `AnsweredOrClosed`, `SilentDropped` | 117 000 |
| `server` | 2 connections, 2 contexts, 3 topics, 2 tokens, fair | `TypeOK`, `OpenListed`, `TokensSubscribed`, `TokensKept`, `ClosedForgotten`, `SignalEnds` | 159 000 |
| `client` | a call with a future, one with a callback, a subscription, any two of them; 2 connects, 2 failures, publications, fair | `TypeOK`, `OutboxMoves`, `OneAtATime`, `AssertsHold`, `CalledOnce`, `CallsAnswered`, `Recovers`, `SubscriptionsRestored` | 1.40 million |
| `client_assert` | the same, all three | `NoAssertFails`, **violated** | - |
| `windows` | 3 windows, and every int of 11 bits | `TreeAgrees`, `UndefinedOnlyByMisuse`, `NumberShown` | 186 000 |

What they show:

- `geometry`: whatever two clients interleave, an access goes wrong only in a handler that a
  `set_rotate` of another thread overlapped, on a geometry that two overlapping `set_rotate`s
  left mixed, or with coordinates that do not suit the strip. Each of these does occur in this
  instance: a thread writes beyond the array, a thread calls a destroyed helper, an object is released
  twice, a mixed geometry outlives both calls, and a pixel chosen before a rotation that is long over
  lies outside.
- `single`: with a single io thread only the last of these is left. Where the coordinates suit the
  strip, clear and draw do exactly what they should, including the cells beyond the lower and the right
  edge; a negative offset, an aged pixel and one beyond int are among the inputs.
- `auto_render`: a render that nobody disturbed displays the array; once painting ceases with
  `auto_render` on, `shown` becomes and stays equal to `leds`, although an explicit render that
  started earlier may send an older frame in between.
- `returns`: a handler ends although others change its loop bounds on every turn. A counter that
  has passed its bound ends the loop, whatever the bound is then.
- `readme_world`, `readme_hello`, `client_assert`: see [observations](#observations).
- `paint_device`: the sequential loops implement `Canvas`.
- `connection`: the connection implements `RpcChannel` although `req_id_`, `head_` and `header_` are
  reused and another thread writes too; a call is answered or the connection closes; and a silent
  peer is dropped, but for the one that hung up within a body.
- `server`: nothing open is missing from `connections_`, nothing closed stays; and a signal ends the program wherever the cleaning threads are.
- `client`: as long as no write fails, messages move, callbacks run once, and a client that reconnects
  knows its subscriptions again. There is one read at a time, through failures, closes and reconnects;
  on a connected client one write, unless the owner has closed or the kernel swallowed a write of a
  lost connection. An assert fails only where the call was forgotten too early, or a publication was cut
  off. None of this but the moving of messages is claimed once the owner has called `connect()` while
  handlers of the old connection were left; the run has such behaviours, and in them two reads cross,
  callbacks run twice, and two reconnects close each other's socket for ever.
- `windows`: parents and children agree but after three misuses, and labels show the decimal digits.

Bounds. A 3 by 2 panel has rows of both directions, differs from its turned self, has an odd width
and an even one (turned), and has room for a text that overhangs either edge. Two io threads give
every pair of handlers; three would add only that two handlers overlap a third at once, and the
theorems hold for any number. The pixels of `MCPixels` lie on the panel in both orientations, in
one, in the other, and in none; the offsets reach before both edges and up to the largest int
(`MaxInt` is 4 or 6: beyond the sides of the panel, and small enough that a sum overflows). Two colours tell the background from what is drawn; `geometry` and
`returns` need no colours, as no bound and no index depends on one. Clients may call for ever: no
run of the strip bounds the number of calls. The client of README.md runs on a strip an eighth of
the real one in each direction, with one cell for a text.

Two frames (`MaxSent`) let the second overtake the answer of the first in every way, with equal and
with different ids; two publications (`MaxPublished`) let the queue hold an answer between two of
them. Two connections on two contexts: the first shares its context with the acceptor, the second with
the signals. Three topics under one key give a token that is part of another, and none. Two connects and two failures (`MaxConnects`, `MaxFailures`) give a loss, a
reconnect and a loss within that; `MaxActive` admits any two of the three callers to one behaviour,
which leaves every pair of kinds. Three windows make a parent, a child and a stranger, or a circle
of any length up to three.

Symmetry of the io threads is used in `geometry`, that of the windows in `windows`; neither checks
liveness. `CHECK_DEADLOCK FALSE` is said where the system may really stop: a closed connection
(`connection`), a terminated program (`server`), a client whose bounds are spent or whose process
an assert ended (`client`, `client_assert`), and undefined behaviour (`windows`).

Fairness. In `StripService`, every thread that is inside a handler goes on (`WF` of `Proceed(t)`),
and the loop of the render thread comes round (`WF` of `AutoRender`): the operating system schedules
every thread, no handler waits for anything, and `sleep_for(10 ms)` ends. In the RPC modules the io
threads take what is queued, and the kernel sends, delivers or reports a failure; in `RpcServer` the
cleaning threads run, and `wait_for` returns after its period. Nothing is assumed of peers, clients,
owners and signals: none has to call, to hang up, or to come. That time passes (`Expire`) is assumed
in `SilentDropped` alone. In `ReadmeClient` the client program executes its next line.

## The proofs

`tlapm` checks every theorem below, for every value of the constants: every size of the panel, any
set of io threads, any handlers in use, any texts, sources, offsets and rotations; any request ids and
any number of frames; any connections, contexts, topics and tokens; any calls and subscriptions; any
windows; ints of any width. Every invariant and every action property that a run checks is proved.
The assumptions only sort the constants: `PanelAssumption` (the sides are positive),
`ServiceAssumption` (the render thread is not an io thread, coordinates are ints, and the sides of
the panel are among them), `DeviceAssumption` (a source has a colour
for each of its cells; offsets are natural numbers), `ConnectionAssumption`, `ServerAssumption` (the
text of a token is part of the text of its topic), `ClientAssumption` (a name is a call or a
subscription, and subscriptions are finitely many), `TreeAssumption` and `LeastAssumption` (the least
int is negative).

| theorem | statement |
|---|---|
| `SnakeLedInside`, `SnakeLedInjective`, `SnakeLedOnto` | under every rotation the logical coordinates and the LEDs correspond one to one |
| `VectorLedInside`, `VectorLedInjective`, `VectorLedOnto` | the same for the row by row layout |
| `TypeCorrect` | `StripService`: `Spec => []TypeOK` |
| `Safety` | `Spec => [](TypeOK /\ SafetyInv)` |
| `GeometryAgreement`, `StraysOnlyByMisuse` | the two parts of it that matter by themselves |
| `PaintInside` | `Spec => PaintStaysInside` |
| `OneIoThread` | one io thread: `Spec => []StrayOnlyIfMisplaced` |
| `Unrotated` | no `set_rotate` in use: `Spec => []StrayOnlyIfMisplaced` |
| `SuitedNeverStrays` | one io thread, and coordinates that lie on the strip in every orientation: `Spec => []Running` |
| `Pictures` | the inductive invariant of the painting handlers (`PaintInv`) |
| `ClearReachesAll`, `DrawShows`, `FramesFaithful` | `Spec => ClearPaintsAll`, `DrawShowsImage`, `FrameFaithful` |
| `DeviceTypes`, `LoopsAlwaysPaint` | `PaintDevice`: `Spec => []TypeOK`, `Spec => []LoopsPaint` |
| `ImplementsCanvas` | `PaintDevice` implements `Canvas`: `Spec => KeepsPromise` |
| `NumberAlwaysShown` | `DigitGroup`: `LabelSpec => []NumberShown` |
| `ConnectionSafety`, `ConnectionTypes` | `RpcConnection`: the inductive invariant, and `TypeOK` |
| `AnswersOwn` | every answer carries the id of its call: `Spec => []AnswersMatch` |
| `OneWrite` | never two writes, always one while an answer waits: `Spec => []NeverStalls` |
| `EveryoneWatched` | the timer runs, but for a peer gone within a body: `Spec => []Watched` |
| `ConnectionOrder` | the answers continue each other in the order of the calls (`RInv`) |
| `KeepsItsPromise` | `RpcConnection` implements `RpcChannel`: `Spec => KeepsPromise` |
| `ServerTypes`, `OpenAreListed`, `TokensHaveSubscribers`, `TokensStay` | `RpcServer`: `TypeOK`, `OpenListed`, `TokensSubscribed`, `TokensKept` |
| `ClientTypes`, `OutboxAlwaysMoves` | `RpcClient`: `TypeOK`, `OutboxMoves` |
| `ReadsOrderly`, `CallbacksRunOnce` | the invariant of reads and callbacks, and `Spec => []CalledOnce` |
| `ClientOperations`, `OperationsOneAtATime` | the invariant of reads and writes, and `Spec => []OneAtATime` |
| `ClientAnswers`, `AssertsHoldAlways` | the invariant of calls and answers, and `Spec => []AssertsHold` |
| `WindowSafety`, `Agreement`, `Misuse` | `WindowTree`: the invariant, `TreeAgrees`, `UndefinedOnlyByMisuse` |

The geometry. A LED is `y * W + k` with `k` in a row; `RowBase` and `RowInside` are the nonlinear
facts (`y * W + k` determines `y` and `k`, and lies in the array) and everything else is linear
arithmetic over the sixteen cases. That every LED has a coordinate needs a division: `RowCover` takes
the least row that begins beyond the LED, and the one before it holds it.

The threads over the strip. `StrayOnlyByMisuse` and `GeometryAgrees` are not inductive. That a
thread strays only when torn or misplaced needs to know that the cursor of an untorn thread whose
coordinates suit the strip is inside the panel at each place between the check and the access, and that the helper it holds is the one in place
(`CursorInside`). That the cursor stays inside while the thread is untorn needs that nobody else
changes the geometry, hence that whoever is busy while another thread rotates is torn
(`RotatorsMeet`). When a rotation starts or ends, the sizes must agree with the helper
(`GeometryAgrees`), which needs where an undisturbed rotation stands between its stores
(`RotationStaged`), and that it will release an object that is its own. `Support` is the three
helpers and `SafetyInv` all five; `geometry` checks them as invariants, and `SafetyNext` proves
`SafetyInv` inductive with one step per action. `ContinueSafe`, `ReturnSafe`, `StartSafe` and `NotedSafe` carry the argument for the steps
that leave the geometry alone, so each such action only has to show where it leaves its cursor.

`PaintInside` follows from the invariant and `SnakeLedInside`. The two theorems on
`StrayOnlyIfMisplaced` each have a small invariant of their own, that nobody is torn or that nobody
rotates, on top of `Safety`. `SuitedNeverStrays` adds that coordinates that suit every orientation
(`Suited`, `Fits`) suit the strip as it is by then.

The pictures. What a handler leaves when it returns is not inductive; what it has painted so far is.
`Painted` says of a clear or draw that met no other painting: each cell its loops have passed shows,
and the colour it holds is that of the cell it is at. `Framed` says the same of what a render has
read. Both need that two busy threads know of each other (`OverlapKnown`): whoever writes a LED while
a loop is under way is then in its `met`, and the claim about that loop is void. A loop that writes
itself leaves the cells it passed alone, as coordinates do not share LEDs (`SnakeLedInjective`); that
clear reaches each of them is `SnakeLedOnto`.

The loops of a device. `Cleared`, `Drawn` and `Flipped` are folds, and a fold is a function that is
chosen by an equation, so a fact about it is worth nothing before such a function is known to exist.
`TurnsExist` builds it, turn by turn; `ClearedLoop`, `DrawnLoop` and `FlippedLoop` then unroll the
fold into the arrays `it[0]`, ..., `it[n]` it goes through. What the loops meet is `Met`, which
`RowMajorIs` shows to be every pair, each once. By induction on the turn (`TurnInduction`): clear has
left the background wherever it has been; draw has left at a coordinate the cell of the source that
lands there, if it has been met and is not see-through; and flip has exchanged a coordinate with its
partner where it met one of the two, and not the other. Of two partner columns the first half of the
width holds exactly one, and it does not hold the middle column (`HalfIs`), which is the exception
that `Canvas` makes.
`Places` and `SeenIs` lead from the array to the picture; with `LoopsPaint` proved wherever the types
are right, each action is a step of `Canvas`.

The digits. `Power10` and `Width` are recursive functions. `Power10Is` builds the first from its
finite parts; the second is known to exist since the least power of ten beyond a number (`Needed`)
satisfies its equation. `Label` says that the label holds the absolute value and as many columns as it
needs, and division by a power of ten does the rest.

A connection. `AnswersMatch` speaks of what was delivered; the ids come from `req_id_` and `header_`. So
the invariant says that every message queued, in flight or delivered matches its call, that
`header_` is that of the pending write and the queue's head is what is in flight (`Queued`), and
that `req_id_` still is the id of the frame being read or routed (`Staged`): the next head cannot
come between, as the io thread is busy. `Timed` is the strengthening of `Watched`: an open connection
that reads has a wait or its handler.

Its refinement. A `Reply` answers the first call after the last answered one, so the proof must know
that no call between them was left out, and none is answered twice: while both ends are there, the
messages waiting in the queue come after what was delivered (`Later`) in the order of their calls
(`Ascending`), and every call routed so far is among the two (`Covered`). The head of the queue is
what is being written (`HeadWritten`), and stays there until `on_write()` has run, which is why
`Waiting` leaves it out once its write is done. `Progress` keeps the calls in bounds, and ties the
publications to a subscription.

Server. Its four state properties are inductive together. `TokensKept` survives `CleanSubPub` because
each erased token is part of a topic that has just departed.

Windows. `TreeAgrees` speaks of windows that are alive. A destroyed one may be made again at the same
address, so the invariant adds that a window that is not alive has no pointers (`DeadAreLoose`).

Client. `OutboxMoves` holds although the queue of handlers may hold a write of a connection that is
gone: while no write has failed a write is outstanding, and its handler begins the next. `Headed`
says the pending write has a message. `CalledOnce` needs that there is a single read (`SingleRead`):
two would each find the callbacks. That needs that a read in flight belongs to the connection in place
(`ReadsAttached`), which a failed write breaks; and a callback still in the map, or about to enter it,
must not have run (`CallbacksFresh`). A failed write, or a `connect()` while handlers are left
(`hasty`), ends all that, and is a disjunct of the invariant (`Orderly`); while `hasty` is false a
connect begins with nothing queued, which is what the steps of the owner use.

That there is a single read even after a failed write (`OneAtATime`) needs more: how the socket, the
connect under way, the handlers queued and the link go together (`Linked`). The point is that a
reconnect starts only when every read has ended or failed, and that a failed handler is never
followed in the queue by a read that succeeded. That there is one write (`WritesHeld`) needs that a
handler of a write that went well finds its message still at the head of the outbox; after a write that
was swallowed, or a `clear_cache()`, it may not.

`AssertsHold` says that an answer which finds no call was forgotten (`orphans`). So every call that
can still be answered, or will be, is in a map, or among the orphans. The invariant (`Answers`)
follows a message from the outbox to the server and back: a call is in the outbox once (`Distinct`),
one that is still behind another there has not been seen by the server (`InTurn`), one that is to be
answered and still in the outbox has its successful write in the queue of handlers, ahead of its
answer, and one that is being answered will not be answered again. Each step moves a call from one
of these places to the next. Like the two invariants before it, it is proved up to `hasty`, which no
step resets.

Only model-checked: liveness. Fairness and `ENABLED` are out of the prover's reach, so
`HandlersReturn`, `AutoRenderShows`, `WorldShown`, `AnsweredOrClosed`, `SilentDropped`,
`ClosedForgotten`, `SignalEnds`, `CallsAnswered`, `Recovers` and `SubscriptionsRestored` are claims
about the instances of the runs. The library's theorems for induction and for recursive functions
take operators as parameters, which the provers here do not instantiate; the proofs use instead
that every set of natural numbers has a least element (`LeastNat`), and build the functions by hand.

## What is not modelled

- The return codes and the set-up of the ws2811 library: the program logs or ignores them.
- The font tables: data, and so is the index of a char in them.
- `WS2811StripFakeDeviceDebug`: a Window that prints itself.
- Copies of a `Pixmap`, which nothing makes; the positions and the LEDs of windows, and children that
  are no `Window`: none of them changes a pointer.
- Of rest_rpc: SSL; `async_run`, a failed bind; answers that a handler delays (`pack_and_response`);
  in the client, the heartbeat, the timers of callbacks (they change the
  error code a callback is given, nothing else), waiting in `connect()`, the Java interface. main()
  and the client of README.md use none of them.
- Branches of the client that no answer of the modelled server takes: a head whose `body_len` is 0 or
  too large (`rpc_client.hpp` 505-510: close and `error_callback`; one that is exactly `MAX_BUF_LEN`
  ends the reads without a word), and a body of an unknown type (547-552: the same two calls).
- Steps of the client that are coarser than the code. `close()` marks, shuts down and closes the
  socket in one step (191-193): in between, the io thread could run the handler of a read that the
  shutdown ended, which finds the socket open and runs the callbacks, while the maps keep them until
  the owner clears them; with `enable_auto_reconnect()` it also opens the socket that the owner is
  about to close. A callback then runs a second time if that connection too comes up and fails, all
  before the owner's next step: `CalledOnce` is claimed for the one-step `close()` only. A failed
  read runs the callbacks, closes and clears outbox and maps in one step (514-521): a call could be
  registered, or a message queued, between these, and be forgotten or left behind.
- How many times `set_reconnect_count()` lets a client try again (111, 389-397).
- The codec, the hash of names, asio, msgpack, string_view, any: libraries. They are nearly all of
  the tree by size, so the share of its lines that a model of this program can stand for is small.
- Version information, the one test, which checks that it is not empty, CMake files, and
  `src/inc/scope_guard.hpp`, which nothing includes.

## Observations

- **The first text of the README's client is never drawn** (finding, run `readme_hello`). It calls
  `height` (32), then `set_rotate(270)`, then `draw_text(0, height / 2, "Hello", ...)`. After the
  turn the strip is 16 high, so `y = 16` is below the last row, and `draw()` skips every row.
- `set_rotate` while another client paints can write outside the LED array, through a destroyed
  object, or release an object twice; two `set_rotate` calls at once can leave the size of one with
  the helper of the other until the next one. One io thread, or a lock in `index`, the sizes and
  `set_rotate`, would exclude it (`OneIoThread`).
- Coordinates are not checked. A pixel that a client chose before another client turned the strip
  indexes outside the array, with one io thread too; so do negative offsets of a text, or they paint
  the end of a neighbouring row of the snake (`StrayOnlyIfMisplaced`). Only coordinates that suit every
  orientation are safe (`SuitedNeverStrays`).
- `draw_number` ignores its background argument: the model does as well.
- `flip(false, true)` changes nothing, as each pair is exchanged twice, and `flip(true, true)`
  leaves the middle column of an odd width unturned. `Canvas` states what the code does. No
  handler calls `flip`.
- The render thread is never joined: when a signal ends `server.run()`, the destructor of the
  joinable thread terminates the program before `~WS2811Strip`.
- **A body that is cut off fails an assert** (finding, run `client_assert`). `read_body` hands the error
  to `call_back()` whatever it was reading. A publication has the request id 0, for which there never is
  a promise; and the owner's `close()` may have emptied the maps while the body of an answer was read.
  `assert(f)` or `assert(cl)` fails; in a build with `NDEBUG` the next line goes through the null pointer.
  An answer to a call that was registered, or still in the outbox, when the maps were cleared finds
  nothing either. `AssertsHold` says that there is no other way.
- A connection of the server whose peer hangs up within a body stays open for ever, without a read and
  without a timer: the handler reports the error and does not close (`Watched`, `SilentDropped`).
- Tokens of live subscribers are erased with a subscriber that goes, if their text occurs in its topic
  (`TokensKept`); the subscribers themselves stay.
- In the client, a write that the kernel took although the server was gone ends well after the
  connection was given up. Its handler, `on_write`, begins the next write of the outbox; if a reconnect
  has come first and begun one as well, two writes share `header_` (`OneAtATime` excepts `swallowed`).
- In the client, a failed write resets `has_connected_` before it calls `close()`, which then returns at
  once: the message stays at the head of the outbox, later messages wait behind it for ever, callbacks
  may run twice, and after a reconnect the read of the old connection may fail on the new socket and
  reconnect again. `OutboxMoves`, `CalledOnce`, `Recovers` except that case. A call or a subscription
  before the first connect is a failed write as well.
- `close()` and then `connect()` is not enough to start afresh: handlers of the old connection that are
  still queued find the new socket open. One begins a second read into `head_`; another runs the
  callback of a call that was registered in between, which is then sent, answered, and its callback
  runs again, without any failed write (`OneAtATime`, `CalledOnce` and `AssertsHold` except `hasty`).
- A subscription whose connection is lost between `send` and `key_token_set_.emplace` is not renewed.
- A Window added to its own parent again is erased from it until it is moved; a parent destroyed first
  leaves its children pointing at it; windows inside each other recurse without end.
- The least int has no digits to show: its negation is itself.

## Plan

Done: every module above, each with its run, and a proof of every safety property that a run checks.
What would add most:

1. The composition of `RpcServer` with several `RpcConnection`s: one publisher that goes through
   `sub_map_` while connections subscribe, close and are cleaned away.
2. `RpcClient` against `RpcChannel` itself in place of its own `server`: the answers it assumes are
   those of the abstract channel, which `RpcConnection` implements.
