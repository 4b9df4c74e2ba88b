# Verification of vcv-osc

vcv-osc is a VCV Rack module that lets OSC clients set parameters, patch
cables, add and remove modules and follow a patch. This directory models it in
TLA+, checks the models with TLC on small instances, and proves the central
results for every instance with TLAPS. Line numbers refer to the sources under
`src/`; the plugin's own code is `src/OscController.cpp` and `src/osc/`.

## 1. The system

| Component | State it keeps | Operations | Hard behaviour | What makes it correct |
|---|---|---|---|---|
| **Receive path**: `OscServer`, `UdpSocket`, `CommandQueue`, `processPending`, `restartServer` | `running_`, `thread_`, `fd_`, the queue, `configDirty`, `serverOk`, `listenPort` | `start`, `stop`, `run`, `open`, `close`, `recv`, `push`, `drain`, restart, destructor | Two threads; `fd_` shared without a lock; a blocked `recvfrom()`; failed binds; packets that fail half-way | Restarts never overlap; accepted datagrams are applied whole, in order, once; `stop()` returns; the status is true |
| **Patch edits**: `applyCable*`, `applyModule*` | Rack's patch and its undo history | add and remove cables and modules | Several undo entries for one request; the user edits the same patch; the module may be asked to remove itself | The patch stays well-formed, every undo and redo can be applied, undoing all restores the start |
| **Structural watch and dump**: `applyStructWatch`, `pollStructure`, `diffIds`, `applyStateDump` | `structWatch`, `lastModuleIds`, `lastCableIds` | subscribe, dump, report differences at the end of a frame | Replies and events mixed, edits nobody acknowledges, resubscription | A client that follows has the patch |
| **Parameters**: `applyParam*`, `tryParamAddress`, `pollWatches`, presets | `watches` with `last`, `notifyOnSet` | set, get, watch, unwatch, load a preset, poll | The engine thread writes parameters at any moment; modules go and come back | Values in range; a subscriber knows the value |
| **OSCQuery**: `HttpServer`, `rebuildOscQuery`, `handleOscQuery` | `running_`, `listenFd_`, `thread_`, `handler_`, the cached document, `oscQueryTick`, `httpOk` | `start`, `stop`, accept loop, rebuild, answer | Two threads and slow clients; `listenFd_` shared without a lock; a document older than the patch | Handler and thread are not replaced while a thread is left; `stop()` returns; answers are recent; HOST_INFO names the endpoint; a path leads to its parameter or nowhere |
| **Codec**: `OscMessage` | cursors of a recursive descent | parse, serialize | sizes, paddings and nesting come from the datagram | reads inside the datagram, returns, bounded recursion; what is sent reads back; what is accepted is an encoding |
| **Symbolic addressing**: `resolve*`, `tryParamAddress` | none | names, numbers and paths to ids | kept names while the patch changes: ambiguity, indices, substrings | a kept name means its module or is an error (it does not when a newcomer answers to it) |
| **Reply path**: `OscSender` | a lazily opened socket, host and port | send | errors ignored | - |
| **Configuration**: menu, `dataToJson`, `dataFromJson` | ports and switches | change and restart | changes in the middle of a frame (a preset loaded on the module itself) | one restart picks all of them up |
| **Windows socket counts** | `g_httpWsa` and its twin in `UdpSocket` | acquire, release | a failed start releases twice | Winsock stays loaded while a server listens (it does not, by this count) |
| Registry dump, panel, LEDs, registration, Python client, tests, demo | - | - | - | - |

How they interact. The network thread parses datagrams and pushes messages on
the queue. Rack draws a frame and calls `OscControllerWidget::step` on its UI
thread, which restarts the servers if a setting changed, drains the queue,
dispatches each message to a handler, polls the watches and the structure, and
now and then rebuilds the OSCQuery document. The HTTP thread answers requests
from that document and from `listenPort`. Handlers, the user's edits, undo and
redo all run on the UI thread; the engine thread runs every module's
`process()` beside it. `PROJECT.json` lists the hazards, each at its line.

## 2. Modules

| Module | What it models |
|---|---|
| `CommandStream` | Abstract specification of the receive path: lanes of datagrams, a pipe of accepted messages, the list of applied ones |
| `OscServer` | The receive path in detail; refines `CommandStream` |
| `OscServerProofs` | Its proofs |
| `PatchEdit` | Cable and module handlers, the undo history, the user |
| `PatchEditProofs` | Its proofs |
| `StructWatch` | Extends `PatchEdit` with the structural watch, the dump and a client that follows; implements `PatchEdit` |
| `StructWatchProofs` | Its proofs, on top of those of `PatchEdit` |
| `ParamAccess` | Parameter handlers, watches, presets, user and engine thread |
| `ParamAccessProofs` | Its proofs |
| `HttpServer` | HTTP thread, restart, cached document, clients, Winsock's count |
| `HttpServerProofs` | Its proofs |
| `OscCodec` | `parsePacket` and `parse`, field by field, and `serialize` |
| `OscCodecProofs` | Its proofs: bounds, recursion, progress |
| `OscEncodingProofs` | Its proofs: `parse` and `serialize` agree |
| `Addressing` | References by name, number and path, and the patch changing under them |
| `AddressingProofs` | Its proofs |
| `MC...` | The instances TLC checks |

**OscServer.** One action is one access to state another thread can see, so a
handler of the code is a chain of actions through `ui` or `net`:
`stop()` is `UiStop` (clear `running_`), `UiClose` (release the descriptor),
`UiForget` (`fd_ = -1`) and `UiJoin`; `recv()` is `NetLoad` (read `fd_`),
`NetEnterRecv` (the kernel looks the number up) and one of `NetReceive`,
`NetReceiveForeign`, `NetTimeout`. Descriptors are numbers in a process-wide
`table`; `Strangers` are Rack's other threads, which may be handed a number as
soon as it is free, always the lowest one. A socket lives as long as a
descriptor names it or a `recvfrom()` holds it, as on Linux. `fd_` is a plain
`int` written by one thread and read by another: a load gives the old value or
-1, and a second load for the call only turns the former into the latter, which
ends as `EBADF` does. What `recvfrom()` yields on a foreign descriptor is parsed
and pushed like anything else: any packet, or bytes that are none
(`NetReceiveForeign`); nothing bounds that wait, since `setRecvTimeout` was not
called on it. In `CommandStream` that is the receiver going `stray` and what it
takes an `Intrude`. A packet is a model value with the list of messages
`parsePacket` appends, and `Malformed` those for which it then returns false.
`setRecvTimeout` is taken to succeed. `serverOk` is set with the outcome of
`open()`; nobody but the UI thread reads it.

**PatchEdit.** A request is one action, as handlers run to the end on the UI
thread. Guards that fail answer `/error` and change nothing, so only successful
handlers appear. An undo entry is a set of modules and cables added or removed;
`history` and `done` are Rack's list and position. `On` and `Orders` are the
loop of `applyModuleRemove` over `getCableIds()`, whose order is Rack's. Ids are
never reused. The controller has no ports (`OscController.cpp:44-47`), so no
cable touches it. `Wire` is the conversion of an id to an OSC integer. `Freed` is the state after the controller has deleted itself:
what follows is undefined, and the model stops there.

**StructWatch.** Each edit is paired with what the client does on its reply. A
`/module/remove` sends no reply for the cables it strips, so a client drops the
cables of a module it hears removed. Ids in the client's picture are what a
message carries, `(int32_t) id` (`Wires`, `Sent`, `Images`): a removal it hears
takes away everything it knows under that number. Since `diffIds` walks both
lists by Rack's ids, of an id that goes and one that comes and reads the same,
the greater one is told last (`Outlives`). A client follows (`follow`) when it
dumped after it subscribed, or before it in the same frame; `dumped` remembers
the dump until the frame ends. Messages to the client are taken to arrive in
order: replies go over the loopback from one socket.

**ParamAccess.** `heard` is the last value sent for a parameter, `last` is
`Watch.last`, `asked` the watched parameters the client was told of by anything
but the watch since the watch last spoke. Handlers read a parameter once or
twice; `Reread` is what the second read may find for a parameter its module
writes (`Driven`). Ids are taken as they are here: a client that watches two
modules whose truncated ids read the same cannot tell them apart. A removed module keeps its values for an undo, as Rack's
history serialises them.

**HttpServer.** As in `OscServer`, `stop()` is four steps. A change of the
configuration is two, the write of a setting (`Reconfigure`) and
`requestRestart()` (`UiRequest`), and a restart begins with the clearing of
`configDirty` (`UiRestart`), the closing of the old OSC socket (`UiUnbind`) and the
new bind (`UiBind`), the HTTP thread answering all the while. `age` counts the
frames since the document was built. `listenFd` is `"open"`, `"closed"` (a
number that is no longer a socket) or `"none"` (-1). The answer itself is
abstracted to which source it comes from. `wsa.count` is `g_httpWsa`, shared by
all the controllers of a patch (`OtherStart`, `OtherStop`), and `wsa.refs` what
Windows counts: calls of `WSAStartup` less calls of `WSACleanup`. `start()`
releases what it acquired when it fails but leaves `handler_` set, so the next
`stop()` releases again (`HttpServer.cpp:43,58,66,93`).

**OscCodec.** The recursion of `parsePacket` is a machine with an explicit stack
(`calls`), one field of the datagram a step; `start`, `end` and `pos` are the
`data`, `len` and `pos` of the running call as offsets into the datagram, and
`reach` records the furthest byte that any access looked at. Tags, separators
and the number of byte values are constants, and 32-bit sizes wrap at four
bytes. `Missing` collects every `return false`. `Encoding` is `serialize`, with
a choice of the padding bytes for `AcceptedIsEncoding`. `MessagesAssumption` says
what a message of the plugin is: its tags are `i`, `f` and `s`, distinct
characters and none of those `parse` skips; addresses and strings come from
`std::string`s that `appendPaddedString` writes up to their length and that hold
no NUL (they are literals, slugs and names, and what clients sent was read up to
its NUL); and every address the plugin sends starts with `/`, not with the `#`
of `#bundle`. Without the last, a message could be read as a bundle.

What the parser accepts beyond the format is in the model: up to three bytes
behind the last element of a bundle, and a bundle that ends inside its timetag
(`OscMessage.hpp:130`); bytes behind the last argument; a last padding short of
one byte (`:164`); a blob whose rounded size wraps to 0, which is skipped as
empty (`:108`); and an element or a message whose address is `#bundle` is a
bundle whatever was meant.

**Addressing.** `order` is the engine's list of modules, in its order; a module
that returns goes to its end. A reference is the record that `resolveModule`
splits `brand/name:index` into, so a name with a separator in it is not a
reference to itself, in the code and in the model. `Hits` is the set of
instances a reference may mean; the sorted vector of the code is there as the
number of hits below an id (`Below`), since `hits[index]` after `std::sort` is
the hit with `index` others before it. `IntSpan` is the number of values of an
`int`. `Tree` keeps of the OSCQuery
document its containers, their keys and each `FULL_PATH`; `Navigate` follows the
segments of a request, and `ParamAt` is what `tryParamAddress` makes of a path
sent as an OSC address. `Atoi` wraps as glibc's does.

Operators named as variants in the modules (`UiJoinDetaches`, `ClampAbove`, ...)
are not part of the specifications: each is a definition with a plausible bug,
and replacing the definition by it makes the property named with it in
`PROJECT.json` ("mutants") fail.

## 3. Runs

| Run | Question | Bounds and why they suffice |
|---|---|---|
| `OscReceive` | Do restarts stay clean, does the receive path implement the stream, whatever the interleaving, and do `stop()` and the hand-over make progress? | One packet of each kind (message, bundle, bundle that fails after its first message), each sent once; two ports; two sockets, so that an old one can survive while a new one opens; two descriptor numbers and one foreign thread, so that a foreign descriptor can sit on the old number while the server opens the other. Restarts are unbounded. 392,562 states |
| `OscFdReuse` | Does `recv()` only ever read its own socket? | One packet; violated |
| `PatchIds` | Do dumped ids resolve? | A four-bit OSC integer and an id of five bits in place of 32 and 64; violated |
| `PatchMirror` | Patch and history under mixed editing, and does a follower have the patch? | The controller and two modules, one of them added later; a self-loop from the start and a cable that may be added either way, so that a module is stripped of two cables in both orders; ids used up at most once, which bounds the history. OSC integers of four bits: ids 10, 18 and 27 reach the client as -6, 2 and -5. 1,476,410 states |
| `ParamWatch` | Ranges and exactness of the watch | One module that goes and comes back, two parameters, one of them driven; three values, so that a value can change twice without returning; requests below, at and above the range |
| `ParamRace` | The same for driven parameters, once they rest | Violated, by the two reads of a subscription |
| `HttpServe` | Handler, age of the document, descriptor, status, HOST_INFO, and does `stop()` return? | Two clients, one may stall; refresh every three frames in place of 30; OSC ports 7770 and 8000, so that old and new endpoint differ; one other controller (`MaxOthers`) and two failed starts (`MaxFailed`). 192,600 states |
| `Codec` | Is every datagram parsed inside its bounds, to an end, and faithfully? | Bytes of four bits; bodies of up to four words from ten kinds of field (addresses with and without room for a terminator, tag strings, sizes, a size that wraps), cut at every byte of the last word, alone, in a bundle and in a bundle of a bundle; fifteen messages alone and in pairs in a bundle, behind an element of any length. `Rank` is the measure that every step takes down |
| `Names` | What do kept names, indices and paths mean when modules come and go? | Four ids, two of one model; four models: a slug that is another's name, names that differ in case, a hidden model, a label within another and one used twice; ints of four bits |
| `NamesAmbiguous` | Does a dumped name stay an address once another module answers to it? | The instance of `Names`; violated |
| `HttpStall` | Does `stop()` return with a client that stops reading? | Violated |
| `HttpWinsock` | Is Winsock counted for every server that listens? | One client, one other controller, one failed start; violated |

Deadlock is checked in every run. The threads wait only in `join()`, in
`recvfrom()` or `select()` with their timeouts and in `send()`; a module that
was deleted rests (`Rest`, `Gone`, `Freed`).

What the violated runs show is under "findings" in `PROJECT.json`, each with
the line that says otherwise. More deviations are in the models and have no
run of their own; the properties are stated around them:

- `FD_SET` of -1: `stop()` may reset `listenFd_` between the loop's test of
  `running_` and its use (`HttpServer.cpp:133-141`); `SrvFdSet` has the outcome.
- HOST_INFO names a port that is not bound (`OscController.cpp:995`): after a
  failed bind, with a new port written and its restart not requested yet or
  waiting for its frame, and from the clearing of `configDirty` (`:116`) until the
  new socket is bound. These windows are the premises of `HostInfoNamesEndpoint`.
- `/module/remove` may name the controller itself: its widget and module are
  deleted while `applyModuleRemove`, `dispatch` and `processPending` are on the
  stack, and the handler replies through the deleted object
  (`OscController.cpp:752-756`). One request does it, so no run asks for it; the
  models stop in `freed`.
- `/state/watch 1` takes a silent snapshot (`OscController.cpp:457-466`). What
  changes between a dump of an earlier frame and the snapshot is never told,
  although the comment at `:455` has clients dump first; a second `/state/watch 1`
  likewise loses what changed since the last frame. The follower of `MirrorExact`
  dumps after it subscribes, or in the same frame.
- Ids beyond 31 bits reach the client truncated. As long as no two assigned ids
  read the same (`Distinct`), the client's picture is exact up to that renaming,
  which is what `MirrorExact` says; beyond it, one event may speak of two modules.
  That a truncated id cannot be sent back is `PatchIds`.
- A parameter watch compares with its own last value: a set or get that told the
  client something else, followed in the same frame by a silent change back,
  leaves the client with a stale value (`OscController.cpp:446`): `asked` in
  `WatchExact`.
- The parser accepts some malformed packets (`OscMessage.hpp:70,125` promise
  false): those listed under `OscCodec`.

Which of the properties that hold take a flaw into account:

- `StopReturns` and `PushedIsApplied` of `OscServer` say "unless the receive
  thread waits on another thread's descriptor" (`Astray`): the reuse that
  `OscFdReuse` shows may leave the UI thread in `join()`, and the messages of the
  queue with it, for as long as nothing arrives there.
- `StreamSpec` admits what such a receive yields (`Intrude`). Everything that came
  through the server's own sockets is still applied whole, in order and once.
- `StopReturnsOrStalls` excepts the client of `HttpStall`.
- `MirrorExact` has the premise `Distinct`, and `KeptNamesKeep` the premise that no
  newcomer answers to the name, which is where `NamesAmbiguous` begins.
- `WatchExact` leaves out parameters that a module drives, which are `ParamRace`.

The others do not depend on the flaws staying away: the models of their runs
contain them.

### Fairness

`FairSpec` of `OscServer` and of `HttpServer` has weak fairness of the UI
thread's steps (Rack draws a frame again and again) and of the network or HTTP
thread's (the scheduler runs it; `recvfrom()` returns within 200 ms because of
`setRecvTimeout`, `select()` within 200 ms, `recv()` of an accepted connection
within 1 s). A step of `send()` is only enabled while the client reads. Nothing is
assumed of users, clients or other threads: a receive on a foreign descriptor may
wait for ever. `StopReturns` of `OscServer` needs the receive timeout: a socket
closed under a blocked `recvfrom()` does not wake it. `PushedIsApplied` needs
`stop()` to return, and so shares its exception.

## 4. Proofs

For every choice of the constants that satisfies the assumptions named in the
modules, TLAPS checks:

- `OscServerProofs`: `TypeCorrect`, `RestartIsClean`, `SocketIsCurrent`,
  `StatusIsHonest` and `ReceivePathRefinesStream`, all from one inductive
  invariant. `CleanRestart` alone is not inductive: that no thread is left at
  `open` follows from `joinable` being true exactly while a thread exists
  (`ThreadOwned`); that no socket is left, from the server owning at most one
  descriptor, the one in `fd_` (`OneDescriptor`), and from only a blocked thread
  holding a socket (`ThreadLocals`). `Listening` carries the port from the bind
  to the next frame. The refinement maps `pipe` to `batch \o queue \o msgs`;
  each step is an abstract step or leaves that concatenation alone, by lemmas
  on sequences (`PipePush`, `PipeApply`, `PipeQueueDrained`), and `stray` to the
  thread holding a foreign descriptor.
- `PatchEditProofs`: `TypeCorrect`, `PatchIsWellFormed`, `EveryEntryApplies`,
  `UndoneIsStart`. None is inductive: what an undo does depends on the patch
  its entry was made in. The invariant says that behind a history of n entries
  there are n + 1 well-formed patches (`Recorded`): the first is the one Rack
  loaded, entry i leads from patch i - 1 to patch i and applies there, the present
  patch is number `done`, and an id names one cable in all of them. Undo and redo
  move along these patches (`Reverses`: what was applied can be taken back); a
  push cuts them off at `done` and goes on (`Extend`, `PushRecorded`); a removed
  module goes by one patch for every cable it is stripped of, in any order
  (`ModuleStripped`). `InitialPatchAssumption` says that the loaded patch is
  well-formed and finite.
- `StructWatchProofs`: `WatchImplementsEdit` (every step of `StructWatch` is a
  step of `PatchEdit` or leaves it alone, so the theorems above hold of it too),
  `WatchTypeCorrect` and `ClientMirrors`, all about ids as messages carry them and
  for any width of an OSC integer. As long as assigned ids stay `Distinct`,
  between frames the client's picture
  is the image of the snapshot however the user edits (`InStep`); within a frame it may leave
  the snapshot only where it follows the patch (`Ahead`), which is what makes
  the differences of the next poll complete it; a dump makes it the patch until the
  frame ends (`Exact`), whether the client subscribes after it or before; and `Known` says that a cable
  that is back after an undo is the one the client knows under its id.
- `ParamAccessProofs`: `TypeCorrect` and `WatchIsExact`. The strengthening is
  `LastIsHeard`: until something else told the client, it heard exactly what the
  watch compares with.
- `HttpServerProofs`: `TypeCorrect`, `HandlerIsSafe`, `DocumentIsRecent`,
  `StatusIsHonest`, `FdIsCurrent`, `HostInfoIsTrue`. `HandlerIsSafe` is about
  `handler_`, the thread and the controller; the document is replaced under the
  thread by design. The
  invariant ties the thread to `joinable` and `httpOk` (`ThreadKnown`), `running_`
  to the open socket (`Running`), a bound endpoint to the configured port outside the
  windows of a change (`Endpoint`), and the age of the document to the counter
  (`Aging`: the document is no older than `oscQueryTick` while the server is up,
  which a rebuild before each start establishes).
- `OscCodecProofs`: `TypeCorrect`, `ParserReadsInside`, `RecursionBounded`,
  `EveryStepAdvances`, for datagrams of any length. `Nested` says that the bundles on the stack contain one
  another, each at least twenty bytes behind the start of the one around it;
  `Unread`, that nothing behind the cursor of a bundle was read yet, so that an
  element shorter than its bundle is not overrun. `EveryStepAdvances` is what can
  be proved of termination: each step takes `Rank` down (bytes left, then
  calls to return from, then the phase of the call, then tags), an order on four
  naturals that has no infinite descent. That some step can be taken until the
  parser returns is TLC's part (deadlock, `Terminates`).
- `OscEncodingProofs`: `AcceptedEncodes` and `SentIsReadBack`, for any tags,
  messages and datagrams. For the first, the invariant adds to the one above
  that the bytes from the start of the element to the cursor are, but for their
  padding, the encoding of what is in `msg` and `tags` (`Covers`, `ReadSoFar`),
  as long as no argument was left out; each step appends one field to both. For
  the second, it adds that a machine whose element is the encoding of a message
  stands at the start of a field of it (`Offset`) with the fields before it in
  `msg` (`Progress`), that the outermost element is the datagram and the elements
  on the stack are bundles (`Framed`), and that a message that is no element of a
  bundle is the only one (`Single`). Padding counts from the start of the
  element, so that both hold at any offset.
- `AddressingProofs`: `TypeCorrect`, `PathsReachTheirParam`, `DumpReachesAll`,
  `KeptNamesAreKept`, `UndoKeepsNames`, `AddedAnswersToItsName`, for any models,
  texts, ids and references. The invariant says that the engine's list has no
  module twice (`Listed`), that the module an undo would bring back is gone and its
  record says what every reference means once it is there (`Recorded`), and that the cached
  document is the tree of some set of modules, whichever they were (`DocIsTree`). The
  rest is about finite sets (for `KeptNamesAreKept`, that without a matching
  newcomer the hits are the module of the dump or nothing): what a reference means depends on the set of
  modules only (`ResolveIsMeans`), no two hits have as many before them
  (`RankUnique`), and the least hit has none (`LeastOf`). `NavigateIsFold` says that
  a path is followed hop by hop.

Where these proofs need induction over data (the value of a fold, a list of fields
written out field by field), they take the least number for which the claim
fails, which exists because `<` is well-founded on the naturals (`LeastOf`), so
that no induction theorem with an operator as parameter is needed.

Only model-checked: the liveness properties (`StopReturns` and `PushedIsApplied`
of `OscServer`, `StopReturnsOrStalls` of `HttpServer`, `Terminates` of
`OscCodec`), since the prover does not handle fairness. Of Winsock's count
nothing is proved, since what one would prove is false.

## 5. Not modelled

The JSON attributes of the OSCQuery tree besides keys and paths, the registry
dump, preset files, module positions, the text of HTTP headers, the panel, the
LEDs, the reply socket and the Winsock count of `UdpSocket` (taken in the
constructor, given back in the destructor) are left out. Rack, the kernel, the user and the clients are external: modelled
from the calls the plugin makes, without their own failures (a preset that does
not load, a module whose construction fails, out of memory). Message contents beyond
ids and values are left out. The descriptors of the HTTP server, `listenFd_` and
accepted connections, have the reuse hazard of `OscServer`; `HttpServer` does not
model the table again.

## 6. Plan

Done, most important first: `OscServer` with `CommandStream`, `PatchEdit` with
`StructWatch`, `ParamAccess`, `HttpServer`, `OscCodec`, `Addressing`, and
proofs of every safety property of a run that holds.

Next:

1. `Restart`: `OscServer` and `HttpServer` composed over one descriptor table, so
   that the foreign thread of `OscFdReuse` is the HTTP server of the same restart.
2. `DiffIds`: the merge loop over two sorted lists against set difference, which
   `StructWatch` takes it for.
3. `OscSender`: the reply socket, its destination through a change of the
   configuration, and sends that fail.
4. The refinement of `OscServer`'s `Parsed` by `OscCodec`: the messages of a
   packet, or a prefix of them and false.
