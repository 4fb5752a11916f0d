# Verification of the Crownstone microapp library

This directory holds TLA+ specifications of the microapp library (`src/src`,
`src/include`): the C and C++ code that is linked with every microapp and that
lets it run beside *bluenet*, the firmware of a Crownstone. TLC checks the
specifications on small instances, and TLAPS proves the central results for all
values of the constants. `PROJECT.json` lists every run, the source lines each
definition stands for, the hazards of the code and the theorems.

## The system

A microapp and bluenet are two coroutines in one address space. They share one
pair of I/O buffers: `b2m` (bluenet to microapp) and `m2b` (microapp to bluenet).
Everything the microapp wants (a pin, a BLE scan, a mesh message, a delay) is
written in `m2b` and handed over by `sendMessage()`, which switches to bluenet and
returns when bluenet switches back. An interrupt from bluenet arrives while some
`sendMessage()` waits: it is handled *inside* that call, by user code that may
call `sendMessage()` again. There are no threads and no locks, but every
`sendMessage()` is a point where other user code may run.

| Part | State it keeps | Operations | Interacts with |
| --- | --- | --- | --- |
| Control flow and context stack (`microapp.c`, `main.c`, `Arduino.c`) | shared buffers, stack of saved buffers, `ipcValid`, the C stack | `sendMessage`, `handleBluenetInterrupt`, `callInterrupt`, `signalSetupEnd`, `signalLoopEnd`, `delay` | bluenet through the SIGNAL callback; all other parts through `sendMessage` |
| Interrupt registrations (`microapp.c` and its clients) | table of 6 registrations, a flag per client, table of BLE event handlers, subscribed types, `isScanning` | `registerInterrupt`, `attachInterrupt`, `Mesh.listen`, `Message.begin`, `BluenetInternal.subscribe`, `BLE.begin/end/setEventHandler/scan/stopScan/addService`, `BleDevice.connect`, `BleCharacteristic.setEventHandler` | bluenet, which has registrations of its own |
| Message receive buffer (`Message.cpp`) | bytes and their number | interrupt appends; `available`, `readBytes`, `setHandler` | registrations |
| Mesh message buffer (`Mesh.cpp`) | entries with a `filled` flag, the message last read | interrupt fills an entry; `available`, `readMeshMsg` | registrations |
| BLE asynchronous operations (`BleDevice.cpp`, `BleCharacteristic.cpp`, `ArduinoBLE.cpp`) | `_asyncResult`, retries left, `connected`, `discoveryDone` | connect, disconnect, discover, read, write, subscribe, unsubscribe; central events | control flow (`delay`), registrations |
| BLE connections (`ArduinoBLE.cpp`, `BleDevice.cpp`, `BleService.cpp`, `BleCharacteristic.cpp`) | the device last scanned, the peripheral, the central; tables of remote services and characteristics and their counts; per characteristic `remoteValueUpdated` | scan, `available`, connect, disconnect, discover, read, write, subscribe; events of both roles | asynchronous operations |
| BLE local services (the same files) | services in use, handles, value lengths, `written`, `subscribed` | `addService`, `writeValue`, `written`; events of a central | bluenet's attribute table |
| Advertisement parsing (`BleScan.cpp`), addresses and UUIDs (`BleMacAddress.cpp`, `BleUuid.cpp`, `BleUtils.cpp`) | none | pure functions | BLE parts |
| Presence (`Presence.cpp`) | none | one request and a bit of its answer | control flow |
| Mesh statistics (`examples/martijn_apps/mesh_statistics.ino`) | a state machine with a timeout, an election counter, a candidate and ping counts | `loop`, `onMeshMessage` | the same microapp on other stones, by mesh messages |
| Wire, PowerUsage, Switch, Serial, service data, pins | small buffers or nothing | one request each | control flow |

What is hard, and what correctness means:

* **Control flow.** One outgoing buffer serves a main program and any number of
  nested handlers; the order of save, restore and acknowledgement is spread over
  recursive calls. Correct: a request is served once and its answer reaches the
  code that waits for it; a handler's copy of its interrupt is not overwritten;
  bluenet knows the fate of each interrupt and whether there is room for more;
  the main program gets to run again.
* **Registrations.** Flags and tables are read before `sendMessage` and written
  after it, so handlers that call the same functions come in between; and each of
  several steps may be refused. Correct: what bluenet was asked and what the
  library believes agree.
* **Buffers.** Filled by interrupts, emptied by user code, with limits. Correct:
  nothing accepted is lost, repeated or written outside.
* **Asynchronous BLE operations.** A result arrives as an event, maybe after the
  operation timed out, and carries no request number. Correct: what an operation
  returns is about that operation.
* **Connections and attributes.** Long legal sequences (connect, discover,
  disconnect, connect to another device) over tables that one object fills and
  another counts. Correct: what the devices, tables and flags say is about the
  link there is. **Local services.** Adding a service takes several requests, each
  of which may be refused, and events name objects by handles. Correct: what the
  other device did to a characteristic in use is seen at its object.
* **Parsing and conversion.** Lengths come from the air; bytes and characters are
  in opposite orders. Correct: nothing is read past what was received, and what
  was written is read back.
* **Mesh statistics.** A leader election over a network that loses, repeats,
  delays and reorders; messages change the globals while `loop()` waits in a delay.
  Correct: a ping counts once, an election names another stone, and there is a
  leader again after silence.

## Modules

### `MicroappIpc`: control flow and context stack

The core. Constants: the requests and interrupts (only compared), the acks
handlers may return, `MAX_INTERRUPT_DEPTH`, and what bluenet's throttling allows.

| Model | Code |
| --- | --- |
| `b2m`, `m2b` | `shared_io_buffers`; a payload is a message, its ack and, for a yield, whether `emptyInterruptSlots` is positive (`room`) |
| `served` in `m2b` | a ghost, which the code has no field for: whose value stands in `header.ack` of the message: 0 the microapp's, 1 bluenet's answer; 2 means it was served again. A yield starts from 0 like any message: `delay` leaves `header.ack` as it was, but nobody reads the answer to a yield |
| `stack` | `stack[MAX_INTERRUPT_DEPTH]` of `stack_entry_t` |
| `frames` | activations of `sendMessage` on the C stack. A frame that runs a handler on top of itself has a `slot`; caller `"ack"` is the call that `handleBluenetInterrupt` makes to report the end of a handler or a dropped interrupt |
| `mode` | which coroutine runs, and where: user code, bluenet just signalled, bluenet elsewhere, `handleBluenetInterrupt`, unwinding |
| `ram`, `ipcValid` | what `checkRamData` finds on its first call, and the flag it keeps. It sets the flag *before* bluenet accepts the buffers, hence three cases |
| `sendMessage`, `Request`, `delay`, `signalSetupEnd`, `signalLoopEnd` | user code or `dummy_main` writes `m2b` and signals |
| `AcceptInterrupt`, `DropInterrupt`, `HandlerReturn`, `Return` | the paths through `handleBluenetInterrupt` |
| `HandleRequest`, `HandleOutcome`, `Tick`, `GenerateInterrupt`, `Abandon` | bluenet, external: taken from `docs/CONTROL_FLOW.md` and from what `microapp.c` expects |

`PrivateBuffers` is the abstract specification: every nesting level has an
outgoing buffer of its own, which the levels above never touch. `MicroappIpc`
gives the refinement mapping (`LevelBuffers`): the buffer of a suspended level is
in the slot of the handler above it, that of the current level is the shared one.

### `InterruptRegistrations`: who is called

The table of `microapp.c` and all its clients together, because they share its
slots. `MicroappIpc` settles how calls nest; here nesting is reduced to `calls`,
the stack of calls that wait in `sendMessage`, each with the answer bluenet gave.
A function of the library is split where it calls `sendMessage`: `subscribe`
then `subscribeResumes`, and so on. `Interrupt` starts a handler (while something
waits, and if a registration is found), `HandlerReturns` ends it. Bluenet may
refuse any request; `bluenet` records what it agreed to. `linked = FALSE` is a
microapp for which `checkRamData` fails, so that each request fails at once.

`connect` and `addService` are clients too: they register an interrupt and go on with
requests that change nothing here, which stand as one request `"other"` (what becomes
of them is in `BleAsync` and `LocalServices`). The two `setEventHandler` of a
characteristic share the table of event handlers with that of `Ble`; `EventTypes` says
which events the user has handlers for, and the table has fewer places than these where
it is to run full.

`Careful` says that a handler does not subscribe while a `subscribe` waits beneath it, and
does not stop a scan while a start or a stop waits, and that the user stops scanning before
`BLE.end`. The code checks none of these; with `Careful = FALSE` all happen.

### `MessageBuffer`, `ByteStream`: receiving messages

`MessageBuffer` has the byte array and the length of `Message.cpp`; `ByteStream`
is a bounded queue of bytes that takes whole messages. The mapping takes the first
`len` bytes of the array for the queue.

### `MeshBuffer`: receiving mesh messages

Entries as in `Mesh.cpp`; messages are numbered in the order they arrive, `kept`
are the ones for which the interrupt was told that the buffer has them, `reads`
the ones handed to user code. `checked` is user code between `available()` (the action
`meshAvailable`) and `readMeshMsg()`. Names start with `Mesh` or `mesh` where
`MessageBuffer` has the same: one module holds the proofs about both.

### `BleAsync`: BLE operations of a central

One device, one characteristic of it, and the calls that wait, the innermost last.
A call keeps what bluenet answered, its timeout and the delays it counted
(timeouts are in rounds of `MICROAPP_LOOP_INTERVAL_MS`, so tries left are
`Tries(timeout) - waited`). The operations send a request (`connect` ...
`readValue`); `RequestReturns`, `RoundReturns` and `Poll` are
`waitForAsyncResult`. `connect` and `discoverService` may have to register an interrupt or
a uuid first, and wait for that (`Prepare`): when they go on (`Prepared`), they send their
request without looking again whether the device is connected or discovered by now.
`onConnect` ... `onCharacteristicEvent` are the cases of
`handleCentralEvent`. `listed` says whether the tables of the device hold the
characteristic. For the properties, a call also records what became of its request
at bluenet (`outcome`) and when its event was handled (`told`); the library does
not know either. A handler runs between two steps of a call that waits (`Handler`,
`HandlerReturns`), and may itself `delay` or call the operations in `HandlerOps`.

What is assumed of bluenet: it works on one operation at a time and refuses others
meanwhile, an operation ends with one event at most, the link may go down at any
time, and each interrupt may be dropped (`README.md` of the repository,
*Throttling*). If bluenet worked on two operations at once, the one `_asyncResult`
could not tell their results apart.

### `BleConnections`: devices, links and what is found on them

The three devices of `Ble`, the tables of remote services and characteristics with
their counts, and one call that waits. How a call waits is settled in `BleAsync`;
here `CallTimesOut` and `CallReturns` end it, so that an operation may go on at
bluenet after its call gave up. References are modelled as they are: a
device's `services` are indexes into `remoteServices`, whose entries hold indexes
into `remoteCharacteristics`, and a table keeps what is in it when its count goes
back. `here`, `news` and `lost` are for the properties: whether an entry was found
on the link there is, whether a notification came in that no value read is newer
than, and whether an event of a link was dropped.

`PeripheralLink` is the abstract specification: one link after the other, each to a
peripheral the microapp knows of or has missed, each with a set of services and of
characteristics in them that this peripheral offers, all forgotten together. The
mapping (at the end of `BleConnections`) follows the references from the peripheral
through both tables, so what the tables keep beyond their counts is not there.

`Careful` is what the examples take for granted without a check in the code: the
user asks for another device (`available()`) or calls `end()` only when no operation is
under way and nothing is connected. With `Careful = FALSE` the properties about devices and
tables fail, as *Known disagreements* says.

### `LocalServices`: what a microapp offers

The service and characteristic objects of the user, the services in use, and
the calls of `addService` at work, the innermost last: one step for the call, one for
`addLocalService`, one for each `addLocalCharacteristic`, one for its end, since each waits
in `sendMessage`, events may come in between, and a handler may add a service of its own.
The table is looked at in the first step and written in the last, so `localServices` may get longer than
the table (`ServicesInTable`, and the run `service_table`); what that destroys is not
modelled, and `RemoteUseNoticed` says nothing after it. `Careful` here is a user that has a characteristic in one service, once, and
does not add a service while it is being added; the code checks neither, and without it
`RemoteUseNoticed` does not hold. `gatt` is what bluenet accepted, under the handles it
gave, with what the other device did last that the microapp was told of.

### `Advertisements`, `Identifiers`, `Presence`, checked in `Conversions`

Operators for the pure functions. Scan data is a buffer of bytes and a size, with
the offsets of the code; strings are sequences of characters. `Conversions` is a
specification with one variable, the input: an advertisement grows by one field per
step, the others are initial states. Which data, bytes and uuids there are is in its
constants (`Payloads`, `AddressBytes`, `LongUuids`, `ShortBytes`), of which
`ConversionsAssumption` only says that they are made of bytes. Its invariants compare with reference
definitions: the list of fields an advertisement was made of, and the bytes a
string was made from. Scaled down: the bits of an `int` and the number of rooms.

### `MeshStatistics`: an example microapp with a protocol

One stone. `app` is its globals and the place in `loop()` where it waits;
`onMeshMessage` may run at each of them. All others send whatever a stone
with this microapp may send, at any time and any number of times (`Heard`), which
covers loss, repetition, delay and reordering. That this is what such a stone sends
is checked, and proved: `SendsAsHeard` says so of the stone itself.

## Runs

Passing runs:

| Run | Question | Bounds and why they are enough |
| --- | --- | --- |
| `ipc_safety` | Are requests, interrupts, acks and room kept straight? | Depth 2: main program, handler, nested handler and a full stack. Two requests and two interrupts can be told apart. Two interrupts per tick: one can be accepted and the next dropped. Two soft yields, so both "go on" and "too many" happen. Six activations: two beyond what a full stack needs |
| `ipc_progress` | Do the shared buffer and the stack implement private buffers? Do interrupts, main program and bluenet make progress? | Depth 3, as in the code, two interrupts per tick and seven activations; handlers may return `ERR_BUSY` |
| `registrations` | Do nested calls lose or leak registrations? Do the subscriptions and the scan flag agree with bluenet? | All clients, `BLE.end` among them, and a careful user. Three slots for seven keys, two places for handlers of four events and one for two subscriptions, so that each table runs full; any client may be called by a handler that runs inside a waiting call of any other. The bluenet events are alike (symmetry) |
| `message_buffer` | Is the buffer a byte stream? | Four bytes, messages of one to three bytes, reads of up to five: full, overfull, empty and partial reads all happen |
| `mesh_buffer` | Is each kept message read once, and each in the end? | Three entries and five messages: the buffer fills, and entries are used again |
| `ble_async` | Is what a call returns so, is a result in time noticed, does every call return? | All operations, and one handler at a time that runs on top of a call and may wait itself, but calls none of these operations (`HandlerOps` is empty; with `writeValue` in it `CharacteristicResultTrue` fails, as *Known disagreements* says). Timeouts of none and of two rounds, so a result may come before, during and after the wait and in its last delay. The width of the tries is that of the code |
| `ble_connections` | Do devices, tables and notifications speak of the link there is, and implement `PeripheralLink`? | Two peripherals with the same service, a central, a service with two characteristics of which one fits, so that each limit is met; two links, so that one follows another; every operation of a characteristic; any event may be lost, any request refused |
| `local_services` | Is what a central did to a characteristic seen at its object? | Two services for one place, two characteristics, three handles: a refused attempt, a second one with new handles, and a service that does not fit; one `addService` in a handler of another |
| `mesh_statistics` | Does a stone count pings once, elect another stone, and take over after silence? | Two other stones, so that there is another leader and another candidate; two pings per session, so that they may be lost and reordered; an election of two ticks, a timeout of three; a count of pings that wraps at three; scores up to two |
| `conversions` | Do parsing and conversion do what their results mean? | Up to three fields with all four types and data of zero to four bytes, one of which looks like a type, cut by up to two bytes; bytes with digits and letters in both halves; a change in each byte of a uuid |

Two runs each find a violation of what a comment of the code says. They are the
findings in `PROJECT.json`, which quotes the comments:

| Run | What happens |
| --- | --- |
| `async_late_read` | `readValue` times out, and the value that comes later is copied to the buffer of the call that gave up |
| `service_table` | A handler adds a service while another is being added; both found the last place free, and the outer call writes past the end of the table |

### Known disagreements without a run

The models also show the following. Each can be seen by changing a configuration as
said; the properties named are in the modules.

| Where | What the code does | How to see it |
| --- | --- | --- |
| `Arduino.c:116` | `attachInterrupt` takes a `void` function and casts it to one with a result. Whatever is in the return register is the ack of the interrupt; if it reads `NO_REQUEST` or `IN_PROGRESS`, bluenet serves the interrupted program's request again | `IpcSafety.cfg` with `Isrs = {i1}`: `InterruptAnswered` and `AtMostOnce`, each alone |
| `BluenetInternal.cpp:75` | `subscribe` chooses a slot, waits, and writes it. A handler that subscribes meanwhile chooses the same slot, so one type is forgotten that bluenet goes on sending (`BluenetInternal.h:65`: *"Keep up the types we are subscribed to"*) | `Registrations.cfg` with `Careful = FALSE` and `MAX_SUBSCRIPTIONS = 2`: `SubscriptionsKept` alone |
| `ArduinoBLE.cpp:640` | `stopScan` clears `isScanning` after waiting, over what a handler did meanwhile: bluenet scans and the library ignores it | `Registrations.cfg` with `Careful = FALSE`: `ScanFlagHonest` alone |
| `BleDevice.cpp:47` | The peripheral disconnects while `discoverService` waits: `onDisconnect` sets `_asyncResult` to success, and `discoverService` returns true (`BleDevice.h:173`: *"true if successful"*) | `AsyncLateRead.cfg` with `DiscoveryResultTrue` |
| `BleDevice.cpp:100` | The number of tries is an `int16_t`: a timeout of 40000 loop intervals becomes negative, and the call gives up after one (`BleDevice.h:114`) | `AsyncLateRead.cfg` with `Timeouts = {40000}`: `TimeoutKept` |
| `BleCharacteristic.cpp:167` | A handler writes to the characteristic that the interrupted code waits for, and is refused. It leaves `BleAsyncNotWaiting`, which the outer `waitForAsyncResult` takes for success (`BleCharacteristic.h:153`) | `BleAsync.cfg` with `HandlerOps = {"writeValue"}`: `CharacteristicResultTrue` |
| `BleCharacteristic.cpp:348` | `readValue` forgets a notification that came in after the READ event and before it went on | `NotificationKept` leaves this one case out (`JustRead`) |
| `BleService.cpp:114` | A characteristic may be added to two services, although it has one handle | `LocalServices.cfg` with `Careful = FALSE`, `MaxAdding = 1`: `RemoteUseNoticed` |
| `ArduinoBLE.cpp:649` | `connect()` times out, `available()` gives another device, the late CONNECT event marks that one connected (`examples/tests/ble_central_atc_sensor.ino:48-62` calls them like this). `available()` or `end()` during a connection leave the counts of the tables | `BleConnections.cfg` with `Careful = FALSE`: `ConnectedIsPeer` (part of `LinkImplemented`), `TablesAccounted`, each alone |
| `Presence.cpp:24` | The bit of a room is shifted in an `int`: for the room of the sign bit all rooms from there on are tested, and those above are undefined (`Presence.h:14` says *"if profile present in the room"*, of 64) | `Conversions.cfg` with `PresentInRoom` (four bits and six rooms stand for 32 and 64) |
| `mesh_statistics.ino:242` | The leader writes `newState` after its session, over what a message asked for while it waited (line 57: *"in any state"*, line 95: *"regardless of state"*) | `MeshStatistics.cfg` with `GoesWhereTold` |
| `Arduino.c:163` | *"Return lowest byte"*: `lowByte` returns `val && 0xFF`, 0 or 1 | one line, not modelled |

Further weaknesses contradict no statement of the repository. For instance: the C stack grows by one
activation for each interrupt that arrives while the end of a handler that yielded
is reported (`microapp.c:230`); `Message.begin` takes a refusal for a success
(`Message.cpp:45`); two stones that announce the same stone that does not answer reset
each other's timeouts for ever (`mesh_statistics.ino:120`), so `SilenceMakesLeader`
is about a stone that gets no directions.

`MaxFrames`, `MaxMessages`, `MaxRead`, `MaxNesting` and `MaxAdding` are bounds of the model:
they stop bluenet from generating more interrupts or messages. So are `MaxLinks` (links
bluenet makes), `MaxHandles` (what it accepts), `MaxSessions` (where a score stops
growing; in the code it is sent as one byte), `MaxFields` and `MaxCut`. `MaxCalls` and
`MaxInterruptsPerTick` are bluenet's own limits, small. Deadlock is checked except in
`ble_connections`, `local_services` and `service_table`, where bluenet runs out of links or
handles and nothing may be left to do, and in `conversions`, where a
state is an input.

### Fairness

`MicroappIpc!Fairness` has weak fairness of user code as a whole, of the library,
of bluenet's service of a request, and of the tick (`CONTROL_FLOW.md:5`: bluenet
yields control to the microapp *once every microapp tick*). It has strong fairness
of the return of handlers and of `setup()` and `loop()`: user code that gets the
processor over and over ends, as `Arduino.h` asks (*"Make sure your loop
returns"*) and as `main.c` relies on. It is strong because a handler that waits is
interrupted again and again, so its return is not continuously enabled.
Nothing is assumed of interrupts, which may come or not: `MainResumes` is stated
for executions in which they cease, since interrupts whose handlers yield may
otherwise keep the main program waiting. `MeshBuffer!MeshFairSpec` says that user code
polls. `BleAsync!FairSpec` says that a microapp that waits is resumed, as every tick
does (weak), and that handlers return (strong, as above); `CallsReturn` is again
stated for executions in which handlers cease to be called. `MeshStatistics!FairSpec`
says that `loop()` is called, and its delays end, again and again (weak, as bluenet
ticks and `main.c` calls `loop()` for ever); nothing has to arrive.

## Proofs

`MicroappIpcProofs` proves, for every depth, every set of requests, interrupts and
handlers, and every throttling bound:

* `TypeCorrect`, `StackDiscipline`, `InterruptsPreserved` without any assumption
  but the types of the constants;
* `ServedAtMostOnce`, `InterruptsAnswered`, `AnswersDelivered` and
  `PrivateBuffersImplemented` if no handler was set with `attachInterrupt`
  (`Isrs = {}`; the first of the known disagreements shows the assumption is needed);
* `BusyIsTrue` and `CapacityIsUsed` if, moreover, no handler returns `ERR_BUSY`.

None of the invariants is inductive as it stands. The argument has three layers,
defined at the end of `MicroappIpc` and checked by TLC before they were proved:

1. `NestingInv`. The frames on the C stack are linked: a call by user code
   sits on a frame that runs a handler, one level up; a report sits on a frame that
   does not, with the same message outgoing. Levels therefore grow towards the
   innermost frame, live frames have different levels, and the frame at level *n*
   owns slot *n*. This makes `getNextEmptyStackSlot`, which only looks for *some*
   free slot, pick the top of a stack, and is why restoring a buffer restores the
   right one. It does not depend on acks.
2. `AnswerInv`. Which acks go with which state of the outgoing message: user
   code never runs while the ack reports the end of an interrupt, so a new message
   is always served, and one that is put back or reported on is already served,
   exactly once, and goes with an ack that makes bluenet ignore it.
3. `CapacityInv`. Bluenet holds interrupts back only if the stack is full, or a
   handler just finished and bluenet is about to see that.

The refinement follows from the first two: a step maps to `Write`, `Serve`,
`Enter`, `Leave` or a stutter.

`ReceiveBufferProofs` is about both buffers that interrupts fill. It proves that the
receive buffer of messages never overflows and that it implements `ByteStream`, for every
buffer size and every set of messages. Of the mesh buffer it proves `KeptOnce` and `ReadGetsMessage` for every length of the
buffer and every number of messages. The invariant adds that messages are numbered
as they arrive (so the next one is new), that what `available()` saw is still there
(only user code empties entries), and that what was read last is among the reads.
The searches of the code are `CHOOSE` expressions; that they find an entry rests on
every nonempty set of naturals having a least element.

`MeshStatisticsProofs` proves `SendsAsHeard` and `CountedOnce` for any set of other
stones and any lengths of sessions, elections and timeouts. Its invariant
(`Consistent`) relates the place where `loop()` waits to the globals: while a session
lasts `state` is `SESSION_LEADER`, so no message of another leader changes the
number of pings except a session start, which makes it 0; an election is left when its
counter is at the limit; a stone that waits for acceptance has a candidate. With
`SendsAsHeard` proved, what is assumed of the other stones holds if they run this
microapp too, and the model of one stone stands for any number of them.

`InterruptRegistrationsProofs`, for tables of any size, any calls of user code, and
any nesting where nothing else is said:

| Theorem | Inductive invariant, and why it is needed | Hypothesis |
| --- | --- | --- |
| `TypesHold` | `Typed`: what a call that waits must put back is a key of the right kind | |
| `FindsHandler`, `LeavesNothing` | `Counted`. A refused call takes back *a* slot of its key, not its own, so "has a slot" does not survive nesting; "has more slots than refused calls will take back", compared as numbers, does | |
| `HandlersBacked` | `Backed`. `setEventHandler` asks for its types one after the other, and what it finds flagged bluenet has agreed to | |
| `KeepsSubscriptions` | `Subscriptions`: the slot that `subscribe` chose stays empty until it is written, under any nesting of other calls | `Careful` |
| `KnowsWhetherItScans` | `ScanKnown`: while `scan` or `stopScan` waits, its answer says how the flag and bluenet differ; a handler's call on top of it finds the flag not yet written | `Careful` |
| `OneSlot` | `Singly`: a slot of a type is flagged, or the call for it waits | no nesting, no `BLE.end` |

`BleAsyncProofs`, for any timeouts, any width of the tries and any nesting. `Placed`
(the calls that `_value` and bluenet refer to are of the right kind) is part of each
invariant and gives `TypesHold`:

| Theorem | Inductive invariant, and why it is needed | Hypothesis |
| --- | --- | --- |
| `WaitsForItsTimeout` | `Timely`: a call that waits has not used up its rounds | `TimeoutsFit`: the rounds fit the `int16_t` |
| `ConnectTellsTheTruth` | `DeviceWaits`: which `_asyncResult` goes with which outcome. Events do not say which call they are for; `connect` finds no link, so none of an earlier one can end it | handlers use no operation of the device; they may use characteristics |
| `CharacteristicTellsTheTruth` | `CharacteristicWaits`: four operations wait for one variable, and while one is in progress bluenet ends no other and finds no characteristic, which would reset it | handlers only connect and disconnect |
| `ResultsAreNoticed` | `Noticing`: an event that came in was in the last round | handlers call no operation |

`BleConnectionsProofs`, for any devices, services, numbers of links and sizes of the
tables:

| Theorem | Inductive invariant, and why it is needed | Hypothesis |
| --- | --- | --- |
| `TypesHold` | `Typed`: a reference to an entry is below a table's length, and bluenet's operation has a type too, since its events are written into the tables | |
| `NotificationsKept` | `Noted`: between the event of a read and the return of its call the value has no news | |
| `ConnectedTellsTheLink`, `ConnectedToThePeer` | `Linked`: a connection is made while there is none, to the device that the user has | `Careful` |
| `TablesCountThePeripheral`, `AttributesWereFoundHere` | `Tabled`: the services of the peripheral are entries 1 to the count, what is counted was found on this link, and nothing is counted without a connection | `Careful` |
| `LinksArePeripherals` (the refinement of `PeripheralLink`) | `Peered`, with the two before: what bluenet is about to tell of a peripheral is what that offers. The rest is that an entry is put where nothing counted is, so a step finds one attribute or none | `Careful` |

`LocalServicesProofs` proves `TypesHold` and `RemoteUseIsNoticed` for any services,
characteristics and sizes, and any number of nested calls of `addService`. `TypesHold` has no
hypothesis; its bound on the table of services is that it is overrun by one service less
than calls may be nested, so by none where handlers add no service (`MaxAdding = 1`).
`RemoteUseIsNoticed` supposes `Careful`. The event of bluenet names a handle
and the microapp looks for an object with it in the services in use. `Placed` says
that handles lead back to the objects they were given to and that a service has its
own; `Reached` that what bluenet has of the *last* attempt to add a service leads to
its objects, and that nothing was told of it while the service was not in use.
So the search finds the right object, and never one that another entry in use stands for.

`ConversionsProofs` proves what the pure functions compute, for any fields of any
lengths, any bytes and any sizes; nothing is assumed but the types of the constants
(`ConversionsAssumption`, `PresenceAssumption`). The invariant is only that the input has
its type (`InputOK`); the argument is about the functions.

| Theorem | Argument |
| --- | --- |
| `SearchFindsFirst` | The search is at the length byte of a field whenever it has passed the fields before it (`FindPasses`). It reaches the first field of the type (`FindReaches`) or ends: at an empty field, or at one that is longer than what was received (`FindEnds`). Where a field begins is a sum of lengths, and what was cut off makes the fields that count a beginning of all fields (`WholeIs`) |
| `UuidListsAgree` | The number of uuids is that of one list and of the other. An index is in the first list or, less the length of that, in the second, so the three loops see the same pairs of bytes |
| `StringsAreReadBack` | Reading a string consumes it in pieces (`ReadsStart`): two digits are the byte they were made from (`StartsWith`), a separator is passed over. The pieces of an address and of both kinds of uuid are listed by their places (`MacPlaces`, `UuidPlaces`); a changed character spoils the piece it is in, and a hyphen is passed over wherever it is |

The functions are recursive, and the library's induction theorems cannot be used (they
take an operator as a parameter). So inductions are proofs by a least counterexample:
the set of numbers below a bound for which a claim fails has a least element
(`LeastOf`), which is refuted. In the same way the recursive functions (`FlattenSeq`, the search,
the reading of a string) are first shown to exist on growing parts of
their domain (`FlattenIs`, `FindExists`, `ReadExists`), since a recursive definition is a
`CHOOSE` of a function with this property, and says nothing if there is none.

Each hypothesis is needed: without it TLC finds the property violated, by the
configurations of the runs changed in one constant (in `Registrations.cfg` `OneSlotPerBleType` holds
without `BLE.end` in `UserCalls` and with `MaxNesting = 0`, and with neither change alone; `connect`, `disconnect` or `discoverService` in `HandlerOps` for
`ConnectionResultTrue`; `discoverService` or `writeValue` there for
`CharacteristicResultTrue`; any one operation there for `EarlyResultNoticed`; a
timeout of three rounds and `TriesWidth = 1`; `Careful = FALSE`). They are those of the
runs, or weaker: `CharacteristicTellsTheTruth` allows handlers that connect, which
`ble_async` does not have. What the code leaves open where they fail is under *Known
disagreements*, or, for nesting and `BLE.end`, in the comments of
the theorems.

The invariants of the state machines were checked by TLC on the instances of the runs.
Proving found places where a model could not be reasoned about as it stood: the keys of
`InterruptRegistrations` were kept apart from pins by an assumption that said
nothing (`NamesAssumption`); where `addDiscoveredCharacteristic` finds a service
was the first of a sequence and is now the least of a set of places
(`FirstWith`); `CharacteristicsOf` was not said to hold sequences;
`convertStringToUuid128Bit` recursed on the string and on the bytes read so far, and is now
a function of a place in the string; and the inputs of `Conversions` were fixed
sets, and are now constants.

Most type invariants are also part of one of the properties
(`TimeoutKept`, `TablesAccounted`, `RemoteUseNoticed`, `KeptOnce`, `SendsAsHeard`).

Only model-checked:

* The liveness properties (`InterruptsResume`, `MainResumes`, `BluenetRegainsControl`,
  `AllRead`, `CallsReturn`, `SilenceMakesLeader`): fairness is outside the prover's reach.
* Everything in a run with a violation.

## Not modelled

* Bluenet itself, beyond what `microapp.c` expects of it. Its watchdog, which
  reboots and disables a stuck microapp, is left out.
* Payloads other than what a property tells apart, sizes of payloads, logging.
* `Serial`, `PowerUsage`, `Switch` and service data: one request each and no state.
  `Wire`: two buffers used by one caller in one sequence, without interrupts.
* The flags `added` and `localNotificationDone`, which nothing reads; the handles of a
  connection, which bluenet has one of.
* The other examples: straight-line uses of the library. What they assume of it is
  `Careful`.
* The registration of custom uuids with bluenet and the comparison of uuids: a registered
  uuid is two of its bytes and a type, and comparing it with one from an event compares those.
* Advertisement lists of an odd number of bytes, beyond what `FindsFirst` says.
* Start-up (`_start`, `__libc_init_array`), the linker scripts and build scripts.
* Reentrancy of user code itself, and its own variables.

## Plan

Done: `MicroappIpc` with `PrivateBuffers`, `InterruptRegistrations`, `MessageBuffer`
with `ByteStream`, `MeshBuffer`, `BleAsync`, `BleConnections`, `LocalServices` and
`MeshStatistics`, `Advertisements`, `Identifiers` and `Presence`, each with proofs; and
`PeripheralLink`, which `BleConnections` is proved to implement. Every invariant and every
action property of the passing runs is a theorem.

Next, in this order:

1. `ConnectionResultTrue` where handlers use the device but never the operation that
   waits: which nesting is harmless is not settled by `ConnectTellsTheTruth`.
2. `PeripheralLink` with values and notifications of the characteristics, for which
   `NotificationKept` is a property of its own so far.
3. `MeshBuffer` with several readers, for the one message `readMeshMsg` hands out.
