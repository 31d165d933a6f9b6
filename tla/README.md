# Verification of goznp

goznp drives a Texas Instruments Zigbee coordinator (a Z-Stack chip on a serial
line) from Go. This directory models the program in TLA+, checks the models
with TLC on small instances and proves what matters most of them with TLAPS for
every value of the constants.

## 1. The system

```
 cmd/goznp   internal/daemon + internal/server (HTTP)
     |             |                 |
     |        pkg/message.Listener   |        pkg/event.Bus    pkg/ota.Server
     |             |                 |
     |             +---- pkg/state.Manager
     |             |
 pkg/adapter.Adapter --- deviceManager, dedupeCache, ZCL request engine,
     |                   cluster operations, interview, diagnostics,
     |                   network management, backup
 pkg/znp.ZNP --- Waiter, Request/Send, SYS ZDO AF UTIL APPCNF NV commands
     |
 pkg/unpi (frames, streaming Parser)
     |
 pkg/serial (port)  ~~~ serial line ~~~  the coordinator chip
```

### Inventory

| Component | State | Operations | Interacts with | Hard behaviour | What makes it correct | Modules |
|---|---|---|---|---|---|---|
| Serial port | an open file | Read, Write, Close | chip | short reads, errors | | not modelled: I/O |
| UNPI parser (`pkg/unpi/parser.go`) | byte buffer; channels `frames`, `errors` of 10 | Feed | readLoop feeds, frameLoop drains | corruption, resynchronisation, a full buffer, a full channel | Feed does not stop the client | `ZnpLifecycle`, from the items on |
| ZNP lifecycle (`znp.go`) | isOpen, stopReader, wg, callbacks | Open, Close, readLoop, frameLoop, callback goroutines | parser, waiter, adapter callbacks | shutdown while a goroutine is blocked, reopening | no frame is lost or overtaken; Close returns | `ZnpLifecycle` |
| Frame waiter (`waiter.go`) | map matcher -> id -> entry | WaitFor, Resolve | callers, frame loop | register, time out, cancel and resolve interleave | no live waiter is lost, none is served twice, none is left behind | `Waiter` |
| ZNP request path (`znp.go`, `sys.go`) | one goroutine, two channels of one per request | Request, Send, Reset | waiter, port, chip | the answer races registration, timers and cancellation; concurrent requests; an answer left over | a request ends once, with its own answer or an error | `ZnpRequest`, `RequestService` |
| ZDO exchanges (`zdo.go`, `zdo_device.go`) | none | a Request, then WaitFor an AREQ; paginated tables | request path | AREQ before the waiter, AREQ of another, start index of eight bits | the table that is returned is the device's, whole and in order | `ZdoTasks`, `ZdoExchange` |
| Interview (`interview.go`), network diagnostics (`diagnostics.go`, `network.go`) | none | descriptors and basic attributes with retries; tables of every device | ZDO, ZCL | one step of many fails, the context ends | success means every step was answered; every call ends | `ZdoTasks`, `ZdoExchange` |
| AF exchanges (`af.go`) | none | AfDataRequest, WaitForDataConfirm, WaitForIncomingMsg | request path | confirm or message of somebody else, gaps between waits | the confirm is the transaction's | `ZclRequest` |
| ZCL request engine (`messaging_core.go`) | transaction counter | sendZclRequest with retries | AF exchanges | a late answer to an earlier attempt | the answer belongs to the request if nothing else that passes the filter is going on | `ZclRequest` |
| ZCL codec (`pkg/zcl/types.go`, `frame.go`) | none | build requests, parse responses | engine, listener | lengths, null strings, nested collections, truncation | what is written is read back; records stay apart | `ZclTypes`, `ZclCodec` |
| ZCL cluster operations (`messaging_*.go`, `attributes.go`) | none | 129 methods on a device's clusters | engine, codec | which answer is taken for what; conversions; an exchange of several fails | a value is the attribute's, unless the answer was another call's, and unharmed; a write that succeeded was applied, unless it was given the answer to a rival | `ClusterAttributes`, `DeviceOperations`, `ClusterOperations` |
| Deduplication cache | key -> time | isDuplicate | listening loops | window, eight-bit numbers | a frame is taken once | `ClusterOperations`, without expiry |
| Adapter lifecycle, device manager (`adapter.go`, `device.go`) | isOpen, znp, deviceMgr, wg | Open, Close, indications, removal | ZNP, names, user's handler | lock held while waiting, events out of order, an Open that fails after events began | Close returns; the table follows the indications | `AdapterDevices` |
| Device name table (`device_names.go`) | none (the chip's) | get, list, set, delete: read, change, write back | NV memory | two callers, a write that fails half way, a full table, a corrupt entry | no update is lost, one entry per device | `DeviceNames`, `AdapterDevices` |
| NV memory (`nv.go`, `addr_mgr.go`) | none (the chip's) | chunked read and write, tables | request path | offsets of eight bits, gaps between chunks | what is written is what is read | `NvMemory`, `NetworkManagement` |
| Network management, backup (`network_mgmt.go`, `backup.go`) | none (the chip's NV) | FormNetwork, ChangeChannel, SetTxPower, FactoryReset, CreateBackup, RestoreBackup, DeleteAddrMgrEntry | NV, SYS, APPCNF | failure between two writes, two callers, a restart | the network is as asked for, and is lost only when asked for | `NvMemory`, `NetworkManagement` |
| State manager (`pkg/state`) | devices, slugIndex, sensors | add, remove, rename, look up, update, poll | adapter events, listener, HTTP | names that collide, pointers and snapshots that outlive the lock, an unlocked cache | slugs and devices agree, but for default slugs that are taken over; the state shown is the last reported | `StateManager` |
| Message listener (`pkg/message`) | none | Start | AF, state manager | competes with requests for messages | | `StateManager`, from a report on |
| Event bus (`pkg/event`) | subscriptions, channels of 100 | Subscribe, unsubscribe, Publish, PublishSync, Close | everybody | publish against unsubscribe, full channel, Close | nobody is skipped; the calls return | `EventBus` |
| OTA server (`pkg/ota`) | images, progress, RWMutex | QueryImage, ImageBlock, UpgradeEnd, MonitorProgress | devices | a lock taken twice, a lock not released | every handler returns | not modelled |
| Quirks, device database, colour and unit conversions | none | tables, pure functions | | | | not modelled |
| Daemon, HTTP server, command line | configuration | wiring | | | | not modelled |

`PROJECT.json` lists the hazards of each at their lines, with the properties
that would catch them going wrong.

## 2. The plan

The request path comes first: everything else is an exchange over it.

| | Modules | Status |
|---|---|---|
| 1 | `Waiter`, `WaiterProofs` | done |
| 2 | `RequestService` (abstract), `ZnpRequest` composing `Waiter`, `ZnpRequestProofs` | done |
| 3 | `ZnpLifecycle`: Open, Close, both loops, bounded channels, callbacks; proofs with those of row 10 | done |
| 4 | `EventDelivery`, `EventBus`; proofs with those of the next | done |
| 5 | `StateManager` with slugs, listener and poller; `StateEventProofs` | done |
| 6 | `ZclRequest` (sendZclRequest, data confirm, incoming messages), `ZclRequestProofs` | done |
| 7 | `ZclTypes`, `ZclCodec`: every data type, header, request and response | done |
| 8 | `ClusterAttributes`, `DeviceOperations`, `ClusterOperations`: the operations on clusters; `ClusterOperationsProofs` | done |
| 9 | `DeviceNames`, `AdapterDevices`, `AdapterDevicesProofs` | done |
| 10 | `ZdoTasks`, `ZdoExchange`: requests to devices, tables, interviews, diagnostics; `ClientProofs` | done |
| 11 | `NvMemory`, `NetworkManagement`, `NetworkManagementProofs` | done |
| 12 | `DeviceEvents`: `AdapterDevices` with `StateManager` and a network that hands out addresses | next |
| 13 | `OtaServer`, `UnpiParser`, the expiry of the deduplication cache | |

Abstract specifications: `RequestService` (done, and proved to be implemented);
a register with atomic get and set for the name table, implemented when nobody
interferes, which `NamesAreAsAsked` now states directly over a history.

Theorems left: the safety properties of the codec, which is recursive, and
`ValuesArriveWhole` of the operations (section 5 says why).

## 3. What is modelled

One step of a model is one critical section of the code, one operation on a
channel, or one call into the system below. What the scheduler may interleave
in Go interleaves here. Bodies that run under a mutex from start to end are one
step, which is what the mutex is for. The layers build on what the layer below
was shown to do: above `ZnpRequest` a request is one step with an outcome
(answered, refused, lost after it was carried out), and above `Waiter` a frame
goes to any caller that waits for its kind.

### `Waiter` (pkg/znp/waiter.go)

| Code | Model |
|---|---|
| `waiters map[FrameMatcher]map[uint64]*pendingRequest` | `waiters`, a set of entries `[matcher, id, call]`; storing replaces an entry of the same key (`SameKey`) |
| `nextID` | `nextID`; the wrap of its 64 bits is out of reach and left out |
| `req.response`, capacity one | `response[c]`, a frame or `NoFrame` |
| `close(req.done)` | `done[c]` |
| WaitFor, 62-78 | `Register` |
| the select, 85-98 | `TakeResponse`, `Expire`, `Cancel`; the last two are always possible, as a select with several ready cases takes any |
| the deferred function, 80-83 | `CloseDone`, then `RemoveWaiter`, two steps: `done` is closed without the mutex |
| Resolve, 105-147 | `Resolve`: `Deliver` to one entry after dropping any completed ones visited before it, or `Refuse`; Go's random map order is the choice of the entry and of the ones dropped |

### `ZnpRequest` (pkg/znp/znp.go, pkg/znp/sys.go)

Composes `Waiter` (instance `W`, on the same variables) with the callers of
`Request` and `Reset`, the goroutine each starts, the frame loop and the chip.
`CheckOpen` / `Write` are the two halves of `Request` up to the start of the
goroutine; `SpawnReset` / `CheckReset` / `SendReset` are `Reset`, which starts
the goroutine first. The goroutine is `Register` ... `Return` (WaitFor) and then
`Forward`, its one send to a channel of capacity one (`mailbox`). The caller
ends with `TakeResult` or `GiveUp`. `Dispatch` is the frame loop giving a frame
to `Resolve`. `CloseClient` and `LoopExit` are the part of Close that callers
notice. The chip is external: it answers in order, an answer or a request may
be lost (the parser drops a frame with a bad checksum), and it may send a frame
that answers nothing that is being asked (`ChipIndicates`): a reset of its own,
or the answer to a request of an earlier session. `contended` is a history
variable: the requests that were sent while another one for the same response
had been sent and had not come back with its own answer. "Answered" would be
too weak: a Reset that took an unsolicited indication leaves its own answer on
the line for the next.

### `RequestService`

What a caller is promised, and nothing about how: a request is issued or
rejected, and ends once, with a frame of its kind or an error; a frame ends at
most one request. `ZnpRequest` implements it under the mapping in `Service`.

### `ZnpLifecycle` (pkg/znp/znp.go, channels of pkg/unpi/parser.go)

Open is `OpenFlag` (under the mutex), `StartReader`, `StartFramer`; Close is
`CloseFlag`, `CloseStop` (close of `stopReader`, a panic when it is closed
already), `CloseWait` (`wg.Wait`), `ClosePort`. Each call of Open has its own
read loop (`reader`) and frame loop (`framer`). The read loop tests the stop
signal (`ReaderTop`), reads a chunk (`Read`), puts its items one by one into the
bounded channels (`Feed`, which is blocked while the channel is full) or backs
off after an error (`Backoff`). The frame loop takes a frame or an error or the
stop signal, whichever is ready, and handles it (`Handle`); device events start
a goroutine (`callbacks`) that Close waits for. Bytes are abstracted to items:
frames, device events, stretches the parser reports as errors. History:
`slipped`, a Close was through waiting before an Open that had set the flag had
started both its loops.

### `EventDelivery`, `EventBus` (pkg/event/bus.go)

`EventDelivery` has what the bus owes its subscribers, and the state that is
said in. Every subscription is stored under the type "", so the map is one
slice (`table`). `Subscribe`, `RemoveSub` (the locked half of unsubscribe) and
`Gather` (the locked half of Publish and PublishSync) are critical sections;
`CloseChannel` is the half of unsubscribe that runs before the lock. A call
then serves its receivers in the order of the slice, which is the order in
which they subscribed (`Turn`): `Send`, `Drop` (full channel: at once in
Publish, after five seconds in PublishSync), `GiveUp` (the context of a
PublishSync ends), `Panic` (the channel was closed meanwhile). After a panic
the program takes no step. `CloseBus` and `CloseWait` are Close.

### `StateManager` (pkg/state, pkg/message/listener.go)

| Code | Model |
|---|---|
| `devices` map | `present`, and `name`, `nwk`, `state` of the object of each address; `life` tells the objects one address had apart |
| `slugIndex` | `slugIndex`, the device or `NoDevice` |
| AddDevice, PopulateDevices | `AddDevices`: one device or several, none of them in the table |
| RemoveDevice | `RemoveDevice`; deleting from the unlocked sensor cache while the listener writes to it may end the program |
| SetDeviceName | `SetDeviceName`: `SameSlug`, `Conflict` (which clears the name) or `NewSlug`. SetDeviceNameByIdentifier looks an address up first and then is a `SetDeviceName` of it |
| GetDeviceByIdentifier | `Find`, for slugs |
| listener, UpdateState | `TakeReport` (find the device by network address), `FindObject` (look the IEEE address up and get the pointer: `object` says to which of its lives), `WriteState`, `CacheSensors` |
| pollOnce, RefreshDevice | `StartPoll` (a snapshot), `RefreshDevice` for each of it; a nil pointer ends the program |

Names are data; what counts is the slug of each, which may be empty
(`SlugFormat`, for a name of symbols only), and may be the default slug of a
device, "device-" and its address: SetDeviceName refuses that only while the
index says so, and a device that joins writes its default slug into the index
unchecked (`manager.go:133-135`). History: `contested`, the default slugs that
another device was named for while theirs was in the table, which the
properties except; `last`, the last report taken for a device since it joined;
`caught`, the reports whose device joined between GetDeviceByNwkAddr
(`listener.go:79`) and the look-up of UpdateState (`manager.go:261`), and so
are written to the new object.

### `ZclRequest` (pkg/adapter/messaging_core.go, pkg/znp/af.go)

| Code | Model |
|---|---|
| `transactionID`, nextTransactionID | `transactionID`, unbounded; what goes over the air is `SeqNum`, its remainder by `Width` (256) |
| the top of an operation (ReadAttributes and its like) | `Begin`: a request takes a number that its first attempt replaces, as in the code |
| the loop of sendZclRequest | `NewTransaction`, `Send` / `SendFails`, the two waits; every error is `Fails`, which leads to `BackoffEnds` / `BackoffCancelled` or ends the call |
| SendClusterCommand | a caller in `Commands`: one attempt, done with the confirm |
| WaitForDataConfirm | `AwaitConfirm`, then `Confirmed`, `ConfirmFails` (bad status, or the number of another) or `ConfirmExpires` |
| WaitForIncomingMsg | `AwaitMessage`, `WaitExpires`, `SkipMessage` in a loop until `DeadlinePasses`; the filter is `Wanted`: address and cluster, as `Admits` has it, in which zero filters nothing (`af.go:269-276`), so that `Basic`, which is cluster 0x0000, stands for every cluster and the coordinator for every device |
| the waiter table | `Dispatch`: a frame goes to any caller that waits for its kind and has none (what `Waiter` shows of the table); a frame nobody is given stays in `air` |

The coordinator and the devices are external: `Accept` puts a confirm, good or
bad, and a message, well-formed or not, on the way, in any order; `Report` is a
message nobody asked for. The message listener and a waiter that has just timed
out can only take frames away, as loss does. The endpoint is not part of a
target because the filter does not look at it. The adapter stays open.

### `ZclTypes`, `ZclCodec` (pkg/zcl/types.go, frame.go)

A number is the sequence of its bytes, lowest first, and carries the name of
the Go type it is handed over in, so that sign extension and cutting are what
the code does. `ReadValue` / `WriteValue` follow the type switches;
`ParseFrame` / `FrameBytes` the header with and without a manufacturer code;
`ReadResults`, `ReportResults`, `WriteResults`, `ConfigureResults`,
`ConfigRecords` the five parsers, and the `Build...` operators the builders. One
behaviour is one message: `Encode` (the program writes it) or `Answer` (a device
does: `DeviceBytes`), perhaps `Cut` (the end is lost), `Decode`. Payloads nest
(`Array` of `Struct`), so the module is recursive and stays with TLC.

### `ClusterAttributes`, `DeviceOperations`, `ClusterOperations`

`ClusterAttributes` has the attributes of every cluster of
`pkg/zcl/clusters.go` by data type. `DeviceOperations` has each operation of
`messaging_*.go` and `attributes.go` as a value: the exchanges it makes, what
it asks for, what it takes from the answer and through which conversion, and
what a failed exchange does (`errors`: "end", go on, or another is tried
"instead"). `ClusterOperations` runs them: `Refuse` (an argument out of range),
`Ask` and `Receive` or `Timeout` (an exchange through the ZCL engine),
`SendCommand`, `BeginListening` (WaitForSensorReport and its like, with the
deduplication cache), and the device: `Report`, `Repeat` (a frame twice),
`Drop`. As `ZclRequest` shows, an answer is given to any caller whose filter
lets it pass (`Admits`): that waits for the cluster, or for Basic, which is
number 0 and no filter. Attributes are numbers, and a read of Basic given
another cluster's answer takes what that has under the numbers it knows
(`Matches`): `Shares` says, from `FromZero`, `FromSixteen` and `At4000`, which
attributes have one number. A value is its Go type, the bits its magnitude
needs and its sign; a text is its length. `OperationsAreSane` says what all
operations of the table have in common, and is evaluated on it: what is taken
is asked for, an operation that takes the first record unseen asked for that
attribute only, and none writes where the answer to another write of its own
would be let pass.

### `DeviceNames`, `AdapterDevices` (pkg/znp/device_names.go, pkg/adapter/adapter.go, device.go)

| Code | Model |
|---|---|
| `a.mu`, held by Open and Close throughout and by a call for its check | `life`: `Locked` while Open or Close runs; `Enter` needs it free |
| Open | `OpenBegin`, `OpenWire` (port, ping, table and callbacks), `OpenEnd`; `OpenFail` and `OpenAbandon` (the client is closed, the table stays) |
| Close | `CloseBegin`, `CloseClient` (waits for the client's goroutines), `CloseEnd` (`wg.Wait`) |
| a goroutine per indication of the ZNP client | `pending`; `Handle` in any order, `Dropped` once the context of Open has ended |
| setupDeviceEventCallbacks, `deviceManager.devices` | `Applied`, `devices` |
| `a.wg`: the user's handler, the deletion of a name | `running`, `HandlerCalls` (the handler calls the adapter, as that of `examples/advanced/mqtt_bridge.go:131-169` does; `asking`) and `HandlerEnds`, which needs the mutex free if it called; `Cleaners`, which run a "delete" |
| RemoveDevice, ForceRemoveDevice | `AskLeave`, `Forget` (a nil table ends the program), then the deletion of the name |
| ReadDeviceNameTable, SetDeviceName, DeleteDeviceName | `ReadItem` entry by entry, `ReadEnds` (find the slot: `WithName`, `WithoutName`), `WriteItem` entry by entry; `RequestFails` anywhere |

History: `said` (the address last indicated), `unsure` (two indications of one
device under way, or dropped), `wanted` (the names a device may have), `mixed`
(two changes overlapped), `hurt` (at first an item did not parse or a device had
two entries). `Names` are the names users give; `CallsAreSane` and
`MemoriesAreTables` say what `Scenarios` and `Memories` are made of.

### `ZdoTasks`, `ZdoExchange` (pkg/znp/zdo_device.go, pkg/adapter/interview.go, diagnostics.go, network.go)

A task is a plan: a sequence of exchanges, each with the number of retries and
what a failure does (pass over, stop asking this device, end the call). An
answer may put more in front (`More`): the next page of a table (`NextPage`,
with the start index in eight bits), a descriptor for each endpoint, an
interview for each known device. An exchange is `Accept` (the coordinator's
response), `Register` (only then is the waiter registered), `Receive`,
`Timeout`; or `Answer` (what the coordinator answers itself), `Refuse`,
`SendInVain` (the context has ended; the frame is written all the same).
`ReadBasic` is the one ZCL read of an interview: it notes that an answer came
(`basicRead`), not what it told, since attributes with an error status or
absent are passed over without an error (`interview.go:349`). A frame is given
to any caller that waits for its kind; only the node and simple descriptor
compare the address (`Checked`). `Discard` is the frame loop finding nobody.
`strayed` notes who took an answer that was not its own.

### `NvMemory`, `NetworkManagement` (pkg/znp/nv.go, addr_mgr.go, pkg/adapter/network_mgmt.go, backup.go)

`NvMemory` has the operations as sequences of stages, with which errors are
dropped (`Try`), and the arithmetic of chunks and offsets (`NextOffset` wraps).
`NetworkManagement` runs them request by request: `WriteChunk`, `InitItem`,
`ReadValue`, `ReadLength`, `ReadChunk`, `ReadEntry`, `DeleteEntry`, `Tune`,
`GetInfo`, `SetChannel`, `Commission`, `ResetRequest`, `NwkUpdate`; the wait
for the new network is `Register`, `Stirs` / `Timeout`, `Starts`. `LoseRequest`
is a request that is refused or lost; any answer may be lost after the
coordinator acted. The coordinator is external: a restart (`Restarts`) clears
the network state if the startup option says so, `Starts` forms a network if
there is none (`NewNetwork`, which creates an item that was absent), and it has
its own affairs: `CountUpdate`, `LosePower`, `Join`. `Panic` is the nil client
after `Close`. An item is a sequence of cells of the item's size (`SizeOf`), or
empty when it is absent; the address table is as long as it is, an entry of it
two cells, so that a chunk can end inside an entry. The devices a call has read
are a set, from whichever table it read (`Parsed`, `Listed`); a device may have
two entries, and `Single` is where it has not. History: `begun`, `before`
(memory when a call began), `alone` (nobody else changed anything since),
`sound` (no request of the call failed). `ScenariosAreSane` says what a
scenario is: any memory whose items have their size or are absent, any extended
table, any list of jobs for each caller. `OthersKeepTheirEntries` and
`ErasedOnlyWhenAsked` except a memory that begins with the order to clear the
state in it, which a formation that failed in an earlier run leaves behind.

## 4. What the runs show

| Run | Instance | Result |
|---|---|---|
| `waiter` | 3 calls (two of one kind), 3 frames | no live waiter is unreachable (`WaitingIsReachable`), Resolve does not block (`ResolveNeverBlocks`), a frame has one receiver (`OneReceiverPerFrame`), a refusal is justified (`RefusedOnlyUnawaited`) |
| `requests` | 2 requests for one command, 2 answers, 1 answer left over | a request without a rival gets its own answer or an unsolicited frame (`CorrespondingUnlessContended`); the client implements `Waiter` (`ImplementsWaiter`) and `RequestService` (`ImplementsService`) |
| `requests_end` | a Request and a Reset, with fairness | callers return (`EveryRequestReturns`); goroutines end and leave the table (`EveryGoroutineEnds`) |
| `lifecycle` | 2 Open, 2 Close, 4 items, channels of 2 | no frame is lost, doubled or overtaken between parser and handlers, unless a Close slipped past an Open (`FramesKeepOrder`); what was read is handled (`EveryItemHandled`); Close returns unless the read loop got stuck (`CloseReturnsUnlessStuck`) |
| `bus` | 3 subscribers, a Publish and a PublishSync, channels of 1 | nobody is skipped but for a full channel (`EveryoneServed`); the calls return (`PublishReturns`, `CloseReturns`) |
| `state` | 2 devices with 1 and 2 lives, 3 names (one without a slug, one with the default slug of a device) and the empty one, 2 reports, a poller | the slug of a name leads to its device (`NamedDeviceIsFound`) and no two devices show the same (`SlugsDiffer`), but for default slugs taken over; a device shows the last report taken for it since it joined, or one caught by its rejoining (`StateOfThisLife`) |
| `zcl` | a request of two attempts to the Basic cluster and a command to another cluster of the device, one report of another device, numbers modulo 3 | who goes on has its own confirm, or one a whole round away (`ConfirmIsOwn`); an answer passes the filter, and is the right one when nothing else that does was asked or reported (`AnswerIsOwnIfUndisturbed`); retries are used up (`FailsOnlyWhenExhausted`); every call returns (`EveryRequestReturns`) |
| `codec` | every type, boundary values, lists of two records, messages cut short | what is written is read back (`ReadsBackWhatItWrites`); no record swallows bytes of its neighbour (`RecordsStayApart`); a cut message yields whole records, values included, up to the cut, or nothing, but for a change cut away whole (`CutYieldsNothingNew`) |
| `operations` | every operation alone, reads of every attribute, 17 pairs of operations, 3 of them with Basic | no value is taken for another attribute's, but from an answer that was not its own by a single read or one of Basic (`TakesOnlyWhatItAsked`), or harmed (`ValuesArriveWhole`), or asked for and dropped (`NothingAskedInVain`); a write reported as done was done, or a rival's was (`AppliedUnlessContended`) |
| `adapter` | 2 devices, 2 callers, 2 indications, 3 entries, 8 scenarios, 3 memories | the table is what the latest indications say (`TableFollowsIndications`); a device has the name it was given last, if no two changes overlapped (`NamesAreAsAsked`); Close returns but for the deadlock below, which a name to delete or a handler that calls the adapter makes (`CloseReturns`) |
| `exchanges` | a router, an end device, the coordinator; faults and cancellations | addresses, endpoints and tables are the device's, whole and in order (`AnswersAreWhole`); an interview without an error knows address, node, endpoints and descriptors, and had its read of Basic answered (`SuccessIsComplete`); every call ends (`EveryCallReturns`) |
| `memory` | 2 callers, 20 scenarios over a coordinator with a network, without one, or with a longer table | what FormNetwork leaves (`FormedAsAsked`); the other operations change what they are for and nothing else (`ChangesAreAsAsked`); what a call reports is in memory (`AnswersAreTheMemorys`); devices nobody asked to delete stay (`OthersKeepTheirEntries`); a network is lost only after somebody began to erase it (`ErasedOnlyWhenAsked`) |

Each property names its exceptions, and each exception is something the code
does; a property that held without them would be about a different program.

### Seen while modelling

What the models show, or showed when a property was first written down. The
lines are where it happens.

Client and requests

- The answer to a request can arrive before the goroutine has registered its
  waiter (`znp.go:164` starts it, `:211` dispatches): it goes to the frame
  handler and the request times out.
- Two concurrent requests for one command can get each other's answer: frames
  carry no number and the entry is picked in map order (`waiter.go:124`,
  against `doc.go:87`). A Reset whose predecessor took an unsolicited
  indication can be given the predecessor's late answer.
- Close never returns if the frame loop sees the stop signal first and the read
  loop is blocked in Feed on a full channel (`znp.go:118`).
- Open after Close starts loops that exit at once, because `stopReader` stays
  closed (`znp.go:96`); the Close of such a client closes it again and panics.
  An Open that runs during a Close starts a second read loop on the parser,
  which has no lock.
- Open sets the flag under the mutex, but counts and starts its loops after it
  (`znp.go:88-105`). A Close in between finds nothing to wait for (`:118`), and
  the next Open adds a second frame loop to the same channel: of two frames,
  each in the hand of one loop, the later can reach the handlers first.
- Resolve puts a frame in the channel of a call whose timer has fired but whose
  entry is still there, and returns true: nobody sees the frame
  (`waiter.go:126`).
- `Reset` only *starts* the goroutine that registers its waiter before it sends
  (`sys.go:164`). `Request` writes its frame though its context has ended
  (`znp.go:153`).

Devices and ZDO

- The waiter for a device's answer is registered after the coordinator's
  response (`zdo_device.go:181` and its like); IeeeAddrReq, ActiveEpReq and the
  tables do not compare the address, SimpleDescReq does not compare the
  endpoint: overlapping calls can take each other's answers.
- The start index of a page is eight bits wide, and an empty page of a table
  that has more is asked for again without end (`zdo_device.go:714`).
- An interview of a device without endpoints is a success; so is one whose
  attributes of the Basic cluster are refused or missing (`interview.go:349`).
  GetNetworkHealth
  counts a router it cannot reach as an end device.

Adapter and names

- Close waits for the WaitGroup with the mutex held (`adapter.go:356`), while
  the goroutine that deletes a name, counted by that WaitGroup, needs it: it
  waits for ever. So it does for a user's handler that calls the adapter, as
  that of the repository's own bridge (`examples/advanced/mqtt_bridge.go:131`)
  (`adapter.go:95` says all public methods are thread-safe).
- RemoveDevice uses the device table, CreateBackup and RestoreBackup the client
  without the mutex: after a Close in between they are nil (`device.go:422`,
  `backup.go:18`).
- When the context given to Open ends, indications are silently dropped
  (`znp.go:341`). A handler set before Open is not kept, nor is one across a
  Close (`device.go:223`).
- Two callers that change names lose one another's change, and a corrupt item
  shifts those behind it, so that a deleted name reappears
  (`device_names.go:247`, `:345`). The 201st name is written where it is never
  read. A device that joins and then announces itself keeps no capabilities.

Network and memory

- FormNetwork writes the PAN identifier nowhere (`network_mgmt.go:44`, against
  `:14`). A FormNetwork that fails leaves the order to clear the state: the
  restart of a later ChangeChannel erases the network (`network_mgmt.go:63`).
- FactoryReset reports success though its writes failed (`network_mgmt.go:297`).
  Of two overlapping calls, ChangeChannel can write back the network that
  FactoryReset erased.
- A failed read of the extended address table is taken for an empty one
  (`addr_mgr.go:87`, `:145`): a backup may have no devices, a delete may say
  that there is no such device.
- The offset of a chunk is eight bits wide (`nv.go:168`, `:234`): a longer item
  is read from its beginning again.

ZCL

- A call that waits for a confirm is given another call's, and fails at once
  (`af.go:195`). Two reads of one cluster of one device can get each other's
  answer, and a late answer to an earlier attempt is taken for the present one
  (`messaging_core.go:496` compares no number).
- A cluster ID of zero is no filter (`af.go:273`), and Basic is 0x0000: who
  reads from the Basic cluster, or writes to it, can be given an answer of any
  cluster of the device. ReadDeviceInfo can take the level of GetBrightness for
  the ZCL version (`messaging_basic.go:95`), a write to Basic the success of
  another.
- A string of 255 bytes is written with the length that means null
  (`types.go:655`, `:376`). A number too wide for a type of 24, 40, 48 or 56
  bits is cut. A reporting configuration cut just before its change is accepted
  without it (`frame.go:723`). ParseReadReportingConfigResponse loses its place
  behind a type that IsAnalogType leaves out (`frame.go:721`).
- A single read takes the first record without comparing the attribute
  (`attributes.go:40`); ConfigureReporting takes any report for success;
  WaitForSensorReport returns with any frame (`messaging_sensors.go:341`).
- GetDRLCInfo asks for two attributes it does not look at
  (`messaging_time.go:169`); ReadDeviceInfo looks at the product code, an octet
  string, as a text. The length byte of a PIN wraps beyond 255
  (`messaging_security.go:320`). ResetEnergy tries the factory reset of Basic
  first (`messaging_power.go:277`).

State and events

- A rename that conflicts clears the name but leaves the old slug in the index
  (`manager.go:212`): the device shows its default slug, which is not in the
  index, and the slug nobody shows is refused to all others.
- A device can be named for the default slug of one that has not joined yet, or
  that has another name. When that one joins (`manager.go:133`), or a rename of
  it fails or clears its name, both show that slug; after a join it leads to the
  new one, and when that leaves, to nobody.
- A report whose device leaves and joins again between the two look-ups
  (`listener.go:79`, `manager.go:261`) is written to the new object.
- A device that leaves between the poller's snapshot and its refresh is a nil
  pointer (`manager.go:309`). The sensor cache is an unlocked map
  (`sensor.go:62`); a listener that has its pointer when a device leaves puts
  readings into the sensor cache of a device that is gone. Nobody calls
  UpdateNwkAddr (`manager.go:288`).
- A Publish that gathered a subscriber who then unsubscribes sends on a closed
  channel and panics (`bus.go:87`, `:53`). `Bus.Close` closes no channel
  (`bus.go:47` says it does): a subscriber in the loop of the documentation's
  example waits for ever, and so does Close. Publish logs through a nil logger
  when a channel is full and the bus has none (`bus.go:91`, `:98`).

Read, not modelled: UpgradeEnd of the OTA server asks for a lock it holds
(`ota/server.go:310`), the monitor of a finished upgrade keeps the read lock
(`:451`), the block size is cut to eight bits (`:274`); a full parser buffer may
be thrown away with a good frame in it (`unpi/parser.go:33`).

### Bounds

- `Waiter`: three calls are the least where one call's cleanup and another
  one's registration surround a third, and three frames let each of them be
  given one; two matchers tell the kinds apart.
- `ZnpRequest`: every property but the unsolicited frame is about a pair of
  requests; a third one makes the state space too large and adds no new
  relation, and the theorems are for any number. Each frame is sent once and
  each request made once: a retry is another request.
- `ZnpLifecycle`: the capacity is 2 for 10 and a read carries up to 4 items for
  the hundred of 512 bytes: what matters is that a burst is longer than a
  channel by more than the item in hand. A channel of one holds no two frames
  for two loops to take, and hides that they overtake one another. Two lives of
  the client show what the second inherits. Item kinds put an event and an
  error before two frames.
- `EventBus`: capacity 1 for 100: full after one event. Three subscribers leave
  room for one in the middle of the slice. Identifiers are assumed distinct:
  they are readings of a nanosecond clock under the mutex (`bus.go:128`). Of
  two equal ones an unsubscribe could remove the wrong entry; that is not
  modelled.
- `StateManager`: a conflict needs two devices with a name each; a device that
  left and came back shows what its second object inherits; one device that does
  so (`MaxLives`) is enough, as no more than one report is in flight. A second
  report tells the last from an earlier one. One of the names has the default
  slug of the device that rejoins.
- `ZclRequest`: a second attempt is the least that can meet a confirm or an
  answer to the first; a second caller is the least that can take a confirm
  away. Four numbers are given and three are distinct, so they come round.
- `ZclCodec`: numbers are zero, one, the sign bit alone and all ones in the
  lowest and the highest byte; strings have 0, 1, 254, 255 and 256 bytes around
  the eight-bit length; a list has two records, the least where one can swallow
  a part of another; cuts are at every place up to 9.
- `ClusterOperations`: the pairs are of operations that wait for one cluster,
  or of one that waits for Basic with one of another cluster, a read and a
  write among them: nothing else makes them meet; `MaxReports` and `MaxCopies`
  are 1, enough for a frame that is not the answer; texts of 0, 17 and 300
  bytes lie below, above the sixteen some commands cut to, and above what a
  length byte holds.
- `AdapterDevices`: two indications of one device are the least that can
  overtake; two callers, each with one change, the least that can lose one;
  three entries make a table that can be full, with an empty or a corrupt item
  in front, or with two entries of one device; two sessions show what the
  second inherits. `Scenarios` says who calls what, so that each combination is
  small.
- `ZdoExchange`: `PageSize` 2 and three rows give a table two pages, the second
  not full; `Width` 5 stands for 256 and exceeds the longest table (a longer
  one is never read to its end, as said above); one retry, up to three faults.
- `NetworkManagement`: `Chunk` 3 and entries of two cells make chunks end
  inside an entry; `OffsetMod` 4 stands for 256, and one scenario has a table
  longer than the offsets hold; `Rounds` 1 is one missed wait; a scenario has
  at most two faults and one affair of the coordinator's own, so that pairs
  of mishaps are covered. `Fits` is the exception the eight-bit offset makes.

`CHECK_DEADLOCK FALSE` is set where the system may come to rest: all calls
returned and the chip silent, or the program dead. Each module has a type
invariant (`TypeOK`); it is an aid to the reader, and where a proof uses one it
is proved.

### Fairness

- `ZnpRequest`: a goroutine that can run does, and the timer of WaitFor fires.
  Nobody has to begin a call, to cancel or to answer.
- `ZnpLifecycle`: the serial port has a read timeout, so a Read returns;
  handlers and callbacks return (an assumption on the user of the client). No
  call of Open or Close has to be made. Which ready case a select takes is
  free. The callers do not open the client while it is closing (`Admitted`).
- `EventBus`: a Publish that began goes on, a timer fires, an owner finishes an
  unsubscribe it began. Nobody has to receive, to cancel or to unsubscribe;
  `CloseReturns` therefore has that as its condition.
- `ZclRequest`: timers fire (each wait, the deadline, the backoff) and a
  goroutine that can run does; a Request returns, which is what
  `EveryRequestReturns` of `ZnpRequest` shows. Nobody has to confirm or answer.
- `AdapterDevices`: Open and Close go on, goroutines run, requests end (again
  `EveryRequestReturns`), and the user's handler returns once the calls it
  makes got the mutex: one that calls while Close waits never does. Nobody has
  to open, close or call.
- `ZdoExchange`: each caller takes steps while it can; every wait has a
  deadline, so it can. No answer has to come.
- `Waiter`, `StateManager`, the codec, the operations and `NetworkManagement`
  are checked for safety only.

## 5. What is proved

In all, for every value of the constants that meets the named assumptions of
the module; an assumption about constants is evaluated by each run.

`WaiterProofs`, from `WaiterAssumption` (calls and frames are different things,
each has a matcher) and `ErrorsAreNoFrames`:

| Theorem | States |
|---|---|
| `Invariance` | `Spec => []IInv` |
| `WaitersReachable` | `[]WaitingIsReachable` |
| `SingleDelivery` | `[]OneReceiverPerFrame` |
| `OwnKind` | `[]ReceivesOwnKind` |
| `ResolveNonBlocking` | `[]ResolveNeverBlocks` |
| `TableClean` | `[]NoStaleEntry` |
| `RefusalJustified` | the action property `RefusedOnlyUnawaited` |

None of these is inductive alone: that a cleanup removes only its own entry
needs that identifiers are distinct. `IInv` adds

- `IdsDistinct`: calls that registered have distinct identifiers below `nextID`;
  with it, storing and removing by key touches one entry (`KeyIdentifies`);
- `EntriesOwned`: an entry is the one its call stored, the call has not
  finished its cleanup, and its channel is empty; this is why Resolve cannot
  block and why the table is clean;
- `DoneWhenClosed`: `done` is closed exactly from `CloseDone` on; so entries
  Resolve drops belong to calls that no longer wait;
- `NothingEarly`: no outcome before the select is left, nothing in a channel
  before Register;
- `RefusedArrived`: a frame is refused only after it was given to Resolve.

There is one lemma per group of actions; `Resolve` is split into delivery and
refusal.

`ZnpRequestProofs`, from `RequestAssumption`, `ResultsDistinct`,
`AnswersHaveTheKind` and `TableAssumption`:

| Theorem | States |
|---|---|
| `UsesTheTable` | `Spec => ImplementsWaiter` |
| `TableInvariance` | the invariant of `WaiterProofs` holds of the composition |
| `KeepsThePromise` | `Spec => ImplementsService` |
| `OwnAnswers` | `[]CorrespondingUnlessContended` |

The composition implements `Waiter` step by step (`InitWaiter`, `StepWaiter`),
so the invariant proved there carries over through the instance `WP` and need
not be proved again. On top of it `CInv` says that a result travels unchanged:
what is in the channel is what WaitFor returned (`MailboxIsOutcome`), what the
caller returned is what was in the channel (`ResultIsOutcome`), and what is on
the line was sent (`LineIsTrue`). With it each step is a step of
`RequestService` or a stutter; that a frame ends at most one request is
`OneReceiverPerFrame`. For `OwnAnswers`, `ChipKnows` says that the chip has a
request once and answers it once, and `Rivalry` that of two requests for one
response which were both sent, both are contended or one has its own answer: a
frame for the other would then be in two hands.

`StateEventProofs`, about the table from `NameAssumption` and
`ReportAssumption`, about the bus from nothing:

| Theorem | States |
|---|---|
| `TableInvariance` | `Spec => []IInv` |
| `NamedFound` | `[]NamedDeviceIsFound` |
| `SlugsUnique` | `[]SlugsDiffer` |
| `StateIsLastReport` | `[]StateOfThisLife` |
| `SlugsLast` | the action property `SlugsStay` |
| `NobodySkipped` | `Bus!Spec => []EveryoneServed` |

The argument: every method deletes from the index only the slug its device
shows (`OwnSlug`). `NamedDeviceIsFound` says where the slug of a name leads;
for a device that shows its default slug the invariant needs `DefaultsKept`:
that, unless contested, leads to it or nowhere, the latter after a rename that
failed. `ContestsNoted` says that a default slug two devices show is contested,
so that two names are what else can collide, and both would have to be found
under one slug (`DistinctSlugs`). No name is excluded. For the reports,
`ReportOnItsWay` says that the one in the listener's hand is the last taken for
its device, or was caught by a join since, or is for the object of an earlier
life, and then nothing has been taken for the present one: so writing it shows
the last report, is the exception, or changes nothing that is shown.

For the bus, whom a call has to serve is served or is among those it has yet to
serve (`Owed`). That it gathers all of them takes that whoever has subscribed is
in the table (`Tabled`), and that an unsubscribe takes only its own entry out of
it, since identifiers differ (`IdsDistinct`).

`ZclRequestProofs`, from `ZclAssumption`:

| Theorem | States |
|---|---|
| `EngineInvariance` | `Spec => []IInv` |
| `OwnConfirms` | `[]ConfirmIsOwn` |
| `OwnAnswers` | `[]AnswerIsOwnIfUndisturbed` |
| `RetriesUsed` | `[]FailsOnlyWhenExhausted` |

`IInv` adds where frames come from and whose numbers are whose: `IdsDistinct`
(no two callers have the same count), `SentByOwner` (a transaction went to the
target of the caller that has its number), `Genuine` for every frame on its
way, in a channel and in a result. That equal numbers on the air are the same
transaction or `Width` apart is `SameSeqNum`.

`AdapterDevicesProofs`, from `EventsAreCounted`, `CallsAreSane` and
`MemoriesAreTables`:

| Theorem | States |
|---|---|
| `DeviceTable` | `[]TableFollowsIndications` |
| `NamesStay` | `[]NamesAreAsAsked` |

`TableFollowsIndications` speaks of devices with no indication under way; what
the handling of one makes of the table needs to know that it is the only one and
the latest (`OneUnderWay`, `PendingIsLatest`), and a new session starts with an
empty table only because the client was closed, which waits for the indications
under way (`NoneWithoutClient`).

`NamesAreAsAsked` speaks of memory, which a call changes item by item, possibly
not to the end. Its invariant `NamesInv` says what the call that is at it has in
hand (`Held`), and that it is the only one unless two overlapped (`OneChanges`,
for which a goroutine that deletes a name is started once, `CleanersFresh`).
While it reads, its table has the entries of the items it is past (`ReadOK`,
`Collected`: the first entry of each device is there, and lies no further behind
than in memory, since items that do not parse are passed over). While it writes,
memory is the table up to where it is, and the first entry of every other device
is still to be found behind that (`WriteOK`). So whatever request fails, each
other device keeps its name. In a memory that was sound at first every item is
read, so table and memory differ in one entry (`ReadSound`, `WriteSound`), and
the device that is changed has the old name or the new one; in one that was not,
a deleted name may come back, which is the exception `hurt`.

`ClientProofs`, from `LifecycleAssumption` for the life of the client, and
`NetworkIsKnown` and `ScenariosAreSane` for the exchanges over it:

| Theorem | States |
|---|---|
| `FramesInOrder` | `[]FramesKeepOrder` |
| `LoopsOfOneOpen` | `[](OneCloser /\ OneOpen)` |
| `ExchangesKeepTheirPlans` | `[]ExchangeInv` |
| `WholeAnswers` | `[]AnswersAreWhole` |
| `CompleteInterviews` | `[]SuccessIsComplete` |

Frames stay in order because one frame loop takes them, so the proof is about
who may have one. `OneCloser`: the flag keeps a second Close away while one is
at work. `OneOpen`: the loops that run, or are being started, belong to one
Open, and after the wait of a Close there are none; it holds until a Close slips
past an Open. `FramersFollow` orders the steps of Open, and `FedBefore` says
that what is in a channel or in a hand was fed before, so that the next item fed
is above them all. `FramesKeepOrder` states the rest of what is needed: handled
frames, the one in hand and the channel ascend, in that order.

A ZDO caller follows a plan that answers lengthen and failures shorten, and the
proof is about what the plan still holds. `ExchangeInv` says of every caller
that was given no answer of somebody else that what it knows is true
(`KnowsOK`) and, until it failed, that its plan is `Fine`:

- `PlanOK`: a page is asked for where the rows that have come end (`Begun`), no
  table of a device and no list of its endpoints is asked for twice, and a list
  of devices, after which the plan grows by tables or interviews of all of
  them, comes last and before any table. The next page then continues the table
  (`PageLearnt`), and a table is whole only when the device said there are no
  more rows. For a table of `Width` rows and more the start index wraps, and
  nothing is claimed of its rows.
- `Nears`, for interviews: of each device to be interviewed, an error was
  noted, or what is not known yet is in the plan (`Toward`). Once the endpoints
  are told, the descriptors come in their order and those not yet had are the
  next exchanges of the plan, with the Basic cluster behind them (`Describes`).
  A failure that is passed over notes an error (`MissNears`), and one that ends
  the interview of a device leaves the plan from the next device on
  (`FromNextIsSuffix`); so at the end of the plan a device without an error is
  known (`NothingLeft`).

Of frames it needs only that the caller's own, among those on their way, answer
its present request (`Mine`): answers to earlier ones are nobody's. The steps
of others change neither plan nor knowledge (`StepIsOfOne`, `OtherCaller`).
Whether the read of the Basic cluster told anything is not claimed. What is
assumed: the table of devices has an entry once for each device
(`NetworkIsKnown`: it is the coordinator's, keyed by their addresses) and
callers ask for what the client offers (`ScenariosAreSane`).

`ClusterOperationsProofs`, from `BoundsAreNumbers` and `OperationsAreSane`:

| Theorem | States |
|---|---|
| `NoValueOfAnotherAttribute` | `[]TakesOnlyWhatItAsked` |
| `WritesWereApplied` | `[]AppliedUnlessContended` |

`IInv` adds what the frames in the air know. A list of records has all the
attributes its exchange asked for or none (`AnswersRead`), so an operation that
asked for one attribute and takes the first record has that attribute, unless it
is given the answer to another exchange, which the property excepts. A write
reported to have worked was heard by the device, in an exchange of the caller it
is for (`AnswersWrite`); given to another caller whose filter lets
it pass, it is a write of somebody else there, the second half of the property;
given to another exchange of the same caller, it is the same exchange, since no
operation writes where the filter of an earlier write would let the answer pass.
A record of another cluster is taken only where the filter let its frame pass
(`Admits`), which for a read means that it asked Basic, so that the frame was
not its own.

`NetworkManagementProofs`, from `ScenariosAreSane` and `SizesAreSane`:

| Theorem | States |
|---|---|
| `NetworkIsNotLost` | `[]ErasedOnlyWhenAsked` |
| `DevicesStay` | `[]OthersKeepTheirEntries` |
| `AlwaysOnTheWay` | `[](IInv /\ Typed /\ OnTheWay)` |
| `FormationsSucceed` | `[]FormedAsAsked` |
| `OnlyWhatWasAsked` | `[]ChangesAreAsAsked` |
| `AnswersAreTrue` | `[]AnswersAreTheMemorys` |

All are about any number of callers whose requests interleave and fail. The
first two rest on `IInv`. Once a formation was begun everything may go, so the
invariant speaks of runs without one (`NoForm`). Of each plan it says that no
stage of it can do harm (`SafeStage`: none writes the startup option, and only
a factory reset or a change of channel touches the network information) and
that what is written back was read in the stage before, without fail
(`Follows`). Of memory it says that no item changed its size, that the channel
is there, and that the cells of devices nobody asked to delete are what they
were (`MemoryOK`, with `Keeps`; `TableOK` for the extended table). What makes
it inductive is a statement about data that a caller read some time ago and has
yet to write (`CallOK`): it has the size of the item, and the cells of those
devices are the old ones in it, too (`PartRead`, `AllRead`, `Keeps`), so that a
write-back that is late by any number of other calls' steps undoes their
changes but harms nobody else. `Aligned` keeps a chunk that is read at its
place in memory: a table that fits the offsets never makes them wrap
(`ChunksFit`).

The other three are about what a call that succeeded, and that nobody
disturbed, leaves and returns. Their invariant follows such a call, one in
`alone`, through its stages: `OnTheWay` says that its plan is the operation's
(`AsPlanned`) and that, compared with memory when it began, it has done what
the stages up to where it is do, and nothing else. There is one such statement
per operation (`SetPowerWay`, `FactoryResetWay`, `SeamlessWay`, `RestoreWay`,
`GetPowerWay`, `ChannelWay`, `FormWay`, `BackupWay`, `DeleteWay`), by cases
over the stage, with one lemma (`...Steps`) that a request keeps it, answered,
lost or refused. In the middle of a table it says how much of it is read
(`ReadSoFar`) or written (`WrittenSoFar`). Here formations and the order to
clear the state are not left out, so what is known of memory is less than in
`IInv`: `Typed` says that each item has its size or is absent and that a plan
has the shape its operation gives it. What others do is short: who changes the
device is the only one left in `alone` (`OnlyOwnChanges`), and the way of every
other call depends on nothing that is changed (`OthersStay`, `SameWay`). The
last stage of each statement is the property.

Some theorems state properties no run checks, since a run that checks the
others shows nothing more by them: `OwnKind`, `TableClean`, `SlugsLast`,
`LoopsOfOneOpen`, and the invariants themselves, `AlwaysOnTheWay` and
`ExchangesKeepTheirPlans` among them.

Only model-checked:

- liveness under fairness (`EveryRequestReturns`, `EveryGoroutineEnds`,
  `EveryItemHandled`, `CloseReturnsUnlessStuck`, `PublishReturns`,
  `CloseReturns`, `EveryCallReturns`), which is beyond the proof system;
- the codec, which is recursive;
- `ValuesArriveWhole` and `NothingAskedInVain` of `ClusterOperations`: they
  depend on every row of the tables of operations and attributes, which the run
  goes through and a proof would only repeat.

## 6. What is not modelled

- The OTA server: the operations that serve a device are called by nothing in
  the repository but its tests. The planned `OtaServer` would show the two lock
  faults noted above.
- The byte level of the UNPI parser; the models begin at the frames and errors
  it puts in its channels.
- `SetState` compares the old value with the new (`device.go:86`), which ends
  the program if both are of a type Go cannot compare, as the value of a list
  is.
- Two readings of `UnixNano` that are equal (`bus.go:128`).
- The expiry of the deduplication cache: what is modelled is
  a cache that remembers; repeats outside the window are taken again, and no
  property speaks of them.
- Scaling of values, colour and unit conversions, the arithmetic of health
  figures: pure floating-point functions.
- Quirks and the device database: tables.
- The JSON of a backup file and the layouts of `structs.go`.
- Requests of the client that are one exchange and change no state of the
  program (the typed SYS, UTIL and APPCNF commands): each is a `Request`.
- The serial port, the command line, the daemon and the HTTP layer: I/O and
  wiring.

Logging, formatting and error wording are left out everywhere.
