# A TLA+ model of the RostovVPN core

The repository is the Go core of a VPN client: a process that runs a sing-box
engine on behalf of a Flutter application (FFI), of gRPC clients, of a
command-line program and, elevated, of another copy of itself that owns the TUN
device. This directory holds TLA+ modules translated from that code, the TLC
configurations that check them, and theorems the TLA+ proof system checks.
`PROJECT.json` ties every definition to the source lines it stands for, and
lists the hazards, the runs and the findings; paths below are under `src/`.

## 1. Inventory

| Component (source) | State it keeps | Operations | Hard behaviour |
|---|---|---|---|
| Core lifecycle (`v2/custom.go`) | globals `CoreState`, `Box`, `oldCommandServer`, `RostovVPNOptions`, `activeConfigPath` | Start, StartService, Stop, Restart, StopAndAlert, ChangeRostovVPNSettings, GenerateConfig, Parse | no lock: gRPC, FFI and command-server goroutines interleave between any two accesses; nil dereferences turned into StopAndAlert by some callers and into a crash by others; each of eight steps of a start may fail |
| Command server, ServiceReload (`v2/old_command_server.go`) | `oldCommandServer`, the service it serves | startCommandServer, ServiceReload, SetSystemProxyEnabled | a client of the server that is being replaced asks for the reload |
| Core status (`v2/coreinfo.go`) | `CoreState`, an observer with a buffer of 1 | SetCoreStatus, CoreInfoListener | events out of order, or missed |
| Tunnel service client (`config/admin_service_commander.go`) | `tunnelServiceRunning`, `tunnelServiceInstalled` | Activate, Deactivate, failover, Exit | an activation goes on in a goroutine for minutes, with retries, while Deactivate returns |
| Tunnel service (`v2/tunnel_service.go`, `v2/tunnel_platform_service.go`) | a core of its own, in another process | Start, Stop, Exit | requests of two goroutines of the client in any order |
| FFI command clients (`v2/command_client.go`) | the registry `ffiClients` | StartCommand, StopCommand | the lock is released between two halves of one call |
| Streaming gRPC clients (`v2/commands.go`) | one shared client per kind of stream | GetSystemInfo, OutboundsInfo, MainOutboundsInfo | the first stream owns what the others use; no lock |
| Extension host (`extension/`) | stored records, `enabledExtensionsMap`, a channel of capacity 1 and the `Data` of each object | Connect, SubmitForm, Close, EditExtension, service start | a send before the receive loop; read-modify-write of a record; accesses that fail half-way through a call; crashes |
| Store (`v2/db/rostovvpn_db.go`) | a key-value database per table | Get, All, UpdateInsert, Delete | opened and closed by each operation, which fails when a hundred attempts to open it do |
| Service manager, independent instances (`v2/service_manager`, `v2/independent_instance.go`, `v2/service.go`) | lists of services; engines beside the core's | StartServices, CloseServices, PingAverage, RunInstance | one service of several fails to close |
| Standalone runner (`v2/standalone.go`) | the current configuration | refresh loop | Stop and StartService as two unordered goroutines |
| Configuration builder (`config/*.go`) | none (but it activates the tunnel service) | BuildConfig, ParseConfig, DNS normalisation, WARP patches | unique tags, detours, rule order |
| System proxy control | none of its own | enable, disable | I/O |
| Command-line front ends (`cmd/`) | a stop file, shared by processes | start, stop, restart | processes that only see each other's file |
| gRPC servers, FFI and mobile entry points | none of the core's own | calls of the above | they are the concurrent callers |
| Extension web client (`extension/html/rpc/`: `extension*.js`, `formRenderer.js`, `connectionPage.js`, `client.js`) | the listing shown, `currentExtensionId`, the open form and dialog, open streams | list, toggle, open a page, submit, close, reconnect | handlers resume after an await into a page that has moved on; streams are never cancelled |
| RPC messages and stubs of the web client (`extension/html/rpc/*_pb.js`, `rostovvpnrpc/*.proto`) | the fields of an object | setters, writer, reader, one function per method | two sides generated apart; objects travel by number |
| Bridge, generated Go code, web assets, packaging | – | – | generated, vendored or static |

How they interact: the entry points call the core's functions directly, on
goroutines of their own. The core calls the configuration builder, whose
BuildConfig sends the tunnel service client to work; the core's Stop and
StopAndAlert call it back to deactivate. The engine and the command server are
libbox objects the core creates, binds together and closes; the command server
calls back into ServiceReload. Command clients, FFI or gRPC, are connections to
the command server. Extensions are loaded by a service the service manager
starts, and run in the core's process. The web client reaches the extension host
and the core over gRPC-Web, through the generated stubs and classes. The tunnel
service client reaches the tunnel service, another process with a core of its own,
over gRPC; and that core, whenever it stops, acts as a tunnel service client of
itself.

What makes each correct, in a sentence:

- core: whatever calls race or fail, its status never gets stuck in between, and
  a call that then runs alone tells the truth about what it leaves behind; while
  calls do not overlap, STARTED means a running engine, and none is leaked;
- command clients: at most one connection per command, never out of reach;
- extension host: what is loaded is what the records enable, data survive
  disable, enable and restart, and clients and forms get through; what an access
  to the database that failed has cost is named and bounded;
- stop file: an old file stops nothing unless it cannot be removed, a stop stops
  what is running;
- tunnel: while the flag is unset the tunnel is off, an undisturbed activation leaves
  it on, and requests, retries and the service's own Stops come to an end;
- web client: the list tells what the server has, forms and dialogs act on the
  extension they belong to, an open page keeps its stream;
- RPC: what one end sets under a name, the other reads under that name.

## 2. Modules

| Module | What it is |
|---|---|
| `CoreLifecycle` | the core, one action per access to a shared global; properties |
| `CoreContract` | what the core promises a client that makes one call at a time |
| `MCCore` | requests, sets of operations and of faults, and symmetry for TLC |
| `CoreLifecycleProofs` | theorems about the core under any interleaving, among them those about a call that runs alone after any races, and the invariants the next one builds on |
| `CoreEngineProofs` | theorems about engines and command servers for one caller; the core implements `CoreContract` |
| `CommandClients`, `CommandClientsProofs` | the FFI's client registry, and theorems |
| `ExtensionHost`, `ExtensionHostProofs` | the extension host over the store, and theorems |
| `ExtensionContract` | what the host promises clients while the calls that edit records do not overlap |
| `StopFile`, `StopFileProofs` | the processes of `rvpncli`, and theorems |
| `TunnelService`, `TunnelServiceProofs` | the client of the tunnel service and the service, two processes, and theorems |
| `WebClient`, `WebClientProofs`, `MCWeb` | the extension pages in the browser, theorems, and the pools and symmetry for TLC |
| `RpcMessages` | the generated classes, the server's numbering, and the codec between them |
| `RpcCalls` | the generated stubs, the server's methods, and a call from one to the other |
| `RpcProofs` | theorems about the tables, the codec and the calls |

### CoreLifecycle

A *caller* is a goroutine inside one of the core's entry points. `pc` says where
it is; every label is the point before one access to a shared global or one call
on an external object. An `if p != nil { p.m() }` is one step (one load, used by
the call), except where the code loads `p` again: Stop tests `Box` at
`custom.go:296` and calls `Box.Close` at 310, so between the two another caller may
clear it, and `StopClose` has the nil dereference as a disjunct. Panics follow the
deferred handlers: Start, Restart and Stop recover into StopAndAlert
(`Alert`), StartService called directly and ServiceReload do not, and the process
ends (`panicked`, `Crash`) and is launched anew.

Operations that call each other share their steps: Start's own Stop is
`Stop(c)` with `op[c] = "Start"`, and `StopReturn` is where the callers of Stop differ
(Start ignores its result, Restart gives up on an error but not on a recovered
panic, which returns `nil, nil`). The engines (`Instances`) and command servers
(`Servers`) are external: they run or not (`live`, `open`), a server serves an engine or
none (`service`), `Close` of one that does not run may fail, and a Close that
fails may leave it running.

`solo`, `fault`, `verdict` and `abandoned` are history: who ran with nobody else under
way from its first step to its last, whether anything external failed it, how it
ended, and whether the last Stop gave up between STOPPING and STOPPED. They let
a property speak of a single call *after* arbitrary races, which is what a user
does when the application hangs: press the button again.

Left out: `activeConfigPath` (written and read back by one pair of statements of the same
call; folded into the request's source), logging, memory limits, Parse, the contents of the
configuration, and the emission of events by SetCoreStatus.

### CommandClients

One action per section under `ffiClientsMu` and per call on a client. Nothing in
the code keeps two calls for one command apart; the module has a constant
`Overlapping`, the commands for which they may overlap, and the properties speak of
the others. Connections break at any moment (`Break`: the core stops, the
server closes) and the registry does not notice.

### ExtensionHost

One action per access to the database, to the map of loaded extensions or to a
channel. `Streams` are handlers of Connect, `Admins` handlers of the other calls. A record is
its enable flag and its data; Get and UpdateInsert are atomic, since each opens
and closes a database that only one may have open. For the same reason each may fail
(`Faults`), as getDB gives up after a hundred attempts, and what the code does then is what the
actions do: `isEnable` takes a record it cannot read for one that is not enabled; StoreData
only logs; EditExtension returns after its Get, having unloaded the extension if it was to
disable it, and ignores the result of its UpdateInsert; `init` leaves the Data of a new extension;
and a start writes a new record over one it cannot read, or ends where it cannot write or
load, leaving out the extensions it has not come to. The channel holds one
message (`queue`); UpdateUI waits for room. An object that was replaced in the map
lives on as long as a stream or a form holds it. What an extension's own code does
is external: SubmitData may change the Data and may update the UI; GetUI and
Close do nothing here. `Restart` ends the process at any step and loads what the records
say. The map is a plain Go map: two handlers that write it at once could end the
process outright, which is not modelled.

Three variables are history. `current` is the Data a client should find, that is, the last a form
set, except that a restart, or enabling what is already enabled, goes back to
the Data last stored. `lost` are the extensions whose Data a failed access lost, until a form sets
them anew; `missed` those whose last edit, or whose last start, met a failed access half-way, so that
they may be enabled and not loaded. The properties hold without either where nothing fails,
since both are then empty.

`ExtensionContract` is the same without objects, a map or steps: the calls that wait
(`asked`), which extensions are enabled, what is stored, and what a client finds
(`shown`). The mapping takes the flag and the stored Data from the records; a client
finds the Data of the loaded object or, where none is loaded, the stored
Data; and a call waits until its effect or its return. So an
enable takes effect at the write of the record, before its object exists (`Enable`, then `Load`), and an
EditExtension that stores, unloads and then writes the record is two steps of the
contract. What waits is part of the contract because a step that lost unstored Data in the middle
of a call would else pass for a restart. The failures of the database are the contract's too
(`Fails`): a call refused half-way, Data unloaded unstored, a load that finds none, a start that
resets a record; nothing else happens to flags and Data.

### StopFile

One process per invocation of `rvpncli`, each with a core of its own, reduced to
its CoreState; what they share is whether the file exists. Every call may fail, os.Remove
included, whose errors the code discards. `asked` records, for each running
start, whether a stop was issued since it was launched; `kept`, whether it failed to remove a
file that is still there.

### TunnelService

Jobs are goroutines of the application: an activation
(`startTunnelRequestWithFailover`), a deactivation its caller waits for, or one in the
background. A request may be handled and answered, handled with the answer
lost, never arrive, or be given up on: it then stays with the service (`late`),
which may handle it after whatever the client did next. The service answers or
not (`listening`), and its core is started or not (`tun`): CoreLifecycle is what that
stands for, one handler at a time. A Stop of it fails if the engine's Close does, after it has
deactivated; the engine may then run on (`stray`), in a core that is as good as stopped to every
later request. In the service's process nobody sets
`tunnelServiceRunning`, so every stop of its core leaves a goroutine that dials the
service itself and sends a Stop, and one more if that is refused (`echo`). The
service crashes and is restarted (`Kill`, `Launched`), the application quits and is
started again (`Quit`), which `rvpncli tunnel activate` does one second into its
activation.

`astray` and `fresh` are history. `astray`: the flag is unset though the tunnel may be
on, for one of these reasons the code has: a deactivation failed, found an
activation under way, which it does not cancel, or found an engine that would not close; or the
application was started anew. `fresh`: an activation that began with the tunnel off and nothing under way,
and met no fault. The application makes its calls one after the other, as the core does
while its own calls do not overlap.

Reading the code for this module showed what the exceptions mean to a user. A
deactivation during a pending activation returns, and the tunnel may come on
minutes later. A deactivation that failed clears the flag all the same, so the next one
answers true at once. One that finds the tunnel already off returns an error. An
activation while the tunnel is on sends Stop and then Start; the echo of the Stop
may arrive after the Start and turn the new tunnel off.

### WebClient

JavaScript runs a handler up to its next await; that is an action. `call` is what
the page awaits, answered in any order or taken for failed at any time; `stream` its event
streams, which deliver, fail ('error' alone) or end ('end', alone or after 'error'), and
whose timers connect anew. A form or dialog is known by its extension.

The server is the extension host reduced to the extensions' flags, with the steps of
its handlers that read or write one: `call[k].stage` says how far the handler of a call is. A Close, and an
EditExtension that disables, find the extension enabled (`GetExtension`), read its record
(`StoreGet`, which keeps the flag in `saw`) and write it back with that flag (`StorePut`), whatever
has been written meanwhile; EditExtension then writes its own (`EditPut`). Each may fail. A call the page
gives up, or forgets when it is loaded anew, is `left`: a handler that has begun
goes on, and a call that has not arrived may come to nothing or be handled at any later time. The
server does not restart in this module, and no second page edits.

`latest`, `lost`, `overlap`, `unseen`, `awaiting` and `cut` are history: the
properties need them to say when a listing may be stale, doubled or missing, and
when a page may be without form or stream, which the code allows.

Left out: the fields of a form; the listeners that `formRenderer.js:44` adds to the
dialog each time one is shown, so that the n-th dialog is answered n times; and the
connection page. Its Connect handler calls `setRostovVPNSettingsJson`
(`connectionPage.js:12`), which the generated class spells `setRostovvpnSettingsJson`
(`rostovvpn_pb.js:3737`), and throws there; its status stream hands the whole response to
a function that compares it with the states (72, 88-105). Its Disconnect handler works: it calls Stop
and shows the answer (52-62), one call without state of the page's own.

### RpcMessages and RpcCalls

A generated class of `*_pb.js` is some hundred and fifty lines that say four times over what its
fields are: in `toObject` (defaults), `deserializeBinaryFromReader`,
`serializeBinaryToWriter`, and the getters and setters. What they do with a field depends on its
number and kind alone. So a class is the table of its fields, in the order of
their numbers, each a name and a kind; and the four functions are four operators, once for all
classes: `New` and `Default`; `ReadInto` over the entries of a message (`ReadEntries`,
`Opened` for the embedded ones); `Write`, which lays the values it does not skip in
the table's order (`Parts`, `Lay`, `Skipped`); and `Put` (what a setter, `addItems` or a map
entry does). Messages embed messages to a depth of three, so the writer and the reader
of embedded messages are operators of a level each (`WriteItem`, `WriteGroup`, `Write`
and likewise for reading), not recursive ones, which keeps them within the prover's reach. The
table is what each class's lines in `map` were read for; the operators are mapped on
`OutboundGroupItem`, `OutboundGroup` and `OutboundGroupList`, which embed each other and show
most kinds. The values of strings and numbers, and how many entries a repeated field or a map
may have, are the constants `Texts`, `Integers32` and `MaxEntries`. A stub is its method's descriptor: path, unary or streaming, the
classes of request and response.

The server's side is written from the `.proto` files, not from the page's classes: numbers
(`Proto`), methods (`Methods`), and what a server of each kind registers. Two methods of the
`.proto` files, `Core/Setup` and `ExtensionHostService/GetUI`, have no implementation in the
Go services and are answered Unimplemented (`Refuse`).

In the run a number is 0 or 1: int64 fields are read into JavaScript numbers, exact up to 2^53,
which no count of bytes or seconds reaches.

## 3. Runs

| Run | Question | Bounds |
|---|---|---|
| `core_conc` | two callers race Start, StartService, Restart, Stop and ServiceReload: is a transition ever orphaned, and can a call that then runs alone always repair the core and report truthfully? | 2 callers, 3 engines, 3 servers, the FFI's request, `instance.Start` may fail; 2.1 million states |
| `core_serial` | one caller, every operation and every failing call, every kind of request, fair: is STARTED always backed by a running engine, does each transition end? | 1 caller, 2 engines, 2 servers |
| `core_engine` | the same without direct calls of StartService and with engines that close: is an engine ever leaked, is a closed one ever served, is `CoreContract` implemented? | as above |
| `core_reload` | does a reload keep the service? (**no**) | 1 caller, nothing fails |
| `clients` | a second or an unreachable client? | 3 callers, 2 commands, one of them overlapping, 4 clients |
| `ext_serial` | two streams and one caller of the other handlers, restarts at every step, any access to the database may fail: is what a failure costs what the properties and `ExtensionContract` name, and no more; does a form's update go through? | 1 extension, 2 objects, 2 values; 471 thousand states |
| `ext_connect` | does a client that connects get as far as listening? (**no**) | 1 stream, 1 admin |
| `stopfile` | does an old stop file ever stop a new start? | 2 starts, 2 stops, 1 restart, every call may fail |
| `stopfile_lost` | does a stop always stop? (**no**) | 1 start, 1 stop, nothing fails |
| `tunnel` | does the flag tell the truth, does an undisturbed activation hold, do requests, retries and echoes end? | 2 goroutines, 3 calls, 2 retries (5 in the code), 2 echoes and 2 requests given up on; 651 thousand states |
| `web` | do forms, dialogs, streams and the list keep up with clicks, answers and events in any order, and with handlers whose calls were given up? | 2 extensions, 2 calls and 2 streams at a time, 1 handler of a call that was given up (`MaxLeft`); 7.0 million states |
| `rpc` | does every message of every method arrive as it was set? | two values per string (`Texts`), number (`Integers32`) and flag, whole enumerations, up to 2 entries (`MaxEntries`), 2 messages in a stream; 15 thousand states |

Why these bounds are enough to be interesting. Two callers already give every
pairwise interleaving of two operations at every access, and each may follow
with a third call, alone or not: every race in `custom.go` is between a test
and a use by one caller and one write by another. `PoolRoom` admits a start while
the pools still have an object for each call under way, so a pool that ran dry
would only stop new calls, never change what a call does; three engines are
enough for a running one, one per caller, and for leaks to show. `RacingFaults`
keeps one failing call in `core_conc` (the one with most behind it to undo); all
seven fail in `core_serial`. In `ext_serial` two objects let
a stream listen to a replaced one while another stream and a form hold the loaded one; a third would be a
second replaced one. One extension shows what can become of each: records, objects and queues of two
share nothing but a start, which may end before it comes to an extension whatever the others are.
Symmetry is used in `core_conc` and `web`, which
check no liveness, over sets no definition tells apart.

In `tunnel` two goroutines are an activation and what races it; a third call sees
what the first two left. Two retries are one that is followed by another, and the
code's five only repeat the second. `MaxPending` = 2 lets the Stop and the StopAndAlert of
one Start each leave an echo, and an echo meet a late request. In `web` two streams
are a page's and one left over from an earlier page; two calls are a Close and a toggle, or either and a
listing, and the handler of a call given up is the third at the server. In `rpc` fields are independent, so two values per field show any
confusion of two; a descending order of fields stands for every order but the writer's
own, and one unknown field for a later version's.

Fairness. A goroutine that has a step to take is scheduled in the end, so
`FairSpec` is weak fairness of each caller's `Advance`; nobody is obliged to make a
new call, and no fairness is assumed of failures, of a client that leaves, or of
breaking connections. In `ExtensionHost` it is strong fairness, because a
sender waiting on a full channel is enabled only now and then, and the Go runtime
serves waiting senders in order of arrival. In `TunnelService` it is weak fairness of
each goroutine's steps, of late requests and of echoes: every dial and request of
theirs has a deadline, every wait a limit, and a handler returns. Nothing is assumed of the
application's calls, of crashes, or of the installer.

What the runs show, beyond passing:

- *Races* in the core leave it wrong for a moment but never stuck: STARTING and
  STOPPING are always someone's to resolve (`NoOrphanTransition`), except after a Stop
  whose Close failed; from there Stop and Restart refuse for ever and Start is
  the way out (`SoloStartRecovers`), because it ignores its Stop's refusal.
- While calls race, STARTED may be announced over an engine another caller
  closed, and engines may be leaked; `StartedMeansRunning`, `NoLeakedEngine` and
  `ImplementsContract` are stated for calls that do not overlap. StartService called directly (its gRPC
  method and `standalone.go` do) over a running engine leaks it, and so
  does a Start after a failed Close: both are excluded by name in `core_engine`.
- A **reload** always fails (`core_reload`): it closes the engine, then calls StartService with neither
  content nor a path, which reads the empty path and ends in StopAndAlert.
- A client that **connects** to an extension whose channel still holds a message
  blocks for ever (`ext_connect`), unseen by its stream's cancellation.
- A **stop** issued while a start prepares is deleted as an old one (`stopfile_lost`).

Two behaviours of the extension host are known and named in its properties rather than shown by a run:

- A **Close** writes back the enable flag it read (`extension.go:46-57`): an extension that was disabled
  meanwhile, by a second caller, is enabled again. With a second element in `Admins` TLC finds
  `OnlyEditsToggle` violated by it; the properties are stated for calls that do not overlap, and
  `ext_serial` has one caller.
- A **start** that cannot read a record takes it for missing and writes a new one over it
  (`interface.go:63-71`). Elsewhere a failed access costs less: the extension is not loaded until the
  next start, or its unstored Data are gone.

Each property of a passing run has a mutant in its module (marked `Mutant:`), a
plausible slip in the code it is about, that makes TLC find it violated.

## 4. Proofs

All are about every value of the constants: any number of callers, engines,
clients, extensions and processes. The assumptions are the named `ASSUME`s of each
module (constants are disjoint, `Nil` is none of them).

`CoreLifecycleProofs`
- `TypeCorrect` (`[]TypeOK`), from `CoreInv`, which adds to `TypeOK` what a caller holds
  (`FrameOK`): one about to start or publish an engine has created it, and one inside
  StopAndAlert knows where its caller goes on. The proof has a lemma per operation
  and a case per step.
- `NoOrphanTransitionEver` (`[]NoOrphanTransition`). The invariant is inductive given the types, once
  read right: every action that announces STARTING or STOPPING leaves its caller at
  a label in `Owing`, and an action that takes a caller out of `Owing` announces a
  stable status, sets `abandoned`, or leaves a status another step owes. It
  does not use any limit on callers.
- `SerialStartedMeansRunning` (`[]StartedMeansRunning` for one caller). The strengthening, `SerialInv`, says
  besides that the engine about to be published runs, that the published one runs from
  there until STARTED, and that no call is on its way down (`Down`) under a STARTED status.
- `SoloStopEver`, `SoloStartEver`, `SoloStartRecoversEver`, for any number of callers and whatever
fails. `SoloInv` says that who runs alone is the only one under way, that a
verdict stands only while nobody is, and what a lone caller has achieved at each
label of Stop (`StopAt`), of StopAndAlert (`AlertAt`) and of StartService (`StartAt`,
`FailAt`). Nothing is assumed of the state its first step finds: that is what makes
it a statement about the core *after* races.

`CoreEngineProofs`: `NoLeakedEngineEver`, `NoServiceAfterCloseEver` and `CoreImplementsContract`, from
`Careful`: one caller, no direct StartService, an engine's Close does not fail (the
conditions of `core_engine`; without each of the three a leak is real, as
section 3 says). `EngineInv` gives the engine that runs (`EngineAt`), the status announced (`StatusAt`)
and the call under way (`CallAt`) at each label, and says that only the published
command server serves and that what it serves runs (`ServiceInv`). Each step is then a
step or a stutter of `CoreContract`; `CallAt` shows that the process never panics, which no
step of the contract allows.

`CommandClientsProofs`: `ClientsTypeCorrect`, `NoStrayClientEver`, `OneClientEver`. The invariant
adds that calls on a non-overlapping command exclude each other, that a client is connected
only for the command it is kept under, and that while such a call holds a new
client the registered one is disconnected (`Quiet`): two connected clients would
have to be the registered and the held one.

`ExtensionHostProofs`, for one caller of the handlers other than Connect
(`OneAdmin`, without which the statements fail, as section 3 says) and any set of failing accesses, none included: `ExtensionTypeCorrect`,
`LoadedIffEnabledEver`, `OnlyEditsToggleEver`, `DataKeptEver`. The invariant has five parts: the types; which callers
hold an object or a record at which step (`Shape`); that a record about to be written back
holds the flag the store has (`FreshRecord`), which is where a second caller
would break it; that at each step of an edit what is loaded is enabled, and what is enabled is
loaded, missed, or being edited (`Flags`); and that where no access can fail nothing is lost or
missed and the record an Enable wrote is enabled when its load checks it (`Sound`). `DataInv` adds that the object a call found is
still the loaded one, that a record to be edited and an object to be loaded have the stored data, and that
what is about to be unloaded has been stored or is counted as lost. On the same invariant rests
`HostImplementsContract`: the extension of a form or of StoreData is enabled and loaded where
it takes effect, that of a refused call is not enabled or an access has failed, and every other
step changes nothing a client finds, `Delete` because what it unloads has been stored, unless the
contract's `Unload` says it was not, and `LoadMap` is the contract's `Load`
because the object it puts into the map was built from the record.

`WebClientProofs`: `TypeCorrect` and the five other invariants of the run, for any
extensions, calls and streams. The invariant adds that a toggle names an extension and that a
handler which found one works on it (`RightCall`), that without overlap one listing is in flight or has
been shown (`OneListing`), and that the answer of the latest listing agrees with the server as long as
no answer is due that is listed after (`LatestIsFresh`). What is written is then either the matter of a
toggle, or of a Close that is carried out at that very step, each of which lists anew when it is
answered and makes that listing the latest; or it is counted in `unseen`.

`TunnelServiceProofs`: `TypeCorrect`, `DeactivateHoldsEver`, `FreshActivationHoldsEver`, for any number of
goroutines, retries and calls. The last rests on an invariant about an undisturbed
activation: until it has sent its Start the tunnel is off and there is neither an echo nor a late
request nor another goroutine, and from then on none arises that could turn it off.

`StopFileProofs`: `StopFileTypeCorrect`, `NoStaleStopEver`, from: whoever finds the file after it was to
remove the old one was asked to stop, or could not remove it.

`RpcProofs`, for any strings, numbers and bound on entries:
- `NumbersAgree`: both sides number the fields of each class alike, in the order of its table,
  which makes each number one field's. `StubsAgree`: every stub describes the
  method the server has under its path: service, messages, streaming mode. Both go through
  the tables, class by class and method by method.
- `RoundTrip`: what a writer lays down, a reader with the same table gets back, whatever
  the object. From the level of items to that of lists, each level uses the one below (`ItemTrip`,
  `GroupTrip`). It rests on lemmas about one message: the entries of `Parts` hold
  each field once, reading an entry of a table where numbers differ changes the
  field of that number only, and so reading all of them gives the
  object whatever their order. `RoundTripLater`: the same with the fields of a later
  version among them, which the reader skips.
- `TypeCorrect`, `RequestArrivesEver`, `ResponseArrivesEver`, `NothingDroppedEver`, from `RpcInv`: who
  acts when (`Staged`), all messages but the one under way have been read (`Counted`),
  and what is under way is an object of the method's class, what was read is what was
  under way (`Carried`), where the step that reads rests on the round trips.

Reading is a fold over a sequence, which calls for induction. The prover cannot instantiate
the library's induction theorem, which takes an operator, but it can use a theorem about a
set: `Induction` (a set of numbers with 0 and closed under + 1 is `Nat`) follows from
the well-foundedness of `Nat` by taking the least number left out, and a
statement about the function that reads is then one about the set of the lengths it holds for.

Only model-checked: liveness (`TransitionEnds`, `SubmitGoesThrough`, `Settles`), which the
prover does not do under fairness. Every other property of a passing run is proved.

## 5. Not modelled

- The emission of events by SetCoreStatus, the observer's buffer of 1 and its listeners
  (`v2/coreinfo.go`): the core's status is modelled, who hears of it is not.
- The three streams of `v2/commands.go` that share a client without a lock. They hand
  the client no logger, and `command_client.go:133` calls it when the client connects: the process ends
  before most of their interleavings matter.
- The refresh loop of `v2/standalone.go`, whose Stop and StartService are unordered; the core's runs
  cover the two operations racing, not the loop.
- The service manager and `PingAverage`: sequential code, a page each, whose hazards
  `PROJECT.json` names.
- The configuration builder: sequential construction of a large value, better
  served by the repository's unit tests; its one side effect, activating the tunnel,
  is in `CoreLifecycle`.
- The bidirectional `SayHelloStream`, which has no stub for the web.
- `extension/html/rpc.js` is the bundle of the modules of `extension/html/rpc/` with the
  gRPC-Web and protobuf runtimes; its own parts are third-party.
- System proxy control, the bridge, generated Go code, the gRPC servers' start,
  packaging and web assets (I/O without state of their own), and the insides of libbox, of
  the operating system's services and of extensions, which the modules treat as
  external and nondeterministic.
