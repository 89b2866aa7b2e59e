# A verification project for the ctnx firmware

ctnx is the firmware of a wall switch with screen and mini hub (ESP32, ESP-IDF, FreeRTOS). One build serves two
ecosystems: a Wi-Fi platform (a closed core library, `components/iotcore`, on top of the open `components/iotPlatform`
and `components/sdk`) and a BLE-mesh hub ("HC", `main/hc`, an empty submodule here, driven by the rest of `main`).
This directory holds TLA+ models of the parts where several tasks, timeouts, failures and restarts meet, the TLC
configurations that check them, and proofs that TLAPS checks.

    tlc -config MCDaoSync.cfg MCDaoStorage.tla     one model-checking run
    tlapm DaoStorageProofs.tla                     the proofs
    PROJECT.json                                   runs, mutants, definitions -> source lines, hazards

Paths below are relative to `src/`; `esp32/` is `components/iotPlatform/implplatform/esp32/`.

## 1. Inventory

### Components, their state and operations

| component | state | operations | module |
|---|---|---|---|
| NVS storage service, `esp32/dao/dao_common.c` | request queue, `dao_task`, stack frames that callers lend, flash | get, exists, list, set, batch, remove, remove all; blocking, asynchronous or with a callback; init, deinit | `DaoStorage` |
| Storage API, `esp32/dao/IOT_DaoStorage.c`, `IOT_DaoMgmt.c` | none | forwards to the above and maps error codes | `DaoStorage` |
| Data cache, `esp32/dao/IOT_Cached.c` | per namespace: slots, hash chains, LRU list, counters, one mutex, flush timer | get, set, delete, flush, invalidate, preload, clear, register, unregister | `Cache` |
| Platform timers, `esp32/IOT_TimerMgmt.c` | min-heap of timers in a growing array, mutex, thread | insert, cancel, deinit, firing; SNTP and wall clock | `TimerMgmt` |
| Device records, `components/sdk/dao/IOT_DaoDeviceMgmt.c` | four namespaces: identity, common, key, element states (cached) | add, update, get, remove, factory reset, asynchronous variants | `DeviceStore` |
| Group records, `components/sdk/dao/IOT_DaoGroupMgmt.c` | a list of members per group | add, remove, remove from all, factory reset | `GroupStore` |
| Wi-Fi and network, `esp32/network/wifi.c`, `IOT_NetworkMgmt.c` | driver, status, reconnect flag, slots of callbacks | init, deinit, connect, disconnect, scan, register; the event handler | `WifiNetwork` |
| Wi-Fi of the hub, `main/wifi/Wifi.cpp` | `wifiMode`, network in the driver's flash | init, connect, station, access point, scan; the event handler | `HubWifi` |
| Platform MQTT, `esp32/IOT_MqttMgmt.c` | handle, client, certificate, `isConnected` | init, configure, connect, disconnect, publish, subscribe, deinit; events | `PlatformMqtt` |
| Hub MQTT, `main/mqtt/Mqtt.cpp` | callbacks by topic filter, `connected` | add callback, publish; events | `HubMqtt` |
| Local TCP server, `esp32/IOT_TcpServer.c` | socket, `s_running`, server task, last client | init, deinit, send, set callback | `TcpServer` |
| BLE on NimBLE, `esp32/ble/IOT_BleMgmtNimble.c` | table of services, handles, connection | init, deinit, add services, advertise, notify; host events | `BleNimble` |
| BLE on Bluedroid, `esp32/ble/IOT_BleMgmtBluedroid.c` | the same, registration indices, pending payloads, connection | the same, driven by the stack's events | `BluedroidServices`, `BluedroidGap`, `BluedroidPeers` |
| Buttons, `main/peripheral/button.cpp` | ticks and event of each button, pairing window | 10 ms scan, events posted to the default loop | `Buttons` |
| Button LEDs, `main/peripheral/led_mgmt.cpp`, `led_rmt.cpp` | states, frame, blink counters, the state to restore | set, blink, blink task | `Leds` |
| Schedules, `main/timer/TimerSchedule.cpp` | list of daily timers, queue of ten | register, unregister, two threads; SNTP sets their clock | `Schedule` |
| Updates, `esp32/IOT_AppManager.c`, `main/ota/` | OTA status, the other partition, the boot partition | start, download, finish, restart | `Update` |
| Application, `main/main.cpp` | mode found at boot (WIFI, HC, DUAL_LISTEN) | start, two resets, restart after provisioning | `Application` |
| Everything else | | OS wrapper, logging, string and memory helpers, LCD, UI, HTTP, UART, SNTP, mDNS, Ethernet | not modelled; PROJECT.json says why for each |

### Interactions

Application, core library and SDK call the device and group records from any task. Those call the cache (element
states) and the storage API (everything). The cache calls the storage API while other tasks use it. The storage API
puts a request in one queue that `dao_task` serves; the caller waits for a semaphore in its own stack frame. The cache's
write-back flush is a callback of the platform timers, whose thread calls it outside the heap's mutex. BLE, MQTT, Wi-Fi
and buttons deliver events on tasks of their own. Nothing in the repository serialises these tasks above the mutexes
and the queue.

### What is hard, and what makes each part correct

- **Storage.** Timeouts in two places (room in the queue, the answer); an accepted request outlives the call that gave
  up on it and holds pointers into its frame. Correct: each call takes effect at most once and in its task's order; an
  answer is that of the call's own operation; lent and copied memory is alive when used and freed once; every call
  returns, every accepted request runs.
- **Cache.** The mutex is released around each storage call, and what was seen before is used after. Correct: three
  linked structures agree; the least recently used entry goes; what the only user of a key wrote is what it finds, also
  after evictions and failures; with write-through, acknowledged means stored, and cache and storage agree at rest.
- **Timers.** Callbacks change the heap that is being drained; a cancel takes elements out of its middle; growing may
  fail. Correct: a timer fires once, not early, in order, never after a successful cancel, and eventually.
- **Device and group records.** Multi-record updates without a lock of their own over a cache that may drop entries,
  calls that fail or lose power half way. Correct: no acknowledged value is lost by an update of another element; a
  removal that is cut short leaves nothing that can be looked up; one that succeeded leaves nothing; a group has the
  members the answers say it has.
- **Connectivity.** Events of drivers and sessions are handled late, on their own tasks, from flags that calls change
  meanwhile. Correct: at rest, what was told is what is; a connection that was asked for is pursued; what is registered
  is subscribed and reached; what a task may still dispatch to is not freed; one server task at a time.
- **Appliance.** A 16-bit hold time, a blink over a blink, a queue of ten timers, two updaters of one partition, resets in
  several steps. Correct: a hold is answered once; a blink restores what was set; a due timer is queued once; a success
  is a whole image; a reset that ran to its restart reset everything.

PROJECT.json "hazards" lists each at its line with the properties that cover it, or why none does.

## 2. Modules

| module | stands for |
|---|---|
| `DaoOps` | the operations of the storage as functions of a namespace: their results, what a failed or interrupted one leaves |
| `AtomicStore` | abstract: what the storage promises its callers |
| `DaoStorage` | `dao_common.c`: callers, queue, `dao_task`, shutdown, power loss |
| `DaoStorageProofs`, `DaoRequestsProofs` | theorems about `DaoStorage`: types and answers; requests, the memory they carry, and the refinement |
| `Cache`, `CacheProofs` | `IOT_Cached.c`, one namespace, and its theorems |
| `TimerService` | abstract: what a timer service promises |
| `TimerMgmt`, `TimerMgmtProofs` | the heap, its thread and the callbacks of `IOT_TimerMgmt.c`, and its theorems |
| `DeviceStore`, `DeviceStoreProofs` | `IOT_DaoDeviceMgmt.c` over cache and storage, and its theorems |
| `GroupStore` | `IOT_DaoGroupMgmt.c`; its theorems are in `ApplianceProofs` |
| `WifiNetwork`, `WifiNetworkProofs` | `wifi.c` under `IOT_NetworkMgmt.c`, and its theorems |
| `HubWifi`, `PlatformMqtt`, `HubMqtt`, `TcpServer`, `BleNimble`, `BluedroidServices`, `BluedroidGap`, `BluedroidPeers` | the other components of the connectivity |
| `ConnectivityProofs` | theorems about them |
| `Buttons`, `Leds`, `Schedule`, `Update`, `Application` | the other components of the appliance |
| `ApplianceProofs` | theorems about them |
| `MC*` | instances for TLC: model values, functions for the constants, symmetry; `MCConnectivity` and `MCAppliance` put components, `MCCacheSettings` two uses of `Cache`, side by side |

**Layers.** `DaoStorage` is shown to implement `AtomicStore`. `Cache`, `DeviceStore` and `GroupStore` are then written over
what `AtomicStore` promises: a storage call is one atomic step that may fail before or after it has written (`Ends`,
`Outcomes`), and a blocking one waits for the asynchronous requests queued before it. `DeviceStore` uses the cache
through what a namespace of `Cache` shows from outside: a sequence of entries per key, the one found first at its head
(a key may have two, see `cache_stale`), any of which may be evicted at any time.

**`DaoStorage`.** `pc[c]`, `call[c]`, `result[c]` and `sem[c]` are the frame of a call: `Enter` builds the request and
copies the payload, `Send`/`SendTimeout`/`SendToDeleted` are `xQueueSend` and its outcomes, `TakeAnswer`/`AnswerTimeout`
are `xSemaphoreTake`. `Receive`, `Execute`, `StoreResult`, `GiveSemaphore` and `Notify` are one turn of `dao_task`, split
where another task can see the difference. Pointers into a frame are the call's number `id`: `FrameLive` says whether
the frame is still that call's, and `Reaches` what a write through the pointer does when it is not: nothing visible, or,
with `FrameReuse`, a write into the frame of the task's next call, which lies at the same address. Deinit kills `dao_task`
wherever it is and erases the partition, as the code does. Values are the number of the call that wrote them. Each
function of the interface is an action of its own (`GetData`, `SetDataBatch`, `RemoveWithCallback`...). `AtomicStore` keeps
the calls that were issued and may still take effect (`pending`), each with its command; an effect takes one of them
away. What a failed or interrupted call leaves is `DaoOps!Outcomes`: of a batch, any prefix. That is what the code does and
less than its header promises, see `dao_batch`.

**`Cache`.** A region under the mutex is one action; a storage call outside it another (`LoadMiss`, `WriteThrough`,
`RemoveStored`); flushes and evictions write with the mutex held and are part of their action. Preload locks and unlocks
in the middle, hence `lock`. `slot`, `chain`, `lru`, `count`, `dirtyCount` are the array, the hash table, the list and the
two counters. `dirtyCount` wraps as the `uint16_t` does (`CounterMod`); a write-back invalidate, or a failed flush, frees a slot
that is still marked dirty (IOT_Cached.c:891-903), and it is modelled so. An entry without data is an error for a BLOB
(`GetHit`) and a copy from NULL, hence a restart, for a string or a number (`GetCrash`).

**`TimerMgmt`.** `StartInsert` reads the clock before the mutex is taken, `Insert`/`InsertFails` is the region under it;
`ReadTime`, `FireTimer`, `CallbackEnds`, `NothingDue` are the thread; a callback may do whatever a task may. `HeapifyUp` and
`HeapifyDown` are the code's loops, as recursive functions of a heap and the position the loop has reached.

**`DeviceStore`.** An add or update is get (hit, or `Load` and `Fill`), `Put` (compute the new state of the whole device
and set it in the cache) and `Write` (write through). A removal is a plan of steps that ends at the first error; its
asynchronous form posts each step and looks at nothing. The copy a call takes of what it found or loaded may fail for want
of memory, with the entry left in the cache. An element has one attribute.

**`GroupStore`.** Every call is a read (`ReadForAdd`, `RemoveFromGroup`, `NextGroup`) and a write (`WriteAdd`, `WriteRemove`, or
either's failure) of one list, which is how often it has each device; `RemoveFromAll` goes through the groups one after
the other. `owed` is what the answers say the list has, `torn` the groups of which nothing can be said any more: two
calls met on it, storage failed a read (`NextGroupFails`, answered with IOT_OK), a write or a factory reset
(`GroupResetFails`, which may have erased some), or its id does not fit the `uint8_t` that
`IOT_DaoGroupRemoveDeviceFromGroup` takes.

**`WifiNetwork`.** `driver` and the queue `events` stand for ESP-IDF, of which one order is assumed: the address of a link is
posted after its connection and before its loss. `HandleEvent`, `CheckSlot`, `FireSlot` and `Reconnect` are one turn of the handler,
which walks the slots of the callbacks while tasks register and unregister (`firing`): between the look at a slot and the call
an unregister may empty it, and the handler then calls NULL or what is in it by then. `Reconnect` may be refused by the
driver, which nobody looks at. `NwkDeinit`, `DriverDeinit`, `FreeCallbacks` and `DeinitEnds` are the steps of the stop. `StartConnect`,
`DriverCall` and `Resume` are `IOT_WifiConnect`: the reconnect flag off, the calls of the driver in their order, any of which
may fail, the flag on. **`HubWifi`** is the same for `Wifi.cpp`: `wifiMode` is assigned between the calls that change the
radio (`AssignMode`, `SetMode`, `SetConfig`, `StartRadio`), `station` is the network the radio is in, which a new configuration
does not change, and `quiet` says that something nobody hears of has left the radio where it was.

**`PlatformMqtt`.** `client` is esp-mqtt, whose task holds its lock while `MqttHandle` runs; the handle, the certificate and
`isConnected` have none. A configuration drops the client, frees and replaces the certificate and makes a new client
(`StartConfig`, `DropClient`, `CreateClient`). **`HubMqtt`**: `SessionBegins`, `Resubscribe` and `ConnectedSet` are `on_connected`,
one filter at a time; `PushCallback` and `SubscribeNew` are `addActionCallback`. **`TcpServer`**: `LoopTest`, `Accept`, `Serve`,
`ServerEnds` are the server task; only `s_running` and `s_serverTask` are shared with Init and Deinit, whose wait is bounded.

**`BleNimble`.** `accessDiff`, `services` and `current` are the driver's tables, `attrs` and `links` the host's. Adding services moves
the table (`MoveTable`, until whose end the host reads what is free), fills entries, counts them and registers them one after
the other, or empties them on failure, host up or not, while NimBLE keeps those it had registered (`AddServices`,
`CountServices`, `RegisterService`, `AddingEnds`, `RegisterFails`). A connection ends in the host (`LinkEnds`) before the driver's
callback runs and clears the handle (`Disconnected`). **`BluedroidServices`** is the same as a state machine: `requests` go to the stack, each event
(`ServiceCreated`, `CharAdded`, `ServiceStarted`) moves `reg`, `regSvc` and `regChar` on, and `bluedroid_addServices` waits
on a binary semaphore (`TakeSemaphore`, `AddTimesOut`); the table is moved (`BeginAdd`) before it is filled (`FillEntries`).
**`BluedroidGap`** has the two payloads of advertising, `adv_pending_mask` and `pending_adv_params`, which tasks that ask at once share
(`StartAdv`, `SetMask`, `ConfigRsp`, `ConfigData`), and a stack that may refuse a payload or the start (`PayloadSet`). **`BluedroidPeers`** has
the connections and the handle: it is cleared when the event of the end has been told (`DisconnectTold`), not when the link ends.

**`Buttons`.** `Scan(down)` is the whole 10 ms timer callback for every set of buttons that may be down. The histories (`held`,
`lastKept`, `keptAgo`, ...) are told from `down` and the time alone, not from what the code counted: they are what its answers are
compared with. **`Leds`**: each of
"set the state, write the frame, send the frame" is a step, of the application (`SetGroup`, `CallWrites`, `CallSends`) or the
blink task (`TaskSets`, `TaskWrites`, `TaskSends`). **`Schedule`**: `Look` is one turn of `TimerThread`, `RunDue` one of
`TimerDoThread`; the clock ticks (`SecondPasses`) and SNTP sets it to any second at any moment (`ClockIsSet`). **`Update`**: any number
of platform updates and the hub's, over one partition; the write-back before a restart (`FlushCaches`, also of a caller of
`IOT_ApplicationRestartChip`) may fail, and other tasks go on caching until the restart (`ValueCached`, `UpdateRestarts`).
**`Application`**: `app_main` step by step, the button's two resets step by step, each step of which may fail unseen (`Erases`),
provisioning, the hub, and a power cut between any two steps.

**Composition.** The components of `MCConnectivity`, and those of `MCAppliance`, share no variable of the program that a property
here is about: each has its own file-scope state and talks to a driver or a session of its own. A behaviour of the
program therefore projects onto each of them alone, and a state predicate of one holds in every interleaving if it
holds while the others stand still. Both modules say so by a variable `part` that picks, once, which component moves; the
state space is the sum of the components' and not their product, which TLC could not finish. What does connect them (Wi-Fi
is up, the stack was stopped, the caches were flushed, a loop of events exists) is a free choice inside the component that sees
it. Where components do share state, the storage under cache and records, they are composed through `AtomicStore`.

## 3. Runs

| run | asks | bounds |
|---|---|---|
| `dao_sync` | do blocking calls get their own answers, is `AtomicStore` implemented, while frames are reused, NVS fails and memory is short? | 2 tasks x 2 calls, 2 keys, a batch of 2, queue of 1; no late answers; all eight blocking calls |
| `dao_async` | is every payload copy freed exactly once, is a lent batch read only while lent, does a callback tell its own operation's code, is `AtomicStore` implemented, with late answers, a shutdown or a power loss? | 2 tasks x 2 sets or batches, queue of 2, 1 shutdown |
| `dao_live` | do calls return and accepted requests run? | the same with removals, blocking and asynchronous |
| `dao_late_answer` | (violation) can an answer be that of an earlier call? | late answers and reused frames |
| `dao_batch` | (violation) does a batch that fails leave nothing? | 1 task, a batch of 2, NVS errors |
| `cache` | does the only user of a key find what it wrote, is it stored when acknowledged, is the entry evicted the least recently used, with failing storage and memory, under both policies and every call but a preload? And when two tasks use every call on the same keys: do array, chains, list and count agree, does every operation end? | 2 tasks; 3 keys of one user each in 2 slots and 2 buckets; 2 shared keys in 1 bucket |
| `cache_stale` | (violation) do cache and storage agree at rest in a write-through namespace? | 2 tasks, 1 key, 2 values |
| `timers` | is the heap a heap and a `TimerService`, and does every timer end? | 1 task and the callbacks, 6 timers (the smallest heap in which a cancel must sift up has 6), an array that must grow at 4 |
| `devices` | are acknowledged states kept, does a removal leave nothing, or no identity, when it fails or is cut off? | 1 device, 2 elements, 2 values, queue of 1, 1 restart; a writer with 2 calls, a second task that reads or not, or resets |
| `connectivity` | does each of the connectivity components agree, at rest, with the driver, session or peer it talks to? | 1 task on the network, 2 callers of every other interface; 2 slots, 2 events (3 of the hub's); 3 server tasks; 2 UUIDs, links and peers, 3 services; 2 failures |
| `appliance` | does each of the appliance's components do once, and in the end, what it was asked for? | 2 of everything, 3 timers for a queue of 2, hold thresholds 1, 3 and 5 with a count that wraps at 7, one group id above a byte |
| `boot` | (violation) does the start get as far as IOT_CoreInit? | `app_main` with the assertions of `sdkconfig` |

What the two composed runs check of each component: `StatusAgreesAtRest`, `ToldHoldsAtRest` and `NetworkPursued` (`WifiNetwork`'s
`NeverLeftAlone` and `HubWifi`'s `NeverGivesUp`), `NeverSilentWhileUp` and `NothingDangles` (`PlatformMqtt`), `RegisteredIsHeard` (`HubMqtt`),
`OneServer` (`TcpServer`), `ReachesTheRightEnd` (`BleNimble`, `BluedroidServices`, and `BluedroidPeers` for notifications), `AdvertisesWhole`
(`BluedroidGap`); `MembersKept` (`GroupStore`), `HoldAnsweredByLength` (`Buttons`), `LedsRestored` (`Leds`), `NothingMissed` (`Schedule`), `SuccessIsWhole`
(`Update`), `ResetIsComplete` (`Application`). The largest are `connectivity` (1.5 million states) and `appliance` (1.1 million).

**Exceptions.** Several properties leave out what the code does not survive, kept in a history variable and named in the
property's comment. They say that everything else is survived, and nothing of the excepted case:

| property | says nothing of | because then |
|---|---|---|
| `BatchBorrowed` | a batch whose own call gave up waiting (`abandoned`) | `dao_task` reads entries nobody holds any more |
| `ReadsOwnWrites` | a key whose dirty entry was dropped | the value is lost, as invalidate and unregister do it |
| `NetworkPursued` | a reconnection the driver refused, a failed connect (`wanted`); of the hub, a network set while the radio idles or is in another, or one that could not be read (`quiet`) | nobody tries, or the station stays where it was |
| `NeverSilentWhileUp`, `NothingDangles` | after a stop or a configuration that failed (`stopFailed`, `configFailed`) | the flag, or the certificate, is not put back |
| `RegisteredIsHeard` | a callback added while `on_connected` subscribes, a subscription that failed (`unheard`) | it waits for the next session |
| `OneServer` | a deinit that gave up its two seconds, or met an init (`untidy`) | two server tasks accept |
| `ReachesTheRightEnd` | a UUID added twice, a stack stopped and started (`reused`), an attribute left by a failed addition, the moment the table is moved; under Bluedroid, after a failed call (`failed`) | handles or memory of another are used |
| `AdvertisesWhole` | a start that met another task's, was refused or was shut down (`unclean`) | half the payloads, or another's parameters, are on the air |
| `MembersKept` | two tasks on one group, a failure of storage on it, an id above a byte (`torn`) | a change, or the whole list, is lost |
| `LedsRestored` | a change of a group that met another under way, also one blink begun by the blink task between the assignments of its count and its state (`mixed`, led_mgmt.cpp:156-163) | the blinking or an earlier state is restored |
| `NothingMissed` | a second that passed before the thread looked, an eleventh timer in the queue (`late`) | the timer does not run that day |
| `SuccessIsWhole` | two updates at once (`met`); a write-back that failed, a value cached after it (`excused`) | a success tells of another's image, or of none; the value is lost |
| `ResetIsComplete` | steps that failed, a device taken anew meanwhile (`failed`, `taken`) | it says which must have failed |

The bounds keep each question's interesting case: a full queue needs one place and two tasks; reuse of a frame needs two
calls of one task; a duplicate entry needs two loaders of one key, and an eviction fewer slots than keys; an event that is late
needs a second connection and room behind it; a callback lost by the walk over the slots needs two slots. the window between two lookups of a pairing needs two buttons, and a hold as long as the counter a counter that wraps
at 7. `cache` runs `Cache` in two settings that it chooses between at the start, since private keys and shared ones are
promised different things. In `devices`, symmetry is over
elements and values, which the module only compares. Every property has a mutant in the code's definitions (PROJECT.json) that
makes TLC report it violated.

**Found.** Four runs end in violations of what the sources say:

- `dao_late_answer`: a late answer is written through pointers into the frame of the caller's next call, which then
  returns it as its own. The header promises a timeout error and nothing else; the code needs late answers to be
  impossible or frames not to be reused, which is exactly the hypothesis of `AnswersAreOwn` and of `PromiseKept`.
- `dao_batch`: a batch is written entry by entry, and one that fails half way leaves the entries before; the header promises
  that nothing is committed then. `AtomicStore`, which the other runs check, therefore lets a prefix stay.
- `cache_stale`: a write-through set updates the entry under the mutex and the storage after it; two sets, or a set and
  a missed get, leave a cached value that is not the stored one although every call answered IOT_OK.
- `boot`: `Wifi::init` and `IOT_InitPlatform` both create the default event loop; with assertions the second aborts, and in
  WIFI_MODE and DUAL_LISTEN the device restarts before IOT_CoreInit, every time. (`appliance` runs the same module with and
  without assertions; without them the start goes on.)

The models also show, without a run of their own, where code and text part:

- IOT_MqttMgmt.h:255 says IOT_MqttDisconnect triggers IOT_MQTT_EVENT_DISCONNECTED. esp_mqtt_client_stop dispatches no event,
  so nobody is told; `PlatformMqtt!Stop` is silent accordingly.
- main.cpp:117 logs "Rebooting to enter DUAL_LISTEN / SoftAP Mode" after the reset of the hub's part. A device that the
  platform has provisioned starts in WIFI_MODE, without access point. `ResetIsComplete` only says that it does not start in
  HC_MODE.
- IOT_AppManager.c:292 says "Every controlled reboot must flush". The restarts of ota.c and main.cpp do not, and those of
  IOT_AppManager.c ignore whether the flush worked (268, 294).
- IOT_Cached.h:90 says that an unregister flushes dirty data first; what could not be written is dropped.
- IOT_DaoDeviceMgmt.h says of the factory reset that it clears the cache; it flushes it.

**Fairness.** `DaoStorage!Fairness`: `dao_task` keeps running, and a wait ends because it has a timeout; nothing forces a
send to succeed or an answer to be in time. `Cache!FairSpec`, which `MCCacheSettings` repeats for the shared keys: weak fairness for steps that need no lock, strong fairness
for those that lock the mutex in mid-operation, since FreeRTOS hands a mutex to the first waiter of the highest
priority. `TimerMgmt!FairSpec`: time passes, the thread runs, an insertion under way ends; strong fairness of
`CallbackEnds` says a callback does not go on inserting timers forever. Only runs with liveness use these. That a
connection is pursued and a blink ends is stated at rest, without fairness: nothing in the code makes a driver's event come.
`TimerMgmt` keeps its clock within one cycle of the 32-bit milliseconds: across the wrap the order of the heap is
meaningless in the code, which is listed as a hazard.

## 4. Proofs

Every theorem holds for any sets of tasks, keys, devices, callbacks and so on, and for any bounds. The assumptions are the
ASSUMEs of the modules, which TLC evaluates on every run, and the hypotheses named below. Each proof has an inductive
invariant, one lemma per action or group of actions, and PTL to join them.

**`DaoStorageProofs`**: `TypeCorrect`, including that the queue never exceeds its size, and `AnswersAreOwn`: if answers
are never late or frames never reused, a blocking call that returns an answer returns its own operation's. `AnswerIsOwn`
speaks of what a call has returned; it is inductive only with where answers are before that. `IInv` adds: a request is in
the system once and carries a number its task has issued (`RequestsDistinct`); an unexecuted call has no logged answer
(`NotYetRun`); a task that has not sent has a fresh frame (`SendingIsFresh`); no accepted request points into a dead frame
that could be reused (`PointersLive`, where the hypothesis is used); what `dao_task` holds is what the log says
(`AnswerOnItsWay`); a given semaphore means the answer is in the frame (`AnswerDelivered`).

**`DaoRequestsProofs`**: `CallbacksTellAnswers`, `PayloadsOwned` (both without a hypothesis: late answers, reused frames,
shutdowns and power losses included) and `BatchesBorrowed` (under the hypothesis of `AnswersAreOwn`; with late answers, the
batches whose own call gave up waiting are the exception). `RInv`, which they
share, is about requests alone: those of a task wait in the order of its calls and none comes after a later one
(`InOrder`, `NoneSince`), and the mode of a request fits its operation. `CopiesOwned` then follows each payload copy from
the call that made it to the request that frees it, on every path that gives up, and `LentHeld` each lent batch to the
semaphore. Without the order a copy could be the one of a later call.

It also has `PromiseKept`, Spec => KeepsPromise: `DaoStorage` implements `AtomicStore` under the hypothesis of
`AnswersAreOwn`. Under IInv, RInv and `GivenHasRun` every step of the callers, the queue and `dao_task` maps to a step of
the abstract store or leaves it as it is; the order of requests gives the abstract order of effects, and what `ToRun`
says may still run is what the abstract store has pending.

**`DeviceStoreProofs`**: `TypeCorrect`, including that no state outgrows its 65535 bytes; `RemovalComplete` and
`IdentityGoesFirst`, for a device with one writer, whatever other tasks read, reset or remove, what fails, and when the
power goes. These two share an invariant. `Underway` ties the plan of a removal to the storage: the kinds it has behind it
are gone, and after its first step nothing can bring them back (`NotWritten`: no call that writes the device is under way
and no queued request has data for it). This holds because the first step of a removal blocks behind every request queued
earlier, and because the only writer is the task that removes. `GoneStays` carries it on after IOT_OK; `Compared` says
that while a removal is measured against what was there when it began, no reset and no request interferes. `UpdatesStay`:
what a task had acknowledged for an element is not lost by its update of another one, while it is the only one that uses
the device, whatever is evicted, fails or is restarted. `KeepInv` follows the value: the cache has at most one entry and
none while storage is being read; the state that a call carries has every acknowledged value, and is the entry when it
goes to the storage; and nothing is acknowledged of a device whose state is being removed or for which a reset is queued.

**`CacheProofs`**. A state of the cache is a value (`Here`), so the lemmas about the helpers (link, unlink, evict, flush)
say what each makes of any state in which array, chains and LRU list agree (`Fits`). `CacheTyped` and `LinksStay` hold of
any use, of keys with several users, too: `TypeInv` is `Fits`, the locals of the calls under way, the histories and who
holds the mutex between two steps of a preload. `OwnWritesAreRead`, `WrittenThroughIsStored` and `RecencyKept` assume
only that nobody preloads (`NoPreload`: a preload inserts keys of others); invalidations, unregistering and restarts are
allowed under both policies, also where they drop what was not written, which the history of the key then forgets.
`OwnInv` adds three facts, of the state, of each key and of each call. No entry is dirty under write-through, and the
list is in the order of the last uses (`StateRight`). A key with
one user has at most one entry, and the entry, or the storage if there is none, has what the user last wrote (`KeyRight`).
While its user loads, inserts or removes it there is no entry, what will be inserted is what is stored, and while it is
being written or removed nothing is promised (`CallRight`). Evictions and flushes keep these facts for every key at once
(`Kept`, `Keeps`).

**`TimerMgmtProofs`**: `TimersTyped`, `HeapStaysOrdered` and `ServiceKept`, the refinement of `TimerService`. A loop of
the heap moves a position one way, so what one turn passes on holds of what the loop returns. What sifting up passes on is
that the order is broken at most at the position reached (`MayRise`); sifting down, after a cancel has put the last timer
in place of the one that goes, that it is broken below that position, or above it as long as nothing has moved
(`MaySink`); no turn loses or doubles a timer. `TimerInv` adds that the heap has exactly the timers that are waiting, each
once and with its time. `ServiceKept` assumes that the clock does not wrap (MaxTime < TimeMod): across the wrap the order
means nothing.

**`GroupStore`** (in `ApplianceProofs`): `GroupTypeCorrect` and `MembersAreKept`. Of a group that is not torn, what is
stored is what is owed, a task between its read and its write holds the list that is stored (`CopyIsStored`), and is the
only one (`OneWriter`). A removal from all groups that fails in one, or a reset that fails, tears what it touched and leaves
this of the others.

**`WifiNetworkProofs`**: `NetworkTypeCorrect`; `StatusAgrees`: the last event in the queue, or the status if there is
none, is what the driver is (`LastWordHolds`); `ToldHolds`: whoever was told something, and is registered for its
opposite, is told that opposite if it is the last word, or the walk over the slots has still to come to it, or stands between its
look at the slot and the call (`PostedSettled`, `ToldSettled`); and `ConnectionPursued`, for one task in charge: while the connection is wanted no call
is under way, reconnecting is on, and the driver tries or a loss is unhandled (`WantedInv`, `ResumedInv`).

**`ConnectivityProofs`** and **`ApplianceProofs`** are about the compositions: a step of the whole is a step of one
component or leaves that component's variables alone, so each theorem needs the invariant of one component.

- `OneServerAtATime`: unless untidy, whoever holds a place in Init or Deinit is alone, a task that is there is
  `s_serverTask`, and one that has left its loop saw `s_running` cleared.
- `ClientKeepsHandle`, `FlagFollowsSession`: whoever replaces the client is alone and there is none meanwhile
  (`HandleInv`); what is dispatched while the session is up is that it is up, and a flag that does not say so has a stop
  under way (`FlagInv`).
- `StationsKeepOn`: unless quiet, a hub's radio that is off is within a call that turns it on; an idle one has an event to
  handle or a call that has still to set the network; one that is on is in the network it is to be in
  (`StationInv`). The platform's half is `ConnectionPursued`.
- `AdvertisingIsWhole`: unless unclean, one task asks, what the stack has still to set is what `adv_pending_mask` says, in that
  order, and the parameters are that task's (`AdvInv`).
- `EverybodyHears`: a callback is subscribed, in the range the loop of `on_connected` has to go, or its thread is between
  the two halves of `addActionCallback` and finds `connected` set (`HeardInv`). What the broker sends for a filter
  `checkMqttTopic` accepts, and the first callback that matches exists by the well-foundedness of finite sets.
- `EveryAccessArrives`. NimBLE: an attribute the host has is the table entry it was registered with, which keeps its
  handle unless a UUID comes twice, or has been left over by an addition that failed and whose entries are empty, and no
  handle is at an entry with another UUID, until the stack is stopped (`TableInv`); a connection that is noted is up, or has
  ended and its end is being told (`LinkInv`). Bluedroid: handles and cells of the table name each other
  (`Placed`), the cells behind `regSvc` and `regChar` are exactly those that have one (`InOrder`, `NoneLeft`), and the one
  request under way is the one that is waited for (`CallInv`), until a call fails.
- `ConnectivityTyped`, `ApplianceTyped`: the types of all components, from their invariants.
- `HoldsAnswered`: a button has counted what it was held, modulo the counter, and was answered for as much of it
  (`Followed`); the pairing the code knows is that of the button kept last, and is forgotten in time (`PairKnown`).
- `BlinksRestore`: a change under way knows the state to end with: the call's `old`, or `oldState` of the blink task; and
  what the frame has and the strip does not show is owed by a task that will send it (`ChangeOwed`, `FrameOwed`).
- `EveryTimerQueued`: a second that was looked at is `oldTimer`, and one that came in time, ticking or set, is another
  (`DueInv`).
- `ImageIsWhole`: the partition has as many parts as its writer wrote, until two meet there is one writer, and whoever
  ended has all of them; between flush and restart nothing is dirty unless the flush failed or a value came after it
  (`ImageInv`).
- `ResetCompletes`: of the platform's data, and the hub's, what is left after the steps of a reset is left because each of
  them failed or the device was taken since (`ResetInv`), whatever reboots come between.

Every invariant and every refinement that a passing run checks is stated by a theorem. Only model-checked is liveness,
since its proof needs ENABLED: `CallsReturn` and `AcceptedRuns` of the storage, `SharedOperationsEnd` of the cache, `TimersEnd`
of the timers.

## 5. Not modelled

Besides the components marked so in PROJECT.json: several cache namespaces at once (they share a mutex and nothing else),
typed values and their conversions, argument checks, statistics other than the dirty count, the 16-bit size of a stored
group; in `DeviceStore`, a storage call that takes effect after it timed out, calls that only read uncached records, and the
blob layout; in `TimerMgmt`, SNTP, the wall clock and the wrap of its milliseconds; in `WifiNetwork`, the list a scan returns and a
start that fails; in BLE, descriptors and the packing of advertising data; in `Update`, digests and version comparison.

What the code does and no property covers, since none that could be stated holds; the hazards without a property in
PROJECT.json are more of it:

- `DAO_DeinitStorage` erases the NVS partition, although `dao_common.h` says it cleans up task and queue. It is modelled so.
- After a preload that skipped keys, `IOT_Cached.c` frees the remaining copies from the number loaded on, not from the
  index it stopped at; after a write-through it clears the dirty flag without the mutex, through a pointer that an
  unregister may have freed.
- `IOT_WifiDeinit` unregisters its event handlers by a NULL instance, which unregisters nothing.
- `Wifi::WifiIsStaMode` compares with the access point's mode and never answers true.
- `TimerDoThread` runs a timer from the queue that may have been unregistered and freed meanwhile.
- Two tasks that update one device, or one group, lose changes: there is no lock above the storage. `UpdatesKept` and
  `MembersKept` are stated for one task at a time.
