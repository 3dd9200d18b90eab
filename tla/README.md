# A TLA+ verification of drv

drv runs hardware drivers and network services as small userspace processes.
This directory holds TLA+ models of the parts of it that keep state shared
between tasks, processes or the device, the TLC runs that check the models on
small instances, and TLAPS proofs of the central results for every instance.

## 1. The system and the modules

| Part | Where (`src/crates/...`) | Modules |
|---|---|---|
| Operation authority: epochs, contexts, deadlines | `wifi/wlan-softmac-class-support/src/contract.rs` | `OperationAuthority` |
| Driver actor: the only caller of a device, its mailbox and control channel | `wifi/wlan-softmac-host/src/driver.rs` | `DriverActor`, `DriverActorProofs` |
| Containment and certified shutdown | same crate, `runtime.rs`, `driver.rs` | `RuntimeShutdown`, `RuntimeShutdownProofs` |
| Callback queue, bridge, Ethernet port | same crate, `runtime.rs`, `serve.rs`, `ethernet.rs` | `SoftmacBridge`, `SoftmacBridgeProofs` |
| Client runtime with the SME and MLME loops | same crate, `runtime.rs`, `sme/`, `mlme.rs` | `ClientRuntime` |
| Wi-Fi control service | `wifi/wifi-control-service` | `WifiControl` |
| Wi-Fi policy: session with the service, policy service | `wifi/wlancfg-service` | `ControlSession`, `PolicyService`, `PolicyServiceProofs` |
| DMA pool | `platform/dma-pool`, `platform/hardware-api` | `SegmentOwnership`, `DmaPool`, `PlatformProofs` |
| Device session and handles | `platform/hardware-backends/src/linux_vfio.rs`, `hardware-api` | `HardwareSession`, `PlatformProofs` |
| PCI command register | `platform/hardware-backends/src/pci_control.rs` | `PciControl`, `PlatformProofs` |
| Kernel socket and its worker | `net/network-service/src/socket_worker.rs`; `net/netstack3-port-spike/kernel-provider/production/rust-abi5/frontend.rs`, `connection.rs` | `KernelSocket`, `SocketWorker` |
| Namespace generations | `rust-abi5/namespace.rs`; `network-service/src/supervisor.rs` | `NamespaceLifecycle` |
| Wi-Fi link of netcfg and the provider | `network-service/src/netcfg.rs`, `lifecycle.rs`, `link_control.rs`, `provider.rs` | `NetcfgLink`, `NetcfgLinkProofs` |
| SOCKS5 service | `network-service/src/lib.rs` | `Socks5Service` |
| MT7921 core | `wifi/drivers/mt7921/mt7921-core` | `Mt7921Ownership`, `Mt7921Rings`, `Mt7921Mailbox`, `Mt7921Loader`, `Mt7921Client`, `ActiveAuthority`, `Mt7921Proofs` |
| ath11k transport | `wifi/drivers/ath11k/ath11k-ce`, `ath11k-hal`, `ath11k-core` | `Ath11kCopyEngine`, `Ath11kHtc`, `Ath11kCopyEngineProofs` |

`PROJECT.json` lists every part with what is and is not modelled of it, and for
every definition the lines it models.

How they interact. The policy process sends command packets to the *control
service*, which owns a *client runtime* and drives it in a loop. The runtime
hosts two pinned Fuchsia state machines, the SME and the MLME, each behind a
serving loop; the MLME calls the device through a *driver handle*, whose mailbox
is served by the *driver actor*, one task that owns the device. Callbacks of the
device come back over a queue and a *bridge*. Whatever the runtime begins gets
an *epoch*; ending it revokes the epoch, and each loop and the actor check the
epoch again when they get to the work. The hard part is that six tasks are
suspended at awaits, holding work of an attempt that has been revoked, while
the next one begins. Below, a driver core (mt7921 or ath11k) talks to its
device through a *device session*, which hands out mappings, interrupts and
memory of the *DMA pool*. Above, the Ethernet link of the driver is installed by
*netcfg* into the *provider*, whose socket *workers* serve applications through
a kernel module, one *generation* of a network namespace at a time.

## 2. How the modules correspond to the code

A handler, a critical section or the code between two awaits is one action. Data
is reduced to what the properties tell apart: a frame is a number, a request an
id, a network a model value. Bounds of the model are constants or parameters
called `Max...`; capacities of the code keep their names. Definitions named
`Definition_WhatIsWrong` next to a definition are mutants (section 3).

**OperationAuthority**: `live` is the set of lifetimes not revoked; `IsLive` and
`Check` are `OperationContext::is_live` and `check`.

**DriverActor** is `DriverHandle::send` and `DriverActor`: `Send`, the owner
commands `ServeLink` ... `ServeReset`, and the branches of `poll`. The queue is
a set of messages with positions (`push_front` keeps a position). `reply` is
what became of each oneshot sender. `called` and `barrier` are history.

**RuntimeShutdown** extends it with `ClientRuntime::request_stop`,
`contain_error`, `check_tasks`, `shutdown`, `Drop` and `HardwareOwner`. `waiter`
is the await `shutdown` is suspended at; `CancelShutdown` drops the future
there. `OwnershipSurvives` says what a dropped call may not lose: the owner still
holds what the hardware task left, a stop once asked for is still on its way, the
protocol's outcome is kept, and Ok, once returned, stays the answer of a device
that stays as it was certified.

**SoftmacBridge**: `up` is the `UpcallQueue` (raw frames are dropped first, a
queue full of control callbacks latches the overflow), `bridge` the task that
moves callbacks and the netstack's frames into `events`, `mlme` the await inside
`set_ethernet_status`, `port` and `devices` the two halves of the Ethernet port.

**ClientRuntime** has `runtime.rs` with the five tasks it coordinates; the
fields `connect_attempt`, `connection`, `cleanup`, `scan_attempt`, `power_save`
have the code's names, the channels are sequences. The actor's mailbox is the
one request the MLME loop can await. The pinned SME and MLME are external,
nondeterministic in what they decide: a connect may fail at once, a frame may
associate, refuse, end an association or do nothing. **WifiControl** extends it:
each call the server makes is the runtime's action conjoined with what the
server does with the result. `begin_connect` and `begin_scan` await the cleanup
of an ended connection inside `dispatch` (`Call`, `ResumeCall`). `answers`
counts the replies queued for each command.

**ControlSession** is one generation of the control channel seen from the
policy process: `caller` has what each submitted command got, `owner` the I/O
thread that numbers, sends and correlates, `peer` the control service reduced to
the order of its packets. **PolicyService** has the policy's operation with its
await points (`op`), the one queued command, the connection machine and the
thread that serves applications.

**DmaPool** has the free list and the parts of each segment the CPU owns;
`ImplementsOwnership` refines **SegmentOwnership**. **HardwareSession** is one
opened VFIO device of three kinds (`Flavor`): tables of mappings and
interrupts, quarantine, suspended `Interrupt::next` futures, and the kernel's
own state `kdma`, `kirq`, which the code never reads. Any ioctl may fail, an
interrupt may be armed although its installation reported failure.
**PciControl** has `update_command` access by access, with accesses that fail,
failed writes that land and writes that lose bits.

**KernelSocket** is `SocketState` under its mutex and the threads inside their
system calls; **SocketWorker** the provider's half, one step for every endpoint
read, write or ioctl, and the core's socket (external). Bytes are numbered, so
loss, repetition and reordering can be told apart. **NamespaceLifecycle** has
the broker's registry, the lifecycle of each namespace, the long critical
section of stopping generations (`stop`), and the supervisor with its children.
**NetcfgLink** follows a link from the Wi-Fi service's lifecycle channel through
netcfg's requests to the provider's device and its reports. **Socks5Service** is
the single-threaded loop: stack, listener, ready clients under a work budget,
two staging budgets, lookups, epoll.

**Mt7921Ownership** has the low-power register and its two users, the blocking
round trip and the polled machines, on a millisecond clock. **Mt7921Rings** is
the register procedures as data, interpreted access by access; fields may ignore
writes. **Mt7921Mailbox** has command, download and receive rings with device
cursors, interrupts and failing calls. **Mt7921Loader** has patch semaphore,
image and start. **Mt7921Client** compares what the driver records (`st`) with
what the firmware holds (`fw`) when replies are lost; replay counters are kept
for each traffic identifier, and every install of a key starts them at the
number it announces (`taken` is history). **ActiveAuthority** is
`AuthorityModel` with its generation counters.

**Ath11kCopyEngine** has source, destination and status rings with the device
working ahead of the pointers it wrote back; **Ath11kHtc** endpoints, credits,
routing, bring-up and suspend above it.

Most `MC` modules are sums: a variable `part` picks one component (or one
instance of it) and the others rest. The components a theorem is about are
EXTENDed with the constants of the `.cfg`, so that the properties checked and
proved are the same definitions; the others are INSTANCEs.

## 3. Runs

| Run | Components (instances) | Checks |
|---|---|---|
| `driver_actor` | DriverActor; SoftmacBridge | types, one device operation at a time, admission order and the owed stop (`ActorSafe`); replies conserved (`RepliesConserved`); authority at the device call and the finish barrier (`CallsSound`); callbacks kept, counted and of their epoch, a raised link has an endpoint, only the current port is published (`BridgeSafe`) |
| `runtime_shutdown` | RuntimeShutdown over DriverActor; SoftmacBridge | a dropped shutdown loses nothing and Ok is final (`OwnershipSurvives`), Ok means contained (`OkMeansContained`), ranges; shutdowns return, revoked lifetimes fall quiet, callbacks are served and overflows reported (`HostServes`) |
| `wifi` | ClientRuntime (2), WifiControl, ControlSession, PolicyService (2) | what a completed cleanup certifies (`CleanupSound`, `RuntimeSafe`), one reply for each command and server and runtime in agreement (`ControlSafe`), no false accusation of a faithful service (`SessionSafe`), one connection machine that a disconnect stops for good (`PolicySafe`), an Ok that tells an application what is so (`AnswersAreTrue`) |
| `wifi_live` | WifiControl, DriverActor, ControlSession, PolicyService | connects and disconnects are answered (`WifiAnswers`), requests and commands end (`CommandsEnd`) |
| `platform` | DmaPool, HardwareSession (platform, PCI, broker), PciControl | free segments are the device's (`PoolSafe`, `ImplementsOwnership`); nothing reachable or armed is forgotten (`SessionTracks`), an Ok reset clears (`ResetClears`); the reported Command value is the register's (`ConfigHonest`), only an enable starts DMA (`OnlyEnableStartsDma`) |
| `sockets` | KernelSocket with SocketWorker (6 uses) | kernel and worker agree (`SocketAgreement`), bytes and records conserved up to the seal (`DataConserved`), a child has one owner (`ChildrenOnce`) |
| `network` | NetcfgLink, Socks5Service (2), NamespaceLifecycle (2) | netcfg and provider agree (`LinkSafe`); queueing, staging bounds, complete transfers, owned lookups (`RelaySafe`); generations agree and failures stop their own (`NamespaceSafe`) |
| `network_live` | SocketWorker (3), NetcfgLink, Socks5Service, NamespaceLifecycle | closes end, calls return, records and connections are published (`SocketsLive`); reports converge, revoked links leave, hosts are admitted, namespaces served, children reaped (`ServicesLive`) |
| `mt7921` | Mt7921Rings, Mt7921Ownership, Mt7921Mailbox, Mt7921Loader, Mt7921Client, ActiveAuthority | register transactions undo themselves and the loader gives its semaphore back (`BringupSafe`), the chip is given back to the firmware (`OwnershipSafe`), the mailbox keeps what the device may use (`MailboxSafe`), driver and firmware agree on keys, slot and port and no packet number is taken twice (`ClientSafe`), authority rests on current evidence (`AuthoritySafe`, `OneTerminalPerAttempt`), commands spaced and reclaimed (`RadioSteps`) |
| `ath11k` | Ath11kCopyEngine (3), Ath11kHtc (2) | reachable buffers live, sent and taken once and in order (`CeSafe`); credits conserved, payloads routed in order (`HtcSound`); a dropped frame is reported, a due frame returned (`TransportSteps`) |
| `wifi_scan_lost`, `pci_enable_rollback` | WifiControl; PciControl | two documented sentences, each violated (section 6) |

### Bounds

The constants are in the `.cfg` files and in the INSTANCEs of the `MC` modules.
They are chosen so that every limit of the code is reached and passed:

- *Epochs.* Only the newest epoch can be live, so all revoked ones look alike; a
  connect and its cleanup take two. Three to five allow work of the first attempt
  to be suspended while the second runs.
- *Queues and channels* have capacity 1 or 2 with one producer more than fits:
  three requests for a mailbox of two, three commands for an outbound queue of
  two, three control callbacks for a callback queue of two, two peers for a
  relay that admits one, two namespaces for a registry of one.
- *Rings* have 3 or 4 entries; 5 frames sent wrap a source ring of 4. Sequence
  numbers of the mailbox go round 2 values while 3 commands are issued.
- *Clocks.* One tick separates before a deadline from after it. The ownership
  poller makes up to two attempts of 3 ms under deadlines from 0 to 9, so a
  deadline falls before, inside and after each of them and the ASPM pause.
- *Faults* are bounded by 1 or 2: one to enter an error path, a second one
  inside its recovery. Resets are bounded by 2, so a handle can be two
  generations old.
- *Saturation.* ActiveAuthority's counters stop at 1, 2 and 4 in place of
  `u64::MAX`, so that every exhausted counter is met.
- *Replay.* Mt7921Client runs twice: commands and losses without reception, and
  (part "replay") reception with two traffic identifiers, packet numbers up to 2
  and installs that announce 0, 1 or 2, so a key is reinstalled between two frames.
- *Kinds.* The two peers of Mt7921Client differ in both features; the sessions
  differ in the bus, and the pipes in whether the device reports bad lengths.

No symmetry reduction is used. Deadlock checking is off: every model may end
(contained, dropped, closed, out of its bounds).

### Fairness

All tasks of the Wi-Fi host share one executor that polls what is woken, so each
loop (SME, MLME, bridge, actor) is weakly fair, and `run_to_terminal` drives what
is pending for ever. SME and MLME timers fire. The firmware completes an
operation it accepted (the drivers bound each by a timeout) and, for scans,
reports the end. The bridge chooses between callbacks and frames with
`futures::select!`, at random, hence strong fairness for taking a callback.
ControlSession's I/O thread and its deadlines are weakly fair. The policy's one
task is polled; its store, selection and transport answer, and a connection lasts
long enough for one of the looks of `wait_for_connection`, 20 ms apart, to see
it, hence strong fairness there. A worker's turn of its epoll loop is weakly
fair, and so are application threads; the storage and descriptors an accepted
child needs are not refused for ever, hence strong fairness of its publication.
netcfg and the provider each have a thread; the provider's wait for a socket
that has room for its report or acknowledgement is part of its turn, so netcfg is
taken to read what it is sent. The SOCKS5 thread runs, its timers
fire, hosts read, and descriptors come back, so an admission retried again and
again succeeds. The supervisor's loop runs and a killed child exits.

Nothing is assumed of the transmit path, which may answer NO_RESOURCES for ever,
of the protocol task during shutdown, which may hang, of applications and peers
(except that they read what they wait for), nor of the *deadlines* of the client
runtime and the control service: the liveness properties hold without them.

### Mutants

Every property of a passing run has a mutated definition, next to the one it
replaces and named `Definition_WhatIsWrong`, under which TLC finds the property
violated: `Ambiguous_AfterInstall` does not mark the interrupt index before the
install, `TakeCallback_Unlatched` ignores the overflow latch,
`Fail_AnyGeneration` lets a late failure stop the next generation, and so on.

## 4. What is proved

Eight modules `...Proofs` hold theorems that TLAPS checks for every value of the
constants (any number of epochs, requests, segments, tokens, links, entries,
faults...), from the named assumptions on constants alone: types of the bounds,
capacities that are not zero where the code's are constants that are not
(`DriverAssumption`, `PoolConstants`), rings of at least two entries
(`RingAssumption`), at least one ownership attempt (`OwnershipAssumption`), an
epoch and a port to start with (`BridgeAssumption`), a value `None` outside the
sets it is added to (`PolicyAssumption`), scans made under an existing epoch
(`AuthorityAssumption`), and one vector for each interrupt index
(`SessionAssumption`; section 6 says why). Each inductive invariant was checked
by TLC on the run of its component before it was proved.

| Theorem | Says |
|---|---|
| `ActorIsSafe`, `CallsAreSound`, `RepliesAreConserved` (DriverActorProofs) | all properties of the actor's part of `driver_actor` |
| `OwnershipIsKept`, `ShutdownCertifies`, `ShutdownTypeCorrect`, `RuntimeKeepsActorPromises` (RuntimeShutdownProofs) | wherever the future was dropped, the task's remains, the stop and the protocol's outcome are kept and an Ok is final; Ok from `shutdown` means contained hardware; the actor's theorems hold of the whole runtime |
| `BridgeIsSafe` (SoftmacBridgeProofs) | no control callback dropped without the overflow being latched, the counter cleanup waits for exact, every event handled in the epoch it arose in, no link over a closed port, only the current port published |
| `PoolIsSafe`, `PoolImplementsOwnership` (PlatformProofs) | free segments are the device's and clean; the refinement of SegmentOwnership |
| `SessionIsTracked`, `ResetsClear` (PlatformProofs) | whatever ioctls fail, what the device can reach or interrupt with is in the backend's tables, live mappings are disjoint and outlived by their memory, no suspended `next` is lost; an Ok reset leaves nothing mapped or armed |
| `ConfigIsHonest`, `OnlyEnableStarts` (PlatformProofs) | the backend is handed out with DMA off and reports what the register holds; bus mastering comes on only by an enable, or by the INTx mask putting back what it found |
| `PolicyIsSafe`, `PolicyAnswersAreTrue` (PolicyServiceProofs) | one connection machine, none after an answered disconnect; one answer for each request; bounds; Ok only when what was asked for is so, whatever was taken at the operation's awaits |
| `LinkIsSafe` (NetcfgLinkProofs) | netcfg and provider agree on link and device, and neither finds a faithful peer in error |
| `ClientIsSafe` (Mt7921Proofs) | keys, slot, port and outstanding frames agree between driver and firmware although replies are lost; no packet number accepted twice under a key and traffic identifier between two installs of the key, nor one its install announced |
| `OwnershipIsSafe`, `CommandsAreSpaced` (Mt7921Proofs) | a chip taken from the firmware is given back unless an error says otherwise, with no command pending that would take it again, and no error on the way is hidden; the polled machines ask to be called before their deadline and space their commands by a whole attempt |
| `AuthorityIsSafe`, `TerminalSelectedOnce` (Mt7921Proofs) | what is leased, authorised or staged rests on current evidence; one terminal result for each attempt |
| `CopyEngineIsSafe`, `LossIsReported` (Ath11kCopyEngineProofs) | what the engine can reach is live, frames once and in order, buffers conserved; a batch is dropped only with an error |

### The arguments

*DriverActor.* Every step first gets one of four effects on the mailbox
(`MailboxStep`): it shrinks, admits, calls the device for its front message, or
passes the finish barrier. `NoOvertaking` alone does not survive a call of a
message whose position says nothing of its age, so `OrderInv` adds `Numbered` (a
queued message sits at its admission number, ids are unique and at most `sent`)
and `BehindBarrier`: the barrier passes when no message of a **live** epoch is
queued, so revoked ones may remain, which `poll` rejects, and revocation is
permanent. `DeviceInv` (single operation, owed stop) is inductive given the
types. `HeldInv` says who holds each reply sender, `BoundInv` that both queues
are finite and within capacity. `EndInv` says what an ended task guarantees: a
closed, empty mailbox, and on Ok a device stopped or reset.

*RuntimeShutdown.* `OwnerInv`: the owner's view agrees with the task it adopted,
a revoked runtime has no live epoch, a shutdown past its join has an ended task.
With `EndInv` it covers every way in which a shutdown is dropped and repeated.
For what lasts, `TerminalInv` says that once revoked a serving actor has a stop or
a reset ahead of it, and `OutcomeInv` that the protocol's outcome is stored before
its task is given up and that after an Ok nothing is left for a later call to find
otherwise: no reset owed, the stored outcomes Ok, the device stopped or reset.

*SoftmacBridge.* `BridgeInv`: `QueueSound` says that a queue's counters count what
it holds and that all of it arose in the queue's epoch; taking the oldest and
removing a raw frame both leave one callback out (`Without`), which a bijection
of the remaining places turns into one less. `StreamSound` says of an event what
`EventsOfTheirEpoch` needs of it once it is queued, and epochs only ever pass
(`Passed`). `PortSound` is what the port's properties need between the request to
raise the link and its answer: the request is admitted only while its port is
open, because cleanup revokes its epoch before it closes the port; a port open
while the MLME has none is the first, which nobody holds; and a device is
published only past the answer.

*DmaPool.* `PoolInv`: the free list holds segments of which the CPU owns no part,
and a segment flagged reusable is clean. The refinement maps the free list to
`idle` and the lost segments to `retired`.

*HardwareSession.* `SessionInv` says that a token is spent once and known to one
table (`Known`); that an armed vector is recorded as installed or its index is
ambiguous (`InterruptsSound`); that a parked future is registered, or was woken
(`WaitersSound`); and (`MappingsSound`) that mappings lie below `next_iova` or
where the broker put them, pairwise apart, that a held mapping is coherent or
has its memory, and that every mapping of the kernel is in the tables, in
quarantine or among the refused ones. A reset releases mappings one by one and
may stop at any of them; `Grown` and `Shrunk` name what one mapping more or less
does to these tables, and the lemmas about them carry every operation.

*PciControl.* `ConfigInv`: the arguments each operation gives `update_command`
(only the INTx mask and the enable roll back), that the value read is the
register until the write, and that the saved value is the one at the start.

*PolicyService.* `PolicyInv`: `MachineInv` says what each await point of the
operation means for the machine (a selection begins with no machine alive and no
disconnect in force); `ReplyInv` that an unanswered request is in exactly one of
channel, queue and operation; `BoundInv` the limits. `IntentInv` adds what the
operation alive says of the wanted network: one nobody cancelled has kept its
intent, a disconnect and a removal have given theirs up, and the machine waited
for is on the network asked for.

*NetcfgLink.* `LinkInv`: `LifeSound` orders the lifecycle channel (links grow, a
Revoke follows its Install at once, the last record is about the active link),
`Shape` relates the receiver's and the provider monitor's fields, and
`Conversation` says that the one request under way is asked, done or answered,
with the provider's link before or after it accordingly.

*Mt7921Client.* `ClientInv`: `Certain` ties acknowledged keys to the firmware,
which opening the port relies on; `Accounted` says which effects of lost replies
are covered by teardown's own record; `Counted` says that
the counter of an installed key and a traffic identifier is at least every number
used up under them.

*Mt7921Ownership.* `OwnershipInv`: on the way back the last command the chip got
is the one that gives it back, or the remembered error is set (`TripSound`), so a
success, which needs a read that shows the firmware and no error, cannot be
undone by a command still pending; and an attempt of a polled machine ends a
whole attempt after its command, or with its authority (`PollSound`).

*ActiveAuthority.* `AuthorityInv`: `Grounded` says what each piece of evidence
stands on, `Lineage` that the present attempt has the newest number, is published
only past its commit and has its terminal result exactly when it is over.

*Ath11kCopyEngine.* `CeInv` measures the rings by distances from one pointer to
another (`Dist`), so that wrapping needs no cases: `SourceSound` and
`ReceiveSound` say which buffers lie in each stretch, in which order, and that
posted and missing buffers add up to the ring; `Held` what the batch holds
between two calls.

## 5. What is only model-checked

- *Liveness*: `HostServes`, `WifiAnswers`, `CommandsEnd`, `SocketsLive`,
  `ServicesLive`. Fairness and ENABLED are outside the prover.
- *Counting and recursion over sequences*: `ControlSafe` (holders of a command
  counted over channels, queues and tasks), `HtcSound`
  (credits summed over frames), `DataConserved`, `ChildrenOnce` and
  `SocketAgreement` (concatenations of every place a byte can be in),
  `BringupSafe` (procedures are sequences of accesses interpreted as data),
  `NamespaceSafe` (a work list of namespaces).
  What a fold or a recursive function computes for every input would need
  induction over data, which the installed provers cannot do.
- *Size*: `RuntimeSafe`, `CleanupSound` and `ControlSafe` relate some thirty
  variables; `SessionSafe`, `RelaySafe` and `MailboxSafe` need an
  invariant for every step of a loop with a dozen await points. Nothing in
  principle prevents their proofs.
- *Action properties*: the mailbox half of `RadioSteps` and the HTC half of
  `TransportSteps`, which rest on the invariants above; the other halves are
  `CommandsAreSpaced` and `LossIsReported`.

## 6. Where the code and its documents differ

Two runs are violated by what the code does:

1. `wifi_scan_lost` (`ScanAnswered`): a connection that ends during a scan
   revokes the epoch the scan reports under, and `drive_service_once` does not
   drive the new cleanup while a scan is pending. Both wait for a deadline.
   `notes/wifi-architecture.md:201-202` says "safety-critical completion must not
   silently disappear".
2. `pci_enable_rollback` (`FailedEnableRolledBack`): `update_command` returns with
   `?` when the write or the readback fails, before the rollback, so a failed
   `enable_bus_master` can leave bus mastering on. `pci_control.rs:170` says "A
   failed enable is rolled back."

Met while modelling, without a run of their own:

- *Interrupt indices.* `open_interrupt` (`linux_vfio.rs:1327-1363`) clears the
  ambiguous index when any vector of it is installed. With several MSI vectors
  on one index a failed install that did arm its vector could be forgotten so.
  mt7921 opens vector 0 only, and platform lines have an index each; that is why
  `SessionAssumption` gives every vector an index of its own.
- *Wi-Fi control.* A Scan during a connect ends the generation as `DriverFault`,
  since `host_runtime_error` maps every `Driver(_)` error so, where
  `notes/wifi-architecture.md` lists Busy as distinct. A completed disconnect
  clears the runtime's `scan_attempt` but not the server's `scan_request`. An
  association that ends between the success and its observation is a
  `ConnectStateMismatch`, and the device is reset.
- *Control session.* `take_event_stream` looks at `force_terminal` before it locks
  the subscribers, so a stream registered after `finish` cleared them hears
  nothing until the last handle is dropped; commands are not affected.
- *mt7921.* The pre-authentication BSS and receive filter are recorded only after
  their acknowledgement, so a lost reply leaves them in the firmware unrecorded
  (`hidden` in Mt7921Client; compare the comment at `lib.rs:9092`). A partial
  rollback leaves `allocated_peer_wcid` set. `AuthorityModel` is constructed in
  tests only so far.
- *ath11k.* `PdevSuspend` drains the router's queue and not the ring, so an
  acknowledgement still in the ring can answer a repeated suspend. The WMI
  sender that waits for credits looks at its deadline only when no frame is
  there. `receive_htc` loses the frame, and the credits in its trailer, when
  reposting a buffer fails. `stop_vdev` waits for a START response.

## 7. What is not modelled

Left out of the modelled parts: reconnection inside the SME, nonterminal
connection events and their limit of 64, key and association commands (they
differ from `join` only in the device call), the byte limit of the control
service's outbound queue, socket options, addresses and poll masks, the ring
layout shared with the kernel, persistence and network selection of the policy,
DHCP and the child's set-up, command and descriptor layouts of the drivers, HTC
sequence numbers, frames for endpoints that are not connected and pipe 5.
Endless reception could keep `protocol_idle` false through a cleanup; with
callbacks bounded the model cannot show that, and in the code the deadline ends
it. The firmware of Ath11kHtc reads the host's bring-up stage in place of
decoding frames.

Not modelled at all: wire formats (encodings without protocol state); the
lifecycle helpers of `driver-runtime` that no driver drives yet; wrappers over
system calls (userspace VFIO, directory capabilities, the sandbox), whose
meaning is in the kernel; the Netstack3 core, the DNS resolver and the
WebAssembly Bluetooth host, which embed code that is not here; the SoftMAC
adapters of the drivers, whose states repeat those of DriverActor on one side
and of the cores on the other; the ath11k device lifecycle and data path, QMI
over QRTR and the HCI broker, which are within reach and not written; audio
arithmetic; the lab.

## 8. Running

    tlc -workers 2 -config MCPlatform.cfg MCPlatform
    tlapm PlatformProofs.tla

Each run takes one to three minutes (at most 2.7 million states); the proofs
together about half an hour, PlatformProofs nearly ten minutes of it.
`PROJECT.json` lists the runs, the mutants, the theorems, the hazards each
property is aimed at, and for every definition the lines it models.
