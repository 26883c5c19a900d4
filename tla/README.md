# Starlane: TLA+ models, model checks and proofs

Starlane is a service mesh of *stars*. Stars exchange *waves* (requests, their
reflections, signals and ripples) over *hyperlanes*; every star, client and
connection is a set of tokio tasks that talk through bounded `mpsc` channels,
`oneshot` and `watch` channels and a few concurrent maps. There is no shared
memory to speak of. What can go wrong is the order of messages, what is in
flight when a task ends or a link fails, a full channel, a late answer.

This directory holds

* one TLA+ module per component, with its properties,
* an `MC` module and one or more `.cfg` per component, for TLC,
* `...Proofs` modules with the theorems about a component, proved with TLAPS,
* `PROJECT.json`: the components, the runs, the lines of source each definition
  translates, the hazards of the code, the mutants (a plausible bug for every
  property, which the property must catch), the findings and the theorems.

Paths below are relative to `src/`. `HL` is `hyperspace/src/hyperlane/mod.rs`,
`EX` is `space/src/wave/exchange/asynch.rs`.

## 1. Inventory

### The communication core (modelled)

| component | state | operations | hard behaviour | correct when |
|---|---|---|---|---|
| **Hyperlane** HL 283-530 | its task: `ext` (the listener), `queue`, `transforms`; its mailbox | `send`, `tx`, `rx`; in the task: Ext, ResetExt, Transform, Wave, then the drain of the queue | the lane posts to its own mailbox; a listener dies and another arrives before the lane notices; a full mailbox, queue or listener | no wave is duplicated or vanishes; order; every transform applied; a greeting comes first; a listener that stays is served, unless the lane waits for itself |
| **Hyperway, HyperwayEndpoint** HL 57-243 | two lanes; `drop_tx` | `hyperway_endpoint_near/far`, `Drop` | what was not received dies with the endpoint | covered by the lanes and by the interchange |
| **HyperwayInterchange and gates** HL 532-675, 1052-1270 | the table of hyperways by surface; its bounded channel | `add`, `remove`, `mount`, `route`; InterchangeGate, MountInterchangeGate | two connections for one surface; a removal that arrives after the next connection's add; one slow listener, or a lane that waits for itself, and one task | routes follow connections; nobody hears another's waves; the task keeps serving |
| **Exchanger** EX 295-481 | the maps `singles` and `multis` (DashMap shards), a collector and a timer per request | `exchange`, `reflected` | two lookups that are not one; a lock held across an `await`; the timer against a late reply | one answer per request, of the right form; nothing leaks; an accepted echo is answered for |
| **HyperClient, HyperClientRunner** HL 1278-1830 | status channel and pump, runner (`ext`), relay (`greeting`), exchanger | `reset`, `close`, `router`, `rx`, connect / relay / reconnect | a link cut in either half at any moment; close, reset and drop in the middle; statuses through two tasks | order and accounting of what the owner sends; final statuses; a cut that can show has the link replaced; a refusal is shown |
| **Bridge** HL 1880-1935 | a client without exchanger and a local hyperway | | as the client | as the client (`Exchanging = FALSE`) |

### The star, the mesh and the machine

The last column names the modules; what they leave out is in section 6.

| component | state | operations | hard behaviour | correct when | modelled in |
|---|---|---|---|---|---|
| **HyperStar routing** `hyperspace/src/star.rs` 846-1180 | adjacents, forwarders, the call channel | `from_hyperway`, `forward`, `to_gravity`, `to_hyperway`, shard, bounce | hops and loops; searches split over adjacents; several forwarders; `start_wrangling` waits inside the only loop | a transport reaches its star or is given up after 255 hops; no path of the template loses one | `StarFabric`, `LayerTraversal` |
| **Layer traversal** star.rs 1270-1610, `space/src/particle/traversal.rs`, `space/src/loc.rs` | a traversal in flight | inject, visit, next layer, exit | direction, destination and plans that differ by kind; everything is a task of its own | whoever asks is told what the particles asked make of it; everything ends | `LayerTraversal`, `LayerAnswers` |
| **Field, Shell** `hyperspace/src/layer/` | pipelines being executed | pipelines, `new_session` | nested asks, errors in the middle of a pipeline | a core hears only what its Field let through | `LayerTraversal` |
| **Drivers** `hyperspace/src/driver/mod.rs` | driver map, status map, init phases | `init0`, create, AddDriver, `status_listen`, DriverRunner | guards kept across awaits; one status key for all drivers; drivers that ask their own star while it starts | Ready means that EVERY driver is; nobody waits for ever | `StarStartup`, `LayerTraversal` |
| **Star driver** `hyperspace/src/driver/star.rs` | `StarWrangles`, round robin selectors | search, wrangle, provision, assign, transport | searches that outlive their asker; a write lock across a ping; provisions that overlap | a search that succeeds found all there is; selectors spread over all stars | `StarFabric`, `Provisioning` |
| **Machine** `hyperspace/src/machine.rs` | status, stars | Init, WaitForReady, EndpointFactory, Terminate, the aggregator | stars that block their only loop to wait for each other; statuses read one after another while they change | all come up together, a failure is shown, nobody looks for others too early | `MachineStartup` over `StarLife` |
| **Global executor, SmartLocator** `hyperspace/src/global.rs`, star.rs 1924-2000 | the registry | create (register, then provision), locate | partial failure; two provisions of one particle; count, then insert | where a point is located, there is a shell for it | `Provisioning` |
| **Registry** `hyperspace/src/registry/mem/`, `platform/registry/postgres/` | records by point | register, assign_star, set_status, record, query | | | as `Provisioning` uses it |
| **TCP and QUIC lanes** `hyperspace/src/hyperlane/tcp.rs`, `quic.rs` | a socket and two channels | handshake, frames, mux | a frame read inside `select!` | frames are neither split nor lost | |
| **Artifact cache** `space/src/artifact/asynch.rs` | a map of fetches | get, fetch | a failure that is cached | one fetch per point | |

Without state of their own, or outside what these modules are about: parsers,
points, kinds and selectors (data), macros (code generation), the command line
and the installer (terminal and files), executors and the WebAssembly host
(process I/O), file store and artifact drivers (files), `base/` (stubs).

### How they interact

```
 owner --router--> HyperClientRunner ==ext==> (gate) HyperwayEndpoint
   ^                    |                          |  lanes (Hyperlane x 2)
   | status pump        v to_client                v
 HyperClient <--- relay ----> Exchanger      HyperwayInterchange  <--- gates: add, mount, remove
                                                   |  (singular_to)
                                                   v
                                    the star's own hyperway --> HyperStar --> layers, drivers
                                                                   |              |
   Machine --Init, WaitForReady--> star's call loop                v              v
   aggregator <--status watches--  status task <-- Drivers     other stars    registry, other
                                                               (transports)   stars (Provision, Assign)
```

A gate adds and mounts hyperways in an interchange; forwarders move waves from
the inbound lanes to the interchange's channel, its task routes them to outbound
lanes. A client's runner asks a gate for an endpoint and pumps waves between it
and the owner. Requests are registered in an exchanger before they are routed,
and reflections find it through the relay (clients) or the driver runners
(particles).

All hazards, with their lines and the properties that would catch them going
wrong, are listed in `PROJECT.json`.

## 2. Modules

| module | models | composes / refines |
|---|---|---|
| `Hyperlane` | a lane, its listeners and producers | |
| `HyperlaneProofs` | theorems about it | EXTENDS `Hyperlane` |
| `ExchangeContract` | what an exchange promises its caller | abstract specification |
| `Exchanger` | the exchanger | implements `ExchangeContract` |
| `ExchangerProofs` | theorems about it, the refinement included | EXTENDS `Exchanger` |
| `HyperClient` | client, runner, relay, owner and the link | uses the exchanger as a set of pending requests |
| `HyperClientProofs` | theorems about it | EXTENDS `HyperClient` |
| `Interchange` | interchange, gates, forwarders, outbound lanes | the lanes' tasks as `Hyperlane` has them, several of them and without transforms |
| `InterchangeProofs` | theorems about it | EXTENDS `Interchange` |
| `StarLife` | what a star promises the machine it is part of | abstract specification |
| `StarStartup` | one star's drivers, listeners, status task and call loop | implements `StarLife` |
| `StarStartupProofs` | theorems about it, the refinement included | EXTENDS `StarStartup` |
| `MachineStartup` | a machine, its stars, the aggregator | EXTENDS `StarLife`: as many of them as there are stars |
| `StarFabric` | transports, searches and bounces between stars | |
| `MachineProofs` | theorems about a machine's start and about its fabric | EXTENDS `MachineStartup` and `StarFabric` |
| `LayerTraversal` | injection, layers, pipelines, cores, asks | carries waves between stars as loads of transports (`StarFabric`); an exchanger per star (`Exchanger`) |
| `LayerTraversalProofs` | theorems about it | EXTENDS `LayerAnswers` |
| `LayerAnswers` | what an asker may be told, read off binds and cores | the reference for `LayerTraversal` |
| `Provisioning` | register, locate, provision, assign | the registry is a variable that all stars share |
| `ProvisioningProofs` | theorems about it | EXTENDS `Provisioning` |
| `MC...` | constants for TLC | |

### 2.1 Hyperlane

*State.* `mailbox` is the channel of `HyperlaneCall`; `ext`, `queue`,
`transforms` are the task's locals; `pc` is where the task is suspended. An
`mpsc` receiver of a listener is `chan[c]`, and `listener[c]` says whether it has
been created, posted, is kept, was dropped or has ended. `relay` is the channel in front of
`tx()`. `stamps`, `got`, `path`, `lost`, `requeued` record what happened.

*Actions.* The task's `match` is split at its suspension points. `TakeExt`,
`TakeResetExt`, `TakeTransform` and `TakeWave` are the arms, each followed by
`NextPc`, the test `if !queue.is_empty() && ext.is_some()` that the code makes
after EVERY call. `HandOver` is one iteration of the drain; `HandOverFails`,
`PostResetExt` and `Requeue` are the three steps of the error branch: notice, wait
for room in its own mailbox, try once to put the wave back. `Send` and
`SendTimeout` are the two outcomes of `send_timeout`; `Open` and `PostExt` the
two halves of `rx()`. The lane has the only sender of a listener's channel
(`HasSender`), and `ext.replace()` and `ext = None` drop it: the listener can still
receive what the channel holds and then reads its end (`ReadEnd`).

*Abstracted.* A wave is a number in order of sending; a transform is a name, and
applying it appends the name to the wave's stamps, so that applying it twice
(after a requeue) shows. `Drain` has a handler and no sender. The eavesdrop of
test builds is left out.

### 2.2 Exchanger

*State.* `singles` and `multis` are the keys of the two maps. `stage[p]` is the
progress of the call `reflected(p)` and of the reply after it; `collector[r]`,
`timer[r]` are the spawned tasks; `answer[r]` is what the `oneshot` receiver got.

*Actions.* `Exchange` is `exchange()`, in one step because nobody can reflect a
wave that is routed only after it returns. `Lookup`, `SendToCollector` and
`ClaimSingle` are the three parts of `reflected()`: the look into `multis`, the
awaited send, the removal from `singles`. `TimeoutSingle`, `TimeoutMulti` are the
timers, `Collect` and `CollectorClosed` the iterations of the collector's loop
for `Count` and `Timer`. `ShardFree` is the read lock `reflected()` keeps on a
DashMap shard while it awaits: inserts and removes on that shard wait.

*Abstracted.* Waves are model values. The order inside a collector's channel is
left out (an answer is a set); its capacity is kept.

### 2.3 HyperClient

*State.* `statusQ`, `pump`, `status`: the status channel, the pump task, the
watch the owner reads. `run`, `hand`, `toRunner`: the runner's place, the wave in its
hand, its channel. `down`, `inOpen`, `outOpen`, `conns`: the endpoint. `relay`,
`greet`, `pending`, `toClient`, `heard`, `settled`: the relay, its greeting, the
exchanger's open requests, its channel, what got past it. `up` and `dropped`
record what was sent up and what was lost with a link.

*Actions.* Runner: `Start`, `Connect`, `Create`, `CreateTimesOut`, `Ready`, then
the `select!` of the relay loop (`TakeReset`, `TakeClose`, `TakeOut` and
`Push`/`PushFails`, `OwnerEnded`, `ExtEnded`, `TakeIn` and `Deliver`). Relay:
`First`, `Refused`, then one action per way a wave is handled or ends the task.
Owner: `OwnerSend`, `Command`, `GiveUp`, `Listen`, `DropOwner`. Far end:
`FarSends`, `FarAnswers`, `CutIn`, `CutOut`.

*Abstracted.* A connection attempt that fails is repeated after a pause and
changes nothing, so it is a stuttering step. The endpoint that stays in `ext`
after a natural end is not read again by the code; it is dropped by the next
`replace()`, so the model drops it at once. The endpoint's outgoing channel never
fills up in the model. Logging tasks and the busy loop of `wait_for_ready`
change no state.

### 2.4 Interchange

*State.* `calls`, `table`, `task`/`current`: the channel, the map of hyperways,
what the task waits in. `inbound`: waves on their way to the interchange.
`mail`, `queue`, `ear`, `requeueing`: the mailbox of each outbound lane, what it has
taken and not handed over, who listens, and which lanes are between their `ResetExt`
and the failed wave that follows it. `conn`, `bound`: the connections and the hyperway of
their endpoint. `gate` is chosen at the start: an `InterchangeGate` (control,
clients: a hyperway per connection, removed when the endpoint is dropped) or a
`MountInterchangeGate` (stars: standing hyperways, mounted again and again).

*Actions.* `Enter`, `AskMount`, `Drop`, `AskRemove`: the gates. `SendDown`,
`SendUp`, `Forward`, `ForwardTimeout`: waves on the inbound lanes and their
forwarders (60 s). `TakeInternal`, `TakeRemove`, `TakeWave`, `TakeMount`: the
task's arms; `Route`, `RouteTimeout` (5 s) and `Mounted` the ends of its waits.
`LaneTakesWave`, `LaneTakesExt`, `LaneTakesReset`, `HandOver`, `HandOverFails` and
`Requeue`: the task of an outbound lane, with the control of `Hyperlane`: it drains
before it takes more, waits for room in its own mailbox when its listener hung up, and
puts the failed wave behind whatever was posted by then, or drops it. `HandOverHome`:
what the star receives.

*Abstracted.* Inbound lanes and the lane to Home are queues: their listeners are
the forwarders and the star, which do not hang up. A listener's channel has no
capacity: a hand-over that waits for room in it is a `HandOver` that does not happen,
for which there is no fairness. What was put into the channel counts as heard.
Transforms, authentication, greeting content and ripples (which the interchange
refuses) are left out.

### 2.5 StarLife and MachineStartup

*State.* Of each star: `life` (where its drivers are), `asks` and `loop` (its
call loop, which `start_wrangling` takes into `wait_ready`), `wrangling` (the task
left behind), `con` (a bridge), `relay` (its hyperway), and `star`, the status
that four tasks write. Of the machine: `scanning`, `view` and `news` (the aggregator,
what it read of each star, whose watch changed), `status`, `machine`.

*Actions.* `StarLife` has a star's: `Call`, `Begin`, `Up`, `DriverFails`, the four
writers of the status (`ShowBusy`, `ShowReady`, `ShowFatal`; `Wrangle`; `NoBridge`;
`HyperwayEnds`), and the loop's `StartWrangling`, `Heard`, `Release`.
`MachineStartup` says when the machine lets a star do what needs it: `MachineInit`
calls all stars, `WaitReady` answers one, `OpenBridge` makes a factory; and adds
the aggregator, `ReadStar` in the order of the table, `Judge` (the nested tests of
machine.rs as one `Verdict`), `ReadAgain`.

*Abstracted.* A `watch` and the task that pumps a channel into it are one step.
A status that is shown again is none. What fails is counted (`MaxBreaks`).

### 2.6 StarStartup

*State.* `driver`, `phase`, `known`, `calls`, `started`: the task Drivers, each
driver's watch and how far its creation is. `listener` and `news`: `status_listen`,
on whose behalf and on which side of its `changed().await`. `drivers`, `drvNews`:
the status that Drivers publish. `task`: the star's status task and the status it
saw before. `todo`, `loop`, `asks`, `wrangling`: the call loop.

*Actions.* `NextFactory` and `NoFactory` are the two ends of `init0`; `Register`,
`Create`, `AddDriver`, `InitBegins`, `InitEnds` the creation of one driver, with
`RegisterFails` and `DriverFails` where the code returns an error; `HearReady`,
`HearFatal`, `HearOther` the arms of `status_listen`, `HearAgain` its wait; `Look`,
`Act`, `ActReady`, `ShowReady`, `LookAgain` the status task, split where another
task can change what it reads (it compares with one read of the status and
branches on the next). `Homed` drivers are those whose `init` asks something of the
star and so needs its loop.

### 2.7 StarFabric

*State.* `net` is the machine, chosen at the start from `Nets`. `lanes` are the
transports on their way, with their hops; `lost` what was given up with an error;
`alive` the stars whose loop has not panicked; `searches` the open ripples;
`attempt`, `asking`, `wrangles`, `shown` the loop of `start_wrangling`; `bounces`.

*Actions.* `Forward` and `TooLate` are `from_hyperway` of a transport that is for
another star or has used up its hops; `HandleSearch`, `HandleEcho`, `HandlePing`,
`HandlePong` of one that has arrived. `Leave` is `to_hyperway` (the star itself, an
adjacent star, the one forwarder; `unimplemented!` with several). `Attempt`,
`GiveUp` and `Finish` are the rounds of `start_wrangling`; `RippleTimeout` the end
of a ripple nobody waits for any more, `Bounce` and `BounceTimeout` a signal
between any two stars.

*Abstracted.* What is found is named by the path that found it, so that a star
found twice shows. Stars that serve nothing (`deaf`) stand for stars that are down.

### 2.8 LayerTraversal and LayerAnswers

*State.* `flight`: the waves under way with the stage they are at (each is a task);
`asks`: who waits and what it was told; `pipes`: pipelines being executed; `busy`:
cores that wait for a nested ask; `unexpected`: answers no exchanger had a use for.

*Actions.* `Inject` is `start_layer_traversal` and what `inject` makes of its error;
`TraverseToNextLayer`, `Pass`, `Delivered`, `EnterPipeline`, `ShellHandles` the visits
of layers; `PipeStep`, `PipeEnds` the pipeline executor; `CoreHandles`,
`CoreResumes`, `CoreGetsAnswer` driver and core; `Shard` is `to_gravity` and `shard`;
`Timeout` the exchanger's timer, which fires when nothing else can happen, or
`MaxEarly` times before.

*Abstracted.* Bodies, methods and routes: a bind is one pipeline or none; a core
reflects, refuses, absorbs, is the client of a control, or asks another particle
first. `LayerAnswers` says what may be told without layers, stars or tasks; it is a
reference, not a second model. `PipelineTells` is a recursive function over what is left
of a pipeline; `Told` adds what depends on the asker, who may be in between its own
Shell and core, and `Back` that an answer has to pass the asker's Shell and be for its
driver's layer. `AnswersAssumption` names what it takes for granted: a star has a shell,
drivers sit at a layer of their kind, whoever asks does so at its own layer or at its
Shell, and a core asks other particles only. A driver's own transmitter forces the
direction of a wave to its own particle (star.rs 1406), which is not modelled.

### 2.9 Provisioning

*State.* `registered`, `location`, `status`: the registry. `shells`, `index`, `lock`
by star: particles with a shell, the selectors' turns, the lock a selector is held by
while its host is asked. `task`, `prov`, `assign`: the jobs and the handlers that
serve their requests.

*Actions.* `Count` and `Insert` are the two statements of `register`; `Locate`,
`CheckParent`, `RereadParent`, `Provisioned`, `NotProvisioned` the SmartLocator;
`Adopt`, `Adopted` `create_in_star`; `Provision`, `Wrangle`, `AssignAnswered`,
`EndProvision` the parent's star; `CreateShell`, `DriverAnswers`, `StoreStar` the
host. A timeout at every wait: `AskTimeout`, `AdoptTimeout`, `AssignTimeout`,
`DriverTimeout`; what was given up on goes on all the same.

*Abstracted.* Every driver in the build takes the default `assign`, which accepts
whatever it gets (driver/mod.rs 1605), so a driver answers yes or never. The state a
create brings along is left out: one that fails after `register` loses it, and nothing
in the code could tell.

## 3. Runs

`tlc -workers 2 -config <cfg> <module>`; each ends within three or four minutes. Type invariants
are theorems (section 4).

| run | checks | bounds and why they are enough |
|---|---|---|
| `hyperlane` | `OnePlace`, `InOrderUnlessRequeued`, `GreetingFirst`; `DeliveredUnlessHungUp`, `DeliveredToWhoStays` | three waves on both ways in, two listeners, all capacities 1 or 2: each channel can be full, the second listener can come before the first is noticed gone, a third wave can overtake a requeued one, and a stale `ResetExt` can end the second |
| `hyperlane_durable` | `DurableDelivery` is violated | two waves, two listeners, a mailbox of three that two failed hand-overs fill |
| `exchanger` | `AnswersFit`, `RefusedOnlyIfAnswered`, `AcceptedIsAnswered`; `NothingLeaks`, `ImplementsContract` | one request of each kind, one reply too many for the Count, one more than the channel holds for the Timer, all on one shard (the most blocking) |
| `exchanger_late` | `MultiLoopTakesCareOfTheRest` is violated | a Timer and two echoes |
| `client_link` | `UpInOrder`, `UpAccounted`; `NoNewLinkOnceOver`, `CutLinkIsReplaced`, `CloseIsShown` | a bridge with two waves, one command, two connections: each cut can hit each state of the runner, before and after a reconnection. `CutLinkIsReplaced` is about cuts that can show (`CutShows`): of the outbound half alone an idle client notices nothing |
| `client_exchange` | `GreetedFirst`; `RefusalIsShown` | a request whose answer may be late, one wave from the far end, every kind of first wave, two connections |
| `interchange` | `LiveIsRouted`, `MountFindsHyperway`, `HeardInOrder`; `KeepsServing` | two connections for ONE surface, which is where removals go wrong; a channel of one place, mailboxes of two and queues of one, so that routes, mounts, forwarders and lanes all have to wait, lanes for themselves too. A wave heard behind a later one takes a mailbox of three, which is checked apart (it takes longer than a run should) and covered by the theorem |
| `machine_startup` | `WranglingWaitsForAll`; `MachineComesUp`, `FailureIsShown` | two stars, so that one can be read while the other changes; one of them with a bridge, in which one thing may fail, or the machine end |
| `star_startup` | `DriversNeverStuck`; `ImplementsLife`, `StarComesUp` | three drivers: the first (DriverDriver, which adds the others), one in the middle, the last (the one listened to for all); two of them ask their own star something |
| `star_fabric` | `StoppedHasFoundAll`, `HubLosesNothing`; `LanesComeToRest`, `SearchEnds` | eight nets: the template seen from each kind of star, with and without a deaf star and attempts given up; a ring, where searches meet; a net whose stars know no way to each other and send a transport round. Three hops are enough for every path of the template and few enough to be used up |
| `provisioning` | `CommitIsExclusive`, `LocatedHasShell`, `AnswerIsServed`, `RoundRobinIsFair`; `EveryJobEnds` | three jobs at once for three points, parent and child among them, seven plans: every strategy, two creations of one point, a location during a creation, a child whose parent has no star yet, two adoptions by two stars; a selector that lists one star twice (`StarWrangles.add` never removes a star it has) |
| `layers` | `ToldWhatIsSo`, `CoreOnlyThroughField`, `UnexpectedOnlyIfLate`; `EverythingEnds` | fourteen systems on two stars, one for each way a wave can take; one timer may fire early |

`CHECK_DEADLOCK FALSE` everywhere: each model has bounds on what is sent and may
come to rest when they are used up.

### Fairness

Weak fairness, everywhere, of the steps of tasks: tokio polls a task whose
future is ready, and its timers fire. Never of producers, of owners, of cuts or
of hang-ups. Some choices deserve a word.

* `Hyperlane`: a listener that is kept receives, to the end of its channel (`Receive`,
  `ReadEnd`). It is what `DeliveredUnlessHungUp` and `DeliveredToWhoStays` are about;
  listeners may hang up at any time instead.
* `HyperClient`: `Runner` includes `Create` and `Push`, so gates can be reached
  sooner or later and the far end takes what it is sent. Without the first no
  connection can be promised; the second leaves out a far end that is connected
  and never reads.
* `Interchange`: of its task and of the lanes' tasks, NOT of hand-overs, which are
  for the listeners to make possible. `KeepsServing` holds for waves whatever they do
  (thanks to the timeout), and states its need for receiving listeners where the code
  has no timeout, in the mount; a lane that waits for itself holds a mount up even then.
* `MachineStartup` assumes of a star what `StarStartup` shows (`StarComesUp`), and
  that an attempt to wrangle succeeds in the end, which `StarFabric` shows
  for stars that answer (`SearchEnds`). `StarStartup` assumes nothing of the machine.
* `StarFabric`: stars serve what arrives. Timeouts are not fair: `SearchEnds` says
  that none is needed, and `GiveUp` may come at any time.
* `Provisioning`: no timeout is fair, so that `EveryJobEnds` shows that the locks
  held across an Assign need none.
* `LayerTraversal`: every task runs and every ask has a timer (`WF_vars(Next)`).

### Findings

Two runs end in a counterexample, each against what a comment or a document of
the repository says.

1. `hyperlane_durable`. A failed hand-over makes the lane wait for room in its own
   mailbox, for a `ResetExt`, and then try to put the wave behind it; it does so for each
   wave of the queue it is draining. A queue of some 513 waves kept for a listener that
   hung up fills the 1024 places, and the lane waits for itself for ever, with a live
   listener's `Ext` behind it. `wave.rs:3180` promises eventual delivery for `Durable`
   waves. `DeliveredToWhoStays` shows that this is the only way to starve the last
   listener: a stale `ResetExt` that takes a new listener away ends its channel, too, so
   that it knows.
2. `exchanger_late`. An echo that comes right after the timer removed its
   request from `multis` takes the answer from `singles`; the collector then
   loops for ever on a closed channel. The comments at EX 445 and 474 say the
   loop "will take care of the rest".

Two further disagreements are visible in the models and have no run of their own: a
natural end leaves the runner's inner loop only, so that it connects again where the
comment at HL 1819 has it ready to be dropped (`OwnerEnded`, `ExtEnded`), and `Ready`
is shown before the greeting was read, which `transmitter_builder` (HL 1507) expects
to be set already (`Ready`, `First`).

## 4. Proofs

`tlapm <module>` for each `...Proofs` module. The theorems hold for every value of
the constants that satisfies the modules' `ASSUME`s. They say
that capacities are at least one and bounds are naturals; that a lane's
transforms fit in its mailbox; that a request's replies are finitely many and each
reflects one request; that a client's requests are among its owner's waves; that
surfaces do not have the names the interchange keeps for itself; that stars are
numbered; that there are at least two drivers, the first of which asks nothing
of its star; that a selector's turns are stars with a driver for its kind, and that
no point descends from itself (`TreeAssumption`: a point is a segment of its parent);
that a machine's stars are finitely many, that a link joins two different ones and that a
transport may take two hops (the code's limit is 255); that a star hands transports to its core (`star.bind`), that a bind reflects at its end
or not at all, as all of the repository's binds do, that a driver takes its waves
beyond the Shell, and that the client of a control asks from a layer that is not its
driver's (`SystemsAssumption`); and, for `ToldTheorem` only, `AnswersAssumption`
(section 2.8).

**Exchanger.** `IInv` is the inductive invariant: types, `WaitingIffInSingles`,
`AnswersFit`, `RefusedOnlyIfAnswered`, `AcceptedIsAnswered` and `TasksInStep`.
The last one is the strengthening. That a refused reply implies an answered
request, for example, is not inductive: the reply missed `multis` at one moment
and looks into `singles` at a later one. `TasksInStep` says what holds in
between (a reply that missed `multis` of a request for many came after its timer;
a call suspended in its send keeps the request in `multis`; a collector that
ended gave a `Multi` answer). One lemma per action shows that the action
preserves `IInv`; `Inductive` combines them, and the five invariant theorems
follow. `ImplementsContractSafety` shows that each step is a step of
`ExchangeContract` or leaves it unchanged: whatever the timers, collectors and
late replies do, a request gets at most one answer, and one it admits. TLC
checked `IInv`'s parts as invariants of the run before they were proved.

**Hyperlane.** First typing (`TypeTheorem`), with the two facts the task relies
on at its suspension points (a listener and a wave in hand). Then `Stamped` from
`StampedInv`: the transforms not installed yet are the first calls of the mailbox
(`TransformsFirst`), so that no wave can be filtered without them, and every wave
past the mailbox is complete; a requeued wave stays so. `GreetingFirst` from
`GreetingInv` (a greeting sits only at the head of a channel nothing has been
received from) and `ExtOpened` (the lane knows only listeners that were opened).
`OnePlaceTheorem` takes `PlaceInv` and `OnceInv`: relay, mailbox, queue, the listeners'
channels, what they received and what was given up are the `Holders`; every wave sent is
with one of them and with no other, and none of them holds a wave twice. Each action is
then one of a few moves between two holders (or none), about which the lemmas are; the
requeue, which moves a wave from the head of the queue to the mailbox or gives it up, is
the one that goes backwards. `OrderTheorem` takes `OrderInv`, which is `LineInv` for the
order the property wants: what is nearer to a listener may go ahead of what is behind it,
for ALL pairs of places on the way, not only for what was received; otherwise a listener
could later receive what an earlier place still holds.

**HyperClient.** `TypeTheorem` needs one fact about a suspension point, `DownOK`:
between reading a wave from the link and delivering it the runner has it, also
when the link is cut in between. `OrderTheorem` rests on `OrderInv`: what was
sent up, what the runner holds and what waits in its channel are, one after the
other, an increasing sequence, so that a reset between two of them cannot turn
them round. `AccountedTheorem` is inductive with the types. `GreetedTheorem`
rests on `GreetInv` (the relay is in its loop only with a greeting taken).
`LastStatusTheorem` and `NoNewLinkTheorem` are action properties: the pump that
showed a last status has stopped (`PumpInv`), so a later `Ready` cannot be sent
and the runner leaves.

**Interchange.** `TypeInv` adds to the types that a connection is asked to be
mounted once, and waits from then until it is mounted. `RouteInv` is the argument
about the channel between gates and task: from its knock on, a connection's add
is in the channel, or its surface is routed, or a removal was asked for that
names its surface (`AddOK`); the add is ahead of the mount (`Before`), so that
whoever is up or failed has no add on its way; only endpoints that were dropped
are removed (`RemoveOK`); behind a MountInterchangeGate there are neither adds nor
removals (`StandingOK`). `LiveIsRouted` and `MountFindsHyperway` are read off it.
The exception in both is in the code: `Remove` names a surface, not a
connection. `HeardTheorem` says of waves what `RouteInv` says of connections:
`PlaceInv` and `OnceInv`, a wave is in one of the lanes, in the channel, in the task's
hand or heard, once; `KindInv`, each lane holds only waves of its direction and for its
surface, with the greeting in front, an endpoint is bound only to the hyperway of its
surface, and a lane hands waves only to who is bound to its hyperway (`EarKind`), however
late an `Ext` is taken; `LineInv`, waves from Home are in line from the connection back
to Home's lane (`Ahead`), but for those a lane has put back (`Prec`, which takes
the set of requeued waves as its parameter), also across a mount that takes over a
hyperway in the middle of a stream. A requeue is the step that breaks the line, and
it adds its wave to that set.

**StarStartup.** The channels between Drivers, listener and star are unbounded in the
code; `IInv` says how short they stay. `InOrder`: the drivers before the one at hand
are Ready, those after it are not there yet. `AtHand`: what the one at hand shows at
each point of its creation, and what the channel of Drivers holds meanwhile.
`Token`: at most one `Init0` is on its way, nobody listens until it is served, and who
listens for all drivers listens to a last one that is Ready. `FirstKnown`:
DriverDriver is in the table before a second driver exists. `StatusOK` follows the
status from the listener to the star and counts how often the star is told to
wrangle: `Told`, at most twice, because the status task branches on a second read of
the status. `DriversTheorem` is read off `Token` and `FirstKnown`.
`ImplementsLifeTheorem` is the refinement, for any number of drivers: `LifeIs`
evaluates the refinement mapping under `IInv`, and one lemma per action shows
the step of `StarLife` it is, or that it is none (`Quiet`). This is what makes the
machine's model, which is built on `StarLife`, one about stars as they are.

**MachineStartup.** `TypeTheorem`, and `WranglingTheorem` from `UpInv`: whatever the
aggregator has read as Ready stays up, so that a verdict of Ready made of reads at
different times is still true of all stars at once, and nobody who waits in
`wait_ready` gets past it before.

**Provisioning.** Jobs, provisions and assignments are tasks on different stars that
go on after those who wait for them gave up; `IInv` says what binds them. `AssignOK`:
an assignment past the driver's table has left a shell on its star, and one that
succeeded has written a star down. `ProvOK`: a provision waits for the assignment of
the host it picked and succeeds only with it. `TaskOK`: a job's stack is a line of
descent that ends with the job's point (`StackOK`), so that a parent whose record is
read again has a star, and where a job is tells what it is (`JobOK`). With
`LocatedHasShell` and `AnswerIsServed` this is inductive; shells are never taken away
and a job that ended stays as it is (`ServedStays`), which leaves to each action what
it writes itself. `CommitTheorem` adds that whoever got past the registration finds
its point registered (`CommitInv`), which is what the table's UNIQUE gives two
statements that are not one.
`RoundRobinTheorem` counts. `RoundsOK`: there is a number of full rounds such that each
star was picked that often for each time it is listed, and in the round under way for
its places up to the selector's index, which starts with the second. It needs that a
pick is never taken back: a request gets its host once (`NoHost`), and a task never
asks again for what it has asked for (`NotYet`), because what is on its stack is a line
of descent in which nobody comes twice (`NoneTwice`, for which the points have to form
a tree). The property is stated for lists that name a star
several times, because the code makes such lists.

**LayerTraversal.** Every wave under way, pipeline and waiting core is an item, and
`Parts` says of each by itself where it may be and what it carries (`FlightOK`,
`PipeOK`, `BusyOK`): the layers it has still to visit belong to the plan of its particle;
it is on the star of that particle; the answer goes where its ask was made. Past the Field,
towards the core, goes only what the Field's pipeline sent and what comes from another
layer of the particle itself (`ThroughField`); `CoreTheorem` is read off it, but it is
inductive only with the rest, which says which traversals go towards a core, on which star
and how far. `UnexpectedTheorem` needs the items together.
`Tokens` are the items that can still become an answer, `Books` is their `Ledger`:
no two tokens are for one ask (`Alone`; the pong and the spent wave it was made from
may coexist), whoever is asked is owed the answer, where it was asked (`Owed`), and ids a
pipeline or a core has yet to give out are nobody's (`Fresh`). Each action is a
move of tokens that keeps a ledger (one is replaced by its successor, dropped, or gives
rise to one for a new ask), and the lemmas of the ledger are about moves, not about
actions, so that error paths and bounces cost nothing more. An answer that no exchanger
has a use for is then one whose ask is `late`.

`ToldTheorem` says what the answer is. `PipelineTells` is a recursive function over all
binds, also those that ask each other in circles, so the first thing to prove is that
there is one: each stop is monotone in what the others tell (`StopTellsIs`), the meet of
all tables that say no less than their stops make of them is what its stops make of it
(`TableExists`), and nothing more about `PipelineTells` is used than its equation (`PipelineTable`). `Ways`
says where waves may be on their way, by where they were injected, as far as it decides
which layers they still meet. The invariant is a promise. `D` gives for each ask what may
be told; `Claims` are the items that may still answer it, each with what it may still
come to from where it is (`Ahead`, `PipeAhead`, `BusyAhead`), `late` if the asker
cannot hear it. `Keeps`: every claim is within what was promised, what was told too, and
who waits and must not be told `late` has a claim. `D` is part of the state's history:
an ask of a pipeline or of a core is promised what its wave comes to when it is made, so
the invariant is that there is such a `D` (`Promised`), and a step that opens an ask
extends it. Each step replaces claims by smaller ones (`KeepsMove`), answers one
(`KeepsAnswer`), or opens one (`KeepsOpen`). A timer is the last case: nothing moves, so
whoever waits and may not be told `late` waits for a pipeline or a core that waits for an
ask of its own, which may not be told `late` either (`StuckFor`). Ids grow along this
chain and the asks are finitely many, so there is no such chain (`NoEndless`).

**StarFabric.** `FabricTypeTheorem` takes `TypeInv`, which says what a load is besides
its types: a search or an echo carries a route (`IsRoute`: from the origin over
forwarders, crossing itself nowhere), it goes to the end of the route or back to
the one before, and all it claims to have found are routes to stars that may be
wrangled. `HubTheorem` takes `HubInv`: where there is a hub, a transport is where it
goes to after at most one hop, or at a forwarder next to it after none, so neither
`to_hyperway` nor the count of hops has anything to give up. That is why it
needs two hops of `MaxHops`. `FoundAllTheorem` has two halves. The first is about the
run. `StoppedHasFoundAll` alone is not inductive: an echo must be known to be complete
while it is still on its way. `EchoesComplete`: an echo that an open ripple waits for
carries every find behind its route (`Finds`); `RipplesComplete`: a ripple has every
find behind those of its neighbours that have answered. A ripple that times out answers
with nothing, but only when the one it serves is gone, and what would break
the argument is that one coming back. `Fresh` excludes it: while a search for a route is
on its way, no other search, echo or ripple of that attempt is at this route or
beyond it, so a route is opened once, and attempts have numbers of their own. The second
half is about the graph (`FindsAreReachable`): the ends of the trails of at most
n + 1 stars are what the reference `Within` has after n rounds (`NextTrail`; a way that
crosses itself has a shorter one to the same star, `TrailPrefix`), and no trail is longer
than there are stars (`TrailLength`). `WithinRounds` shows that the recursive function
`Within` is defined at all, `WithinIsTrailEnds` takes the least number for which
it would differ.

**Only model-checked.** Liveness under fairness (the properties after the
semicolons of section 3, `ImplementsLife` and `NoNewLinkOnceOver` excepted, and the
fairness of the contract), which is out of the prover's reach. Every invariant of a
passing run is also a theorem.

## 5. Plan

Done: the communication core, the start of a star and of a machine, the fabric,
the layers, provisioning. Next, in this order:

1. Ripples other than searches (`shard_ripple_by_location`), `StarWrangles.add` in
   its two steps, `AwaitTermination`.
2. The TCP multiplexer and the artifact cache, each with a module of its own.

## 6. Not modelled

* **TCP and QUIC lanes.** What matters there is bytes: a frame that is read in part
  when `select!` drops the reader. A model needs the codec's buffer; what a cut does
  to client and runner is in `HyperClient`.
* **Artifact cache.** Its fetcher and the drivers behind it are outside the
  modules; the two hazards are listed.
* **Registry in memory.** Not part of the build (its module is not declared) and
  mostly `todo!()`.
* **Registry in Postgres**, beyond what provisioning asks of it: queries, access
  grants and properties are SQL over a database outside the repository.
* **HyperGateSelector.** One map; the check before its insert is listed as a hazard.
* **Parsers, waves, points, selectors, kinds, macros.** Data and conversions without
  state; the models keep what their properties tell apart. They are the largest part
  of the source by lines.
* **Installer, command line, executors, WebAssembly host, file store.** Terminal,
  files, processes and foreign memory.
* **`base/`.** Stubs.
* Of the modelled components: `Drain` and the eavesdrop of test builds (lanes), the
  look-ups by kind of Drivers, `Search::Star` and `Search::StarKind` (no sender), the
  commands of the global executor that are one query each, command sessions of the
  control driver, access checks (commented out in the Field).
