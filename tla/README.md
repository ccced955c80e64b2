# A verification project for compose-monitor

compose-monitor watches the containers of one Docker Compose project and shows
them on pages that update themselves.  This directory holds TLA+ modules that
model the program, the TLC configurations that check them on small instances,
and the proofs, checked by TLAPS, of what holds for every instance.

## 1. Inventory

How the parts interact:

    runtime --event stream--> docker.Client.Watch --signal--> MonitorService.Run
    runtime <--List/Start/Stop/Remove-- docker.Client <-- MonitorService <-- web handlers
    MonitorService.refresh --Publish--> realtime.Hub --channel--> stream handler
    stream handler --SSE frames--> EventSource in the page --> table rows
    signal --> ctx --> Run, Watch; hub.Close; http.Server.Shutdown (cmd/server)

| component | state | operations | what is hard | what makes it correct |
|---|---|---|---|---|
| `realtime/hub.go` Hub | `subs`, `nextID`, `closed`, the channels | Publish, Subscribe, unsubscribe, Close | close against send, two closers, full buffers, subscribers after Close | no panic, no channel left open for ever, order, isolation of slow readers |
| `app/monitor_service.go` refresh | `snapshot` under `mu`; the events in the caller's hands | List, diff and swap, Publish one by one | called by several goroutines; read before the lock, publication after it | every page ends up showing the project as it is; only news is marked |
| `app/monitor_service.go` Stop, Start, Remove | none of their own | fresh List, precondition, call, announce | check and call are two requests; the call may fail after it took effect | a running container is not removed; the change becomes visible whatever fails |
| `MonitorService.Run` | `changes`, `armed`, debounce timer, ticker | the select loop | lost, coalesced and continuous signals, failed reads, cancellation | nothing is missed for ever, a burst costs one read, it stops |
| `docker.Client.Watch` | `delay`, the signal channel of capacity one | stream, wait, reconnect | messages lost while disconnected, backoff | a message is never the last one forgotten |
| `realtime/handler.go` stream | a subscription, the rows it read | subscribe, read, sync, forward | what changes between those steps, refusal, loss of the connection | no gap between the sync frame and the events |
| `app.js` | the table's rows, the EventSource | sync, upsert, remove, reconnect; buttons; log panel | frames applied to what is already shown | the table is what the server sent |
| Network/VolumeService, docker adapters | none | Inspect, Usage, Remove as three requests | what happens between them, a count that fails, two who confirm the same removal | nothing in use is removed, what is offered can be removed, only one is told that he removed it |
| network and volume pages, confirmation | what a browser shows | list, detail, confirm, error pages; two requests each | a page drawn from two reads, read while others act | a page that is current offers exactly what would succeed |
| `cmd/server` | ctx, wait group, server | run, shutdown | order of Close and Shutdown, requests in flight | it ends, and streams do not hold it up |
| docker mapping, status, routing, inspect | none | toService, toDetail and their helpers | map order, duplicate ports, two shapes of the same thing | two readings of one state are equal; row and detail agree |
| container log | none in the server; the panel's `logLoaded` and body in the page | Inspect, Logs, loadLog | streams cut anywhere, overlapping fetches | only output is shown, none is hidden unannounced, the panel can be retried |
| action buttons | a button's `disabled` in the page | submit, answer, redraw by event | success without an event, answers after a redraw | a pressed button comes back |
| the table of services, its totals and its order | the rows, totals and "empty" flag of the page | sync, insert, remove, recount; the two listings | three sort orders (Go, sort key, DOM), frames for what is and is not shown | a patched table equals a reloaded one; it offers what the endpoints accept |
| row, list and detail templates, row keys | none | what each page draws of a service | two readings of one state drawn by different code | row and page of its own agree; everything is shown, and once |
| layout, properties, badges, static files, config, health, logging | none | render, parse | – | (not modelled, section 8) |

The hazards these lead to, each at its line, are listed in `PROJECT.json`.

## 2. Modules

In the order they were written, the most important behaviour first.

| module | models | extends / instances |
|---|---|---|
| `Channel` | a buffered Go channel's send with `default` | – |
| `Broadcaster` | what `ports.EventBroadcaster` promises, the abstract specification | `Channel` |
| `Hub` | `realtime/hub.go`, shown to implement `Broadcaster` | `Channel`, instances `Broadcaster` |
| `Observation` | services as the comparison sees them, `DiffSnapshots`, `Changed`, `Notable` | – |
| `LiveView` | refresh, Stop/Start/Remove, the stream handler and the table of a page | `Observation`, `Channel` |
| `Watch` | `docker.Client.Watch` and the select loop of `MonitorService.Run` | `Channel` |
| `Removal` | removing networks and volumes, and the pages that offer it | – |
| `Server` | `cmd/server` from `ListenAndServe` to the exit | instances `Hub` |
| `Sorting` | what `slices.SortFunc` does, and entries of a list in its order | – |
| `Mapping` | `toService`, `toDetail` and everything they call | `Sorting` |
| `Rendering` | what `keys.go`, `row.templ`, the two listings and the detail page draw | `Mapping` |
| `LogStream` | decoding a container's log | `Sorting` |
| `Container` | one container as the runtime keeps it, and what it may answer about it | `Rendering` |
| `Table` | the table of services as events patch it, and as a reload draws it | `Rendering` |
| `ListPage` | a row and its button, from the click to the event | `Container` |
| `DetailPage` | the log panel and the handler behind it | `Container`, `LogStream` |
| `Pages` | the browser with one of the three pages | `ListPage`, `DetailPage`, `Table` |

`HubProofs`, `LiveViewProofs`, `WatchProofs`, `RemovalProofs`, `ServerProofs`,
`MappingProofs`, `TableProofs` and `PagesProofs` hold the theorems; `MCHub`, `MCLiveView`, `MCWatch`, `MCRemoval`, `MCServer` and
`MCPages` give the constants their small values.  Definitions whose comment
begins with "Mutant:" are deliberately wrong variants of the definition that
follows them: each property is known to fail when its variant takes the place
of the code's (`mutants` in `PROJECT.json`).

## 3. How state and actions correspond to the code

`PROJECT.json` ("map") gives the lines of every definition.  In outline:

**Hub.**  `subs`, `nextID` and `closed` are the fields; `queue[c]` and `shut[c]`
are the channel made for client `c`, `id[c]` what its unsubscribe closure
captured, `once[c]` its `sync.Once`.  Each method holds the mutex for its whole
body, so each is one action.  The reader of a channel is `Receive` and
`SeeClosed`.  `published` and `got` are histories.

**LiveView.**  A worker is a goroutine inside `refresh`: `List` reads the
runtime, `Swap` is the locked section, `Publish` sends one of the events it
computed.  They are separate because the code holds the lock for the middle one
only.  A request is `Check` (the fresh `List` and the precondition), `Operate`
(the runtime call, which may also take effect and still fail) and then a
`refresh`.  A connection goes `Subscribe`, `ReadRows` (or `Refuse`, the 503),
`Sync`, `Change`, `Disconnect`; `table` is what the page shows.  A service is
reduced to `[online, age]`: news and the passing of time.

**Watch.**  `Message`, `Interrupted`, `Reconnect` and `StopWatching` are the
goroutine behind the signal channel; `TakeSignal`, `SourceFinished`,
`DebounceFires`, `TickerFires` and `StopRunning` are the cases of `Run`'s
`select`, `Read` and `ReadFails` its calls of `refresh`.  `Tick` advances the
timers.

**Removal.**  A request is one POST: `Refuse` (another site, or a deployment
without control), `Inspect`/`InspectFails`, `Count`/`CountFails`,
`Remove`/`RemoveFails`, with the status it is answered with.  A page is one GET of two
requests: `NetworkList` ... `VolumeConfirm` are the first of each page,
`PageCounts`/`PageCountFails` the second, `NotFound` and `Unavailable` the error
pages.  `Others` is anybody with access to the runtime.

**Server.**  `main`, `closer` and `runner` are the three goroutines of `run`, `wg`
the wait group; `Handle` is a stream handler, `Serve` any other, both with the
hub's own actions inside.

**Pages.**  `toService` and `toDetail` are evaluated on every answer the runtime may
give: ports in every order and once per address family, maps ranged over in one
order and its reverse.  `Rows` and `Views` are what the templates make of them.  A
request goes `Submit`, `Resolve`, `Act`, `Announce`, `Receive`; a fetch of the
log `loadLog`, `InspectForLog`, `ReadLog`, then `FillPanel` or `FailFetch`.  In the
table, `RefreshTable` is a refresh that found some containers changed and wrote a
frame for each, `Apply` the page's `change` listener, `Connect` its `sync`
listener, `Lose` the loss of the stream, `Visit` a load of either page.

## 4. What the runs check

| run | bounds | shows |
|---|---|---|
| `hub` | 2 clients, buffer 2, 4 events | no send on or close of a closed channel, whoever comes first of an unsubscribe and `Close`; nobody joins a closed hub; order and uniqueness; `Hub` implements `Broadcaster`, fairness included; `Close` ends every stream |
| `live_read_only` | 1 page, 2 containers, buffer 2, 2 moves, 1 outage | with `Run` as the only caller of `refresh`, the last thing sent about a container is what the snapshot says; only news is marked; rows catch up |
| `live_control` | 1 page, 1 request, 1 container, buffer 1, 3 moves, 1 outage | `LiveInv`, `NoGap`, that no running container is removed, and that the snapshot ends up right and stays right: after an older read that the request swapped in last, after a call that took effect but failed, after an outage |
| `live_phantom`, `live_reorder`, `live_refused` | one page, one container | findings, section 7 |
| `watch` | debounce 2, interval 3, delays 1..3, 2 messages on the wire, 1 outage | flag, timer and channel agree (`WatchInv`), no signal lost, no burst postpones its read, debounced reads are a debounce apart, every change is read, both goroutines end |
| `watch_backoff` | delays 1..4, 2 outages | finding |
| `removal_safety` | 2 containers (one foreign), a volume, a network, 2 requests, 1 page, 3 moves | what a counted check has seen; no volume in use loses its data; no foreign network is removed; a network's removal is reported as done to one request only; a current page offers what would succeed |
| `removal_held` | 1 request | finding |
| `server` | 1 stream, 1 request, buffer 1, 2 events | nothing is cut off; streams do not hold the shutdown; it always exits |
| `pages` | 2 containers as descriptions, 3 states, 2 requests, 2 fetches, 2 lines of log, tails 1 to 2; a table of 4 containers in 2 states, 2 frames | readings agree and draw the same, row and detail page agree, everything is shown once, the log shows output only and hides none, the panel can be retried, the button comes back; the table keeps the server's order, equals a reloaded page, and offers what the endpoints accept |

Why the bounds are enough.  A hub interaction needs two closers or a slow and a
fast subscriber, hence two clients; a buffer of two with four events fills,
drops and drains it.  In `LiveView` the hard case is one container changing
between two given steps of one page, so the second container serves only to
check that containers do not disturb each other; three moves let it change
between each of three consecutive steps, or be acted on by a call that fails,
change again and be overwritten by an older read.  Time passes in `live_read_only`
only (`MaxAge`); for `live_control` an older container is one more change.  A wire
of two messages gives one that is coalesced and one that is not.  In `Removal` a foreign container and one of
the project are the two kinds the code tells apart; the requests are
interchangeable, which `Interchangeable` uses as a symmetry (the run is still
the largest, 3.9 million states).  In `Pages` the two
descriptions hold a service published on both address families with a plain
and a secure router, and a container run by hand without service label, with a
rule on no host, a host port left to the runtime and one number exposed for two
protocols; two lines, one on each
output, are cut into every possible set of frames, and end after every token and
inside every timestamp.  The four
containers of the table are replicas 2 and 10 of one service, a second one
with name and number of the latter, told apart by id alone, and one whose name
begins like theirs: each step of the comparison decides once.  Two frames on
their way are the least that can arrive in an order; replica numbers are below
a million (`NumberAssumption`), where the key's fixed width ends.

## 5. Fairness

Only what the code or its platform provides:

* a goroutine that can go on does (`Refresh`, `Operate`, `Handle`, `Serve`, ...):
  weak fairness;
* Go's `select` picks at random among ready cases, so a case that is ready again
  and again is taken: strong fairness for `TickerFires`, `StopRunning` and the
  watch goroutine's stop in `Server`;
* the timeout of `Shutdown` elapses however often the runtime stops answering and
  answers again: strong fairness of `ShutDown`;
* an unreachable runtime comes back (`Recover`), in `LiveView` and `Watch`;
* a reader of a channel reads (`Hub`), because the handler's loop does;
* on the list page the ticker refreshes and the time in a status line passes,
  more slowly than the project is read (minutes against seconds).

Nothing is asked of containers, users, clients or the network.
`SnapshotCatchesUp` excepts a container that never stops changing (in the runs none
can, the moves are bounded), and needs nothing from requests but what weak fairness
gives: someone may act again and again without effect, and `Run` must get its turn all
the same.  `ButtonComesBack` is conditional on the container coming to rest
(`Settles`): one that is started and stopped by others for ever may come back,
between any two reads, to the very state the snapshot holds.  `Pages` delivers every
event to the page; that a page with an overflowing channel or a lost stream
misses some is `LiveView`'s subject.

## 6. Theorems

All are proved for every value of the constants, from the assumptions named in
the modules (buffers are positive, constants of different kinds are
different, debounce, interval, delays and tails are positive; those of the
table are explained with it).

* **Hub.**  The inductive invariant is `HubInv`: types, `TableInv` (what the table
  holds under an id is exactly what the client of that id has open, ids are
  below `nextID`), `PhaseInv` (how far each client got against `once`, `shut`
  and `closed`) and `OrderInv` (what was received and what is queued are
  increasing, and the former is below the latter).  `NoPanic` alone is not
  inductive: that an id is never used twice is what keeps the second closer
  away from a channel that belongs to someone else.  From it follow `NoPanic`,
  `OpenIffRegistered`, `ClosedForGood`, `InOrderOnce`, and `HubImplements`, that
  every step is a step of `Broadcaster` or a stutter.
* **LiveView.**  `LiveInv` adds to `NoGap` that events are in a worker's hands only
  while it publishes, so a swap never overwrites some.  The heart of it is
  `DiffSnapshotsTells`: what two snapshots disagree on is in the events.
  `RunningIsKept` needs no invariant but the types.  For a deployment without
  requests (`Req = {}`) `LiveViewProofs` adds `TrackInv`, which holds
  `RowsTrackSnapshot`'s promise from the moment a handler subscribes, before the
  page has a row, and `NewsInv`, which compares the runtime with what the loop
  read last, through every failed read; from them follow `RowsTrackSnapshot` and
  `HighlightsAreReal`.  With several workers both fail, since the swap of another
  may come between a read and its own (see `live_reorder`).
* **Watch.**  `WatchInv`: besides the types, that the flag is up exactly while the
  debounce runs or has fired (`LoopInv`), without which a signal that is
  absorbed because `armed` is set could be absorbed by nothing, and that the
  debounce was armed after it last fired, which is what `Debounced` rests on.
  From it follow `NoLostSignal`, `NeverPostponed` and `Debounced`, for every
  debounce, interval, pair of delays and number of outages.
* **Removal.**  `RemovalInv`: a resource held all along is held now (`HeldInv`), and a
  network found to be the project's is the project's or gone (`NetworkInv`),
  because ids are not reused; that also makes `ToldOnce` inductive.  Volumes have
  no such fact, their names are reused; `DataKept` rests on the removal not being
  forced.  `OffersHonoured` follows from `PageInv`, what a page drawn in one
  piece knows of the host.
* **Server.**  Each step is a hub step or none by the way the module is composed
  (the lemma `ServerUsesHub`), so the hub's theorems hold inside the process; `ServerInv` orders the hub's closing
  before the drain and ties `wg` to the goroutines left.
  `ServerStreamsEnd` is the composition of the two: once the hub is closed, no
  live stream lacks a step of its own.
* **Pages.**  `PanelInv`: the shapes of panel and fetches, and that a panel
  without a log, with nothing in flight, is marked as not loaded.
* **Table.**  `TableProofs` proves, for every set of containers, that patching is as
  good as reloading.  The argument has four layers.
  1. *Keys.*  `SortKeyOrder`: the page's string comparison of two sort keys puts
     two services in the order `SortServices` compares them in: by service,
     number, container id.  Padding makes the strings of two numbers compare as the
     numbers do, and the separator, below every character of a name, ends a name
     before a longer one that begins like it.
  2. *Lists.*  `Before` is a strict total order on containers with different ids,
     so `InDisplayOrder` lists any finite set of them once each, and is the only
     sorted listing (`SortedIsDisplayOrder`).  The facts about the least member
     come from well-foundedness of the numbers, not from the induction rule.
  3. *Patches.*  Removing, replacing or inserting a row turns what a reload would
     draw for one set of running containers into what it would draw for the next
     (`PatchShows`), and `recount` puts totals and the "empty" flag right
     (`FullPageIsCounted`).
  4. *Steps.*  `AsReloaded` speaks of tables with no frame under way, so it is
     not inductive.  `TableInv` says of every state that the table is what a
     reload would have drawn of some earlier reading, and that, while the stream
     is open, the frames on their way lead from that reading to what the last
     refresh saw.

  In `PagesProofs` follow `TableInServerOrder`, `TableIsAsReloaded` and
  `TableOffersAccepted`.  `TableInv` was checked with TLC, on three containers and
  three frames, before it was proved.  The assumptions: containers are finitely
  many (`FiniteAssumption`) and their ids differ (`IdAssumption`), which the runtime
  provides; names and ids consist of characters above the separator `\x1f`
  (`NameAssumption`), which Compose and the runtime enforce when they accept a
  name; and replica numbers are below a million (`NumberAssumption`): Compose
  counts replicas from one, and a larger number would make the padded key compare
  differently from the number, which is where the page's order ends.

* **Mapping.**  `MappingProofs` and `PagesProofs` prove that what a page says of a
  container is a function of the container, for any descriptions: any labels,
  routers, ports, bindings, networks, mounts and variables.
  1. *Sorting.*  `SortedSame`: what `slices.SortFunc` makes of a list whose
     entries have different keys depends on the entries alone, not on the order
     they came in; and each entry is in it once (`OnePlace`).  Hence every
     comparison function of the adapter must tell any two different entries
     apart.  The proof for `toPorts` failed at first, because the
     model ranked every protocol that is not tcp alike, and two ports of one
     number, on udp and sctp, stayed in the order they arrived in.  The code
     compares the protocols' names and has no such tie; the model was
     corrected, and the second description of the `pages` run holds the case.
  2. *The parts.*  `PortsSame`, `LabelsSame`, `AttachmentsSame` and `LinkSame` apply this to
     what the list and the inspect return: ports once per address family and in any order,
     maps ranged over in any order.  `FlattenToSet` says that the ports of a port
     map are those of its bindings.
  3. *Readings.*  Two summaries, two responses, or one of each then give the same
     service, detail, row and page (`ReadingsAlike`, the invariant `ReadingsAgree`).
     Between list and inspect (`PagesConsistent`, `RowAndDetailAgree`), what is left is
     the health: one reads it from a phrase of the status line, the other from a
     field that outlives the container's last run, and `CurrentHealth` is why
     neither draws it once the container has stopped.
  4. *Nothing lost.*  `EnvironmentOnce`, `MountsOnce`, `AttachmentsOnce`,
     `LabelsEnumerate` and `GroupedOnce` say that sorting, withholding, skipping and grouping
     keep each entry once; `LinkIsBest` that a secure link is taken wherever there is one.
     Together: `PageShowsAll`, the invariant `AllShown`.

  The assumptions are those of `Container`, each a fact of the runtime: ports have numbers
  and one of the three protocols, an environment sets a variable once and
  one thing is mounted at a place (`PortAssumption`, `InspectAssumption`), maps are
  finite, `KeyOrder` lists every label key there is (`LabelAssumption`), and what stands for
  "absent" is no value (`NoneAssumption`, `LinkAssumption`).  That the variables differ is needed only for
  `AllShown`: a container's `Env` is one list, which every reading reads in one order.

* **Log.**  `LogHidesNothing` and `LogShowsOutput` state `NothingHidden` and `OnlyOutput`
  for every number of lines, every tail and every default and largest size.
  What a stream is cut into is said by positions, not by a recursion or a fold: a part starts
  after a newline and goes up to the next (`LastBefore`), a frame starts where the
  output changes or the runtime chooses, so no proof needs an induction on the payload.
  1. *Splitting.*  `AreLines` is what the runtime sends: a timestamp, a text, a
     newline, again and again, the lines numbered upwards; and still is what arrives when
     the connection is lost inside a timestamp (`ArrivalArrived`).  `Reads` is what
     decoding a stretch of it must give: what is shown of it (`IsShown`), each text
     once, in their order, under their own
     time or none, on the output they were written on, and among them nothing but
     empty lines.  `PartShows` proves it of what stands between two newlines,
     wherever the stretch begins and ends, `SplitReads` of `splitLines`.
  2. *Putting together.*  `FlattenRuns` says where each entry of appended sequences
     comes from, and `BlocksRead` that stretches which follow each other and
     leave out no text read as their whole does.
  3. *Framing.*  `FrameIs` and `InSomeFrame`: frames do not overlap, none mixes the
     outputs, and each token that arrived is in one.  Hence `FramesRead`, and for
     a terminal `TerminalReads`.
  4. *Counting.*  `ShortLogIsWhole`: the texts of a log that arrived whole are at least
     as many as were asked for, or all there are; with fewer lines than that, nothing was left
     out.  This is why `Truncated` must not wait for one line more than `tail`.
     The one exception to "nothing but what was written" is counted too: a piece of a
     timestamp is read as a text, and `ReadIsOutput` proves that there is at most one, the
     last thing shown, in a log that did not arrive whole.
  5. *The panel.*  `LogInv`, checked with TLC before it was proved: a log in the panel or in an
     answer under way was read from this container, with its kind of terminal.

  Which line goes to which output (`KindOf`) is used nowhere in these proofs: they hold for
  any assignment.  The one assumption is that the sizes are positive (`TailAssumption`).

Only model-checked: every liveness property and the fairness part of the
refinement, which are out of the prover's reach.  Every invariant of a passing run is a theorem.

## 7. Where code and comments disagree

Each is a run that is expected to fail; `PROJECT.json` ("findings") quotes both sides.

* `live_phantom`: the sync frame comes from a read of its own, the events from
  differences of the monitor's snapshots.  A container that exists only
  between two refreshes, and at the moment a page connects, leaves a row that no
  event removes.
* `live_reorder`: `refresh` publishes after unlocking.  Two of them can publish in
  the opposite order of their swaps, and pages keep the older state.
* `live_refused`: a stream refused with 503 is not retried by the browser.
* `watch_backoff`: the delay is never reset, because `stream` never returns nil.
* `removal_held`: when the count of users fails, `UsedBy` stays zero, and a
  network stopped containers of the project refer to is removed.

Two more were met while modelling and are not runs.  Removal is offered for what only a
container of another project uses, which the runtime refuses, although
`networks/templates/list.templ:33-34` says it is "Offered only where it would
succeed"; nothing is lost by it, and `OffersHonoured` states the
proviso.  And a log stream that ends early is
returned as a complete log (`logs.go:85`), which no reader can tell from one.

## 8. Abstractions, and what is not modelled

* `LiveView`: a service is online or not; the runtime refuses to remove what is
  online.  The other states (paused, restarting) appear in `Mapping` and
  `ListPage` only.  A frame is written and applied in one step; keep-alive
  comments appear only as writes that fail.
* `Removal`: networks have different names, since the code counts their users by
  name; only whether there are users matters.  Requests name a network by its id, as
  every link of the program does; the endpoint passes on whatever the path holds, and
  the runtime would resolve a name typed by hand there afresh for each request, which is not
  modelled.  A volume has nothing but its name: one that somebody else creates under the
  same name after it was inspected, and that nothing refers to yet, is removed by the
  code, and no property speaks against it (`DataKept` covers those in use).
* `Server`: the HTTP server is what its documentation says.  The timeout of
  `Shutdown` is taken to be longer than what handlers do that wait for nobody:
  it elapses only when each that is left waits for a client, the runtime or an
  event.  `StreamsDoNotHoldShutdown` rests on this, as does the order of steps
  it rules out: a stream that waits for an event nobody will send.
* `Pages`: status lines are phrases and two elapsed times stand for all; log
  tokens are timestamps, texts and newlines.  A stream may end inside a timestamp,
  whose piece the page shows as if it were text; a frame never begins inside one, since
  the runtime sends a timestamp with what follows it.  Texts are not told from their
  beginnings, and none looks like a timestamp; events reach the page atomically.
  Fields that are copied as they are (image, mounts' flags, times) are left out,
  and so is markup: a page is the record of the facts it shows.
* A container on the host's network publishes nothing while it runs, and its page then says
  of its configured ports that "It is not running" (`services/templates/detail.templ:60`).  Such
  a container is not among the answers of the runtime in `Container`.
* The only health checked is "healthy": each further value multiplies the states
  and takes the same path through `toHealth`, the status line and the badge.
* `Table`: every read sees what the last refresh saw, and a frame is lost only with
  its connection; reads that disagree and full channels are `LiveView`'s subject.
  Its `Member` carries what is compared and drawn differently: name, number, id, link.
* Not modelled: layout, properties, badges and the texts of the confirmation
  templates, which arrange what the modelled views state; formatting of times and
  durations; the connection dot and the dialog; static files, configuration and
  logging set-up; the health endpoint, whose one probe of the runtime nothing
  else depends on; and the wiring of `main`, which runs once before any
  goroutine exists.

## 9. Plan

Done: modules and proofs of section 2.  Next, in this order:

1. The full set of container states in `LiveView`, against a runtime that refuses to
   remove paused and restarting containers.
2. Button and log panel under a stream that loses events (`ListPage` over
   `LiveView`'s connection).
3. Lines that are longer than the runtime's buffer, which it sends in parts with a
   timestamp each, and which the page counts as lines.
