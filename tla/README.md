# RaspiProv: a TLA+ model

RaspiProv configures a headless Raspberry Pi over Bluetooth LE. A Python service
(`src/pi_ble_config`) exposes six GATT characteristics through BlueZ and does the
work with `nmcli` and `systemctl`; a web page (`src/web`) connects with Web
Bluetooth, streams a scan, joins a network and switches SSH. This directory holds
TLA+ modules translated from that code, the TLC runs that check them on small
instances, and TLAPS proofs of what matters most for every instance.

## 1. Inventory

| Component | State | Operations | Talks to |
|---|---|---|---|
| Scan service: `service.py:109-181`, `wifi.py:101-148` | `_scan_task`, the stream task and its position, `_rescan_task`, the characteristic's value | write (trigger), read (legacy), the stream, the background rescan | nmcli; the page, by notifications |
| Scan session: `ble.js:236-322`, `app.js:372-412` | per call: networks, `done`, timer, listener | `streamWifi`, its listener, its timer | scan service, over the link |
| Connect pipeline: `service.py:183-205`, `wifi.py:151-322` | NetworkManager's profiles and active connection; per write: candidates, stale names | write; list, read, delete, add, verify, modify, up | nmcli; the result channel |
| SSH switch: `ssh.py`, `service.py:223-237` | the unit: runs, starts at boot | write, read | systemctl; the result channel |
| Page connection: `ble.js:48-137`, `app.js:105-192, 608-655` | `device.gatt`, `server`, `chars`, attempt number, button, cards | click, attempt, backoff, disconnect | browser's GATT stack |
| Join dialog: `app.js:243-293, 482-603` | dialog, button, message, watchdogs | open, close, submit, result, watchdog | connect pipeline, result channel |
| Listings: `wifi.py:22-30, 52-71, 123-148`, `network.py:72-130`, `service.py:25-27, 39-125` | none | split, de-duplicate, sort, limit, rank, name | |
| Status refresh: `service.py:199-221, 239-290`, `wifi.py:332-361`, `network.py:23-40` | status and address values | periodic, delayed, after a connect, read | nmcli, the kernel |
| Lifecycle: `service.py:294-345`, `ble_server.py:277-439`, `__main__.py:29-55`, `agent.py:91-127`, the systemd unit | `_stop_event`, tasks, bus, registrations | setup, run, signal, shutdown, exit, restart | BlueZ, systemd |
| Agent's answers, protocol, logger, dev server, markup, scripts | none that the rest depends on | | |

How they interact. Everything in the service runs on one asyncio loop: a handler
is atomic between two awaits, and each await (an nmcli, a sleep, another task) lets
every other handler in. One central is served one ATT request at a time on a
characteristic, but a second central, or the same one after a reconnection, may
write while a handler still awaits: an `nmcli connection up` may take 60 s and an
ATT request is given up after 30 s. Results and scan frames come back as
notifications without any correlation to the request, and the page attaches them
to whatever it is showing.

What is hard, and what makes each part correct:

- *Scan service.* Cancelling a task is a request that a later step delivers, and
  the handler awaits it. Correct: one stream on the air, no orphaned task, coherent
  frames, an answer to every write, a closing frame for the newest request.
- *Scan session.* Several calls hear one characteristic; timers race frames; links
  drop. Correct: a resolved list has no hole and one origin, each call settles
  once and for good.
- *Connect pipeline.* Eight awaits with nmcli failing, timing out after having
  worked, and other requests in between; profiles addressed by a name that is not
  their identity. Correct: ok means joined, other networks' profiles survive, an
  answer to every write.
- *SSH switch.* Two systemctl in a row without a lock, either of which may fail, or
  raise past the handler so that the other is skipped. Correct: ok means both, and
  an ok puts right what an earlier write has left half switched.
- *Page connection.* Two retry loops on one client, each with the Pi its own click has
  chosen. Correct: the cards are shown only with a client that works (this holds for
  a user of one Pi), the button comes back.
- *Status refresh.* A sample is taken in one await and pushed after it, by tasks that
  know nothing of each other. Correct: the characteristics catch up with the Pi.
- *Lifecycle.* A stop signal at any await of setup, two shutdowns under way at once,
  cancellations that are swallowed. Correct: what is advertised is served, nothing
  periodic outlives its bus, a stop is a stop and a failure is a restart.
- *Join dialog.* Watchdogs without an owner, results without correlation. Correct:
  what is shown is about what was submitted last, and nobody waits for ever.

`PROJECT.json` lists each hazard with its line and the properties that would catch it.

## 2. Modules

| Module | Models | State ↔ code |
|---|---|---|
| `ScanStream` | the promise of the scan characteristic (`README.md:86`, `service.py:128-133`) | `wire`: the last frame |
| `ScanService` | `_on_write_scan`, `_stream_scan`, `wifi.scan`'s awaits, `_background_rescan` | `scanTask` = `_scan_task`; `spc[r]` = where the task of request r is; `cancelled` = `Task.cancel()` not delivered yet; `rescan` = `_rescan_task` |
| `ScanSession` | extends `ScanService` with `streamWifi` and the link | `armed` = timer, `hears` = listener, `got` = `networks`, `done` = the promise; `told` is the end frame heard (history) |
| `WifiConnect` | `_on_write_connect`, `wifi.connect` | `pc[r]` = the nmcli awaited, `todo`/`stale` = the rest of `candidates`/`stale`, `verdict` = the result pushed; `alone`, `smooth`, `holder` are history |
| `SshControl` | `_on_write_ssh`, `_on_read_ssh`, `set_enabled`, `is_enabled` | `pc[o]` = the systemctl awaited, `verdict[o]` = the result pushed or the exception; `since`, `lastOk` are history |
| `PageLink` | `PiBleClient.connect`, its click handler and events, `setConnectedUi` | `device[c]` = the `device` of a click's loop, `gatt[d]` = `device.gatt.connected`; `server`, `chars` = the Pi that the client's are of, or none, or several (`Mixed`); `hears` = the Pis subscribed to; `disabled` = `btnConnect.disabled`; `shown` = cards shown, hero hidden |
| `JoinDialog` | extends `PageLink` with the dialog, its submissions and results | `open`, `connecting`, `error` = overlay, submit button, message; `to[t]` = the Pi written to; `air[d]` = notifications and answers on their way from a Pi |
| `Listings` | `_parse_terse`, the list of `wifi.scan`, the legacy read, `network.interfaces`, `default_local_name` | `input`: what one of them is given |
| `StatusRefresh` | `_status_loop`, `_delayed_refreshes`, `_refresh_status_and_ip`, the two reads, `status`, `primary_ip` | `stage[f]` = the await of task f, `got` = its sample, `left` = its delays; `status`, `address` = the characteristics' values; `world` = the Pi |
| `Lifecycle` | extends `StatusRefresh` with `_amain`, `setup`, `run`, `shutdown`, `register`, `unregister`, `register_agent`, `unregister_agent` and `Restart=on-failure` | `main` = the await of `_amain`; `sd[p]` = that of shutdown p; `bus`, `adapter`, `adv` = the fields of `Peripheral`; `registered` = what BlueZ knows; `held` = the rest of shutdown's tuple of tasks |
| `MC*` | the instances TLC checks | |
| `ScanServiceProofs`, `ScanSessionProofs`, `WifiConnectProofs`, `SshControlProofs`, `JoinDialogProofs`, `LifecycleProofs`, `ListingsProofs` | theorems about the module of that name (`JoinDialogProofs` about `PageLink` too) | |
| `ListingsSortProofs` | theorems about the sorted lists of `Listings`, over `ListingsProofs` | |

An action is what the code runs between two awaits, with every assignment and
notification of that stretch in it. Definitions called "Mutant of ..." are not part
of the specification: each is a plausible bug of the definition below it, kept to
show that some property would notice.

Conventions and abstractions, by module:

- *ScanService.* Of a network only its number in its list matters. `Overlap` says
  whether a write may arrive while another is answered; `SwallowsCancel` is
  `asyncio.wait_for` before Python 3.12, which may return a result that is already
  there instead of the cancellation; `SpawnMayFail` is an `OSError` from starting a
  process, which `_stream_scan` does not catch. A cancellation that arrives while
  the process is killed on its timeout is not told apart from one before it.
- *ScanSession.* Links deliver in order and lose what is in flight when they drop.
  Listeners stay on the characteristic objects of the old connection and hear
  nothing of a new one. A write to a characteristic that another write occupies is
  rejected by some browsers and queued by others: both are allowed.
  Under `~Overlap` a write made over a new link also waits for the answer to one made
  over the old; with `Overlap` it does not.
- *WifiConnect.* NetworkManager is outside the repository and is modelled from what
  the code asks of it: `show` and `delete` by name act on every profile of that name,
  `modify` and `up` on one of them, terse output escapes `:` and `\` (`Altered` is
  the set of ssids it changes), and an activation takes the interface from whatever
  it was connected with. A killed nmcli may or may not have had its effect.
  Of `nmcli connection up` NetworkManager's activation is one step (`Rises`) and the
  end of the await, with the result pushed, a later one (`Up`): another request may
  take the interface between the two. Nothing but the requests changes the connection:
  an access point that disappears in that moment is not modelled. A fault that no state explains is counted by
  `MaxFaults`.
- *SshControl.* The unit may be found running without starting at boot, or the
  reverse. A verb that fails leaves the unit as it was. Starting systemctl may raise,
  and so may decoding what it has printed, after it has done its work: only `SshError`
  is caught, so the handler ends there (`WriteRaises`, `ReadRaises`). An `is-active`
  that fails for another reason than a stopped unit, which the code reads as stopped,
  is not modelled.
- *PageLink.* Each click opens the browser's chooser and its loop keeps the Pi chosen,
  while `server` and `chars` are the one client's: a failing attempt takes down its own
  Pi's link only, and clears them whosever they are. Two loops that discover on two
  Pis at once may leave a mixture of characteristics, of which only that it is one is
  told (`Mixed`). When a link goes down the GATT operations on it reject, in the same
  step as `gattserverdisconnected`. `refreshAll` and the first scan are left out:
  they catch their own errors.
- *Listings.* A character is a colon, a backslash or any other; a signal is a small
  number or none; a security or a hostname is its length where only that matters, and
  an ssid is the bytes it takes in a JSON string: as many as it has, but 2, 3 or 6 for
  each one that is escaped or replaced (`CodedSize`). Python's `sort` is stable: it is
  modelled by the places of the elements in sorted order (`Order`), each put behind the
  last that is not greater (`Place`). What nmcli escapes is taken from its documentation
  (`Escaped`).
- *StatusRefresh.* What the Pi would tell is a version number; an address is a pair of
  looks, and counts as old as its first. An answer that is empty because a query
  failed is `Blank`.
- *Lifecycle.* BlueZ and D-Bus are outside the repository: BlueZ serves calls in the
  order they are sent, so that a registration takes effect when it is sent and its
  reply comes later; it forgets what a closed connection has registered; a call on a
  closed bus, or pending on it, raises. Awaits between which nothing is read or
  written by anybody (an introspection and the call after it, an alias) are one. Any
  call may fail, `MaxFaults` times in all. There is one signal, one scan, and no
  restart of bluetoothd.
- *JoinDialog.* The firmware is what `_on_write_connect` promises a central: a result
  and then an answer, or an error answer alone; `WifiConnect` has the details.
  A submission made while the write of an earlier one to that Pi is still unanswered
  is rejected by the browser at once, which is the harder case for the dialog. The
  write goes to the Pi whose characteristic the client has, which may be another one
  than its live server; so may the result, as a page that was subscribed to a Pi stays
  so while that link is up.

## 3. Runs

| Run | Asks | Bounds |
|---|---|---|
| `ScanSerial` | With one central: types, one stream on air, no orphan, refinement of `ScanStream`, every write answered, the newest stream closed | 3 writes, so that a stream is cancelled by a write that is itself overtaken; up to 2 networks, so that a cancellation may come before, between and after them; cancellations swallowed, processes that do not start |
| `ScanSpam` (violation) | Is the sequence coherent when writes overlap? | 3 writes: one on the air, two awaiting it |
| `SessionSafe` | What calls resolve with, that they settle, and settle for good | 2 calls open at once, 2 networks, 1 frame in flight (more only delays the same frames), early timers, a link that drops any number of times |
| `SessionTail` (violation) | Is a resolved list complete? | 2 calls, patient timers, a link that holds: the fewest circumstances |
| `ConnectRace` | ok means joined, names follow ssids, others untouched, answers; a request that nothing disturbs wipes every stale profile whose name is its own and leaves its fresh one | 2 overlapping requests over every payload, 4 profiles, two of which share a name and one has a name of its own that is not its ssid, 1 fault at any await; that is enough for the repair of a profile added without its key-mgmt; nmcli escapes one of the two ssids, and `WipesDistinct` and `FreshProfileWins` are about the other |
| `ConnectColon` (violation) | Are stale profiles wiped when nmcli escapes the ssid? | 2 requests one after the other, with one such ssid, nmcli without failures |
| `SshSerial` | ok means both halves; reads see it; runs iff at boot | 3 writes, 2 reads, 2 failures or exceptions, from each of the four states of the unit: a write left half switched, the next one failing too, and one that repairs it |
| `SshRace` (violation) | Runs iff at boot, with overlapping writes | the same, overlapping, no failure |
| `Dialog` | Cards, button, dialog, liveness | 2 retry loops of 2 attempts, on one Pi or on two (`MaxDevices`), drops at any time; 2 submissions with one Pi, and once a second one is chosen the second submission is not made (`MaxTriesOfMany` = 1), which keeps the run short: what two submissions do to each other needs no second Pi, and `FailureIsOfLast` is proved for any number of both |
| `DialogWatchdog` (violation) | Is a watchdog's complaint about the last submission? | 1 Pi, 1 loop of 1 attempt, 2 submissions |
| `Listings` | Do the pure parts compute what they promise? | every line of up to 3 fields of 2 characters (every pair of special characters meets within a field and at its ends), every list of up to 3 lines with 3 ssids, 3 signals and both marks, every ssid of 32 bytes or less with any number of its bytes coded in 1, 2, 3 or 6, with the lengths of six securities, 3 interfaces, hostnames of up to 24 characters (the cut begins at 18) |
| `Lifecycle` | Advertised means served, the loop never outlives its bus, a stop ends, a failure restarts, the values catch up | 1 failure at any call, 1 signal at any moment, 1 scan, 1 guest (a join with a delayed refresh, or a read) beside the loop, 1 change of the Pi's state, 1 attempt to power the adapter: two samples of different age, two shutdowns and one restart all happen |

Every passing run has for each property a mutant of a definition it checks that breaks
it (`PROJECT.json`, "mutants").

What the violations show, each against a sentence of the repository:

1. `ScanSpam`: `_on_write_scan` does not look at `_scan_task` again after its await
   (`service.py:138-142`), so two waiting writes both launch a stream.
2. `SessionTail`: `streamWifi` settles on any end frame and ignores its `n`
   (`ble.js:283`). `SessionSafe` shows what still holds: the list is a hole-free
   tail of one stream, and complete when that stream is the call's own.
3. `ConnectColon`: the ssid read for comparison is not unescaped (`wifi.py:186`).
4. `SshRace`: two verbs without a lock (`ssh.py:42-48`).
5. `DialogWatchdog`: the watchdog checks a label, not a submission (`app.js:590`).

A property that is qualified names the circumstance in its comment. `NewestCloses`
has an exit for a process that cannot be started, `FailureIsOfLast` for a request
the user has left behind; `OkMeansJoined` and `OthersUntouched` are checked and
proved where no saved profile bears the name of another network (`NoClash`).
`OkMeansJoined` also excuses an ok whose connection was changed after the activation,
which needs a request that overlaps: one that is served alone is joined when it is
told so. `WipesDistinct` and `FreshProfileWins` are about a request that no other one
overlaps and whose listings, readings and deletions do not fail, whatever else does,
and `CardsWork` about a user whose clicks were all for one Pi.

Met while modelling, without a run of their own, because what is left of the promise
is the property of a passing run:

- The legacy read may exceed 512 bytes, which `service.py:25-26` excludes ("so we never
  exceed the 512-byte GATT characteristic value limit"): five networks whose coded ssid
  and security have more than 48 bytes each, at a signal of three digits.
  `LegacyReadFits` has the border as its second half.
- With two Pis the cards may be shown over an empty client: a loop that fails on a Pi
  whose link is down clears the client of the other Pi (`ble.js:89-92`) and no
  disconnected event tells the page, while `app.js:616-617` says: "When disconnected
  the WiFi/Status/SSH cards are useless, so we hide the whole grid".
- An overlapping request may take the interface from one that is about to be told ok.

### Fairness

- `ScanService`: weak fairness of each stream task, of the handler that awaits one
  and of the rescan. The loop runs every ready task; sleeps are 50 ms and every
  nmcli is killed on a timeout. Nothing says that a write arrives.
- `ScanSession`: also of the link's deliveries, of the answer or rejection of a GATT
  operation, and of timers. Calls and drops are free. With a link that goes up and
  down for ever a call still settles: its timer does not depend on the link.
- `WifiConnect`: weak fairness of each request's pipeline; each nmcli has a timeout.
- `Lifecycle`: of `_amain`, of each shutdown and each refresher, of the signal's task
  once it is created and of its cancellation, of the end of a scan, and of systemd's
  restart. The loop runs what is ready, every nmcli is killed on a timeout, BlueZ
  answers. Signals, requests and changes of the Pi are free.
- `JoinDialog`: of each connection loop (browser promises settle, backoff is a
  timer), each submission and its watchdog, and the deliveries.
- `SshControl` has none: `systemctl` is run without a timeout, so nothing bounds it.

## 4. Proofs

All are for every value of the constants that satisfies the module's named
assumption, and are checked by `tlapm`.

**`ScanServiceProofs`.** `TypeCorrect` needs only `TypeOK`, whether writes overlap or
not. For one central (`~Overlap`) `SerialStreams` (`OneStreamOnAir`) and
`SerialNoOrphan` follow from `SerialInv`: neither is inductive alone. That a handler
may launch a stream after its await depends on the task it has awaited being still
the one in `_scan_task` and on no other handler waiting (`OneWaiter`); that the
frame on the wire tells how many networks were shown depends on `SentCounts`; and a
request without a task must be one whose handler has not launched it
(`LaunchedWhenDone`). `ServiceKeepsPromise` is the refinement of `ScanStream`: under
`SerialInv` the frame before a step of a stream is the stream's own, so each step
maps to one of `ScanStream` or to a stutter. `ScanSpam` shows that the assumption
is needed.

**`ScanSessionProofs`.** `SessionRunsService` is a refinement: `ScanSession` adds the
page and the link to `ScanService` without giving the service a step it has not, so
`SessionKeepsPromise` has `KeepsPromise` from the theorem above. `SessionTypeCorrect`
and `OutcomeIsFinal` (`SettledForGood`) follow from `PageInv`: an armed timer belongs
to a call that has begun and is open. `ListsAreTails` (`ListIsTail`) and
`OwnListsAreComplete`, for one central, need `ListInv` on top of `SerialInv`: what is
in flight is an uninterrupted end of what was on the wire (`AirInv`), nothing of a
stream is seen before its call begins (`FreshInv`), and the list of a call that hears
is the frames just before the next to arrive (`HearInv`). Any number of calls, drops
and frames in flight.

**`WifiConnectProofs`.** `TypeCorrect` is proved with `RequestInv`: past the first
check a request has a real ssid, and past `Proceed` no bad password. Under `NoClash`,
for overlapping requests and any number of faults: `NamesReachTheirNetwork`
(`NamesFollowSsids`), `OkJoins` (`OkMeansJoined`) and `OthersSurvive`
(`OthersUntouched`). The strengthening of the last is `StaleInv`: a name read as stale
keeps denoting only profiles of the request's network although other requests delete
and add profiles between the read and the deletion. It holds because a profile added
meanwhile is named after its own ssid. That of `OkJoins` is `HolderInv`: while `holder`
is the request that has activated, it is not told yet and the interface is still on its
network, and a request that none overlaps is `holder` until it is told. Every step of
another request that changes the connection takes `holder` away (`ConnectionKept`).
`DistinctAreWiped` (`WipesDistinct`) and `FreshProfileIsOnlyOne` (`FreshProfileWins`) do
without `NoClash`: a request that none overlaps is the only one served (`AloneInv`), so
that until it adds, each profile of its network with a name of its own is still to be
read or to be wiped. After it the fresh profile is there and is the only such one, and
it keeps its key or gets it by the repair (`Fresh`, `FreshAdded`, `FreshRepaired`).

**`SshControlProofs`.** `TypeCorrect` needs nothing but `TypeOK`. For one central
(`~Overlap`) `OkSwitches` (`OkMeansSwitched`), `SerialReads` (`ReadsLastOk`) and
`SerialSettles` (`SettledAgrees`) follow from `SerialInv`: one operation is at work,
between its two verbs a write that has not failed has its first half as wanted, and
when no write is at work and the last one has ended with an ok both halves are as that
one wanted, whatever was failed, skipped or found before. `SshRace` shows that the
assumption is needed.

**`JoinDialogProofs`.** For every number of Pis, loops, attempts and submissions.
`TypeCorrect` is proved with `AirInv`, about what may be in the air for which
submission, to which Pi. `CardsAlwaysWork` (`CardsWork`) needs `LinkInv`. In it
`ChosenInv` says that a loop under way has chosen a Pi, and `OnePiInv` that with one Pi
a loop that discovers has a link and the client's server, and that no loop is ever
spoilt. `FailureShownIsOfLast`
(`FailureIsOfLast`) needs `LastInv`: as long as no submission has been left behind, one
result at most is still to be heard, it is that of the last submission, and the dialog
waits for it. With three submissions an invariant the run had accepted fails: the write
of the first may throw late, which re-enables the button while the second waits, and a
third is made over it. `Throws` therefore counts as leaving a submission behind
(`stray`) when the dialog is waiting for another; two submissions never get there.

**`LifecycleProofs`.** For every number of guests, failures and attempts, with
cancellations swallowed or not. `TypeCorrect` needs `SleepInv`: a task that sleeps
between two refreshes of a join has a delay before it, else `left` would leave its
range. `LoopNeedsBus` (`LoopOnOpenBus`) needs `LoopInv`: a shutdown past the loop has
found it over, or not begun under a set stop event, and a running loop without a stop
has an open bus, so nobody closes the bus between. `AdvertisedIsServed`
(`AdvertisedServes`) needs `ServedInv` as well: setup registers the application before
the advertisement, and while a shutdown is between the two unregistrations setup is
past both registrations, so the advertisement cannot come back over an application
that goes.

**`ListingsProofs`, `ListingsSortProofs`.** For inputs of any length; the first is
about lines of any number of fields. A theorem that takes a predicate cannot be
instantiated here, so the induction over data goes through sets: every set of naturals
that is not empty has a least element (`LeastExists`, from `WellFoundedInduction`),
hence a set that holds 0 and the successor of each of its elements is `Nat`
(`AllNaturals`), and a function defined step by step has a value (`StepwiseExists`).
`FieldsComeBack` (`TerseRoundTrip`) goes over the characters of a field and then over
the fields. `LegacyFits` (`LegacyReadFits`) is arithmetic, with both sides of the border of 48 bytes; `NamesDiffer`
(`NamesTellApart`) is about where the suffix ends up in the name. The sorted lists
rest on `OrderIsStable`: `Order` is a permutation of the places, ordered by key and,
among equal keys, by place. With it `UsefulComeFirst` (`UsefulFirst`) follows from what the loop over the interfaces has
listed after k of them (`ListedUpTo`), and `StrongestAreListed`
(`ScanListIsStrongest`) from what the loop over nmcli's lines tracks: each place of
the list has the strongest line of its network so far, in the order of the networks'
first lines (`Tracks`), which is the order the reference definition has for equal
signals (`Agrees`).

The assumptions are the circumstances the properties are checked in: `~Overlap` is
one central that waits for each answer (`ScanSpam` and `SshRace` show what overlapping
writes break), and without `NoClash` a saved profile that bears another network's name
is what `up` by name may take.

Only model-checked: liveness (`WriteAnswered`, `NewestCloses`, `EveryCallSettles`,
`ConnectAnswered`, `NeverLocked`, `NeverStares`, `Stops`, `Serves`, `CatchesUp`), which
is beyond the prover. Every other property of a passing run is stated by a theorem.

## 5. Not modelled

- The delays of `_delayed_refreshes` as times. They are slept one after the other, so
  the refreshes come at +2, +7 and +17 s (`service.py:208-210`), where `README.md:93-95`
  has +0/+2/+5/+10 s; the model has no clock and does not show it.
- The refresh after a success in `WifiConnect` is one step; what it pushes is
  `StatusRefresh`'s matter.
- The cached `_value` of a characteristic, but for the status and the address: every
  readable one has a read handler, so no read of a central returns it.
- A second signal, and a restart of bluetoothd, which nothing in `src/` notices.
- The page's SSH toggle, address table, labels and log; what `doScan` draws.
- The agent's answers, protocol encodings, dev server, markup, installation scripts:
  no state, or pure I/O.

## 6. Plan

In order of importance; 1 to 9 are done.

1. `ScanStream`, `ScanService`, and the refinement (the central protocol).
2. `ScanSession`, composing the page with it.
3. `WifiConnect`, the operation that can leave the Pi unreachable.
4. `SshControl`.
5. `PageLink`, `JoinDialog`.
6. `StatusRefresh`, the samples and the pushes.
7. `Lifecycle`, over 6, whose tasks its stop event ends.
8. `Listings`, the pure parts with reference definitions.
9. Theorems: done for every safety and action property of a passing run.
10. What `doScan` draws, on top of `ScanSession`; the page's SSH toggle on `SshControl`.
