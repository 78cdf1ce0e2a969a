# A TLA+ model of snapclient

snapclient is the firmware of an ESP32 that plays a Snapcast stream in time with
other clients. This directory holds TLA+ modules translated from its source, the
TLC configurations that check them on small instances, and proofs checked by
TLAPS. `PROJECT.json` lists components, runs, hazards, theorems and, under `map`,
the source lines each definition stands for.

Files are named without their directories: player.c and snapcast_protocol_parser.c are in
`components/lightsnapcast/`, main.c and connection_handler.c in `main/`, tas5805m.c in
`components/custom_board/tas5805m/`, the others in the component of their name.

## 1. The system

### Tasks

| task | where | state it owns | what it does |
|---|---|---|---|
| `http_get_task` | main.c:1103, priority 17, core 1 | connection, parser, decoders, `scSet`, `pcmData` | finds the server, reads messages, decodes chunks, inserts them into the PCM queue, takes time measurements |
| `player_task` | player.c:1419, priority 20, core 1; created and deleted by need | the chunk being played, its `scSet`, `initialSync` | takes chunks, starts in time, writes to I2S, resynchronises, stops after 2 s without a chunk |
| gptimer alarm | player.c:920, interrupt | | tells the player when the first sample is due |
| `dac_control_task` | main.c:1310, in `app_main` | what the codec was told last | drives mute, volume and power of the codec |
| web server's handlers and `http_server_task` | ui_http_server.c | requests on their way (`xQueueHttp`) | read, change and clear settings, DSP parameters and codec registers |
| polling task, fault monitor | tas5805m_settings.c:43, tas5805m.c:79 | | restore the codec's settings once it plays; clear its faults |
| OTA task, WiFi and Ethernet event handlers | `ota_server`, `network_interface` | links | change links under the others |

### How they interact

* PCM chunks: allocated by http, queued in `pcmChkQHdl`, freed by whoever drops or
  plays them. The *player* creates, replaces and deletes the queue.
* Settings: `currentSnapcastSetting` under a mutex, then a one-slot mailbox that
  is created by `start_player` and deleted by the task it started.
* Clock: http inserts into the latency filter; a semaphore tells the player that
  the filter is full; the player reads `latencyToServer`.
* Codec: any task changes a field of `audioDAC_data` and overwrites a one-slot
  queue with a copy of the record.
* DSP parameters: `http_server_task` stores them in NVS, puts them into `all_params` under
  `params_mutex` and gives a binary semaphore; `http_get_task` takes it, copies and
  rebuilds its filter. `app_main` restores what is stored through the same functions.
* Settings: NVS behind `hostname_mutex`, used by the web server and by `http_get_task`.
* Amplifier: mute and state from `dac_control_task`, settings from the polling task and the web
  server, faults from the monitor, all over one I2C bus and through the chip's book and
  page registers, with no lock.
* Connection: `connection_get_byte` is a pull state machine over lwIP's netbufs,
  called by the parser for each byte, and returns -1 when to start over.

### Components, and what makes them correct

| component | correct when | modelled by |
|---|---|---|
| PCM player | one consumer at a time; no chunk leaks or is freed twice; settings reach the player; I2S calls are legal; an alarm belongs to its sync; after a pause playing starts again | `Player` |
| DAC control | no change is lost, the codec ends with the latest values | `DacControl`, abstractly `LatestValue` |
| server connection | the parser gets each byte once and in order; no deleted netbuf is read; the client gets back to a server, over Ethernet if that is why it restarted (it does not always, `connection_eth`) | `Connection`, abstractly `ByteStream` |
| session: messages and decoders | a chunk meets its decoder and a buffer that fits (a PCM chunk need not, `session_pcm`); timestamps match the audio; nothing of one connection spoils the next | `Session` |
| time synchronisation | the latency is the median of the samples; the player waits just long enough; the latency becomes the server's | `TimeSync`, `MedianFilter` |
| settings manager | what was confirmed is there for every reader and after a restart; the mutex comes back and is given by its owner | `SettingsManager` |
| DSP parameters | no change is forgotten; what sounds is what is stored; the filter never goes back to older parameters | `Dsp`, abstractly `LatestValue` |
| audio board: TAS5805M | the chip is at its control port when no call is under way; it, NVS and the driver's copies agree; its settings are restored once it plays | `Tas5805m` |
| web interface | every change it confirms is one of these modules' | their callers in `SettingsManager`, `Dsp`, `Tas5805m` |
| network interfaces, serialisation, OTA, provisioning, other drivers, vendored and unused code | | not modelled; section 7 |

### What is hard

Preemption of http by the player between any two of its steps (player life cycle,
queue and mailbox handles); state that outlives the connection it belongs to
(netbufs, decoder buffers, `pcmData`, filter samples, the hello message); one-slot
mailboxes that are overwritten; failing allocations; liveness of a client that
reconnects, changes interfaces and stops and starts its player; values stored one by one in a
flash that may fail or lose power in between; registers reached through a page that is
shared without a lock. `hazards` lists where.

There are no tests of these parts in the repository. The only tests are those of
vendored audio components.

## 2. Modules and code

**`Player`** (player.c, with the calls main.c makes). The two tasks on core 1 under
fixed priorities: a player task may take a step whenever it can, http only when
every player task is parked in a blocking call (`HttpRuns`). `hpc` and `ppc[t]`
are program counters at the points where a task may be preempted or block; each
action is the code from one to the next. Player tasks are a set, as a new one can
be created while the last one is finishing. Sample data and time are abstracted:
whether a chunk is early or late is a free choice. A failed assertion or a use of
freed memory is recorded in `fault` and stops the model, as the chip resets; the
properties that name a fault check that it does not happen.

**`DacControl`** (main.c:503-545, 1310-1342). Callers take the semaphore, store a
field, overwrite the slot, give the semaphore; the control task receives and
then compares field by field. `LatestValue` is the promise: a register that may
skip requests but ends up with the latest. The refinement mapping is in the module.

**`Connection`** (connection_handler.c, http_get_task's loop). `setup_network` with its
choice of interface, mDNS or static server, the setting being read anew for each
attempt; then the states of `connection_get_byte`. A byte is its position in the
stream, a netbuf a sequence of fragments, so that `start` and `len` move as the
code's pointer and length. lwIP, mDNS and the links are external actions.
`ByteStream` is the promise to the parser, checked and proved as a refinement.

**`Session`** (main.c:311-487, 600-1076, 1132-1304; snapcast_protocol_parser.c). One
action per message, or per way a message can end early. Audio is a sequence of
numbered blocks; a chunk's timestamp is the number of its first block. Kept from
message to message and connection to connection, as in the code: hello message,
codec, decoders, `decoderChunk.inData`, frames inside the FLAC decoder, `pcmData`. A packet
that does not decode keeps the task in the decoder's loop (`DecodeFails`, `Stuck`): main.c:756
and 833 have no abort condition. A PCM chunk larger than the half-read one it is put into is
the fault "pcm overrun", after which the model stops: what the heap holds then is not modelled.

**`MedianFilter`** (libmedian/MedianFilter.c): the ring of nodes with its pointers, as
operators on a record. **`TimeSync`** uses it: requests and answers, resets after a
minute and by `start_player`, the two request intervals, the semaphore.

**`Dsp`** (dsp_processor.c:94-335, 795-884; dsp_processor_settings.c; http_server_task). Two callers,
`app_main` and `http_server_task`, go through the code's functions access by access: each read
and write of NVS, each section under `params_mutex` and each give of the semaphore is a step. The
worker's first copy is made without the mutex, as in the code. A value may be set and not
committed; it is read all the same. `behind` records the failures that part what sounds from
what is stored, until a request stores and loads a flow again. `LatestValue` is the promise
again, this time to the filter.

**`SettingsManager`** (settings_manager.c). One record per caller says which call it is in;
take, access, commit and give are steps, an access or a commit may fail, the chip may restart at
any step and lose what was not committed. What differs from key to key is kept:
`settings_get_server_port` gives the mutex before it falls back and once more at its end,
clearing `server_host` reports a missing key, the other clears ignore the commit's result
(`IgnoresCommit`).
`acked` is what the web server answered 200 to.

**`Tas5805m`** (tas5805m.c, tas5805m_settings.c). The chip has a book, a page and registers; a
driver call is its list of I2C transactions, once for each gain of the mixer, interleaved with
those of the other tasks one by one; each may fail. The driver's copies (state, mixer mode, eq
gain) and the stored settings change when the call returns, the copies of the settings and the
stored eq whatever the writes returned. `overlapped`, `failed` and `broken` are history variables
with which the properties say under which circumstances they hold.

**Proofs**: `PlayerProofs`, `DacControlProofs`, `ConnectionProofs`, `DspProofs`, `SettingsManagerProofs`,
`Tas5805mProofs`, `SessionProofs`, `TimeSyncProofs`, each about the module it is named for.

## 3. Runs

Definitions marked "Mutant" in the modules are plausible bugs; for each property of
each passing run `PROJECT.json` names one which, put in the place of the real
definition, violates that property.

| run | bounds | what it shows |
|---|---|---|
| `player` | 2 tasks, 2 queues, 3 chunks, 2 formats, 2 buffer lengths, failing set-ups | one consumer, legal I2S calls, alarms paired with syncs, the mute follows the server, chunks neither leaked nor freed twice, settings not lost, everything released after a stop |
| `player_live` | 1 task, 1 queue, 2 chunks, failing allocations, power management, with fairness | notifications are taken; a stopped player starts again |
| `dac` | 2 callers, 1 volume, with fairness | nothing lost, the codec follows, `LatestValue` is implemented |
| `connection` | 3 bytes a connection, fragments of 1 or 2 bytes, two fragments a netbuf, Ethernet build with mDNS answered on both interfaces, setting changes, aborts, parser restarts, with fairness | bytes in order from valid netbufs, no byte stuck, reconnects, netbufs deleted |
| `session` | 2 chunk sizes, up to 2 FLAC frames a chunk, 6 block numbers, 2 formats, packets that do not decode, with fairness | decoder, settings and the buffers of OPUS and FLAC packets fit the stream; FLAC timestamps and order; playing resumes, also after an empty hello |
| `timesync` | ring of 5 nodes, "full" at 3, two servers, jitter of 1, with fairness | the ring yields the median at every fill level; semaphore, interval and latency follow |
| `dsp` | 2 flows of 1 parameter, 2 values and the flows' own defaults, any contents of NVS, failing accesses and commits, with fairness | no change forgotten, what sounds is what is stored but for four failures, `LatestValue` is implemented |
| `settings` | a web server and a client, host, port and one other key, 1 value, failing accesses and commits and restarts at any step, with fairness | confirmed values survive, who gives the mutex, the mutex comes back |
| `tas5805m` | 2 calls of `dac_control_task` and the web server, the driver refusing some, the restore, fault clears at any step, 2 of the mixer's 4 gains, any failing register writes, one failing change of book or page, with fairness | back at the control port, chip, driver's copies and NVS agree, settings restored |

Why the bounds are enough. Two player tasks: the second is created by http, which
cannot run until the first is past its last blocking call, and a third needs the
second gone. Three chunks: one in each task's hands and one in the queue. Two
queues: the old one and the new one; a sender can be blocked on one of them only.
Three bytes give the first, a middle and the last byte of a fragment, a fragment
change and a netbuf change. A ring of 5 has early odd and even counts, the step to
full and steady state (199 and 19 in the code). Six block numbers are more than
twice the blocks that two chunks hold, so wrap-around cannot hide a gap. Two flows and one
parameter: the code handles each parameter alike and in a fixed order, and a switch needs a
flow to come from and one to go to. Three keys are one of each kind of call. Two calls
beside the restore: one that changes the state and one in a book, or one setting posted
twice, the second after the first failed; a call ends with the chip back at the control port,
so that more of them begin like the first. Two of the four gains of the mixer: a first and a
later one, since what matters is that a later one that goes well must not hide that the first
failed. The bounded calls are why `tas5805m` may stop, and its configuration says
`CHECK_DEADLOCK FALSE`. Two buffer lengths let the server change the delay at any time. The runs
have one chunk size: the player replaces its queue for smaller chunks in the branch it replaces
it in for a longer buffer, and two chunk sizes take TLC too long; the theorems about `Player`
hold for any set of chunk sizes.

Three runs show where the code differs from what it says of itself (`findings`):

| run | property | what happens |
|---|---|---|
| `player_delete` | `QueueOutlivesSender` | the player deletes the queue between http's check of the handle and `xQueueSend`, or while http is blocked in it |
| `connection_eth` | `ReachesEthernet` | a muted client restarts for Ethernet (connection_handler.c:306), the first mDNS answer comes in on WiFi and replaces the choice (117), and it restarts over WiFi for ever |
| `session_pcm` | `PcmIntact` | a half-read PCM chunk is continued by the next connection's first PCM chunk |

Seen while modelling, without a run of its own:

* With mDNS enabled the query is repeated until it is answered
  (connection_handler.c:82) although README.md:180 says the static host is used when
  the resolution fails. In `Connection`, `QueryFails` and `QueryAgain` can go on until
  the setting changes; `Reconnects` assumes a server that answers.
* A restart the parser asks for (unsupported codec) leaves a netbuf undeleted
  (main.c:1280). `NetbufsDeleted` says that this is the only case.
* If the log call at player.c:2141 could block, a new player's handle would be
  overwritten with NULL. With `LogBlocks = TRUE` TLC finds it as a violation of
  `SettingsNotLost`; the runs use FALSE, since http can then only hold the log's
  lock, and hands it over before it gets any further. The theorems about `Player`
  hold for both, but for the two that assume `~LogBlocks` (section 5).
* After a failed hello the kept message goes out with size 0 (main.c:1226). `Resumes`
  shows that this costs one connection.

* A chunk without payload, of which player.c:1331 says that `player_task` "will know what to do
  with this", reaches `i2s_channel_preload_data` in an `ESP_ERROR_CHECK` (1664) if it is the one
  playing starts with. `Player` records it as the fault "preload_null_payload".
* When a notification brings another buffer length, player.c:1566 leaves the mute alone, so a
  mute that changed with it stays as it was until the next notification or sync
  (`LeavesMute`; `muteLeft` is what `MuteFollowsServer` excepts).
* A PCM chunk put into a half-read one may be larger than it: snapcast_protocol_parser.c:115-159
  checks no bounds. `NoFault` excepts "pcm overrun", and `PcmIntact` names the chunk it happens to.
* An OPUS packet that does not decode with a larger buffer, and a FLAC decoder that `write_callback`
  (main.c:397-418) aborted, keep `http_get_task` in their loops (main.c:756-773, 833-843) for
  ever: "should insert some abort condition?" `Resumes` has `Decodes` as a premise.
* DSP settings: the web server starts before `dsp_settings_init` restores (main.c:1531, 1544). A
  request in between is overwritten by what was read before it, and one before
  `dsp_settings_init` is dropped although it was acknowledged. A failed read of NVS yields defaults,
  which the next request stores.
* NVS may part what sounds from what is stored in four ways, which `StoredIsApplied` lists: a value
  set but not committed is read and not applied (dsp_processor_settings.c:109, 182); some parameters of
  a flow are saved, and none applied; all are saved, but the active flow cannot be read; a flow is
  switched to although its parameters cannot be read. The next request that stores and loads a flow
  mends it.
* The per-flow defaults of dsp_processor.c:80 sound only until something is stored or posted:
  `dsp_settings_get_flow_params` knows one default per parameter.
* `SettingsManager`: `settings_get_server_port` gives `hostname_mutex` twice if the key is missing
  (settings_manager.c:395, 410). If another task took it in between, FreeRTOS asserts;
  `OwnerGives` says that this is the only call that can do so. Clearing any key but
  `server_host` ignores the result of `nvs_commit` (200, 293, 460) and is confirmed although a
  restart brings the key back: `AckedSurvives` promises the removal of `server_host` only. With
  `Promised` TRUE throughout, TLC finds the lost removal at once.
* `Tas5805m`: the restore starts exactly when the codec begins to play, so a mute, volume
  or fault clear of another task meets it. The write lands in the book the restore is in: it
  is lost, or changes a coefficient, while the driver's copy says that it was made (tas5805m.c:36, 331).
  Without `~overlapped`, `ChipHoldsSettings` fails on that.
* `Tas5805m`: `set_eq_from_json` stores a gain whether or not the driver took it
  (tas5805m_settings.c:3249), so that a refused one is in NVS only, and refused again by every
  restore. The driver's copies of mixer mode and eq gain are new after a call whose writes failed
  (tas5805m.c:689, 985); the chip then has some of the mixer's gains, NVS the old mode. The next call
  for the setting that does not fail on the way brings them together: `broken` is what is excepted.
* tas5805m.c:565: `tas5805m_set_modulation_mode` returns the result of its second write only.
* main.c:1266: `scSet` goes back to volume 0 for each connection and a volume is passed on only
  if it differs, so a server at volume 0 does not turn down a codec that was louder.
* dsp_processor.c:525: `(uint32_t)valint` of a negative sample borrows one from the other channel.

Deadlock is checked in every run but `tas5805m`. `Player` and `SettingsManager` have a stuttering
`Halted` action for the reset chip only.

## 4. Fairness

* `Player`: FreeRTOS runs the highest ready task, so every started piece of code is
  finished (weak fairness); the armed alarm fires; the server goes on sending chunks
  and time messages, memory comes back, and gaps of 60 s are not the rule (strong
  fairness of these external choices only).
* `DacControl`: each caller that entered finishes; a mutex in FreeRTOS wakes the
  longest waiting task of the highest priority, and with two callers neither starves.
* `Connection`: the task runs; a reachable server is found, accepts and answers hello
  at some time if it is tried again and again (strong fairness). `LinksSettle` is a
  premise of the properties, not of the specification.
* `Session`: the task runs; a server that got a complete hello sends a codec header and
  chunks, one that got an empty one ends the connection. Nothing makes a packet decode: that
  the task leaves a decoder's loop again and again is a premise of `Resumes`, as a quiet network is.
* `Dsp`: the three tasks are scheduled and chunks keep coming; requests need not.
* `SettingsManager`: a task that is in a call is scheduled. A waiting task may time out instead of
  getting the mutex.
* `Tas5805m`: the polling task, and a task in a driver call, are scheduled; nothing makes a request come.
* `TimeSync`: the receive timeout makes `before_receive_callback` run, and the server
  answers what it was sent.

## 5. Proofs

For every value of the constants that satisfies the modules' assumptions:

* `OneConsumer`: at most one player task is active and `playerstarted` says whether one
  is. The invariant `ConsumerInv` adds that program counters are in range. It is
  inductive because only `StartPlayer` takes a task from "none" to "begin", under the
  guard that `playerstarted` is false, and only `DeclareStopped` leaves the active states;
  the lemmas `HttpStepUnmoved` and `PlayerMoves` say that of every action.
* `StoppedReleases`: `Cleared` follows a task through its last lines, which drop output, mailbox,
  queue and timer in that order; what is already dropped stays so, as no other task is active.
* `ChannelAlwaysFits`: `Positioned` ties the place in the loop to `initialSync`, and in sync to a
  channel that runs.
* `AlarmsPair`: `Alarmed` says of each task whether it may have a notification or a timer, and
  that the handle of the active task is its own or none.
* `SettingsArrive`: `Reachable`: the handle names the active task and its mailbox is there until
  it stops. Assumes `~LogBlocks`: a log line that blocks after `playerstarted` is cleared lets the
  next task start, whose handle the old one then clears.
* `MuteAsServerSays`: on top of that, what the task knows of the settings (`SettingsKnown`), that its
  mute is kept between its writes (`MuteKept`), and what a change leaves to do (`Pending`).
  Assumes `~LogBlocks`; buffer lengths are as many as one likes.
* `ChunksOwnedOnce`, for a finite set of chunks: `NotShared` says that heap, queue and hands are
  disjoint, `Accounted` that they are all chunks. The property counts chunks, so
  `SeqCounts` and `HoldersCount` turn the sets into sums.
* `PlayerTypes`: `TypesInv` is `TypeOK` in four parts, so that each action's step deals with the
  part it can disturb.
* `DacTypes`, `NoChangeLost`, `CodecTracks`, and `DacRefinesLatest`: each step of
  `DacControl` is a step or a stutter of `LatestValue`. `DacInv` adds to the properties
  that between driver calls (`AtRest`) the control task's two copies agree with each
  other; without it a message received in the middle could skip a field.
* `ConnectionTypes`, `NetbufAlwaysValid`, and `ConnectionInOrder`: `Spec => InOrder`, for any
  length, fragmentation and interruption. `StreamInv` says that the fragments still to
  be read, those of the netbuf in hand after the cursor and those in the mailbox, are
  linked: each starts where the one before ends, from `got + 1` to `sent`. Arriving data
  extends the chain, reading shortens it, a new connection starts with an empty one.
* `NetbufsAlwaysDeleted`, an action property, from `Deleted`: while a netbuf is asked for, and
  once a connection was lost, none is held; `connection_get_byte` alone leaves one, to the parser.
* `DspTypes`, `NothingForgotten`, `DspRefinesLatest`. The invariant: what is announced is what is in
  `all_params`, or some task is between its change and its give (`Pending`). It does not need
  the mutex to span the sections, nor app_main's restore to come first.
* `StoredAlwaysApplied` does need that order. `Restores` says how far app_main has got: the flows
  before its own are as stored, and the one it switches to last is the stored active one.
  `Handles` says the same of http_server_task in a request: what it has stored, and which part of
  that it has yet to apply. A failure that parts the two sets `behind`, or will when the request
  is done; a request that stores and loads a flow starts from scratch (`Starts`), so that `AInv`
  asks for the rest only while `behind` is false.
* `SettingsTypes`, `OnlyPortGives`, `ConfirmedSurvives`. `Held`: a task between take and give holds the
  mutex, but for the call for the port, which may have given it. From it follow that a change
  in progress (`Kept`) is alone in its key, and that what it wrote is what it commits. A commit
  whose result is ignored is one of a removal that `Promised` leaves out.
* `ChipTypes`, `AtControlPort`. The two halves: as long as no change of book or page
  failed, the page is 0 unless a call is at a step within its page (`PageHeld`), and the
  book is that of the control port unless a call is within its book (`BookHeld`). The book
  can be changed on page 0 only, so the first step of the closing three repairs whatever
  another task did to the page; `BookOnly`, which leaves it out, breaks the run.
* `SettingsHeld` follows one call at a time (`Alone`, until `overlapped`): `Placed` says where the
  chip is at each transaction of a call and, as long as no write failed (`ok`), which parts of the
  register are written (`PartsDone`); `StateKept` that the chip is in the state the driver remembers
  or in the one a call is about to make it remember; and `SettingsKept` that a setting is `Held`,
  the same in chip, copy and NVS unless it is `broken`, or still being written, also when the
  driver refuses the value or the restore goes on to the next.
* `SessionTypes`, `NothingGoesWrong`, `StreamAlwaysKnown` from `SInv`: what they say, and
  that the housekeeping leaves nothing of the last connection (`Tidy`), without which a chunk cut
  short by a disconnection would be continued with the next stream's sizes.
* `ChunksOnTime`, `NoGaps`, for any number of frames in a wire chunk and any number that stay
  in the FLAC decoder. `CInv` adds `Linked`: the blocks the decoder keeps are those just before
  `stream.next`, fewer than `MaxBlocks`, and the chunk last handed over ends where they begin.
  Numbers wrap around at `Span`, as the sample counter does; `Span > 2 * MaxBlocks` is assumed,
  so that an addition wraps at most once (`PlusWraps`, `PlusShifts`).
* `BeginsWhenFull`, `LatencyMedian`, `TimeSyncTypes`, for any odd ring of three or more nodes, from
  `InsertHolds`: `MEDIANFILTER_Insert` keeps `Holds`, which says of the ring that
  - it is one circle of all nodes, in both directions, from `valueHead` on (`Circle`);
  - it is sorted by value and, among equal values, by age, the older node first (`Sorted`). The age
    is the strengthening that matters: with it, what `Corrects` compares, the value of the oldest
    node, tells on which side of the median that node is, although values may be equal;
  - the nodes without a sample hold infinity and come last (`Filled`), and each node has the
    sample of its age (`Remembers`);
  - `medianHead` is the node at position `bufferCnt \div 2`.

  The proof takes the insertion in the code's steps: the oldest node leaves (`TakenCircle`,
  `TakenOrder`, `TakenMedian`), the search stops at the first larger sample (`PositionIs`), the
  node is linked in there (`LinkCircle`, `WithOrder`), and the median takes a step back, forward or
  both (`AdjustIs`). `MedianIs` counts: as many samples lie before the middle as its position
  says. `Nth` is a recursive function; that it is well defined and is what the loop over
  `nextValue` computes is shown by the least counterexample (`LeastNat`, from the library's `WFMin`),
  not by induction.

Every invariant and action property of a passing run is the property of a theorem, with the
assumptions named above. Only
model-checked is liveness, which tlapm does not prove (it knows no ENABLED): `NotificationTaken`,
`PlayerRestarts`, `BytesArrive`, `Reconnects`, `Resumes`, `FastUntilFull`,
`Converges`, `MutexComesBack`, `GetsRestored`, and that `Take` and `Deliver` of `LatestValue` keep
happening, the fair part of `DeliversLatest`; its steps are proved (`DacRefinesLatest`,
`DspRefinesLatest`). The three runs that end in a violation are counterexamples, and have no theorem.

## 6. Abstractions

* Time. Early, late, out of sync, a minute: free choices. Durations, the PI-like
  correction by sample insertion or APLL, and the arithmetic of timestamps in
  `player_task` are left out.
* A queue holds one chunk per unit of `buf_ms`; the formula at player.c:1552 is not modelled.
* Memory: chunks and netbufs are counted, other heap blocks are not. Critical errors that
  call `esp_restart` at start-up are left out.
* `deinit_player` is called by `init_player` only, before any task exists.
* Builds: no `USE_TIMEFILTER`; sample insertion or not is `SetupFails`; `CONFIG_PM_ENABLE`,
  Ethernet and mDNS are constants.

* Data of settings: a value is a model value; a hostname's validation, JSON and the formatting of
  numbers are left out, and so is the arithmetic of the filters.
* `Tas5805m` stays in the 15-band mode; `mixer` stands for a setting that is stored if the
  driver took it, `eq` for one that is stored in any case.

## 7. Not modelled

* Most of the repository's lines are data or vendored: the TAS5805M's coefficient and
  profile tables (`tas5805m_eq.h`, `tas5805m_eq_profiles.h`, `tas5805m_reg_cfg.h`), register headers of
  other codecs, ESP-ADF's drivers and peripherals. They have no behaviour of their own.
* The formatting and parsing of JSON, most of tas5805m_settings.c: no state but what
  `Tas5805m` stores and applies.
* `tas5805m_settings_set_from_json` and `settings_set_from_json`, the biquad functions of tas5805m.c,
  websocket, RTP and serial protocol, `MEDIANFILTER_get_median`: nothing calls or starts them.
* The Kalman filter of `USE_TIMEFILTER`, the audio filters, the arithmetic of timestamps and
  sample insertion in `player_task`, the queue length formula: floating point, or durations that
  the models leave open.
* The network interfaces: the handlers keep a flag and a retry counter per link, and
  `Connection` lets links come and go at any time, which includes what they do. A station
  that has used up `WIFI_MAXIMUM_RETRY` stays away (wifi_interface.c:90); `LinksSettle` excludes it.
* Serialisation of messages (snapcast.c, buffer.c): sequential, without state between calls.
* OTA and provisioning: they end in a restart of the chip; SNTP and mDNS start-up: library calls.
* Other codecs: `DacControl` ends at audio_hal's calls, which they translate one to one.

## 8. Plan

Order: the player first, as most of the tasks meet there; then what feeds it
(connection, session, time); then what surrounds it. Done: all modules and proofs above. Open:

1. `Pipeline`: `Session`'s output as the chunks of `Player`, with formats in the queue
   (player.c:1546 sets up I2S again but keeps queued chunks of the old format).
2. The volume: `DacControl` composed with `Session`'s `scSet`, for main.c:1266.
3. `NetworkInterface`, shown to implement the links `Connection` assumes.
4. Pure operators over bounded inputs: message serialisation, `framesToBytes`.
5. Theorems about the modules of 1 to 4; those about the modules there are, are proved.
