# Common FPS for PS5: TLA+ models, checks and proofs

Common FPS shows the frame rate of the running game on a PS5. A *controller*
process measures the rate once a second and injects a *renderer* into the
system UI process (SceShellUI); the renderer draws the number it receives over
a loopback datagram socket. This directory holds TLA+ models of both programs
and of the protocols between them, the TLC configurations that check them and
the TLAPS proofs, for every value of the constants, of every invariant and every
action property that the runs check; only the liveness properties rest on the
model checker alone. Line numbers in comments refer to the file named beside
them.

## 1. Inventory

| Component | State | Operations | Talks to | What makes it correct |
|---|---|---|---|---|
| Controller loop (`src/ps5/commonfps_ps5_main.cpp`, `run_tracked_worker`) | two observation gates, standby of the DCE source, `renderer_online`, latest rate, packet sequence | one iteration a second | everything below, by calls | nothing of an old game or an old ShellUI survives; the preferred source is not starved; packets go to a ready renderer |
| Display filter (`fps_display_filter.hpp`) | epoch, three rings of three values, cursors, counters, timestamps | `sample`, `reset` | called by the loop | settles first, shows drops at once, confirms rises, never shows another feed's number |
| Renderer injection policy (`shellui_injector.cpp`) | statics: attempted process and result, retry permission and delay, quarantine; marker file | `ensure_shellui_renderer` | injection transaction, hook controller, marker written by the renderer | at most one image per process, failed waits are final, retries are paced |
| Injection transaction (`stable_shellui_injector.cpp`, `stable_elfldr_bridge.c`, `remote_call.cpp`) | borrowed authority, ptrace attachment, remote mappings | `inject_shellui_stable` | kernel | everything borrowed is given back on each path |
| VideoOut sampler (`core/fps_sampler.cpp`) | attached process, counter address, baseline, warm-up, discovery backoff | `attach`, `sample`, `reset` | platform | rates only from consecutive reads of one counter; failed scans are paced |
| DCE sampler (`dce_fps_sampler.cpp`, `core/dce_counter_sampler.cpp`) | device handle, failure count, candidate streaks | `sample`, `reset` | device, shared HEN counter | a counter is chosen for its stability and dropped when it stops |
| Platform access (`ps5_platform.cpp`, `stable_sampler/`) | log throttles, cached module base | process, module and memory lookups | kernel | authority restored after each lookup |
| Hook handshake (`shellui_hook_protocol.hpp`, hook controller, renderer) | request and acknowledgement files with nonces | publish, poll, acknowledge | files | an answer belongs to the request that is waiting |
| Hook transaction (`shellui_hook_controller.cpp`, `shellui_guard_write.cpp`, `shellui_mdbg_io.cpp`) | patched bytes, page protection, attachment, authority | `poll_and_apply_shellui_hook` | kernel | patched and verified, or restored, or reported |
| Renderer (`shellui_payload/`) | newest packet, applied sequence, widget handles, applied style | receiver loop, render callback | datagram socket, Mono runtime | the last packet is what is on screen; handles never outlive their scene |
| Settings (`core/settings.cpp`, `config.cpp`, `settings_service.cpp`) | configuration and its file | load, `save`, HTTP requests | the loop reads it once a second | file and memory agree; a crash leaves the old or the new file |
| Session log, media launcher, autoload guard, scene guard, lifecycle, wire format, layout | small or none | | | see `PROJECT.json` |

The hard behaviours are not where unit tests look: the loop is single threaded,
but ShellUI and the game are other processes that restart between any two of
its steps; the renderer answers through a file that outlives it; injection and
patching change another process in many steps, each of which can fail after it
took effect; the renderer's own two threads share a packet without a lock;
three timers (discovery backoff, standby, marker wait) run against one another;
and the display filter keeps three rings and four timestamps consistent under a
clock that may stand still or jump. `PROJECT.json` lists each hazard at its line.

## 2. Modules

| Module | Models | Source |
|---|---|---|
| `DisplayFilter` | `FpsDisplayFilter`: one operator per branch of `sample()` | `fps_display_filter.hpp` |
| `FilterStream` | the filter driven by an arbitrary stream of calls, with a record of what it was given | the call in the controller loop |
| `MCFilterStream` | constants for TLC | |
| `FilterStreamProofs` | theorems about `FilterStream` and `Controller` | |
| `RendererGate` | the two gates, `ensure_shellui_renderer`, the marker, ShellUI, game and injected renderer as the environment | `commonfps_ps5_main.cpp`, `shellui_injector.cpp`, `commonfps_shellui_entry.cpp` |
| `RendererGateProofs` | theorems about `RendererGate` | |
| `SourcePolicyProofs` | theorems about `SourcePolicy` | |
| `SourcePolicy` | game gate, VideoOut attachment with backoff and warm-up, DCE fallback, standby and wake-up | `commonfps_ps5_main.cpp`, `core/fps_sampler.cpp` |
| `Controller` (`MCController`) | iterations from the lookups to the packet, with `DisplayFilter` at their end and the blocking call in between | `commonfps_ps5_main.cpp` |
| `HookPatch` | abstract promise about one hook request | |
| `HookTransaction` | one request carried out: authority, stop, compare, write, verify, roll back, resume, answer, on every firmware family; implements `HookPatch` | `shellui_hook_controller.cpp`, `shellui_guard_write.cpp`, `shellui_mdbg_io.cpp` |
| `HookHandshake` | request and acknowledgement files between renderers, controller and a foreign hook; uses the verdicts of `HookPatch` | `shellui_payload/commonfps_shellui.cpp`, `shellui_hook_controller.cpp` |
| `HookRequest` | what a request contains, the length decoder, the controller's validation | `shellui_payload/commonfps_shellui.cpp`, `shellui_hook_protocol.hpp` |
| `OverlayConfig` | configuration, form and file parsing, wire packet, layout, as operators | `core/config.cpp`, `core/overlay_config.cpp`, `core/settings.cpp`, `core/wire.cpp`, `core/layout.cpp` |
| `SettingsStore` | HTTP service, atomic file replacement, the controller's reads | `settings_service.cpp`, `core/settings.cpp` |
| `OverlayReceiver` | sender, socket, receiver thread, render callback, widgets | `shellui_payload/commonfps_shellui.cpp` |
| `DceSampler` | shared sample, device, authority window, candidate words | `dce_fps_sampler.cpp`, `core/dce_counter_sampler.cpp` |
| `VideoOutSampler` | search for the counter, 32-bit rate arithmetic | `core/fps_sampler.cpp` |
| `PageWalk` | page-table walk and chunked read of FW 9.60 | `stable_sampler/proc_rw_v960.cpp` |
| `Injection` | one bootstrap after another: loader, remote call, stager, detach, retry decision | `stable_shellui_injector.cpp`, `stable_elfldr_bridge.c`, `remote_call.cpp` |
| `Authority` | media launcher, quarantine, module lookup: who holds which authority | `media_launcher.cpp`, `ps5_platform.cpp`, `stable_sampler/videoout_module.cpp` |
| `MCHook`, `MCOverlay`, `MCSamplers`, `MCBootstrap` | the components that belong together, instantiated for TLC | |
| `HookHandshakeProofs` | theorems about `HookHandshake` | |
| `HookProofs` | theorems about `HookTransaction`, its refinement of `HookPatch`, the handshakes of `MCHook` and `HookRequest` | |
| `OverlayProofs` | theorems about `OverlayConfig`, `SettingsStore` and `OverlayReceiver` | |
| `SamplerProofs` | theorems about `DceSampler`, `VideoOutSampler` and `PageWalk` | |
| `BootstrapProofs` | theorems about `Injection` and the launcher of `MCBootstrap` | |

How the state corresponds to the code:

* `DisplayFilter`: the object is the record `filter`, one field per member;
  `optional<int>` is an integer with -1 for `nullopt`. Every path of `sample`
  returns `displayed_`, so the result of a call is `filter'.displayed`.
  `Rejected`, `Repeated` and `Measured` are its early returns and its body;
  `Settle`, `Accept` and `Elevate` are the three ways a sample is used.
* `FilterStream` adds history: the feed, the last three samples, all samples of
  the feed, the number shown one sample earlier and the time the screen last
  agreed with a sample. The properties compare the filter with this record,
  not with its own bookkeeping. The history is cut when the feed changes or is
  interrupted, not when the filter opens a new epoch, so it does not repeat
  the filter's own epoch test.
* `RendererGate`: `pc` walks through one iteration (`shellui`, `game`,
  `ensure`, `inject`, `wait`). Between two steps the console may stop or start
  ShellUI or the game, and the renderer thread may become ready (with or
  without a written marker) or park. `Lookup` may miss a live process. An
  injection leaves nothing, an image, or a running thread, and its report may
  miss what it left. Process ids grow and are not reused; 0 is the code's -1.
  `outcome` and `idle` are observations. The diagnostic build variants
  (`COMMON_FPS_TEST…`) are left out.
* `SourcePolicy`: `pc` walks through the game lookup, the VideoOut step and the
  choice of the source. Results of memory reads, module lookups and the DCE
  device are inputs. The time of a scan is not modelled separately: the backoff
  starts at the iteration's time, earlier than in the code, where it starts at
  the end of the scan. `dark`, `woken`, `lastScan`, `lastFailedScan` and
  `lastChance` are observations.

* `Controller`: `clock` (the code's `now`) is read for the measurement and again for the filter;
  `Scanning` and `Blocking` are how far it moves in between. Which source
  answers and whether the renderer comes online are inputs. `lastAt` is an
  observation: when each rate was last measured of the current game.
* `HookTransaction`: `pc` is the position in `poll_and_apply_shellui_hook`; the
  sixteen bytes are one of four contents, the page protection a set of flags.
  A kernel call answers `done`, `failed` or `touched` (failed after its effect).
  The variables ending in `Before` and `Left` are observations.
* `HookHandshake`: each renderer is a stage and a step within it, the two files
  are records or absent (or truncated, between `fopen` and `fwrite`). A nonce,
  an XOR of addresses in the code, is the tuple of what is combined. A
  restarted controller injects again: that is how two renderers meet.
* `HookRequest`: an instruction is its prefixes, opcode class and addressing
  form, which is all the decoder looks at. `native_patch_length` takes one
  instruction a step. `TrueSize` is the reference, the processor's encoding
  rules, and `trueEnd`, an observation, is where the instruction taken last
  ends by them. A 66 prefix together with REX.W, or a REX prefix before another
  one, which the JIT compiler does not emit, is excluded (`MessageConstants`).
* `OverlayReceiver`: packet, sequence and flag are stored in three steps; the
  callback reads sequence and packet in two. Widgets are records of the
  attributes a selective update may skip. `find_widget` may give the widget in
  use, another of its name, or none although there is one (`Lookups`); in the last
  case a second widget is appended and the first joins `strayLabels` or
  `strayValues`. `background` is the render mode, chosen once. `shownPacket` and
  `missedIn`, the roots in which a lookup failed, are observations.
* `SettingsStore`: `file` is what a reader sees, `disk` what survives a power
  loss, `pending` the temporary file. `wanted` is an observation. Sizes count
  units, not bytes.
* `DceSampler`: in each window every word yields a rate, 0 for none; rates of
  the model are equal or further apart than the tolerance. Streaks, which the
  code counts without limit, are only compared with one another and with two, and
  grow together: the model keeps their order (`Ranked`), which is exact. `rates`
  and `dark` are observations of the device.
* `VideoOutSampler`: cells of `Width` bits that advance on their own; time in
  tenths of a second. The scan of the module takes one record a step.
  `passed`, `setBack` and `window` are observations.
* `PageWalk`: one index bit per level instead of nine; a physical address is its
  own content, so that the result tells where it was read. The tables do not
  change during a read; the choice of the direct-map base is left out.
* `Injection`: `image` records what has been done to the image of each attempt.
  What `RendererGate` calls an image is one whose load was committed; a mapping
  left behind by a failed `munmap` is dead and counts for neither.
* `Authority`: `auth` is the process's authority, `saved` the local copy of the
  borrower at work. The windows of the injection, the hook and the DCE sampler
  are in their own modules.

Definitions next to an action whose name describes a mistake
(`SettleOnCount`, `RetryWithImage`, …) are mutations: `PROJECT.json` says which
property each one must break. They are not part of any specification.

## 3. Runs

`tlc -config X.cfg M`. Deadlock is checked except in the `SourcePolicy` and
`Controller` runs, where the bound of the clock ends every behaviour; where a
modelled call simply ends, the suite has a stuttering step `Over` at exactly
the places where it may.

| Run | Shows | Bounds |
|---|---|---|
| `filter_stream` (`MCFilterStream`) | `SettledBeforeShown`, `ShownFromCurrentFeed`, `HoldBounded`, `RiseConfirmed`, `DropAndRecoveryAtOnce` | clock 0..9 with startup, rise and window 3; three feeds that differ in process or source, two invalid ones; rates on both sides of the threshold; gaps -1, 0, 1, 3 and 4. Settling, a full rise and a second epoch fit in nine ticks |
| `renderer_gate` (`RendererGate`) | `AtMostOneImage`, `OnlineIsReal`, `FailedWaitIsLast`, `RetryPaced`; `Settles` under fairness | three ShellUI processes, two games, two faults, gates of 2, retry delay 2, four polls with a lookup every second one: each process can be retried, time out or be replaced during the wait and still leave a successor |
| `source_policy` (`SourcePolicy`) | `StateFollowsGame`, `ReprobedInTime`, `DarknessWakes`, `FailedScansPaced` | clock 0..12, standby 5, backoff 3, two misses, two games, iterations of one or two ticks: a whole standby, its re-probe and a second entry fit |
| `controller` (`MCController`) | `SentIsBacked`: a number sent lies between two rates of this game measured within four windows of the filter | windows of 2, a blocking call of 11, two games. A number is the median of a sample and the two before it, and may then be held for the next sample and the rise: four windows; the blocking call is longer than all of them |
| `hook` (`MCHook`) | `TransactionInv`, `ImplementsPromise`, `HandshakeInv`, `ReadyIsPatched`, `HandshakeEnds`, `RequestIsSound` | six firmware families, one of each kind; two requests, so that the second meets what the first left; two renderers, one restart; every pair of instruction shapes followed by pushes, with four runs of prefixes |
| `overlay` (`MCOverlay`) | `StoreInv`, `DrawnAsConfirmed`, `EveryClientIsServed`, `OverlayInv`, `AppliedInOrder`, `QuietShows` | two requests of eighteen kinds, one crash or power loss; two packets of three kinds of frame (two that differ in every attribute, one that shares some with each), one failing setter per application; one widget beside the one in use, left by a lookup that missed it, in the parts without the hook (a label only where the controller is restarted) and in the one for liveness; with the hook two roots, without it two scenes and two roots, or two scenes and two controller runs |
| `samplers` (`MCSamplers`) | `SelectionInv`, `LeakIsReported`, `SteadyWordIsRead`, `SamplerInv`, `SteadyCounterWins`, `ReadInv` | three words, told apart by which is selected, and one rate besides none; three cells, a table of two, 10-bit counters that wrap, one record of the module scanned a step; tables with all three page sizes and holes, reads of up to six bytes, three times the smallest page |
| `bootstrap` (`MCBootstrap`) | `InjectionInv`, `ReleasedRuns`, `AttemptEnds`, `AuthorityInv` | three attempts, four failed calls; three starts, three failed, ineffective or unverifiable calls |

The last four runs each take components that belong together. These share no
variable, or meet only in a value that is arbitrary for the other side (the
packet's configuration, the transaction's verdict), so a behaviour of a suite
is a behaviour of one of them (`part`), and the properties are those of the
component modules. An invariant named `…Inv` is the conjunction of the module's
type invariant and its named safety properties; `PROJECT.json` has a mutation
for every part.

What the parts say:

* `TransactionInv`: an answer the renderer accepts means that ShellUI runs, with
  its page protection back and the authority returned (`AcceptedIsClean`); an
  answer that says the old bytes are there also means the old protection
  (`RestoredIsClean`); lost credentials show in the answer (`LossIsReported`).
* `HandshakeInv`: a call of `Application.Update` ends in native code, however
  hooks of two renderers and a foreign program are stacked (`HooksCallThrough`),
  and on firmware with the guard nobody changes it (`GuardModeLeavesUpdate`).
* `RequestIsSound`: the controller takes every request for what it is
  (`PublishedIsUnderstood`), and a displaced prologue consists of whole
  instructions that may be moved (`WholeInstructionsDisplaced`).
* `StoreInv`: memory is the file, the file is old or new but whole, the answer
  is true, and what may be confirmed fits the screen.
* `OverlayInv`: what counts as applied is what the widgets in use show
  (`OverlayShowsFrame`), and a root has others of the same names only if a lookup
  missed one there (`SecondOnlyAfterMiss`).
* `SelectionInv`: a counter that shows nothing for three windows in a row is not
  the selected one.
* `SteadyWordIsRead`: a word that runs at a steady rate is selected and read for
  good, if it is the known place, or if that is dark and each other word is dark
  for three windows again and again (`SteadyWordWins`); without the last
  condition there are readings nevertheless (`SilenceEnds`).
* `SamplerInv`: a reading is the true rate, across wraps; a set-back gives none
  unless the limits cannot tell it from a wrap; the table has no repetitions.
* `ReadInv`: each byte comes from the page that maps it; holes, and only holes,
  fail.
* `InjectionInv`: one renderer thread at most, running a whole image, and there
  when the report says so.
* `AuthorityInv`: the loop begins with its own authority, the title is
  registered whole or not at all.

**Refinement.** `HookPatch` says what one request means to ShellUI: the code
changes at the single moment it resumes, only expected bytes are replaced, and
the verdict is true of what it resumed with. `ImplementsPromise` maps the
transaction to it: while ShellUI is stopped, the visible code is the one it
stopped with. `HookHandshake` uses the verdicts in place of the transaction.

Four runs show where the code and its comments part; each checks one property
that states the comment:

* `renderer_gate_target`, `InjectionIsGated`. The gate counts the ShellUI found
  at the top of the iteration; `ensure_shellui_renderer` looks ShellUI up
  again. If it restarted in between, the new process is injected without a
  single observation.
* `renderer_gate_repeat`, `FailingImageNotRepeated`. Only the marker wait
  quarantines. A bootstrap reported as failed whose thread runs nevertheless
  is not remembered once ShellUI restarts.
* `source_policy_standby`, `StandbySuppressesDiscovery`. A re-probe that
  resolves a counter and loses it again leaves the expired probe time.
* `source_policy_wake`, `MissesRecoverAtOnce`. The misses end the standby, the
  backoff of an earlier failed scan still refuses VideoOut.

None of them contradicts a property of the passing runs: `AtMostOneImage`,
for example, holds of each process in spite of the first two.

**What is deliberately not claimed**, because the code does not provide it:

* one renderer per ShellUI across a restart of the controller (the statics of
  `ensure_shellui_renderer` are gone; `HandshakeInv` and `ReadyIsPatched` hold
  with two renderers);
* that a packet of a restarted controller is drawn when its number equals the
  last one applied (`commonfps_shellui.cpp:1098`; `AppliedInOrder` holds);
* that a DCE word was steady in the very window before it is selected: streaks
  rest while another word is selected (`dce_counter_sampler.cpp:93`);
* that a steady DCE word is read while another one is selected that shows
  something in every third window: it keeps its place
  (`dce_counter_sampler.cpp:61`), and `SilenceEnds` says only that there are
  readings. `SteadyWordWins` needs the others to go dark for three windows;
* that there is one label and one value in a root: a lookup that fails while the
  widget is there appends a second one, and the first stays with its old look
  (`commonfps_shellui.cpp:943` and `:1035`; the hardware test plan asks for "no
  duplicate labels", `docs/HARDWARE_TEST_PLAN_FW960.md:78`). `OverlayInv` says
  that nothing else leads there;
* that an authority whose restoration failed is restored later: the next borrower
  takes the raised one for the original (`LeakIsReported` and the `restoreLost`
  of `AuthorityInv` say that the failure was seen);
* that a failed load leaves no mapping when its `munmap` fails too;
* that on FW 9.00 the page is RX again before the readback, when the call that
  restores it failed (`TransactionInv`: such an answer is not accepted).

**Fairness.** Weak fairness of the actor that has to move, and nothing of the
others:

* `Settles`: the controller. The loop has no exit, no lock and no blocking call
  without a limit (the marker wait is a counted loop of sleeps). Faults and
  restarts are finitely many in the model; with infinitely many restarts the
  property is not claimed.
* `HandshakeEnds`: each renderer and the controller; their waits are counted.
* `EveryClientIsServed`: the worker thread; a receive ends by its deadline,
  nothing is assumed of the client.
* `QuietShows` (`ShownOrSuperseded` in the part `quiet`: hook, one root and one
  controller run): the receiver's and the callback's steps, and strong
  fairness of the successful outcome of each managed call: the callback runs on
  every frame and tries again, so this assumes only that a call does not fail
  forever.
* `SteadyWordIsRead`: the sampler, which the loop calls once a second.
* `AttemptEnds`: the controller, and the stager as long as ShellUI is not
  stopped.

## 4. Proofs

`tlapm M.tla` checks the proofs of module `M`. The assumptions are the named
ones stated with the constants, and TLC evaluates them in the runs:

| Assumption | Says |
|---|---|
| `FilterConstants`, `StreamConstants` | natural numbers; the rise time is at most the longest gap of an epoch (2 s and 3 s in the code), which `HoldBounded` and `SentIsBacked` need |
| `ControllerConstants` | bounds and durations are natural numbers, rates and sources are ones the filter knows |
| `GateConstants` | natural numbers; gates and the lookup interval are positive |
| `PolicyConstants` | natural numbers; the gate, the number of misses and the length of an iteration are positive |
| `TransactionConstants`, `HandshakeConstants` (`FileConstants` in `MCHook`) | families are numbers, the name of a renderer is none of the other things a hook may call |
| `MessageConstants` | prefixes are in the order the compiler writes: REX last, no 66 with REX.W |
| `StoreConstants` | requests and first files are of the types the parsers produce |
| `OverlayConstants` | bounds are natural numbers; there is a frame; `None` is neither a scene nor a root |
| `DceConstants` | the words are finitely many numbers, the known word among them; rates are positive |
| `VideoOutConstants` | values and steps are ones a counter of `Width` bits can take; pauses are positive; the game flips fewer than 2^(`Width` - 1) times between two samples (2^31 in the code, where a sample is taken every second); `NoCell` is no cell |
| `WalkConstants` | the smallest page is not empty; the tables are page tables: a page lies at a multiple of its size and not at address 0 |
| `InjectionConstants`, `LauncherConstants` | at least one attempt; bounds are natural numbers |

None of them bounds how often something happens: requests, crashes, restarts,
attempts, renderers, packets and failing calls are arbitrary numbers.

**`FilterStreamProofs`** proves every property of `filter_stream` for all rates,
clocks, gaps, feeds and constants. The properties are not inductive: that a
number shown belongs to the current feed, for instance, depends on what the
unread entries of a ring hold. `FilterInv` adds

* `Tracking`: the epoch is the observed feed up to the last call;
* `Settling`: while nothing is shown, the first `recentCount` entries of the
  ring, and as many of the last samples observed, belong to the feed, and the
  cursor equals the count until the ring is full;
* `Accepted`: the number shown is the newest entry of the accepted ring and the
  previous one is not above its maximum, which is what makes a recovery
  immediate;
* `Rising`: the first `elevatedCount` entries, and as many of the last samples
  observed, are above the threshold, although the ring is never cleared;
* `Holding`: how old a held jump can be for each count, and that no sample has
  agreed with the screen since it began.

`CallCases` reduces a call to seven outcomes (`Restarts`, stuttering, `Opens`,
`Collects`, `Accepts`, `Holds`, `Rises`); one lemma per outcome preserves the
invariant, and the two action properties follow by the same cases.

It also proves `SentIsBacked` of the loop of `Controller`, for all rates, games,
scanning times and blocking calls. The difficulty is the age of a sample:
`ensure_shellui_renderer` stands between a measurement and the filter and may
take any time. `LoopInv` says that this hurts the first sample of an epoch
only: a later one was measured after the sample before it (`LoopEpoch`), which
is less than a window old or the epoch would have ended. The middle of three
values lies between the two newest, so the first of them need not be young
(`RingsAreRecent`); a number that is held was true at most two windows before
its last sample, the rise begins within the next one and the hold ends within a
window of its beginning (`HeldBriefly`). Together these are four windows.

**`RendererGateProofs`** proves type correctness, `AtMostOneImage`,
`OnlineIsReal`, `FailedWaitIsLast` and `RetryPaced` for any number of ShellUI
processes, games and faults and any gate lengths. `GateInv` adds the order of
process ids (`Ordered`: no image is newer than the last attempt), what is left
in the processes (`Remote`: the marker names a ready renderer), the retry state
between and within attempts (`Attempts`: without a result and with the retry
still allowed there is no image, and the calls made plus the delay left cover
the retry time), the gate (`Observing`) and the meaning of the outcomes
(`Outcomes`).

**`SourcePolicyProofs`** proves the type invariant and all four properties of
`source_policy`. `PolicyInv` adds that the game looked up is the game counted
and the newest (`GameInv`), that a VideoOut rate comes from an attached sampler
(`RateInv`), that the next probe is at most a standby after the last chance
(`ProbeInv`), that the streak of misses covers the dark windows (`MissInv`), and
where the backoff of a failed scan can end (`BackoffInv`).

**`HookProofs`** proves `TransactionInv` for every set of firmware families and
any number of requests, and that the transaction implements `HookPatch`.
`PatchInv` says, stage by stage, what is known of the code, the page and the
borrowed credentials: the bytes are the expected ones until the write
(`CodeInv`), the page has its old protection or one that the write of this
firmware family gave it (`PageInv`), and the old one again when the answer says
so (`LeftPageInv`), and the saved credentials are the ones to return
(`CredentialInv`). The refinement is proved step by step: nearly all steps
stutter because the visible code is the one ShellUI stopped with; the step that
resumes it is the abstract one.

For the contents of a request it proves `RequestIsSound`, for every sequence of
instructions with any prefixes and opcodes. `SizeIsTrue` shows by the forms of
an operand that a length the decoder gives is the length the processor takes;
`MessageInv` carries this from one instruction to the next: where the decoder
stands is where an instruction ends, and each one it passed may be moved.
`JudgedAsMeant` goes through the requests a renderer can write and shows that
the controller's predicates tell them apart.

**`HookHandshakeProofs`** proves `HandshakeInv` and `ReadyIsPatched` for any set
of renderers and any number of restarts, with and without the guard;
`HookProofs` carries them over to the suite of the run. Neither is inductive: a
request may be served long after the renderer that wrote it has given up.
`ProtocolInv` says what each request (`RequestInv`) and each answer
(`AnswerInv`) is worth wherever it is: in a renderer (`RendererInv`), in the
files or in the controller's hands. It stays true because what it refers to
only grows: a guard that is off stays off, an original target is published
once, a hook in place stays reachable (lemmas about `Reaches`).

**`OverlayProofs`** begins with the conversions. `FileRoundTrip`,
`WireRoundTrip` and `LayoutFits` say that a configuration within the limits
survives `config.ini` and the wire packet and fits the screen, for all of the
more than 10^18 configurations. `StoreInv` and `DrawnAsConfirmed` follow from
`StoreStateInv`, which adds what a crash or a power loss can leave at each step
of the replacement (`PendingInv`, `PowerInv`) and what the request being saved
will put in memory (`RequestInv`, `ConfigInv`). `OverlayInv` and
`AppliedInOrder` follow from `ScreenInv`:

* `StreamInv`: the packets in the socket are newer than the one in memory, which
  is as new as the one shown, across runs of the controller;
* `CopyInv`: a packet is copied only under a number other than the last one
  applied. The number may be torn from its packet, but a copy with the number
  seen that is not older than the packet shown must be newer;
* `WidgetInv`: label handles are unset or in the pinned root, and a widget that
  this application created is as the frame asks;
* `StyleInv`: a style that counts as applied is on the screen in the middle of
  an application too, so creating a widget never touches one it vouches for.

`SettersSuffice` is the core: the attributes that `apply_packet_on_render` skips
are already as the frame asks. `StrayInv` adds that the widgets of a root are
widgets and that second ones come from a missed lookup; by `LookupGives` each
outcome of `find_widget` keeps it. Where the widget in use is exchanged the style
does not count as applied, so a found widget of unknown look is set in full.

**`SamplerProofs`** proves the five safety properties of `samplers`.

* `SelectionInv` and `LeakIsReported` follow from `WindowInv`, which relates the
  code's count of invalid windows to the dark windows of the selected word, also
  when the word has just been replaced.
* `SamplerInv` follows from `VideoOutInv`, for counters of every width. Its core
  is `BaselineInv`: the counter is the previous value moved on by the frames
  since the baseline, modulo the width, or was set back since. At most one
  sample is too soon to count, so the frames of a window are fewer than the
  modulus and the wrapped difference is their number. The lemmas about
  remainders and quotients it needs are proved in the same module.
* `SteadyCounterWins` holds because the winner's score is the smallest and no
  score is negative, so next to a candidate with score 0 the winner has none of
  the penalty for two windows that differ. That there is a smallest one rests on
  the lemmas about minima.
* `ReadInv` holds for every page size and every well-formed tree.
  `TranslateFindsPage` and `MappedIsTranslated` compare the walk with the set of
  pages the tree contains; `WalkInv` says that the loop continues where the bytes
  copied so far end and that each of these is the right one.

**`BootstrapProofs`** proves `InjectionInv`, `ReleasedRuns`, that an image once
loaded is the last (`LoadedIsLast`), and `AuthorityInv` of the suite. `BootInv`
says whose the registers and threads are (`StagerInv`), how far each image is
(`ImageInv`), and what the report knows of the thread (`CreatedInv`).

What the proofs changed in the models. Two `CASE` expressions had overlapping
arms (the verdict of `HookTransaction` and the status of `SettingsStore`): TLC
took the first, the language leaves the choice open; they are `IF` chains in
the order of the code. The chain of hooks was followed four calls deep, which is
enough for two renderers only; `Reaches` follows any number. The render mode of
`OverlayReceiver` was a constant of two instances and is a variable that `Init`
chooses, as the renderer does at its start. The scan of `VideoOutSampler` and the
length decoder of `HookRequest` were a fold and a recursion over a sequence,
about which nothing can be proved for every length; both take one element a
step now, as the loops in the code do. The pages that `PageWalk` is compared with are
collected from the sets of tables at each level. The counters, trees and instructions
that `MCSamplers` and `MCHook` had fixed are parameters of the components.
`SentIsBacked` was stated with five windows; the proof needs four, and so it is
stated.

**Only model-checked** are the liveness properties, which are outside the
prover's reach: `Settles`, `HandshakeEnds`, `EveryClientIsServed`, `QuietShows`,
`SteadyWordIsRead` and `AttemptEnds`.

## 5. Not modelled

`PROJECT.json` gives each component's status. Left out for good: the text of
logs and pages, the session log (nothing reads it), the build-time tools, the
loader contract (a constant description), the preflight program (one pass, no
state), the autoload guard and the scene guard with its lifecycle (used by
their unit tests only; the payload has its own loop), the resolution of the
Mono functions, and the raw kernel reads below `PageWalk`, which are pure input.
The diagnostic build variants are left out of `RendererGate`. The stager's
frame overwrites the 128 bytes below the stack pointer of the thread it borrows
(`remote_call.cpp:44`); no modelled step depends on them. Process ids are not
reused in the models.

## 6. Possible extensions

* An abstract display policy refined by `FilterStream`.
* Reuse of process ids within the gate times.
