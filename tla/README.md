# A verification project for the pjmedia demos

The repository (`src/`) is a collection of C programs that use PJMEDIA and PJSUA: each
`src/test_src/*.c` is one program (the Makefile picks one), and `src/include` holds what they
share.  There is no library of their own below them; the programs' logic is the order in which
they create, connect, drive and take down PJLIB objects while PJMEDIA's threads run, and a few
algorithms (a sine generator, a VU meter, an option parser).  That is what is modelled here, in
TLA+; TLC checks small instances, and TLAPS proves the safety part for all instances.

PJLIB, PJMEDIA and PJSUA are not in the repository.  They are modelled from how the programs use
them, in modules of their own, and `PROJECT.json` marks those definitions as external.

## Inventory

| component | source | state | operations | hard behaviour |
|---|---|---|---|---|
| conference demo | `conf_to_2_sounds.c` `main`, `input` | PJLIB layers, ports, bridge slots, routes and levels, the dialog | setup, commands s c d t r v q, teardown | the bridge's thread runs through the ports; unchecked statuses; end of input at any prompt |
| VU meter | `conf_to_2_sounds.c` `monitor_level` | accumulator, counters | poll, average, draw | reset between bars; int overflow |
| port listing | `conf_to_2_sounds.c` `conf_list` | none | list ports and routes | line buffer and port limit |
| sine port | `custome-media-port.c` `create_sine_port`, `sine_get_frame` | the table, two positions | create, fill a frame | odd frames, the wrap of the right channel |
| playsine | `custome-media-port.c` `main` | PJLIB layers, the device | setup, ENTER, teardown | disconnecting under the device's callback; a driver that repeats its last frame |
| file2sound | `file2sound.c` | the same | the same | statuses nobody looks at |
| sound options | `include/util.h` `get_snd_options` | the caller's five variables | parse | order, defaults, overflow |
| SIP phone | `pjsua_phone.c` | the account, what was typed | add, register, unregister | timers, lost requests, refused calls, a stdin that is stuck |
| stream sender and receiver | `test_pj_stream_original.c` | two processes: transports, streams, bridge, devices | create, connect, start | failing creations, lossy network, kills and reruns |
| same-host streams | `internal_stream.c`, `same_endpt.c` | the same in one process | the same | one port for two streams, unset slot numbers, a stream that is never started |
| threads over endpoints | `pthread_endpoints.c` | the sender's | create, connect, start, join | joining a thread that was never created |
| split/combine pipelines | `sc_1file_to_2sound.c`, `sc_pjsua_1file_to_2sound.c`, `func_sc_pjsua_1file_to_2sound.c`, `splitcomb_file2sound.c`, `sc_1file_to_left_right.c` | graphs of ports, buffers of the reverse channels | create, add, route, plug, start | clocks of two devices and a master port; statuses nobody looks at; unset slot numbers; a teardown that is never reached |
| calls on devices | `sc_pjsua_phone_to_2sound.c`, `sip_streamer.c` | an account, a call, the graph it feeds | call, route, plug | the call's port read before its media; a call id stored through an unset pointer |
| bridges on devices | `simple_ics.c`, `sound_conf_file.c`, `file_pjsua_sound.c`, `confbridge.c` | a bridge, a device | the same | a status that is looked at late; missing arguments |
| SIP receiver | `sip_receiver.c` | an endpoint | handle events | none: its handler does nothing |
| endpoint demos | `2endpoints.c`, `pjsua_stream.c` | transports, streams | create, connect | none: the streams of one are never started, the other's are received by nobody |
| streamer/receiver menus | `app-streamer.c`, `app-streamer-2.c`, `app-receiver.c`, `test-streamer.c`, `pjsua-receiver.c` | menus | start, stop, add | an endpoint library (`endpoint.h`) whose source is not here |
| listings | `list-devices.c`, `test-codecs.c`, `just_create_sound.c` | none | print, open a device | a device lookup that may have failed |

How they interact: every program is a main thread that calls PJMEDIA; PJMEDIA's device or clock
thread calls back into the ports that main created (a sine port, a WAV port, a stream); stdin
drives the menus; the stream programs meet on UDP ports; the phone meets a registrar; in the
pipelines a master port's thread fills buffers that two device threads empty.

What makes them correct, component by component: threads touch only what lives, layers come down
in the reverse order of their creation, a status of 0 means what it says, a command changes what
was typed and nothing else, a buffer is neither over-read nor over-written, the last option counts,
a binding follows the account, a stream is heard where it belongs, an output plays its own
source and skips nothing that its buffer had room for.  `PROJECT.json` lists the hazards
at their lines, with the properties that would catch each.

## Modules

| module | models | kind |
|---|---|---|
| `ConfMenu` | `main` and `input` of `conf_to_2_sounds.c` | program; EXTENDS `Bridge` |
| `Bridge` | PJMEDIA's conference bridge and its thread | external |
| `Routing` | what a bridge promises: a patch board | abstract |
| `VuMeter` | `monitor_level` | algorithm |
| `SinePort` | `create_sine_port`, `sine_get_frame` | algorithm, as the device's thread runs it |
| `SineDemo` | the whole of `custome-media-port.c` | composition; EXTENDS `PlaySine` and `SinePort` |
| `PlaySine` | `main` of `custome-media-port.c` | program; EXTENDS `SoundPort` |
| `File2Sound` | `main` of `file2sound.c` | program; EXTENDS `SoundPort` |
| `SoundPort` | a PJMEDIA sound port and its device's thread | external |
| `Playback` | what a player promises its listener | abstract |
| `SndOptions` | `get_snd_options` | algorithm |
| `Phone` | `main` of `pjsua_phone.c` | program; EXTENDS `Registrar` |
| `Registrar` | PJSUA's account, its timers, the registrar, the network | external |
| `StreamDemos` | `main` of `test_pj_stream_original.c`, `internal_stream.c`, `same_endpt.c` and `pthread_endpoints.c`, as processes on one host | programs; EXTENDS `RtpStream` |
| `Pipes` | `main` of the five split/combine pipelines, of `sc_pjsua_phone_to_2sound.c`, `sip_streamer.c`, `simple_ics.c`, `sound_conf_file.c`, `file_pjsua_sound.c` and `confbridge.c`, with their master ports, devices and buffers | programs |
| `RtpStream` | `create_stream` (the same in all four programs), UDP transports, the network | part program, part external |

`MC*` modules hold values for TLC; `*_proofs` modules hold the theorems.  Operators introduced as
a "slip" are wrong variants of the definition below them; no action uses them.  Putting one in its
place shows that the property named for it in `PROJECT.json` can fail.

### How state and actions correspond to the code

In the programs `pc` is the call that main is about to make, and there is one action per call
(with the test of its status and the early return).  `alive` (in `ConfMenu`: `layers` and `live`)
is what exists.  A call whose status a program does not look at keeps both outcomes, and the program
goes on.  The exceptions are calls that PJMEDIA refuses only for what they are given, and void calls:
`pjmedia_conf_connect_port` is refused exactly for a slot that is not in use, `pjmedia_stream_start` for a
stream that is NULL, and releasing a pool, an endpoint or a factory that exists goes well.  A call that is
given a handle nobody has set may crash, may be refused or, when it takes something down, may find nothing
to do.  `Setup` and `Teardown` group the actions.

*ConfMenu.*  `Select` is the switch on the first character; `AnswerFirst`, `AnswerDestination`,
`AnswerLevel` and `AnswerMeter` are the prompts; `Cancel` is an empty line or the end of the input,
`Refuses` an answer that is no number or out of range; `ApplyConnect` and its siblings are the calls
of the bridge.  `src`, `dst` and `level` are the variables of the loop's block and begin every round
unset (0 stands for what the stack holds); `asked` records the accepted answers of the dialog, for
the property `AsTyped` only.  `Bridge` has the clock's thread: it visits one slot per step under the
mutex (`at`), which is why the program's calls wait for `Unlocked`.  `ConfList` is the listing, which
takes the mutex and changes nothing.  `RecDestroy` may fail, which nobody looks at: the port goes with its
pool all the same, and its file is left `Unclosed`.

*SoundPort.*  The callback is two steps, because PJMEDIA takes no lock between them: it reads which port is connected (`CbLoad`) and then asks it for a frame (`CbFrame`).  A port that has none to give
leaves the device with silence (`CbRefused`).  `pj_thread_sleep(100)` is a wait for `SleepFrames` callbacks
to end.

*File2Sound.*  Four handles may be unset.  The calls that are given one crash, are refused or, for the
file's port at the end, find nothing to destroy: `CreatePlayer`, `ConnectCrashes`, `PortDestroy`, and in
the device's thread `WildFrame` (a crash) and `NoFrame` (a refusal: silence).

*VuMeter, SinePort, SndOptions.*  One action per iteration; ints have their width where it matters
(`INT_MAX` is a constant), and where signed overflow is undefined, `TotalCounts` holds what builds
produce.  A sample is its index in the table.  `pj_getopt_long` is the sequence of the options found.

*SineDemo.*  The steps of main, of the device's thread and of the generator that thread calls interleave
sample by sample: `CallPort` enters the generator (`Enter`), `WriteSample` is one round of its loop, and
`TakeFrame` returns its frame to the device (`SineReturn`).  main may disconnect it, sleep and go on while
the loop runs.  The channel count is the one main lets through, so that `SineCreate`'s refusal of other
counts is never taken here.

*Phone.*  `ReadNothing` is a `scanf` that reads no number: `input` keeps its value and stdin stays
`"stuck"`, so the loop runs without a pause.

*StreamDemos.*  The four programs make the same few calls in different orders.  `SenderSteps`,
`ReceiverSteps`, `InternalSteps`, `SameSteps` and `ThreadsSteps` are those orders, each step a call and the
stream it is for, and there is one action per call.  `Local` and `Remote` are the ports in the source.
`CreateTransport`/`CreateStream` are the two calls of `create_stream`; the second closes the transport
again when it fails (`MakeFails`).  `Add` may be refused for any stream, which nobody looks at.  The slot number that a failed `pjmedia_conf_add_port` leaves unset is
any number (`Slot`).  `StartCheckedClock` is the one status that is looked at, `JoinUnset` the join of a
handle that nobody sets.  `Kill` ends a process, wherever it is (none ends by itself once it serves), and
runs it again.

*Pipes.*  A program is the sequence of its calls (`OneFile`, `Ring`, `Ics`, ...), each an operation, the
thing it is for and an argument; there is one action per operation.  `Calls` holds the outcomes of a call:
it goes well, it fails (and main returns if the program looks at the status, `Checked`), or it
crashes because a handle it needs (`Needs`) was never set.  One call of `confbridge.c` goes through a macro
whose header is not in the repository: when it fails, main may return or go on (`ByMacro`).  `made` is what exists, `slots` and `routes` the
bridges, `chan` the splitter's channels, `plugged` what each device plays.  A bridge stands for its own
slot 0.  The slot number that a refused `pjmedia_conf_add_port` leaves unset is any slot's (`Slot`).
Sound moves in numbered frames: `MasterTick` is the master port's thread, `PlaySide`, `PlayStereo` and
`PlayBridge` the device's, by what it plays, and `buf` the delay buffers of the reverse channels, which
drop their oldest frame when they are full.

## Runs

| run | cfg | shows | bounds |
|---|---|---|---|
| `conf_menu` | `MCConfMenu.cfg` | `NoDeadPortTouched`, `FilesInOrder`, `CleanExit`, `IInv`, `AsTyped`, `EndsWithInput`, `DrivesBoard` | two files (four slots), two applied commands: enough to connect and disconnect, or to connect twice; levels on either side of the limit -128 |
| `conf_menu_help` | `MCConfMenuHelp.cfg` | violates `FilesFromSlotOne` | no command needed |
| `vu_meter` | `MCVuMeter.cfg` | `BarShowsMean`, `LastsAsAsked`, `BarFitsMeter` | three levels (0, 255, one that does not divide), durations -1..2: up to 100 polls, 50 bars |
| `vu_meter_long` | `MCVuMeterLong.cfg` | violates `LastsAboutDuration` | 16-bit ints, so that the overflow comes at 33 s and not at 2147484 s |
| `sine_demo` | `MCSineDemo.cfg` | `LoopOnLiveTable`, `LayersHold`, `CleanExit`, `ReadsInTable`, `FillsFrame`, `RightAtDoubleSpeed`, `PlaysBackSafely`, `PlaysBack` | frames of 0..9 samples (all parities of the frame and its half), 219 and 439 (what 11025 Hz gives); `channel_count` 0..3; a sleep of five callbacks (two would do); 0, 1 or 2 arguments; 28,680 states |
| `play_sine_usage` | `PlaySineUsage.cfg` | violates `RunsAsUsageSays` | 0 or 1 argument |
| `file2sound` | `File2Sound.cfg` | `OnlyPortUnset`, `HeardBeforeStopped`, `CleanExit`, `PlaysBackSafely`, `PlaysBack` | the same sleep |
| `snd_options` | `MCSndOptions.cfg` | `LastWins`, `FrameOf20ms`, `RefusesOnlyBad` | all command lines of at most `MaxOptions` = 3 options (a frame, a rate and one of them again), five values: the default device's -1, 0, a small one, a rate with an odd frame and one that does not fit; 24-bit ints; 152,802 states |
| `phone` | `Phone.cfg` | `IInv`, `BindingEnds`, `BindingReturns`, `LastNumberHolds` | none: the state is finite |
| `phone_prompt` | `PhonePrompt.cfg` | violates `PromptObeyed` | none |
| `stream_demos` | `StreamDemos.cfg` | `TypeOK`, `NoCrosstalk`, `NoOrphanTransport`, `HeardWhenMade` | four `Sessions`: sender and receiver; the internal demo, both ends in one process; the join of an unset thread; and the same-endpoint demo beside the sender, which want the same port. Two streams a side, as in the code; `MaxKills` = 1: a process is killed once, at any moment, and run again. A port is taken by a stranger only if somebody in the session wants it |
| `pipes` | `Pipes.cfg` | `OwnSource`, `CrashNeedsFailure`, `SkipsOnlyDropped`, `HeardAtLast` | eleven programs, 1 to 4 words on the command line (below, at and above what each asks for), three file formats; buffers of `Burst` = 2 frames and `MaxFrames` = 4, enough to fill a buffer, drop from it and play on; 107,000 states |

The passing runs show, beyond what their names say:

- `DrivesBoard` is refinement: the menu, with its bridge, implements the patch board of `Routing`
  (one command makes or breaks one connection between places in use).
- `PlaysBack` is refinement, liveness included: playsine and file2sound implement `Playback`.  It is
  silent before; once it is told to stop at most one frame still comes from the source; it leaves
  when the device is silent again, and it does leave.  `PlaysBackSafely` is its safety part, which is
  also proved.
- `OnlyPortUnset`: file2sound ignores four statuses, and yet the one it looks at weeds out a missing
  endpoint, pool or device: past the connection only the file's port may be missing, and then the program
  plays silence, crashes or is refused.  `HeardBeforeStopped`: a port that does exist has been heard
  before main waits for ENTER, also when stdin is at its end; `CleanExit`: status 0 leaves nothing.
- `CleanExit` of the menu: status 0 leaves no port, layer or thread.  It cannot say that the recording is
  complete: the status of destroying the recorder, which closes the file, is not looked at.
- `HeardWhenMade` is about a stream that is in its bridge.  One that the bridge refused is made, started
  and never heard, and the program does not notice.
- `LastWins` and `FrameOf20ms` except what does not fit an int; there the code cuts or wraps silently.
- `OwnSource`: of the eleven pipelines none plays another source than its own, whatever fails before,
    a bridge's refusal of a port included: the slot number is then unset, but the other number of the
    connection is known and leads to no other source (`ics` checks the call, and `left_right`'s
    device never takes a frame).  The exception is `splitcomb`, where two files and
    two channels share a bridge: after a refusal one side's file may be heard on the other side.
- `CrashNeedsFailure` lists the programs that crash without a failed call: `one_file`, `pjsua_file`,
  `splitcomb`, `ics` and `sound_conf` let a command line through that lacks an argument they read, and
  `sip` stores the call's number through a pointer that nobody sets.
- `SkipsOnlyDropped` is about two clocks that nobody synchronises: a device that runs behind loses
  frames, but never one its buffer had room for, and it never plays a frame twice or out of order.

The violations are what the code says of itself and does not do; `PROJECT.json` ("findings") quotes
the lines.  Smaller disagreements have no run:

- `file2sound.c:107` prints "OK, DESTROY COMPLETED" after it has tested the status of disconnecting,
  and destroys the device at line 114.
- `conf_to_2_sounds.c:465` collects the listeners of a slot in 128 bytes with `strcat`, and `:453` lists 32
  slots; `argc` does not bound the files.  From 35 slots on, all fed by one, the line is too long.
- `simple_ics.c:88` and `:99` name the channels the other way round than the code sets them, and
  `:45` looks at the status of `pjsua_init` where that of the player is meant (`CheckStatus`).
- `sc_1file_to_left_right.c:80` opens its device with the mono format of the bridge, so that the
  stereo splitter is always refused: the program is silent (`Fits`).
- `internal_stream.c:137` starts the first stream only.
- `just_create_sound.c:78` lets the index of a failed lookup through.

## Fairness

- The main thread and the device's or clock's thread run whenever they can (weak fairness on
  `Setup`, `Teardown`, `Device`; `TickStep`).
- Nobody has to type: `ReadLine`, `Select` and the answers have no fairness.  When the input has
  ended, `fgets` answers at once, so the dialog goes on (`eof /\ Dialog`).
- The main thread gets the bridge's mutex in the end (strong fairness on `Obeys`): a tick holds it
  for a fraction of the 20 ms between two ticks.
- A REGISTER transaction concludes (an answer or a timeout), and the network does not lose every
  request.  With stdin stuck, `main` of the phone loops without a pause, while a renewal comes seconds
  after the last request was concluded: now and then a whole round of the loop falls in between
  (strong fairness on `Set` and `ReadNothing` while no request is under way).
- A stream program's main and its clock run (weak fairness on `Main` and `Tick`), and a stream's packets
  are not all lost (strong fairness on `Play`).
- The main threads, master ports and devices of the pipelines run (weak fairness on `Main`, `MasterTick`
  and each `Device`).  Nobody has to press ENTER, to answer the call or to hang up, which is why
  `HeardAtLast` excepts a hung-up call.  An unanswered call has no port when main looks it up, so
  that connecting it is a failed call, which `HeardAtLast` excepts as well.
- `SineDemo`: main and the device's thread run (`DemoSetup`, `DemoTeardown`, `DemoDevice`); ENTER is free.

## What is proved

TLAPS checks every step.  The assumptions are the named `ASSUME`s of the modules: that constants are
numbers, bounds and sets of numbers, that the programs and sessions chosen are among those modelled, that
a sleep holds at least two callbacks and that an int holds the default rate 44100.  Every safety property of the passing runs is proved, for all values of the constants.

- `VuMeter_proofs`: `IInv` says that the accumulator holds exactly what was polled since the last bar
  (`level`, `samp_cnt`) and that `i`, `bars` and `slept` are in step.  `BarShowsMean`, `BarFitsMeter`
  and `LastsAsAsked` follow for all levels, durations and widths of int.  `BarShowsMean` alone is not
  inductive: it says nothing between two bars.
- `SineDemo_proofs`, in three parts.  The generator: `SineInv` ties the table, the count and the positions
  to the frame (`table = spf \div channel_count`, `left = i`, the right position twice the left one's,
  minus the wrap); the access and fill properties follow for all frame sizes and channel counts.
  playsine: see the next item.  The composition: `RunsBothParts` says that every behaviour of the whole is
  one of `PlaySine` and one of `SinePort`, so that what is proved of the parts holds of it
  (`WholeTheorem`); with `InStep` (the generator is in its loop exactly while the device waits for it)
  follows `LoopOnLiveTable`.
- `SineDemo_proofs` and `File2Sound_proofs`, on the players: `Staged` says what exists at each call,
  `DeviceInv` how the device and main are in step.  The heart is what a sleep brings about: the first
  callback to end after `FallAsleep` may have begun before it, the second did not; so after two the device
  has played the source (after connecting) or silence (after disconnecting).  From it: in playsine the
  callback's port is alive and layers hold; in file2sound a port that exists has been heard
  (`HeardBeforeStopped`), one that does not gives silence for as long as the program lives, and only that
  handle may be unset (`OnlyPortUnset`); in both a clean exit is clean, and every step maps to a step or a
  stutter of `Playback` (`PlaysBackSafely`).
- `SndOptions_proofs`: after the options up to `n`, each variable holds what the last option of its name
  said, cut to an int, or its default (`Stored`, `Frame`); what was passed was in order (`Progress`).  The
    three properties follow for command lines of any length, any numbers on them and every width of int that
  holds the default rate.  That `AsInt` is the identity on the ints, and lands in them from everywhere, is
  `AsIntFits`.  The proof showed that `LastWins` must except numbers below the lowest int as well as those
  above the highest: they are cut too.
- `ConfMenu_proofs`: `Phases` (the bridge exists from its creation to its destruction, over a pool),
  `SlotsInUse` (what is in a slot exists; only slots in use are connected), `Leftovers` (what is still
  to be destroyed), `Answered` (the variables a command uses hold the answers of its own dialog) and
  `Plugged` (what is in which slot).  `NoDeadPortTouched`, `FilesInOrder`, `CleanExit`, `AsTyped` and the
    refinement `DrivesBoard` follow, for any number of files, levels and commands.
- `Phone_proofs`: `IInv` ties the unset or kept `input` to the last number typed, the request under way to
  what the account wants (main's change of mind in the middle of one is refused, and timers ask only for
  what is wanted), and requests and bindings to an account.  It says nothing of the timers themselves.
  `MindTheorem` follows: the account is left at what was typed last, and no
  timer, answer or failed `scanf` changes that.  `StaysTheorem` is the safety half of `LastNumberHolds`:
  once no number can be read, an account that is as the last one said stays so.
- `StreamDemos_proofs`: `IInv` says that a port is bound by a stream it is for (`OwnPorts`), that packets
  go where their stream sends, however old they are (`Addressed`), and that a bridge feeds slots in
  use only (`RoutesInUse`).  `NoCrosstalk` and `NoOrphanTransport` follow for every set of programs and any
  number of kills.  `NoCrosstalk` alone is not inductive: it says nothing of what is under way.  `TypeOK`
  needs `Shape` besides: a bridge holds at most as many streams as its program has made calls to add one,
  and no program's text has three.
- `Pipes_proofs`, for every set of the eleven programs, every size of buffer and any number of frames.  What
  the proofs need of the programs' texts is stated first, as facts about constants that are shown program
  by program: every handle is made before it is used (`Supplied`), a port is added once and before it is
  connected (`AddsOnce`), the clocks start when the pipe is laid (`Layout`), each channel and each route
  leads where it should (`Channels`, `Tuned`).  From there on the proofs speak of any program.
  `Proceeds` sums up what a call of main does, `Turn` what a tick of any clock does: take frames from some
  outputs' buffers, give the next frame to others.  `IInv` says that what main has passed it has made or
  failed to make (`SoFar`), that what is connected was said to be (`Laid`), that in a
  bridge are only ports the program adds to it (`Added`), that routes, buffers and what was heard are of
  an output's own source, a refused port in `splitcomb` excepted (`AsSaid`; `Harmless` is the fact about
  the texts behind it, `Kept` what it comes to for the routes), and how buffers and clocks
  are in step (`Clocked`): the frames in a buffer are consecutive, from the first that was neither played
  nor dropped to the newest (`Lined`), and an output that a device gives its sound straight has
  played the newest (`Ahead`).  `CrashNeedsFailure` follows from `SoFar` and `Supplied`, `OwnSource` from
  `AsSaid`, and `SkipsOnlyDropped`, which is about steps, from `Lined` through `Turn`.

Only model-checked: liveness (`PlaysBack`, of which the safety part is proved, `EndsWithInput`,
`BindingEnds`, `BindingReturns`, `LastNumberHolds`, `HeardWhenMade`, `HeardAtLast`), which needs fairness
and ENABLED, beyond what TLAPS proves.

## Abstractions

- `PJ_ASSERT_RETURN` is its release form, a return.
- When main has returned or crashed, the process and its threads are gone.
- A handle that was never set is a choice between a crash and a refusal (or, when it is taken down,
  nothing), at every call that is given it.  That it holds by accident something that works is left out.
- A line longer than a prompt's buffer also answers the next prompt; since every answer is possible
  anyway, it needs no step of its own.
- `StreamDemos`: what feeds the master port (the clip, in bridge `conf1` or in PJSUA's bridge) is left
  out; only whether a stream is fed matters.  The programs are run with their arguments.  Layers below
  the transports are taken to be created.  Creating a sound device and connecting it is one step.  The
  body of the thread that `pthread_endpoints.c` does not create is not modelled.
- `Pipes`: garbage that a refused port's slot number or an unset handle holds is followed into the bridge
  but not into the splitter.  The sleeps between the calls are left out (each call may come as late as
  it likes), and so are the teardowns of `splitcomb_file2sound.c` and `sc_1file_to_left_right.c`, which
  stand behind endless loops.  The processing port of `file_pjsua_sound.c`, whose source is not in the
  repository, is put through.  Registration of the caller's account is that of `Phone`.
- Wording, logging, sample values and codecs are left out.

## Plan

Done in this order: sound port and players, VU meter, sine port, conference menu, options, phone,
stream programs, the composition of playsine, pipelines; then the proofs of the menu, the phone and the
stream programs, and of the options and the pipelines.  Left:

1. What the liveness properties rest on, as far as it is safety: that nothing but a person is waited for
   in a state where they fail (for `HeardAtLast`: a program that is done has laid its pipe, or a call of
   its own failed; for `BindingEnds`: a binding of an account that is left always has a timer).
2. `sip_streamer.c` against a callee, once `sip_receiver.c` handles a request.

## Not modelled

- `sip_receiver.c`: its handler returns without doing anything, the processing being commented out.
- `2endpoints.c`, `pjsua_stream.c`: the first never starts its streams, nothing in the repository receives
  what the second sends, and no Makefile target builds them.  What they do after a failed call is unknown
  besides, as `CHECK()` of `ansi-utils.h` is not in the repository (the one such call of `confbridge.c` is
  modelled with both outcomes).
- The text that `conf_list` of `conf_to_2_sounds.c` builds: it only reads the bridge.
- The menus (`app-streamer.c`, `app-streamer-2.c`, `app-receiver.c`, `test-streamer.c`,
  `pjsua-receiver.c`) drive the functions of `endpoint.h`, whose source is not in the repository;
  several are called with other arguments than the header declares, so that their effect is unknown.
- `list-devices.c`, `test-codecs.c` only print; `just_create_sound.c` opens one device and sleeps.
- The other helpers of `util.h` (`app_perror`, `dump_pool_usage`) only print.
