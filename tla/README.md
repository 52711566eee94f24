# Verification of hwtest

TLA+ models of the hwtest payload, TLC runs over small instances of them, and
TLAPS proofs for every value of their constants. Definitions are translated
from the C, assembly and header files they name; `PROJECT.json` maps each one
to its lines.

## 1. The system

hwtest is a hardware diagnostic that runs on the console's boot processor
(the BPMP, one ARM7 core, no scheduler). It is injected in recovery mode,
probes the hardware, prints a report on the LCD and the debug UART and can save
it to the SD card. A touch interface and a RAM test are further payloads on the
card.

Only one thing runs on the BPMP at a time. What is concurrent is around it:

* a PC at the other end of UART-B, whose keys arrive while probes run;
* CPU0 of the main complex, booted with a stub to reach PCIe, talking back
  through a mailbox in DRAM, which may hang at any access;
* the USB-PD controller, a chip with firmware of its own behind I2C, and the
  dock behind it;
* the PC on the USB cable, the DisplayPort sink, the Joy-Cons and the controller
  of the camera in the right one;
* the memory and its controller, when the RAM test asks whether they work;
* the user, who may leave a screen, press a button or pull a cable between any
  two ticks.

### Inventory

| Component | Source | State | Operations | What is hard |
|---|---|---|---|---|
| Pager | `main.c`, `core.c` | page, run mask, push-back FIFO, `_log_uart_only` | keys, buttons, navigation batch, `G<name>`, refresh all, save, reboot | two readers of the UART; keys in the middle of a sweep |
| Sweep | `core.c` `run_probe_mask` | page index, findings, capture | run each enabled page, then the verdict | what the verdict and the report are built from |
| Capture, report | `log.c`, `report.c` | capture buffer, its cursor, the file | arm, append, truncate, save | armed for a sweep and for nothing else; a full buffer |
| Findings, verdict | `dx.c`, `verdict.c` | 64 findings | reset, set, get, roll up | a full table; a stale finding |
| CPU0 hand-off | `probe_wifi.c`, `cpu_stub/`, `cpu_mbox.h` | mailbox, attempt, heartbeat clock, CPU0's rail | boot, watch, retry, diagnose, report, powergate | CPU0 hangs or faults anywhere; torn reads of a two-store update |
| Dock handshake | `usbpd.c` | `dock_t` | start, 23 states stepped by a tick, stop | replies late, lost or refused; alert bits read by others |
| PD chip reset | `usbpd.c` | `pd_reset_t`, the PV5 line | start, 6 states stepped by a tick | must be alone on the chip; left in mid-pulse |
| Dock Test screen | `gui/gui_dock.c` | running, ran, resetting | tick, Run, Reset Chip, leave, open | any button between any two ticks |
| DisplayPort output | `dpout.c` | stage reached, rate, lanes, PLLs | start (training, margin, rate fallback), stop | partial failure; link status over an unreliable AUX channel |
| USB serial | `gui/usbser.c`, `gui/usbser_xusb.c`, `gui/usbser_usb2.c` | two byte queues, port state, transfer and event rings or descriptors | start, stop, poll, send, each control request, halts, resets | queue and ring wrap, a PC that gives up or resets between two polls, stale DTR |
| Launcher | `ui_menu.c` | selection, boxes, keys held | move, tick, start, hand over | one press acting twice, failed hand-overs |
| RAM test | `ramtest/` | menu, run, the memory's clock and training | train, write and verify sweeps, compensate, abort, report | one window for every region, address aliases, training a second time |
| GUI shell | `gui/gui_main.c`, `gui/gui_home.c` ... | the screen, the one asked for, what it changed | show, switch, back, tick | each screen must leave what it found |
| GUI health check | `gui/gui_run.c`, `gui/gui_results.c`, `gui/gui_custom.c` | groups, page, findings, report | pick, run page by page, save, results | several counts of the same findings; a card that fails |
| GUI clocks | `gui/gui_clock.c` | the memory's rate | boost, restore | Minerva hangs when asked for the rate it has |
| Joy-Cons, debug console | `gui/gui_main.c`, `gui/gui_tests.c`, `gui/gui_dbg.c`, `gui/gui_jcattach.c` | who is on the rails, drops, rumble, the console's port | poll, slide on, buzz, move the console | three parties for two UARTs |
| Joy-Con sensors | `gui/gui_jcwire.c`, `gui/gui_jcir.c`, `gui/gui_jcmotion.c` | receive buffer, request under way, set-up step | send, receive, step, retry, leave | lost pieces, late answers, leaving at any step |
| Hands-on tests | `gui/gui_tests.c`, `gui/gui_screen.c` | areas hit, page, backlight | touch, next, leave | the finger that is still down |
| Probes | `probe_*.c` | almost none between calls | register sequences | bounded waits; restoring what they change |
| PC tools | `host_tools/` | parser state | send keys, parse the dump | out of step with the console |

The hazards each of these is exposed to are listed, at the line where they
bite, under "hazards" in `PROJECT.json`, each with the properties that watch
for it or the reason none does.

## 2. Modules

| Module | Models | Extends |
|---|---|---|
| `BoundedFifo` | the abstract promise of a byte queue: a sequence, a capacity, what does not fit is dropped | |
| `ByteRing` | the ring with free-running `u32` indices: the pager's push-back FIFO and the two USB serial queues | refines `BoundedFifo` |
| `Console` | the pager, the sweep, the capture, the report, the PC | uses the push-back FIFO as `BoundedFifo` promises it |
| `CpuHandoff` | the BPMP's supervisor, the stub on CPU0, the mailbox between them | |
| `DockTest` | the dock handshake, the PD chip reset, the Dock Test screen, the PD chip and the dock | |
| `LinkTraining` | starting and stopping the picture on the TV: clocks, link training, attach | |
| `UsbHost` | the PC at the other end of the USB serial port (external) | |
| `Xusb`, `Usb2` | Mariko's and Erista's device controller drivers, with the controllers | `UsbHost` |
| `UsbSerial` | the port over either driver | `Xusb`, `Usb2` |
| `RamCells` | the RAM test's words, patterns and regions, the memory and the cache in front of it, with its faults | |
| `Menus` | the menu and the list of boxes the launcher and the RAM test share | |
| `RamTest` | the RAM test payload: menu, training, sweeps, report | `RamCells`, `Menus` |
| `Launcher` | from the injected payload to a test, the RAM test included | `RamTest` |
| `JcWire` | the exchanges over a Joy-Con's rail, and the Joy-Con | |
| `IrCamera`, `Motion` | the camera's and the motion sensors' screens | `JcWire` |
| `DebugPort`, `JoyCons` | the debug console's port; who is on the rails, and the Joy-Con test | `JcWire` |
| `GuiClock`, `Report`, `HealthRun` | the memory's clock, the report and its file, the health check over both | |
| `HandsOn` | the touchscreen and screen tests | |
| `Gui` | the GUI's loop and screens over all of these but the Dock Test | the six above |
| `MC*` | instances for TLC | one of the above |
| `*_proofs` | theorems and proofs | the module of the same name |

### ByteRing

`buf`, `head`, `tail` are the C variables. `IndexMod` stands for 2^32 and is
any multiple of `Size`; the run takes it small so that indices wrap many times.
`Put` is `uart_ungetc` and `_tx_put`, `Get` is `uart_getc`'s first half,
`Chunk` the transfer `usbser_poll` copies out, `Discard` its "nobody listens",
`Reset` `_reset_port`. The refinement maps the waiting bytes, in order, to
`BoundedFifo`'s sequence.

### Console

`pc` is where `ipl_main` is: in the page loop of a sweep or a refresh, in a
poll, in a probe's body, at a job's end, at the pager's `uart_getc` ("idle"),
inside a navigation batch, inside the `G` reader. `job` says why pages run.
Each byte the PC sends carries what the PC meant by it (a key, or part of a
name) and its number; the console never looks at either, the properties do.
A probe's body is a bounded number of status steps, each a poll of the UART
(`status_set`, `msleep_poll`), and then its output: a finding, and a section
in the capture if one is armed. `epoch` numbers the sweeps.

### CpuHandoff

The mailbox is a record of the flags the supervisor reads. A stub stage is
entered by `Enter` (the stage's store) and `Bump` (the heartbeat's store), as
`step()` does, and CPU0 may hang or fault in any of them. `went` records what
the watched boot really did, for the properties: the code does not have it. The
stages are those of the four parts of the stub (`PhyStage`, `ProbeStage`,
`SetupStage`, `PortStage`), each with what it stores before it passes.
Time is in ticks of 200 ms; `Dur` and `Gap` give each stage's longest stay and
longest silence as the stub's own bounded waits allow. `StubInTime` stops time
while a CPU0 that works would overrun them, which is how the model says that
the stub's waits are bounded.

### DockTest

`d` is `dock_t`, `rst` is `pd_reset_t`, `line` is PV5, `chip` the controller's
command, completion and alert registers, `port` the other end of the cable. A
tick with a handshake is two steps, the alert read and the rest of
`dock_step`, so that an alert may arrive in between; the controller executes
one command at a time, may refuse it, and a message sent may be answered,
answered with a refusal, or not at all.

### LinkTraining

`pc` is where `dpout_video_start` is, from the clocks to the attach; `stage`,
`assr`, `link`, `vs` and `pe` are the C variables. `st`, `tries` and `same` are
locals of `_link_train` and end with it, which is why a status may be read
before anything defined it. `trained`, which only properties read, is what
the sink last said of the link in this equalization ("unheard" if no read got
through). `sor` is what is programmed in SOR1, `on` what has
been powered, `sink` what the sink was told. One step is one AUX access: it is
answered, lost, or (where the code looks at the result) taken by the sink and
then lost. A start may end before the clocks: no power, no hot-plug, or a sink
whose receiver does not answer (`Probes`). The clocks put SOR1 back to its reset
state (`Quiet`), so nothing of an earlier rate is left; the pads are calibrated for
the rate (`PadsFor`), and a rate's products decide whether the macro locks
(`RateProds`, `MacroUp`). A status is chosen afresh at each look, so the sink may lose at any
look what it had at the one before. Post-cursor2 levels, which are stored and
written like the other two, the coding and spread registers and the read-only
checks after the attach are left out.

### UsbSerial, Xusb, Usb2, UsbHost

`soc` chooses the driver at the start. `x` and `u` are the state of the two
drivers and their controllers: for `Xusb` a ring of TRBs per endpoint with the
driver's enqueue and the controller's dequeue positions and their cycle bits,
and the event ring of two segments (`ev`); for `Usb2` the descriptor of each
endpoint half, the SETUP packet in the queue head and what the registers say
happened. `port` is `usbser.c`'s state, DTR and the bytes waiting to go out.
`power` is which clocks and PHY parts are up. `poll` is where the BPMP is within
one `usbser_poll`, so that controller and PC act in between; `host` is the PC
and `op` the control request it has under way. `upsets` and `failures` count
what the PC did to disturb and what it saw fail; only properties read them.

The PC's rules are read off the requests the drivers answer. It runs one
control transfer at a time, gives one up only when nothing answers it, halts
endpoints, resets the bus and may be unplugged at any moment.

### RamCells, RamTest, Menus, Launcher

A word is the set of its bits that are 1; the patterns, `pattern_seed`'s hash of
the upper half included, are written out over it. A memory is the cells of each
testable region, a write-back cache of the one window and the region the window
is at; a fault is a stuck bit, a dead data line, a cell that fades, or a decoder
that takes one region for another. One step of a sweep is one region. `mtc` is
the memory's clock, whether it is trained and whether a tick found it lost.

`place` is where the launcher is, `at` where the RAM test is ("away" outside
it). Keys are levels (`key`), as the code reads them; `acts` counts what the
current press of a volume key has done, for `VolumeActsOnce` alone.

### Gui and its parts

`gui` is the loop's own state: the screen, the one asked for, where Close goes,
whether B navigates, who takes touch samples, the message box. A request is
taken up at the loop's next pass (`Leave`, then the next screen), so everything
else may happen between the two.

`wire[s]` is what is on a rail in both directions, who owns it and whether
something was lost on it; `pads[s]` is the Joy-Con, `drv[s]` what bdk's driver
thinks of it, `told[s]` what really happened on the rail (for the properties): a
Joy-Con slid on, and the losses the test may count. One of those is a Joy-Con
that the driver was not polled about for a while (`Unpolled`): a health check
polls nothing, nor does the camera's screen without a right Joy-Con, and neither
starts the resume window, which a sensor screen that took a rail does
(`gui_jcir.c:477-485` returns before it owns one; `docs/joycon.md:138-142` words the
window the same way). A Joy-Con the driver lets go of after such a pause is a drop
to the test, of which the rail knows nothing.
A report is a head and its pieces, each of which may be lost; the receiver then
takes what follows for the rest. `cam` and `mo` are the sensor screens, `test`
and `rumble` the Joy-Con test, `port` and `taken` the debug console's. `clk` is
the memory's clock, `sel`, `sweep`, `findings`, `verdict`, `body`, `disk` the
health check and its report, `tt`, `sc`, `light` the hands-on tests.

The product of all of these is far too large for TLC, and most of it says
nothing: no two of the GUI's tests run at once. A behaviour therefore keeps to
one *tour*, a set of screens with the Joy-Cons, losses, chips and cards that go
with them. The specification allows any tours; the proofs hold for all of them,
the one with every screen included.

## 3. What the runs show

Passing runs:

| Run | Question | Result |
|---|---|---|
| `ring` | Does the index arithmetic implement a FIFO? | yes, across index wraps |
| `console` | Is the verdict of one whole sweep, is the report, do the sinks follow the job? | yes, with a PC that stalls inside lines, all three buttons, a push-back FIFO of 2 that overflows |
| `console_reboot` | Is every `R` honoured? | yes, when no button is pressed |
| `handoff` | Does it return, is the cluster off then, is the verdict about this attempt, is a stall a stall? | yes; a watch is given up only for a CPU0 that hangs or is between the two stores of a step |
| `dock` | One run, every partner, faults and silence | the line rests low, completions are the command's own, a reported silence is real, the reset is alone, leaving is clean but for a light not yet on record |
| `dock_ends` | Do the handshake and the reset end? | yes, for a dock and a controller that may go quiet at any step |
| `link` | Does a picture run over a link that both ends agree on, and never against the last status heard? Does stopping from stage 1 on undo everything? | yes, with failing accesses, two lanes or one, failing parts and any number of restarts. A start that fails before stage 1 leaves the two PLLs, and a status nobody heard in equalization may pass (below) |
| `usb` | Do driver and controller agree on every ring? Does a PC ever lose a request or get stuck by the device's doing? | they agree; each request that fails is caused by a transfer given up, a bus reset or an unplugging, two of them at most for each; a PC that goes on asking always gets configured |
| `ram` | Does good memory pass, does a pass exclude faults, can the test always run again, does one press act once? | yes, for each fault its patterns can find, on each platform, from the launcher or injected alone |
| `gui` | Does each screen leave everything as it found it, has each rail one owner, does the camera's set-up end, do report, verdict and results agree, does a check find the card again? | yes, over the eight tours |

Disagreements between the code and what its comments and documents say, each
a run that TLC finds violated, with the quotation in `PROJECT.json`:

1. `names`: a `G` line sent while a sweep runs is read byte by byte by the
   reboot poll; `GRaw state` holds an `R`.
2. `slow`: the stage and the heartbeat are two stores, and the watch's window
   depends on the stage. Seen between them, the silence of the link wait is
   measured with the 300 ms window of the stage after it.

Met while modelling, visible in the models and stated by no run: the key read in
a turn of the pager in which a navigation button is down is dropped; a replugged
cable does not restart the dock's wait at the plug; a key that a
navigation batch hands back (`main.c:381-383`) goes to the tail of the push-back
FIFO, behind keys sent after it, and an `R` among them waits there unseen by the
reboot poll; Run pressed again in the Dock Test forgets what the first run has
to undo (`docs/dock.md` says so); the diagnostic boot overwrites the stage a
stall is reported at (`docs/wireless.md` says so). Four more are where a property
stops short:

* `_cr_done` and `_eq_done` look at the link status and not at the result of its
  read. Where no read of equalization gets through, the status clock recovery
  read, or whatever was in `st`, brings the picture up (`docs/dock.md:378-380`
  has every lane report first). What holds is that a status once heard is not
  overruled: `PictureIsTrained`.
* A start that fails at PLLDP, PLLD2 or the DISB partition returns before
  `s_stage` is 1 with the PLLs it enabled, and the stop returns at once, where
  `dpout.c:659-661` has 0 as "nothing" and the stop undo "whatever was
  reached". Nothing else is left so: `StopUndoes`.
* The dock's light is on record (`led_lit`) from the acceptance of the reply to
  its message on. Left, or failed, between the two, the Dock Test leaves it on,
  although its hint says that it goes off. This is the exception in
  `LeavingIsClean`.
* After a check that saved, a RAM test that cannot be loaded unmounts the card;
  `gui_ram.c:30` initializes it again and mounts nothing, and `save_report` takes
  the volume to be mounted still. The next run fails in `f_open` unless its
  Storage pages mount the card first (`docs/gui.md:325-326`: "every run saves,
  custom ones included"). What holds is `StorageRunsSave`.

### Bounds, and why they are enough

* `MaxSent` (bytes the PC sends) is below the UART's 16-byte FIFO, so a
  receive overrun is out of the model. Four bytes are enough for two commands
  and a name; the push-back FIFO is shrunk to 2 where overflow is the subject,
  and 16 or 4 where it must not be.
* Three pages (the verdict, one selected, one not) are the least for which
  "selected", "left out" and "last" differ. `MaxPolls` = 1 status step per
  probe: a probe with more only polls more often, and the poll is a loop.
* `Attempts` = 3 is the code's number. `Ceiling` = 40 ticks is 8 s, under the
  real 20 s, so the ceiling too is reached. `EarlyWindow` = 10 and `LateWindow`
  = 1 are 2 s and 300 ms rounded down to a tick: the watch is at least as
  impatient as the code's. A stage may last as long as its bounded waits allow
  (`StageDur`: 1.8 s for the entry, 1.4 s for the controller's enabling), and
  all of them together stay below that ceiling.
* The dock's waits are scaled to units of the step timeout, keeping their order
  (`Settle`, `HpdWait`, `HubDelay` at most `StepTimeout`; `IrqWait` at most
  `IdWait`). `MaxRuns`, `MaxPlugs` and `MaxBusy` bound presses of Run, plugs
  and busy answers of the hub: the hub's busy retry has no working limit in
  the code (`docs/dock.md` says so), so its ending is assumed there.
* `LinkTraining` needs no bound on starts: the state space is finite. Its loops
  are shortened (`MaxSame` 1 for 5, `MaxCr` 2 for 20, `MaxEq` 2 for 4), which
  keeps every way in and out of them. Two lanes at two rates and one lane at
  three reach each fallback, the rate that does not fit included. The sink asks
  for one uneven pair of levels beyond the range; a failed read asks for none.
* `UsbSerial`: rings of two slots on the control endpoint (`CtrlSlots`), one on
  the bulk ones and three per event segment, each with its Link, so that every
  wrap happens within a few requests; one byte in the queue. Three PCs: one
  that enumerates with every kind of data stage, one that opens the port and
  halts endpoints, one that opens it and comes back; one or two upsets each.
* `RamTest`: words of four bits, a region below and one above the low word's
  reach and one with both bits, plus a protected one; of a region's words the
  first and the one the rotated upper half lands on, which is where an alias
  shows. Three errors fill the error list (`MaxErrors`). One pattern of the
  address, two fixed ones and one pseudo-random stand for the code's order.
* `Gui`: a report of two fragments and an inbox of two (`MaxInbox`), two tries
  of a request and three looks at a status, one frame, one restart of the
  camera; one or two moves of a Joy-Con and one lost piece per tour. A check has
  four pages with a key or two each, rows that overlap pages and one that needs
  a group in full, and a capture of ten lines (`Cap`), fewer than the longest
  check prints and more than the shortest. Three areas and two pages for the
  hands-on tests. Each tour is a closed part of the state space: what one tour
  touches, no other one's screens read. The page `storage` brings the card up
  and mounts it (`CardPages`).

### Fairness

* `Console`: weak fairness of the console's own steps (one processor that does
  not stop between two steps of its loop, probes that end) and of the PC
  finishing a line. Nothing makes the PC send a line.
* `CpuHandoff`: weak fairness of the supervisor, of time and of CPU0 as a
  whole, where hanging is one of CPU0's steps.
* `DockTest`: weak fairness of the tick (LVGL's task) and of time. The
  controller, the dock and the user owe nothing.
* `UsbSerial`: weak fairness of the BPMP's polls, of the controller carrying out
  what is queued, and of the PC being plugged back in; strong fairness of the PC
  taking part in its own transfer and of its asking again for an address and
  a configuration. The last two are the PC's insistence, without which nobody
  would ask; a transfer is given up by it only when nothing answers.
* `Gui`: weak fairness of the camera screen's tick, a task of a loop that never
  blocks, and of the Joy-Con working through what reached it. Nothing is assumed
  of the user, nor of what is lost.
* `Launcher` and `LinkTraining` have none: no liveness property is checked.

## 4. What is proved

Proofs are for every value of the constants that satisfies the named
assumptions of the module.

* `ByteRing_proofs`: `RingTypeCorrect`, `RingNeverOverfull` and
  `RingImplementsFifo`. The heart is arithmetic modulo `IndexMod`, a multiple
  of `Size`: the fill level is the difference of the indices or that plus a
  turn, and wrapping an index never changes its slot. The refinement shows each
  call maps to the FIFO's call of the same name.
* `Console_proofs`: `VerdictFresh`, `SinksRight`, `SaveIsLatest`, from one
  inductive invariant. The properties only speak of the moments of the verdict
  and of the save; the invariant says at every step of the page loop which
  pages have run (`Done(at)`), and that findings and capture hold exactly their
  products, tagged with the current sweep.
* `CpuHandoff_proofs`: `TypeCorrect`, `ClusterOff`, `VerdictIsCurrent`,
  `StallsAreReal`. The invariant relates the mailbox to what the watched boot did
  (`Tracks`), what shape the mailbox has at each stage (`Shape`), and where the
  rail is on.
  `StallsAreReal` is the one that leans on the timing: where the stages fit the
  watch (`StagesFit`, below), a watch is given up only on a stub that is wedged or
  between the two stores of a step from CFG_RD on. Its invariant, `Pace`, says of
  a stub that runs how long it may have been silent and how long the boot may have
  taken, by its stage; between the two stores the stage is already the next one
  and the silence still that of the one before, which is the whole exception.
* `LinkTraining_proofs`: `TypeCorrect`, `LevelsAreInRange`, `EndsAgree`,
  `PicturesAreTrained`, `TrainingsDescend`, `StopsUndo`, for every sink, every
  request it makes, every loop limit and every set of parts that may fail. The
  properties speak of a picture that is up, or of the stop; the invariant says
  from which place of the start on the rate is programmed (`Configured`), told
  to the sink (`Told`), the levels driven (`Driven`), and the training passed
  (`Passed`), and that each stays so until the next rate. `PicturesAreTrained`
  also needs `InvTrained`, that once equalization heard "no", the status in `st`
  says so until a read that gets through says otherwise.
* `DockTest_proofs`: `TypeCorrect`, `LineRests`, `LeavesDockClean`, `CompletionsAreOwn`,
  `SilencesAreReal`, `ResetsAreAlone`, for any number of runs, plugs and
  troubles. `StepsOnItsOwnCompletion` and `SilenceIsReal` both rest on
  `OwedCompletion`: where a command is waited for, it runs, or it has ended as
  the last one and its done bit is in the alert register or in `d`. Three other
  conjuncts make that inductive: no reset goes on then (`Alone`), the light is
  recorded only from its acceptance on (`LightRecorded`), and nothing runs in
  the delay after it (`LightEnded`). Every step of `dock_step` is shown to be
  one of five kinds (`Moves`), and every other step of three (`OtherKinds`), so
  each conjunct is argued by kind and not by action.
  `LeavesDockClean` is `LeavingIsClean`, of the first run: a second Run on
  the same screen forgets what the first has to undo. `FirstRun` says that what
  is on, or is being switched on by the command that runs, is on record in `d`,
  or the handshake is where the light is about to be recorded (`LampStates`) or
  has failed; before the first run nothing is on at all.
* `UsbSerial_proofs`: for every PC, every size of ring and queue.
  * `PortsOffAreDown`: `OffIsDown` alone is not inductive: a stop takes down one
    driver's parts, and the invariant says that no other's are ever up.
  * `RingsAgree` is `EndsAgree`, the handshake between driver and controller by
    cycle bits. `RingInv` says that a transfer ring is clear, or holds one TRB the
    controller may run, with the Link before it handed over when it has to pass
    it (`Clear`, `Holds`); which slots of the event ring wait, told by their
    cycle alone (`EvOK`); and that what is pending is that TRB or the event of
    its end, never both (`Counts`). Two orderings make it inductive: no bulk
    transfer's end waits behind the PC's next configuration (`Ordered`), which
    would clear a count it is not of, and a control stage starts only when no
    SETUP is still unread.
  * `ChunksStayWhole` is the action property `ChunksAreTaken`, which no run
    states: what is queued goes to a ring that `RingInv` says is clear. The driver
    gives up a chunk only where it also gives up the transfer; on Erista nothing
    but a configuration touches the IN half.
  * `FailuresHaveCauses` is `FailuresAreCaused`, which counts over the whole run.
    `DebtInv` makes it local: where the counts are equal, every upset has been paid
    for, and the controller then owes the request under way its answer
    (`CleanX`, `CleanU`: a stage is on the ring or in the queue head, its event
    waits, or the driver is about to start it, and it is the stage of that
    request, `ToldX`, `ToldU`). So a request can fail only where an upset is still
    to be paid for, and failing pays for one; an upset itself may leave anything
    behind. What was told is kept whether or not something was upset, since a
    stale stage may still be there when the next request begins.
* `Launcher_proofs`: for every number of regions, patterns and groups and every
  way of holding keys.
  * `VolumeKeysActOnce` rests on `ActsInv`: a program that acted on the press
    that is still down is at a wait for another key.
  * `TrainingStarts` rests on `ClockInv`: outside the one place that says so, an
    untrained memory is at the clock training starts from.
  * `GoodMemoryIsPassed` rests on `SweepInv`: with no fault, every region before
    the one being written holds the pattern, in its cells and not only in the
    cache, whatever the window was at before; nothing but lost training fails.
  * `PassesAreEarned` is the converse: a memory with a fault that one of the
    selected patterns is there to find never passes. `RunInv` counts (the passes
    done are the selected places of `Order` before the one that runs), and
    `CatchInv` says what a run without an error so far has seen: no pattern done
    exposes the fault, and the regions already read hold what was written. The
    rest is about the words: two regions whose addresses differ get words that
    differ at some offset, straight or inverted (`WordsDiffer`), so a decoder
    that takes one for another is read (`ExposedIsRead`).
  * `TypesHold`, from all of these and the shape of the two menus (`MenusStep`).
* `Gui_proofs`: for every tour, every module that may switch the clock and every
  table of pages, rows and categories.
  * `OneOwner` rests on `RailInv`: a rail is owned only on a sensor screen that is
    past its wait for the rails, and a Joy-Con the driver has keeps the console
    off its rail.
  * `LeavesAsFound` is the whole of `LeftAsFound`. Its heart is `WireInv`: of
    each side it says what the screen that is open leaves on the rail and in the
    Joy-Con (`Tidy`): nothing on its way and nothing switched on when the rail is
    free, nothing but the camera's requests with the motion sensor off on one
    screen, nothing but the sensor's two switches with the controller off on the
    other. "In doubt" is part of it: a rail something was lost on promises
    nothing, and doubt is never forgotten. It needs what a request does, and what
    a sequence of requests in flight does (`HandledAll`, split at the request
    that was acknowledged: `SubcmdsDo`). `BuzzInv` and `LightInv` are the rumble's
    and the backlight's, `ClockInv` the clocks' (stated alone as `ClocksGoBack`):
    it ties the rate to where the check is.
  * `DropsAreLosses` is the action property `OnlyTheRail`. `DriveInv` ties three
    records of one Joy-Con together: where it is, what the driver thinks, what
    the test has counted. A loss the test is still to count is already told
    (`Counts`, `LapsedSide`), and a Joy-Con whose charger is gone and which is
    back on its rail was slid on (`Watched`).
  * `PicturesAreConfigured` is `StreamIsConfigured`. The rail never says which
    request a reply answers, so the invariant `ChainInv` says what every piece on
    the rail still means: from the acknowledgement of this start's first request
    on (`Came`), each reply on its way tells something that is so and stays so
    (`Holds`, `RepliesHold`), since from that request on (`Asked`) nothing in
    flight undoes it (`OfThisStart`, `RequestsFit`); the steps passed left what
    they asked for (`StepsHold`). A loss leaves a subsequence, for which all of it
    still holds (`Thinner`, `ChainThins`). The press of a button is the hard step:
    what `gui_jc_subcmd` takes for the acknowledgement of the sleep request may
    be that of the wake request before it. `InOrder` says that what follows it on
    the rail then holds no acknowledgement of the reports request
    (`SleepIsLast`), so the new start begins with nothing of the old one. It is
    true until the first press, hence the property's `restarts <= 1`: with one
    more press before the rest was answered, that wake request may be followed by
    the next start's reports request. `MCGui` allows one press.
  * `SavedIsHonest` rests on `ReportInv`: a check's pages write into a buffer that
    is armed, the buffer that is full says so (`BodyOK`), and after the last page
    it holds the verdict's heading or the mark; sorting keeps both.
  * `StorageIsFound` rests on `StoreInv`: once a page that mounts the card has run,
    the card has a volume or is not up, until the save, since only the RAM test's
    screen unmounts it; no page that is to run is passed over
    (`NextPageSkipsNone`).
  * `ResultsAgree` rests on `VerdictInv`: the verdict's counts are still those of
    its findings. It is about two counts over different tables, and uses that the
    categories cover the rows, which `gui_text.c`'s `g_gui_cats` and
    `verdict.c`'s rows do, and a least element of the severities found.
  * `TypesHold`, from all of these with the hands-on tests' (`HandsInv`).

### What is assumed of the constants

An instance that TLC runs is checked against every one of these.

* `RamCells`: `LayoutAssumption`: a region's address has no bit of the low word
  below some bit, offsets and the rotated upper half only bits below it. Regions
  are 4 MiB, so that bit is 22; the offsets of a region are below it, and
  `high_mix` rotates the upper half, at most 2 with 8 GiB, to bits 16 and 17.
  `PrbsAssumption`: no word of the pseudo-random pattern is 0 and two regions have
  different ones somewhere. `prbs_step` is a xorshift, which is one to one and
  takes only 0 to 0; `pattern_seed` never yields 0; and two seeds differ, in the
  upper 10 bits when the low words do, or in the lower 22, where an odd constant
  times 0, 1 or 2 is different each time (and none is the seed that stands in
  for 0). That arithmetic is too wide for a run and is recursion to the provers.
  `Fits`: a fault is one of the memory under test. A fault in a region that is
  protected is not looked for, by design (`ramtest_main.c`'s reserved ranges).
* `RamTest`: `OrderAssumption`: the patterns are different and the address is one
  of them. `Launcher`: `GroupsAssumption`: audio and sound are among the groups.
* `CpuHandoff`: `WindowsAssumption`, types and one attempt at least. `StallsAreReal`
  alone also supposes `StagesFit(t)`: no stage's longest silence (`Gap`) is longer
  than its window, and the stages' lengths (`Dur`), added up in `t`, stay below
  the ceiling. The stub's bounded waits, as `MCCpuHandoff` reads them off it, do,
  and TLC checks it of that instance (`FitAssumption`).
* `Gui`: `ToursAssumption`, only types. `HealthRun`, `Report`, `JcWire`,
  `IrCamera`, `HandsOn`: tables that fit each other, bounds that are not 0, and a
  camera frame of two fragments or more.

### Only model-checked

The five liveness properties (`RebootHonoured`, `AlwaysReturns`, `WaitsEnd`,
`PcGetsIn`, `CameraSettles`), since TLAPS has no fairness. Every other property of
a passing run is a theorem.

## 5. What is not modelled

* Register values, timings below a tick, formatting and drawing.
* The finding table filling up: the source names fewer keys than its 64 entries.
* CPU0's stub reads its configuration and the supervisor reads several mailbox
  words for its report one after another; the model reads them at once.
* In `DockTest`, a command written over one that runs replaces it, reading the
  alert register clears it, `dock_stop`'s exchange completes, and the end of a
  reset and the handshake step of the same tick are successive ticks.
* In `UsbSerial`, bytes, packets and chunks are one; the receive queue is
  `ByteRing`'s, the descriptors' contents and the notifications' endpoint, on
  which nothing is ever queued, are out. USB2's wait for a stage outlasts a PC
  that works on it.
* In `RamTest`, how often the 10 ms tick falls within a region; a tick may find
  training lost wherever the code ticks.
* In `Gui`, eight seconds are enough for the driver to bring back a Joy-Con that
  stays on its rail, which is why `_jc_tick` forgets its resumption then. Key
  repeat, stick navigation, sticks' and buttons' judgement and the power menu
  are left out, and so is the interface drawn by a probe's status steps.
* The pager after a text launcher whose RAM test could not be loaded: no report
  was saved yet then, so the next save mounts the card.
* The components listed `not_modelled` in `PROJECT.json`, with the reason. Most
  probes are straight lines of register accesses printed as they come: they keep
  no state another part reads, besides the finding they leave, which
  `Console` and `HealthRun` take as any.

## 6. Plan

1. done: `ByteRing`, `BoundedFifo`, `Console`, `CpuHandoff`, `DockTest`,
   `LinkTraining`, with proofs;
2. done: `UsbSerial` over both controllers, with the proofs of its power, its
   rings and its chunks;
3. done: `Launcher` and `RamTest`, with proofs;
4. done: `Gui` over its screens, with proofs;
5. done: the whole of `LeftAsFound`, `OnlyTheRail`, `SavedReportIsHonest`,
   `StreamIsConfigured`, `PassIsEarned` and both type invariants, for every value
   of the constants;
6. done: `FailuresAreCaused`, for every PC and any number of upsets;
   `StallIsRealOrMidStep`, for every timing that fits the watch;
   `LeavingIsClean`, for every wait, partner and trouble;
7. next models: the Bluetooth probe's HCI exchange, and the TV picture's
   watch in the Dock Test.
