# RTLSDRWrapper in TLA+

A verification development for RTLSDRWrapper: the Swift package, the copy of
librtlsdr it ships in `Sources/CRTLSDR`, and the command line programs that come
with that copy. Paths below are relative to `src/`; `C/` stands for
`Sources/CRTLSDR/src/`, `S/` for `Sources/RTLSDRWrapper/`.

`PROJECT.json` is the index: which definition models which lines (`map`), the
runs, the mutants that show what each property catches, the findings, the
hazards and the theorems. This file is the explanation.

## 1. The system

```
 Swift client                                   TCP client (other machine)
   | RTLSDR protocol                                    |
   +-- RTLSDR_USB -- RTLSDRHandler                      | commands / samples
   |        |  (S/RTLSDR_USB, RTLSDRHandler)            |
   +-- RTLSDR_TCP ---------------- TCP ------------- rtl_tcp   (C/rtl_tcp.c)
            (S/RTLSDR_TCP)                              |
                                                        |
   rtl_fm  rtl_sdr  rtl_adsb  rtl_test  rtl_power       |
        \______________\_________/_____________________/
                          librtlsdr  (C/librtlsdr.c)
             open/close, configuration, rtlsdr_read_async, cancel
                   |                         |
             tuner drivers (C/tuner_*.c)   libusb  (binary, external)
```

### Inventory

| Component | State it keeps | Operations | How it interacts | What makes it correct |
|---|---|---|---|---|
| Asynchronous read (`C/librtlsdr.c` 1713-1999) | `async_status`, `async_cancel`, `xfer_errors`, `dev_lost`, the transfers | `rtlsdr_read_async`, `_libusb_callback`, `rtlsdr_cancel_async`, the wait in `rtlsdr_close` | called by every program; cancelled from other threads, signal handlers and the callback; no lock | the reader alone decides that a stream is over; a cancel ends it; transfers are freed only when libusb has given them back; close never overtakes the reader; afterwards the device can stream again |
| Device configuration (`librtlsdr.c` 726-1290) | `rate`, `freq`, `corr`, `offs_freq`, `direct_sampling`, crystal frequencies, gain | the setters and getters | each is several register writes, any of which may fail; setters call each other | the cached value is what the hardware has; direct sampling and offset tuning exclude each other; a frequency set before a mode change survives it |
| Open and enumeration (`librtlsdr.c` 1445-1657) | the new device | `rtlsdr_open` | libusb, the tuner probes | each error path releases what was taken |
| `rtl_tcp` (`C/rtl_tcp.c`) | `ll_buffers`, `do_exit`, two worker threads | accept loop, callback, `tcp_worker`, `command_worker`, `sighandler` | threads share the list (mutex, condition), `do_exit` (no lock) and the device | samples in order, none lost unless the list is full, none for the wrong client; sessions end and do not overlap |
| `RTLSDR_USB` and `RTLSDRHandler` (`S/`) | two `isActive` flags, the callback, a retained reference | `asyncReadSamples`, `syncReadSamples`, `stopAsyncRead`, `deinit` | client threads and the libusb callback, no lock | the flags tell the truth; a stop ends the read; samples go to the right callback |
| `RTLSDR_TCP` (`S/`) | the connection, `commandBacklog`, cached parameters, receive loops | setters, `startConnection`, `executeBacklog`, `closeConnection`, reads, `stopAsyncRead`, `init` | client threads and a serial queue, no lock | every command reaches the server in order; reads end; one loop per connection |
| Free functions and conversions (`S/RTLSDRWrapper.swift`, `S/Extensions`) | none | range checks, clamping, conversion | in front of the C calls | what passes the check is accepted by the library |
| `rtl_fm` (`C/rtl_fm.c`) | dongle, demod, output, controller, each with buffers and locks | four threads in a pipeline | condition variables per stage | no block is demodulated twice; the pipeline shuts down |
| `rtl_sdr`, `rtl_adsb`, `rtl_test`, `rtl_power` | counters, one shared buffer, a hop plan | callback and main loop, a decoder thread | one callback thread beside main | the byte budget is exact; the program ends; a frame on the air is decoded; a scan covers its range |
| Tuner drivers (`C/tuner_*.c`) | shadow registers, chosen gain, PLL state | init, frequency, gain, bandwidth | register writes over I2C, any of which may fail | the PLL's divider and fraction give the frequency asked for; the shadow is what the chip holds; the antenna input follows the frequency; the nearest gain and filter are taken |
| `rtl_eeprom` (`C/rtl_eeprom.c`) | the chip's image | read, change, write back byte by byte | `rtlsdr_read_eeprom`, `rtlsdr_write_eeprom` | what is reported as written decodes to what the user confirmed |
| `convenience`, `rtl_biast`, getopt | none that lasts | single calls | in front of the library | a search answers with the device that was meant |

### What is hard here

* **No locks where threads meet.** `async_status`, `async_cancel` and `do_exit`
  are plain variables; the Swift flags and the backlog are plain properties.
  Every test of one is a step of its own in the models.
* **Checks that are acted on later**: `rtlsdr_cancel_async` (1985/1986), the
  guards of `startAsyncRead` and `stopAsyncRead`, the three looks at
  `activeConnection` between a setter and the socket.
* **Partial failure**: one of fifteen submissions fails; transfers end with
  different outcomes; a device disappears; a connection is lost between
  `startConnection` and the first receive.
* **Lost wake-ups and time-outs**: `pthread_cond_timedwait` without a predicate,
  a semaphore with one second, two semaphores with none.
* **Reset and reuse**: `do_exit`, the list, `async_status` and `isActive` are set
  back for the next round while somebody may still write them.
* **State kept twice**: `rtlsdr_dev` caches what the demodulator and the tuner were
  told, the R82xx driver keeps a shadow of its registers, and a setter is a chain
  of transfers that may stop anywhere.
* **Arithmetic at an edge**: ratios cut to a register's bits, PLL fields that are
  packed, sums that wrap, a bandwidth divided until it fits.
* **Signals cut into blocks**: every filter of `rtl_fm` and the frame search of
  `rtl_adsb` carry state over a cut nobody chose.

`PROJECT.json` lists them as hazards, at the line where each bites and with the
properties that would show it.

## 2. How the project is built

| Layer | Modules | Question |
|---|---|---|
| The stream | `AsyncRead` (with `MCAsyncRead`), abstracted by `StreamApi` | threads against one status word and the transfers |
| Its users | `RtlTcp`, `UsbDevice`, `TcpClient`, `RtlFm`, `StreamPrograms` | sessions, flags, queues, hand-overs, shutdown |
| The device's state | `DeviceConfig` on `R82xx`, `TunerDrivers`, `Outcomes` and `Resampler`; `Eeprom` | partial failure: cached values against the hardware |
| What is computed | `Arithmetic` on `Resampler` (for `TcpCommands`), `LongDivision`, `Synthesizers`, `Gains`, `Filters`, `HopPlan`, `Spectrum`, `FmTuning`, `AdsbDecoder`, `Demodulators`, `TcpCommands`, `DeviceSearch` | operators against reference definitions |
| Proofs | `AsyncReadProofs`, `RtlTcpProofs`, `UsbDeviceProofs`, `TcpClientProofs`, `RtlFmProofs`, `ArithmeticProofs`, `DeviceConfigProofs`, `EepromProofs` | every value of the constants |

Composition: `RtlTcp` and `UsbDevice` INSTANCE `StreamApi` for the device they
use, so what they assume of `rtlsdr_read_async` is what `AsyncRead` is checked to
provide. Where the detailed module does more than the interface says (a lost
device leaves the status at CANCELING), they model that as an action of their
own. `RtlFm` and `StreamPrograms` need no more of the stream than four values
(off, running, cancelled, over) and keep those in a variable. `Resampler` is
used twice: by `DeviceConfig` for the rate a device keeps, where its result is
checked and proved, and by `TcpCommands` for what a rate means.

No module has a RECURSIVE operator; recursion is a recursive function or a fold.
What is proved, and what could be next, is in section 5.

## 3. The modules

Definitions named `Name_Variant` are mutants: plausible bugs of `Name`. They are
not part of any specification; each is there to show that a property notices it.

### AsyncRead

One reader thread, any number of `Cancellers`, one closing thread, one thread that
calls setters.

| Variable | In the code |
|---|---|
| `async_status`, `async_cancel`, `dev_lost`, `xfer_errors` | the fields of `rtlsdr_dev`; `xfer_errors` saturates at the number of transfers, the only value it is compared with |
| `rpc`, `i`, `next_status` | the reader's place in `rtlsdr_read_async` and its locals |
| `usb`, `status` | what libusb does with each transfer; the `status` field that the loop at 1939 reads (it keeps the value of the last completion) |
| `batch` | transfers that had ended when the current call of `libusb_handle_events_timeout_completed` started |
| `setter`, `taken` | the setters' thread while its control transfer handles events, and the transfer whose callback it runs |
| `cpc`, `closer` | each canceller between the test and the writes of `rtlsdr_cancel_async`; the closing thread |

`Handling` is the operator for a call into libusb's event loop: `Dispatch` runs
`_libusb_callback` for one ended transfer, `EventsReturn` ends the call. What
libusb does is external and taken from its documented behaviour: a completion
flag that is set on entry means nothing is handled; `libusb_cancel_transfer`
returns NOT_FOUND for a transfer that has ended, that is being cancelled or that
is not submitted; a cancelled transfer may be given back at once or later
(`late_abort`). The failures are switched by `Faults`: submission, resubmission,
each kind of completion, event handling, stray signals.

The callback also runs in another thread: a setter's synchronous control
transfer makes its thread libusb's event handler for as long as it waits, and
that thread then takes ended transfers of the stream (`setter`, `taken`:
`SetterTakes`, `SetterReturns`, with the constant `Setting`). While it does, the
reader's own call handles nothing. A transfer the reader frees in the meantime
is forgotten; nothing is said of what the callback does with freed memory.

Not modelled: failing allocations.

### StreamApi

The client's view of the stream, from the header's comments: `Begin`, `Cancel`,
`Return`, `Close`, `Closed` over `phase` (Idle, Streaming, Stopping) and
`device`. A cancel that finds no running stream changes nothing (the -2 of the
code). It is used in two ways: `AsyncRead!ImplementsApi` is the refinement, with
the mapping `Phase` and `Device` at the end of `AsyncRead`; `RtlTcp` and
`UsbDevice` instantiate it as their device.

### RtlTcp

`main`, `worker`, `command` and `handler` are program counters of the main
thread, `tcp_worker`, `command_worker` and the signal handler; `do_exit`,
`ll_buffers` and `curelem` are the variables of that name. A block is its
number; `made`, `base`, `sent` and `dropped` are history variables for the
properties. Calling `sighandler` is two steps everywhere: the cancel, then
`do_exit`. The wait of `tcp_worker` may time out or wake without cause; a block
appended before the wait begins wakes nobody. A client may stop reading
(`client = "full"`) and read on: to one that does not read nothing goes out, a
select times out and is tried again, and a send that found room for a part of a
block only waits without a look at `do_exit` (`worker = "blocked"`). A client
that closes only its own half of the connection and stops reading is one that is
full. Bounds: `MaxSessions`, `MaxBlocks`, `MaxSignals`.

What a command does to the device is in `TcpCommands`. Sending is a step per
block: partial sends are within `WorkerSend`.

### UsbDevice

`reads` and `stops` are each client thread's place in `asyncReadSamples` /
`startAsyncRead` / `syncReadSamples` and in `stopAsyncRead`; `usbActive` and
`handlerActive` the two flags; `callback` the thread whose closure is stored;
`retains` the references taken by `passRetained`. Any thread may call anything at
any time. Two history variables say what the calls were: `careful` stays TRUE as
long as a read is started only when nobody is in a call or beside a stream that
runs and that nobody stops (that start is refused), and only a running stream (one
whose samples have begun to arrive) is stopped; `turnedAway` counts the calls that
got past the guard of `RTLSDR_USB` and were sent back by that of `RTLSDRHandler`,
behind the retain. `rtlsdr_read_async` returns -2 at once when the stream is taken.
What the object's setters do to the device is in `TcpCommands`. Reading and
writing a Swift property is one step each; what a data race may do beyond that is
left out.

### TcpClient

Users' threads (`at`, `arg`, `kind`, `todo`) and the serial `dedicatedQueue`:
`loops` holds the receive loops, and `QueueFree` says that one handler runs at a
time. `connection` numbers the connection objects (`closeConnection` makes a
new one), `net` is the state of each. The setters are alike, so one parameter
with a few values stands for them; `backlog` holds deferred values, `wire` and
`link` are commands on the way. Four history variables: `asked` is the value the
client asked for last, `deferred` the commands put on the list, `handed` those of
them given to a connection, and `mishaps` what has gone wrong. `init` runs `testConnection` on its own queue (the
`test...` places). A setter called by `executeBacklog` is the setter again: it
may put its command back on the list that is emptied after the loop.

Network.framework is external: a started connection becomes ready unless
`timeout` lets it take longer than the second that is waited for; with `fail` a
ready connection may be lost, with `fin` the server may close it; a cancelled
connection still delivers what was sent on it, as `cancel()` (not
`forceCancel()`) does. Handing a command over and running its completion are one
step. Not modelled: a callback that starts a read (it would block the queue that
has to make it ready), `sendRawData`, `deinit`.

### DeviceConfig, R82xx, TunerDrivers, Outcomes

`dev` is `rtlsdr_dev` and what the hardware was told: `ddc` (the IF with the
crystal and the correction its register was computed from), `ratio` and `path`
for the demodulator, `chip` for the tuner's registers by the groups that are
written together, `shadow` for what the R82xx driver believes. A setter is one
step, since one thread calls them, but not one outcome: each transfer may fail,
and `Outcomes` composes the sets of outcomes as the code composes results -
`Then` for `r |= ...`, `IfOk` for `if (r < 0) return r`, `Ignore` for a result
nobody looks at. The order of the writes, and which error stops which of them,
is thus that of the code. `r82xx_write` compares with the shadow, stores, and
sends; the PLL may fail to lock. `returned` is the result of the last call.
`MaxFaults` bounds the failures of one open device. `R82xx` and `TunerDrivers`
hold one operator per entry of a driver (init, standby, frequency, bandwidth,
gain and its mode): which groups it writes, in which order, and which results it
drops. A tuner without a shadow (E4000, FC0012, FC0013, FC2580) takes what it is
sent; the E4000's driver loses nearly all of its results. The FC2580 has a
crystal of its own, which nothing corrects. A device whose tuner was not found
(`UNKNOWN`) is open too, and is used by direct sampling. The RTL-SDR Blog V4 is a
kind of its own: an R828D with a crystal of 28.8 MHz, an upconverter below it, a
notch filter and three inputs, of which the driver remembers the one it chose. Its
two bits of register 0x05 are one write, nobody hears of a failing GPIO of the
upconverter, and a group whose value after the reset equals the first value
written to it is still counted as written. The R828D and the Blog V4 choose
their input only when the PLL has a lock.

### RtlFm

`pc` is where the callback, the demodulator, the writer, the controller and main
are; `waiting` the threads inside `pthread_cond_wait`. A signal that finds
nobody waiting is lost, and a wait may end by itself. `lock` is who holds the two
locks around the two shared buffers; a buffer is a pair of halves, so that a
copy takes two steps and a reader could see the middle of it. `hits` and
`freq_now` are squelch and scan: the demodulator asks the controller to hop, and
the request is lost when the controller is busy. A signal may come at any
moment, and the device may be unplugged. The handler is one step and may run any
number of times; one that comes after `rtlsdr_close` and uses the closed device is
not followed, here and in `StreamPrograms`.

### StreamPrograms

`rtl_sdr` with `rtlsdr_read_async`, `rtl_sdr -S` with `rtlsdr_read_sync`, and
`rtl_adsb` with its decoder thread; one of them runs in a behaviour. Sizes are in
units of which `Block` make a transfer, so that a size can be smaller than,
larger than, or a multiple of a block. A transfer may be short by a unit, and so
may a write. `met` and `short` are history variables: a block has ended exactly
at the size, which leaves a count of 0 and so no limit; a transfer was short.

### Eeprom

The chip's cells, the image to be written, the configuration the user has
confirmed, and the program's place. A run reads the image (or a file, which may
be short), decodes it, changes it by any of the options, encodes it, and writes
byte by byte: a byte is read back first and skipped when it is equal, and a
failed read-back leaves the previous byte in the variable it is compared with.
Transfers fail, the program may die between two bytes, and it may be run again
on what it left. The header's nine bytes are three cells and a character is one
member of `Characters` (and its upper byte, which is 0 as in the code).

### Arithmetic and the modules under it

A behaviour of `Arithmetic` walks through the requests of one kind; each
property compares what the code computes with what was asked for.

| Module | Operators | Compared with |
|---|---|---|
| `Resampler`, `LongDivision` | the ratio of `rtlsdr_set_sample_rate` as its register keeps it, and the rate computed back (TLC's integers have 32 bits, so a product that is divided is a long division) | the rate asked for |
| `Synthesizers` | `r82xx_set_pll`, `e4k_compute_pll_params`, `fc0012_set_params`, `fc0013_set_params`, `fc2580_set_freq`, with widths, rounding and the packing into registers | the frequency, from the decoded registers |
| `Gains` | the advertised lists, `nearest_gain`, each driver's step tables | no advertised gain is nearer |
| `Filters` | band and RF filter, three IF filters, the six IF stages in two registers (E4000) | no entry of a table is nearer; stages keep what was set |
| `HopPlan` | `frequency_range` of `rtl_power`, and the bins of a row | the range is covered by hops of one supported rate |
| `Spectrum` | decimation, removal of the mean, the 16-bit `fix_fft`, averages or peaks, and `csv_dbm`'s columns of `rtl_power` | the column of a tone, by the row's own frequencies, is the loudest |
| `FmTuning` | `rtl_fm`'s list of channels and `optimal_settings` | each channel lies within its capture |
| `AdsbDecoder` | preamble, Manchester decoding, frames, in place on one buffer | the frames that were put on the air |
| `Demodulators` | rotation, decimation, demodulation, de-emphasis, resampling with their state | the same signal in one block |
| `TcpCommands` | encoding by `RTLSDR_TCP`, decoding by `command_worker`, the same setting by `RTLSDR_USB` | the two objects do the same to a device |
| `DeviceSearch` | counting and opening by index, serial or name, the search of the programs, clamping in Swift | the dongle meant |

## 4. The runs

Deadlock checking is off in every run: each of these systems may stop (a device
that is closed, a server nobody connects to, a program that has ended, a request
that is answered). What must not stop is stated as liveness.

| Run | Bounds | Shows |
|---|---|---|
| `async_faults` | 2 transfers, 1 canceller, the callback and a setter's thread, every fault but a failing resubmission | `TypeOK`, `StatusOwner`, `CloseWaits`, `FullPipeline`; `CancelReturns`: a cancelled read returns |
| `async_single` | 3 transfers, 1 canceller, a setter's thread, slow aborts, failing resubmissions | `ReadyAgain`, and `ImplementsApi` (with its liveness) |
| `tcp_server` | list limit 1, 2 sessions, 5 blocks, 1 signal, a client that stops reading, the device may be lost | `InOrder`, `NothingLost`, `QueueBound`, `SessionsApart`, `CancelledSessionEnds` |
| `usb_device` | 3 threads: 2 that read, 2 that stop, whatever they like; a callback that stops; the device may be lost; up to 3 references | `StreamIsKnown` (careful clients), `ReferencesCounted`, `StopEndsRead` |
| `client` | 1 user, 2 reads, 1 setting, a callback that stops, one kind of mishap at a time | `BacklogSent`, `LastCommandWins`, `OneLoop`, `SyncReturns`, `InitReturns` |
| `config` | R828D, Blog V4, E4000, FC0012, FC0013, FC2580 and no tuner; 20 and 450 MHz; rates of 300, 400 and 2400 kHz; 2 bandwidths, one gain (0, which the E4000 refuses), one corrected crystal, one correction; 1 failure per open device | `TunedAsReported`, `InputSwitched`, `Downconverted`, `RateAsAsked`, `OffsetFollowsRate`, `ShadowTrue` |
| `rtl_fm` | 2 channels, a squelch of 1 | `NotTorn`, `ClosedLast`, `CancelledStreamEnds`, `ScanGoesOn` |
| `programs` | blocks of 2 units, transfers of 2 or 1; sizes 0 (none), 1, 3, 4, 5, 7; recordings without a size up to 12 | `BudgetKept`, `ProgramEnds` |
| `eeprom` | an image of 20 cells, strings up to 2 characters of 2, limit 16; 2 runs of the program, 2 failures | `SuccessIsWritten` |
| `arithmetic` | ranges of frequencies and gains, the others given in `Arithmetic.cfg` | `OscillatorTuned`, `NearestSet`, `RangeCovered`, `FramesDecoded`, `BlocksJoin`, `DeviceFound`, `CommandsUnderstood` |

Why the bounds are enough.

* Two transfers are the least with "one ended, one in flight" when a cancel
  comes; three add one in the middle of the pass. A canceller and a cancelling
  callback are the least for a write after another's test; another canceller adds
  only another late writer of the same value, and the safety theorems hold for
  any number.
* The list limit 1 lets the list fill (four elements) and lose its head once with
  five blocks, and be taken in between. Two sessions are needed for anything left
  over from the first; two reads and their connections likewise in the client
  (`MaxConns` is large enough that no close is held up by it). Of the mishaps of
  `client` (slow connections, lost ones, ones closed by the server, a stop from the
  callback) one kind happens in a behaviour, any number of times; the properties
  say which kind they exclude.
* `usb_device`: two readers are the least for a start beside a stream, a third
  thread stops; three references let a call be turned away beside one inside.
* `config`: with two frequencies (another band of the mux, another input of the
  R828D and of the Blog V4, one below and one above the upconverter's 28.8 MHz)
  a stale value differs from a right one; of the rates one needs a smaller
  bandwidth and an IF of its own, one another filter, and one is refused (that
  the rate computed back is right at every rate is a theorem, not a bound). One
  failure is enough for cached and real state to differ, and later calls, of any
  number and order, act on the difference - for all tuners but the R82xx, on which
  a failure is the end of the run (`Pursued`): but for the rate, the properties say
  nothing of it from then on, and what a write does that the shadow swallows is the
  subject of `config_shadow`. The theorems have no such bound.
* `rtl_fm`: a block need only differ from the one before it (0 and 1 in turn), two
  channels from each other; a squelch of 1 is the first that counts.
* `programs`: sizes under, between and at multiples of the block; with a transfer
  one unit short every size can be met exactly.
* `eeprom`: strings of different lengths move what lies behind them; two runs with
  a crash in the first leave a mixture of two images behind for the second; a
  failing read-back and a crash are the two failures.
* `arithmetic`: the tuners' frequencies over their whole ranges in uneven steps;
  all gains in tenths of a dB; a tone in every bin of transforms of 4, 8 and 16 points, decimated by up to
  4 in every way, in a buffer of four transforms in place of 64 or more; all searches over buses
  of up to three devices with serial numbers of up to two characters; all sequences
  of two commands in every cutting into pieces.

`ReadyAgain` and `ImplementsApi` need one source of cancellation: with a failing
submission, a second canceller or a lost device `async_status` can stay at
CANCELING after the return. They also need the handling of events to work: when
it fails, the read leaves a running stream without a cancel and frees transfers
in flight. `TunedAsReported`, `InputSwitched` and `Downconverted` speak of devices
on which nothing has failed, except that the frequency of the FC tuners is right
also then; `config_shadow` shows why. In `config` the client sets the sampling mode
only without offset tuning (`Careful`). `Downconverted` names two registers that
the code leaves stale and says the rest: `rtlsdr_set_freq_correction` does not write
the DDC again where the tuner tunes, `rtlsdr_set_xtal_freq` not for a zero-IF tuner in
direct sampling. `BudgetKept` and `ProgramEnds` hold until a block ends exactly at
the size; `BudgetKept` says what that takes. `BacklogSent` promises no command that
was on the list when a connection was lost, since `executeBacklog` throws those
away. `CancelledSessionEnds` has one exception, a client that stops reading for good.

### Runs that refute a sentence of the repository

| Run | The sentence | What happens |
|---|---|---|
| `async_free` | librtlsdr.c 1962: the events left "after we just cancelled all transfers" | a transfer that had completed before the pass is submitted again by its callback and freed in flight |
| `config_shadow` | rtl-sdr.h 155: "Get actual frequency the device is tuned to." | after a failed write the shadow holds what the chip never got: the retry sends nothing, succeeds, and the new frequency is reported |

### Smaller divergences

Met while reading and modelling, without a run of their own.

*librtlsdr, asynchronous read.* Of two overlapping cancels one may write CANCELING
after the read has returned: `rtlsdr_close` then waits for ever and no read starts
again. While a setter's thread runs the callback, the reader may free the transfer
it runs for.

*librtlsdr, configuration.* `rtlsdr_set_freq_correction` retunes the tuner and
leaves the register of the DDC as the old clock gave it, so that the IF is off by the
correction until something writes it again; `rtlsdr_set_xtal_freq` does the same to a
zero-IF tuner in direct sampling (neither can be seen in what the getters return).
`rtlsdr_set_direct_sampling` with offset tuning on puts
the DDC to 0 and keeps `offs_freq`; coming back it leaves gain and bandwidth cached
that the tuner has lost. `rtlsdr_set_sample_rate` drops the results of its
bandwidth and offset calls; `r82xx_init` overwrites one of its own; a PLL of the
R82xx that does not lock is no error; the E4000's driver drops nearly all of its
results. A change of the gain mode resets the chip's gain and keeps the cached one.
`rtlsdr_set_offset_tuning` does not retune a device at or below the offset. With
a crystal corrected within the limits of `rtlsdr_set_xtal_freq`, rates next to the
documented limits (225001-225007, 299990-300000 and 900001-900031) get a ratio
whose missing bit 28 matters: a crystal of 28799000 turns 300000 into 900062. The
correction in ppm overflows its register beyond 488 and its type beyond 1953, and
does not reach an FC2580. `rtlsdr_open` leaks the device list when it finds none,
takes an unknown first device for index 0xFFFFFFFF, and ignores the results of the
tuner's init. The list of gains of the E4000 lacks values that rtl-sdr.h 204-206
documents.

*Drivers.* A PLL of the R82xx without a lock leaves the R828D's and the Blog V4's
input where it was, and the call succeeds. Below 27.66 MHz the divider of the R82xx leaves its table, and a
multiplier below 13 wraps; the FC001x divide by rounding one step outside a window;
the FC0013 refuses 948.6 to 950 MHz, and a failed read in `fc0013_set_lna_gain`
clears its choice of the UHF input; the FC2580's bandwidth is lost with the next
frequency, which sets the filter of the band again; 32-bit products wrap above 1.07 GHz (FC001x)
and 3.67 GHz (E4000).

*rtl_tcp.* A client that stops reading holds `tcp_worker` in its send, and main in
the join of a session that was cancelled, for as long as it stays connected. The list
grows to its documented limit plus three (`QueueBound` states
the bound the code has). A signal during a session ends only that session, because
`do_exit` is reset at its end. If both workers end before main is inside the read,
the stream runs on with no one to send it.

*Swift.* A start that passes the guard of `RTLSDR_USB` beside another's and is turned
away by that of `RTLSDRHandler` leaves its reference behind; after an unplug `isActive`
outlives the read. Stop and start again of a USB object can leave `isActive` true with nothing
going on; its `asyncReadSamples` holds its caller's thread although README 11 speaks
of non-blocking reads; its `stopAsyncRead` is lost when it comes before the stream is
claimed. A TCP connection that is ready after the time-out leaves the backlog
unsent (RTLSDR_TCP.swift 67); the loop of a stopped read joins the next connection
(370); `syncReadSamples` may wait for a signal nobody sends (339); a setter drops
its command when the connection closes between its two looks; `init` hangs when its
test connection fails before it is closed. `setTunerGain` of the TCP object sends
an index where that of the USB object sets a gain, and
`setIntermediateFrequencyGain` sends the code of the gain index
(both are left out of `CommandsUnderstood`); a negative correction traps over TCP
(RTLSDR_TCP.swift 119) and is passed on over USB (RTLSDRWrapper.swift 135), so that
`CommandsUnderstood` is about arguments that are not negative. The check of
the sample rate has a zero too many (32000000), `getTunerGains` returns 100
entries whatever there are, and a gain of 0 is reported as none.

*rtl_fm.* A signal between the test of a condition and its wait can hang the
shutdown, and so can one before the stream runs; a lost device goes unnoticed; a
block signalled late is demodulated twice; with `-E edge`, or an input rate above
333 kHz, a channel is wider than what is captured; captures above 3.2 MHz are
possible with `-F`.

*Other programs.* `rtl_sdr` records for ever when the size is a multiple of a block,
or a short transfer makes a block end exactly at it (the count left is then 0, which
means no limit), and writes on after a short write. `rtl_adsb` decodes from the buffer the callback
fills. `rtl_test` counts lost samples without the modulus of its counter.
`rtl_power` divides by zero for an empty range or a crop of 100 %, overflows for wide
ranges with a crop, and averages over twice the samples when it removes the mean.
Its transform with two bins multiplies by 0 (`Sinewave[N_WAVE/4]` is `Sinewave[0]`)
and shows the same in both; loud signals wrap 16 bits where they are multiplied by
the window, a boxcar's sum most of all; the filter's first window uses the sixth
sample twice; the column at 0 Hz repeats its neighbour, the last one is printed
twice, and a crop that cuts through a bin moves the columns from the header's
frequencies by one.
`rtl_eeprom` says "Configuration successfully written" over a byte whose
read-back failed when that byte equals the one before it; a file that is too short
is written all the same. A device that cannot be opened confuses the serial
numbers in `verbose_device_search`.

### Fairness

* `AsyncRead`: weak fairness of the reader's own steps, of the handling of
  events, of the setter's thread once it handles some, of each canceller inside its
  call and of close's polling loop. The device need send nothing and nobody need
  cancel. `HandlingProgress` is justified by libusb's event loop: one call works on
  a snapshot of the ended transfers and returns, and the aborts of cancelled
  transfers complete. Stray signals (`interrupted`) may come at any time but not
  for ever (`SignalsEnd`): each one restarts the loop before anything is handled,
  so an endless run of them would hold a cancelled read.
* `RtlTcp`: weak fairness of each thread and strong fairness of the five-second
  time-out, since spurious wake-ups do not go on for ever. A block goes out only to
  a client that reads, and does so when it reads again and again (strong fairness
  of `WorkerSend`). No fairness for the client, which may stop reading for ever, for
  a select to find a part of a block's room, for the signal or the device.
* `UsbDevice`: weak fairness inside calls; strong fairness of the return of
  `rtlsdr_read_async`, because only finitely many callbacks follow a cancel.
* `TcpClient`: weak fairness of threads, loops and network; strong fairness of
  "the buffer gets full" (each message brings samples) and of the ready handler,
  which waits in a first-come-first-served queue.
* `RtlFm`: weak fairness of each thread; strong fairness of taking a lock, which
  others release and take again. No fairness for the signal and for waits that end
  by themselves.
* `StreamPrograms`: weak fairness of main, of the decoder, of a synchronous read and
  of the recorder's callback (a running stream brings samples). Nothing makes the
  signal, the loss of the device or rtl_adsb's callback happen.

`DeviceConfig`, `Eeprom` and `Arithmetic` state safety only.

## 5. What is proved

By TLAPS, for every value of the constants under the named assumptions of each
module.

`AsyncReadProofs` (any `BufNum`, any set of cancellers, any faults unless said
otherwise; assumptions `BufNumAssumption`, `CallbackAssumption`,
`SettingAssumption`, `FaultsAssumption`).

* `TypeCorrect`: `Spec => [](TypeOK /\ IndexOK)`. `TypeOK` is inductive on its
  own but for the loop index, whose range needs `IndexOK` (at the places that
  use `i` as an index it is at most `BufNum`).
* `StatusOwned`: `Spec => []StatusOwner`, and `CloseIsSafe`:
  `Spec => []CloseWaits`. Both from `StatusInv`: `StatusOwner` alone is not
  inductive, because the reader writes back a local copy (`next_status`). The
  strengthening says that this copy is never RUNNING and is INACTIVE when the
  stream is set up. `CloseWaits` follows because close goes ahead on INACTIVE,
  or on a lost device. A late write of CANCELING does not contradict it: a status
  that is not INACTIVE only makes close wait.
* `PipelineFull`: `Spec => []FullPipeline` assuming that no resubmission fails:
  until a stream is cancelled only transfers that ended with an error leave it.
  `PipelineInv` adds what the setup loop has submitted so far, that an idle
  reader has no transfers, that passes run only when cancelling, and what the
  setter's thread holds. The assumption is needed: the callback ignores the result
  of a resubmission.
* `AlwaysReadyAgain`: `ReadyAgain`, and `ApiImplemented`: the safety part of the
  refinement of `StreamApi`, initial states to initial states and every step to a
  step or a stutter. Both assume `OneSource` (at most one canceller, none beside a
  callback that cancels) and `Healthy` (resubmissions may fail, signals come and
  aborts be slow, but no transfer ends with an error or the loss of the device).
  Neither can be dropped: a second canceller, or a pass that counts an error, can
  write CANCELING after the read has returned. `ReadyInv` adds that the status is
  CANCELING from the pass to the end and that a canceller past its test has found
  a stream that is still running.

`RtlTcpProofs` (any limit, any number of sessions, blocks and signals).

* `ListBounded`, `SessionsNeverMeet`: `QueueBound` and `SessionsApart`, from
  `QueueInv`: workers live only between their start and the joins, a stream runs
  only while main is inside the read, the list is empty between sessions, and the
  worker holds blocks exactly while it sends.
* `AlwaysInOrder`: `InOrder`. Instead of one concatenated sequence, `OrderInv`
  orders the three sequences a block passes through each by itself and one before
  the other, and keeps them between `base` and `made`, so that a new block is the
  newest of all and a block may leave from any place.
* `NeverLost`: `NothingLost`, from `CompleteInv`, which also covers the time
  between the start of the workers and the read.

`UsbDeviceProofs` (any threads, any split of them into readers and stoppers, with
or without a callback that stops and a device that is lost, and any calls).

* `AlwaysKnown`: `StreamIsKnown`, which speaks of clients that have been careful so
  far; without that it is false. A start beside a running stream is refused, so there
  is one reader (`OneReader`), a stop meets it after its claim and has ended the stream
  before it takes a flag away (`StopsLate`); `ReaderInv` says which of flags and
  callback the reader has set up by where it is, `LeftInv` what is left when it is
  gone. `FlagFalls`: while the device is there, a flag that is set belongs to a stream
  that runs, or to a call that is going to use or to clear it - the part that says
  that no flag outlives the calls.
* `OnlyTurnedAwayLeak`: `ReferencesCounted`, of every client. The references are
  those of the calls inside the handler (`InsideSteps`, `CountStep`: each step of
  any thread changes both sides alike) and those of the calls it turned away. That a
  careful client has none of the latter is part of the invariant of `AlwaysKnown`.

`TcpClientProofs` (any values, any number of connections, reads and settings, every
mishap): `AlwaysOneLoop`, `AlwaysSent` and `AlwaysLastWins` for `OneLoop`,
`BacklogSent` and `LastCommandWins`, under `OneUser` (one thread uses the object) and
`Patient` (a read is started after the loop of the last has ended). The object has
no lock: two users overwrite each other's backlog, and a loop of a stopped read
joins the next connection, so neither can be dropped. `LoopInv` says where the user
is while a loop lives; `NetInv` that connections are used one after the other;
`BacklogInv` that nothing is deferred behind the back of the user who sends the
list; `ListInv` that, as long as no connection is lost, what was deferred is what was
handed over followed by the list (or, while the list is being sent, by the rest of the
copy that is sent: `ListedStep`); `QuietInv`, while no mishap has happened, that no connection is closed under a
command or a loop; `ValueInv` where the last value asked for is: the last of the
list, of the commands at the connection, or of those on the link.

`RtlFmProofs` (any number of channels, any squelch): `NeverTorn` and
`AlwaysClosedLast`. `FmInv` has four parts: a thread inside a wait is at its wait;
a lock is held exactly between the two steps that take and release it (`LockInv`);
a buffer is torn only between the two halves of its copy (`BufferInv`); and main
has passed only threads that are done (`JoinInv`). A reader of a buffer holds its
lock, so no writer is between the halves.

`ArithmeticProofs` (what is computed, for every input).

* Recursion over data. The library's induction takes an operator; here it comes
  from well-foundedness instead: every nonempty set of naturals has a least element
  (`LeastNumber`), so a set that holds 0 and the successors of its members holds
  them all (`Induction`), and a function that is defined by its value at something
  smaller exists (`Recursion`). A fold is such a function over the ends of a
  sequence (`FoldRun`), and so is a search that goes step by step (`StepByStep`).
* `BudgetAlwaysKept` (any block of at least 2, any sizes, transfers that are a
  whole block or a unit short; `ProgramsAssumption`). `BudgetKept` alone is not
  inductive, because a count that reaches 0 means "no limit" to the code. `BudgetInv`
  adds that the count is not 0 while the recorder goes on and no block has ended at
  the size, and that as long as no transfer was short the count leaves the same rest
  as the size when it is divided by the block (`QuotientUnique`, `RestKept`): only a
  size without a rest can then be met.
* `DeviceAlwaysFound` (a bus of any size, any characters, texts of any length
  `Longest`): every search goes through the bus as its reference says, and the
  library's count, its index and the wrapper's list agree. `SearchInv` says only
  what a bus and a text are: the argument is in the loops.
* `CommandsAlwaysUnderstood` (any number of commands; any set of `Arguments` of 31
  bits: a negative correction traps in `RTLSDR_TCP` before anything is sent). `CommandInv` says how far the server
  has come: the first j commands are carried out (`Carries`), p bytes of the next
  are there, and the wire holds the rest (`Progress`). A piece of any length moves j
  and p along; packing and unpacking of an argument are inverse (`Division`).
* `NearestAlwaysSet` (any gain asked for, any frequency, any bandwidth, any gains of the
  stages; `StepsAssumption`). For the gains, each driver's steps and the advertised
  list are compared entry by entry, and `nearest_gain` returns an entry of the list
  than which none is nearer. For the stages, `Kept` relates the two registers to the gains
  last set: the fields of six stages are disjoint and together fill the registers.
* `OscillatorAlwaysTuned` (every frequency of each tuner's range except the FC0013's gap,
  every `vco_fine_tune`, every crystal from 28 to 30 MHz; `ClocksAssumption`).
  `TuningInv` keeps a request in its tuner's range. The long product and quotient is
  exact (`OneBitMore`, `MulDivides`), so what the decoded registers miss is the
  rounding of the fraction, less than one unit of it (`ErrorIs`). Left are the ranges:
  the dividers of the R82xx, the multipliers of the E4000 and of the FC001x cover their
  frequencies without a gap but the one of the FC0013, and in each the integer
  parts stay in their registers' fields (`R82Bounds`, `E4kMultIs`, `Fc0012MultIs`,
  `Fc0013MultIs`, `FcRegisters`, `Fc2580Parts`). Some crystal bound is needed: a slower
  or a faster one leaves those fields. The dongles have crystals of 28.8 MHz,
  corrected by parts in a million.
* `BlocksAlwaysJoin` (a signal of any length, any `Level` a byte holds, all seven
  demodulators, every cut that leaves each block a sum; `LevelAssumption`). Each filter
  of `rtl_fm` is a machine: what it keeps and what it writes depend on what it kept and
  one sample (`LowPassIs`, `DeemphIs`, `RealIs`), so it emits over two blocks what it
  emits over both (`EndsJoin`); `RawJoins`, `LinearJoins` and `FmJoins` chain the
  filters. For FM the code finds the first angle of a block by `atan2`, the others by
  the chosen approximation: the sums of one or two samples are eighths of a turn
  (`LowKeepsEighths`), so are the turns between two of them (`TurnsAreEighths`), and
  there the three ways agree (`AnglesAgree`). Each block writes at least one sum
  (`LowCount`, `LowWrites`), which the next is compared with. `SignalInv` says only
  what a signal is; the two decimations and the two resampling rates are the
  model's.

`EepromProofs` (any image size, strings, number of runs and failures):
`SuccessIsAlwaysWritten`. Its two parts have an invariant each. `WriteInv`: the cells
before `position` hold their new byte, except where the read-back of a repeated
byte failed. `ImageInv`: while the program runs the image decodes to the
configuration the user is asked about. The latter needs that encoding and decoding
are inverse (`RoundTrip`): the three strings lie behind each other (`Appended`,
`Holds`, `LaidOut`), each can be read back, and the cell that is cleared after the
last one is none of theirs, because it is even where their lengths and characters
are odd. `EepromAssumption` is the layout of the code: the strings begin behind
the header and the image is longer than the limit of their sum.

`DeviceConfigProofs` (any frequencies, rates, gains, bandwidths and crystals, any
number of failures, all kinds of tuners).

* `RateExact`: for every rate that `Fits` a crystal, the rate computed back from the
  register is the rate asked for. A two-bit long division divides (`Divides`), and
  the bits the register lacks can be told from those it has. For the nominal
  crystal every supported rate fits (`NominalFits`); for corrected crystals a few
  rates next to the limits do not (section 4), hence the hypothesis `RatesFit`.
* `ShadowAlwaysTrue`, `RateAlwaysAsAsked` (`RatesFit`) and `OffsetAlwaysFollows`
  (`Careful`): the properties of the run, from an invariant `Sound` of the open
  device. A call of a driver keeps the fields that are not its own, forgets no
  failure and keeps the shadow (`Moves`); a setter leaves a device that is settled
  again (`Settled`), whatever fails on the way. `Careful` is needed: direct sampling
  resets the DDC and keeps `offs_freq`.
* `TunedAlwaysReported` and `AlwaysDownconverted` (`RatesFit`, `FreqsFit`,
  `Careful`): `InTune` says the two of every device a setter may start from, also
  one without a rate or a frequency yet (`Tuned`, `Level`), and that the reported
  frequency is one that was asked for. A call that does not concern the tuning
  leaves it alone (`Stays`). For each tuner one lemma says what it has heard after
  a retune, for each setter another that it tunes again when it has to. `V4Moves` and
  `V4Tells` do so for the Blog V4's inputs. `Timed` says which crystal the DDC's
  register was computed from, and has a lemma per setter too (`CenterFreqTimed` to
  `DirectTimed`): each one that changes the crystal writes the register again where an
  IF is in use. The two registers the code leaves stale are not claimed. `FreqsFit`
  (every frequency lies above the offset of every rate) is needed because
  `rtlsdr_set_offset_tuning` does not retune a device at or below the offset.

TLC evaluates those hypotheses true for the constants of `Config.cfg`, where the
same properties are checked.

### Only model-checked

Liveness (`CancelReturns`, `CancelledSessionEnds`, `StopEndsRead`, `SyncReturns`,
`InitReturns`, `CancelledStreamEnds`, `ScanGoesOn`, `ProgramEnds`, the liveness of
`StreamApi`) is out of the prover's reach, as is anything about ENABLED. Two invariants of
`Arithmetic` are checked by TLC only. `RangeCovered` (`HopPlan`, `FmTuning` and `Spectrum`)
also compares the loudest column after a fixed-point transform, whose rounding errors
a proof would have to bound. `FramesDecoded` (`AdsbDecoder`) is stated with `SelectSeq`, whose
recursive definition the prover does not expand. `InputSwitched` of `DeviceConfig` is
checked by TLC only as well.

## 6. What is not modelled

* The demodulators of `S/Util.swift`; of `rtl_power` the windows other than the
  rectangle, `rms_power`, the dB and the clock: floating point. Of `rtl_fm` the fifth-order filter, the squelch
  level and the dc block, whose results depend on where a block is cut.
* Register sequences that are written once and never looked at again: FIR
  coefficients, test mode, AGC, bias tee, dithering, the tuners' calibration, I2C
  repeaters and the probes (which tuner is found is a choice of the model).
* `rtl_test` and `rtl_biast`: measurements by the clock, and one call between open
  and close. Options, formatting, printing and logging of all programs.
* `sendRawData`, the greeting of the protocol (`dongle_info`), getters that return
  a cached value.
* libusb, Network.framework and the C library beyond what the code relies on; they
  are marked external in `PROJECT.json`. Failing allocations. Getopt.
