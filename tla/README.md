# A verification project for the DTS-2500 HMI firmware

`src/DTS-2500_HMI0031` is the firmware of the operator unit (the *host*, an
STM32F407 with display, keyboard, SD card, USB stick and printer) of a machine
that compresses or bends specimens of concrete and cement until they break.  The
force is measured and the pump driven by a second board, the *lower controller*
(*PRM* in the code and here), which the host commands over UART1 and which sends
it samples.  This directory holds TLA+ models of the parts of the firmware in
which concurrency, lost messages, failing media and long sequences of legal calls
make errors hard to find by testing, the TLC configurations that check them, and
proofs checked by TLAPS.

Paths below are relative to `src/DTS-2500_HMI0031/`.

## 1. Inventory

The program is one foreground loop without an operating system, plus interrupt
handlers.  A *page* of the user interface (`APP/src/*.c`) is a function that loops
until a flag says to leave it; inside that loop it calls the communication
(`UTILS/src/cmd.c`), the file system (FatFs) and its own state machine.  All
concurrency is therefore (1) foreground against interrupt, (2) host against PRM,
over a line that loses and damages bytes, (3) foreground against the power switch,
because the files on the card outlive the RAM, and (4) operator keys against the
state machines of the page that takes them.

| Component | State | Operations | Talks to | What is hard | What makes it correct |
|---|---|---|---|---|---|
| Serial ports `BSP/src/bsp_uart.c` | two rings with index and count each, interrupt masks | `UartPutChar`, `UartGetChar`, `UartIRQ` | every user of a port; the USART | handler between any two steps of the foreground; full rings; restart of the transmitter | no accepted byte lost, repeated, reordered or left behind |
| Frame parser `Uart_GetPackageCycle` in `UTILS/src/cmd.c` | parser state, size, eight-bit write position, `g_uartPackageRxBuff` | one byte after another | receive ring of UART1, exchanges | bytes lost inside a frame; unescaped marks; a position that wraps | frames come out as sent; the parser finds back into step |
| Line to the PRM `UTILS/src/protocol.c`, `cmd.c` | last index, the one receive buffer | send a request, read a reply | frame parser, both exchanges | reused indices, late and repeated replies, a buffer written while it is being read | an index identifies its request |
| Command exchange `CmdMutualBody`, `*_pkg`, `PCM_CmdSendCycle` | `g_cmdMutual` | issue, send, time out, match | callers (tare, pump, step), line, soft timer | retries against late answers; the caller blocks | done means carried out; every command ends |
| Linking `link_cycle`, `RelinkPRM`, `PowerOnLink`, `CheckOfflineCycle` | `g_linkMutual`, `g_WritePrm`, turns without a sample | stop, sign on, check and rewrite parameters, start; notice a silent PRM | line, soft timers, PRM's parameters | lost writes, stale reads, refusals, two timeouts, a PRM that restarts | linked means parameters equal and samples on; a lost link is made again |
| Break judgement `UTILS/src/global.c` | `g_judgeBreak` | one point every five cycles | main page | criteria over rising and falling points | (input of the next row) |
| Test execution `APP/src/MainPage.c` | `g_mainPage`, `g_testBody`, `g_readReport` | keys, sample, peak display, test step, leave | judgement, reports, other pages | four state machines in one turn of the loop, keys against a starting test | every broken specimen recorded once, with its own peak |
| Test reports `UTILS/src/report.c` | a file per serial number | save, read, delete, exist | FatFs | power failure between truncation and writing; ignored results | a report only grows, and is never replaced by another |
| Test parameters `APP/src/TestParameter.c`, reports `APP/src/TestReport.c` | `pTest` | choose size and serial number; delete reports | main page | which serial numbers are free | no finished group gets another piece |
| Soft timers `BSP/src/bsp_timer.c` | a countdown and a flag per timer | start, stop, check; `SysTick_ISR` | all that waits | the handler sets what the foreground reads and clears | a timer fires once per start, never early |
| Keypad `UTILS/src/typewrite.c` | `g_key`, the key of an editor being opened | scan once per turn, `AnalogKeyValue` | soft timers, every page | contacts that bounce, keys exchanged between scans, one timer for all states | a report names a key of this press and comes at its time |
| Parameter memory `UTILS/src/pcm.c`, `prm.c`, `BSP/src/bsp_spi_flash.c`, `APP/src/initial.c`, `SystemRestore.c`, `SystemBackup.c` | three areas in RAM and flash, the user's and a dated backup on card or stick | save, read, format, back up, restore | FatFs, all pages | a flash that fails or loses power in an operation, half-written backups, half-read restores | no finished save is lost; the password survives a restore; a restore puts back a backup as it was made |
| Callers of commands `UTILS/src/global.c` | task flags, error status | tare, pump, `ExecuteTask`, re-issue of parameters | both exchanges | a refused command nobody issues again | every task is carried out or reported |
| Samples, force, speed `cmd.c`, `prm.c` | sample record, calibration table, speed ring | `smpl_cal`, `spd_cal` | main page | numeric | - |
| Report search, export, printing | - | directory walks, copies, layout | FatFs, printer port | volume, not order | - |
| Page management, start-up `PageManage.c`, `USER/main.c`, `initial.c` | next page, flag to leave | enter, leave | all pages | a page entered in the wrong state | no page entered in the middle of a group that should not be |
| Settings, login, activation, maintenance pages | field under the cursor | edit, save | parameter memory | - | - |
| Link with a PC `LinkMode.c`, `client.c` | TCP connection | lwIP callbacks | lwIP | callbacks against the loop | - |
| Display, board support, utilities | - | register access, drawing, formatting | - | - | - |
| Vendored: FatFs, lwIP 1.3.1, FWLIB, USB, start-up code | - | - | - | - | - |

`PROJECT.json` lists the same components with their sources and the state of
their modelling, and, under `hazards`, each thing that can go wrong here at the
line where it bites.

## 2. Plan

Order of work, the most important behaviour first:

1. **Serial port**: `UartFifo`, the abstract queue `ByteFifo`, proofs
   `UartFifoProofs` (done).
2. **Exchanges with the PRM**: `PrmLine` (shared by both), `CmdExchange` with the
   abstract `AtLeastOnce` and the proofs `CmdExchangeProofs`, `LinkExchange` with
   `LinkExchangeProofs`, `FrameParser` with `FrameParserProofs` (done).
3. **Test execution**: `JudgeBreak`, `TestExecution` with the reports on the card
   and what the parameter and report pages do to them, `TestExecutionProofs` (done).
4. **Timers and keypad**: `SoftTimer`, `KeyInput`, proofs `KeyInputProofs` (done).
5. **Parameter memory**: the abstract `FlashRegister`, `SpiFlash` and the proofs
   `SpiFlashProofs`; `ParamStore` on top of it and `ParamStoreProofs` (done).
6. **The link over time**: the main page's turns, a PRM that restarts and the
   re-issue of parameters, in `LinkExchange` with `LinkExchangeProofs` (done).
7. **Next**: `PcmControl`, which composes `CmdExchange` with its callers (tare, pump,
   `ExecuteTask`, error status); page navigation, with the key that meets the start of
   a test (section 6); report search and export; the text editor; the link with a PC.
8. **Proofs**: every invariant and action property that a passing run checks is proved
   (section 7).  To come: the same for the modules of item 7.

How the modules depend on one another:

```
ByteFifo  <= implemented by =  UartFifo      -- UartFifoProofs
AtLeastOnce <= implemented by = CmdExchange  -- CmdExchangeProofs
PrmLine   -- extended by CmdExchange and LinkExchange  -- LinkExchangeProofs
SoftTimer -- extended by KeyInput  -- KeyInputProofs
FlashRegister <= implemented by = SpiFlash   -- SpiFlashProofs
SpiFlash  -- extended by ParamStore          -- ParamStoreProofs
FrameParser   (bytes of the line -> frames of PrmLine)  -- FrameParserProofs
JudgeBreak -- extended by TestExecution      -- TestExecutionProofs
MCxxx extends Xxx and gives constants that a .cfg cannot write
```

No module declares a RECURSIVE operator, so all of them can be proved about.  In
each module operators marked "mutant" stand before the definition they vary; no
specification uses them.  They are the plausible mistakes with which the
properties were tested: with the mutant in the place of the definition, TLC finds
the property violated (`PROJECT.json`, `mutants`).

## 3. Modules and the code they model

### UartFifo

One port.  The fields of `UART_T` keep their names; `tcIE`, `rxneIE` are the two
mask bits `USART_ITConfig` writes, `tc`, `rxne` the flags, `shift` the byte being
sent, `rdr` the receive data register.  `UartPutChar` is the four steps
`PutCharBegin` (mask TC), `PutCharFull` or `PutCharStore`, `PutCharSend`,
`PutCharEnd` (unmask), so that `UartIRQ` can come between any two of them;
`UartGetChar` likewise.  `UartIRQ` is one step, because nothing on this port
preempts it, and serves RXNE and TC in the order of the code, each only if its
mask allows it.  `usTxCount--` is arithmetic modulo 65536.  `ShiftDone` and
`ByteArrives` are the hardware.  `ComSend` and `ComGet` are loops over the two
functions.

### PrmLine, CmdExchange, LinkExchange

`PrmLine` holds what both exchanges share: frames under way in each direction, the
next index of `protocol.c`, and the receive buffer.  A frame carries its index, a
body, and an *age*, which is not transmitted: the number of requests sent since
its own.  A frame may be lost or damaged (`LineDamages`, `uart_send_package`
ignoring what `ComSend` returns, a reply that finds no room).  One call of
`comm_cycle` or `link_cycle` reads the first `n` frames completely and perhaps the
beginning of one more; because `Uart_GetPackageCycle` writes all frames into one
buffer and `uart_check` is called on each complete one, the index and the body
that are looked at afterwards are those of the last complete frame, or of the one
begun (`uart_get_index`, `uart_get_body`).  What the line and the PRM are like is the
variable `world`, which no step changes: `lossy`, `prompt` (the PRM always answers
before the timeout of 50 ms), `sampling`.  A run names its worlds, and a property the
worlds it is about.

`CmdExchange`: `Issue` is a `*_pkg` function, the `Cycle...` actions are one call
of `comm_cycle` each, divided by the branch of `CmdMutualBody` it takes, in the
order of the code: the timeout is looked at before the reply, a reply with another
index repeats the request without being counted.  `Relink` stands for a
linking in between, as far as it concerns commands.  `sent` and `runs` count, for
the properties only, the requests for the present command and how often the PRM
has carried it out.

`LinkExchange`: `Relink...` are the loop of `RelinkPRM` (and of `PowerOnLink`,
which has the same form), `LinkSend`, `LinkMoveOn` are `LinkCmdSendBody`,
`LinkTimeout`, `LinkNoReply`, `LinkMismatch` and `LinkMatch` with one operator per
status are `LinkCmdReceiveBody`.  The parameters are a sequence of blocks; the PRM
writes and reads blocks, and may refuse the requests in `Refuses`.  `Garbage` is
what the local variable of `RelinkPRM` that nothing initialises may hold.  When it is
not linking, the host is on its main page: `Turn` is what one turn of its loop does to
the link, reading the line in `PCM_CmdSendCycle` (not at all in `LINK_UNLINK`) and
counting the turns without a sample in `CheckOfflineCycle`, which links again when
there were too many; `Relink` is the linking at power-on and after the operator has
changed parameters.  `PrmRestarts`: the PRM loses what it was sent and is silent;
`silenced` keeps for a property that it refused to send samples or was restarted.

### FrameParser

`Uart_GetPackageCycle` byte by byte: one action per state of the parser, `ring` the
receive ring that drops what it has no room for, `sending` the rest of the frame
the PRM is sending.  `curPosIndex` is an eight-bit number, `% ByteNum` here, while
`curPosIndex - 5` is computed in a wider type: the comparison with a size the
position cannot reach never succeeds.  `uart_check` is part of the step that
completes a frame, as in `comm_cycle`.  The CRC is an operator constant.

### JudgeBreak, TestExecution

`JudgeBreak` is the judgement of one channel: a point every
`ADJOIN_DOWN_POINT_NUM` cycles, the peak, the number of falling points and the three
criteria.  Forces are natural numbers; the strengths computed from them are left
out, since each is stored at the place of its force.

`TestExecution` is the loop of the main page.  `pc` follows its order: `keys`
(`MainPageKeyProcess`, one operator per key), `sample` (judgement and
`SetDynamicContentPeak`), `core` (`MainPageTestExecuteCoreCycle`, one action per
status), `open` and `write` (the two file operations of `report_save`, between
which the power may fail), `leave` (whether to leave the page), `away` (another
page).  `m` is `g_testBody`, `g_readReport` and what the test reads of
`g_mainPage` and `pTest`.  `Reload` is `MainPageReadParameter`, which rebuilds the
page from the report on the card.  `files` outlives `PowerCut`.  `Faults` says
what may go wrong: `exist` and `read` (the card does not answer), `save` (a file
cannot be opened or deleted), `write` (opened but not written), `cut` (power fails
between the two), `tare` (the tare command fails).  `loadPeak` is kept for a
property only.  The parameter and report pages are what they do to serial number,
group size and files.

### SoftTimer, KeyInput

`SoftTimer` is `bsp_timer.c`: `SysTick_ISR` with `bsp_SoftTimerDec`, starting and
stopping, which mask SysTick and are one step, and `bsp_CheckTimer`, which masks
nothing and is two, `CheckSees` and `CheckClears`.  A tick that falls into a masked
section is lost and is no step: time is what the handler counts.  `elapsed` is kept for
`NeverEarly` only.

`KeyInput` is `KeyProcessCycle` as the loops call it.  `pc` goes through one turn:
wait for the turn's timer (`TurnDue`, `TurnBegins`; dialogs and the editor do not
wait), `Scan`, the state of `g_key.status` (`FirstSeen`, `Confirm`, `NotYet`,
`LongPress`, `AfterReport`, `ShortWaited`, with the two halves of the check of the key
timer before them), and what the page does with the key.  `EditorOpens` and
`AnalogKeyValue` are the key that opens the text editor and is reported to it once
more.  Contacts close and open, and ticks come, between any two steps.  `turned`,
`confirming`, `reported` and `seen` are histories for the properties, capped at
`LongestTime`.

### FlashRegister, SpiFlash, ParamStore

`SpiFlash` is `sf_WriteBuffer` and `sf_AutoWritePage` of the serial flash, where each
area of parameters has a sector of its own.  A sector holds the set of its bits that
are 1: erasing sets all, programming can only clear, which is what `sf_NeedErase`
relies on.  `Compare`, `sf_EraseSector`, `sf_PageWrite`, `sf_CmpData` are the steps of
one attempt, `Tries` their number; an operation may do its work on a part of the bits
only (`Fails`, at most `MaxFaults` attempts of one write), and the power may be cut
before and in the middle of each.  `Reached` are the areas below `TotalSize`.
`FlashRegister` says what its callers rely on: one register per area, and a power cut
spoils no register but the one being written.

`ParamStore` extends it with the three areas in RAM and everything that loads, formats,
saves, backs up and restores them.  `pc` is what the foreground is at, `todo` the areas
its loop has still to handle.  `Load`, `FormateSystemParameter`,
`ProcessMachineMatchTestType`, `AutoBackUpSystem`, `HandlerDefaultPassword` are
`LoadSystemSetupPage` in its order; `PageSaves` is any page that changes and saves
parameters, `KeptIsSet` the password page and the activation; `SystemBackup` saves the
areas and then writes a set of files (`BackupOpens`, `BackupWrites`), `SystemRestore`
reads one (`RecoverNext`), saves and restarts.  The backup of the day is skipped when
its directory can be opened; a directory that the card fails to open counts as missing
(`CheckBackUpFileExist`, `pcm.c:525`), and its files are written again.  Before each of
them the directory is made once more, and that it exists is ignored (`DayDirectory`).
A file is whole, cut short (`Empty`) or missing; the card may fail in each operation, also
after `f_open` has emptied the file, and `f_read` may stop half way and leave a mixture.  `Kept[a]` are the bits `pcm_recover` and `prm_recover` put back: the
password, the data of the device.  `kept`, `lost`, `snapshot`, `outdated` and `unread` are histories
for the properties: no guard reads them.  `snapshot` is the RAM at the beginning of the
last backup of the day, `outdated` the files that backup found there, because it was
begun a second time, and has not opened yet.

## 4. Runs

All runs check deadlock.  Times are those of two TLC workers.

### The serial port

- `uart_fifo` (`MCUartFifo.cfg`): a send ring of three bytes and a receive ring of
  two, two byte values.  Two and three are enough for wrap-around, a full ring, a
  ring with one byte (where the foreground starts the transmitter) and a ring
  emptied by the interrupt; two values show a swapped byte.  Checks `TypeOK`, the
  agreement of indices and counts in both rings (`RingsAgree`), `NeverStalled`, that each direction implements `ByteFifo`
  (`TxIsFifo`, `RxIsFifo`) and that a finished byte is followed by the next
  (`TxProgress`).

### The exchanges

Three indices (32 to 34) and a window of three: indices wrap all the time and
are reused as early as the assumption on the line allows.  Two commands, two
or three frames under way in each direction.

- `cmd_exchange`: three worlds at once.  Lossy line, late PRM, samples:
  `IndexIdentifies`, and `SuccessMeansExecuted`, the exchange implements `AtLeastOnce`.
  Lossy line, prompt PRM, samples: `Terminates`.  No fault at all: `CarriedOutOnce`.
- `cmd_torn`: a finding, section 6.
- `link_exchange`: two blocks, a prompt PRM that may refuse and restart, lossy line,
  every initial content of the PRM's memory, a main page that gives up after two
  turns without a sample, and a `RelinkPRM` that may skip its loop (`Garbage`).
  `LinkedMeansReady`, `CheckedStaysEqual`, `RelinkReturns`, `LinksAgain`.  The two
  blocks of the host are alike, so that a reply for one block could be taken for
  one of the other.
- `link_halfway`: a finding; one block, a line without faults.

### The frame parser

Ten byte values: marks 2 to 4, and sizes of 5 and more, which the write position
never reaches, as 251 and more with 256 values.

- `frame_parser`: switched on anywhere in a frame, up to three bytes dropped
  anywhere (`MaxLost`; the ring holds two bytes, so that late polls drop some),
  bodies with every mark in them and of the greatest length.  `FramesInOrder`,
  `NoneMissed`: while nothing is lost the size alone delimits a body, so no body can
  break the framing.  `Resynchronises`: when the PRM comes to send messages without
  marks, they get through.  With marks in a body that is sent over and over this
  cannot be expected: the parser may take the same byte for the beginning again and
  again.
- `frame_stuck`: a finding.

### Test execution

- `test_peak`: three forces, groups of two, the power on.  `PeakIsOfThisLoading`:
  among every interleaving of loading, giving up, breaking, unloading and the
  delayed display, the peak recorded is that of the specimen's own loading.
  `BrokenIsSaved`: it gets onto the card.
- `test_execution`: groups of three on a table of two pages, two serial numbers;
  saves, writes and tare commands that fail, power failures at any step, between
  truncating a report and writing it too.  `ReportIsGapless`, `PageMatchesCard`,
  `PieceWithinGroup`, `OnlyContinued`.
- `test_unread`: a finding.

`PageSize` and `MAX_RECORD` are 6 and 20 in the code, and the peak stays on the
display for a time the operator sets; two rows per page reach the end of a page,
the end of a group and both at once.  Two cycles per point instead of five keep
the cycles that take a point apart from those that do not.  Each run uses one of
the three break criteria, so that each occurs: to the state machine a criterion is
no more than the moment at which a specimen counts as broken.

### Timers and keypad

- `key_input`: two keys, one of which opens the editor; periods of one to three ticks,
  so that the two timers run down in every order relative to each other and to the
  scans, and scans come both faster and slower than the periods.  `NeverEarly`,
  `OneTurnPerPeriod`, `ReportNamesSeenKey`, `ReportsArePaced`, `HeldKeyRepeats`.

### Parameter memory

- `param_store`: an area of three bits, two of them the password, and two of one bit, which
  are the data of the device in one and data a restore changes in the other;
  the flash new or in use; one change by the user, and one power cut or failure of the
  card, at any step; two failing attempts of each write.  `SavesAreKept` (the driver
  implements `FlashRegister`), `KeptSurvives`, `RestoredIsBackup`, `DatedIsOneState`,
  `BackupIsOfTheFlash`, `StartsUp`.  One mishap meets every step of every handler: a power
  cut between two files of the day, or a card that hides the directory of the day so that
  its files are written again.  That the second backup is itself cut short or fails
  takes two mishaps, more than fit into a run; this, and what several mishaps do to the
  driver and to the password, is proved.

### Bounds

`LineCap` (frames under way), `Window` (how long the line remembers), `MaxLost`
(bytes dropped), `MaxSerial` (serial numbers), `MaxChanges`, `MaxMishaps`, `MaxFaults`,
and the caps of the histories (`sent`, `runs`, `LongestTime`) are the only bounds that
are not in the code.  `MAX_KEEP_LIVE_TIME` is 250 turns there, the periods of
`KeyInput` are 20 to 500 ms in ticks of 1 ms.  `Window <= IndexNum` is an assumption
about the environment: a frame is gone before 96 further requests have been sent,
which at one every 50 ms is about five seconds.

## 5. Fairness

- `UartFifo`: a call the foreground has begun ends (`WF` of its steps), the USART
  finishes its byte (`WF`), and the interrupt, which the processor takes as soon as
  it is pending and unmasked, is served although the foreground masks it over and
  over: strong fairness for each of the two sources.  Nothing obliges the
  foreground to call or a byte to arrive.
- `CmdExchange`, `LinkExchange`: `PCM_CmdSendCycle` and `RelinkPRM` loop without a
  pause, so the branch of the cycle that stays possible is taken (`WF`); bytes on
  the line arrive; the PRM handles its oldest request; a timer that keeps running
  fires.  A timer that is started anew need not fire, hence the status in that
  conjunct.  Strong fairness for one case: a reply that arrives again and again is
  once read before the next frame begins behind it.  Without it a PRM that begins
  a sample behind every reply before the same poll could have every reply taken for
  a mismatch for ever (finding `cmd_torn`); the host polls without regard to when
  samples come, so this cannot go on.  No fairness for samples, losses or new commands.
- `LinkExchange`, besides: the main page turns its loop.  A PRM need never restart.
- `KeyInput`: the tick comes again and again and the foreground goes on (`WF` each);
  nothing obliges the operator.  That keys stay down is a premise of `HeldKeyRepeats`.
- `ParamStore`: the foreground, the driver included, goes on while there is power
  (`WF`); the user answers the dialog at the start either way, and need not do
  anything else; the power need not return.
- `FrameParser`: the PRM goes on sending, bytes arrive or are dropped, the host goes
  on polling.  Which of its messages the PRM sends is open.
- `TestExecution`: the loop keeps turning (`LoopSpec`, with the power on).
  That the machine is unloaded again and again is a premise of `BrokenIsSaved`.

## 6. Findings

Disagreements between the code and what the repository says of it, each with a run
that shows it; the quotes are in `PROJECT.json`.

- `cmd_torn` (`cmd.c:1276`): the reply that has passed the CRC check is read after
  bytes of a later frame have been parsed into the same buffer; index and body then
  belong to different frames.  The block compared in `LINK_CHECK_PRM` (`cmd.c:2032`)
  is read from that buffer in the same way.
- `link_halfway` (`global.c:1264`; `PowerOnLink` has the same at `initial.c:262`): the
  loop tests a local variable that nothing has set.  When it happens to hold
  `LINK_IDLE` nothing is sent and the link stays at `LINK_SEND_STOP`; if the PRM is
  still sending its samples, nothing notices it.
- `frame_stuck` (`cmd.c:1505`): after lost bytes, a size of 251 to 255 followed by
  the token leaves the parser collecting a body that never ends.
- `test_unread` (`MainPage.c:972`): a report that cannot be read is taken for
  missing, and the next save replaces it.

Further ones met while modelling, without a run of their own:

- `cmd.c:1266`: a reply with another index repeats the request and is not counted, so
  that with a PRM slower than the timeout the exchange never ends, although
  the comment at `cmd.c:1724` has it called in a loop until it succeeds or fails.  `Terminates` is about a prompt PRM for that reason.
- With a late PRM `CheckedStaysEqual` fails as well, by way of the torn buffer.
- A card that does not answer `report_exist` lets a finished group get one more piece
  (`MainPage.c:3098`).
- F1 in the same turn of the loop as the start of a test sets the next page, which a
  failed save in the middle of the group then leads to (`MainPage.c:2704`).
- `report_save` replaces an existing report, which the main page relies on, contrary
  to the comment at `report.c:11`.
- A restore that fails leaves in the RAM what it had read, and the next page that
  saves that area saves it (`SystemRestore.c:982`).  The password is not affected
  (`KeptSurvives`).
- A file cut short, or an `f_read` that fails, counts as read, and the user is told of
  a successful restore (`pcm.c:288`); `RestoredIsBackup` leaves such files out.
- `initial.c:197` says of the dated backup that it is not made again on a day that has
  one.  It counts as made when its directory can be opened, so one that was interrupted
  is not completed; and every failure of `f_opendir` counts as its not existing
  (`pcm.c:525`): the result of `f_mkdir` is overwritten (`pcm.c:393`, `prm.c:1573`,
  `prm.c:1626`), `FA_CREATE_ALWAYS` empties the files, and they are written from the RAM of
  this start.  If the power fails or a file cannot be opened in that second backup, the
  directory holds files of two starts, which a restore then takes for one backup.
  `DatedIsOneState` excepts the files that the second backup has not opened.
- Each of the three functions that write the dated backup reads the date itself
  (`pcm.c:389`), so one made across midnight is split over two directories; the model has
  one day.
- `prv_recover` carries the comment that the password has to be kept, and keeps
  nothing; its area holds none (`prm.c:1677`).
- A power cut while a new flash is formatted may leave some areas blank and others
  not; the next start asks to format only when all are blank.
- The smallest chip, W25Q80DV, is given a `TotalSize` of 8 KB where its comment says
  1 MB (`bsp_spi_flash.c:723`): the third area lies above it and would be neither
  written nor read.  The proofs hold for every `Reached`.

## 7. Proofs

`UartFifoProofs` proves, for all sizes of the two rings below 65536
(`SizeAssumption`) and any set of bytes (`BlankAssumption`):

- `TypeCorrect`, `RingsConsistent`, `TransmitterNeverStalls`.  None of these is
  inductive alone.  `IInv` adds what the masking guarantees: TC is masked from the
  test for a full ring to the end of the call, RXNE exactly while a byte is being
  taken, and at `PutCharSend` a count of one means that the USART is at rest, because
  the handler cannot have counted a byte off since the store.
- `ReceiveIsFifo`, `TransmitIsFifo`: under `IInv` every step maps to a step of
  `ByteFifo` or to a stutter.  The queue of the send direction is the byte being
  sent followed by those that wait, so `PutCharSend` and `UartIRQ`, which move a byte
  from the ring to the shift register, leave it unchanged.  The lemmas say which
  slots of a ring a queue occupies (`SlotRange`, `TxStepFacts`) and how a sequence
  changes at either end (`IsAppend`, `IsTail`, `SeqInFront`).

`CmdExchangeProofs` proves, for any set of commands, any range of indices and any
window not longer than the range (`IndexAssumption`, `LineAssumption`,
`CommandAssumption`):

- `TypeCorrect`, `IndexIsIdentity` (`IndexIdentifies`) and `DoneMeansCarriedOut` (the
  exchange implements `AtLeastOnce`).  `IInv` has four parts: the index of a frame is
  the one as many requests back as its age says (`LineIInv`); the types; in `CMD_RX`
  the expected index is the last one, and a command is done only if it was carried
  out (`HostIInv`); and a reply to one of the requests for this command exists only
  if it was carried out (`ReplyIInv`).  The arithmetic of a reused index is in
  `IndexArithmetic`; one lemma per way in which the frames under way change
  (`AgedFrames`, `UnreadFrames`, `TakenFrames`, `PutFrames`, `DamagedFrames`) keeps
  the proof of each action short.
- `FaultlessMeansOnce` (`CarriedOutOnce`).  `OnceInv`: without faults one frame is under way
  while the host waits and none otherwise, the request that has not been carried out or
  the reply to the one that has, and either keeps the timer of a prompt PRM from firing.
- `PromptReplyIsOfThisCommand`: `StatusIsOfThisCommand`, which the run `cmd_torn` violates,
  holds if the PRM is prompt and sends no samples meanwhile, also on a line that loses
  and damages frames.  `PromptInv`: only the last frame of a direction can be whole, and
  it belongs to the request the host waits for, so no frame begins to arrive behind an
  accepted reply.  The run reaches its violation with a late PRM; the theorem says that
  nothing short of a late PRM or samples can.

`LinkExchangeProofs` proves, for any parameters of the host and the PRM, any range of
indices, any line and any set of requests the PRM may refuse (`HostPrmAssumption`,
`BodyAssumption`, `RefusesAssumption`):

- `LinkTypeCorrect`: the types and bounds of `TypeOK`.  `TypeInv` adds that while it links
  the host has attempts left and waits only for what it has asked, and that it rewrites
  a block that there is.
- `CheckedBlocksStay` (`CheckedStaysEqual`) and `LinkIsReady` (`LinkedMeansReady`), if all
  PRMs answer within the 50 ms of the timer (`AllPrompt`).  `SoundInv` says why: at most
  one request or reply is under way, it is the one the host waits for, and what it
  says of the PRM is still so (`LineInv`); hence what the host believes of the blocks
  before the current one, and of the samples once it is past the start, is true
  (`KnownInv`).  The assumption is needed: TLC finds `CheckedStaysEqual` violated by a PRM
  that answers late, because the data compared are those of whatever reply is in the
  buffer and do not name their block.
- `LinkingEnds`: unless `Garbage` holds `LINK_IDLE`, the host is away from its linking only
  with a link or known to have none (`Settled`).  So the finding of `link_halfway` has no
  other cause than the variable that nothing has set.

`FrameParserProofs` proves, for any marks, check bytes, number of values of a byte (more
than eight), size of the ring, number of bytes lost and set of messages whose frames
fit (`MarkAssumption`, `CrcAssumption`, `MessageAssumption`, `BoundAssumption`; the code has
`ByteNum` = 256, and no message of the protocol is longer than 248 bytes):

- `ParserTypeCorrect`: the types, for every stream of bytes, damaged ones included.
- `FramesComeInOrder` (`FramesInOrder`) and `NoFrameIsMissed` (`NoneMissed`).  Neither is
  inductive: what keeps a mark in a body from being taken for one is that the parser
  knows where it stands.  `WholeInv` says that, while nothing is lost, the bytes to come
  are the frames of the outstanding messages less what has been read of the first
  (`Framed`, which names where each frame stands in the stream), and that state, size and
  buffer agree with what has been read (`Knows`).  One lemma moves the frames along the
  stream when a byte is read (`OneByte`), when a frame ends (`OneFrame`) and when one is
  sent (`OneMore`); one per group of states says what the parser then knows
  (`ReadsHead`, `ReadsBody`, `ReadsEnd`).

`TestExecutionProofs` proves, for any forces, criterion and thresholds of a break, sizes of
groups and of a table page (`ForceAssumption`, `TargetAssumption`, `SizeAssumption`,
`ThresholdAssumption`, `BoundAssumption`) and at least two main cycles per point (five in
the code; with one the display would lag behind the judgement):

- `RecordedPeak` (`PeakIsOfThisLoading`) and `NoGapInReports` (`ReportIsGapless`), whatever
  fails.  `IInv` has two parts besides the types and the files.  `Counted`: the number of
  pieces is one ahead of the report exactly from the break to the recording, and after a
  test one thing is to be recorded, a broken piece, a cancelled one or the end of the
  group.  `PeakInv`: while a specimen is loaded the display is behind the judgement by at
  most the cycles in which no point can fall (`Following`), hence level with it when a
  criterion is met; from the break on both stand still.
- `GroupIsNotOverrun` (`PieceWithinGroup`), `PageShowsCard` (`PageMatchesCard`) and
  `ReportsGoOn` (`OnlyContinued`), if the card answers (`CardAnswers`: `exist` and `read`
  are not among the faults; saves, deletions and the power may fail).  `RightInv` says
  that the card holds the report of the page (`Matches`) but after a failed save or
  deletion, when the page is left; that a report complete on the page is complete in its
  count (`ReportOK`); and that what is about to be written continues what is there.
  With those faults a group can get one piece more (hazard at `MainPage.c:3098`).
- `ExecutionTypeCorrect` (`TypeOK`), from both: `TypeInv` types everything but the counts of
  pieces, whatever fails; that these stay within `MAX_RECORD` is no matter of types but
  follows from `RightInv`, and needs a card that answers.

The reloads of the page, which call each other up to four deep within one step, have a
lemma each (`ReloadFacts`, `CheckShows`, `UpdateShows`, `AreaShows`, `TurnedShows`, and with
`Right` for `Shows` what they do to the card's report), and so have the three ways of
recording (`Cancelled`, `Ended`, `RecordedPiece`).

`KeyInputProofs` proves, for any timers, keys and periods (`TimerAssumption`,
`KeyAssumption`):

- `TimersNeverEarly`, for `SoftTimer` under any use of its timers: `TimerInv` adds the
  types to `NeverEarly`.
- `KeypadTypeCorrect` (`TypeOK`): `KeyTypes` holds the types of the keys, the states and the
  places of the program, and that the two times kept for the properties, `confirming` and
  `reported`, stay within `LongestTime`.
- `TurnsNotAhead`, `ReportsNameSeenKeys`, `ReportsKeepTheirTimes`, for `KeyInput`, from
  `KeyInv`: a turn whose timer is seen but not yet cleared has not been counted
  (`TurnInv`); what is recorded has been seen (`NameInv`); and, in each state, the period
  the key timer was started with and how long ago that was, so that its flag means the
  time of that state has passed (`PaceInv`, `FlagMeansTime`).

`SpiFlashProofs` proves `FlashKeepsSaves` (`SpiFlash` implements `FlashRegister`), for any
areas, bits and numbers of attempts, if the chip fails in fewer attempts of a write
than the driver makes (`FlashAssumption`), and its types (`FlashTypeCorrect`).  `IInv` adds to the types how attempts and
faults count each other (`CountersOK`) and the reason why the driver may decide once
whether to erase (`AttemptOK`): in an attempt without a fault no bit the data needs has
been cleared when it programs.

`ParamStoreProofs` proves `PasswordSurvives` (`KeptSurvives`) and `StoreKeepsSaves`, that
all of the program is a user of the flash as `FlashRegister` promises it, for any bits
of the three areas, any orders of at most three areas in which pages save
(`StoreAssumption`; the longest is that of `ModelSelect.c:883`), any number of changes, mishaps
and faulty attempts.  `KInv` says where the data to keep are while they are being saved: in
the RAM from the moment they are set, in the flash once their save has ended, and in
the write in between; `StoreStep` carries it together with `IInv` of the driver.

For the same constants it proves:

- `StoreTypeCorrect` (`TypeOK`): `StoreTypes` adds the places of the program, the files of
  the backups, the history variables, and that no list of areas still to be worked off
  (`todo`) is longer than three.
- `DatedBackupIsOneState` (`DatedIsOneState`): the files of the day come from one start,
  but for those that a repeated backup found and has not opened (`outdated`).  `DatedInv`
  adds that while the files of the day are written the RAM is what it was when that
  backup began, that a file is written only below an existing directory, and that without
  the directory there are no files.
- `BackupsAreOfTheFlash` (`BackupIsOfTheFlash`).  `SyncInv` says where the flash has to be
  what the RAM is, from a load to the backup of the day and from the saves before a
  backup or after a restore to their end, but for the areas whose save is pending or
  under way; `WritesRam` says that such a save writes what the RAM holds.
- `RestoredBackupIsWhole` (`RestoredIsBackup`).  `RestoreInv` says that every area a
  restore has handled without reporting a failure holds what its file says, if that
  was whole and read to its end, and that from there on all areas come from the files
  of one place.

Only model-checked: liveness (`TxProgress`, `Terminates`, `RelinkReturns`, `LinksAgain`,
`Resynchronises`, `BrokenIsSaved`, `HeldKeyRepeats`, `StartsUp`), because temporal
reasoning with fairness and ENABLED is out of the prover's reach, and the properties of
the runs that expect a violation.  Induction over data (a theorem schema with an operator
parameter) and RECURSIVE operators are out of its reach as well; the models use
neither.

## 8. Not modelled

Most of the repository's lines cannot be modelled to any purpose.  Of its 260,000
lines of C almost three quarters are third-party: the code page tables and the core of
FatFs (37,000), lwIP 1.3.1 (62,000), the STM32 register headers and peripheral library
(67,000), the USB library (27,000).  They appear as the results their callers handle, or
not at all.  Of the 67,000 lines of the program's own most lay out and
draw pages, format numbers and edit fields, without shared state.  What has control worth checking is a small part: the
serial port, the exchanges, the timers, the parameter memory and the test.

- Floating-point data: the calibration table, the speed ring, strengths.
- The callers of commands (tare, pump, `ExecuteTask`): planned, section 2.
  `SendChannelTareCmd` issues its command once and then only polls, so a refused tare
  ends by its timer and is reported; `TestExecution` takes both results.
- Pages that are forms, the display, the characters of the text editor, formatting,
  printing and board support: no shared state and no order of steps that a model would
  tell apart.
- The exchanges take a timer to be stopped, running or fired; that a soft timer is no
  less is shown by `NeverEarly`.
- The settings pages do not poll the PRM; only the main page and the calibration of
  the force do, and the latter's loop is that of the former as far as `Turn` goes.
- A second test channel: the judgement is that of the channel in use.
- Signals on the wire below a byte, and USART errors other than an overrun.
