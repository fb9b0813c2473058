# TLA+ models of Mbed-Jeep

Mbed-Jeep is the firmware of a small car computer: an LPC1768 with a GPS receiver on a
UART, a 4x4 matrix keypad, a DS18B20 thermometer on a 1-Wire bus (of which the only call
is commented out, `main.cpp:219-228`) and a 20x4 character display. It has no operating
system. `main()` (`src/main.cpp`) runs an endless loop, and everything else happens in
interrupt handlers: bytes of the receiver (`GPS::rx_irq`), a 10 ms ticker
(`GPS::ticktock`), optionally a pulse-per-second input (`GPS::pps_irq`), and the rows of
the keypad (`Keypad::_checkIndex`). The program never disables interrupts and never
changes a priority, so a handler may run between any two instructions of `main`, and no
handler is interrupted by another one.

This directory holds TLA+ modules of the parts in which this can go wrong, the TLC runs
that check them on small instances, and proofs that the TLA+ proof system checks for
every value of the constants. `PROJECT.json` maps every definition to the lines it was
translated from.

## 1. The system

### Components

| Component | State | Operations | Module |
|---|---|---|---|
| GPS driver, `MODGPS/GPS.cpp` | two line buffers, active buffer, write index, last byte, `process_required`, the three parsed objects, the RTC | `rx_irq`, `ticktock`, `pps_irq` | `GPS` |
| Parsers and the clock, `GPS_Time`, `GPS_Geodetic`, `GPS_VTG` | the fields of each class | `nmea_rmc`, `nmea_gga`, `nmea_vtg`, `operator++()`, `operator++(int)` | `Nmea`, `GPS_Time`, `GPS` |
| Snapshots for `main` | local copies in `geodetic`, `vtg`, `timeNow` | copy, compare, retry | `Snapshot` |
| The clock over the seconds: ticker, sentences, PPS, RTC, copies | `theTime`, the RTC | `ticktock`, `pps_irq`, `timeNow` | `Timekeeping` |
| Keypad, `keypad/Keypad.cpp` | column outputs, row interrupts, the scan | `Start`, `Stop`, `_checkIndex`, the callback | `Keypad` |
| Main loop and menus, `main.cpp`, `menu.c` | `Index`, `firstPressed`, `i`, `gpsFixflag`, `firstExecflag`, the display | the `switch`, the GPS screen, `ScreenLoadinggps` | `Panel` |
| 1-Wire search, `OneWire/OneWireCRC.cpp` | `address`, `searchJunction`, `searchExhausted` | `search`, `resetSearch`, `crc8` | `OneWire`, `WaterTemp`, `Crc8` |
| Thermometer, `OneWireThermometer.cpp`, `DS18B20.cpp`, `temperature.cpp` | remembered resolution; scratchpad of the sensor | `initialize`, `setResolution`, `readTemperature`, `getTemp`, `tempMode`; no caller in the program | `Thermometer`, `WaterTemp` |
| Display driver, `TextLCD/TextLCD.cpp` | cursor, mode, current controller, `_lcd_bus`; the two HD44780 | `putc`, `locate`, `cls`, `setCursor`, `setMode`, `setUDC`, `setBacklight` | `Terminal`, `TextLCD`, `LcdBus` |
| Alarm and buzzer, `alarms.cpp`, `beep/` | PWM, a `Timeout` | `beep`, `nobeep`, `masterAlarm` | not reached |
| `DS18S20`, `DebugTrace` | none that matters | | not modelled |
| mbed SDK and CMSIS, `mbed/` | vendored | | external |

### Interactions

    receiver --UART--> rx_irq --line, process_required--> ticktock --> theTime, thePlace, theVTG, RTC
                                                             ^                |
                                  keypad handler holds both --'                | copied without a lock
    keys --> _checkIndex --Index--> main loop <-------------------------------'
    sensor <--1-Wire--> tempMode, getTemp (no caller: main.cpp:219-228 is a comment)
    main --calls--> TextLCD --bytes, I2C writes--> port expander --RS, E, D4-D7--> HD44780

* `rx_irq` and `ticktock` share the two line buffers and the flag `process_required`.
  `rx_irq` writes the *active* one, and `ticktock` parses the other one in place, with
  `strtok`.
* `main` copies the parsed objects while `ticktock` and `pps_irq` replace them.
* The handler of the keypad waits 30 ms for the contacts to settle. Nothing else runs
  meanwhile: the 16-byte FIFO of the UART overflows and ticks are merged.
* The callback of the keypad only stores `Index`; `main` finds it in its next pass.
* The 1-Wire slots are timed by busy waiting, so any handler may garble a transfer.
  `main.cpp` creates the thermometer (line 45), but calls neither `tempMode` nor
  `getTemp`: the call at line 225 is commented out. The modules of the thermometer and
  of its bus say what that call would get, from a main program with these handlers.
* `ticktock` sets the real-time clock from `theTime`, that a sentence, a PPS edge or the
  tick itself has changed last.
* Only `main` uses the display. The driver never reads it back: what it believes of the
  controllers is right only if every byte has arrived.

### What is hard here, and what makes each part correct

* **GPS driver.** Interleaving of bytes, flips of the buffers and ticks; buffers that
  are never cleared and have no terminator; lines merged by lost bytes; fields that are
  empty. Correct means: a line survives until it is parsed; each sentence is applied at
  most once, and whole; no text of another line gets into it; the clock is only ever set
  to a time that the receiver has reported as valid; the driver recovers by itself.
* **Clock.** Carries at the ends of minutes, days, months and years; three sources of
  time (ticks, sentences, edges) in an order that varies, each of which may be missing.
  Correct means: no second is counted twice, a time shown as valid is the current one,
  and the real-time clock is never set to an old one.
* **Snapshots.** A copy is one that existed, and work is repeated only for a reason.
* **Display.** Rows whose addresses do not follow each other, fifteen address maps, two
  controllers on one panel, four bits at a time over a bus on which a write may fail, a
  controller that a restart finds in any state. Correct means: each character appears
  at the cursor and nowhere else, one cursor is shown, and a start always recovers.
* **Keypad.** Contacts move between any two steps of the scan. Correct means: the index
  is in the table, it belongs to the key held if nothing moves, and no path through the
  handler leaves the keypad deaf.
* **Main loop.** The flags for clearing the display are set in one pass and used in
  another one. Correct means: what can be read belongs together, old data disappears
  when the fix does, and every key is served.
* **1-Wire search.** Each search continues from the junction that the one before left
  behind. Correct means: each search finds a device that is there, not one that was
  found before, and the search ends when all were found. No address is accepted that
  stretched slots or a short have put together.
* **Thermometer.** Transfers fail, sensors lose their power, are exchanged or shorted.
  Correct means: after whatever went wrong an undisturbed call is right again, and a
  call returns as long as there is a sensor.

All hazards are listed with their lines in `PROJECT.json`. A hazard that no property
would catch is listed without one, with the reason.

## 2. The modules

### `Nmea`, `GPS_Time`, `GPS`, `GpsFeed`, `MCGPS`

`Nmea` abstracts a byte to a *cell*: an address, a field text or a checksum is one cell;
commas, line feeds, NULs and inserted zeros are cells of their own, because the code
tells them apart. `Line` is what the receiver sends, and `Token` and `Strtoked` are what
`strtok(p, ",")` finds and writes. `GPS_Time` holds the pure operations of the clock.

`GPS` has one action per handler:

| Action | Code |
|---|---|
| `Transmit`, `UartIn`, `UartOverrun` | the receiver, the wire and the FIFO (external) |
| `KeypadEnter`, `KeypadLeave` | `_checkIndex` as seen from here: nothing else runs in between |
| `RxIrq` | one turn of the loop of `rx_irq` (GPS.cpp:206-237) |
| `Ticktock` | all of `ticktock` (GPS.cpp:127-190) with the parser it calls |
| `PpsIrq` | `pps_irq` (GPS.cpp:192-204) |

The two buffers are one memory, since `buffer[0]` and `buffer[1]` are adjacent and
`strtok` does not know where the first one ends. `days[month - 1]` outside its array is
a choice over whether the day exceeds what is read. A NULL token is read as a NUL, as
the flash at address 0 is. `wrapped`, `raw` and `lastLine` are history variables.

`GpsFeed` is the abstract specification: a mailbox that holds the latest complete line.
A line that is exactly a sentence is applied at most once and sets the fields of its
kind to the texts of that sentence; of a damaged line nothing is promised. It knows no
buffers, commas or tokens. `ImplementsFeed` is the refinement (`INSTANCE GpsFeed WITH
line <- raw, mail <- lastLine, ...`; the fractions of a second are hidden).

### `Snapshot`, `Timekeeping`, `MCTimekeeping`

`Snapshot` is the loops `do { copy } while (differs)` of `GPS::geodetic`, `GPS::vtg` and
`GPS_Time::timeNow`, one word per step; a handler replaces the object between any two.
`MaxIrqs = 1` is what the rates allow: the ticker fires every 10 ms and an attempt takes
a few microseconds, and handlers that wait for each other run back to back, before
`main` continues. With two updates in one attempt `NotTorn` is false (the object may
change and change back); this is a limit of the code's method and not of the model.

`Timekeeping` extends it and `GPS_Time`: here the object is the time that the handlers
really keep. The world is a calendar of successive seconds, a tick count and what the
receiver says of each second.

| Action | Code |
|---|---|
| `SecondBegins` | the edge of the PPS input: `pps_irq`, if attached; just before or just after the tick at the end of a second |
| `TickOnly`, `TickTold`, `TickNotTold` | `ticktock` without a `$GPRMC`, with one that tells the time, with one that is void or has lost its end; each ends with the test for `set_time` |
| `Lost` | the sentence of a second does not come (external) |
| `MainCalls`, `MainCopies` | `main` copies the time or the position (`geodetic`), as in `Snapshot` |

`rtc` is what `set_time` was given last and the tick at which it was; `Truth(s)` is the
time of second `s` in the calendar.

### `Terminal`, `TextLCD`, `LcdBus`, `MCLcd`

Three levels. `Terminal` is what a caller may rely on: a grid of characters, a cursor
that moves as on a terminal and is shown at most once, calls that act at once.
`TextLCD` is the class `TextLCD_Base` for all fifteen panels: a call changes the cursor,
the mode and the current controller, and appends the bytes it sends to `out`; `Deliver`
hands the next byte to its controller. `LcdBus` is `TextLCD_I2C`: one action per I2C
write, which changes the lines of the port expander and clocks four bits on the falling
edge of E.

| Action | Code |
|---|---|
| `Putc`, `PutNewline` | `_putc`, with the address it sends at its end |
| `Locate` | `locate`, `setAddress`: clamped arguments |
| `Cls`, `SetCursor`, `SetMode`, `SetUDC`, `SetBacklight` | the methods of these names |
| `Start` (`Restart` in `LcdBus`) | the constructor and `_init` after a reset, with the controllers in any state |
| `Write` | `_i2c->write` in `_setRS`, `_setEnable`, `_setData` |
| `LoseWrite` | the same, not acknowledged; the driver does not look at the result |
| `SwitchLight` | `_setBL` |
| `Deliver`, `Noise`, `Garble` | a byte that arrives; a controller not yet in 4-bit mode; a fault |

The controllers (`Execute`, `Take`, `Clocked`) are external: they follow the data sheet
as far as the driver's comments do. While a write changes several lines a controller
whose E falls may read the old or the new ones. The E2 line is the RW pin of the
program's own module; for its LCD20x4 it stays low.

`ImplementsBytes` is the refinement of `TextLCD` by `LcdBus` (they share variables, so it
is `TextLCD!Spec` itself): every byte arrives once, in order, or a fault was noticed by
the history variable `intact`. `ImplementsTerminal` maps the memory of the controllers,
as it will be when `out` is empty, through the address maps to what one sees.

### `Keypad`

Columns, contacts and the latched row interrupts. `Enter`, `Bounced`, `Settled`,
`Write`, `Read` and `Report` are the steps of `_checkIndex` between which a contact can
move. `Latch` raises the interrupt of every row that rises; one that rises while the
handler runs may be kept or lost with the flag that is cleared. `Stop` switches every
other column off, as its double increment does.

### `Panel`

The loop of `main.cpp`. A row of the display is the set of texts of which something can
be read: a text printed from column 0 hides the texts that are not longer. All data of
one line is the same text, so that digits which longer data has left behind newer data
count as data, and `DataScreenClean` is about the texts of other screens. Handlers
change `Index` and `quality` between any two steps. `shown` and `polls` are history.

### `OneWire`, `Thermometer`, `WaterTemp`, `Crc8`

`OneWire` is `search` bit by bit: `ReadBit` and then one of `Vanished`, `Agreed`,
`OtherBranch`, `SameBranch`, `NewBranch`, the branches of the loop. Devices come and go
between any two bits. `Thermometer` is `getTemp` (not called, section 1): each transfer is
an action that succeeds, is not heard, is garbled, or reads zeros from a shorted line; its
`Initialize` stands for a search that has found the sensor.

`WaterTemp` puts that search in its place, slot by slot, with the one device on the line
that the program expects (`OneWireThermometer.cpp:93-97`): `ReadBit`, `ReadComplement`,
`WriteBit`, and `Accept` or `Reject` for what `initialize` makes of the address. `OneWire`
has the search among several devices; here it is the line that fails. A handler may
stretch any slot: the bit is read too late and is a one, it is written as a zero, or the
slot is as long as a reset, the device leaves the search and answers with a pulse that
the next readings take for bits. `WaterTemp` implements `Thermometer`
(`ImplementsThermometer`), and only the address of the sensor is accepted
(`AcceptedIsReal`) if words with a right CRC differ in enough bits. That they do is what
`Crc8` is for: its assumptions, which TLC evaluates, say that the table is the
polynomial, that it is linear, that a word of zeros has a right CRC and one of ones has
not, and that no one or two wrong bits of an address or of a scratchpad go unnoticed.
For scratchpads the CRC is otherwise idealized: in `Thermometer` it always tells.
(The comment in front of `reset()`, `OneWireCRC.cpp:100`, has its result the wrong way
round; the function and its callers agree that 1 is a presence.)

## 3. The runs

| Run | What it shows |
|---|---|
| `gps_serial` | Sentences with and without empty fields come in against a ticker that may be early or late. `PassiveHoldsLine`, `ValidTimeInRange`, `RtcReported`, and the driver implements `GpsFeed`. |
| `gps_overrun` | The keypad holds the processor once, at any byte; a byte is lost and lines merge; PPS edges come in between. `LineTerminated`, `ParseStaysPassive`, `ImplementsFeed` still hold, and a sentence that came in whole is applied (`SentenceIsApplied`). |
| `gps_year_end` | *Violation.* `PulseIsOneSecond`: the edge after the last second of December makes month 13. |
| `gps_wrap` | *Violation.* `ActiveUntouched`: merged lines fill `buffer[0]`, and `strtok` runs on into the buffer that is being filled. |
| `timekeeping` | Four seconds around midnight (end of February with and without a leap day, end of September) and noon, with one sentence lost, void or cut, PPS or none, and one copy at any moment. The time shown is true (`ShowsTrueTime`, `ShownTimeIsTrue`), the RTC is never set to an old time (`RtcIsRecent`), copies are whole (`NotTorn`) and repeated only for a reason (`RetriesOnlyIfDisturbed`). |
| `lcd` | All calls on fourteen panels, write by write, with a write lost or a restart at any of them. `AddressFollowsCursor`, `InStep`, and both refinements: `ImplementsBytes`, `ImplementsTerminal`. |
| `keypad` | `Listens`, `InTable`, `SteadyKey`, `KeyAnswered`. |
| `panel` | `DataScreenClean`, `DataNeedsFix`, `StaleTimeGoes`, `KeyServed`. |
| `panel_wait` | *Violation.* `FixIsShown`: the wait for a new fix waits while there is one. |
| `onewire` | `FoundIsDevice`, `NextIsNew`, `AllAreFound` for up to three devices. |
| `onewire_four` | *Violation.* `NextIsNew` with four devices, of which 011 is buried (section 4): the search returns a device twice and never ends. |
| `thermometer` | `UndisturbedIsRight`, `HotIsAlarmed`, `CallReturns` with the search slot by slot; `AcceptedIsReal`: no address but the sensor's is taken; the whole implements `Thermometer`. |

The four violations are disagreements between the code and its own comments; they are
described under `findings`. Deadlock is checked in all passing runs but `timekeeping` and
`lcd`: these end where their bounds do (the calendar, the calls), and nothing else.

### Bounds, and why they are enough

* *GPS.* The longest sentence has 27 cells with its zeros, so that `BufLen = 30` holds
  every line that is alone, as 128 bytes do. In the runs that lose bytes the lines have
  19 cells. Two of them that were merged fit into the 50 of `gps_overrun` and do not fit
  into the 30 of `gps_wrap`; both happen with the 128 bytes of the code. `FifoLen = 2`
  and `HoldLen = 3`: the FIFO overflows by one cell, enough to lose a line feed, an
  address or a comma. `Radix = 1`: no fractions of a second. Fractions
  only delay the moment in which the RTC is set; with `Radix = 1` it is set in every
  tick of a full minute, the most frequent case. `MaxPresses` and `MaxPulses` bound how
  often the keypad holds the processor and how many pulses arrive. The receiver may send
  any sentence of the set at any time, so old text of every kind is in the buffer when a
  line comes in.
* *Timekeeping.* `Words = 3`: date, time of day, fraction and status, so that a copy can
  be torn at each of the carries that matter; for objects of every size there is the
  proof. `Radix = 2`: a second has four ticks instead of 100, with a carry and a wrap.
  `Late = 3` is the latest tick of a second; `MaxMissed = 1` a sentence lost, void or
  cut, which lets the drop of the carry come by a second time. The calendars have four
  seconds: two around the carry, one in which the clock may be set again, one after it.
  `MaxCalls = 1` copy. The bound in `RtcIsRecent` is tight: TLC finds it violated with
  one tick less. The calendars avoid the end of the year, which `gps_year_end` shows to
  fail, and 10 * 10 ticks differ from 2 * 2 only in how long a fraction is.
* *LCD.* All panels but the LCD16x2B, of which the source itself says that its addresses
  seem wrong (`CellsInMemory` says where they lie). `Places` are the corners, with
  arguments that are outside on each side. `MaxCalls = 3` calls after a start: any call
  finds the state that any two others leave, at the corners of each panel; the proof of
  `AddressFollowsCursor` covers every sequence. `UdcRows = 2`: the loop of `_setUDC` runs
  more than once. One write lost (`MaxLosses`) and one restart (`MaxStarts`), at any
  write of the start and of the first call after it (`LastFault`), which is every kind
  of write; `MaxBlind` calls go on after a fault.
* *Keypad.* Two rows, three columns, two keys held: keys of the same row, the same
  column and of neither.
* *Panel.* `i` stops at 3, above which the code does not distinguish. Two widths for the
  two lines whose length depends on the data.
* *OneWire.* Three bits and every set of at most three of the eight addresses: junctions
  above, below and beside each other. From four devices on it depends on where their
  addresses part, which the proofs say exactly; `onewire_four` is the smallest bus that
  fails.
* *Thermometer.* A hot and a negative temperature; one garbled transfer or stretched
  slot (`MaxNoise`) in each call, but any number of calls, pulled plugs and shorts.
  Addresses have five bits, two of them the family, with four words that have a right
  CRC and differ in three bits or more: the shortest for which one reset cannot lead
  from one to another. A pulse reaches three readings (`PulseSlots`): it ends 300
  microseconds after the reset at the latest, and a slot takes 70 of them
  (`OneWireCRC.cpp:89`). The proofs have any number of bits and of words, and as many
  stretched slots as the distance of the words allows. For the CRC of the code, which
  `Crc8` shows to tell one and two wrong bits, that is one in a call, as in the run.

### Fairness

* *GPS* (`gps_overrun` only). `WF(KeypadLeave)`: the handler ends after a bounded wait.
  `SF(TickParses)`: the ticker's interrupt stays pending while the keypad holds the
  processor, and its exception number is lower than that of the GPIO, so that it is
  taken before another keypad interrupt. Nothing is assumed of the receiver.
* *Keypad.* `WF(Handler)`: nothing keeps the processor from a handler. Nothing of the
  contacts.
* *Panel.* `WF(Main)`: the handlers are short. Neither keys nor fixes are assumed to
  come.
* *Thermometer.* `WF(SearchSteps \/ Transfers)` and `WF(Measured)`: the program runs on
  and the sensor finishes a conversion. A transfer that fails is not fair; `CallReturns`
  counts on the bound of garbled transfers in one call.
* All other runs check safety only. In `lcd` the driver never waits for an answer, so that
  nothing can keep a call from returning.

## 4. What is proved

The proofs hold for every value of the constants that satisfies the named assumptions of
the modules (`CellsDistinct`, `ConversionTypes`, `GpsConstants`, `SnapshotConstants`,
`KeypadConstants`, `OneWireConstants`, `ThermometerConstants`, `RomConstants`,
`LcdConstants`, ...), of which TLC evaluates each one in the runs.

* **`GPS_proofs`.** `TypeCorrect`: indices and fields for every length of buffer and FIFO.
  `PassiveTerminated`: a line that waits contains a line feed. With the types this is
  inductive: the step that makes a buffer the passive one has just written its line feed,
  the active index stays outside that buffer, and a parse ends the wait.
  `ParseIsConfined`: a parse writes nothing into the active buffer. For this `NulGuard` is
  needed, which is inductive: while no line has filled a buffer, the last cell of each
  buffer is still the NUL of the start, so that the string that `strtok` reads ends in its
  own buffer. `gps_wrap` shows that the proviso cannot be dropped. `LineSurvives` is
  `PassiveHoldsLine` as long as no line has filled its buffer, for all sentences and
  whatever bytes are lost. Its invariant is `FillInv`: if the bytes read since the last
  line feed begin some sentence, the active buffer begins with what they become with their
  zeros and `rx_buffer_in` stands right behind it (`ReadAs`), and `lastByte` is the last
  of them. This would be an induction over the fields, but is none: a field and its comma,
  filled, always take two cells, so that the comma before field `i` stands in cell `2i`,
  and `ReadAs` says of each length read where it ends, in closed form. `Follows` is the
  step from one byte to the next. A lost byte makes the line begin another sentence or
  none, which is why `FillInv` is about every sentence that the bytes may still become.
  `SentenceSurvives` drops the proviso for a quiet keypad and sentences shorter than the
  buffers (`Quiet`): `WholeInv` says that at any time the bytes read, the one in the FIFO
  and those on the wire are one sentence, or the last byte of one and the whole of the
  next, so that no line fills its buffer. Then `strtok`. In a line as it stands a comma
  and something else alternate, so that the starts and the ends of the tokens are both
  every second cell. `NthOfEven` counts them: only one element of a set has `n` elements
  below it. `LineTokens`: token `k` of a sentence that waits is its field `k` and nothing
  else, for all fields but the last, whose token runs on into the checksum. `RmcApplied`,
  `GgaApplied` and `VtgApplied` carry this into the parsers. `DriverIsMailbox` is the
  refinement `ImplementsFeed` for every run in which no line fills its buffer, with any
  losses: a tick with a sentence to parse is the `Parse` of `GpsFeed`, with another line a
  `ParseGarbage`, with none a stutter, and a PPS edge a `Pulse`. It assumes that the
  sentences have the fields that the parsers read and one more (`Complete`), as those of
  the runs do; a `$GPRMC` of an old receiver without the last field would have its
  checksum read as the direction of the variation. `QuietIsMailbox` needs no proviso on
  the run. `RtcIsReported` and `ValidIsInRange`, for a quiet keypad and no PPS, rest on
  `TimeInv`: every line that waits is a sentence (`LineIsSentence`), and a valid time is,
  but for its fraction, that of one `$GPRMC`. `ReceiverIsRight` is what `ValidTimeInRange`
  needs of the receiver: sentences that call their time valid hold a time and a date.
* **`GPS_Time_proofs`.** `NextSecond`: for every date of the calendar and every time of
  day `operator++()` gives the time one second later, counted in seconds since the begin
  of the year (`Ordinal`), except after the last second of December, of which
  `gps_year_end` shows that it goes wrong. The lemmas are about the carries
  (`PlusSecondIs`), the days of the year (`OneDay`) and that an ordinal tells the time
  (`OrdinalTells`).
* **`Timekeeping_proofs`.** `SnapshotIsWhole` and `RetryHasReason` for objects of every
  size. The inductive invariant `CopyInv` says: without an update the copies agree with
  the object as far as they go; with one, at least one of the two things compared is an
  older or the newer version as a whole, and what equals it is one too.
  `CopiesAreSnapshots`: `Timekeeping` implements `Snapshot`, so that this holds for the
  time that the handlers keep. `TimeIsTrue` and `RtcFollows`: the time shown as valid is
  that of the second that runs or has just ended, and the clock is never set to an older
  one than the lost sentences explain, for every calendar of successive seconds of one
  year (`SuccessiveSeconds`: the code is wrong at the end of the year), every number of
  ticks and of sentences that are lost, and with or without PPS. `ShowsTrueTime` is not
  inductive. `ClockInv`
  adds `InStepWithWorld`, that ticks and seconds keep step give or take one tick and that
  the sentence of a second is told or missed before the next one, and `LagsByMissed`:
  without PPS a valid time is that of the last sentence that told it. `NextSecond` and
  `PlusSecondFollows` carry a true time over the edge. `ShownIsTrue`: what `main` prints
  was true when the copy began or later; `SeenIsTrue` says so of each of the versions
  that the copy may have seen, and `LiveIsTime` that the last one is `theTime`. Here
  `MaxIrqs <= 1`, as for all claims about copies.
* **`Keypad_proofs`.** `IndexIsInTable` and `AlwaysListens` for every size of the
  matrix. The invariant `ScanInv` says that while the scan is at column `c` every column
  behind it is still energized; a row with no energized column left is low, so the scan
  ends inside the table. `SteadyScanIsRight` is `SteadyKey`: `SteadyInv` says of a
  scan without a moving contact that exactly the columns behind the scan are energized
  and that a key of one of them, or of the column just switched off, holds the row.
* **`Panel_proofs`.** `NoDataWithoutFix` from `CountInv`, which relates `i` to the
  history: `i < 3` means that the poll `i` polls ago found a fix. `DataStandsAlone` is
  `DataScreenClean`: `CleanInv` says of each text that is not data in which row it may
  stand (`Placed`) and what `main` has still to do then before it draws data: enter a
  menu for the first time, or leave the wait for a fix, which clear the display.
* **`OneWire_proofs`.** `TypeCorrect`, and `AddressIsReal` for addresses of every length
  and devices that come and go at will. `SearchInv` says that those that still answer
  agree with `address` in all bits so far and were asked; the bit that is taken is one
  that somebody sent, and if all vanish the loop sees two ones and gives up.
  Then the enumeration of a bus where nothing changes, for any number of devices. It
  goes from small addresses to large ones; `Waits` says that on the way to an address a
  branch of ones has yet to be taken at a position. `WalkInv` ties the variables of the
  search to the set of devices: those that answer are the ones with the prefix of
  `address`, and `done` means that no branch waits on it. `OrderInv` says that `found` is
  what comes before `address`, and that `searchJunction` is the last branch that waits.
  The latter needs a condition, because line 345 sets `lastJunction` also where a one was
  taken and no branch waits. It is `Buried`: there is a device on the way to which three
  junctions lie behind each other, the first passed by the zero and the second by the
  one. Without such a device each search finds a new one (`FlatSearchGoesOn`). A buried
  device takes three others, one for each junction (`ThreeAreFlat`), hence
  `ThreeAreEnumerated`: `NextIsNew` for up to three devices, for addresses of every
  length and with devices that come and go between the enumerations. With a buried
  device `TrapInv` says that the search never gets past it: `address` stays before it
  or among those behind its second junction, and a junction that leads back there is
  always kept. So the enumeration does not end (`BuriedIsEndless`), and as there are
  finitely many addresses it returns some of them again: `Buried` is not only enough for
  `NextIsNew` to fail but the very condition. The last step of this, from an enumeration
  that never ends to one that repeats itself, is liveness and not proved. From
  the two sides follows `EndMeansAll`, `AllAreFound` for every bus: an enumeration that
  ends has found all devices, because those that would not find them all do not end.
  TLC checked the three invariants on each of the 256 sets of three-bit addresses.
* **`WaterTemp_proofs`.** First the theorems about `Thermometer`: `UndisturbedCallIsRight`
  for every set of temperatures and any amount of noise. `CallInv` follows the
  undisturbed call: the sensor is present and configured for twelve bits when `CONVERT`
  comes, it is still measuring or has measured during this call, and when the object
  reads, the register holds one of `waters`. `HotWaterIsAlarmed` is a second use of it.
  Then the search. `SearchIsHidden`: with it the call implements `Thermometer`, so that
  the theorems about the call hold (`CallWithSearchIsRight`). A slot that is heard is a
  stutter, a stretched one an `InitializeFails`; `Within` says that slots happen only
  inside of `initialize`. `AddressIsTheSensors`: for addresses of every length, if words
  with a right CRC differ in more than two bits for each slot that may be stretched in a
  call. This is an assumption of `WaterTemp` (`RomConstants`), so it stands behind all
  theorems about the search; for the CRC of the code it is met with one stretched slot,
  and nothing is claimed of two. `AddressInv` counts: the bits of `address` that are wrong
  and those that a pulse may still hide (`Pending`) are at most two for each stretched
  slot, or the line is shorted and `address` is zero. `Pending` is what makes it
  inductive; it leaves out the one that was read of an idle line, because its complement
  is a one too and ends the search. At the end nothing is pending, and by `RomConstants`
  a word with a right CRC that is so close to the address of the device is that address;
  the family excludes the other device and the zeros.
* **`TextLCD_proofs`.** `CellsApart`: on every panel different cells have different
  controllers or addresses; `CellsInMemory`: and addresses that exist, but for the
  LCD16x2B. `TypeCorrect` for every set of panels, characters and places. Then the bus,
  write by write, from `BusSpec`. `StaysInStep` is `InStep`: as long as nothing was lost
  driver and controllers agree on which half of a byte comes next. `BytesArrive` is the
  refinement `ImplementsBytes`: each write maps to a `Deliver`, a `Garble` or a stutter.
  The invariant `BusInv` says what `_lcd_bus` is after each of the writes of an element
  (`Mirror`), that the port expander agrees with it but for an E that is about to rise
  (`Outputs`), and with `intact` that a controller holds exactly the half of the byte that
  was clocked (`Halves`) and what the nibbles 3, 3, 3 of `_init` make of one that the
  restart left in any state (`Preluded`). `PanelIsTerminal` and `BusIsTerminal` are
  `ImplementsTerminal`, without the bound on calls, faults and rows of a pattern that the
  run has. `Final` runs the bytes that are still to be sent, so that this is an induction
  over their number. `Induction` gets it from `WFMin` of the library, which speaks of the
  least element of a set and needs no operator. `Run` is `Final` of any bytes (`FinalIs`,
  `RunConcat`, `HeadThenTail`), and each list that a call appends has one lemma on what it
  does to a panel in any state: `DisplaySets`, `GotoDoes`, `UdcRuns`, `ModeRuns`,
  `ClearRuns`, `OpeningRuns`. `RunApart`: bytes for one controller leave the other alone,
  which the panel with two needs, where cursor, mode and start are sent to each in turn.
  The inductive invariant `FinalInv` says that the panel, once all is sent, is as the
  driver wants it (`Settled`: lines, display, cursor, address), and that a controller that
  is not in its four-bit mode yet is still to get its preludes and then the whole of its
  start (`Starting`): what it was told before them may be read in any way, so that nothing
  is known of it, and nothing needs to be, because the start leaves the same state behind
  whatever it finds (`Anew`). So a `Deliver` does not change `Final` (`CarriedFinal`), and
  each call changes it as the action of `Terminal` of the same name does. When nothing is
  left to be sent, `Final` is the panel itself: this is `AddressRight`, for patterns of
  any size and any number of calls, starts and faults, and `BytesArrive` carries it down
  to the bus (`BusAddressRight`). That a character appears in its own cell and in no other
  is `CellsApart` again, with `CellsInMemory` for a cell that exists (`TextsPut`).
  LCD16x2B is excluded: `CellsHaveMemory` says of every other panel that between two calls
  all cells have memory behind them, `SecondRowIsNowhere` of this one that its second row
  never has, which is the doubt of the comment in `TextLCD.cpp:469`.

Each is proved as initial states, one step per action, and a last step with `PTL`. The
invariants were checked with TLC before they were proved; of `FinalInv` TLC cannot
evaluate `Starting`, which is about all states of a controller, so there it was the rest.

**Only model-checked.**

* All liveness properties (`SentenceIsApplied`, `KeyAnswered`, `StaleTimeGoes`,
  `KeyServed`, `CallReturns`): liveness under fairness and `ENABLED` are outside what the
  prover does.
* The assumptions of `Crc8` on its table: they are about bits of bytes (`Bitwise`), which
  the prover cannot reach. TLC evaluates each of them.

All other properties of the passing runs are stated by a theorem.

## 5. What is not modelled

* `alarms`, `beep`: called from commented-out code only (`main.cpp:219-228`), so that
  nothing the program does reaches them. (The thermometer is not reached either; it is
  modelled because its object exists and its protocol is the one with the hazards.)
* Of `TextLCD`: the classes for pins and for SPI, which the program does not create (they
  move the same lines in the same order, without acknowledgement); the start-up bytes
  of `ST7036`, `ST7032` and `WS0010`, whose instructions are not those of the HD44780;
  the waits, which are longer than the data sheets ask for; `getc`, which returns -1.
* `ppsAttach`, `ppsUnattach`, `setRmc` and its kind, and the attached callbacks: the
  program calls none of them. `gps_overrun`, `gps_year_end` and half of the states of
  `timekeeping` begin with the PPS attached.
* `latitude()`, `longitude()`, `altitude()`: they compare two reads of a variable that
  is not volatile, so what they do is up to the compiler; `main` does not call them.
* Julian dates, sidereal time and the formulas of `GPS_Time`: floating point without
  state.
* `overdriveSkip`, `touchByte`, `block`, `crc16` and the memory map of the bus: not
  called. Of the slots only the outcome is modelled, not the microseconds.
* A search that a short cuts off may end with an address of the right family whose last
  bits are zeros. It has a wrong CRC but for one in 256; in that case the transfers of
  the call, which is a disturbed one, are not answered. `AcceptedIsReal` excludes
  searches during which the cable changed, and `Thermometer` lets such a call go on
  with the right address.
* `DS18S20`: a sensor the program does not use. `DebugTrace`: output.
* Drift: a second of `timekeeping` has a fixed number of ticks. With PPS the fraction is
  0 only right behind the edge and `++theTime` comes before the test, so that the clock
  is set only if all the ticks of a second fit between two edges; when the ticker is the
  slower of the two it never is. No line of the code promises more, so this is noted
  among the hazards and not stated as a property.
* `src/mbed/` is the vendored SDK, with the CMSIS headers of four processor cores. It
  makes up more than two thirds of the lines of the repository and none of its logic: the
  application has some 6000 lines with all comments. What it does for the application is
  external in the modules that need it.

## 6. Plan

Done: the GPS driver with its abstract specification, the snapshots, the keypad, the
main loop, the search, the thermometer with its own search and CRC, the display driver
with its two refinements, and the time base. All parts of the application that `main`
reaches have a module, but for its debugging output, and so have the search and the
thermometer, which it does not reach. Next:

1. The scratchpad byte by byte, as the address is now: what its CRC tells of a reading
   that a reset has cut off.
2. The screens of `Panel` over `Terminal`: a text is a row of `Put`.
