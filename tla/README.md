# A verification of the AR Fruit Ninja on the DE2-115

The system is a game on an FPGA board: an OV2640 camera films the player, the
picture is shown on a VGA screen with fruits drawn over it, a coloured prop in
the picture is the blade, and a soft processor (Nios II/e) runs the game.  This
directory holds TLA+ modules translated from the code under `src/`, the TLC
configurations that check them, and proofs for TLAPS.

## 1. Inventory

| Component | Source | State it keeps | Operations | Interacts with |
|---|---|---|---|---|
| Game program | `software/ninja/main.c` | screen and return screen, fruit slots, score, combo, bombs, timer, spawn timers, high score table, two toggles | one pass of the main loop per VGA frame: read keys and tracker, `game_step`, `publish_game_state`; one `emit_slice_effect` per cut | reads `frame_counter`, `keys` and `tracker_status`; writes four descriptor words, the effect word and the control word |
| Camera capture | `rtl/ov2640_capture.sv` | first byte, frame flags, registered output word | a byte per PCLK edge; a word per two bytes; drops the rest of a frame on overflow | writes the clock-crossing buffer |
| Clock-crossing buffer | `rtl/async_fifo.sv` | memory, binary and Gray pointers, two-register images of them | write edge, read edge | PCLK on one side, vga_clk on the other |
| Frame writer | `rtl/sram_frame_writer.sv` | store being written, pixel count, frame on offer, counters | takes a word, starts, continues, completes or drops a frame | offers `pending_frame` to the reader, asks the arbiter for writes |
| Display reader | `rtl/vga_framebuffer_reader.sv` | store displayed, two line buffers and what each holds, the fetch in progress | swaps stores at the start of a scan, selects a line buffer, fetches lines | takes the offer, answers with `pending_consumed`, asks the arbiter for reads |
| SRAM arbiter | `rtl/sram_arbiter.sv` | idle / read / write, address, returned data | one access at a time, reads first | reader and writer |
| VGA timing | `VGA_controller.sv` | two counters, sync and blank | one pixel per edge | draw position for reader, overlay, frame tick |
| Top level | `final_top.sv` | display enable, frame tick and tracker crossings | wiring, clock crossings | everything |
| Prop tracker | `rtl/game_overlay/color_prop_tracker.sv` | per-zone sums of a frame, the last position, hold counter | a pixel; end of frame | read from PCLK, result to CLOCK_50 and vga_clk |
| Overlay and effects | `rtl/game_overlay/ar_game_overlay.sv`, `slice_effect_state.sv` | words as latched, popup, animation of each slot | latch on a flipped commit bit, start on a flipped effect bit, age per scan | reads the program's words from vga_clk |
| Audio control | `rtl/audio/audio_event_sync.sv`, `audio_mixer.sv`, `audio_top.sv`, `audio_clock_gen.sv` | two-register copies of both words, last screen | effect pulse, start trigger, music enable | reads the program's words from the codec's bit clock |
| Audio players | `rtl/audio/audio_poly_pcm_player.sv`, `audio_adpcm_player.sv`, `audio_pcm_player.sv`, `wm8731_i2s_tx.sv` | voices and their ages, decoder state, shift register | trigger, sample tick, bit | triggered by the mixer |
| Camera and codec control bus | `driver_ov2640_interface_template.c`, `driver_wm8731.c`, `ninja_bsp/drivers/src/altera_avalon_i2c.c`, the I2C core `altera_avalon_i2c_*.v` | shadow of the two camera pins; the core: enable, state, two queues, the refusal flag | a register read or write: rounds of the interface, tries of the HAL, commands of the core | called by the register library and `wm8731_init`; the core and the slave run concurrently with the program |
| OV2640 register library | `driver_ov2640.c`, `driver_ov2640_basic.c` | handle; in the camera: the bank selected and the registers of two banks | a set and a get function for each of about 120 settings, 28 effects, init, deinit, raw tables, the default configuration | called once before the main loop; nearly every set function is used there |
| Pixel renderers and ROMs | `fruit_renderer.sv`, `ui_renderer.sv`, `slice_effect_renderer.sv`, `knife_renderer.sv`, `knife_trail_renderer.sv`, ROMs | trail positions | colour of a pixel from its coordinates | overlay |

The path of the picture is camera -> capture -> buffer -> frame writer -> SRAM ->
display reader -> VGA; the path of the game is VGA frame tick -> program ->
words -> overlay and audio, with the tracker's result as the program's input.  Before
the main loop the program configures codec and camera over two I2C buses.

### What is hard here

* Four clocks with no fixed relation: PCLK (camera), vga_clk, CLOCK_50 (program)
  and the codec's bit clock.  Most of the crossings are of whole words without
  registers on them, held together by a bit that flips and by timing.
* Rates: the camera writes while the display reads through one SRAM port; a
  line is fetched while it is being displayed.
* Overflow in mid-frame, and frames cut short downstream of it.
* Three frame stores passed between two machines that each decide on registers
  of the other one edge old.
* A sequential program whose rules interact inside one frame: cuts, misses, the
  bonus, bombs and the clock, in slot order.
* A control bus whose refusals are learnt late: the program queues bytes ahead of
  the core, and a transmission has "succeeded" before it is sent.  Two layers of
  retries, a read in two ways, and a core that is enabled and disabled for each try.
* Some 300 register writes of the start-up that share registers by
  read-modify-write, in two banks behind one set of addresses.

### What makes each component correct

* Program: a game in progress is alive when it is published and ends in the end;
  the clock is exact; every cut and miss counts in its place; figures and table agree with the
  games played; the menus lead back where they came from.
* Capture and buffer: whole pixels, first in first out, frames without holes.
* Writer and reader: no torn picture, no completed frame lost, every frame
  accounted for, pixels declared valid are the right ones, misses only where
  the fetch must catch up.
* Words: no mixture of two publications is displayed; no publication, cut or
  start of a game is passed over by any reader.
* Control bus: a call that reports success has read or written its register, one that
  fails changed nothing else and failed for its slave's fault; every call returns.
* Register library: a set changes its own setting only, a failure leaves old and
  wanted bits only, a get answers what is set, no byte goes to the wrong bank.
* Start-up: the main loop finds every setting as it was last given; the camera is
  addressed only while it is awake, and is turned off when the start-up gives up.
* Tracker, players (not modelled): the blade position belongs to one camera frame
  and disappears after the hold; the oldest voice is the one taken.

## 2. Modules

| Module | Models | Correspondence |
|---|---|---|
| `Game` | `main.c` from `main`'s loop down | One pass is `ReadInputs` (keys, blade), then an action per screen of `game_step`; while playing the clock (`StepPlaying`), one action per slot of `update_fruits` (`SkipSlot`, `CutBomb`, `CutFruit`, `StayInFlight`, `LeaveScreen`), the bonus, and the verdict (`FinishGame`, `SpawnFruit`, `NoSpawn`).  Variables keep the names of the C variables.  `elapsed`, `effects`, `finals` and `origin` are history, and so are `turns`, what was cut or missed in this frame in slot order, and `streak`, the row of cuts before it. |
| `AsyncFifo` | the buffer, pointers as numbers | `WriteEdge`, `ReadEdge`: one edge of each clock.  `Caught` is what a register may catch of a moving pointer. |
| `AsyncFifoGray` | the same, registers in Gray code, bit by bit | A code is a function from the bits of the register; each bit caught in mid-change is old or new.  `gray_to_bin` is the number whose bits are what the loop assigns.  Implements `AsyncFifo`. |
| `FifoQueue` | the abstract queue of the buffer | `AsyncFifo` implements it: property `IsQueue`. |
| `CameraPath` | `ov2640_capture` with `AsyncFifo` | `CameraEdge` is one PCLK edge: one branch of the capture process and the write side of the buffer. |
| `TripleBuffer` | `sram_frame_writer`, the swap of the reader, the display enable | A step is one vga_clk edge; all registers change together. |
| `LineReader` | `vga_framebuffer_reader`, `sram_arbiter`, the counters of `VGA_controller` | A step is one vga_clk edge.  A memory word is represented by its address, so a buffer shows what it really holds. |
| `GameWords` | the order of `main.c`'s writes to the hardware | `FruitTurn` (an effect word or none), `WriteDesc` once per slot, `WriteCtrl`; screens follow `game_step`. |
| `OverlayLatch` | `ar_game_overlay`, `slice_effect_state` | `VgaEdge`: the synchronisers, the latch, the popup, the animations. |
| `AudioEvents` | `audio_event_sync`, control part of `audio_mixer` | `BclkEdge`: two registers per bit of both words, the pulse, the trigger, the music. |
| `Published` | the program's words with both readers | composes the three above. |
| `I2cMaster` | one register call after the other, from `sccb_read`, `sccb_write` and `wm8731_write_reg` through `alt_avalon_i2c_master_tx`, `_rx`, `_tx_rx` to the commands, and the core beside it | An action of the program is one access to the core (`Enable`, `ClearInterrupts`, `SendCommand`, `CheckNack`, `Fetch`, `Drain`) or one decision of a retry loop (`TryAgain`, `Succeed`, `ReadInTwo`, `NextRound`); of the core, one byte on the bus (`SendByte`, `RefuseByte`, `ReadByte`). |
| `Ov2640Registers` | the set and get functions and the effects as data | One definition per setting, with the name of its functions: the registers it uses in the order of access, which bit of the value each bit holds, the range that is checked.  One per effect: the bytes it writes. |
| `RegisterParts` | the masks and shifts | `Merged` is the read-modify-write, `Taken` the reading. |
| `CameraSettings` | what a set, a get or an effect promises | the abstract specification of both `Ov2640Driver` and `I2cMaster` |
| `Ov2640Driver` | a call of the library, transaction by transaction | `ReadBank` and `SwitchBank` are the first half of `a_ov2640_dsp_read` and its three siblings, `ReadRegister` and `WriteRegister` the second; each may fail. |
| `Ov2640Basic` | the two tables and the calls of `ov2640_basic_init` and `_set_image_resolution` as data | in the order of the code |
| `CameraStartup` | `main` before its loop, `wm8731_init`, `ov2640_init`, `_deinit`, `_basic_init`, the pins | a straight sequence of steps; `Failed` is what follows the failure of each; `deinit_failed` is history |
| `*Proofs` | theorems | each extends the module it is about; `CameraPathProofs` is about `AsyncFifo`, too. |
| `MC*` | instances for TLC | |

Definitions whose names start with `Bug_` are wrong forms of the definition that
follows them.  No specification uses them; each shows that a property fails
when the code is wrong in that way.

Dependence: `CameraPath` extends `AsyncFifo`; `AsyncFifo` and `AsyncFifoGray`
instantiate `FifoQueue` and `AsyncFifo` for the two refinements; `Published`
extends `OverlayLatch` and `AudioEvents`, which extend `GameWords`.  `Game` and
`GameWords` model the same program twice on purpose: `Game` what is in the words,
`GameWords` when they are written.  `Ov2640Driver` and `CameraStartup` extend
`RegisterParts`; `Ov2640Driver` takes its table as a constant (its theorems hold for any
table) and the run gives it `Ov2640Registers`.  `I2cMaster` and `Ov2640Driver`
both implement `CameraSettings`: what the library assumes of a transaction - that a
failed one changes its register only, and to the wanted value or not at all - is what
`ImplementsPort` shows of the bus.

## 3. Runs

| Run | Bounds | Shows |
|---|---|---|
| `game_play` | three slots, two bombs, combo of two, timer 2 digits of radix 2, two frames per second, one game, ceiling 27 | The invariants of a game with every interleaving of cuts, misses, bombs and spawns; that each moves the score by what it is worth after those before it (`CutsAreScored`); that a game ends. |
| `game_sessions` | one slot, three games of at most five frames, table of two | Table, figures shown and return screens along every walk through the menus. |
| `camera_path` | buffer of four slots, frames of four pixels | Capture and buffer, with overflow at every pixel and any start. |
| `fifo_gray` | three-bit pointers, two kinds of word | The Gray registers implement the numeric pointers. |
| `triple_buffer` | frames of three pixels, nine starts of frame | The hand-over of stores, with drops. |
| `line_reader` | lines of 40 words, 105 clocks, five picture lines, eleven display lines | The race of fetch and beam, clock by clock. |
| `line_reader_start` | as above | Counterexample, see findings. |
| `published` | two slots, four publications, scans of five edges | The words against both readers. |
| `published_type` | as above | Counterexample, see findings. |
| `i2c_master` | two registers of one bit, two tries, two rounds, two calls | Program, core and a slave that refuses any byte: what a call promises, that the core is free for each try, that no call gives up early, that every call returns. |
| `camera_registers` | every setting with each enumerator, or no bit, all bits, every other bit and one bit too many; every effect; registers of 01010101 and 10101010; both banks | The library on its real table, with a failure at every transaction. |
| `camera_startup` | the real tables and all the calls, the same two contents after a reset | The start-up to the main loop or to a stop, with a failure at every step. |

Why the bounds are enough:

* `game_play`: three slots are the least with a multi-slice of two and a third
  event (bomb or miss) before, between or after, which is what the combo and the bonus depend on; the score ceiling of 27 is met,
  radix 2 makes the borrow between the digits happen more than once.
  `game_sessions`: three finals and two places make ties, an insertion in the middle
  and a score falling off the end.  `MaxGames` is a bound of the model only.
* `camera_path`: with four slots (three usable words) and four pixels each frame can
  overflow at each of its pixels, and the pointers wrap in every position.
* `triple_buffer`: a frame needs a first, a middle and a last pixel; nine starts go
  round the three stores more than twice.  `MaxFrames` bounds only the counters.
* `line_reader`: lines are an eighth of the real ones and the *ratio* is kept: a fetch takes
  a few clocks more than 2 * LineWords, about four fifths of a display line, of 105 clocks
  here and of 800 in the design.
  The race at the top of a scan is over within six display lines (seven in the late race
  of the first scan), so five picture lines, ten display lines and one of blanking, hold all
  of it and what follows.  The ratio is what matters: the fetch wins about a fifth of a line
  each time it is not repeated.  `ScansTheorem` and `MissesTheorem` are for every geometry
  `RaceAssumption` allows, the design's own among them.
* `i2c_master`: two tries and two rounds make a try follow one refused at each of its bytes,
  and a read in two transfers follow a read in one, twice; a second call follows a
  first that failed in each way.  The code has 10000 tries and 12 (camera) or 8 (codec) rounds
  of the same kind.  `MaxCalls` is a bound of the model.
* `camera_registers`: masks and shifts are bitwise, so the two patterns and their complements in
  value and registers show every lost, added or moved bit; one call (and the get after it)
  suffices because `PromiseKept` is proved for sequences of any length.
* `published`: scans are shorter and publications closer together than in
  reality, so the events can meet in every order; the only relation kept is
  `Pace`.  The descriptors and popups need two slots to be told apart.

### Assumptions the code's environment justifies

* **Fairness.** `GameEnds` is checked under `WF_vars(Next)`: the frame counter keeps
  ticking and the main loop polls it without blocking.  The player is not assumed
  to do anything.  `CallsEnd` is checked under weak fairness of the program's steps and
  of the core's: both run on their own clock and wait for nothing but each other.  The
  slave may refuse for ever, and nobody has to make a call.  All other properties are
  safety properties and need none.
* **Polls outlast transfers.** A wait of the HAL polls 10000 times and more per byte, the last
  ones ten milliseconds apart, and a byte takes a third of a millisecond at the camera's
  25 kHz.  In `I2cMaster` a wait therefore runs out only when the core can do nothing more
  that would end it.  A slave that holds the clock for longer breaks this; then a byte
  may be left in the core's queue (hazard at `altera_avalon_i2c.c:350`).
* Camera and codec have a bus each with a single master, so arbitration is not lost.
* A failed transaction may or may not have reached the slave: the acknowledgement of its
  last byte is what can be lost.
* The camera's registers change by writes and resets only.  Automatic gain and exposure,
  which would write GAIN and AEC, are made manual before these two are set.
* **Pace.** Announcements of the program are at least `Pace` edges of each receiver
  apart: four of vga_clk, five of the bit clock.  vga_clk is CLOCK_50 / 2 and the
  bit clock about 3.07 MHz, so five of its edges are 80-odd CLOCK_50 cycles.  The
  Nios II/e takes six cycles and more per instruction and has no hardware
  multiplier; between two announcements lie a turn of the slot loop with its
  trail test, or four packed words and their writes.  With a faster core
  (or announcements in a tight loop) `EveryCutBegun` would not hold, and that is
  the assumption a change of processor has to re-examine.
* The bit clock runs only when `wm8731_init` succeeded (`main.c` ignores its result): the
  properties about sound are about that case.
* **SlowSource.** The camera delivers about 30 frames per second, the display takes
  about 60 scans: a scan starts between any two completed frames.  This is what
  `NoTear` and `NoFrameLost` rest on.  With `SlowSource = FALSE`, TLC finds both
  violated: on an edge on which a scan starts and a frame completes, the
  reader takes the frame on offer while the writer, which still sees the old
  `read_frame`, picks that very store for the next frame; and the `pending_consumed`
  of the older offer withdraws the newer one.  Only the test source of the debug
  build (`DEBUG_SRAM_TEST`) is fast enough for that.
* The buffer is released from reset with both of its clocks seeing zero pointers.

### Findings

* `line_reader_start`: when the first frame completes in the middle of a scan, the
  display is enabled there and the fetch is out of step.  If a fetch ends just
  before a display line starts, the prefetch goes into the buffer just selected
  for display, and pixels of the wrong line are shown as *valid*.
  `SIGNALTAP_NOISE_DEBUG.md` (99-101) tells the reader to rule line-buffer starvation out when
  `vga_pixel_valid` stays high.  It lasts one scan: from the first scan that starts
  enabled, `ScansAreRight` holds.  At the real size the phase is hit for three of the
  1600 clock phases of a pair of display lines.
* `published_type`: `tb_audio_event_sync.sv` (38) asserts that the pulse comes with the
  synchronised type.  The word crosses bit by bit without a handshake, so toggle
  and type may be caught on different sides of one change; a bomb may then sound
  like a fruit.

Observations without a run:

* The implementation plan (465) says that the table of descriptors is swapped only during
  vblank; the overlay latches at once (`ar_game_overlay.sv:288`), and since the frame
  tick is at the first pixel, usually in the visible picture: a sprite under the beam
  is drawn partly at the old place.
* Walking from the start screen to the high scores changes both state bits, and the
  mixture 01 reads as "playing" for one bit clock, which starts the start music
  without a game (`audio_mixer.sv:56`).
* `design_report.tex` gives the write order descriptors, effects, control, while the program
  writes effects first.
* `ov2640_deinit` returns at the first failed transaction (`driver_ov2640.c:788`) and so leaves the
  camera powered exactly when it is called because the bus failed.  `OffUnless` allows it in that
  case only, by the history variable `deinit_failed`, and after a failure of the later mode
  setting, where nothing calls it.
* `driver_ov2640_basic.h` (64, 65, 91, 93) comments its defaults for gain control and exposure with
  "auto", where they are manual, and gives numbers for AGC_GAIN and AEC that are not the
  ones defined; the model has the values of the code.

## 4. Proofs

Proved by TLAPS, for every value of the constants that satisfies the named
assumptions of the modules:

* **`GameProofs`** (from `GameAssumption`).  `Invariance`: `Spec => []IInv`.  `IInv` adds
  to the checked invariants two parts that make them inductive.  `LoopInv`: while
  the slot loop runs the index is in range, and no counter of the frame exceeds the
  slots visited; it bounds the bonus and shows the loop ends.  `ScreenInv`:
  the parts of a playing frame happen on the playing screen, and the screen
  determines `origin`; without it `NoFruitOffScreen` is not preserved by `SpawnFruit`, nor
  `OverIsJustified` by the steps of a game in progress.  From it follow `TypeCorrectness`,
  `AliveTheorem`, `ClockTheorem`, `FruitTheorem`, `OverTheorem` and `ReturnTheorem`.
  `PointsTheorem` and `SettledTheorem` are action properties.  `CutsAreScored` says what a frame is
  worth from its sequence of turns, while the code keeps four counters; `TurnsInv` says that the
  counters are what the turns amount to (the combo is the row that ends with the last turn, those of
  earlier frames included), and is needed because the property alone does not say what the
  counters hold.  `CountAppend` and `InRowAppend` say how a turn more changes them.  `TableTheorem` needs `TableInv`, the property with
  what it says of every threshold v; the lemmas on `record_score` count the entries
  that reach v before and after the insertion.  All safety properties of `Game` are proved.
* **`AsyncFifoGrayProofs`** (from `WidthAssumption`: an address has two bits or more, without which
  the code's `full` has no lower bits to compare).  A pointer that is never reduced modulo the size is a
  natural number n, its register holds `Wrap(n)` and its Gray register `Code(n)`.  `GrayInv` says that there
  are eight such numbers, for the two pointers, their values before the last edge and the four images, that
  lie in order and within less than one turn (`InOrder`), and that every register is what they say (`Holds`).
  With the reduced pointers alone, "in order" would have to be said round a circle, and the value a register
  may still catch would not be tied to its pointer.  What the proof needs of the codes is three facts:
  neighbours differ in one bit (`OneBitChanges`), so a mixture of them is one of them
  (`MixesOfNeighbours`, `CaughtCode`); codes are injective and `gray_to_bin` finds the pointer back
  (`GrayInjective`, `Decoded`); inverting the two top bits is half a turn (`InvertedIsAcross`), which is
  why `full` is right.  They are inductions over the bits.  The library's induction takes
  an operator, so `SetInduction` is proved for sets instead, from the pigeonhole principle, and the laws of
  2 ^ n from the number of subsets of a set (`Powers`).  `GrayInvariance`,
  `LevelsTheorem`, and the refinement of `AsyncFifo`, `GrayImplementsNumbers`: every edge of the
  registers is the same edge of the numbers.
* **`CameraPathProofs`**, the buffer (from `DepthAssumption`, `BlankAssumption`).  The inductive
  invariant is `FifoTypeOK /\ PointersInOrder`: going round from the oldest image of
  the read pointer to the write pointer, the images come in order and the way is less
  than a turn.  A weaker statement such as "no overrun" is not inductive, since it
  does not say that an image lies between two positions of what it copies.
  `FifoInvariance`, `FifoSafety`; and the refinement, `FifoIsQueue`: every edge is a put, a
  take or nothing for the sequence `Contents` (the lemmas on stretches of the memory
  say how it grows at one end and shrinks at the other).  With `GrayImplementsNumbers`, whose `Depth` is
  2 ^ AddrWidth, it leads from the registers to the queue.
* **`CameraPathProofs`**, the path (those, and `FrameAssumption`, `WordAssumption`: the words made are data
  of the buffer).
  `PathInv` adds to the buffer's invariant `Aligned` (after the first gap, the capture and the
  camera agree which byte of a pixel comes next), `OfferInv` (a word is offered only in the clock
  after a second byte, and the room seen then is still there) and `ChainInv` (the word read last,
  those inside, the one offered and the camera's pixel are consecutive).  The capture's state
  alone says nothing of what has gone into the buffer, so `FramesArePrefixes` is not inductive
  without it.  `OfferTheorem`, `PixelTheorem`, `FramesTheorem`, `QueueTheorem`.
* **`TripleBufferProofs`** (from the assumptions of `TripleBuffer`, and for the first four
  `SlowSource`).  `SafeInv` adds `FirstFrame` (before the first frame both sides
  are at store 0) and `HandOver` (an offer is taken in the scan that first sees it and
  withdrawn one edge later) to `NoTear` and `PendingIsWhole`.  `HandOverInvariance`,
  `PictureTheorem`, `OfferTheorem`, `NoFrameLostTheorem`; `TypesTheorem` and `CountersTheorem` for
  a source of any speed.
* **`PublishedProofs`** (from `WordsAssumption`, `OverlayAssumption` and `PublishedAssumption`: the
  display has at least four edges between two announcements, the mixer five, and the type of an
  effect is in the bits 28..26 of its word).  A bit that flips runs through three registers, of which
  the first may catch the old value once; `Passing(x, y, z, b, q)` says what they hold of it
  `q` edges after the flip, and `PassingEdge` that an edge moves it on and lets the last two
  differ once.  `PubInv` says this of the three synchronisers (`LatchInv`, `SoundInv`), and what
  follows from it for what the readers have made of the words: the display's copies are those of the
  word whose bit its last register holds (`ShownInv`), an effect is owed to a reader exactly
  while its last register differs from the bit (`OwedInv`), and of the screen that crosses without
  a bit of its own, a mixture is in one register at a time (`ScreenPassing`), so that one
  comparison sees it (`Fanfares`).  `DescInv` ties the descriptors to the place of the program.
  `MixtureTheorem`, `ShownTheorem`, `PopupTheorem`, `MusicTheorem`, `StartTheorem`, `CutTheorem`: all
  safety properties of the two readers that hold.
* **`LineReaderProofs`** (from `TimingAssumption` and, but for `WaitTheorem`, `RaceAssumption`: a
  display line lasts between 12/5 and 8/3 of a picture line's words, 800 clocks to 320 words
  here).  `WaitTheorem`: `WaitInv` bounds how long a write
  has waited by twice the words already fetched: it is the fetch's own counter, which only
  goes back when no request is out, that bounds the wait.  `ScansTheorem` and `MissesTheorem`:
  a pixel is right because the fetch of its line began early enough, so `ReaderInv` has to
  know, at every edge, where in the display line the fetch under way began.  That is
  `draw_x - Age`, `Age` being the edges since its start; it stays as it is but
  for one edge that a write may cost the first word.  At the top of a scan the buffer on
  display is not the one being filled, and lines 0 and 1 are fetched over each other, back to back, until
  a turn of the beam finds the fetch of the line it turns to under way: `Race0` to `Race4` have
  one disjunct for each fetch of these five display lines and for each edge between two.  A last word of
  the store before that comes after the first swap makes a buffer good and delays the race by one
  fetch: `Orphans`, `Late0` to `Late6`, in the first scan only, which is why `MissesOnlyAtTop` begins
  with the second.  After the race each line is fetched while the one before is
  shown (`Steady`), and the last two lines of the picture stay in the buffers (`Blank`), which is
  what the next race starts from.  `Content` is what these make true of the words.  For every disjunct a lemma
  says which it becomes at an edge; they rest on `GoesEdge`, `StartsEdge` (a reader goes on, ends,
  starts or rests) and `BeamEdge`.
* **`Ov2640DriverProofs`** (from `TableAssumption`, `ProgramsAssumption`, `DisjointAssumption`,
  `ScriptsAssumption`, `BackgroundsAssumption`: parts that name bits of a byte and overlap
  nowhere, calls whose accepted values fit their parts, registers for all of them).
  `BankIsRight` and `PromiseKept`: for any table and any sequence of calls.
  A step of a call says nothing of the value at its end, so the invariant
  `Inv` (`InvHolds`) carries it there: `Fresh` (the byte read for a read-modify-write is still what
  the register holds), `Gathered` (the answer so far is the value's bits in the parts already
  read) and `Written` (the parts already written hold the wanted bits).  `Fresh` is what
  makes the write of a shared register harmless to its other settings, with
  `DisjointAssumption`; `Written` survives the later parts for the same reason.
  TLC evaluates all five assumptions on the real table.
* **`I2cMasterProofs`** (from `RetriesAssumption`).  `CoreIsFree`, `PortImplemented` and
  `FailureHasCause`, for any registers, bytes, numbers of tries, rounds and calls.  The
  commands of a transfer are seen as one `Row`; `Inv` says that the core has sent it up to
  a place i, that the program has written it up to a place j, and that the queue and
  the commands still to be written are the pieces between them (`Reached`).  What the slave and the answer hold
  follows from i: the register is named after the second command, has its value after the third of
  a write, and the byte that was read is in the queue, or is the answer, after the last.  `RefusedOk`,
  `FreeOk` and `ClearOk` say that nothing is left in the queues by a refused try; `NamedOk`
  that a read in two transfers finds its register still named at every try of the second.
  `Counted` adds the refusals that the used tries and rounds have cost.

Only model-checked: `GameEnds` and `CallsEnd` (liveness is out of the prover's reach), and
`CameraStartup`, which is about one fixed sequence of some three hundred writes: the
run is exhaustive but for the contents after a reset, and what a proof would have to evaluate
write by write (the concatenation of the tables, a fold) TLC evaluates.

## 5. Not modelled, and why

* Geometry: positions, the trail's hit test and the random generator are free choices in
  `Game`.  A trajectory may cut, miss or spawn whatever it likes there, which is more than
  the code can do; properties about difficulty or reachability of fruits are not stated.
* Renderers and ROMs: the colour of a pixel as a function of its coordinates.
* SRAM strobes and bus turnaround, codec and camera internals.
* Tracker, audio players: see the plan.
* Of the register library: the JPEG table, the other picture sizes, the raw register
  functions and `ov2640_info`, which the program never calls.  The effects are modelled as
  the bytes they write; what those do to the picture is the camera's.
* Of the I2C driver: the interrupt-driven functions, 10-bit addresses and the threshold
  registers, none of which is used; loss of arbitration; a clock held for longer than a wait.
* Delays: the milliseconds after a reset or between retries are not modelled, only their order.
* Tools, project settings, generated files.

## 6. Plan

In the order of importance; items 1 to 3 and 5 are done.

1. `Game`, `GameProofs`: the rules.  Done.
2. `AsyncFifo`, `AsyncFifoGray`, `CameraPath`, `TripleBuffer`, `LineReader`: the picture.  Done;
   `AsyncFifoGrayProofs`, `CameraPathProofs`, `TripleBufferProofs`, `LineReaderProofs`.  Done.
3. `GameWords`, `OverlayLatch`, `AudioEvents`, `Published`, `PublishedProofs`: the words.  Done.
4. `PropTracker`: zone sums over a frame, choice of a zone, hold; the crossing of its
   result to CLOCK_50 and vga_clk by a toggle with held data, and `blade_cut_active` on the
   program's side.  Abstract specification: the position of the best zone of one frame.
   Properties: the result the program reads belongs to one frame; the hold ends after
   its number of empty frames; a cut needs two positions of different frames.
5. `I2cMaster` and `Ov2640Driver` with their proofs, `CameraStartup`: control bus, register library
   and start-up.  Done.
6. `PolyPlayer` (which voice a trigger takes), `AdpcmPlayer`
   (end of a clip, restart while playing), `I2sTx`.

Runs of items 4 and 6: three slots of samples suffice for the players, two zones and
three camera frames for the tracker.
