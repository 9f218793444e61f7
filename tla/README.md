# TLA+ models of OpenCarbon

OpenCarbon is a native Windows rebuild (`src/carbon-pc`, C++) of the Carbon
emulator application: an application shell with menus, a Game Boy core that was
reconstructed function by function, and a thin platform layer. This directory
holds TLA+ models of the parts whose correctness depends on order, concurrency,
crashes or long sequences of legal calls, TLC runs that check them on small
instances, and TLAPS proofs of the most important results for all values of the
constants. Every definition is translated from the C++ code; `PROJECT.json`
("map") names the lines. Paths below are relative to `src/carbon-pc/src`.

The program was written to behave like the original, oddities included
(`src/FINDINGS.md` lists them). The models follow the code; where the code and a
sentence about it disagree, there is a run that shows it (section 5).

## 1. Inventory

One pass of `App::Run` (main thread) polls the exit request, lets `UpdateInput`
handle the pad, and draws the state it ends in; drawing the state *InGame* means
running the core until it has finished one frame. Four other kinds of threads
exist: the Game Boy audio thread (one per session), the device thread of the
emulated audio output, the menu's audio thread, and the decoder threads of the
startup movie.

| Component | State | Operations | Talks to | What is hard | What must hold |
|---|---|---|---|---|---|
| LCD controller, `gb/Video.cpp`; frame loop, `gb/System.cpp` | mode, LY, LYC, window row, LCDC, HBlank DMA, tick accumulator, `frameDone` | `LcdStep(ticks)`, register writes, `VideoReset`, `RunFrame` | called per instruction; raises IF bits; writes the framebuffer without a bounds check | any register may change between two steps, states are loaded between frames | a row is only drawn inside the framebuffer, frames are complete, the DMA copies what was asked |
| CPU and interrupts, `gb/Cpu.cpp` | registers, `ime`, `imeRequest`, `eiDelay`, `halted` | one instruction, `ServiceInterrupts` | memory, IF and IE | delays of EI and DI, HALT with interrupts off | handlers are entered when the program allows it, HALT ends |
| Timer and joypad, `gb/Memory.cpp` | TIMA, TMA, TAC, `timaAccum`; pressed keys | `TimerStep`, `TimerWrite`, `KeyDown`, `KeyUp` | raise IF bits | speed switches with ticks left over, several overflows in a step | ticks are counted exactly |
| Memory map, `gb/Memory.cpp`, `gb/State.h` | RAM areas, bank numbers | `Read8`, `Write8` | all of the core | address arithmetic | every address reaches its area |
| Cartridges, `gb/Cartridge.cpp` | ROM and RAM banks, RAM enable, dirty flags (partly globals), SRAM image | `Load`, mapper reads and writes, `SaveSramFile`, `FreeBuffers` | `.sav` files; save states hold the global half of the flags | crash while a file is written, flags that outlive their cartridge | what the game saved is on disk, and only that |
| Save states, `gb/System.cpp` | files `save:/<game>/<slot>/<title>.stt` | `WriteState`, `ReadState` | all blocks of the core | fields the file leaves out, files written in place and never checked | the head of a file is one moment; a loaded game runs on |
| Game Boy audio, `gb/Audio.cpp` | ring of 0x2000 frames, `threadRunning`, two blocks | pump (main thread), `AudioThreadMain`, start, stop, clear | ring shared under a mutex; buffers handed to AudioOut | two threads and an event; start, stop and clear at any moment | no buffer is lost, no lost wakeup, nothing stale is heard, stopping returns |
| AudioOut, `platform/AudioOut.cpp` | queues of queued, released and mixed blocks, event, volume | append, collect, wait, volume, stop; device thread | AudioStream (WASAPI) | the device runs late and catches up | one block per period, in order |
| Application states, `app/App.cpp`, `Globals.cpp`; Renderer, `app/Renderer.cpp` | state, menu and pause selections, animation stages, `paused`, `pauseClosing` | one input handler and one drawing function per state | core (keys, save states), cartridge, renderer positions | handlers and animations both change the state; input is accepted while a screen slides out | no dead end, cartridge use only with a cartridge, right slot of the right game |
| Startup movie, `platform/win32/MoviePlayer_win32.cpp` | frame queue, opened, failed and ended flags, `stop` | `Play` with a decoder thread per track | a mutex and a condition variable | wakeups, timeouts, joins | frames are shown in order, `Play` returns, no thread outlives it |
| Input, `app/Input.cpp` | held, pressed, released | one update per frame | App | edges seen in one state only | (in AppStates) |
| Menu audio, `app/MenuAudio.cpp` | sound flags, voices, fades | thread loop | plain globals shared with the main thread; AudioStream | unsynchronised flags | a sound that is asked for is played |
| AudioStream, `platform/win32/AudioStream_wasapi.cpp` | client of the card, retry time, silent schedule | `Open`, `Write`, `Init`, `Release`, `WaitSilently` | the sound card; called by AudioOut's and the menu's threads | the card is lost in the middle of a block and comes back | the caller stays in real time; a card that stays is used |
| Offline HTML applet, `platform/win32/OfflineHtml_win32.cpp` | one `Session` per `Show`: container, browser, `cancelled`, `failed`, `done`, `reason` | `Show` with its modal loop; four asynchronous callbacks, two page events | window messages, the exit request, WebView2 | answers after the end, failures at each step, resizes | nothing is left behind, `Show` is answered once and truly, a close ends the program |
| Window, `platform/win32/Platform_win32.cpp` | client size, `g_exitRequested`, frame pacer | message pumps, `PopExitRequest`, `SwapBuffers`, `SleepUntilNs` | everything on the main thread | one flag read by two loops | (in OfflineHtml, AudioStream) |
| Artwork gallery, GameDef, Paths, Script runner, gfx, differential-test API | display or start-up data | | | nothing concurrent and nothing that persists | |
| GBA core (`stub/GbaStubs.cpp`) | none: empty stubs in this version | | | | |

`third_party` is vendored and `src/tools` holds analysis scripts; neither is the
program. The list of hazards, each at its line and with the properties that look
at it, is in `PROJECT.json`.

## 2. Modules

| Module | Kind | Stands for |
|---|---|---|
| `Lcd` | component | LCD and frame loop, with save states, resets, launches and restarts around it |
| `Interrupts` | component | EI/DI/RETI/HALT, `ServiceInterrupts`, timer, joypad |
| `BatteryStore` | abstract specification | what a battery-backed cartridge promises |
| `Battery` | component, refines `BatteryStore` | mapper flags, `.sav` files, save states, crashes |
| `AudioOut` | component, parameterised | the emulated audio output and its device thread |
| `GbAudio` | composition, `EXTENDS AudioOut` | main thread, audio thread and ring on top of it |
| `AppStates` | component | application states with the animation stages of the renderer |
| `Screening` | abstract specification | what the startup movie promises its viewer |
| `MoviePlayer` | component, refines `Screening` | the three threads of the startup movie |
| `Applet` | abstract specification | what a caller of the credits page may rely on |
| `OfflineHtml` | component with its environment, refines `Applet` | the credits page: App::Run, the window, the modal loop, the browser's answers |
| `AudioStream` | component, parameterised | the blocking stream with its sound card and its clock |
| `MenuAudio` | composition, `EXTENDS AudioStream` | the menu's audio thread, the main thread's requests, the stream |
| `Session` | component | what the interrupts, the HALT flag and the LCD switch hold after a launch, a reset, a load; state files that were cut short |
| `MC*` | TLC instances | constants of the runs |
| `LcdProofs`, `CoreProofs`, `BatteryProofs`, `GbAudioProofs`, `AppStatesProofs`, `MenuAudioProofs`, `OfflineHtmlProofs`, `MoviePlayerProofs` | proofs, one module for each component and `CoreProofs` for `Interrupts` and `Session` | section 6 |

Operators whose comment says *Mutant* are not part of any specification: they are
plausible bugs, used to confirm that each property is able to fail.

### How state and actions correspond to the code

**Lcd.** `lcd`, `reg` and `hdma` are the fields of `IoBlock` in three records
(what `LcdStep` counts with, what only the game writes, HBlank DMA);
`lcdTickAccum` and `frameDone` are `CoreBlock`'s. One action per branch of
`LcdStep` (`OamDone`, `DrawDone`, `NextVisibleLine`, `VBlankStart`, `VBlankLine`,
`VBlankWrap`, `VBlankEnd`, `StayInMode`, `LcdOff`), one per register write
(`WriteLcdc`, `WriteStat`, `WriteLy`, ...), and the host's `Launch`, `RunFrame`,
`FrameReturns`, `SaveState`, `LoadState`, `Reset`, `ExitToMenu`, `Restart`. The
picture is reduced to `row`, the last row drawn, and the DMA to `owed`, the blocks
that are left; both are what the properties speak about and are otherwise unused.

**Interrupts.** `RunInstruction` calls CpuStep, ServiceInterrupts, LcdStep and
TimerStep in this order; `phase` says which is next. `ctl` holds the three
interrupt flags and `halted`, `timer` the timer's registers with its accumulator.
IF and IE are sets; the priority is a sequence. The loops of `TimerStep` are one
recursive function, `Count`. `window` is a history variable: what the program has
asked for, told from its instructions alone.

**Battery.** `core` are the mapper flags that are globals (`CoreBlock`: they
survive the cartridge and are in save states), `cart` those that are members of
the cartridge object. `BeginFlush` truncates the file, `EndFlush` completes it,
and `FlushCutShort`, `FlushFails` and `Restart` are what may happen in between.
An image is a value; banks, the ROM and the MBC3 clock are left out.

**AudioOut, GbAudio.** One action is one critical section of AudioOut's mutex.
`audio` is the program counter of `AudioThreadMain`; `main` follows the calls that
the App makes (`gb::Init`, frames, pause, `Shutdown`, window close). A block is
reduced to the kinds of samples it may hold, with "old" for game audio from before
the last clear of the ring.

**AppStates.** `phase` says whether `UpdateInput` or the drawing function is next.
Each state has its input action (`MainMenuInput`, `PauseInput`, ...) and drawing
action. Positions on the screen are reduced to the number of frames they still
move. `stateCall` is the call to the save-state functions of this pass.

**MoviePlayer.** `main`, `video` and `audio` are program counters; everything else
is `Shared`. `condition_variable::wait` is split where it matters: between the test
of the predicate ("test", mutex held) and blocking ("wait"). Spurious wakeups are
allowed. `Viewer` maps it to `Screening`: the frame queue is `queue`, the counters of
`Play` are `shown` and `skipped`, and the movie has `ended` when `Play` leaves its loop
for the end of the video track and not for a close or a failure. Everything the
threads do among themselves is a stutter.

**OfflineHtml.** `main` is the stage of `App::Run`; every stage but "game" pumps
messages, so that callbacks, `WM_CLOSE` and `WM_SIZE` come at any of them. "game" is
`gb::RunFrame`, which pumps nothing; `GameFrame` is its return. The sets `cancelled`,
`failed`, `done` and `container`, and `bounds` and `reason`, are the fields of the
sessions, by the number of the `Show` they belong to; a session lives on in the
callbacks. `browser` says which answer is due (`EnvironmentReady`,
`ControllerReady`, or their failures), `page` what the page does. `StartShow` is
`Show` up to its loop, `ShowGoesOn` a pass of the loop, `ShowReturns` what follows.
`Promise` maps it to `Applet`: a call lasts while `main` is in the modal loop, what is
on display are the pages of all open browsers, of whatever session, and the answer of a
session that is cancelled is its `reason`. A browser left behind would be a second page
on display, and a callback that touches a finished session another answer.

**AudioStream, MenuAudio.** `call` is where `Write` is; `open` and `alive` separate
the client that the program holds from the card that may be gone. Time passes in
frames of sound (`Tick`); the deadlines `nextRetryMs` and `silentStartNs` with
`silentFrames` are kept as distances from now (`retry`, `lead`). `ahead` is a
history variable: how far the caller is ahead of the clock. `thread` is the
program counter of `ThreadMain`, with the test of a flag (`StartSound`,
`PassSound`) and its clearing (`ClearFlag`) as two steps. A sound is the number of
blocks that are left of it.

**Session.** `where` is the menu, the host or the frame loop, `cpu` holds `halted`, `ime`, IF and
IE; an instruction of a running CPU may leave anything in them, a halted one leaves
them alone. `AfterService` is `ServiceInterrupts`, with VBlank first; `BeginFrame` and
`ReadState` are the host's calls, and `FrameIsDone` is the step in which
`LcdStep` raises `frameDone` and requests VBlank. A file is kept as the moment that
each of its blocks comes from; `StateBlocks` is the table of the code, and `Cut`
applies a prefix of a write to it.

## 3. Runs

| Run | Question | Bounds, and why they are enough |
|---|---|---|
| `lcd_registers` | whatever the game writes between two steps, are rows in bounds, frames complete, DMA exact? | 3 visible lines of 6, modes of 2 to 4 ticks, steps of 1 or 2: every branch of `LcdStep` and every rest in the accumulator occurs; the proofs cover the real numbers |
| `lcd_states` | do states, launches and restarts keep the frame boundary and the accumulator consistent? | 2 visible lines of 4, one slot, few register values |
| `interrupts` | are handlers entered exactly when the program allows it, are requests kept, is the timer exact, does HALT end? | three interrupts, TIMA of one bit, slow and fast speed, one key, one loaded state (`MaxLoads`); an instruction with an entry spans several timer steps |
| `battery` | what can be lost, which files can change, does the cartridge implement the store? | three games, one per mapper, two images, one slot |
| `gb_audio` | buffers, wakeups, stale audio, stopping | ring of 8, buffers of 3, reads of 2 frames: full ring, underrun and partly filled buffers occur |
| `app` | all paths through the application | both titles, 14 pad states (each button, and the pairs that handlers treat specially), 2-frame animations |
| `movie` | does the viewer get what `Screening` promises, do the threads end, and the movie? | 3 frames through a queue of 2, frames may be late by 1 |
| `movie_close` | a sentence, refuted | the same |
| `credits` | is the page the applet that `Applet` promises, does `Show` return with nothing left behind, and does a close end the program? | two `Show`s, so that answers of the first arrive in the second; two sizes of the window |
| `menu_audio` | are sounds played and does the thread stay in real time while cards come and go? | two sounds of two blocks, a block of 2 frames, a card with room for 4, a retry every 5 ticks: a loss falls into every part of a block; a deadline lies at most 4 ticks back (`MaxLag`), beyond which it is over in any case |
| `session` | which mixtures can a cut-short file be, and does a game run on after a launch, a reset or a load? | two saves into one slot (a mixture needs two), VBlank and one other interrupt, the file cut at every multiple of the C library's buffer |
| `session_launch` | two sentences, refuted | no slot: launches alone suffice |

What the passing runs show:

- **lcd_registers** `RenderInBounds`: mode 3 is never entered with LY outside the
  framebuffer, although `LineStart` does not check. `WindowBehindLine`: the window
  never shows a map row below the one the line deserves. `HdmaOwed`: FF55 always
  says one less than what is owed. `NoRowSkipped`, `FrameIsComplete`: rows appear
  in order, and when VBlank is announced the last one is there. `FramesFinish`:
  with the LCD on, `RunFrame` keeps returning.
- **lcd_states** `BoundaryAtVBlank`: the host only sees the start of VBlank, which
  is why a file can leave out `lcdTickAccum`; `AccumInMode`: after any load the
  accumulator fits the loaded mode, and no step crosses two modes.
- **interrupts** `InterruptsAsAsked`: entries happen exactly when a request is
  pending and the program's EI, DI and RETI allow it. `RequestsSurvive`,
  `TimerIsExact` (the loop against a closed form), `HaltEnds`.
- **battery** `LossHasCause`: an unsaved image is saved by the next RAM disable, or a
  write failed, or a state with a clear flag was loaded. Leaving the game flushes
  nothing (App.cpp:96), so this is also what an exit may cost: what was written since
  the game last disabled its RAM. `FileFollowsSession`: no flag of one
  cartridge flushes another. `ImplementsStore`: refinement.
- **gb_audio** `TypeOK` (the ring never holds more than it has room for),
  `BuffersConserved`, `WaitingIsWokenUp`, `NoStaleAfterClear`, `QuietOutsideGame`,
  `StopReturns`.
- **app** `CartMatchesState`, `CallsUseSlots`, `KeysFollowPad`, and that no screen
  is a dead end (`MenuAwakens`, `LaunchArrives`, `ClosingEnds`).
- **movie** `ImplementsScreening`: refinement. Frames are shown in the order of the
  movie and in their time, one is only dropped when its time is over and the first never
  is, and the end comes after the last frame. `NoThreadOutlivesPlay`, `PlayReturns`.
- **credits** `NoBrowserLeft`: a browser whose controller arrives after its `Show`
  returned is closed at once, and one that is open is closed by `Show`.
  `ImplementsApplet`: refinement. There is one call after the other and each is answered
  once; a page is on display only during its call; the answer agrees with the page (the
  navigation that the session itself cancelled is not taken for a failure) or with the
  close of the window, which is left for `App::Run`. `ShowEnds`: unless the
  browser's process dies, which the program does not ask to be told.
  `CloseEndsApp`: the modal loop only looks at the exit request and `App::Run` takes
  it, so a close ends the program; only a frame of a game that never ends keeps it from
  doing so, and a close in the modal loop, or after the drawing, meets no such frame. `PageFollowsWindow`: also for a resize before the browser exists.
- **menu_audio** `PacedInRealTime`: between two writes the caller is ahead of the
  clock by at most the card's buffer, and not at all without a card, however often
  the card was lost; it rests on `Init` dropping the old silent schedule.
  `SoundFollows`: a request is followed by the beginning of its sound, because the flag
  of a sound that plays is left alone, and a flag that is set just before the thread
  clears it is that of a sound whose first block is still to be mixed. `DeviceReopened`.
- **session** `HeadIsOneMoment`: a file cut short is a mixture of two moments, but
  registers, LCD and interrupts lie in the first buffer and are always of one.
  `GameGoesOn`: although HALT is neither saved nor reset, a game that enables VBlank
  runs on after a load, since states are only saved at the start of VBlank.

Of the type invariants only that of `GbAudio` is in a configuration, because it bounds
the ring; all of them are theorems (section 6). `TypeOK` of a component (`SessionTypeOK`
of `Session`) can be added as an INVARIANT to any of its runs, all of which satisfy it.

Deadlock is checked in every run except those of `MoviePlayer`, where it is a
real outcome (finding 1).

## 4. Fairness

- `Lcd`: weak fairness of one step and of the return from `RunFrame`: its loop
  has no other exit and nothing in it waits. The host need not call it again.
  `FramesFinish` assumes that the game leaves the LCD on and stops writing LY;
  without that the loop really does not end.
- `Interrupts`: weak fairness of the loop of `RunFrame`. `HaltEnds` speaks of
  behaviours in which the host keeps running frames; loads are bounded, since a
  user who loads a state in every frame may reset TIMA for ever.
- `Battery`: none; safety only.
- `GbAudio`: weak fairness of the audio and the device thread (the operating
  system runs them) and of the main thread's joins. `StopReturns` also assumes
  that in the end a buffer is served before the next period (43 ms) is over: the
  thread does not look at `threadRunning` while buffers keep being released.
- `AppStates`: weak fairness of `UpdateInput` and of drawing; *not* of drawing the
  game, because a game may keep the LCD off. `LaunchArrives` only says that the
  state is reached.
- `MoviePlayer`: strong fairness of the actions that need the mutex (others keep
  taking it), weak fairness of the rest, and finitely many spurious wakeups.
  Nothing makes the user close the window.
- `OfflineHtml`: strong fairness of the main thread, because the user may click the
  close button again before a pump is over, but none of `GameFrame`: a game may keep
  the LCD off, and `RunFrame` then never returns (System.cpp:135). That the pass comes
  to its end otherwise includes the joins of `gb::Shutdown` and of the movie player,
  which are the subject of `StopReturns` and `PlayReturns`; weak fairness of the browser's answers,
  strong fairness of the page's events and of its refresh to the callback URL after
  52 s (FINDINGS.md:321), since a page may be in the middle of a refused navigation.
- `MenuAudio`: weak fairness of the thread and of time; strong fairness of a reopening
  that succeeds (with a card, opening does not fail for ever); and in the end cards
  are no longer plugged in and out. The main thread asks when it likes.
- `Session`: weak fairness of the loop of `RunFrame`, of the end of a frame while
  the LCD is on, and of the next frame when the user leaves the game alone.

## 5. Findings

Each is the counterexample of a run with `"expect": "violation"`.

1. `movie_close`: `finish` sets `stop` and notifies without the mutex; a decoder
   between its test and its wait misses it, and the join never returns.
2. `session_launch`: `CpuReset` does not touch HALT, the master enable, IF and IE,
   and `VideoReset` switches the LCD off. After a game that was left while its CPU
   was halted with nothing pending, the next game executes no instruction, no
   frame ends, and the program hangs in `RunFrame`. (With the master enable on and
   VBlank pending it instead begins with an entry at 0x40.) FINDINGS.md:401 lists
   the leftovers of a launch without HALT, and Core.h:31 calls the result the
   post-boot state.

Behaviours met while modelling that no run repeats, for a reader of the code:
a save state taken before the game wrote SRAM clears `mbc5Dirty` when it is loaded
later, and the next RAM disable saves nothing (the cause "state" of
`LossHasCause`); LEFT in a slot list sets the selected slot to -1, against
Globals.h:24, but nothing uses it (`CallsUseSlots`); a game left while the pause
screen slides out leaves `pauseClosing` set, and the next session's first pause
closes itself; a movie decoder that fails after the 5 s wait is never noticed;
the list "Not saved" of FINDINGS.md:232 omits the WRAM bank and the joypad select;
an HBlank DMA whose destination runs past VRAM goes on into the cartridge's RAM.

## 6. Proofs

All proofs are checked by TLAPS without unproved steps. They hold for every value
of the constants that satisfies the named ASSUMEs, which TLC evaluates on every
run that extends the module.

**LcdProofs** (assumes `LcdAssumption`: at least two visible lines, fewer than 255
in all, and no instruction longer than the shortest mode, which the code's numbers
satisfy: at most 44 ticks against 80). `RenderInBounds` is not inductive: mode 3
follows mode 2, which follows HBlank or VBlank, and VBlank may come from a file.
`LcdInv` says for each mode where LY and the window row may be, that the
accumulator is inside the mode, that DMA registers and `owed` agree, that `row` is
the row before LY, and that every state file was written at the start of VBlank.
Theorems: `TypeCorrect`, `RenderSafety`, `WindowSafety`, `BoundarySafety`,
`AccumSafety`, `HdmaSafety`, `RowsInOrder`, `CompleteFrames`.

**CoreProofs** holds the proofs of `Interrupts` and of `Session`, the two views of the
core; nothing links their states.

For `Interrupts` (`InterruptsAssumption`), `MasterInv` ties the program's view to the
three flags: `imeRequest` is what was asked last; what the next `ServiceInterrupts` will
work with is what is in force; outside that call no delay is running. Theorems:
`TakenAsAsked`, `RequestsKept`.

The timer is an induction over data, which the induction theorems of the library cannot
give here (they take an operator). The proof does without them. A recursive function is
only known to be *some* solution of its equation, if there is one. `ClosedIsLoop` shows
that the closed form (quotient, remainder, and reloads counted from TMA) is a solution,
from `Quotient` (quotient and remainder are the only ones), `DivideLess` and
`TimaAtReload`. `OneLoop` shows that there is no other: the accumulators at which two
solutions differ would have a least one, since < on the natural numbers is well-founded,
and that one takes a turn of the loop to a smaller one, at which they agree. So
`CountExact`: the loop is the closed form, for every period, TMA and accumulator.
Theorems: `TypeCorrect` (a timer's accumulator and TIMA keep their ranges) and
`TimerExact`.

For `Session` (`SessionAssumption`: the head of a file, 216 bytes, fits into the buffer
of the C library, which has 4096), `SessionInv` says that the blocks of the head come
from the same moment, and from one that was saved or from none. The types depend on it:
a load that met a torn block would have no value to take. Theorems: `HeadSafety`,
`SessionTypes`.

**BatteryProofs** (`CartAssumption`, `NoStateAssumption`). `BatteryInv` adds to the
properties that only MBC5 cartridges ever load a `.sav` (so that the flag that
decides a flush is the global one), and that this flag is only set in a session
that touched SRAM. `EnabledInv` says that the flag is only set while the RAM is
enabled, and for that to survive a load it must hold of the states too, of all that
can be loaded next to an image that can be saved: a cartridge whose file is short saves
nothing, not even later (`SealedStays`), and its states may hold the flag alone.
Theorems: `TypeCorrect`, `LossSafety`, `BatterySafety`,
`FileSafety`, and `Refinement`: the mappers with their files implement
`BatteryStore`, by initial states and step simulation.

**GbAudioProofs** (`AudioAssumption`: the ring has room for the two buffers, and the
sound chip is read in pairs of samples). `AudioInv` follows the two buffers around the
circle of audio thread, queue, device and released queue: `Turns` says that they are
served in turn and which of the two is the one refilled last; `Signalled`, that a
buffer which the thread has not collected has set the event since it last waited;
`RingFilled`, how much silence the ring must still hold after one refill. Without the
order `NoStaleAfterClear` is not inductive: two refills could both fall on one buffer.
Theorems: `TypeCorrect`, `Conservation`, `WokenSafety`, `FreshSafety`, `QuietSafety`.

**AppStatesProofs** (`AppAssumption`: two titles, animations of at least two frames,
a pad may be at rest). `AppInv` adds where the values come from that the properties rely
on: a launch goes on for many frames and still has a game selected, the slot is only
hidden (-1) outside of the slot lists, every way out of the pause screen that the
player chooses has released the keys, and `stateCall` is empty while input is handled.
Theorems: `TypeCorrect`, `CartSafety`, `SlotSafety`, `KeySafety`.

**MenuAudioProofs** (`StreamAssumption`, `MenuAudioAssumption`). What holds the caller
back changes with the client, so the invariant has a part for each: with a client,
what the caller is ahead by lies in the card's buffer and there is no silent schedule
(`OpenInv`); without one the caller is not ahead of that schedule, and outside of its
sleep not ahead at all (`SilentInv`). `PacedInRealTime` alone is not inductive, because
a loss in the middle of a block hands what is left of it from one to the other.
`ThreadInv` says that the flag which is about to be cleared is that of a sound whose
first block is still to be mixed; `RequestsStay`, that a request keeps its flag until
such a sound answers it, although the main thread may set the flag at any time.
Theorems: `TypeCorrect`, `PaceSafety`, `RequestSafety`.

**OfflineHtmlProofs** (`HtmlAssumption`: there is a size). Sessions do not know of each
other, so `HtmlInv` is one invariant of every session. Its centre is `Tracked`: the
only session that is not cancelled is the one that the modal loop works for, which is
what a callback that comes late tells itself by. `DoneMeans` explains a page that is
done, and `Opened` says that its browser is still open and that a browser whose creation
failed is not. From these, `OnDisplay`: the pages of all open browsers are at most one,
that of the running `Show`. The step simulation has one lemma for each group of actions:
only a controller that is in time makes a page appear, page events turn that page and
find no answer to change, and `ReturnShows` proves the answer true. Theorems:
`TypeCorrect`, `BrowserSafety`, `Refinement` (`ImplementsApplet`).

**MoviePlayerProofs** (`MovieAssumption`). Nothing depends on how the threads are
woken: a lost or a spurious wakeup moves a thread between the places around its wait.
`QueueInv` says that the queue holds the frames after those that were shown or dropped,
in order; `DecoderInv`, that the end is only flagged when the decoder has no frame in
its hands; `FinishInv`, what stays true on the way through `finish`. For the refinement,
`Present` is the step that matters: it drops the longest front of the queue that is too
late (`GoneIsLate`, `LatePrefix`), never the first frame of all (`FirstIsKept`), and what
it leaves is a suffix of the queue (`RestIsSuffix`). Theorems: `TypeCorrect`,
`FramesInOrder`, `JoinSafety`, `Refinement` (`ImplementsScreening`).

Each inductive invariant was first checked by TLC as an invariant of its component's
run.

Only model-checked: everything under a temporal operator that needs fairness
(`FramesFinish`, `HaltEnds`, `StopReturns`, `MenuAwakens`, `LaunchArrives`,
`ClosingEnds`, `PlayReturns`, `ShowEnds`, `CloseEndsApp`, `PageFollowsWindow`,
`SoundFollows`, `DeviceReopened`, `GameGoesOn`), which is beyond the prover. Only proved,
and not repeated in a run: the type invariants but that of `GbAudio`, `BatterySafety`
(games without a battery never get a file), `RequestSafety` and `FramesInOrder`. Every
other safety invariant, action property and refinement of the runs is both checked and
proved.

## 7. Not modelled

- The arithmetic of CPU instructions, the scanline renderers and the sound chip:
  sequential data transformations which the repository compares with the original
  by differential tests.
- The GBA core (empty stubs), vendored code and the analysis tools.
- The memory map (`Read8`, `Write8`, `WramRead`): a decode of 65536 addresses without
  control state, which the repository compares with the original over the whole
  address space (`gbdiff.py mem`).
- Display-only code: artwork positions, GameDef, text, sprites, shaders, OpenGL.
- The keyboard and pad mapping, the pacing of frames and the options of the platform
  layer: one pass of arithmetic per frame, and no state that others share.
- What the models leave out is named at the head of each module; the larger
  omissions are OAM DMA and palettes (`Lcd`), DIV and a stack that lies over the
  I/O registers (`Interrupts`), banking and the MBC3 clock (`Battery`), the fade
  (`GbAudio`), the unreachable states, GBA games and the display filter
  (`AppStates`), decoding itself (`MoviePlayer`), the captures of a test run
  (`OfflineHtml`), and the bytes of memory and the preview picture (`Session`).
- In `MenuAudio`: the music and its fades (both flags set undo each other, which
  takes a thread that stalls for over a second), a missing wave file, whose voice
  plays for ever, and a request in the moment in which the thread starts, which
  `ThreadMain` clears. In `AudioStream`: a `GetBuffer` that fails for ever on a client
  that still answers, which makes `Write` spin.
- Double speed, WRAM bank, joypad select and timer rests are not in a state file; a
  loaded game really may find others, and no property of the code contradicts it.
- The unlocked read in `Play` after its wait is a data race without a model.

## 8. Plan

The plan is carried out: Lcd, Battery with BatteryStore, AudioOut and GbAudio, AppStates,
MoviePlayer with Screening, Interrupts, OfflineHtml with Applet, AudioStream and
MenuAudio, Session. The memory map was dropped from it (section 7).

Every safety invariant and every action property that a run checks is also a theorem,
and the three abstract specifications are proved to be implemented. What stays with TLC
alone is liveness under fairness.
