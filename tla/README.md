# TLA+ models of the wasmelonDS front end

This directory holds TLA+ models of the C++ front end that runs the melonDS emulator
in WebAssembly (`src/wasmelonDS/src/frontend/wasm/`). The modules are checked with TLC.
The emulation engine (melonDS proper) is not part of this repository. It is modelled
only through the calls the front end makes to it and the callbacks it makes back.

## The system

- **WasmEmulator** is the object JavaScript creates.
  - It holds the host's input fields: `buttonInput`, `isTouching`, `touchX`, `touchY`.
  - It holds the shared output buffers: two 256x192 video buffers, `audioBuffer` and `audioSamples`.
  - It holds the save path and a copy of the firmware settings.
  - It exports `processFrame`, `loadRom`, `loadFreeBIOS`/`loadUserBIOS`, the setters, and getters for the buffers.
- **WasmEmuThread::nextFrame** runs one frame. Despite the name, it runs on the caller's thread. In order, it:
  1. sets `running`;
  2. hands the key mask and touch to the engine;
  3. runs the frame;
  4. copies the GPU front buffer (not on a ghost frame);
  5. swaps red and blue in every pixel;
  6. drains the audio, falling back to 547 samples on an underrun;
  7. calls `updateWebFrame`, which calls into JavaScript.
- **WasmPlatform** implements melonDS's `Platform` interface:
  - files over Emscripten's stdio (musl), with the mode string from `WasmPlatformUtil`;
  - semaphores, mutexes and threads over the C++ standard library;
  - the callbacks `WriteNDSSave`, `Addon_Rumble*` and `SignalStop`, which reach JavaScript through WasmEmulator.
- **WasmNdsCart** loads a ROM file and parses it into a cart. `loadRom` moves the cart into the engine.
- **WasmFirmwareSettings** holds the nickname, language and birthday, and builds the firmware (`toFirmware`).

The parts interact in these ways:
- The engine calls back into the host during `RunFrame`, and `updateWebFrame` does too. JavaScript handlers can call any exported method, including `processFrame`. So a frame is not atomic with respect to the host.
- Saves go engine → `WriteNDSSave` → `writeSave` → `OpenFile`/`FileWrite`.
- Every loader opens files through `Platform::OpenFile`, and they all share the file system's descriptors.

## Modules

| Module | Models | State | Actions |
|---|---|---|---|
| `FrameStep` | `WasmEmulator` input fields, `processFrame`, `WasmEmuThread::nextFrame` | input fields, `running`, a stack of `nextFrame` activations (pc `inRun`/`harvest`/`inNotify`), what the engine was given (key mask, lid, touch), the front buffer, the video buffers, `audioSamples` | `setInput`, `touchScreen`, `releaseScreen`, `processFrame`, `EndRun`, `Harvest`, `EndNotify` |
| `Sync` | `Semaphore_*` over `std::counting_semaphore` and `Mutex_*` over `std::mutex` | count; the mutex's owner; each consumer's location inside its call | `Semaphore_Post`, `Semaphore_Wait`, `Semaphore_TryWait`, `Semaphore_Reset`, `Mutex_Lock`, `Mutex_TryLock`, `Mutex_Unlock`, and the library steps inside them |
| `FileStore` | `OpenFile` and the mode resolution, stdio buffering, `CheckFileWritable`, the engine's own file calls (write, flush, close, seek, rewind, read, length), `setSavePath`, `writeSave`, the save part of `loadRom`, page reload | file system contents, the open FILEs with their buffers, `savePath`, the save handed to the engine | one per call, plus `Restart` |
| `Loaders` | `loadFromFile`, `getCart`/`loadRom`, `loadFreeBIOS`, `loadUserBIOS`, `WasmFirmwareSettings`, `toFirmware` | descriptors held, the cart object, the engine's cart, BIOS, host and emulator settings, the engine's firmware user data | one per call, plus `Restart` |

Each module has an `MC_*` module that gives its constants small values.

How the modules correspond to the code:
- **FrameStep** splits `nextFrame` at the two places where control goes to JavaScript:
  - inside `RunFrame`/`RunGhostFrame` (pc `inRun`);
  - inside `updateWebFrame` (pc `inNotify`).

  Host actions are enabled whenever the host has control. That control point is the host-notification bridge: `startRumble`, `stopRumble`, `handleShutdown` and `updateWebFrame` only call into JavaScript.
  `processFrame`'s snapshot is a `FrameData` record. Its `lidClosed` is always false, because nothing exported writes the field.

  A 32-bit pixel or button word is a pair of 16-bit halves, because TLC's integers are 31-bit. The code's masks and shifts act on the halves. One pixel stands for a whole screen, because the conversion loop treats every pixel alike.
- **Sync**:
  - `Semaphore_Reset`'s loop `while(!try_acquire_for(0)) acquire();` is two locations: the test and the blocking body.
  - libc++'s `try_acquire` fails only when the count is zero.
  - `Mutex_Lock` is a call location `locking` and a library step `LockAcquire` that takes the free mutex. `Mutex_TryLock` takes a free mutex or fails spuriously, as `std::mutex::try_lock` may. A thread never locks a mutex it holds, and only the holder unlocks.
  - The threads that wait on the semaphore also take the mutex, so a thread may block on the semaphore while holding the mutex.
- **FileStore**:
  - `Restart` (a page reload) keeps the file system contents and drops every FILE with its buffer. That assumes the host persists the file system; the comment at `WasmPlatform.cpp:14-17` calls IndexedDB persistence future work, so without it a reload loses every save, and `LargeSaveDurable` is a statement about the file system within a page.
  - A file is a sequence of data items, each with a size. musl's `fwrite` copies data that fits the 1024-byte buffer into the buffer. Otherwise it writes the buffer and the data through.
  - Data reaches the file system only on write-through, `fflush` or `fclose`.
  - `fopen` fails on a missing file in `"r"` mode and when the descriptors run out (`MaxOpen` scales Emscripten's 4096).
  - FileMode flags are a set of names.
  - `FileSeek`, `FileRewind`, `FileRead` and `FileLength` first write out the buffer, as musl's `fseek` and `__toread` do, then move the position in data items.
  - A negative seek fails after the flush. `FileLength` leaves the position at 0.
- **Loaders**:
  - A file is its length and whether `ParseROM` accepts it.
  - Nickname units are strings.
  - `Firmware(NULL)` and `fclose(NULL)` are undefined, so `toFirmware` after a failed open may trap or go on.
  - `make_unique` above `AllocLimit` may throw `bad_alloc`.

## Runs

| Run | Expect | What it shows |
|---|---|---|
| `frame_pass` | pass | With the host's setter calls interleaved at the callback points of a non-nested step:<br>- the engine runs with the key mask (the complement of the u32 buttons, cut to 12 bits) and the u16-narrowed touch snapshotted at `processFrame` (`EngineSeesRequestedInput`);<br>- after a normal step, both buffers hold the converted front frame (`ConvertedVideo`);<br>- after a step the audio count is positive, through the underrun fallback (`AudioCountInBounds`). |
| `frame_ghost` | violation | A ghost step swaps the channels of buffers it never refreshed. The spec says they stay unchanged. |
| `frame_audio` | violation | On an underrun, 547 bytes are cleared but 547 samples are reported, so stale audio is played. |
| `frame_reentry` | violation | A nested `processFrame` clears `running` for the outer step, so a later re-entry is not logged. |
| `sem_pass` | pass | With two threads interleaving waits, timed tries, resets and mutex calls against posts, the count never goes negative: every acquire, the reset loop's included, blocks for a token (`TypeOK`). It fires every action of `Sync`. |
| `sem_block` | violation | `Semaphore_Reset` on an empty semaphore blocks forever, even when posting stops. (The model also shows that the loop takes a single token when tokens are present, but no property checks that.) |
| `files_pass` | pass | Opens with Append/Preserve/NoCreate or without Write never truncate an existing file. A save larger than the stdio buffer is on disk when `writeSave` returns, and no leaked FILE overwrites it later. |
| `files_writemode` | violation | Write\|Preserve on an existing file opens `"rb"`, which is read-only. The spec says it opens read-extendable. |
| `files_reload` | violation | A save of 1024 bytes or less stays in the stdio buffer of a FILE that is never closed. `loadRom` then reads the older or empty file. `onSaveWrite` has already fired by then, although spec 4.5 places it after a persistent write. |
| `loaders_pass` | pass | The engine only runs a cart parsed from a non-empty file within the 1 GiB cap. After `setNickname`, the firmware carries exactly that name and a language in 0..7. |
| `loaders_nickname` | violation | The constructor copies 6 bytes of `u"Player"`, which is three units, but sets the length to 6. The default nickname is therefore "Pla" followed by three zero units. |
| `loaders_romloads` | violation | `loadUserBIOS`'s early returns and `loadRom`'s save read leak descriptors. Once they run out, a valid ROM fails to load. |

Every property of a passing run has a mutant in `PROJECT.json`: a plausible bug in the mapped code that TLC catches under the run's own configuration.

## Bounds

- **FrameStep**:
  - The button words include one with bits above bit 11 (4097).
  - The touch points include out-of-range ints (-1 and 65543), which wrap in the u16 fields.
  - The pixel values have distinct red and blue lanes and a non-trivial alpha.
  - The pending audio sizes include 0 (underrun) and 2047, which fills the 4096-sample target.
  - The pass run uses `MaxDepth` 1: its input property is about a step with no nested step, since a nested `processFrame` replaces the engine's input for the rest of the outer `RunFrame`. `frame_reentry` uses 2, because a third call needs one nested step.
- **Sync**: one producer, two consumers, posts of 1 and 2, and at most 4 tokens. These are enough for a reset to race a wait, and for a post of 2 to leave a token after one is taken.
- **FileStore**:
  - One save path and one engine path.
  - A 512-byte EEPROM save, which fits the buffer, and a 64 KiB flash save, which does not.
  - Two descriptors, so leaks reach the limit within a few steps.
  - Files of at most two items.
  - Seek offsets -1 (fails) and +1 (goes past the end from `SEEK_END`, which leaves a hole).
- **Loaders**:
  - ROM sizes 0, 512, exactly 1 GiB and 1 GiB + 1.
  - BIOS sizes that are right and wrong.
  - Three descriptors, enough for two failed `loadUserBIOS` calls to exhaust them.
  - A short nickname and an 11-unit one.
  - Languages 5 and 8.

## Fairness

- The only liveness property is `ResetReturns` in `Sync`. Weak fairness is assumed on each consumer's steps inside the library: a blocked `acquire` proceeds once a token stays available, a blocked `lock` proceeds once the mutex stays free, and a timed try eventually times out. That is the library's guarantee.
- The calls themselves are the threads' choice and are not fair.
- `ResetReturns` adds the assumption that posting eventually stops, so the violation it finds is a reset that blocks with no producer left.

## Not modelled

- Thread wrappers: one-line forwards to `std::thread`.
  - What a thread runs, and when it is joined or freed, is engine code outside this repository.
  - `Mutex_Free` is a `delete` and is not modelled.
  - `Thread_Free` of an unjoined thread terminates. Whether that happens depends on the engine's calls.
- Lifecycle and engine-only calls: the constructor, destructor, `initialize`, `setBatteryLevels`, `setDateTime`. They only call into the engine. `loadRom` also ignores its `reset` argument.
- Read-only getters: `getCartTitle`/`getCartCode` and the buffer getters.
- The engine stubs (MP, Net, Camera, DynamicLibrary, `WriteGBASave`, `WriteFirmware`), logging and timing.
  - `Sleep`'s unit and 32-bit truncation is a pure conversion with no state; it is listed as a hazard. `GetUSCount` returns a constant 0.
- A composition of `FileStore` and `Loaders` on one descriptor table. The two modules count descriptors differently (a sequence of FILEs, and a number), and the shared-table interaction is already shown inside each module by its own leaks.
- `PlatformOGL.h`.
- The embind declarations.

## Properties removed after review

- A refinement of an atomic-frame specification (`FrameOutputs`): its setters copied the code's formulas and its frame restated `ConvertedVideo` and `AudioCountInBounds`, so it held by construction.
- "The engine never gets a touch before the host set one": the history variable it read was set in the same step as `isTouching`, so it only restated `isTouching`'s initialiser.
- "`Semaphore_TryWait` always returns": the modelled timeout is enabled at every count, so weak fairness alone made it hold.

## Plan for later work

- A pass run of `FrameStep` with nesting, to state what still holds under re-entry.
- A composition of `FileStore` with `Loaders` on one descriptor table.
- The `CheckFileWritable` truncation and the NULL-FILE traps as properties of their own.
