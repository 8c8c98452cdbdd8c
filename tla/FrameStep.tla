----------------------------- MODULE FrameStep -----------------------------
(***************************************************************************)
(* The frame orchestrator of the wasm front end: WasmEmulator's input      *)
(* fields and processFrame, and WasmEmuThread::nextFrame with its buffer    *)
(* pipeline (video copy, ABGR->ARGB conversion, audio drain with underrun   *)
(* fallback) and the frame-update notification.                            *)
(*                                                                         *)
(* Everything runs on the one JavaScript thread, but nextFrame is not      *)
(* atomic with respect to the host: the engine's RunFrame calls back into  *)
(* the host (WriteNDSSave -> onSaveWrite, Addon_Rumble* -> onRumble*,      *)
(* SignalStop -> onShutdown) and updateWebFrame calls onEmulatorFrameUpdate*)
(* synchronously.  A JavaScript handler may call any exported method of    *)
(* the emulator, processFrame included.  A step is therefore split at      *)
(* exactly those two call-outs ("inRun" and "inNotify"), and the host's    *)
(* calls are enabled whenever the host has control.  Nested steps are a    *)
(* stack of at most MaxDepth frames.                                       *)
(*                                                                         *)
(* Pixels are kept as 32-bit numbers; one pixel stands for every pixel of  *)
(* a screen, because the conversion loop treats each one alike.            *)
(***************************************************************************)
EXTENDS Integers, Sequences, Bitwise

CONSTANTS
    Buttons,       \* raw u32 values the host passes to setInput
    TouchPoints,   \* <<x, y>> int pairs the host passes to touchScreen
    FrontPixels,   \* 32-bit ABGR pixels the GPU front buffer may hold
    PendingSizes,  \* values SPU.GetOutputSize() may return
    SampleBytes,   \* bytes of audioBuffer one counted sample occupies
    MaxDepth       \* bound on nested processFrame calls

Screens == {"top", "btm"}

\* The engine's touch state after nds->ReleaseScreen(); after
\* nds->TouchScreen(x, y) it is <<x, y>>.
Released == <<>>

\* s16 audioBuffer[4096 * 2], in bytes (WasmEmulator.h:26).
AudioBufferBytes == 4096 * 2 * 2

\* memset(audioBuffer, 0, 547); audioSamples = 547 (WasmEmuThread.cpp:74-75).
UnderrunBytes == 547
UnderrunSamples == 547

ASSUME /\ Buttons \subseteq [hi : 0..65535, lo : 0..65535]
       /\ FrontPixels \subseteq [hi : 0..65535, lo : 0..65535]
       /\ PendingSizes \subseteq Nat
       /\ SampleBytes \in {2, 4}
       /\ MaxDepth \in Nat \ {0}

VARIABLES
    buttonInput,   \* WasmEmulator::buttonInput
    isTouching,    \* WasmEmulator::isTouching
    touchX,        \* WasmEmulator::touchX (u16)
    touchY,        \* WasmEmulator::touchY (u16)
    running,       \* WasmEmuThread::running
    stack,         \* nextFrame activations in progress, innermost last
    keyMask,       \* key mask last given to the engine (nds->SetKeyMask)
    engineLid,     \* lid state last given to the engine (nds->SetLidClosed)
    engineTouch,   \* touch state last given to the engine
    front,         \* engine GPU front buffer pixel, per screen
    video,         \* videoBufferTop / videoBufferBtm pixel, per screen
    audioSamples,  \* WasmEmulator::audioSamples
    audioWritten,  \* leading bytes of audioBuffer written by the last drain
    lastStep       \* history: kind of the last completed step

vars == <<buttonInput, isTouching, touchX, touchY, running, stack, keyMask,
          engineLid, engineTouch, front, video, audioSamples, audioWritten,
          lastStep>>

inputVars == <<buttonInput, isTouching, touchX, touchY>>
engineVars == <<keyMask, engineLid, engineTouch>>
outputVars == <<front, video, audioSamples, audioWritten>>

-----------------------------------------------------------------------------
(* Conversions done by the code.  TLC's integers stop at 2^31, so a u32  *)
(* is a pair of 16-bit halves and the code's 32-bit masks and shifts act  *)
(* on the halves.                                                          *)

Word == [hi : 0..65535, lo : 0..65535]
ToWord(n) == [hi |-> n \div 65536, lo |-> n % 65536]
And32(a, b) == [hi |-> a.hi & b.hi, lo |-> a.lo & b.lo]
Or32(a, b) == [hi |-> a.hi | b.hi, lo |-> a.lo | b.lo]
Not32(a) == [hi |-> 65535 - a.hi, lo |-> 65535 - a.lo]
Shl16(a) == [hi |-> a.lo, lo |-> 0]
Shr16(a) == [hi |-> 0, lo |-> a.hi]

\* int -> u16 conversion of touchScreen's arguments.
U16(x) == x % 65536

\* Mutant: the complement forgotten (data.buttonInput & 0xfff).
KeyMaskOf_NoComplement(b) == And32(b, ToWord(4095)).lo

\* ~data.buttonInput & 0xfff on a u32 (WasmEmuThread.cpp:18).
KeyMaskOf(b) == And32(Not32(b), ToWord(4095)).lo

\* Mutant: the keep-mask typed as 0x0000ff00, dropping alpha.
ConvertPixel_DropAlpha(p) ==
    Or32(Or32(And32(p, [hi |-> 0, lo |-> 65280]),
              Shl16(And32(p, [hi |-> 0, lo |-> 255]))),
         Shr16(And32(p, [hi |-> 255, lo |-> 0])))

\* (p & 0xff00ff00) | ((p & 0x000000ff) << 16) | ((p & 0x00ff0000) >> 16)
ConvertPixel(p) ==
    Or32(Or32(And32(p, [hi |-> 65280, lo |-> 65280]),
              Shl16(And32(p, [hi |-> 0, lo |-> 255]))),
         Shr16(And32(p, [hi |-> 255, lo |-> 0])))

\* struct FrameData: the snapshot processFrame hands to nextFrame.
FrameData == [buttonInput : Word, lidClosed : BOOLEAN, isTouching : BOOLEAN,
              touchX : 0..65535, touchY : 0..65535, ghostFrame : BOOLEAN]

-----------------------------------------------------------------------------
Top == stack[Len(stack)]

\* The host runs JavaScript at top level, or inside a handler the engine or
\* updateWebFrame called.
HostHasControl == stack = <<>> \/ (stack # <<>> /\ Top.pc \in {"inRun", "inNotify"})

Init ==
    /\ buttonInput = ToWord(0)
    /\ isTouching = FALSE
    /\ touchX \in {0, 65535}        \* never initialised by the constructor
    /\ touchY \in {0, 65535}
    /\ running = FALSE
    /\ stack = <<>>
    /\ keyMask = 4095
    /\ engineLid = FALSE
    /\ engineTouch = Released
    /\ front \in [Screens -> FrontPixels]
    \* The video buffers and audioSamples have no initialiser either; only
    \* zero (fresh wasm heap) is enumerated, since every step overwrites
    \* them before a property reads them.
    /\ video = [s \in Screens |-> ToWord(0)]
    /\ audioSamples = 0
    /\ audioWritten = 0
    /\ lastStep = "none"

-----------------------------------------------------------------------------
(* Host calls of the exported setters.                                     *)

setInput(b) ==
    /\ HostHasControl
    /\ buttonInput' = b
    /\ UNCHANGED <<isTouching, touchX, touchY, running, stack,
                   engineVars, outputVars, lastStep>>

\* Mutant: the int arguments stored without narrowing to u16.
touchScreen_NoNarrow(p) ==
    /\ HostHasControl
    /\ touchX' = p[1]
    /\ touchY' = p[2]
    /\ isTouching' = TRUE
    /\ UNCHANGED <<buttonInput, running, stack, engineVars, outputVars, lastStep>>

touchScreen(p) ==
    /\ HostHasControl
    /\ touchX' = U16(p[1])
    /\ touchY' = U16(p[2])
    /\ isTouching' = TRUE
    /\ UNCHANGED <<buttonInput, running, stack, engineVars, outputVars, lastStep>>

releaseScreen ==
    /\ HostHasControl
    /\ isTouching' = FALSE
    /\ UNCHANGED <<buttonInput, touchX, touchY, running, stack,
                   engineVars, outputVars, lastStep>>

-----------------------------------------------------------------------------
(* processFrame and nextFrame.                                             *)

\* nextFrame up to the engine call: log if running is already set (the
\* diagnostic is recorded in the activation as "logged"), set it, hand the
\* FrameData's keys and touch to the engine and call RunFrame or
\* RunGhostFrame, which may call back into the host.
nextFrameEnter(data) ==
    /\ stack' = Append(stack, [data |-> data, pc |-> "inRun",
                              logged |-> running, videoBefore |-> video])
    /\ running' = TRUE
    /\ keyMask' = KeyMaskOf(data.buttonInput)
    /\ engineLid' = data.lidClosed
    /\ engineTouch' = IF data.isTouching
                      THEN <<data.touchX, data.touchY>>
                      ELSE Released

\* processFrame snapshots the input fields into a FrameData and calls
\* nextFrame.  lidClosed keeps its initialiser false: nothing exported
\* writes it.  (setDateTime's RTC update is engine state no property
\* reads.)
processFrame(ghost) ==
    /\ HostHasControl
    /\ Len(stack) < MaxDepth
    /\ nextFrameEnter([buttonInput |-> buttonInput, lidClosed |-> FALSE,
                       isTouching |-> isTouching,
                       touchX |-> touchX, touchY |-> touchY,
                       ghostFrame |-> ghost])
    /\ UNCHANGED <<inputVars, outputVars, lastStep>>

\* RunFrame / RunGhostFrame returns; the opaque engine leaves some frame in
\* its GPU front buffer.
EndRun ==
    /\ stack # <<>>
    /\ Top.pc = "inRun"
    /\ front' \in [Screens -> FrontPixels]
    /\ stack' = [stack EXCEPT ![Len(stack)].pc = "harvest"]
    /\ UNCHANGED <<inputVars, running, engineVars, video,
                   audioSamples, audioWritten, lastStep>>

\* Mutant: the underrun fallback left out, so an empty read reports 0.
Harvest_NoFallback ==
    /\ stack # <<>>
    /\ Top.pc = "harvest"
    /\ LET copied == IF Top.data.ghostFrame THEN video ELSE front
       IN video' = [s \in Screens |-> ConvertPixel(copied[s])]
    /\ \E pending \in PendingSizes :
         \E n \in {0, 2 * pending} :
           /\ audioSamples' = n
           /\ audioWritten' = n * SampleBytes
    /\ stack' = [stack EXCEPT ![Len(stack)].pc = "inNotify"]
    /\ UNCHANGED <<inputVars, running, engineVars, front, lastStep>>

\* The copy of the front buffer (non-ghost only), the conversion loop over
\* both screens, and the audio drain with its underrun fallback; then
\* updateWebFrame calls out to the host.
Harvest ==
    /\ stack # <<>>
    /\ Top.pc = "harvest"
    /\ LET ghost == Top.data.ghostFrame
           copied == IF ghost THEN video ELSE front
       IN video' = [s \in Screens |-> ConvertPixel(copied[s])]
    /\ \E pending \in PendingSizes :
         \* targetOutputSize = GetOutputSize() * 2; ReadOutput returns at
         \* most that many, and nothing at all on an underrun.
         \E n \in {0, 2 * pending} :
           /\ audioSamples' = IF n = 0 THEN UnderrunSamples ELSE n
           /\ audioWritten' = IF n = 0 THEN UnderrunBytes ELSE n * SampleBytes
    /\ stack' = [stack EXCEPT ![Len(stack)].pc = "inNotify"]
    /\ UNCHANGED <<inputVars, running, engineVars, front, lastStep>>

\* updateWebFrame returns; nextFrame clears running and returns.
EndNotify ==
    /\ stack # <<>>
    /\ Top.pc = "inNotify"
    /\ running' = FALSE
    /\ lastStep' = IF Top.data.ghostFrame THEN "ghost" ELSE "normal"
    /\ stack' = SubSeq(stack, 1, Len(stack) - 1)
    /\ UNCHANGED <<inputVars, engineVars, outputVars>>

Next ==
    \/ \E b \in Buttons : setInput(b)
    \/ \E p \in TouchPoints : touchScreen(p)
    \/ releaseScreen
    \/ \E g \in BOOLEAN : processFrame(g)
    \/ EndRun
    \/ Harvest
    \/ EndNotify

Spec == Init /\ [][Next]_vars

-----------------------------------------------------------------------------
(* Reference definitions the properties compare the code against.          *)

\* Byte lane i (0 = least significant) of a 32-bit pixel.
Lane(p, i) == LET half == IF i < 2 THEN p.lo ELSE p.hi
              IN IF i % 2 = 0 THEN half % 256 ELSE half \div 256

\* The ARGB pixel holding the same colour as the ABGR pixel p: red and blue
\* lanes exchanged, green and alpha kept.
ARGBOf(p) == [hi |-> Lane(p, 0) + Lane(p, 3) * 256, lo |-> Lane(p, 2) + Lane(p, 1) * 256]

\* Bit i of a natural number.
Bit(x, i) == (x \div 2^i) % 2

-----------------------------------------------------------------------------
TypeOK ==
    /\ buttonInput \in Buttons \cup {ToWord(0)}
    /\ isTouching \in BOOLEAN
    /\ touchX \in 0..65535 /\ touchY \in 0..65535
    /\ running \in BOOLEAN
    /\ Len(stack) <= MaxDepth
    /\ \A i \in 1..Len(stack) : /\ stack[i].pc \in {"inRun", "harvest", "inNotify"}
                                /\ stack[i].data \in FrameData
    /\ keyMask \in 0..4095
    /\ engineTouch \in ({Released} \cup (0..65535) \X (0..65535))
    /\ front \in [Screens -> FrontPixels]
    /\ video \in [Screens -> Word]
    /\ audioSamples \in Nat /\ audioWritten \in Nat
    /\ lastStep \in {"none", "normal", "ghost"}

\* Whenever the host has control between steps and the last step was a
\* normal one, both host-visible video buffers hold the engine's current
\* front frame in ARGB order (nextFrame's memcpy followed by the channel
\* swap loop).
ConvertedVideo ==
    (stack = <<>> /\ lastStep = "normal") =>
        \A s \in Screens : video[s] = ARGBOf(front[s])

\* While the engine runs a frame, it holds the key mask with a bit set for
\* exactly each of the 12 buttons that was not pressed in the input the
\* host had set when it called processFrame (bits above 11 of the u32 and
\* the complement's high bits never reach it), and the touch (or release)
\* the host had set then, its coordinates narrowed to u16.  Setter calls
\* the host makes from the engine's callbacks do not reach the engine
\* until the next processFrame.  This holds for a step with no nested step
\* inside it: a nested processFrame from a callback replaces the engine's
\* input for the rest of the outer RunFrame (nextFrame has no save and
\* restore), which frame_pass excludes with MaxDepth 1.
EngineSeesRequestedInput ==
    (stack # <<>> /\ Top.pc = "inRun") =>
        /\ keyMask < 4096
        /\ \A i \in 0..11 : Bit(keyMask, i) # Bit(Top.data.buttonInput.lo, i)
        /\ engineLid = Top.data.lidClosed
        /\ engineTouch = IF Top.data.isTouching
                         THEN <<Top.data.touchX, Top.data.touchY>>
                         ELSE Released

\* After any step, the count the host reads with getAudioSamples is
\* positive and the samples it counts lie inside audioBuffer (the drain's
\* underrun fallback and the ReadOutput target of GetOutputSize() * 2).
AudioCountInBounds ==
    (stack = <<>> /\ lastStep # "none") =>
        /\ audioSamples > 0
        /\ audioSamples * SampleBytes <= AudioBufferBytes

\* A ghost step leaves the video buffers as they were before the step
\* (spec 4.1: the conversion is skipped, not re-applied); checked when the
\* step hands the frame to the host in updateWebFrame.
GhostFramePreservesVideo ==
    (stack # <<>> /\ Top.pc = "inNotify" /\ Top.data.ghostFrame) =>
        video = Top.videoBefore

\* Every audio byte the host is told is valid was written by the last
\* drain: audioSamples never counts stale bytes of an earlier step.
AudioReportIsFresh ==
    (stack = <<>> /\ lastStep # "none") =>
        audioSamples * SampleBytes <= audioWritten

\* Every processFrame that starts while another step is in progress finds
\* running set, so nextFrame logs the re-entry.
ReentryLogged ==
    [][(Len(stack') > Len(stack) /\ stack # <<>>) => stack'[Len(stack')].logged]_vars

=============================================================================
