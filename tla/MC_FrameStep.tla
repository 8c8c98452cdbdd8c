---------------------------- MODULE MC_FrameStep ----------------------------
(* Small instances of FrameStep for TLC.                                   *)
EXTENDS FrameStep

\* Button A only (the spec's 0x001), all 12 pressed, and a value with a bit
\* above the 12-bit field (0x1001).
MCButtons == {ToWord(1), ToWord(4095), ToWord(4097)}

\* An ordinary point and one outside u16 range on both axes.
MCTouchPoints == {<<10, 20>>, <<-1, 65536 + 7>>}

\* Two ABGR pixels with different red and blue lanes: 0xff3300cc and
\* 0x80a1b2c3.
MCFrontPixels == {[hi |-> 65331, lo |-> 204], [hi |-> 32929, lo |-> 45763]}

\* Empty output, one 60 Hz frame of samples at 44.1 kHz, the engine's
\* largest pending count (half its 2 * 2048 s16 output buffer, minus one).
MCPendingSizes == {0, 735, 2047}
=============================================================================
