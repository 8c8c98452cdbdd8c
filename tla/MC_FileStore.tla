---------------------------- MODULE MC_FileStore ----------------------------
(* Small instances of FileStore for TLC.                                   *)
EXTENDS FileStore

CONSTANTS save1, core1, nopath

MCSavePaths == {save1}
MCCorePaths == {core1}

\* A 4 Kbit EEPROM save (512 bytes, fits musl's 1024-byte buffer) and a
\* 64 KiB flash save.
MCData == {[id |-> "eeprom", size |-> 512], [id |-> "flash", size |-> 65536]}

\* Read-only, plain write, the engine's ReadWriteExisting, write with
\* preserve but no read, and append.
MCModes == {{"Read"}, {"Write"}, {"Read", "Write", "Preserve"},
            {"Write", "Preserve"}, {"Append"}}
\* A seek before the start (which fails) and one item forward from each
\* origin (past the end from SEEK_END).
MCSeekOffsets == {-1, 1}
=============================================================================
