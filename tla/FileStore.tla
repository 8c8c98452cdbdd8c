----------------------------- MODULE FileStore -----------------------------
(***************************************************************************)
(* The file layer of the wasm front end and the save path that uses it:   *)
(* Platform::OpenFile with the access-mode resolution of WasmPlatformUtil, *)
(* fopen/fwrite/fflush/fclose on the Emscripten file system, the engine's  *)
(* own use of those calls, CheckFileWritable, and WasmEmulator's save      *)
(* handling (setSavePath, writeSave via WriteNDSSave, the save part of     *)
(* loadRom).  A page reload (Restart) drops every FILE and its stdio       *)
(* buffer; the file system contents survive it.                            *)
(*                                                                         *)
(* A file's content is a sequence of data items; a data item is a record   *)
(* with a size, which decides whether musl's fwrite buffers it or writes   *)
(* it through.  The open FILEs are the sequence "files"; fclose removes   *)
(* one, so the descriptor limit bounds it.                                 *)
(***************************************************************************)
EXTENDS Integers, Sequences, FiniteSets
LOCAL INSTANCE SequencesExt

CONSTANTS
    SavePaths,  \* paths the host may give setSavePath
    CorePaths,  \* paths the emulation engine opens through Platform::OpenFile
    NoPath,     \* WasmEmulator::savePath before setSavePath: ""
    Data,       \* data items: records [id, size]
    Modes,      \* FileMode flag sets the engine passes to OpenFile
    BufSize,    \* size of a FILE's stdio buffer (musl BUFSIZ)
    MaxOpen,    \* open descriptors the file system allows
    MaxContent, \* model bound on a file's length in data items
    SeekOffsets \* offsets, in data items, the engine passes to FileSeek

Paths == SavePaths \cup CorePaths

\* Platform::FileMode flags as a set of names (spec 6).
Flags == {"Read", "Write", "Preserve", "NoCreate", "Text", "Append"}

None == [id |-> "none", size |-> 0]

ASSUME /\ SavePaths \cap CorePaths = {}
       /\ NoPath \notin Paths
       /\ \A m \in Modes : m \subseteq Flags
       /\ \A d \in Data : d.size \in Nat \ {0}
       /\ None \notin Data
       /\ {BufSize, MaxOpen, MaxContent} \subseteq Nat \ {0}
       /\ SeekOffsets \subseteq Int

VARIABLES
    disk,        \* file system: path -> [exists, content]
    files,       \* the open FILEs, by handle number
    savePath,    \* WasmEmulator::savePath
    trapped,     \* the instance trapped on a NULL FILE
    engineSave,  \* what loadRom last gave nds->SetNDSSave
    lastSaved    \* history: the last data writeSave wrote, per save path

vars == <<disk, files, savePath, trapped, engineSave, lastSaved>>

NoFile == [exists |-> FALSE, content |-> <<>>]
NoLoad == [path |-> NoPath, content |-> <<>>]

-----------------------------------------------------------------------------
(* WasmPlatformUtil.cpp: the mode string OpenFile passes to fopen, kept as *)
(* its three parts.                                                        *)

\* Mutant: the Preserve test dropped, so Write|Preserve truncates.
AccessMode_NoPreserve(mode, file_exists) ==
    IF "Append" \in mode THEN "a"
    ELSE IF "Write" \notin mode THEN "r"
    ELSE IF "NoCreate" \in mode THEN "r"
    ELSE "w"

AccessMode(mode, file_exists) ==
    IF "Append" \in mode THEN "a"
    ELSE IF "Write" \notin mode THEN "r"
    ELSE IF "NoCreate" \in mode THEN "r"
    ELSE IF "Preserve" \in mode /\ file_exists THEN "r"
    ELSE "w"

IsExtended(mode) == {"Read", "Write"} \subseteq mode

GetModeString(mode, file_exists) ==
    [access |-> AccessMode(mode, file_exists),
     plus   |-> IsExtended(mode),
     binary |-> "Text" \notin mode]

-----------------------------------------------------------------------------
(* fopen and the stdio calls, as C and musl define them.                   *)

OpenCount == Len(files)

\* Mutant: the descriptor limit not enforced.
FOpenOk_NoLimit(p, ms) ==
    /\ p \in Paths
    /\ ms.access = "r" => disk[p].exists

\* fopen fails on a path with no directory entry, on "r" of a missing
\* file, and when the descriptors run out.
FOpenOk(p, ms) ==
    /\ p \in Paths
    /\ OpenCount < MaxOpen
    /\ ms.access = "r" => disk[p].exists

\* "w" creates or truncates, "a" creates, "r" changes nothing.
DiskAfterOpen(p, ms) ==
    CASE ms.access = "w" -> [disk EXCEPT ![p] = [exists |-> TRUE, content |-> <<>>]]
      [] ms.access = "a" -> [disk EXCEPT ![p].exists = TRUE]
      [] ms.access = "r" -> disk

NewFile(p, mode, ms) ==
    [path |-> p, mode |-> mode, pos |-> 0, pending |-> <<>>,
     read |-> ms.access = "r" \/ ms.plus,
     write |-> ms.access # "r" \/ ms.plus,
     append |-> ms.access = "a"]

\* wasmelon::does_file_exist: fopen(path, "r") succeeds, then fclose.
does_file_exist(p) == FOpenOk(p, [access |-> "r"])

\* Bytes a write past the end of a file leaves before its data (zeros).
Hole == [id |-> "hole", size |-> 0]

\* The file content after items are written at f's position (at the end
\* for an append-mode FILE); a position past the end leaves a hole.
Put(content, f, items) ==
    IF f.append THEN content \o items
    ELSE LET c == IF f.pos > Len(content)
                  THEN content \o [i \in 1..(f.pos - Len(content)) |-> Hole]
                  ELSE content
             rest == f.pos + Len(items)
         IN SubSeq(c, 1, f.pos) \o items
            \o (IF rest < Len(c) THEN SubSeq(c, rest + 1, Len(c)) ELSE <<>>)

\* Writing f's buffered items (and "more") to the file system.
Drain(f, dsk, more) ==
    LET items == f.pending \o more
        content == Put(dsk[f.path].content, f, items)
    IN [f |-> [f EXCEPT !.pending = <<>>,
                        !.pos = IF f.append THEN Len(content) ELSE @ + Len(items)],
        disk |-> [dsk EXCEPT ![f.path].content = content]]

PendingSize(f) == FoldLeft(LAMBDA n, d : n + d.size, 0, f.pending)

\* Mutant: every write only buffered, even one larger than the buffer.
FWrite_AlwaysBuffer(f, d, dsk) ==
    IF ~f.write THEN [f |-> f, disk |-> dsk]
    ELSE [f |-> [f EXCEPT !.pending = Append(@, d)], disk |-> dsk]

\* fwrite (musl __fwritex): nothing on a FILE not open for writing; data
\* that does not fit the rest of the buffer goes out with the buffer;
\* anything else is only copied into the buffer.
FWrite(f, d, dsk) ==
    IF ~f.write THEN [f |-> f, disk |-> dsk]
    ELSE IF d.size > BufSize - PendingSize(f) THEN Drain(f, dsk, <<d>>)
    ELSE [f |-> [f EXCEPT !.pending = Append(@, d)], disk |-> dsk]

\* fflush: the buffer goes out.
FFlush(f, dsk) == Drain(f, dsk, <<>>)

-----------------------------------------------------------------------------
Init ==
    /\ disk \in [Paths -> {NoFile} \cup {[exists |-> TRUE, content |-> <<d>>] : d \in Data}]
    /\ files = <<>>
    /\ savePath = NoPath
    /\ trapped = FALSE
    /\ engineSave = NoLoad
    /\ lastSaved = [p \in SavePaths |-> IF disk[p].exists THEN disk[p].content[1] ELSE None]

\* Model bound: no step makes a file longer than MaxContent items.
Bounded(dsk) == \A p \in Paths : Len(dsk[p].content) <= MaxContent

\* Nothing runs in an instance that has trapped until the page reloads.
Live == ~trapped

\* Platform::OpenFile: the mode string from the flags and whether the file
\* exists, then fopen.  The new FILE, if fopen succeeded, is the last of
\* the returned record's files.
OpenFile(p, mode) ==
    LET ms == GetModeString(mode, does_file_exist(p))
    IN IF FOpenOk(p, ms)
       THEN [ok |-> TRUE, disk |-> DiskAfterOpen(p, ms),
             files |-> Append(files, NewFile(p, mode, ms))]
       ELSE [ok |-> FALSE, disk |-> disk, files |-> files]

WasmEmulator_setSavePath(p) ==
    /\ Live
    /\ savePath' = p
    /\ UNCHANGED <<disk, files, trapped, engineSave, lastSaved>>

\* WriteNDSSave -> WasmEmulator::writeSave: OpenFile(savePath, Write),
\* FileWrite of the whole save, then onSaveWrite.  The FILE is never
\* closed or flushed.  fwrite on the NULL of a failed open traps.
WasmEmulator_writeSave(d) ==
    /\ Live
    /\ LET o == OpenFile(savePath, {"Write"})
           w == FWrite(Last(o.files), d, o.disk)
       IN IF o.ok
          THEN /\ Bounded(w.disk)
               /\ files' = [o.files EXCEPT ![Len(o.files)] = w.f]
               /\ disk' = w.disk
               /\ lastSaved' = [lastSaved EXCEPT ![savePath] = d]
               /\ UNCHANGED trapped
          ELSE /\ trapped' = TRUE
               /\ UNCHANGED <<disk, files, lastSaved>>
    /\ UNCHANGED <<savePath, engineSave>>

\* The save part of WasmEmulator::loadRom: if FileExists(savePath), open it
\* for reading, take its length, read it and hand it to nds->SetNDSSave.
\* The FILE is never closed.  FileExists itself takes a descriptor, so
\* when it succeeds the open does too; when the descriptors have run out
\* the save is silently not loaded.
WasmEmulator_loadRom ==
    /\ Live
    /\ does_file_exist(savePath)
    /\ files' = OpenFile(savePath, {"Read"}).files
    /\ engineSave' = [path |-> savePath, content |-> disk[savePath].content]
    /\ UNCHANGED <<disk, savePath, trapped, lastSaved>>

\* Platform::CheckFileWritable: fopen(name, "w") and, if that worked,
\* fclose at once.
CheckFileWritable(p) ==
    /\ Live
    /\ LET ms == [access |-> "w", plus |-> FALSE, binary |-> FALSE]
       IN disk' = IF FOpenOk(p, ms) THEN DiskAfterOpen(p, ms) ELSE disk
    /\ UNCHANGED <<files, savePath, trapped, engineSave, lastSaved>>

-----------------------------------------------------------------------------
(* The engine's own use of the file calls on its own paths; it checks     *)
(* OpenFile's result before using it.                                      *)

CoreFile(i) == files[i].path \in CorePaths

Core_OpenFile(p, mode) ==
    /\ Live
    /\ LET o == OpenFile(p, mode)
       IN /\ files' = o.files
          /\ disk' = o.disk
    /\ UNCHANGED <<savePath, trapped, engineSave, lastSaved>>

\* Platform::FileWrite: fwrite.
Core_FileWrite(i, d) ==
    /\ ~trapped
    /\ CoreFile(i)
    /\ LET w == FWrite(files[i], d, disk)
       IN /\ Bounded(w.disk)
          /\ files' = [files EXCEPT ![i] = w.f]
          /\ disk' = w.disk
    /\ UNCHANGED <<savePath, trapped, engineSave, lastSaved>>

\* Platform::FileFlush: fflush.
Core_FileFlush(i) ==
    /\ ~trapped
    /\ CoreFile(i)
    /\ files[i].pending # <<>>
    /\ LET w == FFlush(files[i], disk)
       IN /\ Bounded(w.disk)
          /\ files' = [files EXCEPT ![i] = w.f]
          /\ disk' = w.disk
    /\ UNCHANGED <<savePath, trapped, engineSave, lastSaved>>

\* Platform::FileSeek: fseek.  musl first writes out the buffer, then
\* computes the new position from the origin (SEEK_SET, SEEK_CUR or
\* SEEK_END); a negative one fails and leaves the position, the buffer
\* being gone either way.  A position past the end is allowed.
Core_FileSeek(i, origin, off) ==
    /\ ~trapped
    /\ CoreFile(i)
    /\ LET w == FFlush(files[i], disk)
           base == CASE origin = "set" -> 0
                     [] origin = "cur" -> w.f.pos
                     [] origin = "end" -> Len(w.disk[files[i].path].content)
           target == base + off
       IN /\ Bounded(w.disk)
          /\ target <= MaxContent
          /\ files' = [files EXCEPT ![i] = IF target < 0 THEN w.f
                                            ELSE [w.f EXCEPT !.pos = target]]
          /\ disk' = w.disk
    /\ UNCHANGED <<savePath, trapped, engineSave, lastSaved>>

\* Platform::FileRewind: rewind, an fseek to the start that cannot fail.
Core_FileRewind(i) == Core_FileSeek(i, "set", 0)

\* Platform::FileRead: fread.  musl's __toread writes out the buffer
\* first; a FILE not open for reading then fails, any other reads the
\* next data item, if there is one.
Core_FileRead(i) ==
    /\ ~trapped
    /\ CoreFile(i)
    /\ LET w == FFlush(files[i], disk)
           len == Len(w.disk[files[i].path].content)
       IN /\ Bounded(w.disk)
          /\ files' = [files EXCEPT ![i] =
                          IF w.f.read /\ w.f.pos < len
                          THEN [w.f EXCEPT !.pos = @ + 1] ELSE w.f]
          /\ disk' = w.disk
    /\ UNCHANGED <<savePath, trapped, engineSave, lastSaved>>

\* Platform::FileLength: fseek to the end, ftell, fseek to the start; the
\* FILE is left at position 0 whatever its position was.
Core_FileLength(i) ==
    /\ ~trapped
    /\ CoreFile(i)
    /\ LET w == FFlush(files[i], disk)
       IN /\ Bounded(w.disk)
          /\ files' = [files EXCEPT ![i] = [w.f EXCEPT !.pos = 0]]
          /\ disk' = w.disk
    /\ UNCHANGED <<savePath, trapped, engineSave, lastSaved>>

\* Platform::CloseFile: fclose flushes and releases the descriptor.
\* (RemoveAt renumbers the later FILEs; only their identity matters.)
Core_CloseFile(i) ==
    /\ ~trapped
    /\ CoreFile(i)
    /\ LET w == FFlush(files[i], disk)
       IN /\ Bounded(w.disk)
          /\ files' = RemoveAt(files, i)
          /\ disk' = w.disk
    /\ UNCHANGED <<savePath, trapped, engineSave, lastSaved>>

-----------------------------------------------------------------------------
\* The page reloads: the instance, its FILEs and their buffers are gone;
\* the file system is not.  That assumes the host persists it: the comment
\* at WasmPlatform.cpp:14-17 leaves IndexedDB persistence to future work.
Restart ==
    /\ files' = <<>>
    /\ savePath' = NoPath
    /\ trapped' = FALSE
    /\ engineSave' = NoLoad
    /\ UNCHANGED <<disk, lastSaved>>

Next ==
    \/ \E p \in SavePaths : WasmEmulator_setSavePath(p)
    \/ \E d \in Data : WasmEmulator_writeSave(d)
    \/ WasmEmulator_loadRom
    \/ \E p \in CorePaths : CheckFileWritable(p)
    \/ \E p \in CorePaths, m \in Modes : Core_OpenFile(p, m)
    \/ \E i \in DOMAIN files :
         \/ \E d \in Data : Core_FileWrite(i, d)
         \/ Core_FileFlush(i)
         \/ \E o \in {"set", "cur", "end"}, off \in SeekOffsets : Core_FileSeek(i, o, off)
         \/ Core_FileRewind(i)
         \/ Core_FileRead(i)
         \/ Core_FileLength(i)
         \/ Core_CloseFile(i)
    \/ Restart

Spec == Init /\ [][Next]_vars

-----------------------------------------------------------------------------
TypeOK ==
    /\ disk \in [Paths -> [exists : BOOLEAN, content : Seq(Data \cup {Hole})]]
    /\ \A i \in DOMAIN files :
         /\ files[i].path \in Paths /\ files[i].mode \subseteq Flags
         /\ files[i].pending \in Seq(Data)
    /\ OpenCount <= MaxOpen
    /\ savePath \in SavePaths \cup {NoPath}
    /\ trapped \in BOOLEAN
    /\ engineSave.path \in SavePaths \cup {NoPath}
    /\ lastSaved \in [SavePaths -> Data \cup {None}]

\* OpenFile follows the access policy of spec 6: an open whose flags
\* include Append, Preserve or NoCreate, or exclude Write, never truncates
\* an existing file (AccessMode's early returns before its final 'w').
PolicyNoTruncate ==
    [][\A p \in CorePaths, m \in Modes :
         (/\ Core_OpenFile(p, m)
          /\ ({"Append", "Preserve", "NoCreate"} \cap m # {} \/ "Write" \notin m)
          /\ disk[p].exists)
         => disk'[p] = disk[p]]_vars

\* A save larger than the stdio buffer is in the save file as soon as
\* writeSave has returned, and stays there until the next save: later
\* leaked FILEs of the same path never write older data over it (no code
\* path flushes a leaked save FILE).  The save is on musl's write-through
\* path (fwrite of WasmEmulator::writeSave); across a reload it survives
\* only as far as the file system does.
LargeSaveDurable ==
    \A p \in SavePaths :
        lastSaved[p].size > BufSize => disk[p].content = <<lastSaved[p]>>

\* Every FILE opened with Write among its flags can be written (spec 8:
\* preserve + write on an existing file is opened for extension).
WriteModeGrantsWrite ==
    \A i \in DOMAIN files : "Write" \in files[i].mode => files[i].write

\* loadRom hands the engine the save the engine last wrote with writeSave,
\* in the same page or after a reload (the host persists the file system;
\* spec 4.5).
LoadedSaveIsLatest ==
    engineSave # NoLoad =>
        engineSave.content = IF lastSaved[engineSave.path] = None THEN <<>>
                             ELSE <<lastSaved[engineSave.path]>>

=============================================================================
