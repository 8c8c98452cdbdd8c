------------------------------ MODULE Loaders ------------------------------
(***************************************************************************)
(* Loading a cart, the BIOS and the firmware into the engine:             *)
(* WasmNdsCart::loadFromFile and getCart, the cart and save part of        *)
(* WasmEmulator::loadRom, loadFreeBIOS, loadUserBIOS, and                  *)
(* WasmFirmwareSettings with its toFirmware.  Every file is read through   *)
(* Platform::OpenFile, which needs a free descriptor for its own           *)
(* existence test and one for the FILE it returns; "open" counts the       *)
(* descriptors held, so a FILE that is never closed keeps one for good.    *)
(*                                                                         *)
(* A file is its length (Missing if it does not exist) and, for a ROM,     *)
(* whether ParseROM accepts it.  Nickname units are model values.          *)
(***************************************************************************)
EXTENDS Integers, Sequences, TLC

CONSTANTS
    RomPaths,       \* paths the host gives loadFromFile
    RomSizes,       \* lengths a ROM file may have
    Bios7Sizes,     \* lengths /firmware/bios7.bin may have
    Bios9Sizes,     \* lengths /firmware/bios9.bin may have
    FirmwarePaths,  \* paths the host gives setFirmwareFile (not "")
    Chars,          \* UTF-16 code units of nicknames, other than zero
    Nicknames,      \* setNickname arguments, already converted to UTF-16
    Languages,      \* setLanguage arguments (u8)
    Birthdays,      \* setBirthday arguments <<month, day>> (u8, u8)
    AllocLimit,     \* lengths above which make_unique may throw bad_alloc
    MaxOpen         \* descriptors the file system allows

Missing == -1

\* 0x40000000: the 1 GiB cap of loadFromFile.
RomCap == 1073741824

\* The units of u"Player" and the zero unit memset leaves.
Player == <<"P", "l", "a", "y", "e", "r">>
Zero == "nul"

\* A setNickname argument that is not valid UTF-8 (from_bytes throws): a
\* byte sequence with no UTF-16 form.
InvalidUtf8 == <<"invalid">>

NoCart == "none"

\* The engine's firmware before any BIOS load.
NoFirmware == [nick |-> <<>>, language |-> 1, month |-> 1, day |-> 1,
               intended |-> <<>>, named |-> FALSE]

ASSUME /\ \A s \in Nicknames : s \in Seq(Chars)
       /\ MaxOpen \in Nat \ {0}

VARIABLES
    disk,         \* path -> [size, valid]; the file system, never changed here
    open,         \* descriptors held
    cart,         \* WasmNdsCart::cart: the ROM path it holds, or NoCart
    ndsCart,      \* the cart the engine runs
    bios,         \* the BIOS the engine has: "none", "free" or "user"
    settings,     \* the host's WasmFirmwareSettings object
    emuSettings,  \* WasmEmulator::firmwareSettings
    firmware,     \* the user data of the engine's firmware, or NoFirmware
    trapped,      \* the instance trapped
    lastLoad      \* history: path and result of the last loadFromFile

vars == <<disk, open, cart, ndsCart, bios, settings, emuSettings, firmware, trapped,
          lastLoad>>

-----------------------------------------------------------------------------
(* WasmFirmwareSettings.  "intended" and "named" are history: the name the *)
(* object stands for ("Player" until setNickname succeeds) and whether the  *)
(* host has named it.                                                      *)

\* class WasmFirmwareSettings: ten UTF-16 units, a u8 length, u8
\* language and birthday, the firmware file name; with the history fields.
FirmwareSettingsType ==
    [nickname : [1..10 -> Chars \cup {Zero, "P", "l", "a"}],
     nicknameLength : 0..255, language : 0..255,
     birthdayMonth : 0..255, birthdayDay : 0..255,
     firmwareFile : FirmwarePaths \cup {""},
     intended : Seq(Chars \cup {"P", "l", "a", "y", "e", "r"}), named : BOOLEAN]

\* The constructor: memset the ten units to zero, then memcpy 6 bytes of
\* u"Player", which is three units; nicknameLength = 6.
WasmFirmwareSettings ==
    [nickname |-> [i \in 1..10 |-> IF i <= 6 \div 2 THEN Player[i] ELSE Zero],
     nicknameLength |-> 6, language |-> 1, birthdayMonth |-> 1,
     birthdayDay |-> 1, firmwareFile |-> "",
     intended |-> Player, named |-> FALSE]

\* Mutant: nicknameLength not updated.
setNickname_NoLength(s) ==
    /\ s # InvalidUtf8 /\ Len(s) <= 10
    /\ settings' = [settings EXCEPT
                      !.nickname = [i \in 1..10 |-> IF i <= Len(s) THEN s[i] ELSE @[i]],
                      !.intended = s, !.named = TRUE]

\* setNickname: the conversion throws on invalid UTF-8; a name longer than
\* ten units is ignored; otherwise its units are copied over the first
\* ones (the rest stay) and the length set.
setNickname(s) ==
    /\ s # InvalidUtf8 /\ Len(s) <= 10
    /\ settings' = [settings EXCEPT
                      !.nickname = [i \in 1..10 |-> IF i <= Len(s) THEN s[i] ELSE @[i]],
                      !.nicknameLength = Len(s), !.intended = s, !.named = TRUE]

setLanguage(l) ==
    /\ l < 8
    /\ settings' = [settings EXCEPT !.language = l]

setBirthday(b) ==
    settings' = [settings EXCEPT !.birthdayMonth = b[1], !.birthdayDay = b[2]]

setFirmwareFile(f) == settings' = [settings EXCEPT !.firmwareFile = f]

SettingsOp ==
    /\ ~trapped
    /\ \/ \E s \in Nicknames \cup {InvalidUtf8} : setNickname(s)
       \/ \E l \in Languages : setLanguage(l)
       \/ \E b \in Birthdays : setBirthday(b)
       \/ \E f \in FirmwarePaths \cup {""} : setFirmwareFile(f)
    /\ UNCHANGED <<disk, open, cart, ndsCart, bios, emuSettings, firmware, trapped, lastLoad>>

\* WasmEmulator::setFirmwareSettings: the object is copied.
WasmEmulator_setFirmwareSettings ==
    /\ ~trapped
    /\ emuSettings' = settings
    /\ UNCHANGED <<disk, open, cart, ndsCart, bios, settings, firmware, trapped, lastLoad>>

-----------------------------------------------------------------------------
\* Mutant: the descriptor limit not enforced.
OpenOk_NoLimit(p) == disk[p].size # Missing

\* Platform::OpenFile for reading: does_file_exist takes and gives back a
\* descriptor, then fopen "r" takes one.
OpenOk(p) == disk[p].size # Missing /\ open < MaxOpen

\* The user data toFirmware writes into every copy in the firmware.
UserData(s) ==
    [nick |-> SubSeq(s.nickname, 1, s.nicknameLength), language |-> s.language,
     month |-> s.birthdayMonth, day |-> s.birthdayDay,
     intended |-> s.intended, named |-> s.named]

\* toFirmware with settings s, as the set of its outcomes: with a firmware
\* file it opens it, builds the firmware and closes the handle, even the
\* NULL of a failed open (Firmware(NULL) and fclose(NULL) are undefined:
\* the instance may trap or go on).
ToFirmware(s) ==
    IF s.firmwareFile = "" \/ OpenOk(s.firmwareFile)
    THEN {[trap |-> FALSE, fw |-> UserData(s)]}
    ELSE {[trap |-> TRUE, fw |-> firmware], [trap |-> FALSE, fw |-> UserData(s)]}

\* Sets the engine's firmware from an outcome of toFirmware.
SetFirmware(o) ==
    /\ trapped' = o.trap
    /\ firmware' = o.fw

\* loadFreeBIOS: the built-in BIOS images, then the firmware (the images
\* are set before genFirmware runs).
WasmEmulator_loadFreeBIOS ==
    /\ ~trapped
    /\ \E o \in ToFirmware(emuSettings) :
         /\ SetFirmware(o)
         /\ bios' = "free"
    /\ UNCHANGED <<disk, open, cart, ndsCart, settings, emuSettings, lastLoad>>

\* loadUserBIOS: both images are opened first; a missing image or one of
\* the wrong length (0x4000 for the ARM7, 0x1000 for the ARM9) returns at
\* once, and neither FILE is closed.
WasmEmulator_loadUserBIOS ==
    /\ ~trapped
    /\ LET ok7 == OpenOk("bios7")
           ok9 == disk["bios9"].size # Missing /\ open + (IF ok7 THEN 1 ELSE 0) < MaxOpen
           held == open + (IF ok7 THEN 1 ELSE 0) + (IF ok9 THEN 1 ELSE 0)
       IN IF ok7 /\ disk["bios7"].size = 16384 /\ ok9 /\ disk["bios9"].size = 4096
          THEN \E o \in ToFirmware(emuSettings) :
                 /\ SetFirmware(o)
                 /\ bios' = "user"
                 /\ UNCHANGED open
          ELSE /\ open' = held
               /\ UNCHANGED <<bios, firmware, trapped>>
    /\ UNCHANGED <<disk, cart, ndsCart, settings, emuSettings, lastLoad>>

-----------------------------------------------------------------------------
\* Mutant: the 1 GiB cap not checked.
TooLarge_NoCap(len) == FALSE

\* The size check of loadFromFile: len > 0x40000000.
TooLarge(len) == len > RomCap

\* WasmNdsCart::loadFromFile(p): open, check the length, read, close,
\* parse.  Each failure returns false and leaves the cart it held.  A
\* bad_alloc from make_unique escapes with the FILE still open.  fread of
\* a zero-length file reads no item, which is a failure too.
NdsCart_loadFromFile(p) ==
    /\ ~trapped
    /\ LET len == disk[p].size
       IN IF ~OpenOk(p) \/ TooLarge(len)
          THEN /\ lastLoad' = [path |-> p, ok |-> FALSE]
               /\ UNCHANGED <<open, cart>>
          ELSE \/ /\ len > AllocLimit
                  /\ open' = open + 1
                  /\ lastLoad' = [path |-> p, ok |-> FALSE]
                  /\ UNCHANGED cart
               \/ LET ok == len > 0 /\ disk[p].valid
                  IN /\ cart' = IF ok THEN p ELSE cart
                     /\ lastLoad' = [path |-> p, ok |-> ok]
                     /\ UNCHANGED open
    /\ UNCHANGED <<disk, ndsCart, bios, settings, emuSettings, firmware, trapped>>

\* WasmEmulator::loadRom: getCart moves the cart out of the WasmNdsCart
\* (a second call finds it empty and returns false); the engine gets it;
\* then, if the save file exists, it is opened, read into the engine and
\* never closed.
WasmEmulator_loadRom ==
    /\ ~trapped
    /\ cart' = NoCart
    /\ IF cart = NoCart
       THEN UNCHANGED <<ndsCart, open>>
       ELSE /\ ndsCart' = cart
            /\ open' = IF OpenOk("save") THEN open + 1 ELSE open
    /\ UNCHANGED <<disk, bios, settings, emuSettings, firmware, trapped, lastLoad>>

\* The page reloads: a new instance with new objects and no descriptors;
\* the file system stays.
Restart ==
    /\ open' = 0
    /\ cart' = NoCart
    /\ ndsCart' = NoCart
    /\ bios' = "none"
    /\ settings' = WasmFirmwareSettings
    /\ emuSettings' = WasmFirmwareSettings
    /\ firmware' = NoFirmware
    /\ trapped' = FALSE
    /\ UNCHANGED <<disk, lastLoad>>

-----------------------------------------------------------------------------
FileOf(sizes) == [size : sizes \cup {Missing}, valid : BOOLEAN]

Init ==
    /\ disk \in {r @@ ("bios7" :> b7) @@ ("bios9" :> b9)
                 @@ [p \in FirmwarePaths |-> fw] @@ ("save" :> sv) :
                   r \in [RomPaths -> FileOf(RomSizes)],
                   b7 \in {[size |-> n, valid |-> TRUE] : n \in Bios7Sizes \cup {Missing}},
                   b9 \in {[size |-> n, valid |-> TRUE] : n \in Bios9Sizes \cup {Missing}},
                   fw \in {[size |-> n, valid |-> TRUE] : n \in {512, Missing}},
                   sv \in {[size |-> n, valid |-> TRUE] : n \in {512, Missing}}}
    /\ open = 0
    /\ cart = NoCart
    /\ ndsCart = NoCart
    /\ bios = "none"
    /\ settings = WasmFirmwareSettings
    /\ emuSettings = WasmFirmwareSettings
    /\ firmware = NoFirmware
    /\ trapped = FALSE
    /\ lastLoad = [path |-> NoCart, ok |-> TRUE]

Next ==
    \/ SettingsOp
    \/ WasmEmulator_setFirmwareSettings
    \/ WasmEmulator_loadFreeBIOS
    \/ WasmEmulator_loadUserBIOS
    \/ \E p \in RomPaths : NdsCart_loadFromFile(p)
    \/ WasmEmulator_loadRom
    \/ Restart

Spec == Init /\ [][Next]_vars

-----------------------------------------------------------------------------
TypeOK ==
    /\ open \in 0..MaxOpen
    /\ cart \in RomPaths \cup {NoCart} /\ ndsCart \in RomPaths \cup {NoCart}
    /\ bios \in {"none", "free", "user"}
    /\ settings \in FirmwareSettingsType /\ emuSettings \in FirmwareSettingsType
    /\ settings.nicknameLength <= 10
    /\ firmware # NoFirmware => firmware.language \in 0..255 /\ Len(firmware.nick) <= 10
    /\ trapped \in BOOLEAN

\* The engine only ever runs a cart that loadFromFile parsed from a
\* non-empty file within the 1 GiB cap (spec 7: an oversized ROM is
\* rejected), however loadFromFile and loadRom calls interleave.
EngineCartWithinCap ==
    ndsCart # NoCart =>
        /\ disk[ndsCart].size \in 1..RomCap
        /\ disk[ndsCart].valid

\* The firmware toFirmware builds carries the settings the host made: a
\* language in 0..7 and, once the host has set a nickname, exactly that
\* nickname, whatever nickname was set before it.
FirmwareMatchesSettings ==
    firmware # NoFirmware =>
        /\ firmware.language \in 0..7
        /\ firmware.named => firmware.nick = firmware.intended

\* The default settings give the firmware the nickname "Player" (the
\* constructor's u"Player", nicknameLength 6).
DefaultNickname ==
    firmware # NoFirmware => firmware.nick = firmware.intended

\* loadFromFile of a ROM file that exists, is valid, and is small enough
\* to allocate succeeds (spec 7 fails it only for a missing, invalid or
\* oversized file), whatever loads ran before it.
PresentRomLoads ==
    \A p \in RomPaths :
        (/\ lastLoad.path = p
         /\ disk[p].size \in 1..AllocLimit /\ disk[p].valid) => lastLoad.ok

=============================================================================
