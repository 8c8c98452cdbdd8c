CONSTANTS
    RomPaths <- MCRomPaths
    RomSizes <- MCRomSizes
    Bios7Sizes <- MCBios7Sizes
    Bios9Sizes <- MCBios9Sizes
    FirmwarePaths <- MCFirmwarePaths
    Chars <- MCChars
    Nicknames <- MCNicknames
    Languages <- MCLanguages
    Birthdays <- MCBirthdays
    AllocLimit <- MCAllocLimit
    MaxOpen = 3
SPECIFICATION Spec
INVARIANT DefaultNickname
