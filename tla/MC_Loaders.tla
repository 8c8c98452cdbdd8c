----------------------------- MODULE MC_Loaders -----------------------------
(* Small instances of Loaders for TLC.                                     *)
EXTENDS Loaders

\* One ROM path; a ROM of 512 bytes, an empty file, one of exactly the cap
\* and one a byte over it.
MCRomPaths == {"rom"}
MCRomSizes == {0, 512, 1073741824, 1073741825}

\* The right lengths and one wrong length each.
MCBios7Sizes == {16384, 4096}
MCBios9Sizes == {4096}

MCFirmwarePaths == {"fw"}

MCChars == {"A", "l", "P", "a", "y", "e", "r"}

\* A short name, and one of eleven units that setNickname ignores.
MCNicknames == {<<"A", "l">>,
                <<"P", "l", "a", "y", "e", "r", "P", "l", "a", "y", "e">>}

\* A valid language and the first invalid one.
MCLanguages == {5, 8}

MCBirthdays == {<<12, 31>>}

\* make_unique may fail above 256 MiB.
MCAllocLimit == 268435456
=============================================================================
