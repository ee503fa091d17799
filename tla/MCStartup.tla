------------------------------- MODULE MCStartup -------------------------------
(***************************************************************************)
(* A rule between word boundaries comes back from double quotes between    *)
(* backspaces, and those from the next save as no YAML; an unknown escape  *)
(* is no YAML at once.                                                     *)
(***************************************************************************)
EXTENDS Startup

Bounded == "\\bUnity\\b"
Backspaced == "<BS>Unity<BS>"
Digits == "\\d"
MCTexts == {Bounded, Backspaced, Digits, "", "wss://end-api", "ws://local", "own", "Unity", "Unity2", "Game", "Game2", "[", ".*",
            "a[b", "x[y", "GDI", "PostMessage", "Seize", "unknown", "Win32", "Adb", "PlayCover"}
MCReread == [t \in MCTexts |-> CASE t = Bounded -> Backspaced
                                [] t \in {Backspaced, Digits} -> Unreadable
                                [] OTHER -> t]
MCBackslashed == {Bounded, Digits}
MCElsewhere == {"games"}
Whole == {"interface.json", "maafw"}
Only(d, parts) == [x \in Dirs |-> IF x = d THEN parts ELSE {}]
MCMachines == {Only("games", Whole), Only("D:/MaaEnd", Whole),
               [Only("D:/MaaEnd", Whole) EXCEPT !["."] = {"interface.json"}, ![".."] = {"maafw"}]}

MCFiles == {File("missing", Default), File("saved", Default), File("unreadable", Default),
            File("edited", Settings("", "own", "Unity", "", "")),
            File("edited", Settings("", "own", Bounded, "", "")),
            File("backslash", Settings("games", "own", "", "[", ""))}
MCEdits == {File("saved", Settings("", "own", "", ".*", "")),
            File("edited", Settings("games", "wss://end-api", "[", "", Digits)),
            File("unreadable", Default)}
MCCommandLines == {NoArgs, [path |-> "games", url |-> "ws://local"]}

Win32(class, window, screencap, mouse) ==
    [type |-> "Win32", win32 |-> [type |-> "section", class |-> class, window |-> window,
                                  screencap |-> screencap, mouse |-> mouse, keyboard |-> "Seize"]]
MCControllers ==
    [front |-> Win32("Unity", "Game", "GDI", "PostMessage"),
     back |-> Win32("", "Game", "unknown", "unknown"),
     bare |-> [type |-> "Win32", win32 |-> None], adb |-> [type |-> "Adb", win32 |-> None],
     play |-> [type |-> "PlayCover", win32 |-> None]]

Win(class, name) == [class |-> class, name |-> name]
MCDesktops == {<<>>, <<Win("Unity", ""), Win("", "Game"), Win("a[b", "x[y"), Win("Unity", "Game"),
                       Win("Unity2", "Game2")>>}
MCFinds == {<<Bounded, "Unity">>, <<"Unity", "Unity">>, <<"Unity", "Unity2">>, <<"Game", "Game">>, <<"Game", "Game2">>}
           \cup ({".*"} \X {"", "Game", "Game2", "x[y"})
MCMalformed == {"["}
MCHolds == {<<"a[b", "[">>, <<"x[y", "[">>}
===============================================================================
