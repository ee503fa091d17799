----------------------------- MODULE InterfaceLoad -----------------------------
(***************************************************************************)
(* core/interface_parser.go: how the files of a MaaEnd directory become a  *)
(* ProjectInterface.  Pure operators; Project puts them to work.           *)
(*                                                                         *)
(* A directory maps paths to files.  A file is [text, plain, decodes,      *)
(* content]: its bytes, the bytes its JSON would have without comments,    *)
(* whether that JSON has the types the structs want, and what it says.     *)
(* json.Unmarshal is external: it understands the plain bytes of a file    *)
(* and takes everything else for an error.                                 *)
(***************************************************************************)
EXTENDS Integers, FiniteSetsExt, SequencesExt, TLC

(* The bytes that stripJSONComments tells apart; any other is as good as one. *)
Quote == "quote"
Backslash == "backslash"
Newline == "newline"
Slash == "/"
Star == "*"
-------------------------------------------------------------------------------
(* stripJSONComments, a turn of its loops at a time: the next byte, how it   *)
(* is read, and what has been copied.  A block comment that is never closed  *)
(* is left at the last byte, which is copied.                                *)
Turn_NoEscape(text, s) ==
    LET i == s.next
        is(k, b) == k <= Len(text) /\ text[k] = b
        skip(n, mode) == [next |-> i + n, mode |-> mode, out |-> s.out]
        copy(mode) == [next |-> i + 1, mode |-> mode, out |-> Append(s.out, text[i])]
    IN  IF i > Len(text) THEN s
        ELSE CASE s.mode = "string" ->
                    copy(IF text[i] = Quote THEN "code" ELSE "string")
               [] s.mode = "line" -> IF text[i] = Newline THEN copy("code") ELSE skip(1, "line")
               [] s.mode = "block" ->
                    IF i = Len(text) THEN copy("code")
                    ELSE IF text[i] = Star /\ is(i + 1, Slash) THEN skip(2, "code") ELSE skip(1, "block")
               [] s.mode = "code" ->
                    IF text[i] = Slash /\ is(i + 1, Slash) THEN skip(2, "line")
                    ELSE IF text[i] = Slash /\ is(i + 1, Star) THEN skip(2, "block")
                    ELSE copy(IF text[i] = Quote THEN "string" ELSE "code")
Turn(text, s) ==
    LET i == s.next
        is(k, b) == k <= Len(text) /\ text[k] = b
        skip(n, mode) == [next |-> i + n, mode |-> mode, out |-> s.out]
        copy(mode) == [next |-> i + 1, mode |-> mode, out |-> Append(s.out, text[i])]
        copyTwo == [copy("string") EXCEPT !.next = i + 2, !.out = Append(@, text[i + 1])]
    IN  IF i > Len(text) THEN s
        ELSE CASE s.mode = "string" ->
                    IF text[i] = Backslash /\ i < Len(text) THEN copyTwo
                    ELSE copy(IF text[i] = Quote THEN "code" ELSE "string")
               [] s.mode = "line" -> IF text[i] = Newline THEN copy("code") ELSE skip(1, "line")
               [] s.mode = "block" ->
                    IF i = Len(text) THEN copy("code")
                    ELSE IF text[i] = Star /\ is(i + 1, Slash) THEN skip(2, "code") ELSE skip(1, "block")
               [] s.mode = "code" ->
                    IF text[i] = Slash /\ is(i + 1, Slash) THEN skip(2, "line")
                    ELSE IF text[i] = Slash /\ is(i + 1, Star) THEN skip(2, "block")
                    ELSE copy(IF text[i] = Quote THEN "string" ELSE "code")

stripJSONComments(text) ==
    LET turns[k \in 0..Len(text)] ==
          IF k = 0 THEN [next |-> 1, mode |-> "code", out |-> <<>>] ELSE Turn(text, turns[k - 1])
    IN  turns[Len(text)].out

Unmarshals_Partly(dir, path) ==
    path \in DOMAIN dir /\ stripJSONComments(dir[path].text) = dir[path].plain
Unmarshals(dir, path) ==
    /\ path \in DOMAIN dir
    /\ stripJSONComments(dir[path].text) = dir[path].plain
    /\ dir[path].decodes
-------------------------------------------------------------------------------
(* Imports.                                                                  *)

(* The nil pointer that JSON's null gives in a map of options.               *)
Null == [type |-> "null"]

(* mergeTasksByName, which mergePresetsByName repeats: an incoming item      *)
(* takes the place of the last one with its name, or is added at the end.    *)
Placed(items, x) ==
    LET same == {i \in DOMAIN items : x.name # "" /\ items[i].name = x.name}
    IN  IF same = {} THEN Append(items, x) ELSE [items EXCEPT ![Max(same)] = x]

MergeByName(base, incoming) ==
    LET merged[k \in 0..Len(incoming)] ==
          IF k = 0 THEN base ELSE Placed(merged[k - 1], incoming[k])
    IN  merged[Len(incoming)]
mergeTasksByName(base, incoming) == MergeByName(base, incoming)
mergePresetsByName(base, incoming) == MergeByName(base, incoming)

NotNull(options) == [n \in {m \in DOMAIN options : options[m] # Null} |-> options[n]]

(* The entries of f, and those of g for what f lacks.                        *)
Over(f, g) == [x \in DOMAIN f \cup DOMAIN g |-> IF x \in DOMAIN f THEN f[x] ELSE g[x]]

(* A file that cannot be read or decoded leaves the interface alone.         *)
loadImportedFile(dir, p, path) ==
    IF ~Unmarshals(dir, path) THEN p
    ELSE LET imported == dir[path].content
         IN  [p EXCEPT !.tasks = mergeTasksByName(@, imported.tasks),
                       !.option = Over(NotNull(imported.option), @),
                       !.presets = mergePresetsByName(@, imported.presets)]

(* normalizeAgentConfigs: an object counts as a list of one; one with fields *)
(* of the wrong types is misshapen.                                          *)
AgentsOK(raw) == raw.t \in {"missing", "null", "object", "list"}
normalizeAgentConfigs(raw) ==
    CASE raw.t = "object" -> <<raw.v>>
      [] raw.t = "list" -> raw.v
      [] OTHER -> <<>>

Main == "interface.json"

(* The main file or its agents may be fatal; imports are not, and presets    *)
(* come from imports only.                                                   *)
Loads(dir) == Unmarshals(dir, Main) /\ AgentsOK(dir[Main].content.agent)

MainInterface(c) ==
    [tasks |-> c.tasks, option |-> c.option, presets |-> <<>>,
     controllers |-> c.controllers, resources |-> c.resources,
     global_option |-> c.global_option, agents |-> normalizeAgentConfigs(c.agent)]

LoadInterface(dir) ==
    LET c == dir[Main].content
        loaded[k \in 0..Len(c.import)] ==
            IF k = 0 THEN MainInterface(c) ELSE loadImportedFile(dir, loaded[k - 1], c.import[k])
    IN  loaded[Len(c.import)]
-------------------------------------------------------------------------------
(* Looking things up.                                                        *)

(* GetTask, GetController and GetResource: the first of that name, 0 if none. *)
IndexOf(items, name) ==
    LET same == {i \in DOMAIN items : items[i].name = name}
    IN  IF same = {} THEN 0 ELSE Min(same)

GetOption(p, name) == IF name \in DOMAIN p.option THEN p.option[name] ELSE Null

(* strings.TrimSpace on the names a model may pad, and fmt on the numbers    *)
(* whose text differs from the file's.                                       *)
Padded == " mail" :> "mail" @@ "No " :> "No" @@ " " :> ""
Printed == "3.0" :> "3" @@ "1e3" :> "1000"

Trim(s) == IF s \in DOMAIN Padded THEN Padded[s] ELSE s

(* default_case is [t, v]: a "text", v its parts between commas; a "list",   *)
(* v its items [t, s]; nothing or something else.  Empty names are dropped.  *)
Kept(names) ==
    LET kept[k \in 0..Len(names)] ==
          IF k = 0 THEN <<>>
          ELSE IF Trim(names[k]) = "" THEN kept[k - 1] ELSE Append(kept[k - 1], Trim(names[k]))
    IN  kept[Len(names)]

getDefaultCaseList(raw) ==
    CASE raw.t = "text" -> Kept(raw.v)
      [] raw.t = "list" -> Kept([i \in DOMAIN raw.v |-> IF raw.v[i].t = "str" THEN raw.v[i].s ELSE ""])
      [] OTHER -> <<>>

getDefaultCaseFirst(raw) ==
    LET cases == getDefaultCaseList(raw) IN IF cases = <<>> THEN "" ELSE cases[1]

(* What json.Unmarshal makes of lists and of the options of a file.          *)
IsSeq(s) == s \in Seq(Range(s))

OptionTyped(opt) ==
    opt # Null => /\ IsSeq(opt.cases) /\ \A c \in Range(opt.cases) : IsSeq(c.nested)
                  /\ opt.default_case.t \in {"text", "list"} => IsSeq(opt.default_case.v)

Typed(p) ==
    /\ IsSeq(p.tasks) /\ \A t \in Range(p.tasks) : IsSeq(t.option)
    /\ \A name \in DOMAIN p.option : OptionTyped(p.option[name])

(* The default of an input is a JSON value [t, s].                           *)
GetDefaultString(v) ==
    CASE v.t = "nil" -> ""
      [] v.t = "num" /\ v.s \in DOMAIN Printed -> Printed[v.s]
      [] OTHER -> v.s
-------------------------------------------------------------------------------
(* What the comments promise, from the text alone: how each byte is read,    *)
(* one after the other.                                                      *)

After(text, mode, i) ==
    LET is(k, b) == k <= Len(text) /\ text[k] = b
    IN  CASE mode = "escaped" -> "string"
          [] mode = "string" /\ text[i] = Backslash -> "escaped"
          [] mode = "string" /\ text[i] # Backslash -> IF text[i] = Quote THEN "code" ELSE "string"
          [] mode = "opening line" -> "line"
          [] mode = "line" -> IF text[i] = Newline THEN "code" ELSE "line"
          [] mode = "opening block" -> "block"
          [] mode = "block" -> IF text[i] = Star /\ is(i + 1, Slash) THEN "closing" ELSE "block"
          [] mode = "code" /\ text[i] = Slash /\ is(i + 1, Slash) -> "opening line"
          [] mode = "code" /\ text[i] = Slash /\ is(i + 1, Star) -> "opening block"
          [] mode = "code" /\ text[i] = Quote -> "string"
          [] OTHER -> "code"

Reading(text) ==
    LET mode[i \in 1..(Len(text) + 1)] ==
          IF i = 1 THEN "code" ELSE After(text, mode[i - 1], i - 1)
    IN  mode

(* A byte stays if it is neither in a comment nor one of its delimiters.     *)
Stays(text, reading, i) ==
    \/ reading[i] \in {"string", "escaped"}
    \/ reading[i] = "line" /\ text[i] = Newline
    \/ reading[i] = "code" /\ reading[i + 1] \notin {"opening line", "opening block"}

WithoutComments(text) ==
    LET reading == Reading(text)
        kept[i \in 0..Len(text)] ==
            IF i = 0 THEN <<>>
            ELSE IF Stays(text, reading, i) THEN Append(kept[i - 1], text[i]) ELSE kept[i - 1]
    IN  kept[Len(text)]

(* Every block comment of the text is closed.                                *)
Closed(text) == Reading(text)[Len(text) + 1] \notin {"block", "opening block"}

(* Imports as promised: every name once, where it first appears, with what   *)
(* the last file that could be read says of it; the nameless all stay.       *)
LastOfEachName(items) ==
    LET last(i) == IF items[i].name = "" THEN i
                   ELSE Max({j \in DOMAIN items : items[j].name = items[i].name})
        new(i) == items[i].name = "" \/ \A j \in 1..(i - 1) : items[j].name # items[i].name
        listed[k \in 0..Len(items)] ==
            IF k = 0 THEN <<>>
            ELSE IF new(k) THEN Append(listed[k - 1], items[last(k)]) ELSE listed[k - 1]
    IN  listed[Len(items)]

(* No name twice.                                                            *)
Once(items) ==
    \A i, j \in DOMAIN items : items[i].name # "" /\ items[i].name = items[j].name => i = j

Readable(dir, path) ==
    path \in DOMAIN dir /\ dir[path].decodes /\ WithoutComments(dir[path].text) = dir[path].plain

Imported(dir, field) ==
    LET import == dir[Main].content.import
        said[k \in 0..Len(import)] ==
            IF k = 0 THEN <<>>
            ELSE IF Readable(dir, import[k]) THEN said[k - 1] \o dir[import[k]].content[field]
            ELSE said[k - 1]
    IN  said[Len(import)]

DocumentedOptions(dir) ==
    LET import == dir[Main].content.import
        options(k) == dir[IF k = 0 THEN Main ELSE import[k]].content.option
        read == {k \in 0..Len(import) : k = 0 \/ Readable(dir, import[k])}
        says(name) == {k \in read : name \in DOMAIN options(k) /\ options(k)[name] # Null}
        names == UNION {DOMAIN options(k) : k \in read}
    IN  [name \in {n \in names : says(n) # {}} |-> options(Max(says(name)))[name]]
===============================================================================
