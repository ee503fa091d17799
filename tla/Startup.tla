-------------------------------- MODULE Startup --------------------------------
(***************************************************************************)
(* From config.yaml to the window a job controls: main loads the settings, *)
(* the command line overrides them in the one Config that SaveConfig also  *)
(* writes back, Init puts the user's window rules over the interface's and *)
(* a controller is connected to the first window that fits.  The token is  *)
(* followed in Credentials, other failures of Init in Project.             *)
(***************************************************************************)
EXTENDS Integers, SequencesExt

CONSTANTS
    Texts,         \* what settings, interface.json and windows have for text
    Reread,        \* what a YAML parser makes of a text put in double quotes as it is
    Backslashed,   \* the texts that contain a backslash
    Windows,       \* runtime.GOOS == "windows"
    Elsewhere,     \* directories in which no search looks
    Machines,      \* what may be installed: functions from Dirs to sets of parts
    Files,         \* what config.yaml may be when it all begins
    Edits,         \* what the user may make of it
    CommandLines,  \* [path, url]: -maaend and -server, "" where not given
    Controllers,   \* controllers of interface.json, by name: [type, win32]
    Desktops,      \* what FindDesktopWindows may return
    Finds,         \* pairs <<rule, text>>: regexp.MatchString finds the rule
    Malformed,     \* rules that are no regular expressions
    Holds,         \* pairs <<text, part>>: the text contains the part
    MaxStarts, MaxEvents  \* bounds: starts; edits and installations

(* What makes the whole file no YAML: an unknown escape, a control character, *)
(* a quote.                                                                  *)
Unreadable == "no YAML"

ASSUME StartupAssumption ==
    /\ {"", "wss://end-api"} \subseteq Texts /\ Windows \in BOOLEAN
    /\ Reread \in [Texts -> Texts \cup {Unreadable}]
    /\ MaxStarts \in Nat /\ MaxEvents \in Nat

(* Where detectMaaEndPath looks, in its order.                               *)
Candidates ==
    <<".", "..">> \o (IF Windows THEN <<"%APPDATA%/MaaEnd">> ELSE <<>>)
    \o <<"C:/MaaEnd", "D:/MaaEnd", "E:/MaaEnd", "HOME/MaaEnd">>
Dirs == Range(Candidates) \cup Elsewhere

(* log is logging.file, and stands for device.name and logging.level too.    *)
Settings(path, url, class, window, log) ==
    [path |-> path, url |-> url, class |-> class, window |-> window, log |-> log]
Default == Settings("", "wss://end-api", "", "", "")

(* config.yaml is "missing", "empty", "edited" (without the client's first   *)
(* line), "backslash" (with it, and with backslashes), "saved" or, where the *)
(* parser fails, "unreadable"; set is what the parser reads.                 *)
Forms == {"missing", "empty", "edited", "backslash", "saved", "unreadable"}
File(form, set) == [form |-> form, set |-> set]

None == [type |-> "none"]

(* What the constants may be: a file without settings stands for the default *)
(* ones, and a controller of interface.json may come without win32 section.  *)
Parts == {"interface.json", "maafw"}
Paths == Dirs \cup {""}
AllSettings == [path : Paths, url : Texts, class : Texts, window : Texts, log : Texts]
FileStates ==
    {f \in [form : Forms, set : AllSettings] :
        f.form \in {"missing", "empty", "unreadable"} => f.set = Default}
AllArgs == [path : Paths, url : Texts]
Sections == [type : {"section"}, class : Texts, window : Texts,
             screencap : Texts, mouse : Texts, keyboard : Texts]

ASSUME InputsAssumption ==
    /\ Machines \subseteq [Dirs -> SUBSET Parts]
    /\ Files \subseteq FileStates /\ Edits \subseteq FileStates
    /\ CommandLines \subseteq AllArgs
    /\ \A name \in DOMAIN Controllers :
          Controllers[name] \in [type : Texts, win32 : {None} \cup Sections]
    /\ Desktops \subseteq Seq([class : Texts, name : Texts])

VARIABLES
    pc,         \* where main is, and the read loop after it
    starts, events,
    installed,  \* the machine
    yaml,       \* config.yaml
    cfg,        \* globalConfig
    args,       \* this start's command line
    pi,         \* Controllers with the overrides of Init
    target,     \* the wrapper's controller
    wanted,     \* history: the settings as the user left them
    given,      \* history: the command lines since then
    lost        \* history: "no", "torn" by a crash or full disk, or "raced" by an edit

diskVars == <<installed, yaml>>
memVars == <<cfg, args, pi, target>>
histVars == <<wanted, given, lost>>
vars == <<pc, starts, events, diskVars, memVars, histVars>>

NoArgs == [path |-> "", url |-> ""]

Init ==
    /\ pc = "off" /\ starts = 0 /\ events = 0
    /\ installed \in Machines
    /\ yaml \in Files
    /\ cfg = Default /\ args = NoArgs
    /\ pi = Controllers /\ target = None
    /\ wanted = yaml.set /\ given = {} /\ lost = "no"

Goto(at, to) == pc = at /\ pc' = to
-------------------------------------------------------------------------------
(* config.Load and main.                                                     *)

isMaaEndDir_InterfaceOnly(path) == path \in Dirs /\ "interface.json" \in installed[path]
isMaaEndDir(path) == path \in Dirs /\ Parts \subseteq installed[path]

detectMaaEndPath ==
    LET found == {i \in DOMAIN Candidates : isMaaEndDir(Candidates[i])}
    IN  IF found = {} THEN "" ELSE Candidates[Min(found)]

Given(option, otherwise) == IF option # "" THEN option ELSE otherwise

(* A file that is there and cannot be parsed is fatal, before anything could *)
(* repair it.                                                                *)
Load ==
    /\ pc = "off" /\ starts < MaxStarts /\ starts' = starts + 1
    /\ args' \in CommandLines
    /\ \/ /\ yaml.form = "unreadable" /\ pc' = "refused"
          /\ UNCHANGED <<cfg, given>>
       \/ /\ yaml.form # "unreadable" /\ pc' = "format"
          /\ cfg' = [yaml.set EXCEPT !.path = Given(args'.path, Given(@, detectMaaEndPath)),
                                     !.url = Given(args'.url, @)]
          /\ given' = given \cup {args'}
    /\ UNCHANGED <<events, diskVars, pi, target, wanted, lost>>

NeedsRewrite == yaml.form \notin {"saved", "backslash"} \/ (Windows /\ yaml.form = "backslash")

(* A file that cannot be opened for writing costs a warning.                 *)
EnsureConfigFormat ==
    /\ \/ Goto("format", "rewrite") /\ NeedsRewrite /\ yaml' = File("empty", Default)
       \/ Goto("format", "preflight") /\ UNCHANGED yaml
    /\ UNCHANGED <<starts, events, installed, memVars, histVars>>

(* %s puts every text between double quotes as it is; the path has only      *)
(* slashes.                                                                  *)
Rendered_FromTemplate(c) == File("saved", Default)
Rendered(c) ==
    LET texts == {c.url, c.class, c.window, c.log}
    IN  IF \E t \in texts : Reread[t] = Unreadable THEN File("unreadable", Default)
        ELSE File(IF texts \cap Backslashed = {} THEN "saved" ELSE "backslash",
                  Settings(c.path, Reread[c.url], Reread[c.class], Reread[c.window], Reread[c.log]))

(* A write that fails leaves the file truncated or cut within a text.        *)
SaveConfig(at, to) ==
    /\ Goto(at, to)
    /\ \/ yaml' = Rendered(cfg) /\ UNCHANGED lost
       \/ yaml' \in {yaml, File("unreadable", Default)} /\ lost' = "torn"
    /\ UNCHANGED <<starts, events, installed, memVars, wanted, given>>

RewriteConfig == SaveConfig("rewrite", "preflight")

Preflight ==
    /\ LET maafwDir == cfg.path \in Dirs /\ "maafw" \in installed[cfg.path]
           interface == cfg.path \in Dirs /\ "interface.json" \in installed[cfg.path]
       IN  Goto("preflight", IF cfg.path # "" /\ interface /\ maafwDir THEN "init" ELSE "fatal")
    /\ UNCHANGED <<starts, events, diskVars, memVars, histVars>>

(* Not every controller has a win32 section.                                 *)
applyWin32Overrides_Win32Empty ==
    [name \in DOMAIN Controllers |->
        IF Controllers[name].win32 = None THEN Controllers[name]
        ELSE [Controllers[name] EXCEPT !.win32.class = cfg.class, !.win32.window = cfg.window]]
applyWin32Overrides ==
    [name \in DOMAIN Controllers |->
        IF Controllers[name].win32 = None THEN Controllers[name]
        ELSE [Controllers[name] EXCEPT !.win32.class = Given(cfg.class, @),
                                       !.win32.window = Given(cfg.window, @)]]

WrapperInit ==
    /\ Goto("init", "online")
    /\ pi' = applyWin32Overrides
    /\ UNCHANGED <<starts, events, diskVars, cfg, args, target, histVars>>

(* registered and auth_failed have the whole Config written.                 *)
SaveToken ==
    /\ Goto("online", "save")
    /\ yaml' = File("empty", Default)
    /\ UNCHANGED <<starts, events, installed, memVars, histVars>>

SaveTokenWrite == SaveConfig("save", "online")
-------------------------------------------------------------------------------
(* Controllers.                                                              *)

Matches(rule, text) ==
    rule = "" \/ (/\ text # ""
                  /\ IF rule \in Malformed THEN <<text, rule>> \in Holds
                     ELSE <<rule, text>> \in Finds)
matchWindow(win, class, window) == Matches(class, win.class) /\ Matches(window, win.name)

ScreencapMethods == {"GDI", "FramePool", "DXGI_DesktopDup", "DXGI_DesktopDup_Window", "PrintWindow", "ScreenDC"}
InputMethods == {"Seize", "SendMessage", "PostMessage", "SendMessageWithCursorPos", "PostMessageWithCursorPos",
                 "SendMessageWithCursorPosAndBlockInput", "PostMessageWithCursorPosAndBlockInput"}
parseScreencapMethod(method) == IF method \in ScreencapMethods THEN method ELSE "FramePool"
parseInputMethod(method) == IF method \in InputMethods THEN method ELSE "SendMessage"

(* The positions of the windows that fit.                                    *)
Matching(name, windows) ==
    LET w == pi[name].win32
    IN  IF w = None THEN {}
        ELSE {i \in DOMAIN windows : matchWindow(windows[i], w.class, w.window)}
Win32Target(name, window, windows) ==
    LET w == pi[name].win32
    IN  [type |-> "Win32", name |-> name, window |-> window, among |-> windows,
         screencap |-> parseScreencapMethod(w.screencap),
         mouse |-> parseInputMethod(w.mouse), keyboard |-> parseInputMethod(w.keyboard)]

(* None where the code returns an error.                                     *)
createWin32Controller_AnyWindow(name, windows) ==
    IF windows = <<>> \/ pi[name].win32 = None THEN None
    ELSE LET found == Matching(name, windows)
         IN  Win32Target(name, IF found = {} THEN None ELSE windows[Min(found)], windows)
createWin32Controller(name, windows) ==
    LET found == Matching(name, windows)
    IN  IF found = {} THEN None ELSE Win32Target(name, windows[Min(found)], windows)

(* The first device there is; the interface has no say.                      *)
createAdbController(name) == [type |-> "Adb", name |-> name]

Created(name, windows) ==
    CASE pi[name].type = "Win32" -> createWin32Controller(name, windows)
      [] pi[name].type = "Adb" -> createAdbController(name)
      [] OTHER -> None

(* The old controller is destroyed before the new one is tried, which may    *)
(* also fail to connect.                                                     *)
ConnectController(name) ==
    /\ pc \in {"online", "save"}
    /\ ~(target # None /\ target.name = name)
    /\ \/ \E windows \in Desktops : target' = Created(name, windows)
       \/ target' = None
    /\ UNCHANGED <<pc, starts, events, diskVars, cfg, args, pi, histVars>>
-------------------------------------------------------------------------------
(* The user, and the end of the process.                                     *)

Die ==
    /\ pc # "off" /\ pc' = "off"
    /\ cfg' = Default /\ args' = NoArgs /\ pi' = Controllers /\ target' = None
    /\ lost' = IF pc \in {"rewrite", "save"} THEN "torn" ELSE lost
    /\ UNCHANGED <<starts, events, diskVars, wanted, given>>

Edit ==
    /\ events < MaxEvents /\ events' = events + 1
    /\ yaml' \in Edits /\ wanted' = yaml'.set
    /\ pc \notin {"rewrite", "save"}
    /\ given' = {} /\ lost' = IF pc = "off" THEN "no" ELSE "raced"
    /\ UNCHANGED <<pc, starts, installed, memVars>>

Install ==
    /\ events < MaxEvents /\ events' = events + 1
    /\ pc \in {"off", "online"}
    /\ installed' \in Machines
    /\ UNCHANGED <<pc, starts, yaml, memVars, histVars>>

Over == pc = "off" /\ starts = MaxStarts /\ UNCHANGED vars

Next ==
    \/ Load \/ EnsureConfigFormat \/ RewriteConfig \/ Preflight \/ WrapperInit
    \/ SaveToken \/ SaveTokenWrite
    \/ \E name \in DOMAIN Controllers : ConnectController(name)
    \/ Die \/ Edit \/ Install \/ Over

Spec == Init /\ [][Next]_vars
-------------------------------------------------------------------------------
(* Properties.                                                               *)

Running == pc \notin {"off", "refused", "fatal"}

TypeOK ==
    /\ pc \in {"off", "refused", "fatal", "format", "rewrite", "preflight", "init", "online", "save"}
    /\ starts \in 0..MaxStarts /\ events \in 0..MaxEvents
    /\ installed \in [Dirs -> SUBSET Parts]
    /\ yaml \in FileStates
    /\ {cfg, wanted} \subseteq AllSettings /\ args \in AllArgs
    /\ DOMAIN pi = DOMAIN Controllers
    /\ target.type \in {"none", "Win32", "Adb"}
    /\ target.type = "Win32" => target.window \in Range(target.among)
    /\ given \subseteq CommandLines /\ lost \in {"no", "torn", "raced"}

(* A text that comes back from a save as it was.                             *)
Keeps(t) == Reread[t] = t

(* What a setting may be when neither a crash nor a race with the user lost  *)
(* it: his own or, where a command line may set it, an earlier command       *)
(* line's, for it goes into the file; or the place detection found.          *)
Urls == {wanted.url} \cup ({a.url : a \in given} \ {""})
Places ==
    ({a.path : a \in given} \ {""})
    \cup (IF wanted.path # "" THEN {wanted.path} ELSE Range(Candidates) \cup {""})

(* Settings that follow the user, each if its texts survive a save.          *)
RulesFollow(set) ==
    /\ Keeps(wanted.class) => set.class = wanted.class
    /\ Keeps(wanted.window) => set.window = wanted.window
    /\ Keeps(wanted.log) => set.log = wanted.log
UrlFollows(set) == (\A u \in Urls : Keeps(u)) => set.url \in Urls

(* Whatever starts, saves, command lines and repairs there were, a client    *)
(* runs with the window rules and the log its user last wrote, with the      *)
(* server and directory of its command line, and where that is silent with   *)
(* the user's or an earlier command line's.  That is so of every text that   *)
(* YAML's double quotes keep, which SaveConfig does not escape for, and      *)
(* unless a save was torn or raced with the user.                            *)
RunsAsConfigured ==
    Running /\ lost = "no" =>
        /\ RulesFollow(cfg)
        /\ IF args.url # "" THEN cfg.url = args.url ELSE UrlFollows(cfg)
        /\ IF args.path # "" THEN cfg.path = args.path ELSE cfg.path \in Places

(* The window under control is the first of the desktop that obeys the rules *)
(* of the user, if YAML's double quotes keep them, and the interface's where *)
(* he has none, and it is driven by the methods the interface names.         *)
ControlsRightWindow ==
    target.type = "Win32" /\ lost = "no" /\ Keeps(wanted.class) /\ Keeps(wanted.window) =>
        LET own == Controllers[target.name].win32
            Fits(win) ==
                /\ Matches(IF wanted.class = "" THEN own.class ELSE wanted.class, win.class)
                /\ Matches(IF wanted.window = "" THEN own.window ELSE wanted.window, win.name)
        IN  /\ \E i \in DOMAIN target.among :
                  /\ target.window = target.among[i] /\ Fits(target.among[i])
                  /\ \A k \in 1..(i - 1) : ~Fits(target.among[k])
            /\ own.screencap \in ScreencapMethods => target.screencap = own.screencap
            /\ <<own.mouse, own.keyboard>> \in InputMethods \X InputMethods =>
                  <<target.mouse, target.keyboard>> = <<own.mouse, own.keyboard>>

(* The first start without a path, if it can read config.yaml, finds a       *)
(* MaaEnd that is where it looks, though half of another may lie on the way. *)
FirstStartFinds ==
    pc = "fatal" /\ starts = 1 /\ wanted.path = "" /\ args.path = "" /\ lost = "no" =>
        \A place \in Range(Candidates) : ~(Parts \subseteq installed[place])

(* Why they hold.                                                            *)

(* Whole and readable, config.yaml has settings to run with.                 *)
FileFollows ==
    lost = "no" /\ pc \notin {"rewrite", "save"} /\ yaml.form # "unreadable" =>
        RulesFollow(yaml.set) /\ UrlFollows(yaml.set) /\ yaml.set.path \in Places

ArgsGiven == Running /\ lost = "no" => args \in given

(* The overrides are there while the client is online, and only then is a    *)
(* controller.                                                               *)
OverriddenOnline ==
    /\ pi = IF pc \in {"online", "save"} THEN applyWin32Overrides ELSE Controllers
    /\ target # None => pc \in {"online", "save"}

FirstStart ==
    /\ starts = 0 => pc = "off" /\ lost = "no" /\ yaml.set = wanted
    /\ starts = 1 /\ pc \in {"format", "rewrite", "preflight"} /\ lost = "no"
          /\ wanted.path = "" /\ args.path = "" => cfg.path = detectMaaEndPath

(* The inductive invariant.                                                  *)
IInv ==
    /\ TypeOK /\ FileFollows /\ ArgsGiven /\ RunsAsConfigured
    /\ OverriddenOnline /\ ControlsRightWindow
    /\ FirstStart /\ FirstStartFinds

(* What the documents say and the code does not do.                          *)

(* The rules of the user stay as he wrote them.                              *)
RulesKept ==
    Running /\ lost = "no" => cfg.class = wanted.class /\ cfg.window = wanted.window

(* The client can read what it saves.                                        *)
SavesReadable == Running /\ lost = "no" => yaml.form # "unreadable"

(* EnsureConfigFormat repairs what backslashes have made invalid.            *)
BackslashesRepaired == Windows => pc # "refused"

(* The same of every start: an empty path means detection.                   *)
EmptyPathDetects ==
    pc = "fatal" /\ wanted.path = "" /\ args.path = "" /\ lost = "no" =>
        \A place \in Range(Candidates) : ~(Parts \subseteq installed[place])

(* A command line is about the start it is given to.                         *)
FlagsAreForOneStart ==
    Running /\ lost = "no" /\ args.url = "" => cfg.url = wanted.url

(* What the user wrote last is what the next start reads.                    *)
EditSurvives ==
    [][pc = "off" /\ pc' = "format" /\ lost # "torn" => cfg'.class = wanted.class]_vars

(* Settings outlive a crash.                                                 *)
CrashKeepsSettings ==
    [][pc = "off" /\ pc' = "format" /\ lost # "raced" => cfg'.class = wanted.class]_vars
===============================================================================
