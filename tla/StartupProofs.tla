----------------------------- MODULE StartupProofs -----------------------------
(***************************************************************************)
(* Proofs about Startup for any interface, desktops, files, edits and      *)
(* command lines: which settings a client runs with and which window it    *)
(* takes, whatever was saved, repaired and reconnected before.             *)
(***************************************************************************)
EXTENDS Startup, SequenceTheorems, WellFoundedInduction, TLAPS

USE DEF vars, diskVars, memVars, histVars, Goto, File

(* The first of a set of positions.                                          *)
LEMMA Least ==
    ASSUME NEW T, T \subseteq Nat, T # {}
    PROVE  Min(T) \in T /\ \A y \in T : Min(T) <= y
<1>1. OpToRel(<, Nat) = {ss \in Nat \X Nat : ss[1] < ss[2]}
  BY DEF OpToRel
<1>2. PICK x \in T : \A y \in T : ~(<<y, x>> \in OpToRel(<, Nat))
  BY NatLessThanWellFounded, WFMin
<1>3. ASSUME NEW y \in T PROVE x <= y
  <2>1. <<y, x>> \in Nat \X Nat /\ <<y, x>>[1] = y /\ <<y, x>>[2] = x
    OBVIOUS
  <2>2. <<y, x>> \notin {ss \in Nat \X Nat : ss[1] < ss[2]}
    BY <1>1, <1>2, Zenon
  <2>3. ~(y < x)
    BY <2>1, <2>2
  <2>4. x \in Nat /\ y \in Nat
    OBVIOUS
  <2>5. QED BY <2>3, <2>4
<1>4. QED BY <1>3 DEF Min

(* A section of interface.json is not the lack of one.                       *)
LEMMA SectionThere == \A w \in Sections : w # None
  BY DEF Sections, None

(* None of the places where detection looks is the empty path.               *)
LEMMA Named == /\ \A i \in DOMAIN Candidates : i \in Nat /\ Candidates[i] # ""
               /\ Range(Candidates) \subseteq Dirs
<1> DEFINE S == {".", "..", "%APPDATA%/MaaEnd", "C:/MaaEnd", "D:/MaaEnd", "E:/MaaEnd", "HOME/MaaEnd"}
           A == <<".", "..">>
           B == IF Windows THEN <<"%APPDATA%/MaaEnd">> ELSE <<>>
           C == <<"C:/MaaEnd", "D:/MaaEnd", "E:/MaaEnd", "HOME/MaaEnd">>
<1>1. A \in Seq(S) /\ B \in Seq(S) /\ C \in Seq(S)
  <2>1. /\ "." \in S /\ ".." \in S /\ "%APPDATA%/MaaEnd" \in S
        /\ "C:/MaaEnd" \in S /\ "D:/MaaEnd" \in S /\ "E:/MaaEnd" \in S /\ "HOME/MaaEnd" \in S
    OBVIOUS
  <2> HIDE DEF S
  <2>2. A \in Seq(S)
    BY <2>1
  <2>3. B \in Seq(S)
    BY <2>1
  <2>4. C \in Seq(S)
    BY <2>1
  <2>5. QED BY <2>2, <2>3, <2>4
<1>2. "" \notin S
  OBVIOUS
<1>3. Candidates = A \o B \o C
  BY DEF Candidates
<1> HIDE DEF A, B, C, S
<1>4. A \o B \in Seq(S)
  BY <1>1, ConcatProperties
<1>5. Candidates \in Seq(S)
  BY <1>1, <1>3, <1>4, ConcatProperties
<1>6. DOMAIN Candidates = 1..Len(Candidates) /\ Len(Candidates) \in Nat
  BY <1>5, LenProperties
<1>7. \A i \in 1..Len(Candidates) : Candidates[i] \in S
  BY <1>5, ElementOfSeq
<1>8. \A i \in DOMAIN Candidates : i \in Nat /\ Candidates[i] # ""
  <2> TAKE i \in DOMAIN Candidates
  <2>1. i \in Nat /\ Candidates[i] \in S
    BY <1>6, <1>7
  <2>2. QED BY <1>2, <2>1, Zenon
<1>9. Range(Candidates) \subseteq Dirs
  BY DEF Dirs
<1>10. QED BY <1>8, <1>9

(* Detection finds a whole MaaEnd if one of its places has one.              *)
LEMMA Detection ==
    \/ /\ detectMaaEndPath = ""
       /\ \A place \in Range(Candidates) : ~isMaaEndDir(place)
    \/ /\ detectMaaEndPath \in Range(Candidates) /\ detectMaaEndPath # ""
       /\ isMaaEndDir(detectMaaEndPath)
<1> DEFINE found == {i \in DOMAIN Candidates : isMaaEndDir(Candidates[i])}
<1>1. DOMAIN Candidates \subseteq Nat /\ \A i \in DOMAIN Candidates : Candidates[i] # ""
  BY Named
<1>2. detectMaaEndPath = IF found = {} THEN "" ELSE Candidates[Min(found)]
  BY DEF detectMaaEndPath
<1>3. Range(Candidates) = {Candidates[i] : i \in DOMAIN Candidates}
  BY DEF Range
<1>4. CASE found = {}
  BY <1>2, <1>3, <1>4
<1>5. CASE found # {}
  <2>1. Min(found) \in found
    BY <1>1, <1>5, Least
  <2>2. QED BY <1>1, <1>2, <1>3, <1>5, <2>1
<1>6. QED BY <1>4, <1>5

LEMMA DetectionOK == detectMaaEndPath \in Range(Candidates) \cup {""} /\ detectMaaEndPath \in Paths
  BY Detection, Named DEF Paths

LEMMA DefaultOK ==
    /\ Default \in AllSettings
    /\ File("empty", Default) \in FileStates /\ File("unreadable", Default) \in FileStates
<1>1. Default \in AllSettings
  BY StartupAssumption DEF Default, Settings, AllSettings, Paths
<1>2. QED BY <1>1 DEF FileStates, Forms

(* What a save makes of settings: a file that cannot be read, or the texts   *)
(* as they are read again.                                                   *)
LEMMA RenderedIs ==
    ASSUME NEW c \in AllSettings
    PROVE  /\ Rendered(c) \in FileStates
           /\ Rendered(c).form # "unreadable" =>
                /\ Rendered(c).set.path = c.path /\ Rendered(c).set.url = Reread[c.url]
                /\ Rendered(c).set.class = Reread[c.class]
                /\ Rendered(c).set.window = Reread[c.window]
                /\ Rendered(c).set.log = Reread[c.log]
<1> DEFINE texts == {c.url, c.class, c.window, c.log}
           set == Settings(c.path, Reread[c.url], Reread[c.class], Reread[c.window], Reread[c.log])
           form == IF texts \cap Backslashed = {} THEN "saved" ELSE "backslash"
<1>1. c.path \in Paths /\ c.url \in Texts /\ c.class \in Texts /\ c.window \in Texts /\ c.log \in Texts
  BY DEF AllSettings
<1>2. CASE \E t \in texts : Reread[t] = Unreadable
  <2>1. Rendered(c) = File("unreadable", Default)
    BY <1>2 DEF Rendered
  <2>2. QED BY <2>1, DefaultOK
<1>3. CASE \A t \in texts : Reread[t] # Unreadable
  <2>1. Rendered(c) = File(form, set)
    BY <1>3 DEF Rendered
  <2>2. form \in Forms /\ form \notin {"missing", "empty", "unreadable"}
    BY DEF Forms
  <2>3. Reread[c.url] \in Texts /\ Reread[c.class] \in Texts /\ Reread[c.window] \in Texts
        /\ Reread[c.log] \in Texts
    BY <1>1, <1>3, StartupAssumption
  <2>4. set \in AllSettings
    BY <1>1, <2>3 DEF Settings, AllSettings
  <2>5. /\ set.path = c.path /\ set.url = Reread[c.url] /\ set.class = Reread[c.class]
        /\ set.window = Reread[c.window] /\ set.log = Reread[c.log]
    BY DEF Settings
  <2> HIDE DEF form, set
  <2>6. File(form, set) \in FileStates
    BY <2>2, <2>4 DEF FileStates
  <2>7. QED BY <2>1, <2>5, <2>6
<1>4. QED BY <1>2, <1>3

LEMMA InitIInv == Init => IInv
<1> SUFFICES ASSUME Init PROVE IInv
  OBVIOUS
<1>1. yaml \in FileStates /\ yaml.set \in AllSettings
  BY InputsAssumption DEF Init, FileStates
<1>2. NoArgs \in AllArgs
  BY StartupAssumption DEF NoArgs, AllArgs, Paths
<1>3. TypeOK
  <2>1. installed \in [Dirs -> SUBSET Parts] /\ yaml \in FileStates
    BY <1>1, InputsAssumption DEF Init
  <2>2. {cfg, wanted} \subseteq AllSettings /\ args \in AllArgs
    BY <1>1, <1>2, DefaultOK DEF Init
  <2>3. target.type = "none" /\ DOMAIN pi = DOMAIN Controllers /\ given = {}
    BY DEF Init, None
  <2>4. starts \in 0..MaxStarts /\ events \in 0..MaxEvents /\ pc = "off" /\ lost = "no"
    <3>1. MaxStarts \in Nat /\ MaxEvents \in Nat
      BY StartupAssumption
    <3>2. QED BY <3>1 DEF Init
  <2>5. QED BY <2>1, <2>2, <2>3, <2>4 DEF TypeOK
<1>4. FileFollows
  BY <1>1 DEF Init, FileFollows, RulesFollow, UrlFollows, Urls, Places
<1>5. ArgsGiven /\ RunsAsConfigured /\ FirstStart /\ FirstStartFinds
  BY DEF Init, ArgsGiven, RunsAsConfigured, Running, FirstStart, FirstStartFinds
<1>6. OverriddenOnline /\ ControlsRightWindow
  BY DEF Init, OverriddenOnline, ControlsRightWindow, None
<1>7. QED BY <1>3, <1>4, <1>5, <1>6 DEF IInv

(* What the overrides leave of a section.                                    *)
LEMMA Overridden ==
    ASSUME NEW name \in DOMAIN Controllers
    PROVE  /\ applyWin32Overrides[name].type = Controllers[name].type
           /\ Controllers[name].win32 = None => applyWin32Overrides[name].win32 = None
           /\ Controllers[name].win32 # None =>
                LET own == Controllers[name].win32
                    w == applyWin32Overrides[name].win32
                IN  /\ w # None
                    /\ w.class = Given(cfg.class, own.class)
                    /\ w.window = Given(cfg.window, own.window)
                    /\ w.screencap = own.screencap
                    /\ w.mouse = own.mouse /\ w.keyboard = own.keyboard
<1>1. Controllers[name] \in [type : Texts, win32 : {None} \cup Sections]
  <2>1. \A n \in DOMAIN Controllers : Controllers[n] \in [type : Texts, win32 : {None} \cup Sections]
    BY InputsAssumption
  <2>2. QED BY <2>1
<1>2. CASE Controllers[name].win32 = None
  BY <1>2 DEF applyWin32Overrides
<1>3. CASE Controllers[name].win32 # None
  <2>1. Controllers[name].win32 \in Sections
    BY <1>1, <1>3
  <2>2. applyWin32Overrides[name] =
           [Controllers[name] EXCEPT !.win32.class = Given(cfg.class, @),
                                     !.win32.window = Given(cfg.window, @)]
    BY <1>3 DEF applyWin32Overrides
  <2>3. Controllers[name].win32 \in
           [type : {"section"}, class : Texts, window : Texts,
            screencap : Texts, mouse : Texts, keyboard : Texts]
    BY <2>1 DEF Sections
  <2>4. applyWin32Overrides[name].win32 =
           [Controllers[name].win32 EXCEPT
              !.class = Given(cfg.class, Controllers[name].win32.class),
              !.window = Given(cfg.window, Controllers[name].win32.window)]
    BY <1>1, <2>2
  <2>5. applyWin32Overrides[name].type = Controllers[name].type
    BY <1>1, <2>2
  <2>6. applyWin32Overrides[name].win32.type = "section"
    BY <2>3, <2>4
  <2>7. QED BY <1>3, <2>3, <2>4, <2>5, <2>6 DEF None
<1>4. QED BY <1>2, <1>3

(* A connect ends with no controller, a device or the first window that      *)
(* fits the rules in force.                                                  *)
LEMMA CreatedIs ==
    ASSUME NEW name \in DOMAIN Controllers, NEW windows \in Desktops
    PROVE  LET t == Created(name, windows)
               w == pi[name].win32
           IN  \/ t = None
               \/ t = createAdbController(name)
               \/ /\ w # None
                  /\ \E i \in DOMAIN windows :
                        /\ t = Win32Target(name, windows[i], windows)
                        /\ matchWindow(windows[i], w.class, w.window)
                        /\ \A k \in 1..(i - 1) : ~matchWindow(windows[k], w.class, w.window)
<1> DEFINE t == Created(name, windows)
           w == pi[name].win32
           found == Matching(name, windows)
<1>1. windows \in Seq([class : Texts, name : Texts])
  BY InputsAssumption
<1>2. DOMAIN windows = 1..Len(windows) /\ Len(windows) \in Nat
  BY <1>1, LenProperties
<1>3. t = None \/ t = createAdbController(name) \/ t = createWin32Controller(name, windows)
  BY DEF Created
<1>4. createWin32Controller(name, windows) =
         IF found = {} THEN None ELSE Win32Target(name, windows[Min(found)], windows)
  BY DEF createWin32Controller
<1>5. found = IF w = None THEN {}
              ELSE {i \in DOMAIN windows : matchWindow(windows[i], w.class, w.window)}
  BY DEF Matching
<1>6. CASE found = {}
  BY <1>3, <1>4, <1>6
<1>7. CASE found # {}
  <2>1. w # None /\ found = {i \in DOMAIN windows : matchWindow(windows[i], w.class, w.window)}
    BY <1>5, <1>7
  <2> HIDE DEF found
  <2>2. found \subseteq 1..Len(windows) /\ found \subseteq Nat
    BY <1>2, <2>1
  <2>3. Min(found) \in found /\ \A y \in found : Min(found) <= y
    BY <1>7, <2>2, Least
  <2> DEFINE i == Min(found)
  <2>4. i \in DOMAIN windows /\ matchWindow(windows[i], w.class, w.window)
    BY <2>1, <2>3
  <2>5. \A k \in 1..(i - 1) : ~matchWindow(windows[k], w.class, w.window)
    <3> SUFFICES ASSUME NEW k \in 1..(i - 1), matchWindow(windows[k], w.class, w.window)
                 PROVE  FALSE
      OBVIOUS
    <3>1. i \in 1..Len(windows)
      BY <1>2, <2>4
    <3> HIDE DEF i
    <3>2. k \in 1..Len(windows) /\ ~(i <= k)
      BY <1>2, <3>1
    <3>3. k \in found
      BY <1>2, <2>1, <3>2
    <3>4. QED BY <2>3, <3>2, <3>3 DEF i
  <2>6. createWin32Controller(name, windows) = Win32Target(name, windows[i], windows)
    BY <1>4, <1>7
  <2> HIDE DEF i, w, t
  <2>7. QED BY <1>3, <2>1, <2>4, <2>5, <2>6 DEF w, t
<1>8. QED BY <1>6, <1>7

LEMMA Win32TargetIs ==
    ASSUME NEW name, NEW window, NEW windows
    PROVE  LET t == Win32Target(name, window, windows)
               w == pi[name].win32
           IN  /\ t.type = "Win32" /\ t.name = name /\ t.window = window /\ t.among = windows
               /\ t.screencap = parseScreencapMethod(w.screencap)
               /\ t.mouse = parseInputMethod(w.mouse) /\ t.keyboard = parseInputMethod(w.keyboard)
  BY DEF Win32Target

(* What every settings record, read or written, is made of.                  *)
LEMMA ReadSettings ==
    ASSUME NEW set \in AllSettings, NEW a \in AllArgs
    PROVE  LET c == [set EXCEPT !.path = Given(a.path, Given(@, detectMaaEndPath)),
                                !.url = Given(a.url, @)]
           IN  /\ c \in AllSettings
               /\ c.class = set.class /\ c.window = set.window /\ c.log = set.log
               /\ c.url = (IF a.url # "" THEN a.url ELSE set.url)
               /\ c.path = (IF a.path # "" THEN a.path
                            ELSE IF set.path # "" THEN set.path ELSE detectMaaEndPath)
<1>1. a.path \in Paths /\ a.url \in Texts
  BY DEF AllArgs
<1>2. set.path \in Paths /\ set.url \in Texts
  BY DEF AllSettings
<1>3. detectMaaEndPath \in Paths
  BY DetectionOK
<1>4. Given(a.path, Given(set.path, detectMaaEndPath)) \in Paths /\ Given(a.url, set.url) \in Texts
  BY <1>1, <1>2, <1>3 DEF Given
<1>5. QED BY <1>4 DEF AllSettings, Given

LEMMA NextTypeOK ==
    ASSUME TypeOK, Next
    PROVE  TypeOK'
<1>0. MaxStarts \in Nat /\ MaxEvents \in Nat
  BY StartupAssumption
<1>1. CASE Load
  <2>1. yaml.set \in AllSettings
    BY DEF TypeOK, FileStates
  <2>2. args' \in AllArgs /\ args' \in CommandLines
    BY <1>1, InputsAssumption DEF Load
  <2>3. cfg' \in AllSettings
    <3>1. CASE UNCHANGED cfg
      BY <3>1 DEF TypeOK
    <3>2. CASE cfg' = [yaml.set EXCEPT !.path = Given(args'.path, Given(@, detectMaaEndPath)),
                                       !.url = Given(args'.url, @)]
      BY <2>1, <2>2, <3>2, ReadSettings
    <3>3. QED BY <1>1, <3>1, <3>2 DEF Load
  <2>4. pc' \in {"refused", "format"} /\ starts' \in 0..MaxStarts
    BY <1>0, <1>1 DEF Load, TypeOK
  <2>5. UNCHANGED <<events, installed, yaml, pi, target, wanted, lost>> /\ given' \subseteq CommandLines
    BY <1>1, <2>2 DEF Load, TypeOK
  <2>6. QED BY <2>2, <2>3, <2>4, <2>5 DEF TypeOK
<1>2. CASE EnsureConfigFormat
  <2>1. yaml' \in FileStates
    BY <1>2, DefaultOK DEF EnsureConfigFormat, TypeOK
  <2>2. QED BY <1>2, <2>1 DEF EnsureConfigFormat, TypeOK
<1>3. ASSUME NEW at, NEW to \in {"preflight", "online"}, SaveConfig(at, to)
      PROVE  TypeOK'
  <2>1. yaml' \in FileStates
    <3>1. cfg \in AllSettings /\ yaml \in FileStates
      BY DEF TypeOK
    <3>2. QED BY <1>3, <3>1, RenderedIs, DefaultOK DEF SaveConfig
  <2>2. QED BY <1>3, <2>1 DEF SaveConfig, TypeOK
<1>4. CASE Preflight
  BY <1>4 DEF Preflight, TypeOK
<1>5. CASE WrapperInit
  BY <1>5 DEF WrapperInit, TypeOK, applyWin32Overrides
<1>6. CASE SaveToken
  <2>1. yaml' \in FileStates
    BY <1>6, DefaultOK DEF SaveToken
  <2>2. QED BY <1>6, <2>1 DEF SaveToken, TypeOK
<1>7. ASSUME NEW name \in DOMAIN Controllers, ConnectController(name)
      PROVE  TypeOK'
  <2>1. UNCHANGED <<pc, starts, events, installed, yaml, cfg, args, pi, wanted, given, lost>>
    BY <1>7 DEF ConnectController
  <2>2. target'.type \in {"none", "Win32", "Adb"}
        /\ (target'.type = "Win32" => target'.window \in Range(target'.among))
    <3>1. CASE target' = None
      BY <3>1 DEF None
    <3>2. ASSUME NEW windows \in Desktops, target' = Created(name, windows) PROVE <2>2
      <4>1. CASE target' = None
        BY <4>1 DEF None
      <4>2. CASE target' = createAdbController(name)
        BY <4>2 DEF createAdbController
      <4>3. CASE \E i \in DOMAIN windows : target' = Win32Target(name, windows[i], windows)
        <5>1. PICK i \in DOMAIN windows : target' = Win32Target(name, windows[i], windows)
          BY <4>3
        <5>2. target'.type = "Win32" /\ target'.window = windows[i] /\ target'.among = windows
          BY <5>1, Win32TargetIs
        <5>3. QED BY <5>2 DEF Range
      <4>4. QED BY <3>2, <4>1, <4>2, <4>3, CreatedIs
    <3>3. QED BY <1>7, <3>1, <3>2 DEF ConnectController
  <2>3. QED BY <2>1, <2>2 DEF TypeOK
<1>8. CASE Die
  <2>1. cfg' \in AllSettings /\ args' \in AllArgs
    BY <1>8, DefaultOK, StartupAssumption DEF Die, NoArgs, AllArgs, Paths
  <2>2. target'.type = "none"
    BY <1>8 DEF Die, None
  <2>3. QED BY <1>8, <2>1, <2>2 DEF Die, TypeOK
<1>9. CASE Edit
  <2>1. yaml' \in FileStates /\ wanted' \in AllSettings
    BY <1>9, InputsAssumption DEF Edit, FileStates
  <2>2. events' \in 0..MaxEvents
    BY <1>0, <1>9 DEF Edit, TypeOK
  <2>3. lost' \in {"no", "raced"} /\ given' = {}
    BY <1>9 DEF Edit
  <2>4. UNCHANGED <<pc, starts, installed, cfg, args, pi, target>>
    BY <1>9 DEF Edit
  <2>5. QED BY <2>1, <2>2, <2>3, <2>4 DEF TypeOK
<1>10. CASE Install
  <2>1. installed' \in [Dirs -> SUBSET Parts] /\ events' \in 0..MaxEvents
    BY <1>0, <1>10, InputsAssumption DEF Install, TypeOK
  <2>2. QED BY <1>10, <2>1 DEF Install, TypeOK
<1>11. CASE Over
  BY <1>11 DEF Over, TypeOK
<1>12. QED
  BY <1>1, <1>2, <1>3, <1>4, <1>5, <1>6, <1>7, <1>8, <1>9, <1>10, <1>11
     DEF Next, RewriteConfig, SaveTokenWrite

(* What a setting may be stays so as command lines are added.                *)
LEMMA MoreGiven ==
    ASSUME UNCHANGED wanted, given \subseteq given'
    PROVE  Urls \subseteq Urls' /\ Places \subseteq Places'
  BY DEF Urls, Places

(* What a running client writes, if it can be read, is what the file may     *)
(* hold.                                                                     *)
LEMMA Writable ==
    ASSUME TypeOK, ArgsGiven, RunsAsConfigured, Running, lost = "no",
           Rendered(cfg).form # "unreadable"
    PROVE  /\ RulesFollow(Rendered(cfg).set) /\ UrlFollows(Rendered(cfg).set)
           /\ Rendered(cfg).set.path \in Places
<1> DEFINE set == Rendered(cfg).set
<1>1. /\ set.path = cfg.path /\ set.url = Reread[cfg.url]
      /\ set.class = Reread[cfg.class] /\ set.window = Reread[cfg.window] /\ set.log = Reread[cfg.log]
  <2>1. cfg \in AllSettings
    BY DEF TypeOK
  <2>2. QED BY <2>1, RenderedIs
<1>2. RulesFollow(cfg) /\ args \in given
  BY DEF RunsAsConfigured, ArgsGiven
<1>3. cfg.path \in Places
  BY <1>2 DEF RunsAsConfigured, Places
<1>4. (\A u \in Urls : Keeps(u)) => cfg.url \in Urls
  BY <1>2 DEF RunsAsConfigured, UrlFollows, Urls
<1> HIDE DEF set
<1>5. RulesFollow(set)
  BY <1>1, <1>2 DEF RulesFollow, Keeps
<1>6. UrlFollows(set)
  <2> SUFFICES ASSUME \A u \in Urls : Keeps(u) PROVE set.url \in Urls
    BY DEF UrlFollows
  <2>1. cfg.url \in Urls /\ Keeps(cfg.url)
    BY <1>4
  <2>2. QED BY <1>1, <2>1 DEF Keeps
<1>7. set.path \in Places
  BY <1>1, <1>3
<1>8. QED BY <1>5, <1>6, <1>7 DEF set

(* Which stays so as command lines are added.                                *)
LEMMA FollowsLonger ==
    ASSUME FileFollows, pc \notin {"rewrite", "save"}, lost = "no", yaml.form # "unreadable",
           UNCHANGED <<yaml, wanted>>, given \subseteq given'
    PROVE  RulesFollow(yaml.set)' /\ UrlFollows(yaml.set)' /\ (yaml.set.path \in Places)'
<1>1. RulesFollow(yaml.set) /\ UrlFollows(yaml.set) /\ yaml.set.path \in Places
  BY DEF FileFollows
<1>2. Urls \subseteq Urls' /\ Places \subseteq Places'
  BY MoreGiven
<1>3. RulesFollow(yaml.set)'
  BY <1>1 DEF RulesFollow, Keeps
<1>4. UrlFollows(yaml.set)'
  BY <1>1, <1>2 DEF UrlFollows, Keeps
<1>5. QED BY <1>1, <1>2, <1>3, <1>4

LEMMA NextFileFollows ==
    ASSUME IInv, Next
    PROVE  FileFollows'
<1> USE DEF FileFollows
<1>0. TypeOK /\ FileFollows /\ ArgsGiven /\ RunsAsConfigured
  BY DEF IInv
<1>1. ASSUME pc \notin {"rewrite", "save"}, UNCHANGED <<yaml, wanted, lost>>, given \subseteq given'
      PROVE  FileFollows'
  BY <1>0, <1>1, FollowsLonger
<1>2. CASE Load
  BY <1>1, <1>2 DEF Load
<1>3. CASE EnsureConfigFormat
  BY <1>1, <1>3 DEF EnsureConfigFormat
<1>4. ASSUME NEW at \in {"rewrite", "save"}, NEW to, SaveConfig(at, to)
      PROVE  FileFollows'
  <2>1. CASE lost' # "no"
    BY <2>1
  <2>2. CASE lost' = "no"
    <3> SUFFICES ASSUME yaml'.form # "unreadable"
                 PROVE  RulesFollow(yaml.set)' /\ UrlFollows(yaml.set)' /\ (yaml.set.path \in Places)'
      OBVIOUS
    <3>1. yaml' = Rendered(cfg) /\ UNCHANGED <<wanted, given, lost>>
      BY <1>4, <2>2 DEF SaveConfig
    <3>2. Running /\ lost = "no"
      BY <1>4, <2>2, <3>1 DEF SaveConfig, Running
    <3> DEFINE new == Rendered(cfg)
    <3>3. RulesFollow(new.set) /\ UrlFollows(new.set) /\ new.set.path \in Places
      BY <1>0, <3>1, <3>2, Writable
    <3>4. Urls' = Urls /\ Places' = Places /\ wanted' = wanted /\ yaml' = new
      BY <3>1 DEF Urls, Places
    <3> HIDE DEF new
    <3>5. QED BY <3>3, <3>4 DEF RulesFollow, UrlFollows, Keeps
  <2>3. QED BY <2>1, <2>2
<1>5. CASE Preflight
  BY <1>1, <1>5 DEF Preflight
<1>6. CASE WrapperInit
  BY <1>1, <1>6 DEF WrapperInit
<1>7. CASE SaveToken
  BY <1>7 DEF SaveToken
<1>8. ASSUME NEW name \in DOMAIN Controllers, ConnectController(name)
      PROVE  FileFollows'
  <2>1. UNCHANGED <<pc, yaml, wanted, given, lost>>
    BY <1>8 DEF ConnectController
  <2>2. QED BY <1>0, <2>1 DEF Urls, Places, RulesFollow, UrlFollows
<1>9. CASE Die
  <2>1. CASE pc \in {"rewrite", "save"}
    BY <1>9, <2>1 DEF Die
  <2>2. CASE pc \notin {"rewrite", "save"}
    BY <1>1, <1>9, <2>2 DEF Die
  <2>3. QED BY <2>1, <2>2
<1>10. CASE Edit
  BY <1>10 DEF Edit, Urls, Places, RulesFollow, UrlFollows
<1>11. CASE Install
  BY <1>1, <1>11 DEF Install
<1>12. CASE Over
  BY <1>1, <1>12 DEF Over
<1>13. QED
  BY <1>2, <1>3, <1>4, <1>5, <1>6, <1>7, <1>8, <1>9, <1>10, <1>11, <1>12
     DEF Next, RewriteConfig, SaveTokenWrite

LEMMA NextArgsGiven ==
    ASSUME IInv, Next
    PROVE  ArgsGiven'
<1> USE DEF ArgsGiven, Running
<1>0. TypeOK /\ ArgsGiven
  BY DEF IInv
<1>1. ASSUME UNCHANGED <<args, given>>, Running' => Running, lost' = "no" => lost = "no"
      PROVE  ArgsGiven'
  BY <1>0, <1>1
<1>2. CASE Load
  BY <1>2 DEF Load
<1>3. CASE EnsureConfigFormat
  BY <1>1, <1>3 DEF EnsureConfigFormat
<1>4. ASSUME NEW at \in {"rewrite", "save"}, NEW to, SaveConfig(at, to)
      PROVE  ArgsGiven'
  BY <1>1, <1>4 DEF SaveConfig
<1>5. CASE Preflight
  BY <1>1, <1>5 DEF Preflight
<1>6. CASE WrapperInit
  BY <1>1, <1>6 DEF WrapperInit
<1>7. CASE SaveToken
  BY <1>1, <1>7 DEF SaveToken
<1>8. ASSUME NEW name \in DOMAIN Controllers, ConnectController(name)
      PROVE  ArgsGiven'
  BY <1>1, <1>8 DEF ConnectController
<1>9. CASE Die
  BY <1>9 DEF Die
<1>10. CASE Edit
  BY <1>10 DEF Edit
<1>11. CASE Install
  BY <1>1, <1>11 DEF Install
<1>12. CASE Over
  BY <1>1, <1>12 DEF Over
<1>13. QED
  BY <1>2, <1>3, <1>4, <1>5, <1>6, <1>7, <1>8, <1>9, <1>10, <1>11, <1>12
     DEF Next, RewriteConfig, SaveTokenWrite

LEMMA NextRunsAsConfigured ==
    ASSUME IInv, Next
    PROVE  RunsAsConfigured'
<1> USE DEF RunsAsConfigured
<1>0. TypeOK /\ FileFollows /\ RunsAsConfigured
  BY DEF IInv
<1>1. ASSUME UNCHANGED <<cfg, args, wanted, given>>, Running' => Running, lost' = "no" => lost = "no"
      PROVE  RunsAsConfigured'
  BY <1>0, <1>1 DEF Urls, Places, RulesFollow, UrlFollows
<1>2. CASE Load
  <2> SUFFICES ASSUME lost' = "no", Running' PROVE RunsAsConfigured'
    OBVIOUS
  <2>1. /\ lost = "no" /\ pc = "off" /\ UNCHANGED <<yaml, wanted>> /\ given \subseteq given'
        /\ yaml.form # "unreadable"
        /\ cfg' = [yaml.set EXCEPT !.path = Given(args'.path, Given(@, detectMaaEndPath)),
                                   !.url = Given(args'.url, @)]
    BY <1>2 DEF Load, Running
  <2>2. RulesFollow(yaml.set)' /\ UrlFollows(yaml.set)' /\ yaml.set.path \in Places'
    BY <1>0, <2>1, FollowsLonger
  <2>3. yaml.set \in AllSettings /\ args' \in AllArgs
    BY <1>0, <1>2, InputsAssumption DEF Load, TypeOK, FileStates
  <2>4. /\ cfg'.class = yaml.set.class /\ cfg'.window = yaml.set.window /\ cfg'.log = yaml.set.log
        /\ cfg'.url = (IF args'.url # "" THEN args'.url ELSE yaml.set.url)
        /\ cfg'.path = (IF args'.path # "" THEN args'.path
                        ELSE IF yaml.set.path # "" THEN yaml.set.path ELSE detectMaaEndPath)
    BY <2>1, <2>3, ReadSettings
  <2>5. args'.path = "" /\ yaml.set.path = "" => detectMaaEndPath \in Places'
    <3>1. ASSUME yaml.set.path = "" PROVE wanted'.path = ""
      BY <2>2, <3>1 DEF Places
    <3>2. QED BY <3>1, DetectionOK DEF Places
  <2>6. RulesFollow(cfg)'
    BY <2>1, <2>2, <2>4 DEF RulesFollow
  <2>7. args'.url = "" => UrlFollows(cfg)'
    BY <2>1, <2>2, <2>4 DEF UrlFollows
  <2>8. args'.url # "" => cfg'.url = args'.url
    BY <2>4
  <2>9. IF args'.path # "" THEN cfg'.path = args'.path ELSE cfg'.path \in Places'
    BY <2>2, <2>4, <2>5
  <2>10. QED BY <2>6, <2>7, <2>8, <2>9
<1>3. CASE EnsureConfigFormat
  BY <1>1, <1>3 DEF EnsureConfigFormat, Running
<1>4. ASSUME NEW at \in {"rewrite", "save"}, NEW to, SaveConfig(at, to)
      PROVE  RunsAsConfigured'
  BY <1>1, <1>4 DEF SaveConfig, Running
<1>5. CASE Preflight
  BY <1>1, <1>5 DEF Preflight, Running
<1>6. CASE WrapperInit
  BY <1>1, <1>6 DEF WrapperInit, Running
<1>7. CASE SaveToken
  BY <1>1, <1>7 DEF SaveToken, Running
<1>8. ASSUME NEW name \in DOMAIN Controllers, ConnectController(name)
      PROVE  RunsAsConfigured'
  BY <1>1, <1>8 DEF ConnectController, Running
<1>9. CASE Die
  BY <1>9 DEF Die, Running
<1>10. CASE Edit
  BY <1>10 DEF Edit, Running
<1>11. CASE Install
  BY <1>1, <1>11 DEF Install, Running
<1>12. CASE Over
  BY <1>1, <1>12 DEF Over, Running
<1>13. QED
  BY <1>2, <1>3, <1>4, <1>5, <1>6, <1>7, <1>8, <1>9, <1>10, <1>11, <1>12
     DEF Next, RewriteConfig, SaveTokenWrite

LEMMA NextOverriddenOnline ==
    ASSUME IInv, Next
    PROVE  OverriddenOnline'
<1> USE DEF OverriddenOnline
<1>0. OverriddenOnline
  BY DEF IInv
<1>1. ASSUME UNCHANGED <<cfg, pi, target>>,
             (pc \in {"online", "save"}) = (pc' \in {"online", "save"})
      PROVE  OverriddenOnline'
  BY <1>0, <1>1 DEF applyWin32Overrides
<1>2. CASE Load
  BY <1>0, <1>2 DEF Load
<1>3. CASE EnsureConfigFormat
  BY <1>1, <1>3 DEF EnsureConfigFormat
<1>4. CASE RewriteConfig \/ SaveTokenWrite
  BY <1>1, <1>4 DEF RewriteConfig, SaveTokenWrite, SaveConfig
<1>5. CASE Preflight
  <2>1. pc = "preflight" /\ pc' \in {"init", "fatal"} /\ UNCHANGED <<cfg, pi, target>>
    BY <1>5 DEF Preflight
  <2>2. QED BY <1>1, <2>1
<1>6. CASE WrapperInit
  BY <1>0, <1>6 DEF WrapperInit, applyWin32Overrides
<1>7. CASE SaveToken
  BY <1>1, <1>7 DEF SaveToken
<1>8. ASSUME NEW name \in DOMAIN Controllers, ConnectController(name)
      PROVE  OverriddenOnline'
  BY <1>0, <1>8 DEF ConnectController, applyWin32Overrides
<1>9. CASE Die
  BY <1>9 DEF Die
<1>10. CASE Edit
  BY <1>1, <1>10 DEF Edit
<1>11. CASE Install
  BY <1>1, <1>11 DEF Install
<1>12. CASE Over
  BY <1>1, <1>12 DEF Over
<1>13. QED
  BY <1>2, <1>3, <1>4, <1>5, <1>6, <1>7, <1>8, <1>9, <1>10, <1>11, <1>12 DEF Next

(* The rules in force while the client is online are the user's, and the     *)
(* interface's where he has none.                                            *)
LEMMA RulesInForce ==
    ASSUME TypeOK, RunsAsConfigured, OverriddenOnline, pc \in {"online", "save"}, lost = "no",
           Keeps(wanted.class), Keeps(wanted.window),
           NEW name \in DOMAIN Controllers, pi[name].win32 # None
    PROVE  LET own == Controllers[name].win32
               w == pi[name].win32
           IN  /\ w.class = (IF wanted.class = "" THEN own.class ELSE wanted.class)
               /\ w.window = (IF wanted.window = "" THEN own.window ELSE wanted.window)
               /\ w.screencap = own.screencap
               /\ w.mouse = own.mouse /\ w.keyboard = own.keyboard
<1>1. pi = applyWin32Overrides
  BY DEF OverriddenOnline
<1>2. cfg.class = wanted.class /\ cfg.window = wanted.window
  BY DEF RunsAsConfigured, RulesFollow, Running
<1>3. Controllers[name].win32 # None
  BY <1>1, Overridden
<1>4. QED BY <1>1, <1>2, <1>3, Overridden DEF Given

LEMMA NextControlsRightWindow ==
    ASSUME IInv, Next
    PROVE  ControlsRightWindow'
<1>0. TypeOK /\ RunsAsConfigured /\ OverriddenOnline /\ ControlsRightWindow
  BY DEF IInv
<1>1. ASSUME UNCHANGED <<target, wanted>>, lost' = "no" => lost = "no"
      PROVE  ControlsRightWindow'
  BY <1>0, <1>1 DEF ControlsRightWindow, Keeps
<1>2. ASSUME target' = None
      PROVE  ControlsRightWindow'
  BY <1>2 DEF ControlsRightWindow, None
<1>3. CASE Load
  BY <1>1, <1>3 DEF Load
<1>4. CASE EnsureConfigFormat
  BY <1>1, <1>4 DEF EnsureConfigFormat
<1>5. CASE RewriteConfig \/ SaveTokenWrite
  BY <1>1, <1>5 DEF RewriteConfig, SaveTokenWrite, SaveConfig
<1>6. CASE Preflight
  BY <1>1, <1>6 DEF Preflight
<1>7. CASE WrapperInit
  BY <1>1, <1>7 DEF WrapperInit
<1>8. CASE SaveToken
  BY <1>1, <1>8 DEF SaveToken
<1>9. ASSUME NEW name \in DOMAIN Controllers, ConnectController(name)
      PROVE  ControlsRightWindow'
  <2>1. pc \in {"online", "save"} /\ UNCHANGED <<wanted, lost>>
    BY <1>9 DEF ConnectController
  <2>2. ASSUME NEW windows \in Desktops, target' = Created(name, windows)
        PROVE  ControlsRightWindow'
    <3> DEFINE w == pi[name].win32
               own == Controllers[name].win32
    <3>1. CASE target' = createAdbController(name)
      BY <3>1 DEF ControlsRightWindow, createAdbController
    <3>2. ASSUME w # None, NEW i \in DOMAIN windows,
                 target' = Win32Target(name, windows[i], windows),
                 matchWindow(windows[i], w.class, w.window),
                 \A k \in 1..(i - 1) : ~matchWindow(windows[k], w.class, w.window),
                 lost = "no", Keeps(wanted.class), Keeps(wanted.window)
          PROVE  ControlsRightWindow'
      <4>1. /\ target'.name = name /\ target'.window = windows[i] /\ target'.among = windows
            /\ target'.screencap = parseScreencapMethod(w.screencap)
            /\ target'.mouse = parseInputMethod(w.mouse)
            /\ target'.keyboard = parseInputMethod(w.keyboard)
        BY <3>2, Win32TargetIs
      <4>2. /\ w.class = (IF wanted.class = "" THEN own.class ELSE wanted.class)
            /\ w.window = (IF wanted.window = "" THEN own.window ELSE wanted.window)
            /\ w.screencap = own.screencap
            /\ w.mouse = own.mouse /\ w.keyboard = own.keyboard
        BY <1>0, <2>1, <3>2, RulesInForce
      <4> HIDE DEF w
      <4> DEFINE Fits(win) ==
                   /\ Matches(IF wanted.class = "" THEN own.class ELSE wanted.class, win.class)
                   /\ Matches(IF wanted.window = "" THEN own.window ELSE wanted.window, win.name)
      <4>3. \A win : matchWindow(win, w.class, w.window) = Fits(win)
        BY <4>2 DEF matchWindow
      <4>4. Fits(windows[i]) /\ \A k \in 1..(i - 1) : ~Fits(windows[k])
        BY <3>2, <4>3
      <4>5. own.screencap \in ScreencapMethods => target'.screencap = own.screencap
        BY <4>1, <4>2 DEF parseScreencapMethod
      <4>6. <<own.mouse, own.keyboard>> \in InputMethods \X InputMethods =>
               <<target'.mouse, target'.keyboard>> = <<own.mouse, own.keyboard>>
        BY <4>1, <4>2 DEF parseInputMethod
      <4>7. QED BY <2>1, <4>1, <4>4, <4>5, <4>6 DEF ControlsRightWindow
    <3>3. CASE lost # "no" \/ ~Keeps(wanted.class) \/ ~Keeps(wanted.window)
      BY <2>1, <3>3 DEF ControlsRightWindow, Keeps
    <3>4. QED BY <1>2, <2>2, <3>1, <3>2, <3>3, CreatedIs
  <2>3. QED BY <1>2, <1>9, <2>2 DEF ConnectController
<1>10. CASE Die
  BY <1>2, <1>10 DEF Die
<1>11. CASE Edit
  <2>1. CASE pc = "off"
    BY <1>0, <1>2, <1>11, <2>1 DEF Edit, OverriddenOnline
  <2>2. CASE pc # "off"
    BY <1>11, <2>2 DEF Edit, ControlsRightWindow
  <2>3. QED BY <2>1, <2>2
<1>12. CASE Install
  BY <1>1, <1>12 DEF Install
<1>13. CASE Over
  BY <1>1, <1>13 DEF Over
<1>14. QED
  BY <1>3, <1>4, <1>5, <1>6, <1>7, <1>8, <1>9, <1>10, <1>11, <1>12, <1>13 DEF Next

LEMMA NextFirstStart ==
    ASSUME IInv, Next
    PROVE  FirstStart'
<1> USE DEF FirstStart
<1>0. TypeOK /\ FirstStart /\ starts \in Nat
  <2>1. TypeOK /\ FirstStart
    BY DEF IInv
  <2>2. MaxStarts \in Nat /\ starts \in 0..MaxStarts
    BY <2>1, StartupAssumption DEF TypeOK
  <2>3. starts \in Nat
    BY <2>2
  <2>4. QED BY <2>1, <2>3
<1>1. ASSUME pc # "off", UNCHANGED starts,
             /\ pc' \in {"format", "rewrite", "preflight"} /\ lost' = "no" =>
                  /\ pc \in {"format", "rewrite", "preflight"}
                  /\ UNCHANGED <<cfg, args, wanted, installed, lost>>
      PROVE  FirstStart'
  BY <1>0, <1>1 DEF detectMaaEndPath, isMaaEndDir
<1>2. CASE Load
  <2>1. starts' = starts + 1 /\ starts' # 0 /\ UNCHANGED <<installed, yaml, wanted, lost>>
    BY <1>0, <1>2 DEF Load
  <2>2. ASSUME starts' = 1, pc' = "format", lost' = "no", wanted'.path = "", args'.path = ""
        PROVE  cfg'.path = detectMaaEndPath'
    <3>1. yaml.set.path = ""
      <4>1. starts = 0
        <5>1. starts \in Nat /\ starts' = starts + 1 /\ starts' = 1
          BY <1>0, <2>1, <2>2, Zenon
        <5>2. QED BY ONLY <5>1
      <4>2. wanted.path = ""
        BY <2>1, <2>2
      <4>3. yaml.set = wanted
        BY <1>0, <4>1
      <4>4. QED BY <4>2, <4>3
    <3>2. yaml.set \in AllSettings /\ args' \in AllArgs
      BY <1>0, <1>2, InputsAssumption DEF Load, TypeOK, FileStates
    <3>3. cfg'.path = detectMaaEndPath
      <4>1. cfg' = [yaml.set EXCEPT !.path = Given(args'.path, Given(@, detectMaaEndPath)),
                                    !.url = Given(args'.url, @)]
        BY <1>2, <2>2 DEF Load
      <4>2. QED BY <2>2, <3>1, <3>2, <4>1, ReadSettings
    <3>4. QED BY <2>1, <3>3 DEF detectMaaEndPath, isMaaEndDir
  <2>3. pc' \in {"format", "refused"}
    BY <1>2 DEF Load
  <2>4. QED BY <2>1, <2>2, <2>3
<1>3. CASE EnsureConfigFormat
  BY <1>1, <1>3 DEF EnsureConfigFormat
<1>4. CASE RewriteConfig \/ SaveTokenWrite
  BY <1>1, <1>4 DEF RewriteConfig, SaveTokenWrite, SaveConfig
<1>5. CASE Preflight
  BY <1>1, <1>5 DEF Preflight
<1>6. CASE WrapperInit
  BY <1>1, <1>6 DEF WrapperInit
<1>7. CASE SaveToken
  BY <1>1, <1>7 DEF SaveToken
<1>8. ASSUME NEW name \in DOMAIN Controllers, ConnectController(name)
      PROVE  FirstStart'
  BY <1>1, <1>8 DEF ConnectController
<1>9. CASE Die
  BY <1>0, <1>9 DEF Die
<1>10. CASE Edit
  BY <1>0, <1>10 DEF Edit
<1>11. CASE Install
  BY <1>0, <1>11 DEF Install
<1>12. CASE Over
  BY <1>0, <1>12 DEF Over, detectMaaEndPath, isMaaEndDir
<1>13. QED
  BY <1>2, <1>3, <1>4, <1>5, <1>6, <1>7, <1>8, <1>9, <1>10, <1>11, <1>12 DEF Next

LEMMA NextFirstStartFinds ==
    ASSUME IInv, Next
    PROVE  FirstStartFinds'
<1> USE DEF FirstStartFinds
<1>0. TypeOK /\ FirstStart /\ FirstStartFinds
  BY DEF IInv
<1>1. CASE pc' # "fatal"
  BY <1>1
<1>2. CASE Preflight /\ pc' = "fatal"
  <2> SUFFICES ASSUME starts = 1, wanted.path = "", args.path = "", lost = "no"
               PROVE  \A place \in Range(Candidates) : ~(Parts \subseteq installed[place])
    BY <1>2 DEF Preflight
  <2>1. pc = "preflight" /\ cfg.path = detectMaaEndPath
    BY <1>0, <1>2 DEF Preflight, FirstStart
  <2>2. ~isMaaEndDir(cfg.path) \/ cfg.path = ""
    BY <1>2 DEF Preflight, isMaaEndDir, Parts
  <2>3. \A place \in Range(Candidates) : ~isMaaEndDir(place)
    BY <2>1, <2>2, Detection
  <2>4. QED BY <2>3, Named DEF isMaaEndDir
<1>3. CASE Edit /\ pc' = "fatal"
  BY <1>3 DEF Edit
<1>4. CASE Over
  BY <1>1, <1>4 DEF Over
<1>5. ASSUME pc' = "fatal"
      PROVE  Preflight \/ Edit \/ Over
  BY <1>5 DEF Next, Load, EnsureConfigFormat, RewriteConfig, SaveTokenWrite, SaveConfig, WrapperInit,
              SaveToken, ConnectController, Die, Install
<1>6. QED BY <1>1, <1>2, <1>3, <1>4, <1>5

LEMMA NextIInv ==
    ASSUME IInv, [Next]_vars
    PROVE  IInv'
<1>1. CASE Next
  BY <1>1, NextTypeOK, NextFileFollows, NextArgsGiven, NextRunsAsConfigured, NextOverriddenOnline,
     NextControlsRightWindow, NextFirstStart, NextFirstStartFinds DEF IInv
<1>2. CASE UNCHANGED vars
  <2>1. TypeOK' /\ ArgsGiven' /\ FirstStartFinds'
    BY <1>2 DEF IInv, TypeOK, ArgsGiven, Running, FirstStartFinds
  <2>2. FileFollows' /\ RunsAsConfigured'
    BY <1>2 DEF IInv, FileFollows, RunsAsConfigured, Running, RulesFollow, UrlFollows, Urls, Places
  <2>3. OverriddenOnline' /\ ControlsRightWindow'
    BY <1>2 DEF IInv, OverriddenOnline, ControlsRightWindow, applyWin32Overrides, Keeps
  <2>4. FirstStart'
    BY <1>2 DEF IInv, FirstStart, detectMaaEndPath, isMaaEndDir
  <2>5. QED BY <2>1, <2>2, <2>3, <2>4 DEF IInv
<1>3. QED BY <1>1, <1>2
-------------------------------------------------------------------------------
(* In every state of every start the file holds what a client may run with,  *)
(* and the client runs with it: the inductive invariant.                     *)
THEOREM Invariance == Spec => []IInv
<1>1. Init => IInv
  BY InitIInv
<1>2. IInv /\ [Next]_vars => IInv'
  BY NextIInv
<1>3. QED BY <1>1, <1>2, PTL DEF Spec

(* Every variable keeps its type, and a window under control is one of those *)
(* FindDesktopWindows returned.                                              *)
THEOREM TypeCorrect == Spec => []TypeOK
<1>1. IInv => TypeOK
  BY DEF IInv
<1>2. QED BY <1>1, Invariance, PTL

(* Load, the overrides, the repair and every SaveConfig leave the user his   *)
(* window rules and log, and the server and directory of his command lines,  *)
(* as long as YAML's double quotes keep the texts: Reread may be anything.   *)
THEOREM SettingsApply == Spec => []RunsAsConfigured
<1>1. IInv => RunsAsConfigured
  BY DEF IInv
<1>2. QED BY <1>1, Invariance, PTL

(* createWin32Controller takes the first window that obeys the rules in      *)
(* force, whatever the desktop is, and they are the user's where double      *)
(* quotes keep them.                                                         *)
THEOREM RightWindow == Spec => []ControlsRightWindow
<1>1. IInv => ControlsRightWindow
  BY DEF IInv
<1>2. QED BY <1>1, Invariance, PTL

(* detectMaaEndPath lets the first start fail only where there is no whole   *)
(* MaaEnd to find.                                                           *)
THEOREM FirstStartDetects == Spec => []FirstStartFinds
<1>1. IInv => FirstStartFinds
  BY DEF IInv
<1>2. QED BY <1>1, Invariance, PTL
===============================================================================
