-------------------------------- MODULE Project --------------------------------
(***************************************************************************)
(* The way of a project through the client: Wrapper.Init loads the MaaEnd  *)
(* directory once, every authentication tells the server what the client   *)
(* can do, and the items of jobs are compiled, for requests that need not  *)
(* keep to what was offered.  Composes InterfaceLoad, Capabilities and     *)
(* OptionResolver.                                                         *)
(***************************************************************************)
EXTENDS OptionResolver, Capabilities

CONSTANTS
    Dirs,      \* MaaEnd directories: see InterfaceLoad
    Requests   \* [task, user, controller, resource], user a partial function

ASSUME DirsAssumption ==
    \A d \in Dirs :
        /\ \A path \in DOMAIN d : Typed(d[path].content) /\ IsSeq(d[path].text)
        /\ Main \in DOMAIN d =>
              /\ IsSeq(d[Main].content.import) /\ IsSeq(d[Main].content.global_option)
              /\ IsSeq(d[Main].content.controllers) /\ IsSeq(d[Main].content.resources)
              /\ \A x \in Range(d[Main].content.controllers) \cup Range(d[Main].content.resources) : IsSeq(x.option)
              /\ d[Main].content.agent.t \in {"missing", "null", "object", "list", "misshapen", "other"}
              /\ \A path \in DOMAIN d \cap Range(d[Main].content.import) : IsSeq(d[path].content.presets)

(* No block comment left open, and no task twice in the main file, which     *)
(* only imports are merged into.                                             *)
Plain ==
    \A d \in Dirs :
        /\ \A path \in DOMAIN d : Closed(d[path].text)
        /\ Main \in DOMAIN d => Once(d[Main].content.tasks)

(* Options whose cases name each other recurse without end.                  *)
Nests(p, name) == UNION {Range(c.nested) : c \in Range(p.option[name].cases)}
Acyclic(p) ==
    \A names \in SUBSET DOMAIN NotNull(p.option) :
        names # {} => \E name \in names : Nests(p, name) \cap names = {}
NoCycles == \A d \in Dirs : Loads(d) => Acyclic(LoadInterface(d))

VARIABLES
    dir,     \* the directory
    phase,   \* "off", "loaded", "offered" or "fatal"
    caps     \* the capabilities as last sent

vars == <<dir, phase, caps, pi, heap, calls, compiles, last>>

Nothing == [tasks |-> <<>>, option |-> <<>>, presets |-> <<>>, controllers |-> <<>>,
            resources |-> <<>>, global_option |-> <<>>, agents |-> <<>>]

Init ==
    /\ dir \in Dirs /\ phase = "off"
    /\ pi = Nothing /\ heap = <<>> /\ caps = Build(Nothing)
    /\ calls = <<>> /\ compiles = 0 /\ last = NoRequest

(* Wrapper.Init: without an interface main ends in fatal.                    *)
Load ==
    /\ phase = "off"
    /\ IF Loads(dir)
       THEN /\ phase' = "loaded"
            /\ pi' = LoadInterface(dir)
            /\ heap' = Nodes(pi')
       ELSE phase' = "fatal" /\ UNCHANGED <<pi, heap>>
    /\ UNCHANGED <<dir, caps, calls, compiles, last>>

(* handleRegistered and handleAuthenticated, once or again.                  *)
SendCapabilities ==
    /\ phase \in {"loaded", "offered"}
    /\ phase' = "offered"
    /\ caps' = Build(pi)
    /\ UNCHANGED <<dir, pi, heap, calls, compiles, last>>

(* The server asks for jobs once it knows the device.                        *)
RunTaskItem(req) ==
    /\ phase = "offered"
    /\ Compile(req)
    /\ UNCHANGED <<dir, phase, caps>>

(* The compilation goes on, whatever the read loop does meanwhile.           *)
CompileStep == Step /\ UNCHANGED <<dir, phase, caps>>

Fatal == phase = "fatal" /\ UNCHANGED vars

Next == Load \/ SendCapabilities \/ (\E req \in Requests : RunTaskItem(req)) \/ CompileStep \/ Fatal

Spec == Init /\ [][Next]_vars
-------------------------------------------------------------------------------
(* What an offer means to the web page that shows it.                        *)

OfferOf(req) ==
    LET t == CHOOSE x \in Range(caps.tasks) : x.name = req.task
    IN  {o \in t.options : o.name \in DOMAIN req.user}

AmongCases(choice, o) ==
    CASE o.type \in {"select", "switch"} -> "case" \in DOMAIN choice /\ Contains(o.cases, choice.case)
      [] o.type = "checkbox" -> "cases" \in DOMAIN choice /\ Range(choice.cases) \subseteq Range(o.cases)
      [] o.type = "input" -> "inputs" \in DOMAIN choice /\ DOMAIN choice.inputs \subseteq DOMAIN o.inputs
      [] OTHER -> FALSE

(* A request made of nothing but what was offered.                           *)
KeepsToOffer(req) ==
    /\ \E t \in Range(caps.tasks) : t.name = req.task
    /\ req.controller \in caps.controllers /\ req.resource \in caps.resources
    /\ DOMAIN req.user \subseteq {o.name : o \in OfferOf(req)}
    /\ \A o \in OfferOf(req) : AmongCases(req.user[o.name], o)

(* Every option has a type, and its defaults name cases of its own.          *)
WellFormed(p) ==
    \A opt \in Range(NotNull(p.option)) :
        /\ opt.type \in {"select", "switch", "checkbox", "input"}
        /\ opt.type \in {"select", "switch"} /\ opt.cases # <<>> =>
              {opt.default, getDefaultCaseFirst(opt.default_case)}
                 \subseteq {""} \cup {c.name : c \in Range(opt.cases)}

CasesPicked(o, req) ==
    LET opt == GetOption(pi, o.name)
    IN  {opt.cases[i].name : i \in ChosenCases(opt, o.name, req)}

Offers == UNION {t.options : t \in Range(caps.tasks)}

NoChoice == [task |-> "", user |-> <<>>, controller |-> "", resource |-> ""]
-------------------------------------------------------------------------------
(* Properties.                                                               *)

(* Comments go and everything else stays, byte for byte, wherever quotes,    *)
(* escapes, slashes and stars stand.                                         *)
StripAsDocumented ==
    phase = "off" => \A path \in DOMAIN dir :
        Closed(dir[path].text) => stripJSONComments(dir[path].text) = WithoutComments(dir[path].text)

(* What is loaded is the main file and every import that could be read: of a *)
(* name they define twice the last definition, in the first one's place, and *)
(* of a file that failed nothing.  Only the main file can be fatal.          *)
LoadedAsDocumented ==
    /\ phase = "fatal" => ~Readable(dir, Main) \/ dir[Main].content.agent.t \in {"misshapen", "other"}
    /\ phase = "loaded" =>
          /\ Readable(dir, Main)
          /\ pi.tasks = LastOfEachName(dir[Main].content.tasks \o Imported(dir, "tasks"))
          /\ pi.presets = LastOfEachName(Imported(dir, "presets"))
          /\ NotNull(pi.option) = DocumentedOptions(dir)

(* A request that keeps to the offer compiles: on an interface whose         *)
(* defaults exist, whichever of its imports are missing, no task, case or    *)
(* option of it is refused, whatever was compiled before.                    *)
OfferedChoicesCompile ==
    calls = <<>> /\ compiles > 0 /\ WellFormed(pi) /\ KeepsToOffer(last.req) => ~last.failed

(* The default cases shown to the user are the ones that apply when he       *)
(* leaves the option alone, in spelling and in number.                       *)
OfferedDefaultApplies ==
    phase = "offered" /\ calls = <<>> /\ compiles = 0 /\ WellFormed(pi) =>
        \A o \in Offers :
            o.default_case # <<>> /\ o.cases # <<>> =>
                /\ o.type = "checkbox" => CasesPicked(o, NoChoice) = Range(o.default_case) \cap Range(o.cases)
                /\ o.type \in {"select", "switch"} => CasesPicked(o, NoChoice) = {o.default_case[1]}

(* What the documents say and the code does not do.                          *)

(* An option offered without a default is one whose first case applies.      *)
NoHiddenDefault ==
    phase = "offered" /\ calls = <<>> /\ compiles = 0 =>
        \A o \in Offers : o.type \in {"select", "switch"} /\ o.default_case = <<>> /\ o.cases # <<>>
                             => CasesPicked(o, NoChoice) = {o.cases[1]}

(* Every option that can take part in a job is offered with some task.       *)
EveryOptionOffered ==
    phase = "offered" =>
        {o \in DOMAIN NotNull(pi.option) :
            \/ Contains(pi.global_option, o)
            \/ \E x \in Range(pi.controllers) \cup Range(pi.resources) : Contains(x.option, o)
            \/ \E p \in Range(NotNull(pi.option)) : \E c \in Range(p.cases) : Contains(c.nested, o)}
        \subseteq {o.name : o \in Offers}
===============================================================================
