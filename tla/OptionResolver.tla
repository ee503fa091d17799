---------------------------- MODULE OptionResolver ----------------------------
(***************************************************************************)
(* Task compilation: TaskCompiler.Compile and the OptionResolver, which    *)
(* turn a task, the user's choices and the context into the override that  *)
(* is posted with the task.  Go maps are references, and mergeOverride     *)
(* lets the result share the nodes of the ProjectInterface it is built     *)
(* from, so the nodes live in a heap that outlasts a compilation; what a   *)
(* later compilation sees of an earlier one is the question.               *)
(*                                                                         *)
(* An override maps nodes to fields and fields to values; values nested    *)
(* deeper are one value.  A value is [t, s]: a "str", "int" or "bool", a   *)
(* "var", which is the string {s}, an "embed", a longer string with {s} in *)
(* it, or a "text", such a string with s put in.                           *)
(*                                                                         *)
(* Project says where the interface comes from and when tasks compile.     *)
(***************************************************************************)
EXTENDS InterfaceLoad

CONSTANT MaxCompiles   \* bound: compilations of a behaviour

VARIABLES
    pi,        \* the ProjectInterface; its maps of overrides as they were loaded
    heap,      \* those maps as they are, and the copies made for the task under
               \* way: <<owner, node>> to the fields of the node
    calls,     \* the calls of the compilation under way, the innermost last
    compiles,  \* compilations that have ended
    last       \* the one under way, else the last one: [req, failed, override]

Val(t, s) == [t |-> t, s |-> s]
NoRequest == [req |-> <<>>, failed |-> FALSE, override |-> <<>>]

(* A call on the stack, of ResolveTaskOptions or for an option: what it has  *)
(* merged so far, a map from nodes to references, and the cases and the      *)
(* options it has still to go through.                                       *)
Call(name, map, cases, names) ==
    [name |-> name, map |-> map, cases |-> cases, names |-> names]

(* The nodes of an override by reference, and all that a ProjectInterface    *)
(* holds: those of its tasks, of its input options and of the cases of its   *)
(* options.  An owner is <<kind, option, number>>.                           *)
Refs(owner, over) == [n \in DOMAIN over |-> <<owner, n>>]

Owners(p) ==
    LET options == DOMAIN NotNull(p.option)
    IN  {<<"task", "", i>> : i \in DOMAIN p.tasks}
        \cup {<<"input", name, 0>> : name \in options}
        \cup UNION {{<<"case", name, i>> : i \in DOMAIN p.option[name].cases} : name \in options}

OverOf(p, owner) ==
    CASE owner[1] = "task" -> p.tasks[owner[3]].over
      [] owner[1] = "input" -> p.option[owner[2]].over
      [] owner[1] = "case" -> p.option[owner[2]].cases[owner[3]].over

Nodes(p) ==
    [x \in UNION {{<<o, n>> : n \in DOMAIN OverOf(p, o)} : o \in Owners(p)} |-> OverOf(p, x[1])[x[2]]]
-------------------------------------------------------------------------------
(* mergeOverride(dst, src), both maps from nodes to references: a node dst   *)
(* lacks becomes src's own map, one it has is updated in place.              *)

Merged(dst, src) == Over(dst, src)

Written(h, dst, src) ==
    [x \in DOMAIN h |-> IF \E n \in DOMAIN dst \cap DOMAIN src : x = dst[n]
                       THEN Over(h[src[x[2]]], h[x]) ELSE h[x]]

IsActive(name, req) ==
    /\ GetOption(pi, name) # Null
    /\ pi.option[name].controllers # {} => req.controller \in pi.option[name].controllers
    /\ pi.option[name].resources # {} => req.resource \in pi.option[name].resources

(* The user's value for an option: [case], [cases] or [inputs]; one of the     *)
(* wrong kind is no value.                                                   *)
Chose(name, req, kind) == name \in DOMAIN req.user /\ kind \in DOMAIN req.user[name]

-------------------------------------------------------------------------------
(* Which cases of a select, switch or checkbox apply.                        *)

NameSelected_DefaultFirst(opt, name, req) ==
    LET first == getDefaultCaseFirst(opt.default_case)
        default == IF opt.default = "" THEN first ELSE opt.default
        chosen == IF Chose(name, req, "case") THEN req.user[name].case ELSE default
    IN  IF chosen = "" /\ opt.cases # <<>> THEN opt.cases[1].name ELSE chosen
NameSelected(opt, name, req) ==
    LET first == getDefaultCaseFirst(opt.default_case)
        default == IF first = "" THEN opt.default ELSE first
        chosen == IF Chose(name, req, "case") THEN req.user[name].case ELSE default
    IN  IF chosen = "" /\ opt.cases # <<>> THEN opt.cases[1].name ELSE chosen

SelectedCases(opt, name, req) ==
    LET hits == {i \in DOMAIN opt.cases : opt.cases[i].name = NameSelected(opt, name, req)}
    IN  IF hits = {} THEN {} ELSE {Min(hits)}

(* Names are trimmed and empty ones skipped; no name is as good as no choice. *)
Checked(opt, name, req) ==
    LET chosen == IF Chose(name, req, "cases") THEN {Trim(c) : c \in Range(req.user[name].cases)} \ {""} ELSE {}
    IN  IF chosen = {} THEN Range(getDefaultCaseList(opt.default_case)) ELSE chosen

CheckedCases(opt, name, req) ==
    {i \in DOMAIN opt.cases : opt.cases[i].name \in Checked(opt, name, req)}

IsSelect_NoSwitch(opt) == opt.type = "select"
IsSelect(opt) == opt.type \in {"select", "switch"}

ChosenCases(opt, name, req) ==
    IF IsSelect(opt) THEN SelectedCases(opt, name, req) ELSE CheckedCases(opt, name, req)

(* An unknown type, or a select with cases none of which is the one chosen.  *)
Refused(opt, name, req) ==
    \/ ~IsSelect(opt) /\ opt.type \notin {"checkbox", "input"}
    \/ IsSelect(opt) /\ opt.cases # <<>> /\ SelectedCases(opt, name, req) = {}
-------------------------------------------------------------------------------
(* Input options.  strconv on the texts a model may use.                     *)

Atoi == "3" :> "3" @@ " 7" :> "7" @@ "1" :> "1"
ParseBool == "true" :> "true" @@ "1" :> "true" @@ "F" :> "false"

ConvertByPipelineType(raw, type) ==
    CASE type = "int" /\ raw \in DOMAIN Atoi -> Val("int", Atoi[raw])
      [] type = "bool" /\ raw \in DOMAIN ParseBool -> Val("bool", ParseBool[raw])
      [] OTHER -> Val("str", raw)

(* The user's values, whatever their JSON type, as text over the defaults.   *)
InputValues(opt, name, req) ==
    Over(IF Chose(name, req, "inputs")
         THEN [x \in DOMAIN req.user[name].inputs |-> req.user[name].inputs[x][2]] ELSE <<>>,
         [x \in {y \in DOMAIN opt.inputs : GetDefaultString(opt.inputs[y].default) # ""}
            |-> GetDefaultString(opt.inputs[x].default)])

(* A name nobody gave a value keeps its braces; only a field that is nothing *)
(* but a variable is converted.                                              *)
ResolveValue(v, values, opt) ==
    CASE v.t = "var" /\ v.s \in DOMAIN values ->
            ConvertByPipelineType(values[v.s],
                IF v.s \in DOMAIN opt.inputs THEN opt.inputs[v.s].type ELSE "")
      [] v.t = "embed" /\ v.s \in DOMAIN values -> Val("text", values[v.s])
      [] OTHER -> v

OptionsOf(items, name) ==
    IF IndexOf(items, name) = 0 THEN <<>> ELSE items[IndexOf(items, name)].option

TaskOf(req) == pi.tasks[IndexOf(pi.tasks, req.task)]

Sources_ControllerFirst(req) ==
    pi.global_option \o OptionsOf(pi.controllers, req.controller)
    \o OptionsOf(pi.resources, req.resource) \o TaskOf(req).option
Sources(req) ==
    pi.global_option \o OptionsOf(pi.resources, req.resource)
    \o OptionsOf(pi.controllers, req.controller) \o TaskOf(req).option
-------------------------------------------------------------------------------
(* A compilation, step by step: it reads and writes the maps it shares with  *)
(* the interface as it goes.                                                 *)

Top == Last(calls)
WithTop(call) == [calls EXCEPT ![Len(calls)] = call]

End(failed, override) ==
    /\ calls' = <<>> /\ compiles' = compiles + 1
    /\ last' = [last EXCEPT !.failed = failed, !.override = override]
    /\ heap' = Restrict(heap, {x \in DOMAIN heap : x[1][1] # "copy"})

(* ResolveTaskOptions begins with the override of the task, or fails.        *)
Compile(req) ==
    /\ calls = <<>> /\ compiles < MaxCompiles
    /\ IF IndexOf(pi.tasks, req.task) # 0
       THEN /\ calls' = <<Call("", Refs(<<"task", "", IndexOf(pi.tasks, req.task)>>, TaskOf(req).over),
                               {}, Sources(req))>>
            /\ last' = [NoRequest EXCEPT !.req = req]
            /\ UNCHANGED compiles
       ELSE /\ last' = [NoRequest EXCEPT !.req = req, !.failed = TRUE]
            /\ compiles' = compiles + 1
            /\ UNCHANGED calls
    /\ UNCHANGED <<pi, heap>>

(* The innermost call is at an option: one of its sources, or nested in the  *)
(* case it is at.  Options the interface lacks or the context rules out are  *)
(* passed over.                                                              *)
AtOption == calls # <<>> /\ Top.names # <<>>
Name == Head(Top.names)
Passed == WithTop(Call(Top.name, Top.map, Top.cases, Tail(Top.names)))

PassOver ==
    /\ AtOption /\ ~IsActive(Name, last.req)
    /\ calls' = Passed
    /\ UNCHANGED <<pi, heap, compiles, last>>

(* resolveOption: an error ends the compilation; the nodes that were merged  *)
(* before keep what they got.                                                *)
Refuse_ErrorDropped ==
    /\ AtOption /\ IsActive(Name, last.req)
    /\ Refused(pi.option[Name], Name, last.req)
    /\ calls' = Passed
    /\ UNCHANGED <<pi, heap, compiles, last>>
Refuse ==
    /\ AtOption /\ IsActive(Name, last.req)
    /\ Refused(pi.option[Name], Name, last.req)
    /\ End(TRUE, <<>>)
    /\ UNCHANGED pi

(* resolveSelectOption and resolveCheckboxOption begin.                      *)
CallOption ==
    /\ AtOption /\ IsActive(Name, last.req)
    /\ ~Refused(pi.option[Name], Name, last.req) /\ pi.option[Name].type # "input"
    /\ calls' = Append(Passed, Call(Name, <<>>, ChosenCases(pi.option[Name], Name, last.req), <<>>))
    /\ UNCHANGED <<pi, heap, compiles, last>>

(* resolveInputOption: the override is copied before its variables are       *)
(* replaced, and merged into the caller's.                                   *)
Filling(name) ==
    LET opt == pi.option[name]
        values == InputValues(opt, name, last.req)
    IN  [n \in DOMAIN opt.over |->
           [f \in DOMAIN opt.over[n] |-> ResolveValue(heap[<<<<"input", name, 0>>, n>>][f], values, opt)]]

ResolveInput_InPlace ==
    /\ AtOption /\ IsActive(Name, last.req) /\ pi.option[Name].type = "input"
    /\ LET filled == Filling(Name)
           owner == <<"input", Name, 0>>
           src == Refs(owner, filled)
       IN  /\ heap' = Written(Over([x \in {<<owner, n>> : n \in DOMAIN filled} |-> filled[x[2]]], heap),
                              Top.map, src)
           /\ calls' = WithTop(Call(Top.name, Merged(Top.map, src), Top.cases, Tail(Top.names)))
    /\ UNCHANGED <<pi, compiles, last>>
ResolveInput ==
    /\ AtOption /\ IsActive(Name, last.req) /\ pi.option[Name].type = "input"
    /\ LET copy == Filling(Name)
           owner == <<"copy", Name, Cardinality(DOMAIN heap)>>
           src == Refs(owner, copy)
       IN  /\ heap' = Written(Over(heap, [x \in {<<owner, n>> : n \in DOMAIN copy} |-> copy[x[2]]]),
                              Top.map, src)
           /\ calls' = WithTop(Call(Top.name, Merged(Top.map, src), Top.cases, Tail(Top.names)))
    /\ UNCHANGED <<pi, compiles, last>>

(* The cases in turn, each followed by its nested options.                   *)
ApplyCase ==
    /\ calls # <<>> /\ Top.names = <<>> /\ Top.cases # {}
    /\ LET i == Min(Top.cases)
           case == pi.option[Top.name].cases[i]
           src == Refs(<<"case", Top.name, i>>, case.over)
       IN  /\ heap' = Written(heap, Top.map, src)
           /\ calls' = WithTop(Call(Top.name, Merged(Top.map, src), Top.cases \ {i}, case.nested))
    /\ UNCHANGED <<pi, compiles, last>>

(* What an option has resolved to is merged into the caller's override.      *)
Done == calls # <<>> /\ Top.names = <<>> /\ Top.cases = {}

Return ==
    /\ Done /\ Len(calls) > 1
    /\ LET caller == calls[Len(calls) - 1]
       IN  /\ heap' = Written(heap, caller.map, Top.map)
           /\ calls' = [Front(calls) EXCEPT ![Len(calls) - 1] =
                          Call(caller.name, Merged(caller.map, Top.map), caller.cases, caller.names)]
    /\ UNCHANGED <<pi, compiles, last>>

(* ResolveTaskOptions returns.                                               *)
Finish ==
    /\ Done /\ Len(calls) = 1
    /\ End(FALSE, [n \in DOMAIN Top.map |-> heap[Top.map[n]]])
    /\ UNCHANGED pi

Step == PassOver \/ Refuse \/ CallOption \/ ResolveInput \/ ApplyCase \/ Return \/ Finish
-------------------------------------------------------------------------------
(* What the documents promise of a compilation, from the interface and the   *)
(* request alone: the active options in the order global < resource <        *)
(* controller < task, nested ones after the case they belong to, contribute  *)
(* in turn, and of two values for a field the later counts.                  *)

FirstNonEmpty(names) == LET given == {i \in DOMAIN names : names[i] # ""}
                        IN  IF given = {} THEN "" ELSE names[Min(given)]

(* Precedence of the user's case, default_case, default, the first case.     *)
Picked(opt, name, req) ==
    CASE opt.type = "checkbox" ->
           LET ticked == IF name \in DOMAIN req.user /\ "cases" \in DOMAIN req.user[name]
                         THEN {Trim(c) : c \in Range(req.user[name].cases)} \ {""} ELSE {}
           IN  {i \in DOMAIN opt.cases : IF ticked # {} THEN opt.cases[i].name \in ticked
                                         ELSE Contains(getDefaultCaseList(opt.default_case),
                                                       opt.cases[i].name)}
      [] OTHER ->
           LET defaults == <<getDefaultCaseFirst(opt.default_case), opt.default>>
               pick == IF name \in DOMAIN req.user /\ "case" \in DOMAIN req.user[name]
                       THEN req.user[name].case ELSE FirstNonEmpty(defaults)
           IN  {i \in DOMAIN opt.cases :
                  IF pick = "" THEN i = 1
                  ELSE opt.cases[i].name = pick /\ \A j \in 1..(i - 1) : opt.cases[j].name # pick}

(* The fields an input option sets, with its variables replaced.             *)
Filled(opt, name, req) ==
    LET given == IF name \in DOMAIN req.user /\ "inputs" \in DOMAIN req.user[name]
                 THEN req.user[name].inputs ELSE <<>>
        textOf(x) == IF x \in DOMAIN given THEN given[x][2]
                     ELSE IF x \in DOMAIN opt.inputs THEN GetDefaultString(opt.inputs[x].default) ELSE ""
        known(x) == x \in DOMAIN given \/ textOf(x) # ""
        typeOf(x) == IF x \in DOMAIN opt.inputs THEN opt.inputs[x].type ELSE "string"
        exact(x) == IF typeOf(x) = "int" /\ textOf(x) \in DOMAIN Atoi THEN Val("int", Atoi[textOf(x)])
                    ELSE IF typeOf(x) = "bool" /\ textOf(x) \in DOMAIN ParseBool
                         THEN Val("bool", ParseBool[textOf(x)])
                         ELSE Val("str", textOf(x))
    IN  [n \in DOMAIN opt.over |-> [f \in DOMAIN opt.over[n] |->
           LET v == opt.over[n][f]
           IN  IF v.t \notin {"var", "embed"} \/ ~known(v.s) THEN v
               ELSE IF v.t = "var" THEN exact(v.s) ELSE Val("text", textOf(v.s))]]

(* What an option contributes: the fields of some nodes, or a refusal.        *)
Saying(over) == [refused |-> FALSE, over |-> over]
Refusal == [refused |-> TRUE, over |-> <<>>]

(* What the options of that name contribute, one after the other.            *)
InTurn(said, names) ==
    FlattenSeq([k \in DOMAIN names |-> IF names[k] \in DOMAIN said THEN said[names[k]] ELSE <<>>])

Contribution(said, name, req) ==
    LET opt == pi.option[name]
        active == /\ GetOption(pi, name) # Null
                  /\ opt.controllers = {} \/ req.controller \in opt.controllers
                  /\ opt.resources = {} \/ req.resource \in opt.resources
        picked == Picked(opt, name, req)
        unknown == opt.type \notin {"select", "switch", "checkbox", "input"}
    IN  IF ~active THEN <<>>
        ELSE IF opt.type = "input" THEN <<Saying(Filled(opt, name, req))>>
        ELSE IF unknown \/ (opt.type # "checkbox" /\ opt.cases # <<>> /\ picked = {}) THEN <<Refusal>>
        ELSE FlattenSeq([i \in DOMAIN opt.cases |->
               IF i \notin picked THEN <<>>
               ELSE <<Saying(opt.cases[i].over)>> \o InTurn(said, opt.cases[i].nested)])

Contributed(req) ==
    LET said[name \in DOMAIN pi.option] == Contribution(said, name, req) IN said

Order(req) ==
    InTurn(Contributed(req),
           pi.global_option \o OptionsOf(pi.resources, req.resource)
           \o OptionsOf(pi.controllers, req.controller) \o TaskOf(req).option)

DocumentedFailure(req) ==
    IndexOf(pi.tasks, req.task) = 0 \/ \E c \in Range(Order(req)) : c.refused

LastWins(cs) ==
    [n \in UNION {DOMAIN c : c \in Range(cs)} |->
       LET saying == SelectSeq(cs, LAMBDA c : n \in DOMAIN c)
       IN  [f \in UNION {DOMAIN c[n] : c \in Range(saying)} |->
              saying[Max({i \in DOMAIN saying : f \in DOMAIN saying[i][n]})][n][f]]]

Documented(req) ==
    IF DocumentedFailure(req) THEN <<>>
    ELSE LastWins(<<TaskOf(req).over>> \o [i \in DOMAIN Order(req) |-> Order(req)[i].over])

(* The sources of a request and the cases that apply for it mention no       *)
(* option twice, so that none contributes two times.                         *)
Applying(req) ==
    UNION {{<<name, i>> : i \in ChosenCases(pi.option[name], name, req)} :
             name \in {n \in DOMAIN NotNull(pi.option) : IsActive(n, req)}}

Nested(x) == pi.option[x[1]].cases[x[2]].nested

MentionedOnce(req) ==
    /\ IsInjective(Sources(req))
    /\ \A x \in Applying(req) :
          /\ IsInjective(Nested(x))
          /\ Range(Nested(x)) \cap Range(Sources(req)) = {}
          /\ \A y \in Applying(req) \ {x} : Range(Nested(x)) \cap Range(Nested(y)) = {}
-------------------------------------------------------------------------------
(* Properties.                                                               *)

(* The first compilation of a request that mentions no option twice delivers *)
(* the documented override, field by field, in spite of the maps that        *)
(* mergeOverride shares on the way; one that is refused delivers nothing.    *)
FirstCompileAsDocumented ==
    calls = <<>> /\ compiles = 1 /\ (~last.failed => MentionedOnce(last.req))
        => last.override = Documented(last.req)

(* Whether a compilation fails, and which nodes it overrides, depends on the *)
(* request alone: what earlier ones left behind never reaches either.        *)
HistoryAddsNoNode ==
    calls = <<>> /\ compiles > 0 => /\ last.failed = DocumentedFailure(last.req)
                    /\ DOMAIN last.override = DOMAIN Documented(last.req)

(* Input options keep their variables: the values of one job are never found *)
(* in their templates by the next.                                           *)
TemplatesKept ==
    \A name \in DOMAIN NotNull(pi.option) : \A n \in DOMAIN pi.option[name].over :
        heap[<<<<"input", name, 0>>, n>>] = pi.option[name].over[n]

(* What the documents say and the code does not do.                          *)

(* The override depends on the task, the user's choices and the context      *)
(* alone: not on the jobs before, nor on how often an option is mentioned.   *)
EveryCompileAsDocumented ==
    calls = <<>> /\ compiles > 0 => last.override = Documented(last.req)
===============================================================================
