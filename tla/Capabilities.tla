------------------------------ MODULE Capabilities ------------------------------
(***************************************************************************)
(* core/capabilities.go: what the client tells the server, and the server  *)
(* its web page, of a ProjectInterface.  Labels, descriptions and input    *)
(* patterns are left out.                                                  *)
(***************************************************************************)
EXTENDS InterfaceLoad

OfferedOption(p, name) ==
    LET opt == GetOption(p, name)
    IN  [name |-> name, type |-> opt.type,
         default_case |-> getDefaultCaseList(opt.default_case),
         cases |-> [i \in DOMAIN opt.cases |-> opt.cases[i].name],
         inputs |-> opt.inputs,
         controllers |-> opt.controllers, resources |-> opt.resources]

(* The options a task names itself, as far as they exist; their order is     *)
(* that of the page.                                                         *)
buildTaskOptions(p, names) ==
    {OfferedOption(p, n) : n \in {m \in Range(names) : GetOption(p, m) # Null}}

(* A task of a preset is enabled unless it says otherwise.                   *)
OfferedPreset(preset) ==
    [name |-> preset.name,
     tasks |-> [i \in DOMAIN preset.tasks |->
                  [preset.tasks[i] EXCEPT !.enabled = (@ # "false")]]]

Build(p) ==
    [tasks |-> [i \in DOMAIN p.tasks |->
                  [name |-> p.tasks[i].name, options |-> buildTaskOptions(p, p.tasks[i].option),
                   controllers |-> p.tasks[i].controllers, resources |-> p.tasks[i].resources]],
     controllers |-> {p.controllers[i].name : i \in DOMAIN p.controllers},
     resources |-> {p.resources[i].name : i \in DOMAIN p.resources},
     presets |-> [i \in DOMAIN p.presets |-> OfferedPreset(p.presets[i])]]
===============================================================================
