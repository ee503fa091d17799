------------------------------- MODULE MCProject -------------------------------
(***************************************************************************)
(* Interfaces in which every kind of option writes the same field of one   *)
(* node, so that the order of the merges shows, beside fields and nodes of *)
(* their own; and the directories they are spread over.                    *)
(***************************************************************************)
EXTENDS Project

Writes(s) == "node" :> ("value" :> Val("str", s) @@ s :> Val("bool", "true"))
Case(name, over, nested) == [name |-> name, over |-> over, nested |-> nested]
None == [t |-> "none"]
Text(parts) == [t |-> "text", v |-> parts]
Listed(items) == [t |-> "list", v |-> items]
Option(type, cases, default, default_case) ==
    [type |-> type, cases |-> cases, default |-> default, default_case |-> default_case,
     controllers |-> {}, resources |-> {}, inputs |-> <<>>, over |-> <<>>]

Quality ==
    Option("select", <<Case("low", <<>>, <<>>), Case("high", Writes("high"), <<"fps", "pad">>)>>, "low", None)
Fps == Option("switch", <<Case("Yes", Writes("fps"), <<>>), Case("No", <<>>, <<>>)>>, "Yes",
              Text(<<" ", "No ">>))
Server == Option("select", <<Case("cn", Writes("cn") @@ "login" :> ("on" :> Val("bool", "true")), <<>>)>>,
                 "", None)
Pad == [Option("switch", <<Case("Yes", Writes("pad"), <<>>)>>, "", None)
          EXCEPT !.controllers = {"adb"}, !.resources = {"official"}]
Rewards ==
    Option("checkbox", <<Case("mail", Writes("mail"), <<"fps">>), Case("daily", Writes("daily"), <<>>)>>,
           "", Listed(<<Val("num", "7"), Val("str", "daily")>>))
Count ==
    [Option("input", <<>>, "", None)
       EXCEPT !.inputs = "n" :> [type |-> "int", default |-> Val("num", "3.0")]
                         @@ "on" :> [type |-> "bool", default |-> Val("nil", "")],
              !.over = "node" :> ("value" :> Val("var", "n") @@ "on" :> Val("var", "on")
                                  @@ "title" :> Val("embed", "n"))]
Hollow == Option("select", <<>>, "", None)
Hidden == [Quality EXCEPT !.default = "high"]
Stale == Option("select", <<Case("old", Writes("old"), <<>>)>>, "", Text(<<"gone">>))

Options == "quality" :> Quality @@ "fps" :> Fps @@ "server" :> Server @@ "pad" :> Pad
           @@ "rewards" :> Rewards @@ "count" :> Count @@ "hollow" :> Hollow
-------------------------------------------------------------------------------
Task(name, option, over) ==
    [name |-> name, option |-> option, over |-> over, controllers |-> {}, resources |-> {}]
Others == <<Task("", <<>>, <<>>), Task("other", <<"missing">>, <<>>)>>
OldDaily == Task("daily", <<"server">>, Writes("old"))
Named(name, option) == [name |-> name, option |-> option]
Preset(name, task, enabled) == [name |-> name, tasks |-> <<[name |-> task, enabled |-> enabled]>>]

(* A file with comments, strings that look like comments, and escapes.       *)
File(content) ==
    [text |-> <<Quote, Slash, Slash, Backslash, Quote, Quote, Slash, Star, Quote, Star, Slash,
                "x", Slash, Slash, Star, Newline, "x">>,
     plain |-> <<Quote, Slash, Slash, Backslash, Quote, Quote, "x", Newline, "x">>,
     decodes |-> TRUE, content |-> content]
Mistyped(content) == [File(content) EXCEPT !.decodes = FALSE]
NoJSON(content) == [File(content) EXCEPT !.text = <<Quote, "x">>]

MainFile(global, resource, controller, tasks, options, agent, import) ==
    [tasks |-> tasks, option |-> options, global_option |-> global,
     resources |-> <<Named("official", resource), Named("bilibili", <<>>)>>,
     controllers |-> <<Named("adb", controller), Named("win", <<"hollow">>)>>,
     agent |-> agent, import |-> import]
Import(tasks, options, presets) == [tasks |-> tasks, option |-> options, presets |-> presets]

NoAgent == [t |-> "missing"]
OneAgent == [t |-> "object", v |-> "agent"]
TwoAgents == [t |-> "list", v |-> <<"agent", "go">>]

(* All in one file.                                                          *)
Single(global, resource, controller, task, over) ==
    Main :> File(MainFile(global, resource, controller, <<Task("daily", task, over)>> \o Others,
                          Options, OneAgent, <<>>))

(* Two imports, each of which redefines what came before it.                 *)
Layered(global, resource, controller, task, over) ==
    Main :> File(MainFile(global, resource, controller, <<OldDaily>> \o Others,
                          "quality" :> Stale @@ "fps" :> Fps, TwoAgents, <<"a.json", "b.json">>))
    @@ "a.json" :> File(Import(<<Task("late", <<>>, <<>>), Task("daily", task, over), Task("", <<>>, Writes("x"))>>,
                               "quality" :> Null @@ "server" :> Stale @@ "pad" :> Pad,
                               <<Preset("P", "daily", "false"), Preset("Q", "other", "true")>>))
    @@ "b.json" :> File(Import(<<Task("late", <<>>, Writes("late"))>>, Options,
                               <<Preset("P", "daily", "unset")>>))

(* The first import is missing, the second mistyped and the third no JSON.   *)
Patchy(global, resource, controller, task, over) ==
    Main :> File(MainFile(global, resource, controller, <<Task("daily", task, over)>>,
                          Options, NoAgent, <<"gone.json", "a.json", "b.json", "c.json">>))
    @@ "a.json" :> Mistyped(Import(<<OldDaily>>, "server" :> Stale, <<Preset("P", "daily", "true")>>))
    @@ "b.json" :> NoJSON(Import(<<OldDaily>>, "quality" :> Stale, <<>>))
    @@ "c.json" :> File(Import(Others, "fps" :> Null, <<>>))

(* The options are in a file that is not there, and in a mistyped one.       *)
Bare(global, resource, controller, task, over) ==
    Main :> File(MainFile(global, resource, controller, <<Task("daily", task, over)>>,
                          "fps" :> Fps, NoAgent, <<"gone.json", "a.json">>))
    @@ "a.json" :> Mistyped(Import(<<>>, Options, <<>>))

Fatals ==
    LET main == MainFile(<<>>, <<>>, <<>>, <<OldDaily>>, Options, NoAgent, <<>>)
    IN  {"a.json" :> File(Import(<<OldDaily>>, Options, <<>>)), Main :> Mistyped(main), Main :> NoJSON(main)}

(* Short texts, each of them the main file of a client that ends there.      *)
Bytes == {Quote, Backslash, Newline, Slash, Star, "x"}
Probes ==
    {Main :> [text |-> t, plain |-> WithoutComments(t), decodes |-> TRUE,
              content |-> MainFile(<<>>, <<>>, <<>>, <<>>, <<>>, [t |-> "other"], <<>>)] :
        t \in {u \in UNION {[1..n -> Bytes] : n \in 0..5} : Closed(u)}}

(* Every option is mentioned once at most, nested ones included; and         *)
(* directories where it depends on the request.                              *)
MCOnce == {Single(<<"server">>, <<"count">>, <<"rewards">>, <<"quality">>, Writes("task")),
           Layered(<<"quality">>, <<"rewards">>, <<"server">>, <<"count">>, <<>>),
           Patchy(<<"rewards">>, <<"server">>, <<"quality">>, <<>>, Writes("task")),
           Single(<<"count", "hollow">>, <<>>, <<"pad">>, <<"server">>, <<>>)}
(* The resource and the task both mention server; the task and a case that   *)
(* rewards may choose both mention fps.                                      *)
MCTwice == {Single(<<>>, <<"server">>, <<"rewards">>, <<"server">>, <<>>),
            Single(<<"rewards">>, <<>>, <<>>, <<"fps", "server">>, Writes("task"))}
MCDirs == MCOnce \cup MCTwice \cup {Bare(<<"server">>, <<>>, <<>>, <<"fps", "quality">>, Writes("task"))}
          \cup Fatals \cup Probes
(* The default of an option is in the field default.                         *)
MCHidden ==
    {Main :> File(MainFile(<<>>, <<>>, <<>>, <<Task("daily", <<"quality">>, <<>>)>>,
                           "quality" :> Hidden, NoAgent, <<>>))}
MCOffered == MCHidden \cup MCOnce
-------------------------------------------------------------------------------
OneOf(v) == [case |-> v]
Some(v) == [cases |-> v]
Given(v) == [inputs |-> v]

(* The choices of a user for an option, one of them none at all.             *)
Chosen(name, values) == {<<>>} \cup {name :> v : v \in values}

Users(qualities, ticks, inputs) ==
    {q @@ r @@ c : q \in Chosen("quality", qualities), r \in Chosen("rewards", ticks),
                   c \in Chosen("count", inputs)}

SomeUsers ==
    Users({OneOf("high"), OneOf("ultra")}, {Some(<<"daily", " mail">>), Some(<<"", "gone">>)},
          {Given("n" :> <<"string", "many">> @@ "on" :> <<"bool", "true">>)})
    \cup {"quality" :> OneOf("") @@ "count" :> Given("n" :> <<"number", "1">>),
          "quality" :> Some(<<"high">>) @@ "rewards" :> Some(<<>>),
          "quality" :> OneOf("high") @@ "rewards" :> Some(<<"mail">>) @@ "fps" :> OneOf("Yes"),
          "fps" :> OneOf("Yes"),
          "count" :> Given("on" :> <<"string", "F">>)}
Asks(tasks, users) ==
    [task : tasks, user : users, controller : {"adb", "win"}, resource : {"official", "bilibili"}]
MCRequests == Asks({"daily", "other", "gone"}, SomeUsers)

ASSUME Plain
ASSUME NoCycles
===============================================================================
