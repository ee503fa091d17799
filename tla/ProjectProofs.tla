----------------------------- MODULE ProjectProofs -----------------------------
(***************************************************************************)
(* The project of a client: what its directory says is what is loaded,     *)
(* what is offered compiles, the defaults that are shown apply, no         *)
(* compilation writes to the templates of the input options, and whether   *)
(* one fails, and which nodes it overrides, depends on its request alone.  *)
(* All of it rests on Shape, which says what the other invariants need to  *)
(* know of a state.                                                        *)
(***************************************************************************)
EXTENDS Project, LoadProofs

(* The nodes of the interface.                                               *)
LEMMA TemplatesOwned ==
    ASSUME NEW p, NEW name \in DOMAIN NotNull(p.option), NEW n \in DOMAIN p.option[name].over
    PROVE  /\ <<<<"input", name, 0>>, n>> \in DOMAIN Nodes(p)
           /\ Nodes(p)[<<<<"input", name, 0>>, n>>] = p.option[name].over[n]
<1> DEFINE o == <<"input", name, 0>>
           D == UNION {{<<q, m>> : m \in DOMAIN OverOf(p, q)} : q \in Owners(p)}
<1>1. o \in Owners(p)
  BY DEF Owners
<1>2. OverOf(p, o) = p.option[name].over
  BY DEF OverOf
<1>3. <<o, n>> \in D
  BY <1>1, <1>2
<1>4. Nodes(p) = [x \in D |-> OverOf(p, x[1])[x[2]]]
  BY DEF Nodes
<1>5. <<o, n>>[1] = o /\ <<o, n>>[2] = n
  OBVIOUS
<1> HIDE DEF D, o
<1>6. <<o, n>> \in DOMAIN Nodes(p) /\ Nodes(p)[<<o, n>>] = OverOf(p, o)[n]
  BY <1>3, <1>4, <1>5
<1> QED BY <1>2, <1>6 DEF o
-------------------------------------------------------------------------------
(* The stack of calls.                                                       *)

IsStack(s) == \E S : s \in Seq(S)

(* A call pushed on the stack.                                               *)
LEMMA PushedCalls ==
    ASSUME NEW s, IsStack(s), NEW c
    PROVE  IsStack(Append(s, c)) /\ Append(s, c) # <<>> /\ Range(Append(s, c)) \subseteq Range(s) \cup {c}
<1>1. PICK S : s \in Seq(S)
  BY DEF IsStack
<1> DEFINE T == S \cup {c}
<1>2. s \in Seq(T) /\ c \in T
  BY <1>1
<1> HIDE DEF T
<1>3. Append(s, c) \in Seq(T) /\ Append(s, c) # <<>>
  <2>1. Append(s, c) \in Seq(T)
    BY <1>2
  <2>2. Len(Append(s, c)) = Len(s) + 1 /\ Len(s) \in Nat
    BY <1>2
  <2> QED BY <2>1, <2>2
<1>4. \A i \in DOMAIN Append(s, c) : Append(s, c)[i] \in Range(s) \cup {c}
  BY <1>2 DEF Range
<1> QED BY <1>3, <1>4 DEF IsStack, Range

(* A call of the stack replaced by another.                                  *)
LEMMA ChangedCall ==
    ASSUME NEW s, IsStack(s), NEW i, NEW c
    PROVE  /\ IsStack([s EXCEPT ![i] = c])
           /\ Range([s EXCEPT ![i] = c]) \subseteq Range(s) \cup {c}
           /\ Len([s EXCEPT ![i] = c]) = Len(s)
<1>1. PICK S : s \in Seq(S)
  BY DEF IsStack
<1> DEFINE T == S \cup {c}
           t == [s EXCEPT ![i] = c]
<1>2. s \in Seq(T) /\ c \in T
  BY <1>1
<1> HIDE DEF T
<1>3. t = [k \in 1..Len(s) |-> IF k = i THEN c ELSE s[k]] /\ Len(s) \in Nat
  BY <1>2
<1>4. t \in Seq(T) /\ Len(t) = Len(s)
  <2> DEFINE g(k) == IF k = i THEN c ELSE s[k]
  <2>1. \A k \in 1..Len(s) : g(k) \in T
    BY <1>2
  <2>2. t = [k \in 1..Len(s) |-> g(k)]
    BY <1>3
  <2> HIDE DEF g, t
  <2>3. [k \in 1..Len(s) |-> g(k)] \in Seq(T) /\ Len([k \in 1..Len(s) |-> g(k)]) = Len(s)
    BY <1>3, <2>1
  <2> QED BY <2>2, <2>3, Zenon
<1>5. \A k \in DOMAIN t : t[k] \in Range(s) \cup {c}
  BY <1>2, <1>3 DEF Range
<1> QED BY <1>4, <1>5 DEF IsStack, Range

(* The stack without its innermost call.                                     *)
LEMMA PoppedCalls ==
    ASSUME NEW s, IsStack(s), s # <<>>
    PROVE  IsStack(Front(s)) /\ Range(Front(s)) \subseteq Range(s) /\ Len(Front(s)) = Len(s) - 1
<1>1. PICK S : s \in Seq(S)
  BY DEF IsStack
<1>2. Len(s) \in Nat /\ Len(s) # 0 /\ DOMAIN s = 1..Len(s)
  BY <1>1
<1>3. Front(s) \in Seq(S) /\ Len(Front(s)) = Len(s) - 1
  BY <1>1, <1>2 DEF Front
<1>4. \A k \in DOMAIN Front(s) : Front(s)[k] = s[k] /\ k \in DOMAIN s
  BY <1>1, <1>2 DEF Front
<1> QED BY <1>3, <1>4 DEF IsStack, Range

(* The innermost call of a compilation under way.                            *)
LEMMA TopCall ==
    ASSUME IsStack(calls), calls # <<>>
    PROVE  /\ Top \in Range(calls) /\ Len(calls) \in Nat \ {0}
           /\ DOMAIN calls = 1..Len(calls)
<1>1. PICK S : calls \in Seq(S)
  BY DEF IsStack
<1>2. Len(calls) \in Nat /\ Len(calls) # 0 /\ DOMAIN calls = 1..Len(calls)
  BY <1>1
<1> QED BY <1>2 DEF Top, Last, Range
-------------------------------------------------------------------------------
(* Templates: no override that is being built refers to the maps of an input *)
(* option, so no merge writes to them.                                       *)

Apart(map) == \A n \in DOMAIN map : map[n][1][1] # "input"
MapsApart == \A c \in Range(calls) : Apart(c.map)

TemplatesHeld ==
    \A name \in DOMAIN NotNull(pi.option) : \A n \in DOMAIN pi.option[name].over :
        /\ <<<<"input", name, 0>>, n>> \in DOMAIN heap
        /\ heap[<<<<"input", name, 0>>, n>>] = pi.option[name].over[n]

(* References into an override of a task or a case.                          *)
LEMMA RefsApart ==
    ASSUME NEW owner, owner[1] # "input", NEW over
    PROVE  Apart(Refs(owner, over))
<1> SUFFICES ASSUME NEW n \in DOMAIN over PROVE Refs(owner, over)[n][1][1] # "input"
  BY DEF Apart, Refs
<1>1. Refs(owner, over)[n] = <<owner, n>>
  BY DEF Refs
<1>2. <<owner, n>>[1] = owner
  OBVIOUS
<1> QED BY <1>1, <1>2

(* Merging refers to what the two maps refer to.                             *)
LEMMA MergedApart ==
    ASSUME NEW dst, NEW src, Apart(dst), Apart(src)
    PROVE  Apart(Merged(dst, src))
BY DEF Apart, Merged, Over

(* A merge into a map that refers to no template leaves every template       *)
(* alone.                                                                    *)
LEMMA WrittenApart ==
    ASSUME NEW h, NEW dst, NEW src, Apart(dst), NEW name, NEW n,
           <<<<"input", name, 0>>, n>> \in DOMAIN h
    PROVE  /\ <<<<"input", name, 0>>, n>> \in DOMAIN Written(h, dst, src)
           /\ Written(h, dst, src)[<<<<"input", name, 0>>, n>>] = h[<<<<"input", name, 0>>, n>>]
<1> DEFINE x == <<<<"input", name, 0>>, n>>
<1>1. x[1][1] = "input"
  OBVIOUS
<1> HIDE DEF x
<1>2. ~ \E m \in DOMAIN dst \cap DOMAIN src : x = dst[m]
  BY <1>1 DEF Apart
<1>3. x \in DOMAIN h
  BY DEF x
<1> QED BY <1>2, <1>3 DEF Written, x

(* What the rest of a behaviour relies on: calls are a stack, nothing        *)
(* compiles before there is an offer, an offer describes the interface, and  *)
(* a compilation under way has not failed.                                   *)
Shape ==
    /\ dir \in Dirs
    /\ IsStack(calls) /\ compiles \in Nat
    /\ phase \in {"off", "loaded", "offered", "fatal"}
    /\ phase # "offered" => calls = <<>> /\ compiles = 0
    /\ phase \in {"loaded", "offered"} => Typed(pi)
    /\ phase = "offered" => caps = Build(pi)
    /\ last = [req |-> last.req, failed |-> last.failed, override |-> last.override]
    /\ calls # <<>> => last.failed = FALSE

(* Nothing is loaded, offered or compiled at first.                          *)
LEMMA InitShape == Init => Shape
<1> SUFFICES ASSUME Init PROVE Shape
  OBVIOUS
<1>1. IsStack(calls)
  <2>1. calls \in Seq({})
    BY DEF Init
  <2> QED BY <2>1 DEF IsStack
<1>2. phase \notin {"loaded", "offered"} /\ phase = "off" /\ calls = <<>> /\ compiles = 0 /\ dir \in Dirs
  BY DEF Init
<1>3. last = [req |-> last.req, failed |-> last.failed, override |-> last.override]
  BY DEF Init, NoRequest
<1> QED BY <1>1, <1>2, <1>3 DEF Shape

(* A compilation is one of an offered interface, and its steps leave the     *)
(* interface and the offer alone.                                            *)
LEMMA StepShape ==
    ASSUME Shape, CompileStep
    PROVE  /\ Shape' /\ UNCHANGED <<dir, phase, caps, pi>>
           /\ phase = "offered" /\ calls # <<>>
<1>1. calls # <<>>
  BY DEF CompileStep, Step, PassOver, Refuse, CallOption, ResolveInput, ApplyCase, Return, Finish, AtOption, Done
<1>2. phase = "offered"
  BY <1>1 DEF Shape
<1>3. UNCHANGED <<dir, phase, caps, pi>>
  BY DEF CompileStep, Step, PassOver, Refuse, CallOption, ResolveInput, ApplyCase, Return, Finish
<1>4. IsStack(calls) /\ Len(calls) \in Nat \ {0}
  BY <1>1, TopCall DEF Shape
<1>5. \A c : IsStack(WithTop(c))
  BY <1>4, ChangedCall DEF WithTop
<1>6. /\ IsStack(calls') /\ compiles' \in Nat
      /\ last' = [req |-> last.req, failed |-> last.failed, override |-> last.override]'
      /\ calls' # <<>> => last'.failed = FALSE
  <2>1. CASE PassOver \/ ResolveInput \/ ApplyCase
    <3>1. IsStack(calls')
      BY <1>5, <2>1 DEF PassOver, ResolveInput, ApplyCase, Passed
    <3> QED BY <1>1, <2>1, <3>1 DEF Shape, PassOver, ResolveInput, ApplyCase
  <2>2. CASE CallOption
    <3>1. IsStack(Passed)
      BY <1>5 DEF Passed
    <3>2. IsStack(calls')
      BY <2>2, <3>1, PushedCalls DEF CallOption
    <3> QED BY <1>1, <2>2, <3>2 DEF Shape, CallOption
  <2>3. CASE Return
    <3>1. IsStack(Front(calls))
      BY <1>1, <1>4, PoppedCalls
    <3> DEFINE caller == calls[Len(calls) - 1]
               c == Call(caller.name, Merged(caller.map, Top.map), caller.cases, caller.names)
    <3>2. calls' = [Front(calls) EXCEPT ![Len(calls) - 1] = c]
      BY <2>3 DEF Return
    <3> HIDE DEF c
    <3>3. IsStack(calls')
      BY <3>1, <3>2, ChangedCall
    <3> QED BY <1>1, <2>3, <3>3 DEF Shape, Return
  <2>4. CASE Refuse \/ Finish
    <3>1. /\ calls' = <<>>
          /\ compiles' = compiles + 1
          /\ \E a, b : last' = [last EXCEPT !.failed = a, !.override = b]
      BY <2>4 DEF Refuse, Finish, End
    <3>2. IsStack(<<>>)
      <4>1. <<>> \in Seq({})
        OBVIOUS
      <4> QED BY <4>1 DEF IsStack
    <3>3. last' = [req |-> last.req, failed |-> last.failed, override |-> last.override]'
      BY <3>1 DEF Shape
    <3> QED BY <3>1, <3>2, <3>3 DEF Shape
  <2> QED BY <2>1, <2>2, <2>3, <2>4 DEF CompileStep, Step
<1> QED BY <1>1, <1>2, <1>3, <1>6 DEF Shape

(* Every action keeps it.                                                    *)
LEMMA NextShape == Shape /\ [Next]_vars => Shape'
<1> SUFFICES ASSUME Shape, [Next]_vars PROVE Shape'
  OBVIOUS
<1>1. CASE Load
  <2>1. CASE Loads(dir)
    <3>1. Main \in DOMAIN dir /\ dir \in Dirs
      BY <2>1 DEF Loads, Unmarshals, Shape
    <3>2. Typed(LoadInterface(dir))
      BY <3>1, DirsAssumption, LoadTyped
    <3>3. phase' = "loaded" /\ Typed(pi')
      BY <1>1, <2>1, <3>2 DEF Load
    <3>4. UNCHANGED <<dir, calls, compiles, last>> /\ calls = <<>> /\ compiles = 0
      BY <1>1 DEF Load, Shape
    <3> QED BY <3>3, <3>4 DEF Shape
  <2>2. CASE ~Loads(dir)
    BY <1>1, <2>2 DEF Load, Shape
  <2> QED BY <2>1, <2>2
<1>2. CASE SendCapabilities
  <2>1. phase' = "offered" /\ caps' = Build(pi) /\ UNCHANGED <<dir, pi, calls, compiles, last>> /\ Typed(pi)
    BY <1>2 DEF SendCapabilities, Shape
  <2>2. caps' = Build(pi')
    BY <2>1
  <2> QED BY <2>1, <2>2 DEF Shape
<1>3. ASSUME NEW req \in Requests, RunTaskItem(req) PROVE Shape'
  <2>1. phase = "offered" /\ UNCHANGED <<dir, phase, caps, pi>> /\ calls = <<>>
    BY <1>3 DEF RunTaskItem, Compile
  <2>2. caps' = Build(pi') /\ Typed(pi')
    BY <2>1 DEF Shape
  <2>3. CASE IndexOf(pi.tasks, req.task) # 0
    <3>1. \E c : calls' = <<c>>
      BY <1>3, <2>3 DEF RunTaskItem, Compile
    <3>2. IsStack(calls')
      <4>1. PICK c : calls' = <<c>>
        BY <3>1
      <4>2. <<c>> \in Seq({c})
        OBVIOUS
      <4> QED BY <4>1, <4>2 DEF IsStack
    <3>3. compiles' = compiles /\ last' = [NoRequest EXCEPT !.req = req]
      BY <1>3, <2>3 DEF RunTaskItem, Compile
    <3>4. /\ last' = [req |-> last.req, failed |-> last.failed, override |-> last.override]'
          /\ last'.failed = FALSE
      BY <3>3 DEF NoRequest
    <3> QED BY <2>1, <2>2, <3>2, <3>3, <3>4 DEF Shape
  <2>4. CASE IndexOf(pi.tasks, req.task) = 0
    <3>1. calls' = calls /\ compiles' = compiles + 1 /\ last' = [NoRequest EXCEPT !.req = req, !.failed = TRUE]
      BY <1>3, <2>4 DEF RunTaskItem, Compile
    <3>2. last' = [req |-> last.req, failed |-> last.failed, override |-> last.override]'
      BY <3>1 DEF NoRequest
    <3> QED BY <2>1, <2>2, <3>1, <3>2 DEF Shape
  <2> QED BY <2>3, <2>4
<1>4. CASE CompileStep
  BY <1>4, StepShape
<1>5. CASE UNCHANGED vars
  BY <1>5 DEF Shape, vars
<1> QED BY <1>1, <1>2, <1>3, <1>4, <1>5 DEF Next, Fatal

(* In every reachable state nothing compiles before there is an offer, the   *)
(* offer is made of the interface as it is (handleRegistered,                *)
(* handleAuthenticated), and the interface has the types of its files.       *)
THEOREM ShapeHolds == Spec => []Shape
BY InitShape, NextShape, PTL DEF Spec
-------------------------------------------------------------------------------
(* What is loaded is what the directory says.                                *)
Loaded ==
    /\ phase = "loaded" => Loads(dir) /\ pi = LoadInterface(dir)
    /\ phase = "fatal" => ~Loads(dir)

(* Nothing is loaded at first.                                               *)
LEMMA InitLoaded == Init => Loaded
BY DEF Init, Loaded

(* Once loaded, the interface stays the one of the directory until it is     *)
(* offered.                                                                  *)
LEMMA NextLoaded == Shape /\ Loaded /\ [Next]_vars => Loaded'
<1> SUFFICES ASSUME Shape, Loaded, [Next]_vars PROVE Loaded'
  OBVIOUS
<1>1. CASE Load
  <2>1. UNCHANGED dir
    BY <1>1 DEF Load
  <2>2. CASE Loads(dir)
    <3>1. phase' = "loaded" /\ pi' = LoadInterface(dir)
      BY <1>1, <2>2 DEF Load
    <3>2. Loads(dir') /\ pi' = LoadInterface(dir')
      BY <2>1, <2>2, <3>1
    <3> QED BY <3>1, <3>2 DEF Loaded
  <2>3. CASE ~Loads(dir)
    <3>1. phase' = "fatal"
      BY <1>1, <2>3 DEF Load
    <3>2. ~Loads(dir')
      BY <2>1, <2>3
    <3> QED BY <3>1, <3>2 DEF Loaded
  <2> QED BY <2>2, <2>3
<1>2. CASE SendCapabilities
  BY <1>2 DEF SendCapabilities, Loaded
<1>3. ASSUME NEW req \in Requests, RunTaskItem(req) PROVE Loaded'
  BY <1>3 DEF RunTaskItem, Loaded
<1>4. CASE CompileStep
  <2>1. phase' = "offered"
    BY <1>4, StepShape
  <2> QED BY <2>1 DEF Loaded
<1>5. CASE UNCHANGED vars
  BY <1>5 DEF Loaded, vars
<1> QED BY <1>1, <1>2, <1>3, <1>4, <1>5 DEF Next, Fatal

(* Comments go and everything else stays, byte for byte, for every text that *)
(* a file of a directory may be (stripJSONComments).                         *)
THEOREM StripHolds == Spec => []StripAsDocumented
<1>1. Shape => StripAsDocumented
  <2> SUFFICES ASSUME Shape, NEW path \in DOMAIN dir, Closed(dir[path].text)
               PROVE  stripJSONComments(dir[path].text) = WithoutComments(dir[path].text)
    BY DEF StripAsDocumented
  <2>1. dir[path].text \in Seq(Range(dir[path].text))
    BY DirsAssumption DEF Shape, IsSeq
  <2> QED BY <2>1, StripsComments
<1> QED BY <1>1, ShapeHolds, PTL

(* A file is read by the code just if it can be read by the documents.       *)
LEMMA ReadAlike ==
    ASSUME NEW d, NEW path, path \in DOMAIN d => IsSeq(d[path].text) /\ Closed(d[path].text)
    PROVE  Unmarshals(d, path) <=> Readable(d, path)
<1>1. CASE path \in DOMAIN d
  <2>1. d[path].text \in Seq(Range(d[path].text)) /\ Closed(d[path].text)
    BY <1>1 DEF IsSeq
  <2>2. stripJSONComments(d[path].text) = WithoutComments(d[path].text)
    BY <2>1, StripsComments
  <2> QED BY <2>2 DEF Unmarshals, Readable
<1>2. CASE path \notin DOMAIN d
  BY <1>2 DEF Unmarshals, Readable
<1> QED BY <1>1, <1>2

(* LoadInterface returns the main file and every import that could be read,  *)
(* the last of each name counting, and only the main file can be fatal; for  *)
(* every directory whose files close their comments and whose main file has  *)
(* no task twice.                                                            *)
THEOREM LoadHolds ==
    ASSUME Plain
    PROVE  Spec => []LoadedAsDocumented
<1>1. Shape /\ Loaded => LoadedAsDocumented
  <2> SUFFICES ASSUME Shape, Loaded PROVE LoadedAsDocumented
    OBVIOUS
  <2>1. dir \in Dirs
    BY DEF Shape
  <2>2. \A path : Unmarshals(dir, path) <=> Readable(dir, path)
    <3>1. \A path \in DOMAIN dir : IsSeq(dir[path].text) /\ Closed(dir[path].text)
      BY <2>1, DirsAssumption DEF Plain
    <3> QED BY <3>1, ReadAlike
  <2>3. ASSUME phase = "fatal"
        PROVE  ~Readable(dir, Main) \/ dir[Main].content.agent.t \in {"misshapen", "other"}
    <3>1. ~Loads(dir)
      BY <2>3 DEF Loaded
    <3>2. CASE Readable(dir, Main)
      <4>1. Main \in DOMAIN dir /\ ~AgentsOK(dir[Main].content.agent)
        BY <2>2, <3>1, <3>2 DEF Loads, Readable
      <4>2. dir[Main].content.agent.t \in {"missing", "null", "object", "list", "misshapen", "other"}
        BY <2>1, <4>1, DirsAssumption
      <4> QED BY <4>1, <4>2 DEF AgentsOK
    <3> QED BY <3>2
  <2>4. ASSUME phase = "loaded"
        PROVE  /\ Readable(dir, Main)
               /\ pi.tasks = LastOfEachName(dir[Main].content.tasks \o Imported(dir, "tasks"))
               /\ pi.presets = LastOfEachName(Imported(dir, "presets"))
               /\ NotNull(pi.option) = DocumentedOptions(dir)
    <3>1. Loads(dir) /\ pi = LoadInterface(dir)
      BY <2>4 DEF Loaded
    <3>2. Readable(dir, Main) /\ Main \in DOMAIN dir
      BY <2>2, <3>1 DEF Loads, Readable
    <3>3. PICK import : import = dir[Main].content.import
      OBVIOUS
    <3>4. Imports(dir)
      BY <2>1, <3>2, DirsAssumption DEF Imports
    <3>5. Faithful(dir, import)
      BY <2>2 DEF Faithful
    <3>6. Once(dir[Main].content.tasks)
      BY <2>1, <3>2 DEF Plain
    <3>7. /\ LoadInterface(dir).tasks = LastOfEachName(dir[Main].content.tasks \o Imported(dir, "tasks"))
          /\ LoadInterface(dir).presets = LastOfEachName(Imported(dir, "presets"))
      BY <3>2, <3>3, <3>4, <3>5, <3>6, TasksLoaded
    <3>8. NotNull(LoadInterface(dir).option) = DocumentedOptions(dir)
      BY <3>3, <3>4, <3>5, OptionsLoaded
    <3> QED BY <3>1, <3>2, <3>7, <3>8
  <2> QED BY <2>3, <2>4 DEF LoadedAsDocumented
<1>2. Shape /\ Loaded /\ [Next]_vars => (Shape /\ Loaded)'
  BY NextShape, NextLoaded
<1> QED BY <1>1, <1>2, InitShape, InitLoaded, PTL DEF Spec
-------------------------------------------------------------------------------
(* TemplatesKept, from the two invariants above.                             *)

(* The override being built by the innermost call refers to no template.     *)
LEMMA TopApart ==
    ASSUME Shape, MapsApart, calls # <<>>
    PROVE  Apart(Top.map)
BY TopCall DEF Shape, MapsApart

(* A merge into such an override keeps every template as it is.              *)
LEMMA KeptByWrite ==
    ASSUME TemplatesHeld, UNCHANGED pi, NEW STATE h, NEW STATE dst, NEW STATE src, Apart(dst),
           \A name \in DOMAIN NotNull(pi.option) : \A n \in DOMAIN pi.option[name].over :
               /\ <<<<"input", name, 0>>, n>> \in DOMAIN h
               /\ h[<<<<"input", name, 0>>, n>>] = heap[<<<<"input", name, 0>>, n>>],
           heap' = Written(h, dst, src)
    PROVE  TemplatesHeld'
<1> SUFFICES ASSUME NEW name \in DOMAIN NotNull(pi.option), NEW n \in DOMAIN pi.option[name].over
             PROVE  /\ <<<<"input", name, 0>>, n>> \in DOMAIN heap'
                    /\ heap'[<<<<"input", name, 0>>, n>>] = pi.option[name].over[n]
  BY DEF TemplatesHeld
<1>1. /\ <<<<"input", name, 0>>, n>> \in DOMAIN h
      /\ h[<<<<"input", name, 0>>, n>>] = pi.option[name].over[n]
  BY DEF TemplatesHeld
<1>2. /\ <<<<"input", name, 0>>, n>> \in DOMAIN Written(h, dst, src)
      /\ Written(h, dst, src)[<<<<"input", name, 0>>, n>>] = h[<<<<"input", name, 0>>, n>>]
  BY <1>1, WrittenApart
<1> QED BY <1>1, <1>2

(* Where a step changes one call or adds one.                                *)
LEMMA ApartByChange ==
    ASSUME MapsApart, NEW STATE s, Range(s) \subseteq Range(calls), IsStack(s), NEW STATE i, NEW STATE c,
           Apart(c.map),
           calls' = [s EXCEPT ![i] = c]
    PROVE  MapsApart'
<1>1. Range(calls') \subseteq Range(s) \cup {c}
  BY ChangedCall
<1> QED BY <1>1 DEF MapsApart

(* The map of a call.                                                        *)
LEMMA CallApart ==
    ASSUME NEW name, NEW map, NEW cases, NEW names, Apart(map)
    PROVE  Apart(Call(name, map, cases, names).map)
BY DEF Call

(* No step of a compilation reaches a template.                              *)
LEMMA StepHeld ==
    ASSUME Shape, MapsApart, TemplatesHeld, CompileStep
    PROVE  MapsApart' /\ TemplatesHeld'
<1>1. calls # <<>> /\ UNCHANGED pi /\ IsStack(calls) /\ Len(calls) \in Nat \ {0}
  BY StepShape, TopCall DEF Shape
<1>2. Apart(Top.map) /\ Top \in Range(calls)
  BY <1>1, TopApart, TopCall
<1>3. CASE PassOver
  <2>1. UNCHANGED heap
    BY <1>3 DEF PassOver
  <2> DEFINE c == Call(Top.name, Top.map, Top.cases, Tail(Top.names))
  <2>2. calls' = [calls EXCEPT ![Len(calls)] = c] /\ Apart(c.map)
    BY <1>2, <1>3, CallApart DEF PassOver, Passed, WithTop
  <2> HIDE DEF c
  <2>3. MapsApart'
    BY <1>1, <2>2, ApartByChange
  <2> QED BY <1>1, <2>1, <2>3 DEF TemplatesHeld
<1>4. CASE CallOption
  <2>1. UNCHANGED heap
    BY <1>4 DEF CallOption
  <2> DEFINE c == Call(Top.name, Top.map, Top.cases, Tail(Top.names))
             d == Call(Name, <<>>, ChosenCases(pi.option[Name], Name, last.req), <<>>)
             s == [calls EXCEPT ![Len(calls)] = c]
  <2>2. calls' = Append(s, d) /\ Apart(c.map)
    BY <1>2, <1>4, CallApart DEF CallOption, Passed, WithTop
  <2>3. Apart(d.map)
    <3>1. Apart(<<>>)
      BY DEF Apart
    <3> QED BY <3>1, CallApart
  <2> HIDE DEF c, d
  <2>4. IsStack(s) /\ Range(s) \subseteq Range(calls) \cup {c}
    BY <1>1, ChangedCall
  <2> HIDE DEF s
  <2>5. Range(calls') \subseteq Range(s) \cup {d}
    BY <2>2, <2>4, PushedCalls
  <2>6. MapsApart'
    BY <2>2, <2>3, <2>4, <2>5 DEF MapsApart
  <2> QED BY <1>1, <2>1, <2>6 DEF TemplatesHeld
<1>5. CASE ResolveInput
  <2> DEFINE copy == Filling(Name)
             owner == <<"copy", Name, Cardinality(DOMAIN heap)>>
             src == Refs(owner, copy)
             h == Over(heap, [x \in {<<owner, n>> : n \in DOMAIN copy} |-> copy[x[2]]])
             c == Call(Top.name, Merged(Top.map, src), Top.cases, Tail(Top.names))
  <2>1. heap' = Written(h, Top.map, src) /\ calls' = [calls EXCEPT ![Len(calls)] = c]
    BY <1>5 DEF ResolveInput, WithTop
  <2>2. \A x \in DOMAIN heap : x \in DOMAIN h /\ h[x] = heap[x]
    BY DEF Over
  <2>3. owner[1] = "copy"
    OBVIOUS
  <2> HIDE DEF owner, copy
  <2>4. Apart(src)
    BY <2>3, RefsApart
  <2> HIDE DEF src, h
  <2>5. Apart(c.map)
    BY <1>2, <2>4, MergedApart, CallApart
  <2> HIDE DEF c
  <2>6. MapsApart'
    BY <1>1, <2>1, <2>5, ApartByChange
  <2>7. \A name \in DOMAIN NotNull(pi.option) : \A n \in DOMAIN pi.option[name].over :
            /\ <<<<"input", name, 0>>, n>> \in DOMAIN h
            /\ h[<<<<"input", name, 0>>, n>>] = heap[<<<<"input", name, 0>>, n>>]
    BY <2>2 DEF TemplatesHeld
  <2>8. TemplatesHeld'
    BY <1>1, <1>2, <2>1, <2>7, KeptByWrite
  <2> QED BY <2>6, <2>8
<1>6. CASE ApplyCase
  <2> DEFINE i == Min(Top.cases)
             case == pi.option[Top.name].cases[i]
             owner == <<"case", Top.name, i>>
             src == Refs(owner, case.over)
             c == Call(Top.name, Merged(Top.map, src), Top.cases \ {i}, case.nested)
  <2>1. heap' = Written(heap, Top.map, src) /\ calls' = [calls EXCEPT ![Len(calls)] = c]
    BY <1>6 DEF ApplyCase, WithTop
  <2>2. owner[1] = "case"
    OBVIOUS
  <2> HIDE DEF owner, case, i
  <2>3. Apart(src)
    BY <2>2, RefsApart
  <2> HIDE DEF src
  <2>4. Apart(c.map)
    BY <1>2, <2>3, MergedApart, CallApart
  <2> HIDE DEF c
  <2>5. MapsApart'
    BY <1>1, <2>1, <2>4, ApartByChange
  <2>6. TemplatesHeld'
    BY <1>1, <1>2, <2>1, KeptByWrite DEF TemplatesHeld
  <2> QED BY <2>5, <2>6
<1>7. CASE Return
  <2> DEFINE caller == calls[Len(calls) - 1]
             c == Call(caller.name, Merged(caller.map, Top.map), caller.cases, caller.names)
             s == Front(calls)
  <2>1. /\ heap' = Written(heap, caller.map, Top.map) /\ calls' = [s EXCEPT ![Len(calls) - 1] = c]
        /\ Len(calls) > 1
    BY <1>7 DEF Return
  <2>2. caller \in Range(calls)
    BY <1>1, <2>1, TopCall DEF Range
  <2>3. Apart(caller.map)
    BY <2>2 DEF MapsApart
  <2> HIDE DEF caller
  <2>4. Apart(c.map)
    BY <1>2, <2>3, MergedApart, CallApart
  <2> HIDE DEF c
  <2>5. IsStack(s) /\ Range(s) \subseteq Range(calls)
    BY <1>1, PoppedCalls
  <2> HIDE DEF s
  <2>6. MapsApart'
    BY <2>1, <2>4, <2>5, ApartByChange
  <2>7. TemplatesHeld'
    BY <1>1, <2>1, <2>3, KeptByWrite DEF TemplatesHeld
  <2> QED BY <2>6, <2>7
<1>8. CASE Refuse \/ Finish
  <2>1. calls' = <<>> /\ heap' = Restrict(heap, {x \in DOMAIN heap : x[1][1] # "copy"})
    BY <1>8 DEF Refuse, Finish, End
  <2>2. MapsApart'
    <3>1. Range(<<>>) = {}
      BY DEF Range
    <3> QED BY <2>1, <3>1 DEF MapsApart
  <2>3. \A x \in DOMAIN heap : x[1][1] = "input" => x \in DOMAIN heap' /\ heap'[x] = heap[x]
    BY <2>1 DEF Restrict
  <2>4. \A name, n : <<<<"input", name, 0>>, n>>[1][1] = "input"
    OBVIOUS
  <2>5. TemplatesHeld'
    BY <1>1, <2>3, <2>4 DEF TemplatesHeld
  <2> QED BY <2>2, <2>5
<1> QED BY <1>3, <1>4, <1>5, <1>6, <1>7, <1>8 DEF CompileStep, Step

(* Whatever is compiled, the templates of the input options stay as they     *)
(* were loaded: a merge writes only to nodes that the override under way     *)
(* refers to, and none of these is an input option's own.                    *)
THEOREM TemplatesStay == Spec => []TemplatesKept
<1>1. Init => MapsApart /\ TemplatesHeld
  <2> SUFFICES ASSUME Init PROVE MapsApart /\ TemplatesHeld
    OBVIOUS
  <2>1. calls = <<>> /\ pi.option = <<>>
    BY DEF Init, Nothing
  <2>2. Range(<<>>) = {} /\ DOMAIN NotNull(<<>>) = {}
    BY DEF Range, NotNull
  <2> QED BY <2>1, <2>2 DEF MapsApart, TemplatesHeld
<1>2. Shape /\ MapsApart /\ TemplatesHeld /\ [Next]_vars => (MapsApart /\ TemplatesHeld)'
  <2> SUFFICES ASSUME Shape, MapsApart, TemplatesHeld, [Next]_vars PROVE (MapsApart /\ TemplatesHeld)'
    OBVIOUS
  <2>1. CASE Load
    <3>1. UNCHANGED calls /\ MapsApart'
      BY <2>1 DEF Load, MapsApart
    <3>2. CASE Loads(dir)
      <4>1. heap' = Nodes(pi')
        BY <2>1, <3>2 DEF Load
      <4> QED BY <3>1, <4>1, TemplatesOwned DEF TemplatesHeld
    <3>3. CASE ~Loads(dir)
      BY <2>1, <3>1, <3>3 DEF Load, TemplatesHeld
    <3> QED BY <3>2, <3>3
  <2>2. CASE SendCapabilities \/ UNCHANGED vars
    BY <2>2 DEF SendCapabilities, vars, MapsApart, TemplatesHeld
  <2>3. ASSUME NEW req \in Requests, RunTaskItem(req) PROVE (MapsApart /\ TemplatesHeld)'
    <3>1. UNCHANGED <<pi, heap>> /\ TemplatesHeld'
      BY <2>3 DEF RunTaskItem, Compile, TemplatesHeld
    <3>2. CASE IndexOf(pi.tasks, req.task) # 0
      <4> DEFINE owner == <<"task", "", IndexOf(pi.tasks, req.task)>>
                 c == Call("", Refs(owner, TaskOf(req).over), {}, Sources(req))
      <4>1. calls' = <<c>>
        BY <2>3, <3>2 DEF RunTaskItem, Compile
      <4>2. owner[1] = "task"
        OBVIOUS
      <4> HIDE DEF owner
      <4>3. Apart(c.map)
        BY <4>2, RefsApart, CallApart
      <4> HIDE DEF c
      <4>4. Range(<<c>>) = {c}
        BY DEF Range
      <4> QED BY <3>1, <4>1, <4>3, <4>4 DEF MapsApart
    <3>3. CASE IndexOf(pi.tasks, req.task) = 0
      BY <2>3, <3>1, <3>3 DEF RunTaskItem, Compile, MapsApart
    <3> QED BY <3>2, <3>3
  <2>4. CASE CompileStep
    BY <2>4, StepHeld
  <2> QED BY <2>1, <2>2, <2>3, <2>4 DEF Next, Fatal
<1>3. TemplatesHeld => TemplatesKept
  BY DEF TemplatesHeld, TemplatesKept
<1> QED BY <1>1, <1>2, <1>3, ShapeHolds, PTL DEF Spec
-------------------------------------------------------------------------------
(* What is offered and what is picked.                                       *)

(* The first of a set of positions.                                          *)
LEMMA Least ==
    ASSUME NEW T, T \subseteq Nat, T # {}
    PROVE  Min(T) \in T
<1>1. PICK x \in T : \A y \in T : ~(<<y, x>> \in OpToRel(<, Nat))
  BY NatLessThanWellFounded, WFMin
<1>2. ASSUME NEW y \in T PROVE x <= y
  <2>1. <<y, x>> \in Nat \X Nat /\ <<y, x>>[1] = y /\ <<y, x>>[2] = x
    OBVIOUS
  <2>2. OpToRel(<, Nat) = {ss \in Nat \X Nat : ss[1] < ss[2]}
    BY DEF OpToRel
  <2>3. <<y, x>> \notin {ss \in Nat \X Nat : ss[1] < ss[2]}
    BY <1>1, <2>2, Zenon
  <2>4. ~(y < x)
    BY <2>1, <2>3
  <2> QED BY <2>4
<1> QED BY <1>2 DEF Min

(* The tasks of an offer are those of the interface, with the options they   *)
(* name and the interface has.                                               *)
LEMMA OptionsOffered ==
    ASSUME NEW p, NEW i \in DOMAIN p.tasks
    PROVE  /\ Build(p).tasks[i].name = p.tasks[i].name
           /\ Build(p).tasks[i].options = {OfferedOption(p, n) : n \in {m \in Range(p.tasks[i].option) : GetOption(p, m) # Null}}
           /\ DOMAIN Build(p).tasks = DOMAIN p.tasks
BY DEF Build, buildTaskOptions

(* As many tasks are offered as there are.                                   *)
LEMMA OfferedTasks ==
    ASSUME NEW p
    PROVE  DOMAIN Build(p).tasks = DOMAIN p.tasks
BY DEF Build

(* The fields of an option as it is offered.                                 *)
LEMMA OfferedFields ==
    ASSUME NEW p, NEW name
    PROVE  /\ OfferedOption(p, name).name = name
           /\ OfferedOption(p, name).type = GetOption(p, name).type
           /\ OfferedOption(p, name).default_case = getDefaultCaseList(GetOption(p, name).default_case)
           /\ OfferedOption(p, name).inputs = GetOption(p, name).inputs
           /\ OfferedOption(p, name).cases = [i \in DOMAIN GetOption(p, name).cases |-> GetOption(p, name).cases[i].name]
BY DEF OfferedOption

(* An option that exists has lists for its cases and its default cases, and, *)
(* where the interface is well-formed, a type and defaults of its own.       *)
LEMMA OptionExists ==
    ASSUME NEW p, Typed(p), NEW name, GetOption(p, name) # Null
    PROVE  LET opt == GetOption(p, name)
           IN  /\ name \in DOMAIN p.option /\ opt = p.option[name]
               /\ IsSeq(opt.cases)
               /\ opt.default_case.t \in {"text", "list"} => IsSeq(opt.default_case.v)
               /\ WellFormed(p) => /\ opt.type \in {"select", "switch", "checkbox", "input"}
                                   /\ opt.type \in {"select", "switch"} /\ opt.cases # <<>> =>
                                         {opt.default, getDefaultCaseFirst(opt.default_case)}
                                            \subseteq {""} \cup {c.name : c \in Range(opt.cases)}
<1>1. name \in DOMAIN p.option /\ GetOption(p, name) = p.option[name] /\ p.option[name] # Null
  BY DEF GetOption
<1>2. p.option[name] \in Range(NotNull(p.option))
  BY <1>1 DEF NotNull, Range
<1>3. OptionTyped(p.option[name])
  BY <1>1 DEF Typed
<1> QED BY <1>1, <1>2, <1>3 DEF OptionTyped, WellFormed

(* The first item of a sequence.                                             *)
LEMMA FirstOf ==
    ASSUME NEW W, NEW s \in Seq(W), s # <<>>
    PROVE  s[1] \in W
OBVIOUS

(* The first default case is empty just if there is none.                    *)
LEMMA FirstDefault ==
    ASSUME NEW raw, raw.t \in {"text", "list"} => IsSeq(raw.v)
    PROVE  getDefaultCaseList(raw) # <<>> => /\ getDefaultCaseFirst(raw) = getDefaultCaseList(raw)[1]
                                             /\ getDefaultCaseFirst(raw) # ""
<1> SUFFICES ASSUME getDefaultCaseList(raw) # <<>>
             PROVE  /\ getDefaultCaseFirst(raw) = getDefaultCaseList(raw)[1]
                    /\ getDefaultCaseFirst(raw) # ""
  OBVIOUS
<1> DEFINE l == getDefaultCaseList(raw)
<1>1. PICK W : l \in Seq(W) /\ "" \notin W
  BY DefaultCaseNames
<1>2. getDefaultCaseFirst(raw) = l[1] /\ l # <<>>
  BY DEF getDefaultCaseFirst
<1>3. l[1] \in W
  BY <1>1, <1>2, FirstOf
<1> QED BY <1>1, <1>2, <1>3

(* A name among the cases selects one case, of that name.                    *)
LEMMA OneSelected ==
    ASSUME NEW opt, IsSeq(opt.cases), NEW name, NEW req,
           NameSelected(opt, name, req) \in {c.name : c \in Range(opt.cases)}
    PROVE  \E i \in DOMAIN opt.cases : /\ SelectedCases(opt, name, req) = {i}
                                       /\ opt.cases[i].name = NameSelected(opt, name, req)
<1> DEFINE hits == {i \in DOMAIN opt.cases : opt.cases[i].name = NameSelected(opt, name, req)}
<1>1. hits # {}
  BY DEF Range
<1>2. hits \subseteq Nat
  <2>1. opt.cases \in Seq(Range(opt.cases))
    BY DEF IsSeq
  <2>2. DOMAIN opt.cases = 1..Len(opt.cases) /\ Len(opt.cases) \in Nat
    BY <2>1
  <2> QED BY <2>2
<1>3. SelectedCases(opt, name, req) = {Min(hits)}
  BY <1>1 DEF SelectedCases
<1> HIDE DEF hits
<1>4. Min(hits) \in hits
  BY <1>1, <1>2, Least
<1> QED BY <1>3, <1>4 DEF hits

(* The default cases that a page shows apply where the user says nothing.    *)
LEMMA DefaultPicked ==
    ASSUME NEW p, Typed(p), WellFormed(p), NEW name, GetOption(p, name) # Null,
           OfferedOption(p, name).default_case # <<>>, GetOption(p, name).cases # <<>>
    PROVE  LET opt == GetOption(p, name)
               o == OfferedOption(p, name)
               picked == {opt.cases[i].name : i \in ChosenCases(opt, name, NoChoice)}
           IN  /\ opt.type = "checkbox" => picked = Range(o.default_case) \cap Range(o.cases)
               /\ opt.type \in {"select", "switch"} => picked = {o.default_case[1]}
<1> DEFINE opt == GetOption(p, name)
           o == OfferedOption(p, name)
           picked == {opt.cases[i].name : i \in ChosenCases(opt, name, NoChoice)}
<1>1. /\ o.default_case = getDefaultCaseList(opt.default_case)
      /\ o.cases = [i \in DOMAIN opt.cases |-> opt.cases[i].name]
  BY OfferedFields
<1>2. \A kind : ~Chose(name, NoChoice, kind)
  BY DEF Chose, NoChoice
<1>3. /\ IsSeq(opt.cases)
      /\ opt.default_case.t \in {"text", "list"} => IsSeq(opt.default_case.v)
      /\ opt.type \in {"select", "switch"} =>
            getDefaultCaseFirst(opt.default_case) \in {""} \cup {c.name : c \in Range(opt.cases)}
  BY OptionExists
<1> HIDE DEF opt, o
<1>4. ASSUME opt.type = "checkbox" PROVE picked = Range(o.default_case) \cap Range(o.cases)
  <2>1. ChosenCases(opt, name, NoChoice) = {i \in DOMAIN opt.cases : opt.cases[i].name \in Range(o.default_case)}
    BY <1>1, <1>2, <1>4 DEF ChosenCases, IsSelect, CheckedCases, Checked
  <2>2. Range(o.cases) = {opt.cases[i].name : i \in DOMAIN opt.cases}
    BY <1>1 DEF Range
  <2> QED BY <2>1, <2>2
<1>5. ASSUME opt.type \in {"select", "switch"} PROVE picked = {o.default_case[1]}
  <2>1. getDefaultCaseFirst(opt.default_case) = o.default_case[1] /\ getDefaultCaseFirst(opt.default_case) # ""
    BY <1>1, <1>3, FirstDefault DEF o
  <2>2. NameSelected(opt, name, NoChoice) = o.default_case[1]
    BY <1>2, <2>1 DEF NameSelected
  <2>3. NameSelected(opt, name, NoChoice) \in {c.name : c \in Range(opt.cases)}
    BY <1>3, <1>5, <2>1, <2>2
  <2>4. PICK i \in DOMAIN opt.cases : /\ SelectedCases(opt, name, NoChoice) = {i}
                                      /\ opt.cases[i].name = NameSelected(opt, name, NoChoice)
    BY <1>3, <2>3, OneSelected
  <2>5. ChosenCases(opt, name, NoChoice) = {i}
    BY <1>5, <2>4 DEF ChosenCases, IsSelect
  <2> QED BY <2>2, <2>4, <2>5
<1> QED BY <1>4, <1>5 DEF opt, o

(* The default cases that the user is shown are the ones that apply when he  *)
(* leaves the option alone.                                                  *)
THEOREM DefaultsApply == Spec => []OfferedDefaultApplies
<1>1. Shape => OfferedDefaultApplies
  <2> SUFFICES ASSUME Shape, phase = "offered", WellFormed(pi), NEW o \in Offers, o.default_case # <<>>, o.cases # <<>>
               PROVE  /\ o.type = "checkbox" => CasesPicked(o, NoChoice) = Range(o.default_case) \cap Range(o.cases)
                      /\ o.type \in {"select", "switch"} => CasesPicked(o, NoChoice) = {o.default_case[1]}
    BY DEF OfferedDefaultApplies
  <2>1. caps = Build(pi) /\ Typed(pi)
    BY DEF Shape
  <2>2. PICK i, name : i \in DOMAIN pi.tasks /\ GetOption(pi, name) # Null /\ o = OfferedOption(pi, name)
    <3>1. PICK t \in Range(caps.tasks) : o \in t.options
      BY DEF Offers
    <3>2. PICK i \in DOMAIN caps.tasks : t = caps.tasks[i]
      BY <3>1 DEF Range
    <3>3. i \in DOMAIN pi.tasks
      BY <2>1, <3>2 DEF Build
    <3>4. caps.tasks[i].options = {OfferedOption(pi, n) : n \in {m \in Range(pi.tasks[i].option) : GetOption(pi, m) # Null}}
      BY <2>1, <3>3, OptionsOffered
    <3> QED BY <3>1, <3>2, <3>3, <3>4
  <2>3. o.name = name /\ o.type = GetOption(pi, name).type /\ GetOption(pi, name).cases # <<>>
    <3>1. o.cases = [k \in DOMAIN GetOption(pi, name).cases |-> GetOption(pi, name).cases[k].name]
      BY <2>2, OfferedFields
    <3> QED BY <2>2, <3>1, OfferedFields
  <2>4. CasesPicked(o, NoChoice) = {GetOption(pi, name).cases[k].name : k \in ChosenCases(GetOption(pi, name), name, NoChoice)}
    BY <2>3 DEF CasesPicked
  <2> QED BY <2>1, <2>2, <2>3, <2>4, DefaultPicked
<1> QED BY <1>1, ShapeHolds, PTL
-------------------------------------------------------------------------------
(* Nothing that keeps to the offer is refused.                               *)

(* The positions of a sequence.                                              *)
LEMMA PositionsOf ==
    ASSUME NEW s, IsSeq(s)
    PROVE  DOMAIN s = 1..Len(s) /\ Len(s) \in Nat
<1>1. s \in Seq(Range(s))
  BY DEF IsSeq
<1> QED BY <1>1

(* A name that some item has is found.                                       *)
LEMMA FoundTask ==
    ASSUME NEW items, IsSeq(items), NEW name, NEW i \in DOMAIN items, items[i].name = name
    PROVE  IndexOf(items, name) \in DOMAIN items /\ items[IndexOf(items, name)].name = name
<1> DEFINE same == {k \in DOMAIN items : items[k].name = name}
<1>1. same # {} /\ same \subseteq Nat
  BY PositionsOf
<1>2. IndexOf(items, name) = Min(same)
  BY <1>1 DEF IndexOf
<1> HIDE DEF same
<1>3. Min(same) \in same
  BY <1>1, Least
<1> QED BY <1>2, <1>3 DEF same

(* The user's case of an option that keeps to the offer is one of its cases. *)
LEMMA ChosenAmongCases ==
    ASSUME Shape, phase = "offered", NEW STATE req, KeepsToOffer(req), NEW STATE name, name \in DOMAIN req.user,
           GetOption(pi, name).type \in {"select", "switch"}, IsSeq(GetOption(pi, name).cases)
    PROVE  Chose(name, req, "case") /\ req.user[name].case \in {c.name : c \in Range(GetOption(pi, name).cases)}
<1> DEFINE opt == GetOption(pi, name)
           t == CHOOSE x \in Range(caps.tasks) : x.name = req.task
<1>1. t \in Range(caps.tasks)
  BY DEF KeepsToOffer
<1>2. PICK o \in OfferOf(req) : o.name = name /\ AmongCases(req.user[name], o)
  BY DEF KeepsToOffer
<1>3. o \in t.options
  BY <1>2 DEF OfferOf
<1> HIDE DEF t
<1>4. PICK i \in DOMAIN pi.tasks : t = Build(pi).tasks[i]
  <2>1. PICK i \in DOMAIN caps.tasks : t = caps.tasks[i]
    BY <1>1 DEF Range
  <2>2. DOMAIN caps.tasks = DOMAIN pi.tasks /\ caps = Build(pi)
    BY OfferedTasks DEF Shape
  <2> QED BY <2>1, <2>2
<1>5. PICK n : o = OfferedOption(pi, n)
  BY <1>3, <1>4, OptionsOffered
<1>6. n = name /\ o.type = opt.type /\ o.cases = [k \in DOMAIN opt.cases |-> opt.cases[k].name]
  <2> HIDE DEF opt
  <2>1. n = name
    <3>1. OfferedOption(pi, n).name = n
      BY DEF OfferedOption
    <3> QED BY <1>2, <1>5, <3>1
  <2>2. o = OfferedOption(pi, name)
    BY <1>5, <2>1
  <2> QED BY <2>1, <2>2, OfferedFields DEF opt
<1>7. "case" \in DOMAIN req.user[name] /\ Contains(o.cases, req.user[name].case)
  BY <1>2, <1>6 DEF AmongCases
<1>8. DOMAIN opt.cases = 1..Len(opt.cases) /\ Len(opt.cases) \in Nat
  BY PositionsOf
<1> HIDE DEF opt
<1>9. Len(o.cases) = Len(opt.cases)
  BY <1>6, <1>8
<1>10. PICK k \in DOMAIN opt.cases : o.cases[k] = req.user[name].case
  BY <1>7, <1>8, <1>9 DEF Contains
<1>11. req.user[name].case = opt.cases[k].name /\ opt.cases[k] \in Range(opt.cases)
  BY <1>6, <1>10 DEF Range
<1> QED BY <1>7, <1>11 DEF Chose, opt

(* An option that is active is not refused to a request that keeps to the    *)
(* offer.                                                                    *)
LEMMA NothingRefused ==
    ASSUME Shape, phase = "offered", WellFormed(pi), NEW STATE req, KeepsToOffer(req),
           NEW STATE name, IsActive(name, req)
    PROVE  ~Refused(pi.option[name], name, req)
<1> DEFINE opt == GetOption(pi, name)
           names == {c.name : c \in Range(opt.cases)}
<1>1. Typed(pi) /\ GetOption(pi, name) # Null
  BY DEF Shape, IsActive
<1>2. /\ name \in DOMAIN pi.option /\ opt = pi.option[name]
      /\ IsSeq(opt.cases) /\ opt.type \in {"select", "switch", "checkbox", "input"}
      /\ opt.type \in {"select", "switch"} /\ opt.cases # <<>> =>
            {opt.default, getDefaultCaseFirst(opt.default_case)} \subseteq {""} \cup names
  BY <1>1, OptionExists
<1>3. ASSUME opt.type \in {"select", "switch"}, opt.cases # <<>> PROVE SelectedCases(opt, name, req) # {}
  <2>1. opt.cases[1].name \in names
    <3>1. DOMAIN opt.cases = 1..Len(opt.cases) /\ Len(opt.cases) \in Nat
      BY <1>2, PositionsOf
    <3>2. opt.cases \in Seq(Range(opt.cases))
      BY <1>2 DEF IsSeq
    <3> HIDE DEF opt
    <3>3. opt.cases[1] \in Range(opt.cases)
      BY <1>3, <3>2, FirstOf
    <3> QED BY <3>3
  <2>2. Chose(name, req, "case") => req.user[name].case \in names
    <3>1. Chose(name, req, "case") => name \in DOMAIN req.user
      BY DEF Chose
    <3> QED BY <1>2, <1>3, <3>1, ChosenAmongCases
  <2>3. {opt.default, getDefaultCaseFirst(opt.default_case)} \subseteq {""} \cup names
    BY <1>2, <1>3
  <2>4. NameSelected(opt, name, req) \in names
    <3> HIDE DEF opt, names
    <3> QED BY <1>3, <2>1, <2>2, <2>3 DEF NameSelected
  <2> HIDE DEF opt, names
  <2>5. NameSelected(opt, name, req) \in {c.name : c \in Range(opt.cases)} /\ IsSeq(opt.cases)
    BY <1>2, <2>4 DEF names
  <2>6. PICK i \in DOMAIN opt.cases : SelectedCases(opt, name, req) = {i}
    BY <2>5, OneSelected
  <2> QED BY <2>6
<1> HIDE DEF opt
<1> QED BY <1>2, <1>3 DEF Refused, IsSelect

(* Only Refuse and Finish end a compilation.                                 *)
LEMMA CallsRemain ==
    ASSUME Shape, CompileStep, ~Refuse, ~Finish
    PROVE  calls' # <<>> /\ UNCHANGED last
<1>1. calls # <<>> /\ IsStack(calls) /\ Len(calls) \in Nat \ {0}
  BY StepShape, TopCall DEF Shape
<1>2. \A c : IsStack(WithTop(c)) /\ Len(WithTop(c)) = Len(calls)
  BY <1>1, ChangedCall DEF WithTop
<1>3. \A c : WithTop(c) # <<>>
  <2>1. Len(<<>>) = 0
    OBVIOUS
  <2> QED BY <1>1, <1>2, <2>1
<1>4. CASE PassOver \/ ResolveInput \/ ApplyCase
  BY <1>3, <1>4 DEF PassOver, ResolveInput, ApplyCase, Passed
<1>5. CASE CallOption
  BY <1>2, <1>5, PushedCalls DEF CallOption, Passed
<1>6. CASE Return
  <2> DEFINE caller == calls[Len(calls) - 1]
             c == Call(caller.name, Merged(caller.map, Top.map), caller.cases, caller.names)
  <2>1. calls' = [Front(calls) EXCEPT ![Len(calls) - 1] = c] /\ UNCHANGED last /\ Len(calls) > 1
    BY <1>6 DEF Return
  <2> HIDE DEF c
  <2>2. IsStack(Front(calls)) /\ Len(Front(calls)) = Len(calls) - 1
    BY <1>1, PoppedCalls
  <2>3. Len(calls') = Len(calls) - 1
    BY <2>1, <2>2, ChangedCall
  <2>4. Len(<<>>) = 0
    OBVIOUS
  <2>5. calls' # <<>>
    BY <1>1, <2>1, <2>3, <2>4
  <2> QED BY <2>1, <2>5
<1> QED BY <1>4, <1>5, <1>6 DEF CompileStep, Step

(* A request made of what was offered compiles, on every interface whose     *)
(* defaults exist, whatever was compiled before.                             *)
THEOREM OffersCompile == Spec => []OfferedChoicesCompile
<1>1. Init => OfferedChoicesCompile
  BY DEF Init, OfferedChoicesCompile
<1>2. Shape /\ OfferedChoicesCompile /\ [Next]_vars => OfferedChoicesCompile'
  <2> SUFFICES ASSUME Shape, OfferedChoicesCompile, [Next]_vars,
                      calls' = <<>>, compiles' > 0, WellFormed(pi'), KeepsToOffer(last.req)'
               PROVE  ~last'.failed
    BY DEF OfferedChoicesCompile
  <2>1. CASE Load
    BY <2>1 DEF Load, Shape
  <2>2. CASE SendCapabilities
    <3>1. UNCHANGED <<pi, calls, compiles, last>> /\ caps' = Build(pi) /\ phase = "offered"
      BY <2>2 DEF SendCapabilities, Shape
    <3>2. UNCHANGED caps
      BY <3>1 DEF Shape
    <3>3. KeepsToOffer(last.req)
      BY <3>1, <3>2 DEF KeepsToOffer, OfferOf
    <3> QED BY <3>1, <3>3 DEF OfferedChoicesCompile
  <2>3. ASSUME NEW req \in Requests, RunTaskItem(req) PROVE ~last'.failed
    <3>1. phase = "offered" /\ UNCHANGED <<pi, caps>> /\ caps = Build(pi) /\ Typed(pi)
      BY <2>3 DEF RunTaskItem, Compile, Shape
    <3>2. IndexOf(pi.tasks, req.task) # 0 => calls' # <<>>
      <4> SUFFICES ASSUME IndexOf(pi.tasks, req.task) # 0 PROVE calls' # <<>>
        OBVIOUS
      <4>1. PICK c : calls' = <<c>>
        BY <2>3 DEF RunTaskItem, Compile
      <4>2. <<c>> # <<>>
        OBVIOUS
      <4> QED BY <4>1, <4>2
    <3>3. CASE IndexOf(pi.tasks, req.task) = 0
      <4>1. last' = [NoRequest EXCEPT !.req = req, !.failed = TRUE]
        BY <2>3, <3>3 DEF RunTaskItem, Compile
      <4>2. last'.req = req
        BY <4>1 DEF NoRequest
      <4>3. PICK t \in Range(caps'.tasks) : t.name = req.task
        BY <4>2 DEF KeepsToOffer
      <4>4. PICK i \in DOMAIN pi.tasks : t = Build(pi).tasks[i]
        BY <3>1, <4>3, OptionsOffered DEF Range, Build
      <4>5. pi.tasks[i].name = req.task
        BY <4>3, <4>4, OptionsOffered
      <4>6. IsSeq(pi.tasks)
        BY <3>1 DEF Typed
      <4>7. IndexOf(pi.tasks, req.task) \in DOMAIN pi.tasks /\ DOMAIN pi.tasks = 1..Len(pi.tasks)
        BY <4>5, <4>6, FoundTask, PositionsOf
      <4> QED BY <3>3, <4>6, <4>7, PositionsOf
    <3> QED BY <3>2, <3>3
  <2>4. CASE CompileStep
    <3>1. /\ UNCHANGED <<caps, pi>> /\ phase = "offered" /\ calls # <<>>
          /\ last = [req |-> last.req, failed |-> last.failed, override |-> last.override]
      BY <2>4, StepShape DEF Shape
    <3>2. CASE Refuse
      <4>1. last'.req = last.req
        BY <3>1, <3>2 DEF Refuse, End
      <4>2. KeepsToOffer(last.req)
        BY <3>1, <4>1 DEF KeepsToOffer, OfferOf
      <4>3. WellFormed(pi)
        BY <3>1
      <4>4. IsActive(Name, last.req) /\ Refused(pi.option[Name], Name, last.req)
        BY <3>2 DEF Refuse
      <4> QED BY <3>1, <4>2, <4>3, <4>4, NothingRefused
    <3>3. CASE Finish
      BY <3>1, <3>3 DEF Finish, End
    <3> QED BY <2>4, <3>2, <3>3, CallsRemain
  <2>5. CASE UNCHANGED vars
    <3>1. UNCHANGED <<caps, pi, calls, compiles, last>>
      BY <2>5 DEF vars
    <3>2. KeepsToOffer(last.req)
      BY <3>1 DEF KeepsToOffer, OfferOf
    <3> QED BY <3>1, <3>2 DEF OfferedChoicesCompile
  <2> QED BY <2>1, <2>2, <2>3, <2>4, <2>5 DEF Next, Fatal
<1> QED BY <1>1, <1>2, ShapeHolds, PTL DEF Spec
-------------------------------------------------------------------------------
(* FlattenSeq puts one sequence after the other.                             *)
LEMMA FlattenDefined ==
    ASSUME NEW T, NEW ss \in Seq(T), Len(ss) # 0
    PROVE  \E f : /\ FlattenSeq(ss) = f[Len(ss)] /\ f[1] = ss[1]
                  /\ \A k \in 1..Len(ss) : k # 1 => f[k] = f[k - 1] \o ss[k]
<1> DEFINE N == Len(ss)
           flatten[i \in 1..N] == IF i = 1 THEN ss[i] ELSE flatten[i - 1] \o ss[i]
           Glued(x, k) == x \o ss[k]
           Rec(f, n) == f = [k \in 1..n |-> IF k = 1 THEN ss[k] ELSE Glued(f[k - 1], k)]
           S == {n \in Nat : \E f : Rec(f, n)}
<1>1. FlattenSeq(ss) = flatten[N]
  BY DEF FlattenSeq
<1>2. flatten = CHOOSE f : Rec(f, N)
  BY DEF flatten
<1> HIDE DEF Glued, flatten
<1>3. \E f : Rec(f, 0)
  <2>1. Rec([k \in 1..0 |-> <<>>], 0)
    OBVIOUS
  <2> QED BY <2>1
<1>4. ASSUME NEW n \in Nat, NEW f, Rec(f, n)
      PROVE  \E g : Rec(g, n + 1)
  <2> DEFINE g == [k \in 1..(n + 1) |-> IF k = n + 1 THEN IF k = 1 THEN ss[k] ELSE Glued(f[n], k) ELSE f[k]]
  <2>1. \A k \in 1..n : g[k] = f[k]
    OBVIOUS
  <2>2. ASSUME NEW k \in 1..(n + 1)
        PROVE  g[k] = IF k = 1 THEN ss[k] ELSE Glued(g[k - 1], k)
    <3>1. CASE k = n + 1
      BY <2>1, <3>1
    <3>2. CASE k # n + 1
      <4>1. k \in 1..n /\ (k # 1 => k - 1 \in 1..n)
        BY <3>2
      <4> QED BY <1>4, <2>1, <4>1
    <3> QED BY <3>1, <3>2
  <2>3. Rec(g, n + 1)
    BY <2>2
  <2> QED BY <2>3
<1> HIDE DEF Rec
<1>5. Nat \subseteq S
  <2>1. 0 \in S /\ \A n \in Nat : n \in S => n + 1 \in S
    BY <1>3, <1>4
  <2> HIDE DEF S
  <2> QED BY <2>1, SetInduction
<1>6. N \in Nat /\ N # 0
  OBVIOUS
<1>7. Rec(flatten, N)
  BY <1>2, <1>5, <1>6
<1>8. flatten[1] = ss[1] /\ \A k \in 1..N : k # 1 => flatten[k] = Glued(flatten[k - 1], k)
  BY <1>6, <1>7 DEF Rec
<1> QED BY <1>1, <1>8 DEF Glued

(* Its items are those of all of them.                                       *)
LEMMA Joined ==
    ASSUME NEW U, NEW s \in Seq(U), NEW t \in Seq(U)
    PROVE  s \o t \in Seq(U) /\ Range(s \o t) = Range(s) \cup Range(t)
<1>1. s \o t \in Seq(U) /\ Len(s \o t) = Len(s) + Len(t) /\ Len(s) \in Nat /\ Len(t) \in Nat
  OBVIOUS
<1>2. /\ DOMAIN s = 1..Len(s) /\ DOMAIN t = 1..Len(t) /\ DOMAIN (s \o t) = 1..(Len(s) + Len(t))
      /\ \A i \in 1..Len(s) : (s \o t)[i] = s[i]
      /\ \A i \in 1..Len(t) : (s \o t)[i + Len(s)] = t[i]
  OBVIOUS
<1>3. \A i \in DOMAIN (s \o t) : (s \o t)[i] \in Range(s) \cup Range(t)
  <2> SUFFICES ASSUME NEW i \in DOMAIN (s \o t) PROVE (s \o t)[i] \in Range(s) \cup Range(t)
    OBVIOUS
  <2>1. CASE i \in 1..Len(s)
    BY <1>2, <2>1 DEF Range
  <2>2. CASE i \notin 1..Len(s)
    <3>1. i - Len(s) \in 1..Len(t) /\ (i - Len(s)) + Len(s) = i
      BY <1>1, <1>2, <2>2
    <3> QED BY <1>2, <3>1 DEF Range
  <2> QED BY <2>1, <2>2
<1>4. \A i \in DOMAIN s : s[i] \in Range(s \o t)
  <2> SUFFICES ASSUME NEW i \in DOMAIN s PROVE s[i] \in Range(s \o t)
    OBVIOUS
  <2>1. i \in DOMAIN (s \o t) /\ (s \o t)[i] = s[i]
    BY <1>1, <1>2
  <2> QED BY <2>1 DEF Range
<1>5. \A i \in DOMAIN t : t[i] \in Range(s \o t)
  <2> SUFFICES ASSUME NEW i \in DOMAIN t PROVE t[i] \in Range(s \o t)
    OBVIOUS
  <2>1. i + Len(s) \in DOMAIN (s \o t) /\ (s \o t)[i + Len(s)] = t[i]
    BY <1>1, <1>2
  <2> QED BY <2>1 DEF Range
<1>6. \A x \in Range(s \o t) : x \in Range(s) \cup Range(t)
  BY <1>3 DEF Range
<1>7. \A x \in Range(s) \cup Range(t) : x \in Range(s \o t)
  BY <1>4, <1>5 DEF Range
<1> QED BY <1>1, <1>6, <1>7

(* An item of one of the first k sequences.                                  *)
ItemOf(x, ss, k) == \E j \in 1..k : x \in Range(ss[j])

(* Sequences put one after the other are a sequence of all their items.      *)
LEMMA Flattened ==
    ASSUME NEW ss, IsSeq(ss), \A k \in DOMAIN ss : IsSeq(ss[k])
    PROVE  /\ IsSeq(FlattenSeq(ss))
           /\ \A x : x \in Range(FlattenSeq(ss)) <=> ItemOf(x, ss, Len(ss))
<1> DEFINE U == UNION {Range(ss[k]) : k \in DOMAIN ss}
           N == Len(ss)
<1>1. DOMAIN ss = 1..N /\ N \in Nat
  BY PositionsOf
<1>2. ASSUME NEW k \in DOMAIN ss PROVE ss[k] \in Seq(U)
  <2>1. ss[k] \in Seq(Range(ss[k])) /\ Range(ss[k]) \subseteq U
    BY DEF IsSeq
  <2> HIDE DEF U
  <2> QED BY <2>1
<1>0. ss \in Seq(Range(ss))
  BY DEF IsSeq
<1> HIDE DEF U
<1>3. CASE N = 0
  <2>1. FlattenSeq(ss) = ss
    BY <1>3 DEF FlattenSeq
  <2>2. \A x : ~ItemOf(x, ss, N)
    BY <1>1, <1>3 DEF ItemOf
  <2>3. Range(ss) = {}
    BY <1>1, <1>3 DEF Range
  <2> QED BY <2>1, <2>2, <2>3
<1>4. CASE N # 0
  <2>1. PICK f : /\ FlattenSeq(ss) = f[N] /\ f[1] = ss[1]
                 /\ \A k \in 1..N : k # 1 => f[k] = f[k - 1] \o ss[k]
    BY <1>0, <1>4, FlattenDefined
  <2> DEFINE Good(k) == f[k] \in Seq(U) /\ \A x : x \in Range(f[k]) <=> ItemOf(x, ss, k)
             S == {k \in 0..N : k # 0 => Good(k)}
  <2> HIDE DEF N
  <2>2. 0 \in S
    BY <1>1
  <2>3. ASSUME NEW k \in 1..N, k - 1 \in S PROVE k \in S
    <3>1. CASE k = 1
      <4>1. f[k] \in Seq(U) /\ f[k] = ss[k]
        BY <1>1, <1>2, <2>1, <3>1
      <4>2. \A x : x \in Range(ss[k]) <=> ItemOf(x, ss, k)
        BY <3>1 DEF ItemOf
      <4>3. Good(k)
        BY <4>1, <4>2
      <4> HIDE DEF Good
      <4> QED BY <1>1, <4>3
    <3>2. CASE k # 1
      <4> DEFINE h == k - 1
      <4>1. h \in 1..N /\ Good(h) /\ h \in Int
        BY <1>1, <2>3, <3>2
      <4>2. f[k] = f[h] \o ss[k]
        BY <2>1, <3>2
      <4>3. \A j : j \in 1..k <=> (j \in 1..h \/ j = k)
        BY <1>1
      <4> HIDE DEF h
      <4>4. f[h] \in Seq(U) /\ ss[k] \in Seq(U) /\ \A x : x \in Range(f[h]) <=> ItemOf(x, ss, h)
        BY <1>1, <1>2, <4>1
      <4>5. f[k] \in Seq(U) /\ Range(f[k]) = Range(f[h]) \cup Range(ss[k])
        BY <4>2, <4>4, Joined
      <4>6. \A x : x \in Range(f[k]) <=> ItemOf(x, ss, k)
        BY <4>3, <4>4, <4>5 DEF ItemOf
      <4>7. Good(k)
        BY <4>5, <4>6
      <4> HIDE DEF Good
      <4> QED BY <1>1, <4>7
    <3> QED BY <3>1, <3>2
  <2>4. N \in S
    <3> HIDE DEF S
    <3>1. 0..N \subseteq S
      BY <1>1, <2>2, <2>3, UpTo
    <3> QED BY <1>1, <3>1
  <2>5. Good(N)
    <3> HIDE DEF Good
    <3> QED BY <1>4, <2>4 DEF N
  <2>6. IsSeq(f[N])
    BY <2>5, SeqIsSeq
  <2> QED BY <2>1, <2>5, <2>6 DEF N
<1> QED BY <1>3, <1>4

-------------------------------------------------------------------------------
(* What the options of an interface contribute, from those nested in them up. *)

(* The options nested in an option of the interface.                         *)
Kids(p, name) == IF p.option[name] = Null THEN {} ELSE Nests(p, name)

(* Where no options name each other, every set of them has one whose nested  *)
(* options are outside.                                                      *)
LEMMA LeastOption ==
    ASSUME NEW p, Acyclic(p), NEW X, X \subseteq DOMAIN p.option, X # {}
    PROVE  \E m \in X : Kids(p, m) \cap X = {}
<1>1. CASE \E m \in X : p.option[m] = Null
  BY <1>1 DEF Kids
<1>2. CASE \A m \in X : p.option[m] # Null
  <2>1. X \subseteq DOMAIN NotNull(p.option)
    BY <1>2 DEF NotNull
  <2>2. PICK m \in X : Nests(p, m) \cap X = {}
    BY <2>1 DEF Acyclic
  <2> QED BY <1>2, <2>2 DEF Kids
<1> QED BY <1>1, <1>2

(* Two functions that are the same at some names.                            *)
Agree(f, g, names) ==
    \A n \in names : /\ n \in DOMAIN f <=> n \in DOMAIN g
                     /\ n \in DOMAIN f => f[n] = g[n]

(* What the options of some names contribute depends on these alone.         *)
LEMMA InTurnSame ==
    ASSUME NEW f, NEW g, NEW names, Agree(f, g, Range(names))
    PROVE  InTurn(f, names) = InTurn(g, names)
<1> DEFINE s(h) == [k \in DOMAIN names |-> IF names[k] \in DOMAIN h THEN h[names[k]] ELSE <<>>]
<1>1. ASSUME NEW k \in DOMAIN names PROVE s(f)[k] = s(g)[k]
  <2>1. names[k] \in Range(names)
    BY DEF Range
  <2> QED BY <2>1 DEF Agree
<1>2. s(f) = s(g)
  BY <1>1
<1>3. InTurn(f, names) = FlattenSeq(s(f)) /\ InTurn(g, names) = FlattenSeq(s(g))
  BY DEF InTurn
<1> HIDE DEF s
<1> QED BY <1>2, <1>3

(* An option's contribution depends on its nested options' only.             *)
LEMMA ContributionSame ==
    ASSUME NEW STATE f, NEW STATE g, NEW STATE name, NEW STATE req, Agree(f, g, Kids(pi, name))
    PROVE  Contribution(f, name, req) = Contribution(g, name, req)
<1> DEFINE opt == pi.option[name]
           picked == Picked(opt, name, req)
           s(h) == [i \in DOMAIN opt.cases |->
                      IF i \notin picked THEN <<>>
                      ELSE <<Saying(opt.cases[i].over)>> \o InTurn(h, opt.cases[i].nested)]
<1>1. CASE GetOption(pi, name) = Null
  BY <1>1 DEF Contribution
<1>2. CASE GetOption(pi, name) # Null
  <2>1. Kids(pi, name) = UNION {Range(c.nested) : c \in Range(opt.cases)}
    BY <1>2 DEF GetOption, Kids, Nests
  <2>2. ASSUME NEW i \in DOMAIN opt.cases PROVE InTurn(f, opt.cases[i].nested) = InTurn(g, opt.cases[i].nested)
    <3>1. opt.cases[i] \in Range(opt.cases)
      BY DEF Range
    <3>2. Agree(f, g, Range(opt.cases[i].nested))
      BY <2>1, <3>1 DEF Agree
    <3> QED BY <3>2, InTurnSame
  <2>3. s(f) = s(g)
    <3> HIDE DEF opt, picked
    <3> QED BY <2>2
  <2>4. FlattenSeq(s(f)) = FlattenSeq(s(g))
    BY <2>3
  <2> HIDE DEF s, picked
  <2> QED BY <2>4 DEF Contribution, s, picked
<1> QED BY <1>1, <1>2

(* Contributions that add up, for a set of options and those nested in them. *)
AddUp(f, req) ==
    /\ DOMAIN f \subseteq DOMAIN pi.option
    /\ \A n \in DOMAIN f : Kids(pi, n) \cap DOMAIN pi.option \subseteq DOMAIN f
    /\ f = [n \in DOMAIN f |-> Contribution(f, n, req)]

(* What two such functions share they agree on: the least option they would  *)
(* differ in has the same nested contributions in both.                      *)
LEMMA SameAddUp ==
    ASSUME Acyclic(pi), NEW STATE req, NEW STATE f, NEW STATE g, AddUp(f, req), AddUp(g, req)
    PROVE  \A n \in DOMAIN f \cap DOMAIN g : f[n] = g[n]
<1> DEFINE X == {n \in DOMAIN f \cap DOMAIN g : f[n] # g[n]}
<1> SUFFICES ASSUME X # {} PROVE FALSE
  OBVIOUS
<1>1. X \subseteq DOMAIN pi.option
  BY DEF AddUp
<1>2. PICK m \in X : Kids(pi, m) \cap X = {}
  <2> HIDE DEF X
  <2> QED BY <1>1, LeastOption
<1>3. Agree(f, g, Kids(pi, m))
  BY <1>2 DEF Agree, AddUp
<1>4. Contribution(f, m, req) = Contribution(g, m, req)
  BY <1>3, ContributionSame
<1>5. f[m] = Contribution(f, m, req) /\ g[m] = Contribution(g, m, req)
  BY DEF AddUp
<1> QED BY <1>4, <1>5

(* There is one for all options: the least option it would lack could be     *)
(* added.                                                                    *)
LEMMA SomeAddUp ==
    ASSUME Acyclic(pi), NEW STATE req
    PROVE  \E f : DOMAIN f = DOMAIN pi.option /\ AddUp(f, req)
<1> DEFINE D == DOMAIN pi.option
           G == {n \in D : \E f : AddUp(f, req) /\ n \in DOMAIN f}
           g == [n \in G |-> (CHOOSE f : AddUp(f, req) /\ n \in DOMAIN f)[n]]
<1>1. ASSUME NEW f, AddUp(f, req)
      PROVE  DOMAIN f \subseteq G /\ \A n \in DOMAIN f : g[n] = f[n]
  <2>1. DOMAIN f \subseteq G
    BY <1>1 DEF AddUp
  <2>2. ASSUME NEW n \in DOMAIN f PROVE g[n] = f[n]
    <3> DEFINE h == CHOOSE e : AddUp(e, req) /\ n \in DOMAIN e
    <3>1. AddUp(h, req) /\ n \in DOMAIN h
      BY <1>1, <2>2
    <3>2. g[n] = h[n]
      BY <2>1
    <3> HIDE DEF h
    <3>3. h[n] = f[n]
      BY <1>1, <3>1, SameAddUp
    <3> QED BY <3>2, <3>3
  <2> QED BY <2>1, <2>2
<1>2. ASSUME NEW n \in G
      PROVE  /\ Kids(pi, n) \cap D \subseteq G
             /\ g[n] = Contribution(g, n, req)
  <2>1. PICK f : AddUp(f, req) /\ n \in DOMAIN f
    OBVIOUS
  <2>2. DOMAIN f \subseteq G /\ \A k \in DOMAIN f : g[k] = f[k]
    BY <1>1, <2>1
  <2>3. Kids(pi, n) \cap D \subseteq DOMAIN f
    BY <2>1 DEF AddUp
  <2>4. DOMAIN g = G /\ G \subseteq D
    OBVIOUS
  <2> HIDE DEF g, G
  <2>5. Agree(f, g, Kids(pi, n))
    BY <2>2, <2>3, <2>4, <2>1 DEF Agree, AddUp
  <2>6. Contribution(f, n, req) = Contribution(g, n, req)
    BY <2>5, ContributionSame
  <2>7. f[n] = Contribution(f, n, req)
    BY <2>1 DEF AddUp
  <2> QED BY <2>1, <2>2, <2>3, <2>6, <2>7
<1>3. DOMAIN g = G /\ G \subseteq D
  OBVIOUS
<1>4. AddUp(g, req)
  <2>1. g = [n \in G |-> g[n]]
    OBVIOUS
  <2> HIDE DEF g, G
  <2>2. g = [n \in G |-> Contribution(g, n, req)]
    BY <1>2, <2>1
  <2> QED BY <1>2, <1>3, <2>2 DEF AddUp
<1>5. G = D
  <2> SUFFICES ASSUME D \ G # {} PROVE FALSE
    BY <1>3
  <2>1. PICK m \in D \ G : Kids(pi, m) \cap (D \ G) = {}
    <3> HIDE DEF G
    <3> QED BY LeastOption
  <2> DEFINE h == [n \in G \cup {m} |-> IF n = m THEN Contribution(g, m, req) ELSE g[n]]
  <2>2. DOMAIN h = G \cup {m} /\ h[m] = Contribution(g, m, req) /\ \A n \in G : h[n] = g[n]
    BY <2>1
  <2>3. h = [n \in G \cup {m} |-> h[n]]
    OBVIOUS
  <2> HIDE DEF h, g
  <2>4. ASSUME NEW n \in DOMAIN h
        PROVE  Kids(pi, n) \cap D \subseteq G /\ h[n] = Contribution(h, n, req)
    <3> HIDE DEF G
    <3>1. Kids(pi, n) \cap D \subseteq G
      BY <1>2, <2>1, <2>2
    <3>2. Agree(g, h, Kids(pi, n))
      BY <1>3, <2>1, <2>2, <3>1 DEF Agree
    <3>3. Contribution(g, n, req) = Contribution(h, n, req)
      BY <3>2, ContributionSame
    <3>4. h[n] = Contribution(g, n, req)
      BY <1>2, <2>2
    <3> QED BY <3>1, <3>3, <3>4
  <2>5. AddUp(h, req)
    <3> HIDE DEF G
    <3>1. h = [n \in DOMAIN h |-> Contribution(h, n, req)]
      BY <2>2, <2>3, <2>4
    <3> QED BY <1>3, <2>1, <2>2, <2>4, <3>1 DEF AddUp
  <2>6. m \in G
    BY <2>1, <2>2, <2>5
  <2> QED BY <2>1, <2>6
<1> HIDE DEF g, G
<1> QED BY <1>3, <1>4, <1>5

(* So the contributions of all options are what the definition says.         *)
LEMMA Contributing ==
    ASSUME Acyclic(pi), NEW STATE req
    PROVE  /\ DOMAIN Contributed(req) = DOMAIN pi.option
           /\ \A n \in DOMAIN pi.option : Contributed(req)[n] = Contribution(Contributed(req), n, req)
<1> DEFINE Rec(f) == f = [name \in DOMAIN pi.option |-> Contribution(f, name, req)]
           said[name \in DOMAIN pi.option] == Contribution(said, name, req)
<1>1. Contributed(req) = said
  BY DEF Contributed
<1>2. said = CHOOSE f : Rec(f)
  BY DEF said
<1>3. \E f : Rec(f)
  BY SomeAddUp DEF AddUp
<1> HIDE DEF said, Rec
<1>4. Rec(said)
  BY <1>2, <1>3
<1>5. said = [name \in DOMAIN pi.option |-> Contribution(said, name, req)]
  BY <1>4 DEF Rec
<1> QED BY <1>1, <1>5

-------------------------------------------------------------------------------
(* What contributions amount to: <<n>> for every node n, <<>> for a refusal. *)

NodeMarks(over) == {<<n>> : n \in DOMAIN over}
Marks(c) == IF c.refused THEN {<<>>} ELSE NodeMarks(c.over)
MarksOf(cs) == UNION {Marks(c) : c \in Range(cs)}
Due(said, names) == UNION {MarksOf(said[n]) : n \in Range(names) \cap DOMAIN said}
OfCase(said, c) == NodeMarks(c.over) \cup Due(said, c.nested)

(* A function on 1..N is a sequence of length N.                             *)
LEMMA FunIsSeq ==
    ASSUME NEW N \in Nat, NEW s, s = [i \in 1..N |-> s[i]]
    PROVE  IsSeq(s) /\ Len(s) = N
<1>1. DOMAIN s = 1..N
  OBVIOUS
<1>2. \A i \in 1..N : s[i] \in Range(s)
  BY <1>1 DEF Range
<1> QED BY <1>1, <1>2 DEF IsSeq

(* Sequences of contributions amount to what each of them does.              *)
LEMMA FlattenMarks ==
    ASSUME NEW ss, IsSeq(ss), \A k \in DOMAIN ss : IsSeq(ss[k])
    PROVE  MarksOf(FlattenSeq(ss)) = UNION {MarksOf(ss[k]) : k \in DOMAIN ss}
<1>1. DOMAIN ss = 1..Len(ss)
  BY PositionsOf
<1>2. \A c : c \in Range(FlattenSeq(ss)) <=> \E k \in DOMAIN ss : c \in Range(ss[k])
  BY <1>1, Flattened DEF ItemOf
<1> QED BY <1>2 DEF MarksOf

(* The contributions of options in turn amount to what is due for them.      *)
LEMMA InTurnMarks ==
    ASSUME NEW said, NEW names, IsSeq(names), \A n \in Range(names) \cap DOMAIN said : IsSeq(said[n])
    PROVE  IsSeq(InTurn(said, names)) /\ MarksOf(InTurn(said, names)) = Due(said, names)
<1> DEFINE s == [k \in DOMAIN names |-> IF names[k] \in DOMAIN said THEN said[names[k]] ELSE <<>>]
<1>1. DOMAIN names = 1..Len(names) /\ Len(names) \in Nat
  BY PositionsOf
<1>2. IsSeq(<<>>) /\ MarksOf(<<>>) = {}
  <2>1. <<>> \in Seq(Range(<<>>)) /\ Range(<<>>) = {}
    BY DEF Range
  <2> QED BY <2>1 DEF IsSeq, MarksOf
<1>3. InTurn(said, names) = FlattenSeq(s)
  BY DEF InTurn
<1>4. s = [k \in 1..Len(names) |-> s[k]]
  BY <1>1
<1>5. \A k \in DOMAIN names : s[k] = (IF names[k] \in DOMAIN said THEN said[names[k]] ELSE <<>>) /\ names[k] \in Range(names)
  BY DEF Range
<1> HIDE DEF s
<1>6. IsSeq(s) /\ DOMAIN s = DOMAIN names
  BY <1>1, <1>4, FunIsSeq
<1>7. \A k \in DOMAIN s : IsSeq(s[k])
  BY <1>2, <1>5, <1>6
<1>8. IsSeq(FlattenSeq(s)) /\ MarksOf(FlattenSeq(s)) = UNION {MarksOf(s[k]) : k \in DOMAIN s}
  BY <1>6, <1>7, Flattened, FlattenMarks
<1>9. UNION {MarksOf(s[k]) : k \in DOMAIN s} = Due(said, names)
  <2>1. ASSUME NEW k \in DOMAIN s PROVE MarksOf(s[k]) \subseteq Due(said, names)
    BY <1>2, <1>5, <1>6 DEF Due
  <2>2. ASSUME NEW n \in Range(names) \cap DOMAIN said
        PROVE  MarksOf(said[n]) \subseteq UNION {MarksOf(s[k]) : k \in DOMAIN s}
    <3>1. PICK k \in DOMAIN names : names[k] = n
      BY DEF Range
    <3>2. s[k] = said[n] /\ k \in DOMAIN s
      BY <1>5, <1>6, <3>1
    <3> QED BY <3>2
  <2> QED BY <2>1, <2>2 DEF Due
<1> QED BY <1>3, <1>8, <1>9

(* The default name of a select option, in the order of precedence.          *)
LEMMA MinIs ==
    ASSUME NEW S, S \subseteq Int, NEW m \in S, \A y \in S : m <= y
    PROVE  Min(S) = m
<1>1. \A x \in S : (\A y \in S : x <= y) => x = m
  OBVIOUS
<1> QED BY <1>1 DEF Min

(* Nothing is below the least.                                               *)
LEMMA LeastBelow ==
    ASSUME NEW T, T \subseteq Nat, T # {}, NEW y \in T
    PROVE  Min(T) <= y
<1>1. PICK x \in T : \A z \in T : x <= z
  <2>1. PICK x \in T : \A z \in T : ~(<<z, x>> \in OpToRel(<, Nat))
    BY NatLessThanWellFounded, WFMin
  <2>2. ASSUME NEW z \in T PROVE x <= z
    <3>1. <<z, x>> \in Nat \X Nat /\ <<z, x>>[1] = z /\ <<z, x>>[2] = x
      OBVIOUS
    <3>2. OpToRel(<, Nat) = {ss \in Nat \X Nat : ss[1] < ss[2]}
      BY DEF OpToRel
    <3>3. <<z, x>> \notin {ss \in Nat \X Nat : ss[1] < ss[2]}
      BY <2>1, <3>2, Zenon
    <3>4. ~(z < x)
      BY <3>1, <3>3
    <3> QED BY <3>4
  <2> QED BY <2>2
<1>2. T \subseteq Int
  OBVIOUS
<1>3. Min(T) = x
  BY <1>1, <1>2, MinIs
<1> QED BY <1>1, <1>3

(* The first of two names that is not empty.                                 *)
LEMMA FirstOfTwo ==
    ASSUME NEW a, NEW b
    PROVE  FirstNonEmpty(<<a, b>>) = IF a = "" THEN b ELSE a
<1> DEFINE s == <<a, b>>
           given == {i \in DOMAIN s : s[i] # ""}
<1>1. DOMAIN s = 1..2 /\ s[1] = a /\ s[2] = b
  OBVIOUS
<1>2. FirstNonEmpty(s) = IF given = {} THEN "" ELSE s[Min(given)]
  BY DEF FirstNonEmpty
<1>3. \A i : i \in given <=> (i \in 1..2 /\ s[i] # "")
  BY <1>1
<1>4. \A i : i \in 1..2 <=> (i = 1 \/ i = 2)
  OBVIOUS
<1> HIDE DEF given, s
<1>5. 1 \in given <=> a # ""
  BY <1>1, <1>3, <1>4
<1>6. 2 \in given <=> b # ""
  BY <1>1, <1>3, <1>4
<1>7. \A y \in given : y = 1 \/ y = 2
  BY <1>3, <1>4
<1>8. given \subseteq Int /\ \A y \in given : 1 <= y
  BY <1>7
<1>9. CASE a # ""
  <2>1. Min(given) = 1
    BY <1>5, <1>8, <1>9, MinIs
  <2> QED BY <1>1, <1>2, <1>5, <1>9, <2>1 DEF s
<1>10. CASE a = "" /\ b # ""
  <2>1. given = {2}
    BY <1>5, <1>6, <1>7, <1>10
  <2>2. 2 \in given /\ \A y \in given : 2 <= y
    BY <2>1
  <2>3. Min(given) = 2
    BY <1>8, <2>2, MinIs
  <2> QED BY <1>1, <1>2, <1>10, <2>2, <2>3 DEF s
<1>11. CASE a = "" /\ b = ""
  <2>1. given = {}
    BY <1>5, <1>6, <1>7, <1>11
  <2> QED BY <1>2, <1>11, <2>1 DEF s
<1> QED BY <1>9, <1>10, <1>11

(* To be contained in a sequence is to be one of its items.                  *)
LEMMA HasContains ==
    ASSUME NEW W, NEW s \in Seq(W), NEW x
    PROVE  Contains(s, x) <=> x \in Range(s)
BY DEF Contains, Range

(* The documents' precedence picks the cases the code chooses.               *)
LEMMA PickedIsChosen ==
    ASSUME NEW opt, opt # Null, OptionTyped(opt), NEW name, NEW req
    PROVE  /\ opt.type = "checkbox" => Picked(opt, name, req) = ChosenCases(opt, name, req)
           /\ opt.type \in {"select", "switch"} /\ ~Refused(opt, name, req) =>
                 Picked(opt, name, req) = ChosenCases(opt, name, req)
           /\ opt.type \in {"select", "switch"} /\ opt.cases # <<>> =>
                 (Refused(opt, name, req) <=> Picked(opt, name, req) = {})
<1>1. IsSeq(opt.cases) /\ (opt.default_case.t \in {"text", "list"} => IsSeq(opt.default_case.v))
  BY DEF OptionTyped
<1>2. DOMAIN opt.cases = 1..Len(opt.cases) /\ Len(opt.cases) \in Nat
  BY <1>1, PositionsOf
<1>3. ASSUME opt.type = "checkbox" PROVE Picked(opt, name, req) = ChosenCases(opt, name, req)
  <2> DEFINE ticked == IF name \in DOMAIN req.user /\ "cases" \in DOMAIN req.user[name]
                       THEN {Trim(c) : c \in Range(req.user[name].cases)} \ {""} ELSE {}
             default == getDefaultCaseList(opt.default_case)
  <2>1. Picked(opt, name, req) = {i \in DOMAIN opt.cases : IF ticked # {} THEN opt.cases[i].name \in ticked
                                                          ELSE Contains(default, opt.cases[i].name)}
    BY <1>3 DEF Picked
  <2>2. PICK W : default \in Seq(W)
    BY <1>1, DefaultCaseNames
  <2>3. ChosenCases(opt, name, req) = {i \in DOMAIN opt.cases : opt.cases[i].name \in Checked(opt, name, req)}
    BY <1>3 DEF ChosenCases, IsSelect, CheckedCases
  <2>4. Checked(opt, name, req) = IF ticked = {} THEN Range(default) ELSE ticked
    BY DEF Checked, Chose
  <2> HIDE DEF ticked, default
  <2>5. \A x : Contains(default, x) <=> x \in Range(default)
    BY <2>2, HasContains
  <2> QED BY <2>1, <2>3, <2>4, <2>5
<1>4. ASSUME opt.type \in {"select", "switch"}
      PROVE  /\ ~Refused(opt, name, req) => Picked(opt, name, req) = ChosenCases(opt, name, req)
             /\ opt.cases # <<>> => (Refused(opt, name, req) <=> Picked(opt, name, req) = {})
  <2> DEFINE pick == IF name \in DOMAIN req.user /\ "case" \in DOMAIN req.user[name]
                     THEN req.user[name].case ELSE FirstNonEmpty(<<getDefaultCaseFirst(opt.default_case), opt.default>>)
             hits == {i \in DOMAIN opt.cases : opt.cases[i].name = NameSelected(opt, name, req)}
  <2>1. Picked(opt, name, req) = {i \in DOMAIN opt.cases :
                                   IF pick = "" THEN i = 1
                                   ELSE opt.cases[i].name = pick /\ \A j \in 1..(i - 1) : opt.cases[j].name # pick}
    BY <1>4 DEF Picked
  <2>2. NameSelected(opt, name, req) = IF pick = "" /\ opt.cases # <<>> THEN opt.cases[1].name ELSE pick
    <3> DEFINE first == getDefaultCaseFirst(opt.default_case)
    <3>1. FirstNonEmpty(<<first, opt.default>>) = IF first = "" THEN opt.default ELSE first
      BY FirstOfTwo
    <3> HIDE DEF first
    <3>2. pick = IF name \in DOMAIN req.user /\ "case" \in DOMAIN req.user[name]
                 THEN req.user[name].case ELSE IF first = "" THEN opt.default ELSE first
      BY <3>1 DEF first
    <3>3. NameSelected(opt, name, req) =
              LET default == IF first = "" THEN opt.default ELSE first
                  chosen == IF name \in DOMAIN req.user /\ "case" \in DOMAIN req.user[name]
                            THEN req.user[name].case ELSE default
              IN  IF chosen = "" /\ opt.cases # <<>> THEN opt.cases[1].name ELSE chosen
      BY DEF NameSelected, Chose, first
    <3> HIDE DEF pick
    <3> QED BY <3>2, <3>3
  <2>3. ChosenCases(opt, name, req) = IF hits = {} THEN {} ELSE {Min(hits)}
    BY <1>4 DEF ChosenCases, IsSelect, SelectedCases
  <2>4. Refused(opt, name, req) <=> opt.cases # <<>> /\ hits = {}
    BY <1>4, <2>3 DEF Refused, IsSelect, ChosenCases
  <2>5. \A i : i \in hits <=> i \in DOMAIN opt.cases /\ opt.cases[i].name = NameSelected(opt, name, req)
    OBVIOUS
  <2>6. opt.cases # <<>> <=> 1 \in DOMAIN opt.cases
    <3>1. opt.cases \in Seq(Range(opt.cases))
      BY <1>1 DEF IsSeq
    <3> QED BY <1>2, <3>1
  <2> HIDE DEF pick, hits
  <2>7. hits \subseteq Int /\ \A i \in hits : i \in 1..Len(opt.cases)
    BY <1>2, <2>5
  <2>8. ASSUME hits # {}
        PROVE  /\ Min(hits) \in hits
               /\ \A y \in hits : Min(hits) <= y
    <3>1. hits \subseteq Nat
      BY <2>7
    <3>2. Min(hits) \in hits
      BY <2>8, <3>1, Least
    <3>3. \A y \in hits : Min(hits) <= y
      BY <2>8, <3>1, LeastBelow
    <3> QED BY <3>2, <3>3
  <2>9. CASE pick = "" /\ opt.cases # <<>>
    <3>1. 1 \in hits /\ \A y \in hits : 1 <= y
      <4>1. NameSelected(opt, name, req) = opt.cases[1].name /\ 1 \in DOMAIN opt.cases
        BY <2>2, <2>6, <2>9
      <4>2. 1 \in hits
        BY <2>5, <4>1
      <4>3. \A y \in hits : 1 <= y
        BY <2>7
      <4> QED BY <4>2, <4>3
    <3>2. Min(hits) = 1
      BY <2>7, <3>1, MinIs
    <3>3. Picked(opt, name, req) = {1}
      BY <2>1, <2>6, <2>9
    <3> QED BY <2>3, <2>4, <3>1, <3>2, <3>3
  <2>10. CASE pick # "" /\ hits # {}
    <3> DEFINE m == Min(hits)
    <3>1. m \in hits /\ \A y \in hits : m <= y
      BY <2>8, <2>10
    <3> HIDE DEF m
    <3>2. m \in 1..Len(opt.cases) /\ opt.cases[m].name = pick /\ \A i \in 1..Len(opt.cases) : opt.cases[i].name = pick => m <= i
      BY <1>2, <2>2, <2>5, <2>10, <3>1
    <3>3. \A j \in 1..(m - 1) : opt.cases[j].name # pick
      BY <1>2, <3>2
    <3>4. m \in Picked(opt, name, req)
      BY <1>2, <2>1, <2>10, <3>2, <3>3
    <3>5. ASSUME NEW i \in Picked(opt, name, req) PROVE i = m
      <4>1. /\ i \in 1..Len(opt.cases)
            /\ opt.cases[i].name = pick
            /\ \A j \in 1..(i - 1) : opt.cases[j].name # pick
        BY <1>2, <2>1, <2>10
      <4>2. ~(m < i)
        BY <1>2, <3>2, <4>1
      <4> QED BY <1>2, <3>2, <4>1, <4>2
    <3>6. Picked(opt, name, req) = {m}
      BY <3>4, <3>5
    <3> QED BY <2>3, <2>4, <2>10, <3>6 DEF m
  <2>11. CASE pick # "" /\ hits = {}
    <3>1. \A i \in DOMAIN opt.cases : opt.cases[i].name # pick
      BY <2>2, <2>5, <2>11
    <3>2. Picked(opt, name, req) = {}
      BY <2>1, <2>11, <3>1
    <3> QED BY <2>3, <2>4, <2>11, <3>2
  <2>12. CASE opt.cases = <<>>
    <3>1. DOMAIN opt.cases = {} /\ hits = {}
      BY <1>2, <2>5, <2>6, <2>12
    <3>2. Picked(opt, name, req) = {}
      BY <2>1, <3>1
    <3> QED BY <2>3, <2>12, <3>1, <3>2
  <2> QED BY <2>9, <2>10, <2>11, <2>12
<1> QED BY <1>3, <1>4

(* A single contribution.                                                    *)
LEMMA OneMark ==
    ASSUME NEW c
    PROVE  IsSeq(<<c>>) /\ Range(<<c>>) = {c} /\ MarksOf(<<c>>) = Marks(c)
<1>1. <<c>> \in Seq({c})
  OBVIOUS
<1>2. Range(<<c>>) = {c}
  BY DEF Range
<1> QED BY <1>1, <1>2, SeqIsSeq DEF MarksOf

(* A contribution of fields amounts to their nodes,                          *)
LEMMA SayingMarks ==
    ASSUME NEW over
    PROVE  Marks(Saying(over)) = NodeMarks(over)
BY DEF Marks, Saying

(* and a refusal to a refusal.                                               *)
LEMMA RefusalMarks == Marks(Refusal) = {<<>>}
BY DEF Marks, Refusal

(* Two sequences, one after the other,                                       *)
LEMMA JoinedRange ==
    ASSUME NEW s, NEW t, IsSeq(s), IsSeq(t)
    PROVE  IsSeq(s \o t) /\ Range(s \o t) = Range(s) \cup Range(t)
<1> DEFINE U == Range(s) \cup Range(t)
<1>1. s \in Seq(U) /\ t \in Seq(U)
  <2>1. s \in Seq(Range(s)) /\ t \in Seq(Range(t))
    BY DEF IsSeq
  <2>2. Range(s) \subseteq U /\ Range(t) \subseteq U
    OBVIOUS
  <2> HIDE DEF U
  <2> QED BY <2>1, <2>2
<1> HIDE DEF U
<1>2. s \o t \in Seq(U) /\ Range(s \o t) = Range(s) \cup Range(t)
  BY <1>1, Joined
<1> QED BY <1>2, SeqIsSeq

(* amount to both.                                                           *)
LEMMA JoinedMarks ==
    ASSUME NEW s, NEW t, IsSeq(s), IsSeq(t)
    PROVE  IsSeq(s \o t) /\ MarksOf(s \o t) = MarksOf(s) \cup MarksOf(t)
<1>1. IsSeq(s \o t) /\ Range(s \o t) = Range(s) \cup Range(t)
  BY JoinedRange
<1>2. MarksOf(s \o t) = MarksOf(s) \cup MarksOf(t)
  BY <1>1 DEF MarksOf
<1> QED BY <1>1, <1>2

(* What an option amounts to, told by the code: nothing if it is not active, *)
(* its own nodes if it takes inputs, a refusal, or its chosen cases.         *)
OptionMarks(said, name, req) ==
    IF ~IsActive(name, req) THEN {}
    ELSE IF pi.option[name].type = "input" THEN NodeMarks(pi.option[name].over)
    ELSE IF Refused(pi.option[name], name, req) THEN {<<>>}
    ELSE UNION {OfCase(said, pi.option[name].cases[i]) : i \in ChosenCases(pi.option[name], name, req)}

(* The cases chosen are cases of the option.                                 *)
LEMMA ChosenAreCases ==
    ASSUME NEW opt, IsSeq(opt.cases), NEW name, NEW req
    PROVE  ChosenCases(opt, name, req) \subseteq DOMAIN opt.cases
<1> DEFINE hits == {i \in DOMAIN opt.cases : opt.cases[i].name = NameSelected(opt, name, req)}
<1>1. DOMAIN opt.cases \subseteq Nat
  BY PositionsOf
<1>2. hits # {} => Min(hits) \in hits
  BY <1>1, Least
<1>3. SelectedCases(opt, name, req) \subseteq DOMAIN opt.cases
  BY <1>2 DEF SelectedCases
<1>4. CheckedCases(opt, name, req) \subseteq DOMAIN opt.cases
  BY DEF CheckedCases
<1> QED BY <1>3, <1>4 DEF ChosenCases

(* An option's documented contribution amounts to what the code makes of it. *)
LEMMA ContributionMarks ==
    ASSUME Typed(pi), NEW STATE said, NEW STATE req, NEW STATE name, name \in DOMAIN pi.option,
           \A n \in Kids(pi, name) \cap DOMAIN said : IsSeq(said[n])
    PROVE  /\ IsSeq(Contribution(said, name, req))
           /\ MarksOf(Contribution(said, name, req)) = OptionMarks(said, name, req)
<1> DEFINE opt == pi.option[name]
           C == Contribution(said, name, req)
           picked == Picked(opt, name, req)
<1>1. GetOption(pi, name) = opt /\ OptionTyped(opt)
  BY DEF GetOption, Typed
<1>2. CASE ~IsActive(name, req)
  <2>1. C = <<>>
    BY <1>1, <1>2 DEF Contribution, IsActive
  <2>2. IsSeq(<<>>) /\ MarksOf(<<>>) = {}
    <3>1. <<>> \in Seq(Range(<<>>)) /\ Range(<<>>) = {}
      BY DEF Range
    <3> QED BY <3>1 DEF IsSeq, MarksOf
  <2> QED BY <1>2, <2>1, <2>2 DEF OptionMarks
<1>3. CASE IsActive(name, req) /\ opt.type = "input"
  <2>1. C = <<Saying(Filled(opt, name, req))>>
    BY <1>1, <1>3 DEF Contribution, IsActive
  <2>2. DOMAIN Filled(opt, name, req) = DOMAIN opt.over
    BY DEF Filled
  <2>3. NodeMarks(Filled(opt, name, req)) = NodeMarks(opt.over)
    BY <2>2 DEF NodeMarks
  <2>4. OptionMarks(said, name, req) = NodeMarks(opt.over)
    BY <1>3 DEF OptionMarks
  <2> QED BY <2>1, <2>3, <2>4, OneMark, SayingMarks
<1>4. CASE IsActive(name, req) /\ opt.type # "input"
  <2>1. opt # Null
    BY <1>1, <1>4 DEF IsActive
  <2> DEFINE unknown == opt.type \notin {"select", "switch", "checkbox", "input"}
             s == [i \in DOMAIN opt.cases |->
                     IF i \notin picked THEN <<>>
                     ELSE <<Saying(opt.cases[i].over)>> \o InTurn(said, opt.cases[i].nested)]
  <2>2. /\ opt.type = "checkbox" => picked = ChosenCases(opt, name, req)
        /\ opt.type \in {"select", "switch"} /\ ~Refused(opt, name, req) => picked = ChosenCases(opt, name, req)
        /\ opt.type \in {"select", "switch"} /\ opt.cases # <<>> => (Refused(opt, name, req) <=> picked = {})
    BY <1>1, <2>1, PickedIsChosen
  <2>3. C = IF unknown \/ (opt.type # "checkbox" /\ opt.cases # <<>> /\ picked = {}) THEN <<Refusal>>
            ELSE FlattenSeq(s)
    <3> HIDE DEF picked
    <3> QED BY <1>1, <1>4 DEF Contribution, IsActive, picked
  <2> HIDE DEF picked, s
  <2>4. Refused(opt, name, req) <=> unknown \/ (opt.type # "checkbox" /\ opt.cases # <<>> /\ picked = {})
    BY <1>4, <2>2 DEF Refused, IsSelect
  <2>5. CASE Refused(opt, name, req)
    <3>1. C = <<Refusal>>
      BY <2>3, <2>4, <2>5
    <3>2. OptionMarks(said, name, req) = {<<>>}
      BY <1>4, <2>5 DEF OptionMarks
    <3> QED BY <3>1, <3>2, OneMark, RefusalMarks
  <2>6. CASE ~Refused(opt, name, req)
    <3>1. C = FlattenSeq(s)
      BY <2>3, <2>4, <2>6
    <3>2. picked = ChosenCases(opt, name, req)
      <4>1. ~unknown
        BY <2>4, <2>6
      <4> QED BY <1>4, <2>2, <2>6, <4>1
    <3>3. IsSeq(opt.cases) /\ DOMAIN opt.cases = 1..Len(opt.cases) /\ Len(opt.cases) \in Nat
      BY <1>1, <2>1, PositionsOf DEF OptionTyped
    <3>4. picked \subseteq DOMAIN opt.cases
      BY <3>2, <3>3, ChosenAreCases
    <3>5. s = [i \in 1..Len(opt.cases) |-> s[i]]
      BY <3>3 DEF s
    <3>6. IsSeq(s) /\ DOMAIN s = DOMAIN opt.cases
      BY <3>3, <3>5, FunIsSeq
    <3>7. ASSUME NEW i \in DOMAIN opt.cases
          PROVE  /\ IsSeq(s[i])
                 /\ MarksOf(s[i]) = IF i \in picked THEN OfCase(said, opt.cases[i]) ELSE {}
      <4> DEFINE c == opt.cases[i]
      <4>1. CASE i \notin picked
        <5>1. s[i] = <<>>
          BY <4>1 DEF s
        <5>2. IsSeq(<<>>) /\ MarksOf(<<>>) = {}
          <6>1. <<>> \in Seq(Range(<<>>)) /\ Range(<<>>) = {}
            BY DEF Range
          <6> QED BY <6>1 DEF IsSeq, MarksOf
        <5> QED BY <4>1, <5>1, <5>2
      <4>2. CASE i \in picked
        <5>1. s[i] = <<Saying(c.over)>> \o InTurn(said, c.nested)
          BY <4>2 DEF s
        <5>2. c \in Range(opt.cases) /\ IsSeq(c.nested)
          BY <1>1, <2>1 DEF OptionTyped, Range
        <5>3. Range(c.nested) \subseteq Kids(pi, name)
          BY <2>1, <5>2 DEF Kids, Nests
        <5>4. IsSeq(InTurn(said, c.nested)) /\ MarksOf(InTurn(said, c.nested)) = Due(said, c.nested)
          BY <5>2, <5>3, InTurnMarks
        <5>5. IsSeq(<<Saying(c.over)>>) /\ MarksOf(<<Saying(c.over)>>) = NodeMarks(c.over)
          BY OneMark, SayingMarks
        <5> HIDE DEF c
        <5>6. IsSeq(s[i]) /\ MarksOf(s[i]) = NodeMarks(c.over) \cup Due(said, c.nested)
          BY <5>1, <5>4, <5>5, JoinedMarks
        <5> QED BY <4>2, <5>6 DEF OfCase, c
      <4> QED BY <4>1, <4>2
    <3>8. IsSeq(FlattenSeq(s)) /\ MarksOf(FlattenSeq(s)) = UNION {MarksOf(s[i]) : i \in DOMAIN s}
      BY <3>6, <3>7, Flattened, FlattenMarks
    <3>9. UNION {MarksOf(s[i]) : i \in DOMAIN s} = UNION {OfCase(said, opt.cases[i]) : i \in picked}
      BY <3>4, <3>6, <3>7
    <3>10. OptionMarks(said, name, req) = UNION {OfCase(said, opt.cases[i]) : i \in picked}
      BY <1>4, <2>6, <3>2 DEF OptionMarks
    <3> QED BY <3>1, <3>8, <3>9, <3>10
  <2> QED BY <2>5, <2>6
<1> QED BY <1>2, <1>3, <1>4

(* The contributions of a request: what each of them amounts to.             *)
LEMMA Amounts ==
    ASSUME Typed(pi), Acyclic(pi), NEW STATE req, NEW STATE said, said = Contributed(req)
    PROVE  /\ DOMAIN said = DOMAIN pi.option
           /\ \A n \in DOMAIN said : IsSeq(said[n]) /\ MarksOf(said[n]) = OptionMarks(said, n, req)
<1>1. DOMAIN said = DOMAIN pi.option /\ \A n \in DOMAIN said : said[n] = Contribution(said, n, req)
  BY Contributing
<1> DEFINE X == {n \in DOMAIN pi.option : ~IsSeq(said[n])}
<1>2. X = {}
  <2> SUFFICES ASSUME X # {} PROVE FALSE
    OBVIOUS
  <2>1. PICK m \in X : Kids(pi, m) \cap X = {}
    <3>1. X \subseteq DOMAIN pi.option
      OBVIOUS
    <3> HIDE DEF X
    <3> QED BY <3>1, LeastOption
  <2>2. \A n \in Kids(pi, m) \cap DOMAIN said : IsSeq(said[n])
    BY <1>1, <2>1
  <2>3. m \in DOMAIN pi.option
    OBVIOUS
  <2>4. IsSeq(Contribution(said, m, req))
    BY <2>2, <2>3, ContributionMarks
  <2> QED BY <1>1, <2>3, <2>4
<1>3. \A n \in DOMAIN said : IsSeq(said[n])
  BY <1>1, <1>2
<1>4. ASSUME NEW n \in DOMAIN said PROVE MarksOf(said[n]) = OptionMarks(said, n, req)
  <2>1. MarksOf(Contribution(said, n, req)) = OptionMarks(said, n, req)
    BY <1>1, <1>3, ContributionMarks
  <2> QED BY <1>1, <2>1
<1> QED BY <1>1, <1>3, <1>4

-------------------------------------------------------------------------------
(* Where the options of a request come from.                                 *)

(* The lists of an interface that only its main file fills.                  *)
ListsTyped(p) ==
    /\ IsSeq(p.global_option) /\ IsSeq(p.controllers) /\ IsSeq(p.resources)
    /\ \A x \in Range(p.controllers) \cup Range(p.resources) : IsSeq(x.option)

(* Imports leave them alone.                                                 *)
LEMMA ListsKept ==
    ASSUME NEW dir_, Main \in DOMAIN dir_, IsSeq(dir_[Main].content.import)
    PROVE  /\ LoadInterface(dir_).global_option = dir_[Main].content.global_option
           /\ LoadInterface(dir_).controllers = dir_[Main].content.controllers
           /\ LoadInterface(dir_).resources = dir_[Main].content.resources
<1> DEFINE c == dir_[Main].content
           import == c.import
           N == Len(import)
           fields == {"tasks", "option", "presets", "global_option", "controllers", "resources"}
           Keeps(p) == /\ fields \subseteq DOMAIN p
                       /\ p.global_option = c.global_option /\ p.controllers = c.controllers /\ p.resources = c.resources
<1>1. import \in Seq(Range(import))
  BY DEF IsSeq
<1>2. PICK f : /\ LoadInterface(dir_) = f[N] /\ f[0] = MainInterface(c)
               /\ \A k \in 1..N : f[k] = loadImportedFile(dir_, f[k - 1], import[k])
  BY <1>1, LoadDefined
<1> DEFINE S == {k \in 0..N : Keeps(f[k])}
<1>3. N \in Nat
  BY <1>1
<1>4. 0 \in S
  <2>1. Keeps(MainInterface(c))
    BY DEF MainInterface
  <2> HIDE DEF Keeps
  <2> QED BY <1>2, <1>3, <2>1
<1>5. ASSUME NEW k \in 1..N, k - 1 \in S PROVE k \in S
  <2> DEFINE p == f[k - 1]
  <2>1. Keeps(p) /\ f[k] = loadImportedFile(dir_, p, import[k])
    BY <1>2, <1>5
  <2> HIDE DEF p
  <2>2. CASE ~Unmarshals(dir_, import[k])
    <3>1. f[k] = p
      BY <2>1, <2>2 DEF loadImportedFile
    <3> QED BY <1>3, <2>1, <3>1
  <2>3. CASE Unmarshals(dir_, import[k])
    <3> DEFINE t == mergeTasksByName(p.tasks, dir_[import[k]].content.tasks)
               o == Over(NotNull(dir_[import[k]].content.option), p.option)
               q == mergePresetsByName(p.presets, dir_[import[k]].content.presets)
    <3>1. f[k] = [p EXCEPT !.tasks = t, !.option = o, !.presets = q]
      BY <2>1, <2>3 DEF loadImportedFile
    <3> HIDE DEF t, o, q
    <3>2. Keeps(f[k])
      BY <2>1, <3>1
    <3> HIDE DEF Keeps
    <3> QED BY <1>3, <3>2
  <2> QED BY <2>2, <2>3
<1>6. N \in S
  <2> HIDE DEF S, N
  <2> QED BY <1>3, <1>4, <1>5, UpTo
<1>7. Keeps(f[N])
  <2> HIDE DEF Keeps
  <2> QED BY <1>6
<1> QED BY <1>2, <1>7

(* A loaded interface is one whose compilations end.                         *)
Ready == phase \in {"loaded", "offered"} => ListsTyped(pi) /\ Acyclic(pi)

(* Every action keeps it, if no directory holds options that name each other.*)
LEMMA NextReady == NoCycles /\ Shape /\ Ready /\ [Next]_vars => Ready'
<1> SUFFICES ASSUME NoCycles, Shape, Ready, [Next]_vars PROVE Ready'
  OBVIOUS
<1>1. CASE Load
  <2>1. CASE Loads(dir)
    <3>1. Main \in DOMAIN dir /\ dir \in Dirs
      BY <2>1 DEF Loads, Unmarshals, Shape
    <3> DEFINE c == dir[Main].content
    <3>2. /\ IsSeq(c.import) /\ IsSeq(c.global_option) /\ IsSeq(c.controllers) /\ IsSeq(c.resources)
          /\ \A x \in Range(c.controllers) \cup Range(c.resources) : IsSeq(x.option)
      BY <3>1, DirsAssumption
    <3> DEFINE p == LoadInterface(dir)
    <3>3. p.global_option = c.global_option /\ p.controllers = c.controllers /\ p.resources = c.resources
      BY <3>1, <3>2, ListsKept
    <3>4. Acyclic(p)
      BY <2>1, <3>1 DEF NoCycles
    <3>5. pi' = p
      BY <1>1, <2>1 DEF Load
    <3> HIDE DEF p, c
    <3>6. ListsTyped(p)
      BY <3>2, <3>3 DEF ListsTyped
    <3>7. ListsTyped(pi') /\ Acyclic(pi')
      BY <3>4, <3>5, <3>6
    <3> QED BY <3>7 DEF Ready
  <2>2. CASE ~Loads(dir)
    BY <1>1, <2>2 DEF Load, Ready
  <2> QED BY <2>1, <2>2
<1>2. CASE SendCapabilities
  BY <1>2 DEF SendCapabilities, Ready
<1>3. ASSUME NEW req \in Requests, RunTaskItem(req) PROVE Ready'
  BY <1>3 DEF RunTaskItem, Compile, Ready
<1>4. CASE CompileStep
  BY <1>4, StepShape DEF Ready
<1>5. CASE UNCHANGED vars
  BY <1>5 DEF Ready, vars
<1> QED BY <1>1, <1>2, <1>3, <1>4, <1>5 DEF Next, Fatal

(* A name that is found is the name of an item.                              *)
LEMMA FoundAt ==
    ASSUME NEW items, IsSeq(items), NEW name, IndexOf(items, name) # 0
    PROVE  IndexOf(items, name) \in DOMAIN items
<1> DEFINE same == {k \in DOMAIN items : items[k].name = name}
<1>1. same \subseteq Nat /\ same \subseteq DOMAIN items
  BY PositionsOf
<1>2. IndexOf(items, name) = IF same = {} THEN 0 ELSE Min(same)
  BY DEF IndexOf
<1> HIDE DEF same
<1>3. same # {}
  BY <1>2
<1>4. Min(same) \in same
  BY <1>1, <1>3, Least
<1> QED BY <1>1, <1>2, <1>3, <1>4

(* The options of a controller or a resource, if there is one of that name.  *)
LEMMA OptionsSeq ==
    ASSUME NEW items, IsSeq(items), \A x \in Range(items) : IsSeq(x.option), NEW name
    PROVE  IsSeq(OptionsOf(items, name))
<1>1. CASE IndexOf(items, name) = 0
  <2>1. OptionsOf(items, name) = <<>>
    BY <1>1 DEF OptionsOf
  <2>2. <<>> \in Seq({})
    OBVIOUS
  <2> QED BY <2>1, <2>2, SeqIsSeq
<1>2. CASE IndexOf(items, name) # 0
  <2>1. items[IndexOf(items, name)] \in Range(items)
    BY <1>2, FoundAt DEF Range
  <2> QED BY <1>2, <2>1 DEF OptionsOf
<1> QED BY <1>1, <1>2

(* The sources of a request, in their order.                                 *)
LEMMA SourcesSeq ==
    ASSUME Typed(pi), ListsTyped(pi), NEW STATE req, IndexOf(pi.tasks, req.task) # 0
    PROVE  IsSeq(Sources(req))
<1>1. IsSeq(TaskOf(req).option)
  <2>1. IndexOf(pi.tasks, req.task) \in DOMAIN pi.tasks
    BY FoundAt DEF Typed
  <2>2. TaskOf(req) \in Range(pi.tasks)
    BY <2>1 DEF TaskOf, Range
  <2> QED BY <2>2 DEF Typed
<1> DEFINE a == pi.global_option
           b == OptionsOf(pi.resources, req.resource)
           c == OptionsOf(pi.controllers, req.controller)
           d == TaskOf(req).option
<1>2. IsSeq(a) /\ IsSeq(b) /\ IsSeq(c) /\ IsSeq(d)
  BY <1>1, OptionsSeq DEF ListsTyped
<1>3. Sources(req) = ((a \o b) \o c) \o d
  BY DEF Sources
<1> HIDE DEF a, b, c, d
<1>4. IsSeq(a \o b)
  BY <1>2, JoinedRange
<1>5. IsSeq((a \o b) \o c)
  BY <1>2, <1>4, JoinedRange
<1>6. IsSeq(((a \o b) \o c) \o d)
  BY <1>2, <1>5, JoinedRange
<1> QED BY <1>3, <1>6

(* Every node that some contribution sets is set.                            *)
LEMMA LastWinsNodes ==
    ASSUME NEW cs
    PROVE  DOMAIN LastWins(cs) = UNION {DOMAIN c : c \in Range(cs)}
BY DEF LastWins

(* What a request amounts to, and what the documents say of it.              *)
Requested(req) == NodeMarks(TaskOf(req).over) \cup Due(Contributed(req), Sources(req))

(* The documents refuse a request, or set its nodes, as it amounts to.       *)
LEMMA DocumentedMarks ==
    ASSUME Typed(pi), ListsTyped(pi), Acyclic(pi), NEW STATE req, IndexOf(pi.tasks, req.task) # 0
    PROVE  /\ DocumentedFailure(req) <=> <<>> \in Requested(req)
           /\ DocumentedFailure(req) => DOMAIN Documented(req) = {}
           /\ ~DocumentedFailure(req) => \A n : n \in DOMAIN Documented(req) <=> <<n>> \in Requested(req)
<1> DEFINE said == Contributed(req)
           order == Order(req)
           task == TaskOf(req).over
<1>1. \A n \in DOMAIN said : IsSeq(said[n])
  BY Amounts
<1>2. order = InTurn(said, Sources(req))
  BY DEF Order, Sources
<1>3. IsSeq(Sources(req))
  BY SourcesSeq
<1>4. IsSeq(order) /\ MarksOf(order) = Due(said, Sources(req))
  BY <1>1, <1>2, <1>3, InTurnMarks
<1>5. Requested(req) = NodeMarks(task) \cup MarksOf(order)
  BY <1>4 DEF Requested
<1>6. DocumentedFailure(req) <=> \E c \in Range(order) : c.refused
  BY DEF DocumentedFailure
<1>7. Documented(req) = IF DocumentedFailure(req) THEN <<>>
                        ELSE LastWins(<<task>> \o [i \in DOMAIN order |-> order[i].over])
  BY DEF Documented
<1> HIDE DEF said, order, task
<1>8. <<>> \in MarksOf(order) <=> \E c \in Range(order) : c.refused
  BY DEF MarksOf, Marks, NodeMarks
<1>9. <<>> \notin NodeMarks(task)
  BY DEF NodeMarks
<1>10. DocumentedFailure(req) <=> <<>> \in Requested(req)
  BY <1>5, <1>6, <1>8, <1>9
<1>11. DOMAIN <<>> = {}
  OBVIOUS
<1>12. ASSUME ~DocumentedFailure(req)
       PROVE  \A n : n \in DOMAIN Documented(req) <=> <<n>> \in Requested(req)
  <2> DEFINE overs == [i \in DOMAIN order |-> order[i].over]
             all == <<task>> \o overs
  <2>1. DOMAIN order = 1..Len(order) /\ Len(order) \in Nat
    BY <1>4, PositionsOf
  <2>2. overs = [i \in 1..Len(order) |-> overs[i]] /\ \A i \in DOMAIN order : overs[i] = order[i].over
    BY <2>1
  <2> HIDE DEF overs
  <2>3. IsSeq(overs) /\ DOMAIN overs = DOMAIN order
    BY <2>1, <2>2, FunIsSeq
  <2>4. IsSeq(<<task>>) /\ Range(<<task>>) = {task}
    BY OneMark
  <2>5. Range(all) = {task} \cup Range(overs)
    BY <2>3, <2>4, JoinedRange
  <2>6. DOMAIN Documented(req) = UNION {DOMAIN c : c \in Range(all)}
    <3>1. Documented(req) = LastWins(all)
      BY <1>7, <1>12 DEF overs
    <3> HIDE DEF all
    <3> QED BY <3>1, LastWinsNodes
  <2> HIDE DEF all
  <2>7. \A n : n \in DOMAIN Documented(req) <=> (n \in DOMAIN task \/ \E i \in DOMAIN order : n \in DOMAIN order[i].over)
    <3>1. \A n : n \in DOMAIN Documented(req) <=> \E c \in Range(all) : n \in DOMAIN c
      BY <2>6
    <3>2. \A c : c \in Range(overs) <=> \E i \in DOMAIN order : c = order[i].over
      BY <2>2, <2>3 DEF Range
    <3>3. \A n : (\E c \in Range(all) : n \in DOMAIN c) <=>
                     (n \in DOMAIN task \/ \E c \in Range(overs) : n \in DOMAIN c)
      BY <2>5
    <3> QED BY <3>1, <3>2, <3>3
  <2>8. \A i \in DOMAIN order : order[i] \in Range(order) /\ ~order[i].refused
    BY <1>6, <1>12 DEF Range
  <2>9. \A n : <<n>> \in MarksOf(order) <=> \E i \in DOMAIN order : n \in DOMAIN order[i].over
    <3>1. \A c \in Range(order) : ~c.refused
      BY <1>6, <1>12
    <3>2. \A x : x \in MarksOf(order) <=> \E c \in Range(order) : x \in NodeMarks(c.over)
      BY <3>1 DEF MarksOf, Marks
    <3>3. \A x : x \in MarksOf(order) <=> \E i \in DOMAIN order : x \in NodeMarks(order[i].over)
      BY <3>2 DEF Range
    <3>4. \A n, o : <<n>> \in NodeMarks(o) <=> n \in DOMAIN o
      BY DEF NodeMarks
    <3> QED BY <3>3, <3>4
  <2>10. \A n : <<n>> \in NodeMarks(task) <=> n \in DOMAIN task
    BY DEF NodeMarks
  <2> QED BY <1>5, <2>7, <2>9, <2>10
<1> QED BY <1>7, <1>10, <1>11, <1>12

-------------------------------------------------------------------------------
(* What the calls under way still owe, and what they have merged already.    *)

(* What some cases of an option amount to.                                   *)
OfCases(p, said, name, cases) == UNION {OfCase(said, p.option[name].cases[i]) : i \in cases}

(* What a call has merged already, and what the options and the cases it has *)
(* still to go through will add.                                             *)
Owed(p, said, c) == NodeMarks(c.map) \cup Due(said, c.names) \cup OfCases(p, said, c.name, c.cases)

(* What some calls owe together.                                             *)
Total(p, said, cs) == UNION {Owed(p, said, c) : c \in cs}

(* A call names an option that is there, and cases it has.                   *)
Sound(p, c) ==
    /\ IsSeq(c.names)
    /\ c.cases # {} => /\ c.name \in DOMAIN p.option /\ p.option[c.name] # Null
                       /\ c.cases \subseteq DOMAIN p.option[c.name].cases

(* The innermost call and those around it.                                   *)
LEMMA CallsAround ==
    ASSUME NEW s, IsStack(s), s # <<>>
    PROVE  /\ Range(s) = Range(Front(s)) \cup {Last(s)}
           /\ \A c : Range([s EXCEPT ![Len(s)] = c]) = Range(Front(s)) \cup {c}
<1>1. PICK S : s \in Seq(S)
  BY DEF IsStack
<1>2. Len(s) \in Nat /\ Len(s) # 0 /\ DOMAIN s = 1..Len(s)
  BY <1>1
<1> DEFINE N == Len(s)
<1>3. DOMAIN Front(s) = 1..(N - 1) /\ \A k \in 1..(N - 1) : Front(s)[k] = s[k]
  BY <1>1, <1>2 DEF Front
<1>4. \A k : k \in 1..N <=> k = N \/ k \in 1..(N - 1)
  BY <1>2
<1>5. N \notin 1..(N - 1)
  BY <1>2
<1>6. DOMAIN s = 1..N /\ Last(s) = s[N]
  BY <1>2 DEF Last
<1> HIDE DEF N
<1>7. Range(s) = Range(Front(s)) \cup {Last(s)}
  BY <1>3, <1>4, <1>6 DEF Range
<1>8. ASSUME NEW c PROVE Range([s EXCEPT ![N] = c]) = Range(Front(s)) \cup {c}
  <2> DEFINE t == [s EXCEPT ![N] = c]
  <2>1. DOMAIN t = 1..N /\ t[N] = c /\ \A k \in 1..(N - 1) : t[k] = s[k]
    BY <1>4, <1>5, <1>6
  <2> HIDE DEF t
  <2>2. Range(t) = Range(Front(s)) \cup {c}
    BY <1>3, <1>4, <2>1 DEF Range
  <2> QED BY <2>2 DEF t
<1> QED BY <1>7, <1>8 DEF N

(* A call pushed on the stack joins those under way.                         *)
LEMMA PushedRange ==
    ASSUME NEW s, IsStack(s), NEW c
    PROVE  Range(Append(s, c)) = Range(s) \cup {c}
<1>1. PICK S : s \in Seq(S)
  BY DEF IsStack
<1> DEFINE N == Len(s)
           t == Append(s, c)
<1>2. N \in Nat /\ DOMAIN s = 1..N
  BY <1>1
<1>3. DOMAIN t = 1..(N + 1) /\ t[N + 1] = c /\ \A k \in 1..N : t[k] = s[k]
  BY <1>1, <1>2
<1>4. \A k : k \in 1..(N + 1) <=> k = N + 1 \/ k \in 1..N
  BY <1>2
<1> DEFINE M == N + 1
<1> HIDE DEF t, N, M
<1> QED BY <1>2, <1>3, <1>4 DEF Range, t, M

(* A merge has the nodes of both maps,                                       *)
LEMMA MergedNodes ==
    ASSUME NEW a, NEW b
    PROVE  NodeMarks(Merged(a, b)) = NodeMarks(a) \cup NodeMarks(b)
<1>1. DOMAIN Merged(a, b) = DOMAIN a \cup DOMAIN b
  BY DEF Merged, Over
<1> QED BY <1>1 DEF NodeMarks

(* and references to an override have its nodes.                             *)
LEMMA RefsNodes ==
    ASSUME NEW owner, NEW over
    PROVE  NodeMarks(Refs(owner, over)) = NodeMarks(over)
<1>1. DOMAIN Refs(owner, over) = DOMAIN over
  BY DEF Refs
<1> QED BY <1>1 DEF NodeMarks

(* Nothing more to go through, nothing more due.                             *)
LEMMA NothingDue ==
    ASSUME NEW said
    PROVE  /\ Due(said, <<>>) = {} /\ NodeMarks(<<>>) = {}
           /\ \A p, name : OfCases(p, said, name, {}) = {}
<1>1. Range(<<>>) = {} /\ DOMAIN <<>> = {}
  BY DEF Range
<1> QED BY <1>1 DEF Due, NodeMarks, OfCases

(* The names after the first.                                                *)
LEMMA TailRange ==
    ASSUME NEW s, IsSeq(s), s # <<>>
    PROVE  IsSeq(Tail(s)) /\ Range(s) = {Head(s)} \cup Range(Tail(s))
<1> DEFINE N == Len(s)
           t == Tail(s)
           S == Range(s)
<1>1. s \in Seq(S)
  BY DEF IsSeq
<1> HIDE DEF S
<1>2. N \in Nat /\ N # 0 /\ DOMAIN s = 1..N /\ t \in Seq(S) /\ Head(s) = s[1]
  BY <1>1
<1>3. DOMAIN t = 1..(N - 1) /\ \A k \in 1..(N - 1) : t[k] = s[k + 1]
  BY <1>1, <1>2
<1> HIDE DEF t, N
<1>4. \A x : x \in Range(t) <=> \E k \in 1..(N - 1) : x = s[k + 1]
  BY <1>3 DEF Range
<1>5. \A x : x \in Range(s) <=> \E k \in 1..N : x = s[k]
  BY <1>2 DEF Range
<1>6. ASSUME NEW x \in Range(s) PROVE x = s[1] \/ x \in Range(t)
  <2>1. PICK k \in 1..N : x = s[k]
    BY <1>5
  <2>2. CASE k = 1
    BY <2>1, <2>2
  <2>3. CASE k # 1
    <3>1. k - 1 \in 1..(N - 1) /\ (k - 1) + 1 = k
      BY <1>2, <2>3
    <3> QED BY <1>4, <2>1, <3>1
  <2> QED BY <2>2, <2>3
<1>7. s[1] \in Range(s)
  <2>1. 1 \in 1..N
    BY <1>2
  <2> QED BY <1>5, <2>1
<1>8. ASSUME NEW x \in Range(t) PROVE x \in Range(s)
  <2>1. PICK k \in 1..(N - 1) : x = s[k + 1]
    BY <1>4
  <2>2. k + 1 \in 1..N
    BY <1>2
  <2> QED BY <1>5, <2>1, <2>2
<1> QED BY <1>2, <1>6, <1>7, <1>8, SeqIsSeq DEF t

(* The calls under way account for what was requested.                       *)
Accounted ==
    calls # <<>> =>
        /\ IndexOf(pi.tasks, last.req.task) # 0
        /\ \A c \in Range(calls) : Sound(pi, c)
        /\ Total(pi, Contributed(last.req), Range(calls)) = Requested(last.req)

(* What a compilation that has ended has come to.                            *)
Answered ==
    calls = <<>> /\ compiles > 0 =>
        \/ /\ IndexOf(pi.tasks, last.req.task) = 0 \/ <<>> \in Requested(last.req)
           /\ last.failed = TRUE /\ last.override = <<>>
        \/ /\ IndexOf(pi.tasks, last.req.task) # 0 /\ <<>> \notin Requested(last.req)
           /\ last.failed = FALSE
           /\ \A n : n \in DOMAIN last.override <=> <<n>> \in Requested(last.req)

(* What a request amounts to changes only with the interface and the request.*)
LEMMA SameRequest ==
    ASSUME UNCHANGED pi, UNCHANGED (last.req)
    PROVE  /\ Contributed(last.req)' = Contributed(last.req)
           /\ Requested(last.req)' = Requested(last.req)
<1>1. Contributed(last.req)' = Contributed(last.req)
  BY DEF Contributed, Contribution
<1>2. Sources(last.req)' = Sources(last.req) /\ TaskOf(last.req)' = TaskOf(last.req)
  BY DEF Sources, TaskOf
<1> QED BY <1>1, <1>2 DEF Requested

(* The same for a request that has just been made.                           *)
LEMMA AskedAfter ==
    ASSUME UNCHANGED pi, NEW req, last'.req = req
    PROVE  /\ Contributed(last.req)' = Contributed(req)
           /\ Requested(last.req)' = Requested(req)
<1>1. Contributed(last.req)' = Contributed(req)
  BY DEF Contributed, Contribution
<1>2. Sources(last.req)' = Sources(req) /\ TaskOf(last.req)' = TaskOf(req)
  BY DEF Sources, TaskOf
<1> QED BY <1>1, <1>2 DEF Requested

(* What is due for the names of a call: the first option's marks and the     *)
(* rest.                                                                     *)
LEMMA FirstDue ==
    ASSUME Typed(pi), Acyclic(pi), NEW STATE req, NEW STATE said, said = Contributed(req),
           NEW STATE names, IsSeq(names), names # <<>>
    PROVE  /\ IsSeq(Tail(names))
           /\ Due(said, names) = OptionMarks(said, Head(names), req) \cup Due(said, Tail(names))
<1> DEFINE n == Head(names)
           rest == Tail(names)
           first == IF n \in DOMAIN said THEN MarksOf(said[n]) ELSE {}
<1>1. IsSeq(rest) /\ Range(names) = {n} \cup Range(rest)
  BY TailRange
<1>2. DOMAIN said = DOMAIN pi.option /\ \A m \in DOMAIN said : MarksOf(said[m]) = OptionMarks(said, m, req)
  BY Amounts
<1> HIDE DEF n, rest
<1>3. Due(said, names) = first \cup Due(said, rest)
  BY <1>1 DEF Due
<1>4. n \notin DOMAIN pi.option => OptionMarks(said, n, req) = {}
  BY DEF OptionMarks, IsActive, GetOption
<1>5. first = OptionMarks(said, n, req)
  BY <1>2, <1>4
<1> QED BY <1>1, <1>3, <1>5 DEF n, rest

(* A step that changes the calls under way to others that owe the same.      *)
LEMMA AccountsKept ==
    ASSUME Accounted, calls # <<>>, UNCHANGED <<pi, last>>, NEW STATE around, NEW STATE old, NEW STATE new,
           Range(calls) = around \cup old, Range(calls') = around \cup new,
           \A c \in new : Sound(pi, c),
           Total(pi, Contributed(last.req), new) = Total(pi, Contributed(last.req), old)
    PROVE  Accounted'
<1> DEFINE said == Contributed(last.req)
<1>1. IndexOf(pi'.tasks, last'.req.task) # 0
  BY DEF Accounted
<1>2. \A c \in Range(calls') : Sound(pi', c)
  BY DEF Accounted
<1>3. Contributed(last.req)' = said /\ Requested(last.req)' = Requested(last.req)
  BY SameRequest
<1>4. Total(pi, said, around \cup old) = Requested(last.req)
  BY DEF Accounted
<1> HIDE DEF said
<1>5. Total(pi, said, around \cup new) = Requested(last.req)
  BY <1>4 DEF Total, said
<1>6. Total(pi', Contributed(last.req)', Range(calls')) = Requested(last.req)'
  BY <1>3, <1>5
<1> QED BY <1>1, <1>2, <1>6 DEF Accounted

(* What one call owes,                                                       *)
LEMMA OneTotal ==
    ASSUME NEW p, NEW said, NEW c
    PROVE  Total(p, said, {c}) = Owed(p, said, c)
BY DEF Total

(* and what two owe.                                                         *)
LEMMA TwoTotal ==
    ASSUME NEW p, NEW said, NEW c, NEW d
    PROVE  Total(p, said, {c, d}) = Owed(p, said, c) \cup Owed(p, said, d)
BY DEF Total

(* What a call with these fields owes.                                       *)
LEMMA CallOwes ==
    ASSUME NEW p, NEW said, NEW name, NEW map, NEW cases, NEW names
    PROVE  /\ Owed(p, said, Call(name, map, cases, names)) =
                  NodeMarks(map) \cup Due(said, names) \cup OfCases(p, said, name, cases)
           /\ IsSeq(names) /\ (cases # {} => /\ name \in DOMAIN p.option /\ p.option[name] # Null
                                             /\ cases \subseteq DOMAIN p.option[name].cases)
                 => Sound(p, Call(name, map, cases, names))
BY DEF Owed, Sound, Call

(* Every step of a compilation, but those that end it.                       *)
LEMMA StepAccounted ==
    ASSUME Shape, Ready, Accounted, CompileStep, ~Refuse, ~Finish
    PROVE  Accounted'
<1> DEFINE said == Contributed(last.req)
           around == Range(Front(calls))
<1>1. /\ calls # <<>> /\ UNCHANGED <<pi, last>> /\ IsStack(calls) /\ Len(calls) \in Nat \ {0}
      /\ Typed(pi) /\ ListsTyped(pi) /\ Acyclic(pi)
  BY StepShape, TopCall, CallsRemain DEF Shape, Ready
<1>2. /\ Range(calls) = around \cup {Top}
      /\ \A c : Range([calls EXCEPT ![Len(calls)] = c]) = around \cup {c}
  BY <1>1, CallsAround DEF Top
<1>3. Sound(pi, Top)
  BY <1>1, <1>2 DEF Accounted
<1> HIDE DEF around
<1>4. ASSUME NEW STATE outer, NEW STATE old, NEW STATE new, Range(calls) = outer \cup old,
              Range(calls') = outer \cup new, \A c \in new : Sound(pi, c),
              Total(pi, said, new) = Total(pi, said, old)
       PROVE  Accounted'
  BY <1>1, <1>4, AccountsKept
<1>5. ASSUME NEW STATE c, calls' = [calls EXCEPT ![Len(calls)] = c], Sound(pi, c),
             Owed(pi, said, c) = Owed(pi, said, Top)
      PROVE  Accounted'
  <2>1. Range(calls') = around \cup {c}
    BY <1>2, <1>5
  <2>2. Total(pi, said, {c}) = Total(pi, said, {Top})
    BY <1>5, OneTotal
  <2>3. \A x \in {c} : Sound(pi, x)
    BY <1>5
  <2> QED BY <1>2, <1>4, <2>1, <2>2, <2>3
<1>6. AtOption => /\ IsSeq(Top.names) /\ IsSeq(Tail(Top.names))
                  /\ Due(said, Top.names) = OptionMarks(said, Name, last.req) \cup Due(said, Tail(Top.names))
  BY <1>1, <1>3, FirstDue DEF AtOption, Name, Sound
<1>7. Owed(pi, said, Top) = NodeMarks(Top.map) \cup Due(said, Top.names) \cup OfCases(pi, said, Top.name, Top.cases)
  BY DEF Owed
<1>8. Top.cases # {} => /\ Top.name \in DOMAIN pi.option /\ pi.option[Top.name] # Null
                        /\ Top.cases \subseteq DOMAIN pi.option[Top.name].cases
  BY <1>3 DEF Sound
<1> HIDE DEF said
<1>9. CASE PassOver
  <2> DEFINE c == Call(Top.name, Top.map, Top.cases, Tail(Top.names))
  <2>1. calls' = [calls EXCEPT ![Len(calls)] = c] /\ AtOption /\ ~IsActive(Name, last.req)
    BY <1>9 DEF PassOver, Passed, WithTop
  <2>2. OptionMarks(said, Name, last.req) = {}
    BY <2>1 DEF OptionMarks
  <2>3. /\ Sound(pi, c)
        /\ Owed(pi, said, c) = NodeMarks(Top.map) \cup Due(said, Tail(Top.names)) \cup OfCases(pi, said, Top.name, Top.cases)
    BY <1>6, <1>8, <2>1, CallOwes
  <2> HIDE DEF c
  <2>4. Owed(pi, said, c) = Owed(pi, said, Top)
    BY <1>6, <1>7, <2>1, <2>2, <2>3
  <2> QED BY <1>5, <2>1, <2>3, <2>4
<1>10. CASE CallOption
  <2> DEFINE chosen == ChosenCases(pi.option[Name], Name, last.req)
             c == Call(Top.name, Top.map, Top.cases, Tail(Top.names))
             d == Call(Name, <<>>, chosen, <<>>)
             s == [calls EXCEPT ![Len(calls)] = c]
  <2>1. /\ calls' = Append(s, d) /\ AtOption /\ IsActive(Name, last.req)
        /\ ~Refused(pi.option[Name], Name, last.req) /\ pi.option[Name].type # "input"
    BY <1>10 DEF CallOption, Passed, WithTop
  <2>2. Name \in DOMAIN pi.option /\ pi.option[Name] # Null /\ IsSeq(pi.option[Name].cases)
    BY <1>1, <2>1 DEF IsActive, GetOption, Typed, OptionTyped
  <2>3. OptionMarks(said, Name, last.req) = OfCases(pi, said, Name, chosen)
    BY <2>1 DEF OptionMarks, OfCases
  <2>4. chosen \subseteq DOMAIN pi.option[Name].cases
    BY <2>2, ChosenAreCases
  <2> HIDE DEF chosen
  <2>5. /\ Sound(pi, c)
        /\ Owed(pi, said, c) = NodeMarks(Top.map) \cup Due(said, Tail(Top.names)) \cup OfCases(pi, said, Top.name, Top.cases)
    BY <1>6, <1>8, <2>1, CallOwes
  <2>6. Sound(pi, d) /\ Owed(pi, said, d) = OfCases(pi, said, Name, chosen)
    <3>1. IsSeq(<<>>)
      <4>1. <<>> \in Seq({})
        OBVIOUS
      <4> QED BY <4>1, SeqIsSeq
    <3>2. Due(said, <<>>) = {} /\ NodeMarks(<<>>) = {}
      BY NothingDue
    <3>3. Owed(pi, said, d) = NodeMarks(<<>>) \cup Due(said, <<>>) \cup OfCases(pi, said, Name, chosen)
      BY CallOwes
    <3>4. Sound(pi, d)
      BY <2>2, <2>4, <3>1, CallOwes
    <3> HIDE DEF d
    <3> QED BY <3>2, <3>3, <3>4
  <2>7. IsStack(s) /\ Range(s) = around \cup {c}
    BY <1>1, <1>2, ChangedCall
  <2> HIDE DEF c, d, s
  <2>8. Range(calls') = around \cup {c, d}
    BY <2>1, <2>7, PushedRange
  <2>9. Total(pi, said, {c, d}) = Total(pi, said, {Top})
    <3>1. /\ Total(pi, said, {c, d}) = Owed(pi, said, c) \cup Owed(pi, said, d)
          /\ Total(pi, said, {Top}) = Owed(pi, said, Top)
      BY OneTotal, TwoTotal
    <3>2. Owed(pi, said, c) \cup Owed(pi, said, d) = Owed(pi, said, Top)
      BY <1>6, <1>7, <2>1, <2>3, <2>5, <2>6
    <3> QED BY <3>1, <3>2
  <2>10. \A x \in {c, d} : Sound(pi, x)
    BY <2>5, <2>6
  <2> DEFINE both == {c, d}
  <2>11. /\ Range(calls') = around \cup both
         /\ Total(pi, said, both) = Total(pi, said, {Top})
         /\ \A x \in both : Sound(pi, x)
    BY <2>8, <2>9, <2>10
  <2> HIDE DEF both
  <2> QED BY <1>2, <1>4, <2>11
<1>11. CASE ResolveInput
  <2> DEFINE copy == Filling(Name)
             owner == <<"copy", Name, Cardinality(DOMAIN heap)>>
             src == Refs(owner, copy)
             c == Call(Top.name, Merged(Top.map, src), Top.cases, Tail(Top.names))
  <2>1. /\ calls' = [calls EXCEPT ![Len(calls)] = c]
        /\ AtOption
        /\ IsActive(Name, last.req)
        /\ pi.option[Name].type = "input"
    BY <1>11 DEF ResolveInput, WithTop
  <2>2. NodeMarks(src) = OptionMarks(said, Name, last.req)
    <3>1. DOMAIN copy = DOMAIN pi.option[Name].over
      BY DEF Filling
    <3> HIDE DEF copy
    <3>2. NodeMarks(copy) = NodeMarks(pi.option[Name].over)
      BY <3>1 DEF NodeMarks
    <3> QED BY <2>1, <3>2, RefsNodes DEF OptionMarks
  <2> HIDE DEF src
  <2>3. /\ Sound(pi, c)
        /\ Owed(pi, said, c) = NodeMarks(Merged(Top.map, src)) \cup Due(said, Tail(Top.names))
                                  \cup OfCases(pi, said, Top.name, Top.cases)
    BY <1>6, <1>8, <2>1, CallOwes
  <2> HIDE DEF c
  <2>4. Owed(pi, said, c) = Owed(pi, said, Top)
    BY <1>6, <1>7, <2>1, <2>2, <2>3, MergedNodes
  <2> QED BY <1>5, <2>1, <2>3, <2>4
<1>12. CASE ApplyCase
  <2> DEFINE i == Min(Top.cases)
             case == pi.option[Top.name].cases[i]
             owner == <<"case", Top.name, i>>
             src == Refs(owner, case.over)
             c == Call(Top.name, Merged(Top.map, src), Top.cases \ {i}, case.nested)
  <2>1. calls' = [calls EXCEPT ![Len(calls)] = c] /\ Top.names = <<>> /\ Top.cases # {}
    BY <1>12 DEF ApplyCase, WithTop
  <2>2. NodeMarks(src) = NodeMarks(case.over)
    BY RefsNodes
  <2>3. OptionTyped(pi.option[Top.name]) /\ Top.cases \subseteq Nat
    <3>1. OptionTyped(pi.option[Top.name])
      BY <1>1, <1>8, <2>1 DEF Typed
    <3>2. IsSeq(pi.option[Top.name].cases)
      BY <1>8, <2>1, <3>1 DEF OptionTyped
    <3>3. DOMAIN pi.option[Top.name].cases \subseteq Nat
      BY <3>2, PositionsOf
    <3> QED BY <1>8, <2>1, <3>1, <3>3
  <2>4. i \in Top.cases
    BY <2>1, <2>3, Least
  <2> HIDE DEF i
  <2>5. IsSeq(case.nested)
    BY <1>8, <2>1, <2>3, <2>4 DEF OptionTyped, Range
  <2>6. OfCases(pi, said, Top.name, Top.cases) =
            OfCase(said, case) \cup OfCases(pi, said, Top.name, Top.cases \ {i})
    <3>1. Top.cases = {i} \cup (Top.cases \ {i})
      BY <2>4
    <3> DEFINE rest == Top.cases \ {i}
    <3> HIDE DEF rest
    <3>2. OfCases(pi, said, Top.name, {i} \cup rest) = OfCase(said, case) \cup OfCases(pi, said, Top.name, rest)
      BY DEF OfCases
    <3> QED BY <3>1, <3>2 DEF rest
  <2>7. Due(said, Top.names) = {}
    BY <2>1, NothingDue
  <2>8. OfCase(said, case) = NodeMarks(case.over) \cup Due(said, case.nested)
    BY DEF OfCase
  <2> HIDE DEF src, case
  <2>9. /\ Sound(pi, c)
        /\ Owed(pi, said, c) = NodeMarks(Merged(Top.map, src)) \cup Due(said, case.nested)
                                  \cup OfCases(pi, said, Top.name, Top.cases \ {i})
    <3>1. Sound(pi, c)
      BY <1>8, <2>1, <2>5, CallOwes
    <3>2. Owed(pi, said, c) = NodeMarks(Merged(Top.map, src)) \cup Due(said, case.nested)
                                \cup OfCases(pi, said, Top.name, Top.cases \ {i})
      BY CallOwes
    <3> QED BY <3>1, <3>2
  <2> HIDE DEF c
  <2>10. Owed(pi, said, c) = Owed(pi, said, Top)
    BY <1>7, <2>2, <2>6, <2>7, <2>8, <2>9, MergedNodes
  <2> QED BY <1>5, <2>1, <2>9, <2>10
<1>13. CASE Return
  <2> DEFINE s == Front(calls)
             caller == calls[Len(calls) - 1]
             c == Call(caller.name, Merged(caller.map, Top.map), caller.cases, caller.names)
  <2>1. calls' = [s EXCEPT ![Len(calls) - 1] = c] /\ Len(calls) > 1 /\ Top.names = <<>> /\ Top.cases = {}
    BY <1>13 DEF Return, Done
  <2>2. IsStack(s) /\ Len(s) = Len(calls) - 1
    BY <1>1, PoppedCalls
  <2>3. s # <<>>
    <3>1. Len(<<>>) = 0
      OBVIOUS
    <3> QED BY <1>1, <2>1, <2>2, <3>1
  <2>4. Last(s) = caller
    <3>1. PICK S : calls \in Seq(S)
      BY <1>1 DEF IsStack
    <3>2. s[Len(calls) - 1] = calls[Len(calls) - 1]
      BY <1>1, <2>1, <3>1 DEF Front
    <3> QED BY <2>2, <3>2 DEF Last
  <2> HIDE DEF s, caller
  <2>5. /\ around = Range(Front(s)) \cup {caller}
        /\ Range(calls') = Range(Front(s)) \cup {c}
    <3>1. around = Range(s)
      BY DEF around, s
    <3>2. /\ Range(s) = Range(Front(s)) \cup {Last(s)}
          /\ \A x : Range([s EXCEPT ![Len(s)] = x]) = Range(Front(s)) \cup {x}
      BY <2>2, <2>3, CallsAround
    <3>3. calls' = [s EXCEPT ![Len(s)] = c]
      BY <2>1, <2>2
    <3> QED BY <2>4, <3>1, <3>2, <3>3
  <2>6. caller \in Range(calls)
    BY <1>2, <2>5
  <2>7. Sound(pi, caller)
    BY <1>1, <2>6 DEF Accounted
  <2>8. /\ Sound(pi, c)
        /\ Owed(pi, said, c) = NodeMarks(Merged(caller.map, Top.map)) \cup Due(said, caller.names)
                                  \cup OfCases(pi, said, caller.name, caller.cases)
    BY <2>7, CallOwes DEF Sound
  <2> HIDE DEF c
  <2>9. Owed(pi, said, Top) = NodeMarks(Top.map)
    <3>1. Due(said, Top.names) = {} /\ OfCases(pi, said, Top.name, Top.cases) = {}
      BY <2>1, NothingDue
    <3> QED BY <1>7, <3>1
  <2>10. Owed(pi, said, caller) = NodeMarks(caller.map) \cup Due(said, caller.names)
                                  \cup OfCases(pi, said, caller.name, caller.cases)
    BY DEF Owed
  <2>11. Total(pi, said, {c}) = Total(pi, said, {caller, Top})
    <3>1. /\ Total(pi, said, {c}) = Owed(pi, said, c)
          /\ Total(pi, said, {caller, Top}) = Owed(pi, said, caller) \cup Owed(pi, said, Top)
      BY OneTotal, TwoTotal
    <3>2. NodeMarks(Merged(caller.map, Top.map)) = NodeMarks(caller.map) \cup NodeMarks(Top.map)
      BY MergedNodes
    <3>3. Owed(pi, said, c) = Owed(pi, said, caller) \cup Owed(pi, said, Top)
      BY <2>8, <2>9, <2>10, <3>2
    <3> QED BY <3>1, <3>3
  <2>12. Range(calls) = Range(Front(s)) \cup {caller, Top}
    BY <1>2, <2>5
  <2>13. \A x \in {c} : Sound(pi, x)
    BY <2>8
  <2> QED BY <1>4, <2>5, <2>11, <2>12, <2>13
<1> QED BY <1>9, <1>10, <1>11, <1>12, <1>13 DEF CompileStep, Step

(* Every action keeps the account.                                           *)
LEMMA NextAccounted ==
    Shape /\ Ready /\ Accounted /\ [Next]_vars => Accounted'
<1> SUFFICES ASSUME Shape, Ready, Accounted, [Next]_vars PROVE Accounted'
  OBVIOUS
<1>1. CASE Load
  <2>1. calls' = <<>>
    BY <1>1 DEF Load, Shape
  <2> QED BY <2>1 DEF Accounted
<1>2. CASE SendCapabilities \/ UNCHANGED vars
  <2>1. UNCHANGED <<pi, calls, last>>
    BY <1>2 DEF SendCapabilities, vars
  <2>2. Contributed(last.req)' = Contributed(last.req) /\ Requested(last.req)' = Requested(last.req)
    BY <2>1, SameRequest
  <2>3. Total(pi', Contributed(last.req)', Range(calls')) = Total(pi, Contributed(last.req), Range(calls))
    BY <2>1, <2>2
  <2> QED BY <2>1, <2>2, <2>3 DEF Accounted
<1>3. ASSUME NEW req \in Requests, RunTaskItem(req) PROVE Accounted'
  <2>1. phase = "offered" /\ UNCHANGED pi /\ calls = <<>>
    BY <1>3 DEF RunTaskItem, Compile
  <2>2. CASE IndexOf(pi.tasks, req.task) # 0
    <3> DEFINE owner == <<"task", "", IndexOf(pi.tasks, req.task)>>
               c == Call("", Refs(owner, TaskOf(req).over), {}, Sources(req))
    <3>1. calls' = <<c>> /\ last' = [NoRequest EXCEPT !.req = req]
      BY <1>3, <2>2 DEF RunTaskItem, Compile
    <3>2. last'.req = req
      BY <3>1 DEF NoRequest
    <3>3. IsSeq(Sources(req))
      BY <2>1, <2>2, SourcesSeq DEF Shape, Ready
    <3>4. Sound(pi, c)
      BY <3>3, CallOwes
    <3>5. Owed(pi, Contributed(req), c) = Requested(req)
      <4>1. OfCases(pi, Contributed(req), "", {}) = {}
        BY NothingDue
      <4>2. NodeMarks(Refs(owner, TaskOf(req).over)) = NodeMarks(TaskOf(req).over)
        BY RefsNodes
      <4> DEFINE refs == Refs(owner, TaskOf(req).over)
                 said == Contributed(req)
                 sources == Sources(req)
      <4> HIDE DEF refs, said, sources
      <4>3. Owed(pi, said, Call("", refs, {}, sources)) =
                NodeMarks(refs) \cup Due(said, sources) \cup OfCases(pi, said, "", {})
        BY DEF Owed, Call
      <4>4. Owed(pi, Contributed(req), c) = NodeMarks(Refs(owner, TaskOf(req).over)) \cup Due(Contributed(req), Sources(req))
                                            \cup OfCases(pi, Contributed(req), "", {})
        BY <4>3 DEF refs, said, sources
      <4> HIDE DEF c, owner
      <4> QED BY <4>1, <4>2, <4>4 DEF Requested
    <3> HIDE DEF c
    <3>6. Range(calls') = {c}
      BY <3>1, OneMark
    <3>7. Contributed(last.req)' = Contributed(req) /\ Requested(last.req)' = Requested(req)
      BY <2>1, <3>2, AskedAfter
    <3>8. Total(pi', Contributed(last.req)', Range(calls')) = Requested(last.req)'
      BY <2>1, <3>5, <3>6, <3>7, OneTotal
    <3>9. \A x \in Range(calls') : Sound(pi', x)
      BY <2>1, <3>4, <3>6
    <3>10. IndexOf(pi'.tasks, last'.req.task) # 0
      BY <2>1, <2>2, <3>2
    <3> QED BY <3>8, <3>9, <3>10 DEF Accounted
  <2>3. CASE IndexOf(pi.tasks, req.task) = 0
    <3>1. calls' = <<>>
      BY <1>3, <2>1, <2>3 DEF RunTaskItem, Compile
    <3> QED BY <3>1 DEF Accounted
  <2> QED BY <2>2, <2>3
<1>4. CASE CompileStep
  <2>1. CASE Refuse \/ Finish
    <3>1. calls' = <<>>
      BY <2>1 DEF Refuse, Finish, End
    <3> QED BY <3>1 DEF Accounted
  <2> QED BY <1>4, <2>1, StepAccounted
<1> QED BY <1>1, <1>2, <1>3, <1>4 DEF Next, Fatal

(* What does not compile leaves the answer alone.                            *)
LEMMA AskedAgain == Answered /\ UNCHANGED <<pi, calls, compiles, last>> => Answered'
<1> SUFFICES ASSUME Answered, UNCHANGED <<pi, calls, compiles, last>> PROVE Answered'
  OBVIOUS
<1>1. Requested(last.req)' = Requested(last.req)
  BY SameRequest
<1> QED BY <1>1 DEF Answered

(* A compilation ends with what was requested.                               *)
LEMMA EndAnswered ==
    ASSUME Shape, Ready, Accounted, CompileStep, Refuse \/ Finish
    PROVE  Answered'
<1> DEFINE said == Contributed(last.req)
<1>1. /\ calls # <<>> /\ UNCHANGED pi /\ IsStack(calls)
      /\ Typed(pi) /\ ListsTyped(pi) /\ Acyclic(pi)
      /\ last = [req |-> last.req, failed |-> last.failed, override |-> last.override]
      /\ Top \in Range(calls)
  BY StepShape, TopCall DEF Shape, Ready
<1>2. /\ IndexOf(pi.tasks, last.req.task) # 0
      /\ Total(pi, said, Range(calls)) = Requested(last.req)
      /\ Sound(pi, Top)
  BY <1>1 DEF Accounted
<1>3. Owed(pi, said, Top) = NodeMarks(Top.map) \cup Due(said, Top.names) \cup OfCases(pi, said, Top.name, Top.cases)
  BY DEF Owed
<1>4. CASE Refuse
  <2>1. /\ last' = [last EXCEPT !.failed = TRUE, !.override = <<>>] /\ AtOption
        /\ IsActive(Name, last.req) /\ Refused(pi.option[Name], Name, last.req)
    BY <1>4 DEF Refuse, End
  <2>2. last'.req = last.req /\ last'.failed = TRUE /\ last'.override = <<>>
    BY <1>1, <2>1
  <2>3. Due(said, Top.names) = OptionMarks(said, Name, last.req) \cup Due(said, Tail(Top.names))
    BY <1>1, <1>2, <2>1, FirstDue DEF AtOption, Name, Sound
  <2>4. pi.option[Name].type # "input"
    BY <2>1 DEF Refused, IsSelect
  <2>5. OptionMarks(said, Name, last.req) = {<<>>}
    BY <2>1, <2>4 DEF OptionMarks
  <2> HIDE DEF said
  <2>6. <<>> \in Owed(pi, said, Top)
    BY <1>3, <2>3, <2>5
  <2>7. <<>> \in Requested(last.req)
    BY <1>1, <1>2, <2>6 DEF Total
  <2>8. Requested(last.req)' = Requested(last.req)
    BY <1>1, <2>2, SameRequest
  <2> QED BY <2>2, <2>7, <2>8 DEF Answered
<1>5. CASE Finish
  <2> DEFINE over == [n \in DOMAIN Top.map |-> heap[Top.map[n]]]
  <2>1. /\ last' = [last EXCEPT !.failed = FALSE, !.override = over]
        /\ Len(calls) = 1
        /\ Top.names = <<>>
        /\ Top.cases = {}
    BY <1>5 DEF Finish, End, Done
  <2>2. DOMAIN over = DOMAIN Top.map
    OBVIOUS
  <2> HIDE DEF over
  <2>3. last'.req = last.req /\ last'.failed = FALSE /\ last'.override = over
    BY <1>1, <2>1
  <2>4. Range(calls) = {Top}
    <3>1. PICK S : calls \in Seq(S)
      BY <1>1 DEF IsStack
    <3>2. DOMAIN calls = 1..1
      BY <2>1, <3>1
    <3>3. \A i : i \in 1..1 <=> i = 1
      OBVIOUS
    <3> QED BY <2>1, <3>2, <3>3 DEF Range, Top, Last
  <2>5. Due(said, Top.names) = {} /\ OfCases(pi, said, Top.name, Top.cases) = {}
    BY <2>1, NothingDue
  <2> HIDE DEF said
  <2>6. Requested(last.req) = NodeMarks(Top.map)
    BY <1>2, <1>3, <2>4, <2>5, OneTotal
  <2>7. Requested(last.req)' = Requested(last.req)
    BY <1>1, <2>3, SameRequest
  <2>8. <<>> \notin NodeMarks(Top.map) /\ \A n : <<n>> \in NodeMarks(Top.map) <=> n \in DOMAIN Top.map
    BY DEF NodeMarks
  <2>9. IndexOf(pi'.tasks, last'.req.task) # 0
    BY <1>1, <1>2, <2>3
  <2>10. <<>> \notin Requested(last.req)' /\ \A n : n \in DOMAIN last'.override <=> <<n>> \in Requested(last.req)'
    BY <2>2, <2>3, <2>6, <2>7, <2>8
  <2> QED BY <2>3, <2>9, <2>10 DEF Answered
<1> QED BY <1>4, <1>5

(* Every action keeps the answer to the last request.                        *)
LEMMA NextAnswered ==
    Shape /\ Ready /\ Accounted /\ Answered /\ [Next]_vars => Answered'
<1> SUFFICES ASSUME Shape, Ready, Accounted, Answered, [Next]_vars PROVE Answered'
  OBVIOUS
<1>1. CASE Load
  <2>1. compiles' = 0
    BY <1>1 DEF Load, Shape
  <2> QED BY <2>1 DEF Answered
<1>2. CASE SendCapabilities \/ UNCHANGED vars
  BY <1>2, AskedAgain DEF SendCapabilities, vars
<1>3. ASSUME NEW req \in Requests, RunTaskItem(req) PROVE Answered'
  <2>1. UNCHANGED pi
    BY <1>3 DEF RunTaskItem, Compile
  <2>2. CASE IndexOf(pi.tasks, req.task) # 0
    <3>1. \E c : calls' = <<c>>
      BY <1>3, <2>2 DEF RunTaskItem, Compile
    <3>2. \A c : <<c>> # <<>>
      OBVIOUS
    <3> QED BY <3>1, <3>2 DEF Answered
  <2>3. CASE IndexOf(pi.tasks, req.task) = 0
    <3>1. last' = [NoRequest EXCEPT !.req = req, !.failed = TRUE]
      BY <1>3, <2>3 DEF RunTaskItem, Compile
    <3>2. last'.req = req /\ last'.failed = TRUE /\ last'.override = <<>>
      BY <3>1 DEF NoRequest
    <3> QED BY <2>1, <2>3, <3>2 DEF Answered
  <2> QED BY <2>2, <2>3
<1>4. CASE CompileStep
  <2>1. CASE Refuse \/ Finish
    BY <1>4, <2>1, EndAnswered
  <2>2. CASE ~Refuse /\ ~Finish
    <3>1. calls' # <<>>
      BY <1>4, <2>2, CallsRemain
    <3> QED BY <3>1 DEF Answered
  <2> QED BY <2>1, <2>2
<1> QED BY <1>1, <1>2, <1>3, <1>4 DEF Next, Fatal

(* An answer is what the documents say of the request.                       *)
LEMMA AnswerDocumented == Shape /\ Ready /\ Answered => HistoryAddsNoNode
<1> SUFFICES ASSUME Shape, Ready, Answered, calls = <<>>, compiles > 0
             PROVE  /\ last.failed = DocumentedFailure(last.req)
                    /\ DOMAIN last.override = DOMAIN Documented(last.req)
  BY DEF HistoryAddsNoNode
<1> DEFINE found == IndexOf(pi.tasks, last.req.task) # 0
<1>1. Typed(pi) /\ ListsTyped(pi) /\ Acyclic(pi)
  <2>1. phase = "offered"
    BY DEF Shape
  <2> QED BY <2>1 DEF Shape, Ready
<1>2. found => /\ DocumentedFailure(last.req) <=> <<>> \in Requested(last.req)
               /\ ~DocumentedFailure(last.req) =>
                     \A n : n \in DOMAIN Documented(last.req) <=> <<n>> \in Requested(last.req)
  BY <1>1, DocumentedMarks
<1>3. ~found => DocumentedFailure(last.req)
  BY DEF DocumentedFailure
<1>4. DocumentedFailure(last.req) => Documented(last.req) = <<>>
  BY DEF Documented
<1>5. DocumentedFailure(last.req) \in BOOLEAN
  BY DEF DocumentedFailure
<1>6. CASE (~found \/ <<>> \in Requested(last.req)) /\ last.failed = TRUE /\ last.override = <<>>
  <2>1. DocumentedFailure(last.req)
    BY <1>2, <1>3, <1>6
  <2>2. Documented(last.req) = <<>>
    BY <1>4, <2>1
  <2>3. last.failed = DocumentedFailure(last.req)
    BY <1>5, <1>6, <2>1
  <2> QED BY <1>6, <2>2, <2>3
<1>7. CASE /\ found /\ <<>> \notin Requested(last.req) /\ last.failed = FALSE
           /\ \A n : n \in DOMAIN last.override <=> <<n>> \in Requested(last.req)
  <2>1. ~DocumentedFailure(last.req)
    BY <1>2, <1>7
  <2>2. last.failed = DocumentedFailure(last.req)
    BY <1>5, <1>7, <2>1
  <2>3. \A n : n \in DOMAIN last.override <=> n \in DOMAIN Documented(last.req)
    BY <1>2, <1>7, <2>1
  <2> QED BY <2>2, <2>3
<1> QED BY <1>6, <1>7 DEF Answered

(* Whether a compilation fails, and which nodes it overrides, is what the    *)
(* documents say of its request alone, whatever was compiled before and      *)
(* whatever maps it shared (ResolveTaskOptions, mergeOverride): if no        *)
(* options name each other, as then alone a compilation ends.                *)
THEOREM HistoryHolds ==
    ASSUME NoCycles
    PROVE  Spec => []HistoryAddsNoNode
<1>1. Init => Ready /\ Accounted /\ Answered
  <2> SUFFICES ASSUME Init PROVE Ready /\ Accounted /\ Answered
    OBVIOUS
  <2>1. phase = "off" /\ calls = <<>> /\ compiles = 0
    BY DEF Init
  <2> QED BY <2>1 DEF Ready, Accounted, Answered
<1>2. Shape /\ Ready /\ [Next]_vars => Ready'
  BY NextReady
<1> QED BY <1>1, <1>2, InitShape, NextShape, NextAccounted, NextAnswered, AnswerDocumented, PTL DEF Spec
===============================================================================
