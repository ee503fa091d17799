------------------------------ MODULE LoadProofs ------------------------------
(***************************************************************************)
(* Loading an interface does what its comments promise: the comments of a  *)
(* file go and every other byte stays, and the tasks, presets and options  *)
(* of the files are merged so that of each name the last definition        *)
(* counts. The model is made of recursive functions; each of them is first *)
(* shown to exist and to do its steps, and what it computes is then proved *)
(* for the first k of them, as a statement on a set of numbers that holds  *)
(* 0 and with k - 1 holds k.                                               *)
(***************************************************************************)
EXTENDS InterfaceLoad, NaturalsInduction, SequenceTheorems, WellFoundedInduction, TLAPS

(* A set that holds 0 and with every number the next one holds them all.     *)
LEMMA SetInduction ==
    ASSUME NEW S, 0 \in S, \A n \in Nat : n \in S => n + 1 \in S
    PROVE  Nat \subseteq S
<1> SUFFICES ASSUME NEW m \in Nat, m \notin S PROVE FALSE
  OBVIOUS
<1> DEFINE T == {n \in Nat : n \notin S}
<1>1. PICK x \in T : \A y \in T : ~(<<y, x>> \in OpToRel(<, Nat))
  BY NatLessThanWellFounded, WFMin, T \subseteq Nat, m \in T
<1>2. \A y \in T : ~(y < x)
  BY <1>1 DEF OpToRel
<1>3. x # 0
  OBVIOUS
<1>4. x - 1 \in Nat /\ x - 1 \notin T
  BY <1>2, <1>3
<1> QED BY <1>4

(* The same up to a bound.                                                   *)
LEMMA UpTo ==
    ASSUME NEW N \in Nat, NEW S, 0 \in S, \A k \in 1..N : k - 1 \in S => k \in S
    PROVE  0..N \subseteq S
<1> DEFINE T == {n \in Nat : n <= N => n \in S}
<1>1. 0 \in T
  OBVIOUS
<1>2. ASSUME NEW n \in Nat, n \in T PROVE n + 1 \in T
  <2> SUFFICES ASSUME n + 1 <= N PROVE n + 1 \in S
    OBVIOUS
  <2>1. n + 1 \in 1..N /\ n \in S
    BY <1>2
  <2> QED BY <2>1
<1>3. Nat \subseteq T
  <2> HIDE DEF T
  <2> QED BY <1>1, <1>2, SetInduction
<1> QED BY <1>3

(* Kept runs through the names one by one.                                   *)
LEMMA KeptDefined ==
    ASSUME NEW T, NEW names \in Seq(T)
    PROVE  \E f : /\ Kept(names) = f[Len(names)] /\ f[0] = <<>>
                  /\ \A k \in 1..Len(names) :
                        f[k] = IF Trim(names[k]) = "" THEN f[k - 1] ELSE Append(f[k - 1], Trim(names[k]))
<1> DEFINE N == Len(names)
           Next(x, k) == IF Trim(names[k]) = "" THEN x ELSE Append(x, Trim(names[k]))
           kept[k \in 0..N] ==
               IF k = 0 THEN <<>>
               ELSE IF Trim(names[k]) = "" THEN kept[k - 1] ELSE Append(kept[k - 1], Trim(names[k]))
           Rec(f, n) == f = [k \in 0..n |-> IF k = 0 THEN <<>> ELSE Next(f[k - 1], k)]
           S == {n \in Nat : \E f : Rec(f, n)}
<1>1. Kept(names) = kept[N]
  BY DEF Kept
<1>2. kept = CHOOSE f : Rec(f, N)
  BY DEF kept
<1> HIDE DEF Next, kept
<1>3. \E f : Rec(f, 0)
  <2>1. Rec([k \in 0..0 |-> <<>>], 0)
    OBVIOUS
  <2> QED BY <2>1
<1>4. ASSUME NEW n \in Nat, NEW f, Rec(f, n)
      PROVE  \E g : Rec(g, n + 1)
  <2> DEFINE g == [k \in 0..(n + 1) |-> IF k = n + 1 THEN Next(f[n], k) ELSE f[k]]
  <2>1. \A k \in 0..n : g[k] = f[k]
    OBVIOUS
  <2>2. ASSUME NEW k \in 0..(n + 1)
        PROVE  g[k] = IF k = 0 THEN <<>> ELSE Next(g[k - 1], k)
    <3>1. CASE k = n + 1
      BY <2>1, <3>1
    <3>2. CASE k # n + 1
      <4>1. k \in 0..n /\ (k # 0 => k - 1 \in 0..n)
        BY <3>2
      <4> QED BY <1>4, <2>1, <4>1
    <3> QED BY <3>1, <3>2
  <2>3. Rec(g, n + 1)
    BY <2>2
  <2> QED BY <2>3
<1> HIDE DEF Rec
<1>5. Nat \subseteq S
  <2>1. 0 \in S /\ \A n \in Nat : n \in S => n + 1 \in S
    BY <1>3, <1>4
  <2> HIDE DEF S
  <2> QED BY <2>1, SetInduction
<1>6. Rec(kept, N)
  BY <1>2, <1>5
<1>7. kept[0] = <<>> /\ \A k \in 1..N : kept[k] = Next(kept[k - 1], k)
  BY <1>6 DEF Rec
<1> QED BY <1>1, <1>7 DEF Next

(* The default cases of an option are names, and none of them is empty.      *)
LEMMA KeptNames ==
    ASSUME NEW T, NEW names \in Seq(T)
    PROVE  Kept(names) \in Seq({Trim(names[i]) : i \in DOMAIN names} \ {""})
<1> DEFINE N == Len(names)
           W == {Trim(names[i]) : i \in DOMAIN names} \ {""}
<1>1. PICK f : /\ Kept(names) = f[N] /\ f[0] = <<>>
               /\ \A k \in 1..N :
                     f[k] = IF Trim(names[k]) = "" THEN f[k - 1] ELSE Append(f[k - 1], Trim(names[k]))
  BY KeptDefined
<1>2. ASSUME NEW k \in 1..N, Trim(names[k]) # "" PROVE Trim(names[k]) \in W
  <2>1. k \in DOMAIN names
    OBVIOUS
  <2> QED BY <1>2, <2>1
<1> DEFINE S == {k \in 0..N : f[k] \in Seq(W)}
<1>3. N \in Nat
  OBVIOUS
<1> HIDE DEF W, N
<1>4. 0 \in S
  <2>1. <<>> \in Seq(W)
    OBVIOUS
  <2>2. f[0] \in Seq(W)
    BY ONLY <1>1, <2>1, Zenon
  <2>3. 0 \in 0..N
    BY <1>3
  <2> QED BY <2>2, <2>3
<1>5. ASSUME NEW k \in 1..N, k - 1 \in S PROVE k \in S
  <2>1. f[k - 1] \in Seq(W)
    BY <1>5
  <2>2. CASE Trim(names[k]) = ""
    <3>1. f[k] = f[k - 1]
      BY <1>1, <2>2
    <3> QED BY <1>3, <2>1, <3>1
  <2>3. CASE Trim(names[k]) # ""
    <3>1. f[k] = Append(f[k - 1], Trim(names[k]))
      BY <1>1, <2>3
    <3>2. Trim(names[k]) \in W
      BY <1>2, <2>3
    <3>3. Append(f[k - 1], Trim(names[k])) \in Seq(W)
      BY <2>1, <3>2
    <3>4. f[k] \in Seq(W)
      BY <3>1, <3>3, Zenon
    <3> QED BY <1>3, <3>4
  <2> QED BY <2>2, <2>3
<1>6. N \in S
  <2> HIDE DEF S
  <2>1. 0..N \subseteq S
    BY <1>3, <1>4, <1>5, UpTo
  <2> QED BY <1>3, <2>1
<1> QED BY <1>1, <1>6 DEF W, N

(* getDefaultCaseList gives names of which none is empty, whatever type the  *)
(* default case of an option has.                                            *)
LEMMA DefaultCaseNames ==
    ASSUME NEW raw, raw.t \in {"text", "list"} => IsSeq(raw.v)
    PROVE  \E W : /\ getDefaultCaseList(raw) \in Seq(W) /\ "" \notin W
<1>1. CASE raw.t = "text"
  <2>1. raw.v \in Seq(Range(raw.v))
    BY <1>1 DEF IsSeq
  <2>2. Kept(raw.v) \in Seq({Trim(raw.v[i]) : i \in DOMAIN raw.v} \ {""})
    BY <2>1, KeptNames
  <2>3. getDefaultCaseList(raw) = Kept(raw.v)
    BY <1>1 DEF getDefaultCaseList
  <2> DEFINE W == {Trim(raw.v[i]) : i \in DOMAIN raw.v} \ {""}
  <2>4. "" \notin W
    OBVIOUS
  <2>5. getDefaultCaseList(raw) \in Seq(W)
    BY <2>2, <2>3
  <2> HIDE DEF W
  <2> QED BY <2>4, <2>5
<1>2. CASE raw.t = "list"
  <2> DEFINE names == [i \in DOMAIN raw.v |-> IF raw.v[i].t = "str" THEN raw.v[i].s ELSE ""]
             T == {names[i] : i \in DOMAIN raw.v}
  <2>1. raw.v \in Seq(Range(raw.v))
    BY <1>2 DEF IsSeq
  <2>2. DOMAIN raw.v = 1..Len(raw.v) /\ Len(raw.v) \in Nat
    BY <2>1
  <2>3. names \in Seq(T)
    <3>1. DOMAIN names = DOMAIN raw.v /\ \A i \in DOMAIN raw.v : names[i] \in T
      BY Zenon
    <3>2. names = [i \in 1..Len(raw.v) |-> names[i]]
      BY <2>2, <3>1
    <3> HIDE DEF names, T
    <3> QED BY <2>2, <3>1, <3>2
  <2>4. Kept(names) \in Seq({Trim(names[i]) : i \in DOMAIN names} \ {""})
    <3> HIDE DEF names, T
    <3> QED BY <2>3, KeptNames
  <2>5. getDefaultCaseList(raw) = Kept(names)
    BY <1>2 DEF getDefaultCaseList
  <2> HIDE DEF names, T
  <2> DEFINE W == {Trim(names[i]) : i \in DOMAIN names} \ {""}
  <2>6. "" \notin W
    OBVIOUS
  <2>7. getDefaultCaseList(raw) \in Seq(W)
    BY <2>4, <2>5
  <2> HIDE DEF W
  <2> QED BY <2>6, <2>7
<1>3. CASE raw.t \notin {"text", "list"}
  <2>1. getDefaultCaseList(raw) = <<>>
    BY <1>3 DEF getDefaultCaseList
  <2>2. getDefaultCaseList(raw) \in Seq({})
    BY <2>1
  <2>3. "" \notin {}
    OBVIOUS
  <2> QED BY <2>2, <2>3
<1> QED BY <1>1, <1>2, <1>3

(* MergeByName places the incoming items one by one.                         *)
LEMMA MergeDefined ==
    ASSUME NEW T, NEW incoming \in Seq(T), NEW base
    PROVE  \E f : /\ MergeByName(base, incoming) = f[Len(incoming)] /\ f[0] = base
                  /\ \A k \in 1..Len(incoming) : f[k] = Placed(f[k - 1], incoming[k])
<1> DEFINE N == Len(incoming)
           First == base
           Next(x, k) == Placed(x, incoming[k])
           merged[k \in 0..N] == IF k = 0 THEN base ELSE Placed(merged[k - 1], incoming[k])
           Rec(f, n) == f = [k \in 0..n |-> IF k = 0 THEN First ELSE Next(f[k - 1], k)]
           S == {n \in Nat : \E f : Rec(f, n)}
<1>1. MergeByName(base, incoming) = merged[N]
  BY DEF MergeByName
<1>2. merged = CHOOSE f : Rec(f, N)
  BY DEF merged
<1> HIDE DEF First, Next, merged
<1>3. \E f : Rec(f, 0)
  <2>1. Rec([k \in 0..0 |-> First], 0)
    OBVIOUS
  <2> QED BY <2>1
<1>4. ASSUME NEW n \in Nat, NEW f, Rec(f, n)
      PROVE  \E g : Rec(g, n + 1)
  <2> DEFINE g == [k \in 0..(n + 1) |-> IF k = n + 1 THEN Next(f[n], k) ELSE f[k]]
  <2>1. \A k \in 0..n : g[k] = f[k]
    OBVIOUS
  <2>2. ASSUME NEW k \in 0..(n + 1)
        PROVE  g[k] = IF k = 0 THEN First ELSE Next(g[k - 1], k)
    <3>1. CASE k = n + 1
      BY <2>1, <3>1
    <3>2. CASE k # n + 1
      <4>1. k \in 0..n /\ (k # 0 => k - 1 \in 0..n)
        BY <3>2
      <4> QED BY <1>4, <2>1, <4>1
    <3> QED BY <3>1, <3>2
  <2>3. Rec(g, n + 1)
    BY <2>2
  <2> QED BY <2>3
<1> HIDE DEF Rec
<1>5. Nat \subseteq S
  <2>1. 0 \in S /\ \A n \in Nat : n \in S => n + 1 \in S
    BY <1>3, <1>4
  <2> HIDE DEF S
  <2> QED BY <2>1, SetInduction
<1>6. N \in Nat
  OBVIOUS
<1>7. Rec(merged, N)
  BY <1>2, <1>5, <1>6
<1>8. merged[0] = First /\ \A k \in 1..N : merged[k] = Next(merged[k - 1], k)
  BY <1>6, <1>7 DEF Rec
<1> QED BY <1>1, <1>8 DEF First, Next

(* LoadInterface goes through the imports in their order.                    *)
LEMMA LoadDefined ==
    ASSUME NEW T, NEW dir, NEW import \in Seq(T), import = dir[Main].content.import
    PROVE  \E f : /\ LoadInterface(dir) = f[Len(import)] /\ f[0] = MainInterface(dir[Main].content)
                  /\ \A k \in 1..Len(import) : f[k] = loadImportedFile(dir, f[k - 1], import[k])
<1> DEFINE N == Len(import)
           First == MainInterface(dir[Main].content)
           Next(x, k) == loadImportedFile(dir, x, import[k])
           loaded[k \in 0..N] == IF k = 0 THEN MainInterface(dir[Main].content) ELSE loadImportedFile(dir, loaded[k - 1], import[k])
           Rec(f, n) == f = [k \in 0..n |-> IF k = 0 THEN First ELSE Next(f[k - 1], k)]
           S == {n \in Nat : \E f : Rec(f, n)}
<1>1. LoadInterface(dir) = loaded[N]
  BY DEF LoadInterface
<1>2. loaded = CHOOSE f : Rec(f, N)
  BY DEF loaded
<1> HIDE DEF First, Next, loaded
<1>3. \E f : Rec(f, 0)
  <2>1. Rec([k \in 0..0 |-> First], 0)
    OBVIOUS
  <2> QED BY <2>1
<1>4. ASSUME NEW n \in Nat, NEW f, Rec(f, n)
      PROVE  \E g : Rec(g, n + 1)
  <2> DEFINE g == [k \in 0..(n + 1) |-> IF k = n + 1 THEN Next(f[n], k) ELSE f[k]]
  <2>1. \A k \in 0..n : g[k] = f[k]
    OBVIOUS
  <2>2. ASSUME NEW k \in 0..(n + 1)
        PROVE  g[k] = IF k = 0 THEN First ELSE Next(g[k - 1], k)
    <3>1. CASE k = n + 1
      BY <2>1, <3>1
    <3>2. CASE k # n + 1
      <4>1. k \in 0..n /\ (k # 0 => k - 1 \in 0..n)
        BY <3>2
      <4> QED BY <1>4, <2>1, <4>1
    <3> QED BY <3>1, <3>2
  <2>3. Rec(g, n + 1)
    BY <2>2
  <2> QED BY <2>3
<1> HIDE DEF Rec
<1>5. Nat \subseteq S
  <2>1. 0 \in S /\ \A n \in Nat : n \in S => n + 1 \in S
    BY <1>3, <1>4
  <2> HIDE DEF S
  <2> QED BY <2>1, SetInduction
<1>6. N \in Nat
  OBVIOUS
<1>7. Rec(loaded, N)
  BY <1>2, <1>5, <1>6
<1>8. loaded[0] = First /\ \A k \in 1..N : loaded[k] = Next(loaded[k - 1], k)
  BY <1>6, <1>7 DEF Rec
<1> QED BY <1>1, <1>8 DEF First, Next

(* A sequence of anything is a sequence of its own items.                    *)
LEMMA SeqIsSeq ==
    ASSUME NEW T, NEW s \in Seq(T)
    PROVE  IsSeq(s)
<1>1. /\ DOMAIN s = 1..Len(s) /\ Len(s) \in Nat
      /\ \A i \in 1..Len(s) : s[i] \in Range(s)
      /\ s = [i \in 1..Len(s) |-> s[i]]
  BY DEF Range
<1> QED BY <1>1 DEF IsSeq

(* An item placed among others is one of them.                               *)
LEMMA PlacedSeq ==
    ASSUME NEW T, NEW items \in Seq(T), NEW x \in T
    PROVE  Placed(items, x) \in Seq(T)
<1> DEFINE same == {i \in DOMAIN items : x.name # "" /\ items[i].name = x.name}
<1>1. CASE same = {}
  <2>1. Placed(items, x) = Append(items, x)
    BY <1>1 DEF Placed
  <2>2. Append(items, x) \in Seq(T)
    OBVIOUS
  <2> QED BY <2>1, <2>2
<1>2. CASE same # {}
  <2>1. Placed(items, x) = [items EXCEPT ![Max(same)] = x]
    BY <1>2 DEF Placed
  <2> DEFINE m == Max(same)
  <2>2. [items EXCEPT ![m] = x] \in Seq(T)
    <3> HIDE DEF m
    <3>1. [items EXCEPT ![m] = x] = [i \in 1..Len(items) |-> IF i = m THEN x ELSE items[i]]
      OBVIOUS
    <3> DEFINE g(i) == IF i = m THEN x ELSE items[i]
    <3>2. \A i \in 1..Len(items) : g(i) \in T
      OBVIOUS
    <3>3. [items EXCEPT ![m] = x] = [i \in 1..Len(items) |-> g(i)] /\ Len(items) \in Nat
      BY <3>1
    <3> HIDE DEF g
    <3>4. [i \in 1..Len(items) |-> g(i)] \in Seq(T)
      BY <3>2, <3>3
    <3> QED BY <3>3, <3>4, Zenon
  <2> QED BY <2>1, <2>2
<1> QED BY <1>1, <1>2

(* So is every item that mergeTasksByName or mergePresetsByName merges.      *)
LEMMA MergeSeq ==
    ASSUME NEW T, NEW base \in Seq(T), NEW incoming \in Seq(T)
    PROVE  MergeByName(base, incoming) \in Seq(T)
<1> DEFINE N == Len(incoming)
<1>1. PICK f : /\ MergeByName(base, incoming) = f[N] /\ f[0] = base
               /\ \A k \in 1..N : f[k] = Placed(f[k - 1], incoming[k])
  BY MergeDefined
<1> DEFINE S == {k \in 0..N : f[k] \in Seq(T)}
<1>2. N \in Nat
  OBVIOUS
<1>3. 0 \in S
  BY <1>1, <1>2
<1>4. ASSUME NEW k \in 1..N, k - 1 \in S PROVE k \in S
  <2>1. incoming[k] \in T /\ f[k - 1] \in Seq(T)
    BY <1>4
  <2>2. f[k] \in Seq(T)
    BY <1>1, <2>1, PlacedSeq
  <2> QED BY <2>2
<1>5. N \in S
  <2> HIDE DEF S, N
  <2>1. 0..N \subseteq S
    BY <1>2, <1>3, <1>4, UpTo
  <2> QED BY <1>2, <2>1
<1> QED BY <1>1, <1>5

(* Whatever of its imports can be read, an interface has the types that its  *)
(* files have.                                                               *)
LEMMA LoadTyped ==
    ASSUME NEW dir, Main \in DOMAIN dir, IsSeq(dir[Main].content.import),
           \A path \in DOMAIN dir : Typed(dir[path].content)
    PROVE  Typed(LoadInterface(dir))
<1> DEFINE import == dir[Main].content.import
           N == Len(import)
<1>0. import \in Seq(Range(import))
  BY DEF IsSeq
<1>1. PICK f : /\ LoadInterface(dir) = f[N] /\ f[0] = MainInterface(dir[Main].content)
               /\ \A k \in 1..N : f[k] = loadImportedFile(dir, f[k - 1], import[k])
  BY <1>0, LoadDefined
<1> DEFINE Shaped(p) == {"tasks", "option", "presets"} \subseteq DOMAIN p
           S == {k \in 0..N : Shaped(f[k]) /\ Typed(f[k])}
<1>2. 0 \in S
  <2>1. Typed(dir[Main].content)
    OBVIOUS
  <2>2. Shaped(f[0]) /\ Typed(f[0])
    BY <1>1, <2>1 DEF MainInterface, Typed
  <2> QED BY <1>0, <2>2
<1>3. ASSUME NEW k \in 1..N, k - 1 \in S PROVE k \in S
  <2> DEFINE p == f[k - 1]
             path == import[k]
             c == dir[path].content
  <2>1. Shaped(p) /\ Typed(p) /\ f[k] = loadImportedFile(dir, p, path)
    BY <1>1, <1>3
  <2> HIDE DEF p, path
  <2>2. CASE ~Unmarshals(dir, path)
    <3>1. f[k] = p
      BY <2>1, <2>2 DEF loadImportedFile
    <3> QED BY <1>0, <2>1, <3>1
  <2>3. CASE Unmarshals(dir, path)
    <3> DEFINE tasks == mergeTasksByName(p.tasks, c.tasks)
               new == NotNull(c.option)
               option == Over(new, p.option)
    <3>1. Typed(c)
      BY <2>3 DEF Unmarshals
    <3>2. IsSeq(tasks) /\ \A t \in Range(tasks) : IsSeq(t.option)
      <4> DEFINE T == Range(p.tasks) \cup Range(c.tasks)
      <4>1. p.tasks \in Seq(T) /\ c.tasks \in Seq(T) /\ \A t \in T : IsSeq(t.option)
        BY <2>1, <3>1 DEF Typed, IsSeq
      <4> HIDE DEF T
      <4>2. tasks \in Seq(T)
        BY <4>1, MergeSeq DEF mergeTasksByName
      <4> HIDE DEF tasks
      <4>3. Range(tasks) \subseteq T
        BY <4>2 DEF Range
      <4> QED BY <4>1, <4>2, <4>3, SeqIsSeq
    <3>3. \A name \in DOMAIN option : OptionTyped(option[name])
      <4>1. \A name \in DOMAIN new : name \in DOMAIN c.option /\ new[name] = c.option[name]
        BY DEF NotNull
      <4> HIDE DEF new
      <4>2. \A name \in DOMAIN option :
              \/ name \in DOMAIN new /\ option[name] = new[name]
              \/ name \in DOMAIN p.option /\ option[name] = p.option[name]
        BY DEF Over
      <4> HIDE DEF option
      <4> QED BY <2>1, <3>1, <4>1, <4>2 DEF Typed
    <3>4. /\ Shaped(f[k]) /\ f[k].tasks = tasks /\ f[k].option = option
      <4> HIDE DEF tasks, option
      <4> QED BY <2>1, <2>3 DEF loadImportedFile, tasks, option
    <3>5. Typed(f[k])
      <4> HIDE DEF tasks, option
      <4> QED BY <3>2, <3>3, <3>4 DEF Typed
    <3> QED BY <1>0, <3>4, <3>5
  <2> QED BY <2>2, <2>3
<1>4. N \in S
  <2>1. N \in Nat
    BY <1>0
  <2> HIDE DEF S, N
  <2> QED BY <1>2, <1>3, <2>1, UpTo
<1> QED BY <1>1, <1>4
-------------------------------------------------------------------------------

(* stripJSONComments takes one turn after the other.                        *)
LEMMA StripDefined ==
    ASSUME NEW T, NEW text \in Seq(T)
    PROVE  \E f : /\ stripJSONComments(text) = f[Len(text)].out /\ f[0] = [next |-> 1, mode |-> "code", out |-> <<>>]
                  /\ \A k \in 1..Len(text) : f[k] = Turn(text, f[k - 1])
<1> DEFINE N == Len(text)
           First == [next |-> 1, mode |-> "code", out |-> <<>>]
           Next(x, k) == Turn(text, x)
           turns[k \in 0..N] == IF k = 0 THEN [next |-> 1, mode |-> "code", out |-> <<>>] ELSE Turn(text, turns[k - 1])
           Rec(f, n) == f = [k \in 0..n |-> IF k = 0 THEN First ELSE Next(f[k - 1], k)]
           S == {n \in Nat : \E f : Rec(f, n)}
<1>1. stripJSONComments(text) = turns[N].out
  BY DEF stripJSONComments
<1>2. turns = CHOOSE f : Rec(f, N)
  BY DEF turns
<1> HIDE DEF First, Next, turns
<1>3. \E f : Rec(f, 0)
  <2>1. Rec([k \in 0..0 |-> First], 0)
    OBVIOUS
  <2> QED BY <2>1
<1>4. ASSUME NEW n \in Nat, NEW f, Rec(f, n)
      PROVE  \E g : Rec(g, n + 1)
  <2> DEFINE g == [k \in 0..(n + 1) |-> IF k = n + 1 THEN Next(f[n], k) ELSE f[k]]
  <2>1. \A k \in 0..n : g[k] = f[k]
    OBVIOUS
  <2>2. ASSUME NEW k \in 0..(n + 1)
        PROVE  g[k] = IF k = 0 THEN First ELSE Next(g[k - 1], k)
    <3>1. CASE k = n + 1
      BY <2>1, <3>1
    <3>2. CASE k # n + 1
      <4>1. k \in 0..n /\ (k # 0 => k - 1 \in 0..n)
        BY <3>2
      <4> QED BY <1>4, <2>1, <4>1
    <3> QED BY <3>1, <3>2
  <2>3. Rec(g, n + 1)
    BY <2>2
  <2> QED BY <2>3
<1> HIDE DEF Rec
<1>5. Nat \subseteq S
  <2>1. 0 \in S /\ \A n \in Nat : n \in S => n + 1 \in S
    BY <1>3, <1>4
  <2> HIDE DEF S
  <2> QED BY <2>1, SetInduction
<1>6. N \in Nat
  OBVIOUS
<1>7. Rec(turns, N)
  BY <1>2, <1>5, <1>6
<1>8. turns[0] = First /\ \A k \in 1..N : turns[k] = Next(turns[k - 1], k)
  BY <1>6, <1>7 DEF Rec
<1> QED BY <1>1, <1>8 DEF First, Next

(* What stays is what stays of each byte.                                    *)
LEMMA WithoutDefined ==
    ASSUME NEW T, NEW text \in Seq(T)
    PROVE  \E f : /\ WithoutComments(text) = f[Len(text)] /\ f[0] = <<>>
                  /\ \A k \in 1..Len(text) : f[k] = (IF Stays(text, Reading(text), k) THEN Append(f[k - 1], text[k]) ELSE f[k - 1])
<1> DEFINE N == Len(text)
           First == <<>>
           Next(x, k) == (IF Stays(text, Reading(text), k) THEN Append(x, text[k]) ELSE x)
           kept[k \in 0..N] == IF k = 0 THEN <<>> ELSE (IF Stays(text, Reading(text), k) THEN Append(kept[k - 1], text[k]) ELSE kept[k - 1])
           Rec(f, n) == f = [k \in 0..n |-> IF k = 0 THEN First ELSE Next(f[k - 1], k)]
           S == {n \in Nat : \E f : Rec(f, n)}
<1>1. WithoutComments(text) = kept[N]
  BY DEF WithoutComments
<1>2. kept = CHOOSE f : Rec(f, N)
  BY DEF kept
<1> HIDE DEF First, Next, kept
<1>3. \E f : Rec(f, 0)
  <2>1. Rec([k \in 0..0 |-> First], 0)
    OBVIOUS
  <2> QED BY <2>1
<1>4. ASSUME NEW n \in Nat, NEW f, Rec(f, n)
      PROVE  \E g : Rec(g, n + 1)
  <2> DEFINE g == [k \in 0..(n + 1) |-> IF k = n + 1 THEN Next(f[n], k) ELSE f[k]]
  <2>1. \A k \in 0..n : g[k] = f[k]
    OBVIOUS
  <2>2. ASSUME NEW k \in 0..(n + 1)
        PROVE  g[k] = IF k = 0 THEN First ELSE Next(g[k - 1], k)
    <3>1. CASE k = n + 1
      BY <2>1, <3>1
    <3>2. CASE k # n + 1
      <4>1. k \in 0..n /\ (k # 0 => k - 1 \in 0..n)
        BY <3>2
      <4> QED BY <1>4, <2>1, <4>1
    <3> QED BY <3>1, <3>2
  <2>3. Rec(g, n + 1)
    BY <2>2
  <2> QED BY <2>3
<1> HIDE DEF Rec
<1>5. Nat \subseteq S
  <2>1. 0 \in S /\ \A n \in Nat : n \in S => n + 1 \in S
    BY <1>3, <1>4
  <2> HIDE DEF S
  <2> QED BY <2>1, SetInduction
<1>6. N \in Nat
  OBVIOUS
<1>7. Rec(kept, N)
  BY <1>2, <1>5, <1>6
<1>8. kept[0] = First /\ \A k \in 1..N : kept[k] = Next(kept[k - 1], k)
  BY <1>6, <1>7 DEF Rec
<1> QED BY <1>1, <1>8 DEF First, Next

(* Every byte but the first is read as the one before it says.               *)
LEMMA ReadingDefined ==
    ASSUME NEW T, NEW text \in Seq(T)
    PROVE  /\ Reading(text)[1] = "code"
           /\ \A k \in 1..Len(text) : Reading(text)[k + 1] = After(text, Reading(text)[k], k)
<1> DEFINE N == Len(text)
           First == "code"
           Next(x, k) == After(text, x, k - 1)
           mode[k \in 1..(N + 1)] == IF k = 1 THEN "code" ELSE After(text, mode[k - 1], k - 1)
           Rec(f, n) == f = [k \in 1..(n + 1) |-> IF k = 1 THEN First ELSE Next(f[k - 1], k)]
           S == {n \in Nat : \E f : Rec(f, n)}
<1>1. Reading(text) = mode
  BY DEF Reading
<1>2. mode = CHOOSE f : Rec(f, N)
  BY DEF mode
<1> HIDE DEF First, Next, mode
<1>3. \E f : Rec(f, 0)
  <2>1. Rec([k \in 1..1 |-> First], 0)
    OBVIOUS
  <2> QED BY <2>1
<1>4. ASSUME NEW n \in Nat, NEW f, Rec(f, n)
      PROVE  \E g : Rec(g, n + 1)
  <2> DEFINE g == [k \in 1..(n + 2) |-> IF k = n + 2 THEN Next(f[n + 1], k) ELSE f[k]]
  <2>1. \A k \in 1..(n + 1) : g[k] = f[k]
    OBVIOUS
  <2>2. ASSUME NEW k \in 1..(n + 2)
        PROVE  g[k] = IF k = 1 THEN First ELSE Next(g[k - 1], k)
    <3>1. CASE k = n + 2
      BY <2>1, <3>1
    <3>2. CASE k # n + 2
      <4>1. k \in 1..(n + 1) /\ (k # 1 => k - 1 \in 1..(n + 1))
        BY <3>2
      <4> QED BY <1>4, <2>1, <4>1
    <3> QED BY <3>1, <3>2
  <2>3. Rec(g, n + 1)
    BY <2>2
  <2> QED BY <2>3
<1> HIDE DEF Rec
<1>5. Nat \subseteq S
  <2>1. 0 \in S /\ \A n \in Nat : n \in S => n + 1 \in S
    BY <1>3, <1>4
  <2> HIDE DEF S
  <2> QED BY <2>1, SetInduction
<1>6. N \in Nat
  OBVIOUS
<1>7. Rec(mode, N)
  BY <1>2, <1>5, <1>6
<1>8. mode[1] = First /\ \A k \in 1..N : mode[k + 1] = Next(mode[k], k + 1)
  BY <1>6, <1>7 DEF Rec
<1> QED BY <1>1, <1>6, <1>8 DEF First, Next

(* How the byte after byte i is read.                                        *)
LEMMA NextReading ==
    ASSUME NEW text, NEW i
    PROVE  LET next == i + 1 <= Len(text)
           IN  /\ After(text, "escaped", i) = "string"
               /\ After(text, "string", i) = IF text[i] = Backslash THEN "escaped"
                                             ELSE IF text[i] = Quote THEN "code" ELSE "string"
               /\ After(text, "opening line", i) = "line"
               /\ After(text, "line", i) = IF text[i] = Newline THEN "code" ELSE "line"
               /\ After(text, "opening block", i) = "block"
               /\ After(text, "block", i) = IF text[i] = Star /\ next /\ text[i + 1] = Slash THEN "closing" ELSE "block"
               /\ After(text, "closing", i) = "code"
               /\ After(text, "code", i) = IF text[i] = Slash /\ next /\ text[i + 1] = Slash THEN "opening line"
                                           ELSE IF text[i] = Slash /\ next /\ text[i + 1] = Star THEN "opening block"
                                           ELSE IF text[i] = Quote THEN "string" ELSE "code"
BY DEF After, Quote, Backslash, Newline, Slash, Star

(* The turn has copied what stays of the bytes before its next one, and      *)
(* reads that one as it is to be read; there is nothing to read at the end.  *)
Keeping(text, kept, s) ==
    /\ s.next \in 1..(Len(text) + 1)
    /\ s.out = kept[s.next - 1]
    /\ s.next <= Len(text) => /\ s.mode = Reading(text)[s.next]
                              /\ s.mode \in {"code", "string", "line", "block"}

(* How the next byte is read, from how byte i is read.                       *)
LEMMA ReadAfter ==
    ASSUME NEW T, NEW text \in Seq(T), NEW i \in 1..Len(text)
    PROVE  LET now == Reading(text)[i]
               next == Reading(text)[i + 1]
           IN  /\ now = "escaped" => next = "string"
               /\ now = "string" => next = IF text[i] = Backslash THEN "escaped"
                                           ELSE IF text[i] = Quote THEN "code" ELSE "string"
               /\ now = "opening line" => next = "line"
               /\ now = "line" => next = IF text[i] = Newline THEN "code" ELSE "line"
               /\ now = "opening block" => next = "block"
               /\ now = "block" => next = IF text[i] = Star /\ i + 1 <= Len(text) /\ text[i + 1] = Slash
                                          THEN "closing" ELSE "block"
               /\ now = "closing" => next = "code"
               /\ now = "code" => next = IF text[i] = Slash /\ i + 1 <= Len(text) /\ text[i + 1] = Slash
                                         THEN "opening line"
                                         ELSE IF text[i] = Slash /\ i + 1 <= Len(text) /\ text[i + 1] = Star
                                         THEN "opening block"
                                         ELSE IF text[i] = Quote THEN "string" ELSE "code"
<1> DEFINE R == Reading(text)
<1>1. R[i + 1] = After(text, R[i], i)
  BY ReadingDefined
<1> HIDE DEF R
<1> QED BY <1>1, NextReading DEF R

(* A turn that goes on by one byte or by two, has copied what stays of them, *)
(* and has the mode in which the next byte is read keeps to the reading.     *)
LEMMA Lands ==
    ASSUME NEW text, NEW N \in Nat, N = Len(text), NEW i \in 1..N, NEW kept, NEW t,
           \/ /\ t.next = i + 1 /\ t.out = kept[i]
              /\ i < N => t.mode = Reading(text)[i + 1] /\ t.mode \in {"code", "string", "line", "block"}
           \/ /\ t.next = i + 2 /\ t.out = kept[i + 1] /\ i < N
              /\ t.mode = Reading(text)[i + 2] /\ t.mode \in {"code", "string", "line", "block"}
    PROVE  Keeping(text, kept, t) /\ t.next > i
<1>1. i + 1 - 1 = i /\ i + 2 - 1 = i + 1
  OBVIOUS
<1> QED BY <1>1 DEF Keeping

(* Every turn of the loop keeps to the reading and gets ahead: a byte in a   *)
(* string or outside is copied, an escape takes the next byte with it, and a *)
(* comment is skipped, with both bytes of its opening and its closing.       *)
LEMMA TurnKeeps ==
    ASSUME NEW T, NEW text \in Seq(T), Closed(text), NEW kept,
           \A k \in 1..Len(text) :
               kept[k] = IF Stays(text, Reading(text), k) THEN Append(kept[k - 1], text[k]) ELSE kept[k - 1],
           NEW s, Keeping(text, kept, s), s.next <= Len(text)
    PROVE  Keeping(text, kept, Turn(text, s)) /\ Turn(text, s).next > s.next
<1> DEFINE N == Len(text)
           R == Reading(text)
           i == s.next
           t == Turn(text, s)
           new == text[i]
           newer == text[i + 1]
<1>1. N \in Nat /\ i \in 1..N /\ ~(i > N) /\ (i < N => i + 1 \in 1..N) /\ (i + 1 <= N <=> i < N)
  BY DEF Keeping
<1>2. i = N <=> ~(i < N)
  BY <1>1
<1>3. /\ s.mode = R[i] /\ s.mode \in {"code", "string", "line", "block"}
      /\ s.out = kept[i - 1]
  BY DEF Keeping
<1>4. R[N + 1] # "block"
  BY DEF Closed
<1>5. kept[i] = IF Stays(text, R, i) THEN Append(kept[i - 1], new) ELSE kept[i - 1]
  BY <1>1
<1>6. i < N => kept[i + 1] = IF Stays(text, R, i + 1) THEN Append(kept[i], newer) ELSE kept[i]
  <2>1. i + 1 - 1 = i
    BY <1>1
  <2> QED BY <1>1, <2>1
<1>7. /\ R[i] = "string" => R[i + 1] = IF new = Backslash THEN "escaped"
                                       ELSE IF new = Quote THEN "code" ELSE "string"
      /\ R[i] = "line" => R[i + 1] = IF new = Newline THEN "code" ELSE "line"
      /\ R[i] = "block" => R[i + 1] = IF new = Star /\ i < N /\ newer = Slash THEN "closing" ELSE "block"
      /\ R[i] = "code" => R[i + 1] = IF new = Slash /\ i < N /\ newer = Slash THEN "opening line"
                                     ELSE IF new = Slash /\ i < N /\ newer = Star THEN "opening block"
                                     ELSE IF new = Quote THEN "string" ELSE "code"
  BY <1>1, ReadAfter
<1>8. i < N => /\ R[i + 1] = "escaped" => R[i + 2] = "string"
               /\ R[i + 1] = "opening line" => R[i + 2] = "line"
               /\ R[i + 1] = "opening block" => R[i + 2] = "block"
               /\ R[i + 1] = "closing" => R[i + 2] = "code"
  <2> SUFFICES ASSUME i < N
               PROVE  /\ R[i + 1] = "escaped" => R[i + 2] = "string"
                      /\ R[i + 1] = "opening line" => R[i + 2] = "line"
                      /\ R[i + 1] = "opening block" => R[i + 2] = "block"
                      /\ R[i + 1] = "closing" => R[i + 2] = "code"
    OBVIOUS
  <2> DEFINE j == i + 1
  <2>1. j \in 1..N /\ j + 1 = i + 2
    BY <1>1
  <2> HIDE DEF j
  <2>2. /\ R[j] = "escaped" => R[j + 1] = "string"
        /\ R[j] = "opening line" => R[j + 1] = "line"
        /\ R[j] = "opening block" => R[j + 1] = "block"
        /\ R[j] = "closing" => R[j + 1] = "code"
    BY <2>1, ReadAfter
  <2> HIDE DEF R
  <2>3. R[i + 1] = R[j] /\ R[i + 2] = R[j + 1]
    BY <2>1 DEF j
  <2> QED BY <2>2, <2>3, Zenon
<1>9. CASE s.mode = "string"
  <2>1. Stays(text, R, i)
    BY <1>3, <1>9 DEF Stays
  <2>2. CASE new = Backslash /\ i < N
    <3>1. t.next = i + 2 /\ t.mode = "string" /\ t.out = Append(Append(s.out, new), newer)
      BY <1>1, <1>9, <2>2 DEF Turn
    <3> HIDE DEF N, R, i, t, new, newer
    <3>2. R[i + 1] = "escaped" /\ R[i + 2] = "string"
      BY <1>3, <1>7, <1>8, <1>9, <2>2
    <3>3. Stays(text, R, i + 1)
      BY <3>2 DEF Stays
    <3>4. t.out = kept[i + 1]
      BY <1>3, <1>5, <1>6, <2>1, <2>2, <3>1, <3>3
    <3> QED BY <1>1, <2>2, <3>1, <3>2, <3>4, Lands DEF N, R, i, t
  <2>3. CASE ~(new = Backslash /\ i < N)
    <3>1. t.next = i + 1 /\ t.mode = (IF new = Quote THEN "code" ELSE "string") /\ t.out = Append(s.out, new)
      BY <1>1, <1>9, <2>3 DEF Turn
    <3> HIDE DEF N, R, i, t, new, newer
    <3>2. i < N => R[i + 1] = IF new = Quote THEN "code" ELSE "string"
      BY <1>3, <1>7, <1>9, <2>3
    <3>3. t.out = kept[i]
      BY <1>3, <1>5, <2>1, <3>1
    <3> QED BY <1>1, <3>1, <3>2, <3>3, Lands DEF N, R, i, t
  <2> QED BY <2>2, <2>3
<1>10. CASE s.mode = "line"
  <2>1. t.next = i + 1 /\ t.mode = (IF new = Newline THEN "code" ELSE "line")
        /\ t.out = IF new = Newline THEN Append(s.out, new) ELSE s.out
    BY <1>1, <1>10 DEF Turn
  <2>2. Stays(text, R, i) <=> new = Newline
    BY <1>3, <1>10 DEF Stays
  <2> HIDE DEF N, R, i, t, new, newer
  <2>3. t.out = kept[i] /\ t.mode = R[i + 1]
    BY <1>3, <1>5, <1>7, <1>10, <2>1, <2>2
  <2> QED BY <1>1, <2>1, <2>3, Lands DEF N, R, i, t
<1>11. CASE s.mode = "block"
  <2>1. ~Stays(text, R, i)
    BY <1>3, <1>11 DEF Stays
  <2>2. i < N
    <3>1. i = N => R[i + 1] = "block"
      <4> HIDE DEF N, R, i, new, newer
      <4> QED BY <1>2, <1>3, <1>7, <1>11
    <3>2. i # N
      BY <1>4, <3>1
    <3> QED BY <1>2, <3>2
  <2>3. CASE new = Star /\ newer = Slash
    <3>1. t.next = i + 2 /\ t.mode = "code" /\ t.out = s.out
      BY <1>1, <1>2, <1>11, <2>2, <2>3 DEF Turn
    <3> HIDE DEF N, R, i, t, new, newer
    <3>2. R[i + 1] = "closing" /\ R[i + 2] = "code"
      BY <1>3, <1>7, <1>8, <1>11, <2>2, <2>3
    <3>3. ~Stays(text, R, i + 1)
      BY <3>2 DEF Stays
    <3>4. t.out = kept[i + 1]
      BY <1>3, <1>5, <1>6, <2>1, <2>2, <3>1, <3>3
    <3> QED BY <1>1, <2>2, <3>1, <3>2, <3>4, Lands DEF N, R, i, t
  <2>4. CASE ~(new = Star /\ newer = Slash)
    <3>1. t.next = i + 1 /\ t.mode = "block" /\ t.out = s.out
      BY <1>1, <1>2, <1>11, <2>2, <2>4 DEF Turn
    <3> HIDE DEF N, R, i, t, new, newer
    <3>2. t.out = kept[i] /\ R[i + 1] = "block"
      BY <1>3, <1>5, <1>7, <1>11, <2>1, <2>4, <3>1
    <3> QED BY <1>1, <3>1, <3>2, Lands DEF N, R, i, t
  <2> QED BY <2>3, <2>4
<1>12. CASE s.mode = "code"
  <2>1. CASE new = Slash /\ i < N /\ (newer = Slash \/ newer = Star)
    <3> DEFINE comment == IF newer = Slash THEN "line" ELSE "block"
    <3>1. t.next = i + 2 /\ t.mode = comment /\ t.out = s.out
      BY <1>1, <1>12, <2>1 DEF Turn
    <3> HIDE DEF N, R, i, t, new, newer
    <3>2. R[i + 1] = (IF newer = Slash THEN "opening line" ELSE "opening block")
      BY <1>3, <1>7, <1>12, <2>1
    <3>3. R[i + 2] = comment
      BY <1>8, <2>1, <3>2
    <3>4. ~Stays(text, R, i) /\ ~Stays(text, R, i + 1)
      BY <1>3, <1>12, <3>2 DEF Stays
    <3>5. t.out = kept[i + 1]
      BY <1>3, <1>5, <1>6, <2>1, <3>1, <3>4
    <3> QED BY <1>1, <2>1, <3>1, <3>3, <3>5, Lands DEF N, R, i, t
  <2>2. CASE ~(new = Slash /\ i < N /\ (newer = Slash \/ newer = Star))
    <3>1. t.next = i + 1 /\ t.mode = (IF new = Quote THEN "string" ELSE "code") /\ t.out = Append(s.out, new)
      BY <1>1, <1>12, <2>2 DEF Turn
    <3> HIDE DEF N, R, i, t, new, newer
    <3>2. R[i + 1] = IF new = Quote THEN "string" ELSE "code"
      BY <1>3, <1>7, <1>12, <2>2
    <3>3. Stays(text, R, i)
      BY <1>3, <1>12, <3>2 DEF Stays
    <3>4. t.out = kept[i]
      BY <1>3, <1>5, <3>1, <3>3
    <3> QED BY <1>1, <3>1, <3>2, <3>4, Lands DEF N, R, i, t
  <2> QED BY <2>1, <2>2
<1> QED BY <1>3, <1>9, <1>10, <1>11, <1>12

(* Comments go and everything else stays, for every text that closes its     *)
(* comments: after k turns at least k bytes are behind.                      *)
THEOREM StripsComments ==
    ASSUME NEW T, NEW text \in Seq(T), Closed(text)
    PROVE  stripJSONComments(text) = WithoutComments(text)
<1> DEFINE N == Len(text)
<1>1. PICK f : /\ stripJSONComments(text) = f[N].out /\ f[0] = [next |-> 1, mode |-> "code", out |-> <<>>]
               /\ \A k \in 1..N : f[k] = Turn(text, f[k - 1])
  BY StripDefined
<1>2. PICK kept : /\ WithoutComments(text) = kept[N] /\ kept[0] = <<>>
                  /\ \A k \in 1..N :
                       kept[k] = IF Stays(text, Reading(text), k) THEN Append(kept[k - 1], text[k]) ELSE kept[k - 1]
  BY WithoutDefined
<1>3. N \in Nat
  OBVIOUS
<1> DEFINE S == {k \in 0..N : Keeping(text, kept, f[k]) /\ (f[k].next > k \/ f[k].next = N + 1)}
<1>4. 0 \in S
  <2>1. f[0].next = 1 /\ f[0].mode = "code" /\ f[0].out = <<>>
    BY <1>1
  <2>2. Reading(text)[1] = "code"
    BY ReadingDefined
  <2>3. Keeping(text, kept, f[0])
    BY <1>2, <1>3, <2>1, <2>2 DEF Keeping
  <2> QED BY <1>3, <2>1, <2>3
<1>5. ASSUME NEW k \in 1..N, k - 1 \in S PROVE k \in S
  <2>1. Keeping(text, kept, f[k - 1]) /\ (f[k - 1].next > k - 1 \/ f[k - 1].next = N + 1) /\ f[k] = Turn(text, f[k - 1])
    BY <1>1, <1>5
  <2>2. f[k - 1].next \in 1..(N + 1)
    BY <2>1 DEF Keeping
  <2>3. CASE f[k - 1].next <= N
    <3>1. Keeping(text, kept, f[k]) /\ f[k].next > f[k - 1].next
      BY <1>2, <2>1, <2>3, TurnKeeps
    <3>2. f[k].next \in 1..(N + 1)
      BY <3>1 DEF Keeping
    <3>3. f[k].next > k
      BY <1>3, <2>1, <2>2, <2>3, <3>1, <3>2
    <3> QED BY <3>1, <3>3
  <2>4. CASE f[k - 1].next = N + 1
    <3>1. f[k] = f[k - 1]
      BY <1>3, <2>1, <2>4 DEF Turn
    <3> QED BY <2>1, <2>4, <3>1
  <2> QED BY <1>3, <2>2, <2>3, <2>4
<1>6. N \in S
  <2> HIDE DEF S, N
  <2>1. 0..N \subseteq S
    BY <1>3, <1>4, <1>5, UpTo
  <2> QED BY <1>3, <2>1
<1>7. f[N].next = N + 1 /\ f[N].out = kept[f[N].next - 1]
  <2>1. Keeping(text, kept, f[N]) /\ (f[N].next > N \/ f[N].next = N + 1)
    BY <1>6
  <2> QED BY <1>3, <2>1 DEF Keeping
<1> QED BY <1>1, <1>2, <1>3, <1>7
-------------------------------------------------------------------------------
(* What LastOfEachName says of the item in position i: whether its name is   *)
(* new there, and where its name is last.                                    *)
New(items, i) == items[i].name = "" \/ \A j \in 1..(i - 1) : items[j].name # items[i].name
LastOf(items, i) == IF items[i].name = "" THEN i ELSE Max({j \in DOMAIN items : items[j].name = items[i].name})

(* The names in their order, those that are new.                             *)
LEMMA ListedDefined ==
    ASSUME NEW T, NEW items \in Seq(T)
    PROVE  \E f : /\ LastOfEachName(items) = f[Len(items)] /\ f[0] = <<>>
                  /\ \A k \in 1..Len(items) : f[k] = (IF New(items, k) THEN Append(f[k - 1], items[LastOf(items, k)]) ELSE f[k - 1])
<1> DEFINE N == Len(items)
           First == <<>>
           Next(x, k) == (IF New(items, k) THEN Append(x, items[LastOf(items, k)]) ELSE x)
           listed[k \in 0..N] == IF k = 0 THEN <<>> ELSE (IF New(items, k) THEN Append(listed[k - 1], items[LastOf(items, k)]) ELSE listed[k - 1])
           Rec(f, n) == f = [k \in 0..n |-> IF k = 0 THEN First ELSE Next(f[k - 1], k)]
           S == {n \in Nat : \E f : Rec(f, n)}
<1>1. LastOfEachName(items) = listed[N]
  BY DEF LastOfEachName, New, LastOf
<1>2. listed = CHOOSE f : Rec(f, N)
  BY DEF listed
<1> HIDE DEF First, Next, listed
<1>3. \E f : Rec(f, 0)
  <2>1. Rec([k \in 0..0 |-> First], 0)
    OBVIOUS
  <2> QED BY <2>1
<1>4. ASSUME NEW n \in Nat, NEW f, Rec(f, n)
      PROVE  \E g : Rec(g, n + 1)
  <2> DEFINE g == [k \in 0..(n + 1) |-> IF k = n + 1 THEN Next(f[n], k) ELSE f[k]]
  <2>1. \A k \in 0..n : g[k] = f[k]
    OBVIOUS
  <2>2. ASSUME NEW k \in 0..(n + 1)
        PROVE  g[k] = IF k = 0 THEN First ELSE Next(g[k - 1], k)
    <3>1. CASE k = n + 1
      BY <2>1, <3>1
    <3>2. CASE k # n + 1
      <4>1. k \in 0..n /\ (k # 0 => k - 1 \in 0..n)
        BY <3>2
      <4> QED BY <1>4, <2>1, <4>1
    <3> QED BY <3>1, <3>2
  <2>3. Rec(g, n + 1)
    BY <2>2
  <2> QED BY <2>3
<1> HIDE DEF Rec
<1>5. Nat \subseteq S
  <2>1. 0 \in S /\ \A n \in Nat : n \in S => n + 1 \in S
    BY <1>3, <1>4
  <2> HIDE DEF S
  <2> QED BY <2>1, SetInduction
<1>6. N \in Nat
  OBVIOUS
<1>7. Rec(listed, N)
  BY <1>2, <1>5, <1>6
<1>8. listed[0] = First /\ \A k \in 1..N : listed[k] = Next(listed[k - 1], k)
  BY <1>6, <1>7 DEF Rec
<1> QED BY <1>1, <1>8 DEF First, Next

(* A set of numbers up to a bound has a greatest one.                        *)
LEMMA Greatest ==
    ASSUME NEW N \in Nat, NEW S, S \subseteq 0..N, S # {}
    PROVE  Max(S) \in S /\ \A y \in S : y <= Max(S)
<1> DEFINE T == {N - y : y \in S}
<1>1. T \subseteq Nat /\ T # {}
  <2>1. \A y \in S : N - y \in Nat
    OBVIOUS
  <2> QED BY <2>1
<1> HIDE DEF T
<1>2. PICK z \in T : \A y \in T : ~(<<y, z>> \in OpToRel(<, Nat))
  BY <1>1, NatLessThanWellFounded, WFMin
<1>3. ASSUME NEW y \in T PROVE z <= y
  <2>1. <<y, z>> \in Nat \X Nat /\ <<y, z>>[1] = y /\ <<y, z>>[2] = z
    BY <1>1
  <2>2. OpToRel(<, Nat) = {ss \in Nat \X Nat : ss[1] < ss[2]}
    BY DEF OpToRel
  <2>3. <<y, z>> \notin {ss \in Nat \X Nat : ss[1] < ss[2]}
    BY <1>2, <2>2, Zenon
  <2>4. ~(y < z)
    BY <2>1, <2>3
  <2> QED BY <1>1, <2>4
<1>4. PICK x \in S : z = N - x
  BY DEF T
<1>5. ASSUME NEW y \in S PROVE x >= y
  <2>1. N - y \in T
    BY DEF T
  <2>2. z <= N - y
    BY <1>3, <2>1
  <2> QED BY <1>4, <2>2
<1>6. Max(S) \in S /\ \A y \in S : Max(S) >= y
  BY <1>5 DEF Max
<1> QED BY <1>6

(* A number that none of the set exceeds is its greatest.                    *)
LEMMA MaxIs ==
    ASSUME NEW S, S \subseteq Int, NEW m \in S, \A y \in S : y <= m
    PROVE  Max(S) = m
<1>1. Max(S) \in S /\ \A y \in S : Max(S) >= y
  BY DEF Max
<1> DEFINE x == Max(S)
<1> HIDE DEF x
<1>2. x \in Int /\ m \in Int /\ x >= m /\ x <= m
  BY <1>1 DEF x
<1> QED BY <1>2 DEF x

(* What is listed of the first k items.                                      *)
Lists(s, items, k) ==
    /\ \A i \in DOMAIN s : \E j \in 1..k : s[i].name = items[j].name
    /\ \A j \in 1..k : \E i \in DOMAIN s : s[i].name = items[j].name

(* The last item of a name has that name, and no item after it has.          *)
LEMMA LastIsLast ==
    ASSUME NEW T, NEW items \in Seq(T), NEW k \in DOMAIN items
    PROVE  /\ LastOf(items, k) \in DOMAIN items /\ items[LastOf(items, k)].name = items[k].name
           /\ items[k].name # "" => \A j \in DOMAIN items : items[j].name = items[k].name => j <= LastOf(items, k)
<1> DEFINE S == {j \in DOMAIN items : items[j].name = items[k].name}
<1>1. CASE items[k].name = ""
  BY <1>1 DEF LastOf
<1>2. CASE items[k].name # ""
  <2>1. LastOf(items, k) = Max(S)
    BY <1>2 DEF LastOf
  <2>2. S \subseteq 0..Len(items) /\ S # {} /\ Len(items) \in Nat
    OBVIOUS
  <2> HIDE DEF S
  <2>3. Max(S) \in S /\ \A y \in S : y <= Max(S)
    BY <2>2, Greatest
  <2> QED BY <1>2, <2>1, <2>3 DEF S
<1> QED BY <1>1, <1>2

(* What is appended comes last, and the others stay where they are.          *)
LEMMA Appended ==
    ASSUME NEW T, NEW s \in Seq(T), NEW x \in T
    PROVE  LET t == Append(s, x)
               n == Len(s)
           IN  /\ t \in Seq(T) /\ Len(t) = n + 1 /\ n \in Nat
               /\ \A i \in DOMAIN t : (i \in DOMAIN s /\ t[i] = s[i]) \/ (i = n + 1 /\ t[i] = x)
               /\ \A i \in DOMAIN s : i \in DOMAIN t /\ t[i] = s[i] /\ i # n + 1
               /\ n + 1 \in DOMAIN t /\ t[n + 1] = x
<1> DEFINE t == Append(s, x)
           n == Len(s)
<1>1. t \in Seq(T) /\ n \in Nat /\ DOMAIN s = 1..n
  OBVIOUS
<1>2. Len(t) = n + 1 /\ DOMAIN t = 1..(n + 1)
  BY <1>1
<1>3. t[n + 1] = x /\ \A i \in 1..n : t[i] = s[i]
  BY <1>1
<1> HIDE DEF t, n
<1>4. \A i \in 1..(n + 1) : i \in 1..n \/ i = n + 1
  BY <1>1
<1>5. n + 1 \in 1..(n + 1) /\ \A i \in 1..n : i \in 1..(n + 1) /\ i # n + 1
  BY <1>1
<1> QED BY <1>1, <1>2, <1>3, <1>4, <1>5 DEF t, n

(* One item more.                                                            *)
LEMMA OneMore ==
    ASSUME NEW T, NEW s \in Seq(T), NEW x \in T, NEW items, NEW k \in Nat \ {0},
           Once(s), Lists(s, items, k - 1), x.name = items[k].name
    PROVE  /\ (x.name = "" \/ \A j \in 1..(k - 1) : items[j].name # x.name) =>
                 Append(s, x) \in Seq(T) /\ Once(Append(s, x)) /\ Lists(Append(s, x), items, k)
           /\ (\E j \in 1..(k - 1) : items[j].name = x.name) => Lists(s, items, k)
<1>1. /\ \A i \in DOMAIN s : \E j \in 1..(k - 1) : s[i].name = items[j].name
      /\ \A j \in 1..(k - 1) : \E i \in DOMAIN s : s[i].name = items[j].name
  BY DEF Lists
<1>2. \A j \in 1..k : j = k \/ j \in 1..(k - 1)
  OBVIOUS
<1>3. k \in 1..k /\ \A j \in 1..(k - 1) : j \in 1..k
  OBVIOUS
<1>4. ASSUME x.name = "" \/ \A j \in 1..(k - 1) : items[j].name # x.name
      PROVE  Append(s, x) \in Seq(T) /\ Once(Append(s, x)) /\ Lists(Append(s, x), items, k)
  <2> DEFINE t == Append(s, x)
             n == Len(s)
  <2>1. /\ t \in Seq(T)
        /\ \A i \in DOMAIN t : (i \in DOMAIN s /\ t[i] = s[i]) \/ (i = n + 1 /\ t[i] = x)
        /\ \A i \in DOMAIN s : i \in DOMAIN t /\ t[i] = s[i] /\ i # n + 1
        /\ n + 1 \in DOMAIN t /\ t[n + 1] = x
    BY Appended
  <2> HIDE DEF t, n
  <2>2. x.name = "" \/ \A i \in DOMAIN s : s[i].name # x.name
    BY <1>1, <1>4
  <2>3. Once(t)
    <3> SUFFICES ASSUME NEW i \in DOMAIN t, NEW j \in DOMAIN t, t[i].name # "", t[i].name = t[j].name
                 PROVE  i = j
      BY DEF Once
    <3>1. CASE i \in DOMAIN s /\ j \in DOMAIN s
      BY <2>1, <3>1 DEF Once
    <3>2. CASE ~(i \in DOMAIN s /\ j \in DOMAIN s)
      BY <2>1, <2>2, <3>2
    <3> QED BY <3>1, <3>2
  <2>4. \A i \in DOMAIN t : \E j \in 1..k : t[i].name = items[j].name
    <3> SUFFICES ASSUME NEW i \in DOMAIN t PROVE \E j \in 1..k : t[i].name = items[j].name
      OBVIOUS
    <3>1. CASE i \in DOMAIN s /\ t[i] = s[i]
      BY <1>1, <1>3, <3>1, Zenon
    <3>2. CASE t[i] = x
      BY <1>3, <3>2, Zenon
    <3> QED BY <2>1, <3>1, <3>2
  <2>5. \A j \in 1..k : \E i \in DOMAIN t : t[i].name = items[j].name
    <3> SUFFICES ASSUME NEW j \in 1..k PROVE \E i \in DOMAIN t : t[i].name = items[j].name
      OBVIOUS
    <3>1. CASE j = k
      BY <2>1, <3>1, Zenon
    <3>2. CASE j \in 1..(k - 1)
      <4>1. PICK i \in DOMAIN s : s[i].name = items[j].name
        BY <1>1, <3>2
      <4>2. i \in DOMAIN t /\ t[i] = s[i]
        BY <2>1
      <4> QED BY <4>1, <4>2, Zenon
    <3> QED BY <1>2, <3>1, <3>2
  <2> QED BY <2>1, <2>3, <2>4, <2>5 DEF Lists, t
<1>5. ASSUME NEW j \in 1..(k - 1), items[j].name = x.name PROVE Lists(s, items, k)
  <2>1. \A i \in DOMAIN s : \E l \in 1..k : s[i].name = items[l].name
    BY <1>1, <1>3
  <2>2. \A l \in 1..k : \E i \in DOMAIN s : s[i].name = items[l].name
    BY <1>1, <1>2, <1>5
  <2> QED BY <2>1, <2>2 DEF Lists
<1> QED BY <1>4, <1>5

(* What is listed of the first m items has each of their names once.         *)
LEMMA ListedShape ==
    ASSUME NEW T, NEW items \in Seq(T), NEW f, f[0] = <<>>,
           \A k \in 1..Len(items) :
               f[k] = IF New(items, k) THEN Append(f[k - 1], items[LastOf(items, k)]) ELSE f[k - 1],
           NEW m \in 0..Len(items)
    PROVE  f[m] \in Seq(T) /\ Once(f[m]) /\ Lists(f[m], items, m)
<1> DEFINE N == Len(items)
           P(k) == f[k] \in Seq(T) /\ Once(f[k]) /\ Lists(f[k], items, k)
           S == {k \in 0..N : P(k)}
<1>1. N \in Nat
  OBVIOUS
<1>2. 0 \in S
  <2>1. <<>> \in Seq(T) /\ DOMAIN <<>> = {} /\ 1..0 = {}
    OBVIOUS
  <2>2. Once(<<>>) /\ Lists(<<>>, items, 0)
    BY <2>1 DEF Once, Lists
  <2>3. P(0)
    BY <2>1, <2>2
  <2> HIDE DEF P
  <2> QED BY <1>1, <2>3
<1>3. ASSUME NEW k \in 1..N, P(k - 1) PROVE P(k)
  <2> DEFINE s == f[k - 1]
             x == items[LastOf(items, k)]
  <2>1. f[k] = IF New(items, k) THEN Append(s, x) ELSE s
    BY <1>3
  <2>2. x \in T /\ x.name = items[k].name
    <3>1. k \in DOMAIN items
      OBVIOUS
    <3> HIDE DEF N
    <3>2. LastOf(items, k) \in DOMAIN items /\ items[LastOf(items, k)].name = items[k].name
      BY <3>1, LastIsLast
    <3>3. \A i \in DOMAIN items : items[i] \in T
      OBVIOUS
    <3> QED BY <3>2, <3>3
  <2>3. s \in Seq(T) /\ Once(s) /\ Lists(s, items, k - 1)
    BY <1>3
  <2>4. k \in Nat \ {0}
    BY <1>1
  <2> HIDE DEF s, x
  <2>5. CASE New(items, k)
    <3>1. x.name = "" \/ \A j \in 1..(k - 1) : items[j].name # x.name
      BY <2>2, <2>5 DEF New
    <3>2. Append(s, x) \in Seq(T) /\ Once(Append(s, x)) /\ Lists(Append(s, x), items, k)
      BY <2>2, <2>3, <2>4, <3>1, OneMore
    <3> QED BY <2>1, <2>5, <3>2
  <2>6. CASE ~New(items, k)
    <3>1. \E j \in 1..(k - 1) : items[j].name = x.name
      BY <2>2, <2>6 DEF New
    <3>2. Lists(s, items, k)
      BY <2>2, <2>3, <2>4, <3>1, OneMore
    <3> QED BY <2>1, <2>3, <2>6, <3>2
  <2> QED BY <2>5, <2>6
<1>4. \A k \in 1..N : k - 1 \in S => k \in S
  <2> SUFFICES ASSUME NEW k \in 1..N, k - 1 \in S PROVE k \in S
    OBVIOUS
  <2>1. P(k - 1)
    OBVIOUS
  <2>2. P(k)
    BY <1>3, <2>1
  <2> QED BY <1>1, <2>2
<1>5. 0..N \subseteq S
  <2> HIDE DEF S, N
  <2> QED BY <1>1, <1>2, <1>4, UpTo
<1> QED BY <1>5

(* A sequence is the function of its items.                                  *)
LEMMA SeqEta ==
    ASSUME NEW T, NEW s \in Seq(T)
    PROVE  /\ s = [i \in DOMAIN s |-> s[i]] /\ Len(s) \in Nat /\ DOMAIN s = 1..Len(s)
           /\ \A i \in DOMAIN s : s[i] \in T /\ i \in Int
OBVIOUS

(* The items with x in the place of the one of its name.                     *)
Put(s, x) == [i \in DOMAIN s |-> IF x.name # "" /\ s[i].name = x.name THEN x ELSE s[i]]
(* What an item becomes by putting x in its place.                           *)
Putting(y, x) == IF x.name # "" /\ y.name = x.name THEN x ELSE y

(* An item appended before x is put is put and appended.                     *)
LEMMA PutAppended ==
    ASSUME NEW T, NEW s \in Seq(T), NEW y \in T, NEW x \in T
    PROVE  Put(Append(s, y), x) = Append(Put(s, x), Putting(y, x))
<1> DEFINE E(u) == Putting(u, x)
           a == [i \in DOMAIN Append(s, y) |-> E(Append(s, y)[i])]
           b == [i \in DOMAIN s |-> E(s[i])]
<1>0. PICK n : n = Len(s)
  OBVIOUS
<1>1. \A u \in T : E(u) \in T
  BY DEF Putting
<1>2. DOMAIN s = 1..n /\ n \in Nat /\ \A i \in 1..n : s[i] \in T
  BY <1>0
<1>3. /\ DOMAIN Append(s, y) = 1..(n + 1)
      /\ \A i \in 1..n : Append(s, y)[i] = s[i]
      /\ Append(s, y)[n + 1] = y
  BY <1>0
<1> HIDE DEF E
<1>4. b \in Seq(T) /\ Len(b) = n
  <2>1. b = [i \in 1..n |-> E(s[i])]
    BY <1>2
  <2>2. \A i \in 1..n : E(s[i]) \in T
    BY <1>1, <1>2
  <2> HIDE DEF b
  <2> QED BY <1>2, <2>1, <2>2
<1>5. /\ DOMAIN Append(b, E(y)) = 1..(n + 1) /\ \A i \in 1..n : Append(b, E(y))[i] = b[i]
      /\ Append(b, E(y))[n + 1] = E(y)
      /\ Append(b, E(y)) = [i \in 1..(n + 1) |-> Append(b, E(y))[i]]
  <2>1. PICK z : z = E(y)
    OBVIOUS
  <2>2. z \in T
    BY <1>1, <2>1
  <2>3. PICK t, c : t = Append(c, z) /\ c = b
    OBVIOUS
  <2> HIDE DEF b
  <2>4. c \in Seq(T) /\ Len(c) = n
    BY <1>4, <2>3
  <2>5. t \in Seq(T) /\ DOMAIN t = 1..(n + 1)
    BY <2>2, <2>3, <2>4
  <2>6. t = [i \in 1..(n + 1) |-> t[i]]
    BY <2>5, SeqEta
  <2>7. t[n + 1] = z /\ \A i \in 1..n : t[i] = c[i]
    BY <2>2, <2>3, <2>4
  <2> QED BY <2>1, <2>3, <2>5, <2>6, <2>7
<1>6. a = [i \in 1..(n + 1) |-> E(Append(s, y)[i])]
  BY <1>3
<1>7. ASSUME NEW i \in 1..(n + 1) PROVE Append(b, E(y))[i] = E(Append(s, y)[i])
  <2>1. CASE i \in 1..n
    <3>1. b[i] = E(s[i])
      BY <1>2, <2>1
    <3> QED BY <1>3, <1>5, <2>1, <3>1
  <2>2. CASE i = n + 1
    <3> HIDE DEF b
    <3> QED BY <1>3, <1>5, <2>2
  <2>3. i \in 1..n \/ i = n + 1
    BY <1>2
  <2> QED BY <2>1, <2>2, <2>3
<1>8. a = Append(b, E(y))
  <2> HIDE DEF a, b
  <2> QED BY <1>5, <1>6, <1>7
<1>9. a = Put(Append(s, y), x) /\ b = Put(s, x)
  BY DEF Put, Putting, E
<1> QED BY <1>8, <1>9 DEF E

(* Where no item has the name, nothing changes.                              *)
LEMMA PutNone ==
    ASSUME NEW T, NEW s \in Seq(T), NEW x, \A i \in DOMAIN s : ~(x.name # "" /\ s[i].name = x.name)
    PROVE  Put(s, x) = s
<1>2. s = [i \in DOMAIN s |-> s[i]]
  BY SeqEta
<1>3. Put(s, x) = [i \in DOMAIN s |-> s[i]]
  BY DEF Put
<1> QED BY <1>2, <1>3

(* The greatest of one number is that number.                                *)
LEMMA MaxOfOne ==
    ASSUME NEW k \in Int
    PROVE  Max({k}) = k
<1>1. \A y \in {k} : y <= k
  OBVIOUS
<1> QED BY <1>1, MaxIs

(* Where one item has the name, it is the one that is replaced.              *)
LEMMA PutOne ==
    ASSUME NEW T, NEW s \in Seq(T), NEW x, Once(s),
           {i \in DOMAIN s : x.name # "" /\ s[i].name = x.name} # {}
    PROVE  Put(s, x) = [s EXCEPT ![Max({i \in DOMAIN s : x.name # "" /\ s[i].name = x.name})] = x]
<1> DEFINE same == {i \in DOMAIN s : x.name # "" /\ s[i].name = x.name}
<1>1. PICK k : k \in same
  OBVIOUS
<1>2. k \in DOMAIN s /\ x.name # "" /\ s[k].name = x.name /\ k \in Int
  <2>1. k \in DOMAIN s /\ x.name # "" /\ s[k].name = x.name
    BY <1>1
  <2> HIDE DEF same
  <2> QED BY <2>1, SeqEta
<1>3. \A i \in DOMAIN s : (x.name # "" /\ s[i].name = x.name) <=> i = k
  BY <1>2 DEF Once
<1>4. same = {k}
  BY <1>2, <1>3
<1>5. Max(same) = k
  <2> HIDE DEF same
  <2>2. Max({k}) = k
    BY <1>2, MaxOfOne
  <2> QED BY <1>4, <2>2
<1>6. [s EXCEPT ![k] = x] = [i \in DOMAIN s |-> IF i = k THEN x ELSE s[i]]
  OBVIOUS
<1>7. Put(s, x) = [i \in DOMAIN s |-> IF i = k THEN x ELSE s[i]]
  BY <1>3 DEF Put
<1> QED BY <1>5, <1>6, <1>7

(* Items that have each name once: placing x among them replaces the item of *)
(* its name, or adds x at the end.                                           *)
LEMMA PutIsPlaced ==
    ASSUME NEW T, NEW s \in Seq(T), NEW x, Once(s)
    PROVE  Placed(s, x) = IF \E i \in DOMAIN s : x.name # "" /\ s[i].name = x.name
                          THEN Put(s, x) ELSE Append(Put(s, x), x)
<1> DEFINE same == {i \in DOMAIN s : x.name # "" /\ s[i].name = x.name}
<1>1. Placed(s, x) = IF same = {} THEN Append(s, x) ELSE [s EXCEPT ![Max(same)] = x]
  BY DEF Placed
<1>2. same = {} <=> ~ \E i \in DOMAIN s : x.name # "" /\ s[i].name = x.name
  OBVIOUS
<1>3. same = {} => Put(s, x) = s
  <2>1. ASSUME same = {} PROVE \A i \in DOMAIN s : ~(x.name # "" /\ s[i].name = x.name)
    BY <2>1
  <2> QED BY <2>1, PutNone
<1>4. same # {} => Put(s, x) = [s EXCEPT ![Max(same)] = x]
  BY PutOne
<1> HIDE DEF same
<1> QED BY <1>1, <1>2, <1>3, <1>4

(* Items with one more, x, at the end.                                       *)
Longer(more, items, N, n, x) ==
    /\ N \in Nat /\ n = N + 1 /\ DOMAIN items = 1..N /\ DOMAIN more = 1..n
    /\ \A i \in 1..N : more[i] = items[i]
    /\ more[n] = x

(* Positions of a sequence and of one that is longer by one.                 *)
LEMMA OneMorePosition ==
    ASSUME NEW N \in Nat
    PROVE  /\ N + 1 \in 1..(N + 1) /\ N + 1 - 1 = N
           /\ \A m \in 1..(N + 1) : m \in Int /\ (m = N + 1 \/ m \in 1..N) /\ (N + 1 <= m => m = N + 1)
           /\ \A m \in 1..N : m \in 1..(N + 1) /\ m \in Int
OBVIOUS

(* The last position is the only one that is not before it.                  *)
LEMMA LastPosition ==
    ASSUME NEW k \in Int, NEW m \in 1..k, k <= m
    PROVE  m = k
OBVIOUS

(* The last item of a name, for a position of the sequence.                  *)
LEMMA LastKnown ==
    ASSUME NEW T, NEW items \in Seq(T), NEW N, DOMAIN items = 1..N, NEW k \in 1..N
    PROVE  /\ LastOf(items, k) \in 1..N /\ items[LastOf(items, k)] \in T /\ items[LastOf(items, k)].name = items[k].name
           /\ items[k].name = "" => LastOf(items, k) = k
           /\ items[k].name # "" => \A j \in 1..N : items[j].name = items[k].name => j <= LastOf(items, k)
<1>1. LastOf(items, k) \in DOMAIN items
  BY LastIsLast
<1>2. \A i \in DOMAIN items : items[i] \in T
  BY SeqEta
<1> QED BY <1>1, <1>2, LastIsLast DEF LastOf

(* One item more replaces the last of its own name, and no other.            *)
LEMMA LastLonger ==
    ASSUME NEW T, NEW items \in Seq(T), NEW more \in Seq(T), NEW N, NEW n, NEW x, Longer(more, items, N, n, x), NEW k \in 1..N
    PROVE  more[LastOf(more, k)] = Putting(items[LastOf(items, k)], x)
<1>1. PICK l, m : l = LastOf(items, k) /\ m = LastOf(more, k)
  OBVIOUS
<1>0. n \in 1..n /\ n \in Int /\ \A i \in 1..n : i \in Int /\ (i = n \/ i \in 1..N)
  BY OneMorePosition DEF Longer
<1>2. N \in Nat /\ n = N + 1
  BY DEF Longer
<1>3. k \in 1..n /\ DOMAIN items = 1..N /\ DOMAIN more = 1..n
  BY <1>1, <1>2, OneMorePosition DEF Longer
<1>4. (\A i \in 1..N : more[i] = items[i]) /\ more[n] = x /\ more[k] = items[k]
  BY <1>1 DEF Longer
<1>5. /\ l \in 1..N /\ items[l].name = items[k].name
      /\ items[k].name = "" => l = k
  BY <1>1, <1>3, LastKnown
<1>6. items[k].name # "" => \A j \in 1..N : items[j].name = items[k].name => j <= l
  BY <1>1, <1>3, LastKnown
<1>7. /\ m \in 1..n /\ more[m].name = items[k].name
      /\ items[k].name = "" => m = k
  <2>1. m \in 1..n /\ more[m].name = more[k].name /\ (more[k].name = "" => m = k)
    BY <1>1, <1>3, LastKnown
  <2> QED BY <1>4, <2>1
<1>8. items[k].name # "" => \A j \in 1..n : more[j].name = items[k].name => j <= m
  BY <1>1, <1>3, <1>4, LastKnown
<1>9. more[m] = IF x.name # "" /\ items[l].name = x.name THEN x ELSE items[l]
  <2>1. CASE items[k].name = ""
    BY <1>4, <1>5, <1>7, <2>1
  <2>2. CASE items[k].name # "" /\ items[k].name = x.name
    <3>1. n <= m
      BY <1>0, <1>4, <1>8, <2>2
    <3>2. m = n
      BY <1>0, <1>7, <3>1, LastPosition
    <3> QED BY <1>4, <1>5, <2>2, <3>2
  <2>3. CASE items[k].name # "" /\ items[k].name # x.name
    <3>1. m # n
      BY <1>4, <1>7, <2>3
    <3>2. m \in 1..N
      BY <1>0, <1>7, <3>1
    <3>3. m <= l
      BY <1>4, <1>6, <1>7, <2>3, <3>2
    <3>4. l \in 1..n
      BY <1>1, <1>2, <1>5, OneMorePosition
    <3>5. l <= m
      BY <1>4, <1>5, <1>8, <2>3, <3>4
    <3>6. m \in Int /\ l \in Int
      BY <1>2, <1>5, <3>2, OneMorePosition
    <3>7. m = l
      BY <3>3, <3>5, <3>6
    <3> QED BY <1>4, <1>5, <2>3, <3>2, <3>7
  <2> QED BY <2>1, <2>2, <2>3
<1> QED BY <1>1, <1>9 DEF Putting

(* Whether a name is new at a position does not depend on what comes after.  *)
LEMMA NewLonger ==
    ASSUME NEW items, NEW more, NEW N, NEW n, NEW x, Longer(more, items, N, n, x), NEW k \in 1..N
    PROVE  New(more, k) <=> New(items, k)
<1>1. \A j \in 1..(k - 1) : j \in 1..N
  BY DEF Longer
<1> QED BY <1>1 DEF New, Longer

(* Of its name, the item added is the last.                                  *)
LEMMA LastLongest ==
    ASSUME NEW T, NEW items, NEW more \in Seq(T), NEW N, NEW x, NEW k, Longer(more, items, N, k, x)
    PROVE  more[LastOf(more, k)] = x
<1>1. PICK m : m = LastOf(more, k)
  OBVIOUS
<1>2. k \in 1..k /\ k \in Int
  BY OneMorePosition DEF Longer
<1>3. more[k] = x /\ DOMAIN more = 1..k
  BY DEF Longer
<1>4. m \in 1..k /\ (x.name = "" => m = k)
  BY <1>1, <1>2, <1>3, LastKnown
<1>5. x.name # "" => k <= m
  BY <1>1, <1>2, <1>3, LastKnown
<1>6. m = k
  BY <1>2, <1>4, <1>5, LastPosition
<1> QED BY <1>1, <1>3, <1>6

(* The name of the item added is new when no item before has it.             *)
LEMMA NewLongest ==
    ASSUME NEW items, NEW more, NEW N, NEW x, NEW k, Longer(more, items, N, k, x)
    PROVE  New(more, k) <=> (x.name = "" \/ \A j \in 1..N : items[j].name # x.name)
<1>1. N = k - 1
  BY OneMorePosition DEF Longer
<1>2. more[k] = x /\ \A j \in 1..N : more[j] = items[j]
  BY DEF Longer
<1>3. New(more, k) <=> (more[k].name = "" \/ \A j \in 1..N : more[j].name # more[k].name)
  BY <1>1 DEF New
<1> QED BY <1>2, <1>3

(* An item more in what is listed replaces the one of its name, or is added, *)
(* which is what mergeTasksByName does.                                      *)
LEMMA ListedPlaced ==
    ASSUME NEW T, NEW items \in Seq(T), NEW x \in T
    PROVE  LastOfEachName(Append(items, x)) = Placed(LastOfEachName(items), x)
<1>1. PICK N, n, more : N = Len(items) /\ n = N + 1 /\ more = Append(items, x)
  OBVIOUS
<1>2. more \in Seq(T) /\ Len(more) = n /\ Longer(more, items, N, n, x)
  BY <1>1, Appended DEF Longer
<1>3. PICK f : /\ LastOfEachName(items) = f[N] /\ f[0] = <<>>
               /\ \A k \in 1..N : f[k] = IF New(items, k) THEN Append(f[k - 1], items[LastOf(items, k)]) ELSE f[k - 1]
  BY <1>1, ListedDefined
<1>4. PICK g : /\ LastOfEachName(more) = g[n] /\ g[0] = <<>>
               /\ \A k \in 1..n : g[k] = IF New(more, k) THEN Append(g[k - 1], more[LastOf(more, k)]) ELSE g[k - 1]
  <2>1. \E g : /\ LastOfEachName(more) = g[Len(more)] /\ g[0] = <<>>
               /\ \A k \in 1..Len(more) : g[k] = IF New(more, k) THEN Append(g[k - 1], more[LastOf(more, k)]) ELSE g[k - 1]
    BY <1>2, ListedDefined
  <2> QED BY <1>2, <2>1
<1>5. \A m \in 0..N : f[m] \in Seq(T) /\ Once(f[m]) /\ Lists(f[m], items, m)
  BY <1>1, <1>3, ListedShape
<1>6. N \in Nat /\ DOMAIN items = 1..N /\ n = N + 1
  BY <1>2 DEF Longer
<1> DEFINE S == {k \in 0..N : g[k] = Put(f[k], x)}
<1>7. 0 \in S
  <2>1. Put(<<>>, x) = <<>>
    BY DEF Put
  <2> QED BY <1>3, <1>4, <1>6, <2>1
<1>8. ASSUME NEW k \in 1..N, k - 1 \in S PROVE k \in S
  <2>1. k \in 1..n /\ k - 1 \in 0..N /\ k \in 0..N
    BY <1>6
  <2>2. PICK s, y : s = f[k - 1] /\ y = items[LastOf(items, k)]
    OBVIOUS
  <2>3. y \in T
    BY <1>6, <2>2, LastKnown
  <2>4. f[k] = IF New(items, k) THEN Append(s, y) ELSE s
    BY <1>3, <2>2
  <2>5. g[k] = IF New(items, k) THEN Append(Put(s, x), Putting(y, x)) ELSE Put(s, x)
    <3>1. g[k] = IF New(more, k) THEN Append(g[k - 1], more[LastOf(more, k)]) ELSE g[k - 1]
      BY <1>4, <2>1
    <3>2. New(more, k) <=> New(items, k)
      BY <1>2, NewLonger
    <3>3. more[LastOf(more, k)] = Putting(y, x)
      BY <1>2, <2>2, LastLonger
    <3>4. g[k - 1] = Put(s, x)
      BY <1>8, <2>2
    <3> HIDE DEF S
    <3> QED BY <3>1, <3>2, <3>3, <3>4
  <2>6. s \in Seq(T)
    BY <1>5, <2>1, <2>2
  <2>7. Put(Append(s, y), x) = Append(Put(s, x), Putting(y, x))
    BY <2>3, <2>6, PutAppended
  <2>8. g[k] = Put(f[k], x)
    BY <2>4, <2>5, <2>7
  <2> QED BY <2>1, <2>8
<1>9. g[N] = Put(f[N], x)
  <2> HIDE DEF S
  <2>1. 0..N \subseteq S
    BY <1>6, <1>7, <1>8, UpTo
  <2>2. N \in S
    BY <1>6, <2>1
  <2> QED BY <2>2 DEF S
<1> HIDE DEF S
<1>10. PICK s : s = f[N]
  OBVIOUS
<1>11. s \in Seq(T) /\ Once(s) /\ Lists(s, items, N)
  BY <1>5, <1>6, <1>10
<1>12. n \in 1..n /\ n - 1 = N
  BY <1>6, OneMorePosition
<1>13. g[n] = IF New(more, n) THEN Append(Put(s, x), x) ELSE Put(s, x)
  <2>1. more[LastOf(more, n)] = x
    BY <1>2, LastLongest
  <2>3. g[n] = IF New(more, n) THEN Append(g[n - 1], more[LastOf(more, n)]) ELSE g[n - 1]
    BY <1>4, <1>12
  <2> QED BY <1>9, <1>10, <1>12, <2>1, <2>3
<1>14. New(more, n) <=> ~ \E i \in DOMAIN s : x.name # "" /\ s[i].name = x.name
  <2>1. New(more, n) <=> (x.name = "" \/ \A j \in 1..N : items[j].name # x.name)
    BY <1>2, NewLongest
  <2> QED BY <1>11, <2>1 DEF Lists
<1>15. Placed(s, x) = g[n]
  BY <1>11, <1>13, <1>14, PutIsPlaced
<1>16. LastOfEachName(more) = g[n] /\ LastOfEachName(items) = s
  BY <1>3, <1>4, <1>10, <1>12
<1> QED BY <1>1, <1>15, <1>16
-------------------------------------------------------------------------------
(* Imported goes through the imports in their order too.                     *)
LEMMA ImportedDefined ==
    ASSUME NEW T, NEW dir, NEW field, NEW import \in Seq(T), import = dir[Main].content.import
    PROVE  \E f : /\ Imported(dir, field) = f[Len(import)] /\ f[0] = <<>>
                  /\ \A k \in 1..Len(import) : f[k] = (IF Readable(dir, import[k]) THEN f[k - 1] \o dir[import[k]].content[field] ELSE f[k - 1])
<1> DEFINE N == Len(import)
           First == <<>>
           Next(x, k) == (IF Readable(dir, import[k]) THEN x \o dir[import[k]].content[field] ELSE x)
           said[k \in 0..N] == IF k = 0 THEN <<>> ELSE (IF Readable(dir, import[k]) THEN said[k - 1] \o dir[import[k]].content[field] ELSE said[k - 1])
           Rec(f, n) == f = [k \in 0..n |-> IF k = 0 THEN First ELSE Next(f[k - 1], k)]
           S == {n \in Nat : \E f : Rec(f, n)}
<1>1. Imported(dir, field) = said[N]
  BY DEF Imported
<1>2. said = CHOOSE f : Rec(f, N)
  BY DEF said
<1> HIDE DEF First, Next, said
<1>3. \E f : Rec(f, 0)
  <2>1. Rec([k \in 0..0 |-> First], 0)
    OBVIOUS
  <2> QED BY <2>1
<1>4. ASSUME NEW n \in Nat, NEW f, Rec(f, n)
      PROVE  \E g : Rec(g, n + 1)
  <2> DEFINE g == [k \in 0..(n + 1) |-> IF k = n + 1 THEN Next(f[n], k) ELSE f[k]]
  <2>1. \A k \in 0..n : g[k] = f[k]
    OBVIOUS
  <2>2. ASSUME NEW k \in 0..(n + 1)
        PROVE  g[k] = IF k = 0 THEN First ELSE Next(g[k - 1], k)
    <3>1. CASE k = n + 1
      BY <2>1, <3>1
    <3>2. CASE k # n + 1
      <4>1. k \in 0..n /\ (k # 0 => k - 1 \in 0..n)
        BY <3>2
      <4> QED BY <1>4, <2>1, <4>1
    <3> QED BY <3>1, <3>2
  <2>3. Rec(g, n + 1)
    BY <2>2
  <2> QED BY <2>3
<1> HIDE DEF Rec
<1>5. Nat \subseteq S
  <2>1. 0 \in S /\ \A n \in Nat : n \in S => n + 1 \in S
    BY <1>3, <1>4
  <2> HIDE DEF S
  <2> QED BY <2>1, SetInduction
<1>6. N \in Nat
  OBVIOUS
<1>7. Rec(said, N)
  BY <1>2, <1>5, <1>6
<1>8. said[0] = First /\ \A k \in 1..N : said[k] = Next(said[k - 1], k)
  BY <1>6, <1>7 DEF Rec
<1> QED BY <1>1, <1>8 DEF First, Next

(* Names that are different stay as they are.                                *)
LEMMA OnceListed ==
    ASSUME NEW T, NEW items \in Seq(T), Once(items)
    PROVE  LastOfEachName(items) = items
<1>1. PICK N : N = Len(items) /\ N \in Nat /\ DOMAIN items = 1..N
  OBVIOUS
<1>2. PICK f : /\ LastOfEachName(items) = f[N] /\ f[0] = <<>>
               /\ \A k \in 1..N : f[k] = IF New(items, k) THEN Append(f[k - 1], items[LastOf(items, k)]) ELSE f[k - 1]
  BY <1>1, ListedDefined
<1>3. ASSUME NEW k \in 1..N PROVE New(items, k) /\ LastOf(items, k) = k /\ items[k] \in T
  <2>1. New(items, k)
    <3>1. \A j \in 1..(k - 1) : j \in 1..N /\ j # k
      BY <1>1
    <3> QED BY <1>1, <3>1 DEF New, Once
  <2>2. LastOf(items, k) \in 1..N /\ items[LastOf(items, k)].name = items[k].name /\ (items[k].name = "" => LastOf(items, k) = k)
    BY <1>1, LastKnown
  <2>3. LastOf(items, k) = k
    BY <1>1, <2>2 DEF Once
  <2>4. items[k] \in T
    BY <1>1, SeqEta
  <2> QED BY <2>1, <2>3, <2>4
<1>4. \A k \in 1..N : f[k] = Append(f[k - 1], items[k])
  BY <1>2, <1>3
<1> DEFINE P(k) == /\ f[k] \in Seq(T) /\ Len(f[k]) = k /\ \A i \in 1..k : f[k][i] = items[i]
           S == {k \in 0..N : P(k)}
<1>5. 0 \in S
  <2>1. P(0)
    <3>1. <<>> \in Seq(T) /\ Len(<<>>) = 0 /\ \A i \in 1..0 : <<>>[i] = items[i]
      OBVIOUS
    <3> QED BY <1>2, <3>1
  <2> HIDE DEF P
  <2> QED BY <1>1, <2>1
<1>6. ASSUME NEW k \in 1..N, k - 1 \in S PROVE k \in S
  <2>1. P(k - 1) /\ k \in 0..N /\ k \in Nat
    BY <1>1, <1>6
  <2>2. PICK s, x, j : s = f[k - 1] /\ x = items[k] /\ j = k - 1
    OBVIOUS
  <2>3. s \in Seq(T) /\ Len(s) = j /\ \A i \in 1..j : s[i] = items[i]
    BY <2>1, <2>2
  <2>4. f[k] = Append(s, x) /\ x \in T /\ j \in Nat /\ k = j + 1
    BY <1>3, <1>4, <2>1, <2>2
  <2> HIDE DEF S, P
  <2>5. f[k] \in Seq(T) /\ Len(f[k]) = j + 1 /\ f[k][j + 1] = x /\ \A i \in 1..j : f[k][i] = s[i]
    BY <2>3, <2>4
  <2>6. \A i \in 1..k : i \in 1..j \/ i = k
    BY <2>4
  <2>7. \A i \in 1..k : f[k][i] = items[i]
    BY <2>2, <2>3, <2>4, <2>5, <2>6
  <2>8. P(k)
    BY <2>4, <2>5, <2>7 DEF P
  <2> QED BY <2>1, <2>8 DEF S
<1>7. P(N)
  <2> HIDE DEF S, P
  <2>1. 0..N \subseteq S
    BY <1>1, <1>5, <1>6, UpTo
  <2>2. N \in S
    BY <1>1, <2>1
  <2> QED BY <2>2 DEF S
<1>8. PICK s : s = f[N]
  OBVIOUS
<1>9. s \in Seq(T) /\ Len(s) = N /\ \A i \in 1..N : s[i] = items[i]
  BY <1>7, <1>8
<1> HIDE DEF P, S
<1>10. s = items
  <2>1. s = [i \in 1..N |-> s[i]] /\ items = [i \in 1..N |-> items[i]]
    BY <1>1, <1>9, SeqEta
  <2> QED BY <1>9, <2>1
<1> QED BY <1>2, <1>8, <1>10

(* Merging is listing what comes after.                                      *)
LEMMA MergeIsListed ==
    ASSUME NEW T, NEW base \in Seq(T), NEW incoming \in Seq(T)
    PROVE  LastOfEachName(base \o incoming) = MergeByName(LastOfEachName(base), incoming)
<1>1. PICK N : N = Len(incoming) /\ N \in Nat /\ DOMAIN incoming = 1..N
  OBVIOUS
<1>2. PICK f : /\ MergeByName(LastOfEachName(base), incoming) = f[N] /\ f[0] = LastOfEachName(base)
               /\ \A k \in 1..N : f[k] = Placed(f[k - 1], incoming[k])
  BY <1>1, MergeDefined
<1> DEFINE P(k) == \E s \in Seq(T) : /\ f[k] = LastOfEachName(base \o s) /\ Len(s) = k
                                     /\ \A i \in 1..k : s[i] = incoming[i]
           S == {k \in 0..N : P(k)}
<1>3. 0 \in S
  <2>1. <<>> \in Seq(T) /\ Len(<<>>) = 0 /\ base \o <<>> = base /\ \A i \in 1..0 : <<>>[i] = incoming[i]
    BY ConcatEmptySeq
  <2>2. f[0] = LastOfEachName(base \o <<>>)
    BY <1>2, <2>1
  <2>3. P(0)
    BY <2>1, <2>2, Zenon
  <2> HIDE DEF P
  <2> QED BY <1>1, <2>3
<1>4. ASSUME NEW k \in 1..N, k - 1 \in S PROVE k \in S
  <2>1. P(k - 1) /\ k \in 0..N
    BY <1>1, <1>4
  <2>2. PICK x, j : x = incoming[k] /\ j = k - 1
    OBVIOUS
  <2>3. PICK s \in Seq(T) : /\ f[j] = LastOfEachName(base \o s) /\ Len(s) = j
                            /\ \A i \in 1..j : s[i] = incoming[i]
    BY <2>1, <2>2
  <2> HIDE DEF S, P
  <2>4. x \in T /\ j \in Nat /\ k = j + 1 /\ f[k] = Placed(f[j], x)
    <3>1. incoming[k] \in T
      BY <1>1, SeqEta
    <3> QED BY <1>1, <1>2, <2>2, <3>1
  <2>5. PICK t : t = Append(s, x)
    OBVIOUS
  <2>6. t \in Seq(T) /\ Len(t) = k /\ t[k] = x /\ \A i \in 1..j : t[i] = s[i]
    BY <2>3, <2>4, <2>5
  <2>7. base \o t = Append(base \o s, x)
    <3>1. <<x>> \in Seq(T) /\ t = s \o <<x>>
      BY <2>4, <2>5, AppendIsConcat
    <3>2. base \o t = (base \o s) \o <<x>>
      BY <3>1, ConcatAssociative
    <3>3. base \o s \in Seq(T)
      BY ConcatProperties
    <3> QED BY <2>4, <3>2, <3>3, AppendIsConcat
  <2>8. LastOfEachName(base \o t) = Placed(LastOfEachName(base \o s), x)
    <3>1. base \o s \in Seq(T)
      BY ConcatProperties
    <3> QED BY <2>4, <2>7, <3>1, ListedPlaced
  <2>9. \A i \in 1..k : i \in 1..j \/ i = k
    BY <2>4
  <2>10. \A i \in 1..k : t[i] = incoming[i]
    BY <2>2, <2>3, <2>6, <2>9
  <2>11. f[k] = LastOfEachName(base \o t)
    BY <2>3, <2>4, <2>8
  <2>12. P(k)
    BY <2>6, <2>10, <2>11 DEF P
  <2> QED BY <2>1, <2>12 DEF S
<1>5. P(N)
  <2> HIDE DEF S, P
  <2>1. 0..N \subseteq S
    BY <1>1, <1>3, <1>4, UpTo
  <2>2. N \in S
    BY <1>1, <2>1
  <2> QED BY <2>2 DEF S
<1>6. PICK s \in Seq(T) : /\ f[N] = LastOfEachName(base \o s) /\ Len(s) = N
                          /\ \A i \in 1..N : s[i] = incoming[i]
  BY <1>5
<1> HIDE DEF P, S
<1>7. s = incoming
  <2>1. s = [i \in 1..N |-> s[i]] /\ incoming = [i \in 1..N |-> incoming[i]]
    BY <1>1, <1>6, SeqEta
  <2> QED BY <1>6, <2>1
<1> QED BY <1>2, <1>6, <1>7
-------------------------------------------------------------------------------
(* What a directory must hold for its interface to be loaded: the paths it   *)
(* imports, and lists of presets in the files they name.                     *)
Imports(dir) ==
    /\ IsSeq(dir[Main].content.import)
    /\ \A path \in DOMAIN dir : Typed(dir[path].content)
    /\ \A path \in DOMAIN dir \cap Range(dir[Main].content.import) : IsSeq(dir[path].content.presets)

(* A step of the load, with the files read as the comments promise.          *)
LEMMA ImportSkipped ==
    ASSUME NEW dir, NEW p, NEW path, ~Unmarshals(dir, path)
    PROVE  loadImportedFile(dir, p, path) = p
BY DEF loadImportedFile

(* A file that is read adds its tasks, options and presets to what was       *)
(* loaded so far.                                                            *)
LEMMA ImportTaken ==
    ASSUME NEW dir, NEW p, NEW path, Unmarshals(dir, path), {"tasks", "option", "presets"} \subseteq DOMAIN p
    PROVE  /\ loadImportedFile(dir, p, path).tasks = MergeByName(p.tasks, dir[path].content.tasks)
           /\ loadImportedFile(dir, p, path).option = Over(NotNull(dir[path].content.option), p.option)
           /\ loadImportedFile(dir, p, path).presets = MergeByName(p.presets, dir[path].content.presets)
<1> DEFINE a == MergeByName(p.tasks, dir[path].content.tasks)
           b == Over(NotNull(dir[path].content.option), p.option)
           c == MergeByName(p.presets, dir[path].content.presets)
<1>1. loadImportedFile(dir, p, path) = [p EXCEPT !.tasks = a, !.option = b, !.presets = c]
  BY DEF loadImportedFile, mergeTasksByName, mergePresetsByName
<1> HIDE DEF a, b, c
<1>2. /\ loadImportedFile(dir, p, path).tasks = a
      /\ loadImportedFile(dir, p, path).option = b
      /\ loadImportedFile(dir, p, path).presets = c
  BY <1>1
<1> QED BY <1>2 DEF a, b, c

(* A list loaded file by file: f merges those that are read, g puts them one *)
(* after the other.                                                          *)
Merging(base, N, f, g, part, reads) ==
    /\ f[0] = base /\ g[0] = <<>>
    /\ \A k \in 1..N : reads[k] => IsSeq(part[k])
    /\ \A k \in 1..N : f[k] = IF reads[k] THEN MergeByName(f[k - 1], part[k]) ELSE f[k - 1]
    /\ \A k \in 1..N : g[k] = IF reads[k] THEN g[k - 1] \o part[k] ELSE g[k - 1]

(* A list that is merged file by file is the list of all of them, of which   *)
(* the last of each name counts.                                             *)
LEMMA ListLoaded ==
    ASSUME NEW base, IsSeq(base), Once(base),
           NEW N \in Nat, NEW f, NEW g, NEW part, NEW reads, Merging(base, N, f, g, part, reads)
    PROVE  IsSeq(g[N]) /\ f[N] = LastOfEachName(base \o g[N])
<1>0. /\ f[0] = base /\ g[0] = <<>>
      /\ \A k \in 1..N : reads[k] => IsSeq(part[k])
      /\ \A k \in 1..N : f[k] = IF reads[k] THEN MergeByName(f[k - 1], part[k]) ELSE f[k - 1]
      /\ \A k \in 1..N : g[k] = IF reads[k] THEN g[k - 1] \o part[k] ELSE g[k - 1]
  BY DEF Merging
<1> DEFINE T == Range(base) \cup UNION {Range(part[k]) : k \in {j \in 1..N : reads[j]}}
<1>1. base \in Seq(T) /\ \A k \in 1..N : reads[k] => part[k] \in Seq(T)
  <2>1. base \in Seq(T)
    BY DEF IsSeq
  <2>2. ASSUME NEW k \in 1..N, reads[k] PROVE part[k] \in Seq(T)
    <3>1. Range(part[k]) \subseteq T
      BY <2>2
    <3>2. part[k] \in Seq(Range(part[k]))
      BY <1>0, <2>2 DEF IsSeq
    <3> HIDE DEF T
    <3> QED BY <3>1, <3>2
  <2> QED BY <2>1, <2>2
<1> HIDE DEF T
<1> DEFINE P(k) == g[k] \in Seq(T) /\ f[k] = LastOfEachName(base \o g[k])
           S == {k \in 0..N : P(k)}
<1>2. 0 \in S
  <2>1. <<>> \in Seq(T) /\ base \o <<>> = base
    BY <1>1, ConcatEmptySeq
  <2>2. f[0] = LastOfEachName(base)
    BY <1>0, <1>1, OnceListed
  <2>3. P(0)
    BY <1>0, <2>1, <2>2
  <2> HIDE DEF P
  <2> QED BY <2>3
<1>3. ASSUME NEW k \in 1..N, k - 1 \in S PROVE k \in S
  <2>1. P(k - 1) /\ k \in 0..N
    BY <1>3
  <2>2. CASE ~reads[k]
    <3>1. f[k] = f[k - 1] /\ g[k] = g[k - 1]
      BY <1>0, <2>2
    <3>2. P(k)
      BY <2>1, <3>1
    <3> HIDE DEF P
    <3> QED BY <2>1, <3>2
  <2>3. CASE reads[k]
    <3>1. PICK s, t : s = g[k - 1] /\ t = part[k]
      OBVIOUS
    <3>2. s \in Seq(T) /\ t \in Seq(T) /\ f[k - 1] = LastOfEachName(base \o s)
      BY <1>1, <2>1, <2>3, <3>1
    <3>3. f[k] = MergeByName(LastOfEachName(base \o s), t) /\ g[k] = s \o t
      BY <1>0, <2>3, <3>1, <3>2
    <3>4. base \o s \in Seq(T) /\ s \o t \in Seq(T)
      BY <1>1, <3>2, ConcatProperties
    <3>5. LastOfEachName((base \o s) \o t) = MergeByName(LastOfEachName(base \o s), t)
      BY <3>2, <3>4, MergeIsListed
    <3>6. (base \o s) \o t = base \o (s \o t)
      BY <1>1, <3>2, ConcatAssociative
    <3>7. P(k)
      BY <3>3, <3>4, <3>5, <3>6
    <3> HIDE DEF P
    <3> QED BY <2>1, <3>7
  <2> QED BY <2>2, <2>3
<1>4. P(N)
  <2> HIDE DEF S, P
  <2>1. 0..N \subseteq S
    BY <1>2, <1>3, UpTo
  <2>2. N \in S
    BY <2>1
  <2> QED BY <2>2 DEF S
<1>5. IsSeq(g[N])
  BY <1>4, SeqIsSeq
<1> QED BY <1>4, <1>5

(* Every path is read as the comments promise.                               *)
Faithful(dir, import) == \A path \in Range(import) : Unmarshals(dir, path) <=> Readable(dir, path)

(* The tasks and the presets that LoadInterface returns.                     *)
LEMMA TasksLoaded ==
    ASSUME NEW dir, NEW import, import = dir[Main].content.import, Main \in DOMAIN dir, Imports(dir),
           Faithful(dir, import), Once(dir[Main].content.tasks)
    PROVE  /\ LoadInterface(dir).tasks = LastOfEachName(dir[Main].content.tasks \o Imported(dir, "tasks"))
           /\ LoadInterface(dir).presets = LastOfEachName(Imported(dir, "presets"))
<1> DEFINE T == Range(import)
<1>1. import \in Seq(T)
  BY DEF Imports, IsSeq
<1>2. PICK N : N = Len(import) /\ N \in Nat /\ DOMAIN import = 1..N
  BY <1>1
<1>3. PICK f : /\ LoadInterface(dir) = f[N] /\ f[0] = MainInterface(dir[Main].content)
               /\ \A k \in 1..N : f[k] = loadImportedFile(dir, f[k - 1], import[k])
  BY <1>1, <1>2, LoadDefined
<1>4. PICK g : /\ Imported(dir, "tasks") = g[N] /\ g[0] = <<>>
               /\ \A k \in 1..N : g[k] = (IF Readable(dir, import[k]) THEN g[k - 1] \o dir[import[k]].content["tasks"] ELSE g[k - 1])
  BY <1>1, <1>2, ImportedDefined
<1>5. PICK h : /\ Imported(dir, "presets") = h[N] /\ h[0] = <<>>
               /\ \A k \in 1..N : h[k] = (IF Readable(dir, import[k]) THEN h[k - 1] \o dir[import[k]].content["presets"] ELSE h[k - 1])
  BY <1>1, <1>2, ImportedDefined
<1> DEFINE Shaped(p) == {"tasks", "option", "presets"} \subseteq DOMAIN p
           S == {k \in 0..N : Shaped(f[k])}
<1>6. \A k \in 1..N : Unmarshals(dir, import[k]) <=> Readable(dir, import[k])
  BY <1>2 DEF Faithful, Range
<1>7. \A k \in 0..N : Shaped(f[k])
  <2>1. 0 \in S
    BY <1>2, <1>3 DEF MainInterface
  <2>2. ASSUME NEW k \in 1..N, k - 1 \in S PROVE k \in S
    <3>1. f[k] = loadImportedFile(dir, f[k - 1], import[k]) /\ Shaped(f[k - 1]) /\ k \in 0..N
      BY <1>2, <1>3, <2>2
    <3> QED BY <3>1 DEF loadImportedFile
  <2> HIDE DEF S
  <2>3. 0..N \subseteq S
    BY <1>2, <2>1, <2>2, UpTo
  <2> QED BY <2>3 DEF S
<1> DEFINE ft == [k \in 0..N |-> f[k].tasks]
           fp == [k \in 0..N |-> f[k].presets]
           reads == [k \in 1..N |-> Readable(dir, import[k])]
           pt == [k \in 1..N |-> dir[import[k]].content.tasks]
           pp == [k \in 1..N |-> dir[import[k]].content.presets]
<1>8. ASSUME NEW k \in 1..N
      PROVE  /\ f[k].tasks = IF reads[k] THEN MergeByName(f[k - 1].tasks, pt[k]) ELSE f[k - 1].tasks
             /\ f[k].presets = IF reads[k] THEN MergeByName(f[k - 1].presets, pp[k]) ELSE f[k - 1].presets
  <2>1. PICK p, path : p = f[k - 1] /\ path = import[k]
    OBVIOUS
  <2>2. Shaped(p) /\ f[k] = loadImportedFile(dir, p, path) /\ (Unmarshals(dir, path) <=> Readable(dir, path))
    BY <1>2, <1>3, <1>6, <1>7, <2>1
  <2>3. CASE ~Readable(dir, path)
    <3>1. f[k] = p
      BY <2>2, <2>3, ImportSkipped
    <3>2. ~reads[k]
      BY <2>1, <2>3
    <3> QED BY <2>1, <3>1, <3>2
  <2>4. CASE Readable(dir, path)
    <3>1. /\ f[k].tasks = MergeByName(p.tasks, dir[path].content.tasks)
          /\ f[k].presets = MergeByName(p.presets, dir[path].content.presets)
      BY <2>2, <2>4, ImportTaken
    <3>2. /\ reads[k] /\ pt[k] = dir[path].content.tasks /\ pp[k] = dir[path].content.presets
      BY <2>1, <2>4
    <3> HIDE DEF reads, pt, pp
    <3> QED BY <2>1, <3>1, <3>2
  <2> QED BY <2>3, <2>4
<1>9. ASSUME NEW k \in 1..N, reads[k] PROVE IsSeq(pt[k]) /\ IsSeq(pp[k])
  <2>1. import[k] \in DOMAIN dir /\ import[k] \in Range(import)
    BY <1>2, <1>9 DEF Readable, Range
  <2> QED BY <2>1 DEF Imports, Typed
<1>10. /\ \A k \in 1..N : ft[k] = IF reads[k] THEN MergeByName(ft[k - 1], pt[k]) ELSE ft[k - 1]
       /\ \A k \in 1..N : fp[k] = IF reads[k] THEN MergeByName(fp[k - 1], pp[k]) ELSE fp[k - 1]
       /\ \A k \in 1..N : g[k] = IF reads[k] THEN g[k - 1] \o pt[k] ELSE g[k - 1]
       /\ \A k \in 1..N : h[k] = IF reads[k] THEN h[k - 1] \o pp[k] ELSE h[k - 1]
  <2> SUFFICES ASSUME NEW k \in 1..N
               PROVE  /\ ft[k] = IF reads[k] THEN MergeByName(ft[k - 1], pt[k]) ELSE ft[k - 1]
                      /\ fp[k] = IF reads[k] THEN MergeByName(fp[k - 1], pp[k]) ELSE fp[k - 1]
                      /\ g[k] = IF reads[k] THEN g[k - 1] \o pt[k] ELSE g[k - 1]
                      /\ h[k] = IF reads[k] THEN h[k - 1] \o pp[k] ELSE h[k - 1]
    OBVIOUS
  <2>1. k \in 0..N /\ k - 1 \in 0..N
    BY <1>2
  <2>2. ft[k] = f[k].tasks /\ ft[k - 1] = f[k - 1].tasks /\ fp[k] = f[k].presets /\ fp[k - 1] = f[k - 1].presets
    BY <2>1
  <2>3. g[k] = IF reads[k] THEN g[k - 1] \o pt[k] ELSE g[k - 1]
    BY <1>4
  <2>4. h[k] = IF reads[k] THEN h[k - 1] \o pp[k] ELSE h[k - 1]
    BY <1>5
  <2> HIDE DEF ft, fp, reads, pt, pp
  <2> QED BY <1>8, <2>2, <2>3, <2>4
<1>11. ft[0] = dir[Main].content.tasks /\ fp[0] = <<>> /\ ft[N] = f[N].tasks /\ fp[N] = f[N].presets
  BY <1>2, <1>3 DEF MainInterface
<1>12. PICK e : e = <<>> /\ IsSeq(e) /\ Once(e) /\ IsSeq(dir[Main].content.tasks)
  <2>1. <<>> \in Seq({}) /\ DOMAIN <<>> = {}
    OBVIOUS
  <2> QED BY <2>1, SeqIsSeq DEF Imports, Typed, Once
<1> HIDE DEF ft, fp, reads, pt, pp
<1>13. Merging(dir[Main].content.tasks, N, ft, g, pt, reads) /\ Merging(e, N, fp, h, pp, reads)
  BY <1>4, <1>5, <1>9, <1>10, <1>11, <1>12 DEF Merging
<1>14. ft[N] = LastOfEachName(dir[Main].content.tasks \o g[N])
  BY <1>2, <1>12, <1>13, ListLoaded
<1>15. IsSeq(h[N]) /\ fp[N] = LastOfEachName(e \o h[N])
  <2>1. IsSeq(e) /\ Once(e)
    BY <1>12
  <2> QED BY <1>2, <1>13, <2>1, ListLoaded
<1>16. e \o h[N] = h[N]
  BY <1>12, <1>15, ConcatEmptySeq DEF IsSeq
<1> QED BY <1>3, <1>4, <1>5, <1>11, <1>14, <1>15, <1>16
-------------------------------------------------------------------------------
(* The options: an option is there when some file says something of it, and  *)
(* it is what the last of these files says.                                  *)
Has(o, n) == n \in DOMAIN o /\ o[n] # Null

(* A map laid over another has the names of both, and its own values.        *)
LEMMA OverHas ==
    ASSUME NEW a, NEW b, NEW n
    PROVE  /\ Has(Over(NotNull(a), b), n) <=> (Has(a, n) \/ Has(b, n))
           /\ Has(a, n) => Over(NotNull(a), b)[n] = a[n]
           /\ ~Has(a, n) /\ Has(b, n) => Over(NotNull(a), b)[n] = b[n]
<1>1. /\ n \in DOMAIN NotNull(a) <=> (n \in DOMAIN a /\ a[n] # Null)
      /\ n \in DOMAIN NotNull(a) => NotNull(a)[n] = a[n]
  BY DEF NotNull
<1>2. PICK c : c = NotNull(a)
  OBVIOUS
<1>3. /\ n \in DOMAIN Over(c, b) <=> (n \in DOMAIN c \/ n \in DOMAIN b)
      /\ n \in DOMAIN c => Over(c, b)[n] = c[n]
      /\ n \notin DOMAIN c /\ n \in DOMAIN b => Over(c, b)[n] = b[n]
  BY DEF Over
<1>4. n \in DOMAIN c <=> Has(a, n)
  BY <1>1, <1>2 DEF Has
<1>5. CASE Has(a, n)
  <2>1. Over(c, b)[n] = a[n] /\ n \in DOMAIN Over(c, b) /\ a[n] # Null
    BY <1>1, <1>2, <1>3, <1>4, <1>5 DEF Has
  <2>2. Has(Over(c, b), n)
    BY <2>1 DEF Has
  <2> QED BY <1>2, <1>5, <2>1, <2>2
<1>6. CASE ~Has(a, n)
  <2>1. n \in DOMAIN Over(c, b) <=> n \in DOMAIN b
    BY <1>3, <1>4, <1>6
  <2>2. n \in DOMAIN b => Over(c, b)[n] = b[n]
    BY <1>3, <1>4, <1>6
  <2>3. Has(Over(c, b), n) <=> Has(b, n)
    BY <2>1, <2>2 DEF Has
  <2>4. Has(b, n) => Over(c, b)[n] = b[n]
    BY <2>2 DEF Has
  <2> QED BY <1>2, <1>6, <2>3, <2>4
<1> QED BY <1>5, <1>6

(* Maps laid one over the other, of the files that are read.                 *)
Overlaid(N, o, part, reads) ==
    /\ reads[0] /\ o[0] = part[0]
    /\ \A k \in 1..N : reads[k] => o[k] = Over(NotNull(part[k]), o[k - 1])
    /\ \A k \in 1..N : ~reads[k] => o[k] = o[k - 1]

(* The files that say something of a name.                                   *)
Sayers(says, N, part, reads, n) ==
    says \subseteq 0..N /\ \A k \in 0..N : k \in says <=> (reads[k] /\ Has(part[k], n))

(* Numbers up to k, and up to the one before.                                *)
LEMMA Positions ==
    ASSUME NEW N \in Nat, NEW k \in 1..N, NEW h, h = k - 1, NEW m \in 0..N
    PROVE  (m <= k <=> (m <= h \/ m = k)) /\ ~(k <= h) /\ (m <= h => ~(k <= m)) /\ m <= m
OBVIOUS

(* The value of a name is what the last file that says something of it says. *)
LEMMA LastSays ==
    ASSUME NEW N \in Nat, NEW o, NEW part, NEW reads, Overlaid(N, o, part, reads),
           NEW n, NEW says, Sayers(says, N, part, reads, n)
    PROVE  /\ Has(o[N], n) <=> says # {}
           /\ says # {} => o[N][n] = part[Max(says)][n]
<1> DEFINE P(k) == /\ Has(o[k], n) <=> \E m \in says : m <= k
                   /\ \A m \in says : m <= k /\ (\A j \in says : j <= k => j <= m) => o[k][n] = part[m][n]
           S == {k \in 0..N : P(k)}
<1>0. /\ says \subseteq 0..N
      /\ \A k \in 0..N : k \in says <=> (reads[k] /\ Has(part[k], n))
      /\ reads[0] /\ o[0] = part[0]
      /\ \A k \in 1..N : reads[k] => o[k] = Over(NotNull(part[k]), o[k - 1])
      /\ \A k \in 1..N : ~reads[k] => o[k] = o[k - 1]
  BY DEF Overlaid, Sayers
<1>1. 0 \in S
  <2>1. Has(o[0], n) <=> \E m \in says : m <= 0
    <3>1. 0 \in 0..N /\ 0 <= 0 /\ \A m \in says : m <= 0 => m = 0
      BY <1>0
    <3>2. Has(o[0], n) <=> 0 \in says
      BY <1>0, <3>1
    <3> QED BY <3>1, <3>2
  <2>2. \A m \in says : m <= 0 => o[0][n] = part[m][n]
    <3>1. \A m \in says : m <= 0 => m = 0
      BY <1>0
    <3> QED BY <1>0, <3>1
  <2>3. P(0)
    BY <2>1, <2>2
  <2> HIDE DEF P
  <2> QED BY <2>3
<1>2. ASSUME NEW k \in 1..N, k - 1 \in S PROVE k \in S
  <2>1. P(k - 1) /\ k \in 0..N
    BY <1>2
  <2>2. PICK h : h = k - 1
    OBVIOUS
  <2>3. /\ Has(o[h], n) <=> \E m \in says : m <= h
        /\ \A m \in says : m <= h /\ (\A j \in says : j <= h => j <= m) => o[h][n] = part[m][n]
    BY <2>1, <2>2
  <2>4. \A m \in says : (m <= k <=> (m <= h \/ m = k)) /\ ~(k <= h) /\ (m <= h => ~(k <= m)) /\ m <= m
    BY <1>0, <2>2, Positions
  <2> HIDE DEF S, P
  <2>5. CASE k \in says
    <3>1. reads[k] /\ Has(part[k], n)
      BY <1>0, <2>1, <2>5
    <3>2. o[k] = Over(NotNull(part[k]), o[h])
      BY <1>0, <2>2, <3>1
    <3>3. Has(o[k], n) /\ o[k][n] = part[k][n]
      BY <3>1, <3>2, OverHas
    <3>4. Has(o[k], n) <=> \E m \in says : m <= k
      BY <2>4, <2>5, <3>3
    <3>5. ASSUME NEW m \in says, m <= k, \A j \in says : j <= k => j <= m
          PROVE  o[k][n] = part[m][n]
      <4>1. k <= m
        BY <2>4, <2>5, <3>5
      <4>2. m = k
        BY <2>4, <2>5, <3>5, <4>1
      <4> QED BY <3>3, <4>2
    <3>6. P(k)
      BY <3>4, <3>5 DEF P
    <3> QED BY <2>1, <3>6 DEF S
  <2>6. CASE k \notin says
    <3>1. \A m \in says : m <= k <=> m <= h
      BY <2>4, <2>6
    <3>2. (Has(o[k], n) <=> Has(o[h], n)) /\ (Has(o[h], n) => o[k][n] = o[h][n])
      <4>1. CASE reads[k]
        <5>1. ~Has(part[k], n)
          BY <1>0, <2>1, <2>6, <4>1
        <5>2. o[k] = Over(NotNull(part[k]), o[h])
          BY <1>0, <2>2, <4>1
        <5> QED BY <5>1, <5>2, OverHas
      <4>2. CASE ~reads[k]
        <5>1. o[k] = o[h]
          BY <1>0, <2>2, <4>2
        <5> QED BY <5>1
      <4> QED BY <4>1, <4>2
    <3>3. Has(o[k], n) <=> \E m \in says : m <= k
      BY <2>3, <3>1, <3>2
    <3>4. ASSUME NEW m \in says, m <= k, \A j \in says : j <= k => j <= m
          PROVE  o[k][n] = part[m][n]
      <4>1. m <= h /\ \A j \in says : j <= h => j <= m
        BY <3>1, <3>4
      <4>2. Has(o[h], n) /\ o[h][n] = part[m][n]
        BY <2>3, <4>1
      <4> QED BY <3>2, <4>2
    <3>5. P(k)
      BY <3>3, <3>4 DEF P
    <3> QED BY <2>1, <3>5 DEF S
  <2> QED BY <2>5, <2>6
<1>3. P(N)
  <2> HIDE DEF S, P
  <2>1. 0..N \subseteq S
    BY <1>1, <1>2, UpTo
  <2>2. N \in S
    BY <2>1
  <2> QED BY <2>2 DEF S
<1>4. \A m \in says : m <= N
  BY <1>0
<1>5. Has(o[N], n) <=> says # {}
  BY <1>3, <1>4
<1>6. ASSUME says # {} PROVE o[N][n] = part[Max(says)][n]
  <2>1. Max(says) \in says /\ \A y \in says : y <= Max(says)
    BY <1>0, <1>6, Greatest
  <2> QED BY <1>3, <1>4, <2>1
<1> QED BY <1>5, <1>6

(* The options that LoadInterface returns.                                   *)
LEMMA OptionsLoaded ==
    ASSUME NEW dir, NEW import, import = dir[Main].content.import, Imports(dir), Faithful(dir, import)
    PROVE  NotNull(LoadInterface(dir).option) = DocumentedOptions(dir)
<1>1. import \in Seq(Range(import))
  BY DEF Imports, IsSeq
<1>2. PICK N : N = Len(import) /\ N \in Nat /\ DOMAIN import = 1..N
  BY <1>1
<1>3. PICK f : /\ LoadInterface(dir) = f[N] /\ f[0] = MainInterface(dir[Main].content)
               /\ \A k \in 1..N : f[k] = loadImportedFile(dir, f[k - 1], import[k])
  BY <1>1, <1>2, LoadDefined
<1> DEFINE Shaped(p) == {"tasks", "option", "presets"} \subseteq DOMAIN p
           S == {k \in 0..N : Shaped(f[k])}
<1>4. \A k \in 0..N : Shaped(f[k])
  <2>1. 0 \in S
    BY <1>2, <1>3 DEF MainInterface
  <2>2. ASSUME NEW k \in 1..N, k - 1 \in S PROVE k \in S
    <3>1. f[k] = loadImportedFile(dir, f[k - 1], import[k]) /\ Shaped(f[k - 1]) /\ k \in 0..N
      BY <1>2, <1>3, <2>2
    <3> QED BY <3>1 DEF loadImportedFile
  <2> HIDE DEF S
  <2>3. 0..N \subseteq S
    BY <1>2, <2>1, <2>2, UpTo
  <2> QED BY <2>3 DEF S
<1> DEFINE o == [k \in 0..N |-> f[k].option]
           reads == [k \in 0..N |-> k = 0 \/ Readable(dir, import[k])]
           part == [k \in 0..N |-> dir[IF k = 0 THEN Main ELSE import[k]].content.option]
           says(n) == {k \in {j \in 0..N : j = 0 \/ Readable(dir, import[j])} :
                          n \in DOMAIN part[k] /\ part[k][n] # Null}
<1>5. o[0] = part[0] /\ reads[0] /\ o[N] = LoadInterface(dir).option
  <2>1. 0 \in 0..N /\ N \in 0..N
    BY <1>2
  <2>2. f[0].option = dir[Main].content.option
    BY <1>3 DEF MainInterface
  <2> QED BY <1>3, <2>1, <2>2
<1>6. ASSUME NEW k \in 1..N
      PROVE  /\ reads[k] => o[k] = Over(NotNull(part[k]), o[k - 1])
             /\ ~reads[k] => o[k] = o[k - 1]
  <2>1. PICK p, path : p = f[k - 1] /\ path = import[k]
    OBVIOUS
  <2>2. k \in 0..N /\ k - 1 \in 0..N /\ k # 0
    BY <1>2
  <2>3. Shaped(p) /\ f[k] = loadImportedFile(dir, p, path)
    BY <1>3, <1>4, <2>1, <2>2
  <2>4. Unmarshals(dir, path) <=> Readable(dir, path)
    BY <1>2, <2>1 DEF Faithful, Range
  <2>5. o[k] = f[k].option /\ o[k - 1] = p.option /\ part[k] = dir[path].content.option
    BY <2>1, <2>2
  <2>6. reads[k] <=> Readable(dir, path)
    BY <2>1, <2>2
  <2> HIDE DEF o, reads, part
  <2>7. CASE ~Readable(dir, path)
    <3>1. f[k] = p
      BY <2>3, <2>4, <2>7, ImportSkipped
    <3> QED BY <2>5, <2>6, <2>7, <3>1
  <2>8. CASE Readable(dir, path)
    <3>1. f[k].option = Over(NotNull(dir[path].content.option), p.option)
      BY <2>3, <2>4, <2>8, ImportTaken
    <3> QED BY <2>5, <2>6, <2>8, <3>1
  <2> QED BY <2>7, <2>8
<1>7. ASSUME NEW n
      PROVE  /\ says(n) \subseteq 0..N
             /\ \A k \in 0..N : k \in says(n) <=> (reads[k] /\ Has(part[k], n))
  BY DEF Has
<1>8. \A k \in 0..N : dir[IF k = 0 THEN Main ELSE import[k]].content.option = part[k]
  OBVIOUS
<1> DEFINE read == {k \in 0..N : k = 0 \/ Readable(dir, import[k])}
           names == UNION {DOMAIN part[k] : k \in read}
<1>9. DocumentedOptions(dir) = [n \in {m \in names : says(m) # {}} |-> part[Max(says(n))][n]]
  <2> DEFINE options(k) == dir[IF k = 0 THEN Main ELSE import[k]].content.option
             says0(n) == {k \in read : n \in DOMAIN options(k) /\ options(k)[n] # Null}
             names0 == UNION {DOMAIN options(k) : k \in read}
  <2>1. DocumentedOptions(dir) = [n \in {m \in names0 : says0(m) # {}} |-> options(Max(says0(n)))[n]]
    BY <1>2 DEF DocumentedOptions
  <2>2. \A k \in read : options(k) = part[k]
    OBVIOUS
  <2> HIDE DEF options, part
  <2>3. names0 = names
    BY <2>2
  <2>4. \A n : says0(n) = says(n)
    BY <2>2
  <2>5. \A n : says(n) # {} => Max(says(n)) \in read
    <3> SUFFICES ASSUME NEW n, says(n) # {} PROVE Max(says(n)) \in read
      OBVIOUS
    <3>1. says(n) \subseteq 0..N /\ says(n) \subseteq read
      OBVIOUS
    <3> HIDE DEF says, read
    <3>2. Max(says(n)) \in says(n)
      BY <1>2, <3>1, Greatest
    <3> QED BY <3>1, <3>2
  <2> HIDE DEF says, says0, names, names0, read
  <2> QED BY <2>1, <2>2, <2>3, <2>4, <2>5
<1>10. ASSUME NEW n
       PROVE  /\ Has(o[N], n) <=> says(n) # {}
              /\ says(n) # {} => o[N][n] = part[Max(says(n))][n]
  <2> HIDE DEF o, part, reads, says
  <2>1. Overlaid(N, o, part, reads)
    BY <1>5, <1>6 DEF Overlaid
  <2>2. Sayers(says(n), N, part, reads, n)
    BY <1>7 DEF Sayers
  <2> QED BY <1>2, <2>1, <2>2, LastSays
<1>11. \A n : says(n) # {} => n \in names
  OBVIOUS
<1> HIDE DEF o, part, reads, says, names, read
<1>12. \A n : (n \in DOMAIN o[N] /\ o[N][n] # Null) <=> (n \in names /\ says(n) # {})
  BY <1>10, <1>11 DEF Has
<1>13. NotNull(o[N]) = [n \in {m \in DOMAIN o[N] : o[N][m] # Null} |-> o[N][n]]
  BY DEF NotNull
<1>14. {m \in DOMAIN o[N] : o[N][m] # Null} = {m \in names : says(m) # {}}
  BY <1>12
<1>15. NotNull(o[N]) = DocumentedOptions(dir)
  BY <1>9, <1>10, <1>13, <1>14
<1> QED BY <1>5, <1>15
===============================================================================
