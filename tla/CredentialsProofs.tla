--------------------------- MODULE CredentialsProofs ---------------------------
(***************************************************************************)
(* Proofs about Credentials for any number of tokens and starts and any    *)
(* config.yaml to begin with: what a crash or a failing write, wherever it *)
(* falls, leaves of a binding and of a refusal.                            *)
(***************************************************************************)
EXTENDS Credentials, SequenceTheorems, TLAPS

(* Abbreviations that every step expands.                                    *)
USE CredentialsAssumption, FilesAssumption
    DEF vars, fileVars, memVars, serverVars, histVars, Goto, None, Tokens, MaybeTokens,
        Online, Handling, Blank, File

(* The messages on their way, after one is added and after one is taken.     *)
LEMMA Added ==
    ASSUME inbox \in Seq(Answers), NEW m \in Answers, inbox' = Append(inbox, m)
    PROVE  /\ inbox' \in Seq(Answers) /\ Len(inbox') = Len(inbox) + 1
           /\ DOMAIN inbox = 1..Len(inbox) /\ DOMAIN inbox' = 1..(Len(inbox) + 1)
           /\ \A i \in DOMAIN inbox : inbox'[i] = inbox[i]
           /\ inbox'[Len(inbox) + 1] = m
  BY AppendProperties

LEMMA Taken ==
    ASSUME inbox \in Seq(Answers), inbox # <<>>, inbox' = Tail(inbox)
    PROVE  /\ inbox' \in Seq(Answers) /\ Len(inbox') = Len(inbox) - 1
           /\ 1 \in DOMAIN inbox /\ Head(inbox) = inbox[1] /\ Head(inbox) \in Answers
           /\ \A i \in DOMAIN inbox' : i + 1 \in DOMAIN inbox /\ inbox'[i] = inbox[i + 1]
  BY HeadTailProperties

LEMMA InitIInv == Init => IInv
<1> SUFFICES ASSUME Init PROVE IInv
  OBVIOUS
<1>1. TypeOK
  BY DEF Init, TypeOK, FileStates, NoMessage
<1>2. InboxInOrder
  BY DEF Init, InboxInOrder
<1>3. RegisteredIsNew
  BY DEF Init, RegisteredIsNew, Known, Held, Told, FileStates
<1>4. HandlingFollows /\ BindingStored /\ BindingSurvives /\ RefusedGone
  BY DEF Init, HandlingFollows, BindingStored, BindingSurvives, RefusedGone
<1>5. QED
  BY <1>1, <1>2, <1>3, <1>4 DEF IInv

LEMMA SafeFile == ASSUME config \in [token : MaybeTokens, regex : {"plain", "escaped"}]
                  PROVE  Rendered(config) \in FileStates /\ Rendered(config).token = config.token
  BY DEF Rendered, FileStates

(* Of two messages on their way one is a verdict and one a registration.     *)
LEMMA Fits ==
    ASSUME inbox \in Seq(Answers), Len(inbox) <= 2, InboxInOrder
    PROVE  /\ (\A i \in DOMAIN inbox : Registered(i)) => Len(inbox) <= 1
           /\ (\A i \in DOMAIN inbox : ~Registered(i)) => Len(inbox) <= 1
<1>1. DOMAIN inbox = 1..Len(inbox) /\ Len(inbox) \in Nat
  BY LenProperties
<1>2. Len(inbox) > 1 => 1 \in DOMAIN inbox /\ 2 \in DOMAIN inbox
  BY <1>1
<1>3. QED
  <2>1. \/ Len(inbox) <= 1
        \/ (Registered(1) /\ ~Registered(2)) \/ (Registered(2) /\ ~Registered(1))
    BY <1>1, <1>2 DEF InboxInOrder, Registered
  <2>2. QED BY <1>1, <1>2, <2>1

(* What the two messages a client sends put on their way.                    *)
LEMMA AuthAnswered ==
    ASSUME TypeOK, InboxInOrder, SendAuth
    PROVE  \/ clientToken = None /\ inbox' = inbox
           \/ \E m \in Answers : /\ m.type \in {"authenticated", "auth_failed"}
                                 /\ m.token = clientToken
                                 /\ Len(inbox) <= 1
                                 /\ inbox' = Append(inbox, m)
<1>1. CASE clientToken = None
  BY <1>1 DEF SendAuth
<1>2. CASE clientToken # None
  <2> DEFINE m == [type |-> IF clientToken \in valid THEN "authenticated" ELSE "auth_failed",
                   token |-> clientToken]
  <2>1. m \in Answers /\ m.type \in {"authenticated", "auth_failed"} /\ m.token = clientToken
    BY <1>2 DEF Answers, TypeOK
  <2>2. inbox' = Append(inbox, m)
    BY <1>2 DEF SendAuth
  <2>3. Len(inbox) <= 1
    BY Fits DEF SendAuth, InboxInOrder, TypeOK
  <2> HIDE DEF m
  <2>4. QED BY <2>1, <2>2, <2>3
<1>3. QED BY <1>1, <1>2

LEMMA CodeAnswered ==
    ASSUME TypeOK, InboxInOrder, RegisteredIsNew, SendRegister
    PROVE  /\ \A i \in DOMAIN inbox : ~Registered(i)
           /\ Len(inbox) <= 1
           /\ issued' \in {issued, issued + 1} /\ issued' \in MaybeTokens
           /\ valid' \subseteq 1..issued'
           /\ \/ inbox' = inbox
              \/ \E m \in Answers : /\ m.type = "registered" /\ m.token = issued'
                                    /\ issued' = issued + 1
                                    /\ inbox' = Append(inbox, m)
<1>1. \A i \in DOMAIN inbox : ~Registered(i)
  BY DEF SendRegister, RegisteredIsNew
<1>2. Len(inbox) <= 1
  BY <1>1, Fits DEF TypeOK
<1>3. /\ issued' \in {issued, issued + 1} /\ issued' \in MaybeTokens
      /\ valid' \subseteq 1..issued'
  <2>1. issued \in MaybeTokens /\ valid \subseteq 1..issued
    BY DEF TypeOK
  <2>2. CASE issued < MaxTokens /\ issued' = issued + 1 /\ valid' = valid \cup {issued'}
    BY <2>1, <2>2
  <2>3. CASE UNCHANGED <<issued, valid>>
    BY <2>1, <2>3
  <2>4. QED BY <2>2, <2>3 DEF SendRegister, Answered
<1>4. \/ inbox' = inbox
      \/ issued' = issued + 1 /\ inbox' = Append(inbox, [type |-> "registered", token |-> issued'])
  BY DEF SendRegister, Answered
<1>5. issued' = issued + 1 => [type |-> "registered", token |-> issued'] \in Answers
  BY <1>3 DEF Answers, TypeOK
<1>6. QED
  BY <1>1, <1>2, <1>3, <1>4, <1>5

LEMMA NextInboxOK ==
    ASSUME TypeOK, InboxInOrder, RegisteredIsNew, [Next]_vars
    PROVE  inbox' \in Seq(Answers) /\ Len(inbox') <= 2
<1>1. inbox \in Seq(Answers) /\ Len(inbox) <= 2 /\ Len(inbox) \in Nat
  BY LenProperties DEF TypeOK
<1>2. CASE UNCHANGED inbox
  BY <1>1, <1>2
<1>3. CASE inbox' = <<>>
  BY <1>3, EmptySeq
<1>4. CASE SendAuth
  BY <1>1, <1>4, AuthAnswered, AppendProperties
<1>5. CASE SendRegister
  BY <1>1, <1>5, CodeAnswered, AppendProperties
<1>6. CASE inbox # <<>> /\ inbox' = Tail(inbox)
  <2>1. inbox' \in Seq(Answers) /\ Len(inbox') = Len(inbox) - 1
    BY <1>1, <1>6, Taken
  <2>2. QED BY <1>1, <2>1
<1>7. QED
  BY <1>2, <1>3, <1>4, <1>5, <1>6
     DEF Next, Load, EnsureConfigFormat, RewriteConfig, NewStore, OfferBinding, EnterCode,
         RunBegin, Connect, Disconnect, HandleAuthenticated, HandleRegistered, HandleAuthFailed,
         Receive, WriteConfig, OnMessage, WriteStore, Die, Unbind, Over

LEMMA NextTypeOK ==
    ASSUME TypeOK, InboxInOrder, RegisteredIsNew, HandlingFollows, [Next]_vars
    PROVE  TypeOK'
<1> DEFINE Inbox == inbox \in Seq(Answers) /\ Len(inbox) <= 2
<1>0. Inbox /\ Inbox'
  BY NextInboxOK DEF TypeOK
<1> HIDE DEF Inbox
<1> DEFINE Message == [type : {"none", "registered", "auth_failed", "bad"}, token : MaybeTokens]
           Device == [whole : BOOLEAN, token : MaybeTokens]
<1> USE DEF TypeOK
<1>1. CASE Load \/ EnsureConfigFormat \/ NewStore \/ OfferBinding \/ EnterCode
  <2>1. CASE Load
    BY <1>0, <2>1 DEF Load, FileStates, Inbox
  <2>2. CASE EnsureConfigFormat
    BY <1>0, <2>2 DEF EnsureConfigFormat, FileStates, Inbox
  <2>3. CASE NewStore
    BY <1>0, <2>3 DEF NewStore, Inbox
  <2>4. CASE OfferBinding \/ EnterCode
    BY <1>0, <2>4 DEF OfferBinding, EnterCode, Inbox
  <2>5. QED BY <1>1, <2>1, <2>2, <2>3, <2>4
<1>2. CASE RewriteConfig \/ WriteConfig
  BY <1>0, <1>2, SafeFile DEF RewriteConfig, WriteConfig, Inbox
<1>3. CASE RunBegin \/ Connect \/ Disconnect
  BY <1>0, <1>3 DEF RunBegin, Connect, Disconnect, Inbox
<1>4. CASE SendAuth
  BY <1>0, <1>4 DEF SendAuth, Inbox
<1>5. CASE SendRegister
  BY <1>0, <1>5, CodeAnswered DEF SendRegister, Inbox
<1>6. CASE HandleAuthenticated \/ HandleRegistered \/ HandleAuthFailed
  <2>1. inbox # <<>> => Head(inbox) \in Answers
    BY HeadTailProperties
  <2>2. CASE HandleAuthenticated
    BY <1>0, <2>2 DEF HandleAuthenticated, Receive, Inbox
  <2>3. CASE HandleRegistered
    <3>1. Head(inbox) \in Message /\ Head(inbox).token \in Tokens
      BY <2>1, <2>3 DEF HandleRegistered, Receive, Answers
    <3> HIDE DEF Message
    <3>2. msg' \in Message /\ bound' \in MaybeTokens /\ saved' \in MaybeTokens
      BY <2>3, <3>1 DEF HandleRegistered, Message
    <3>3. /\ yaml' \in FileStates /\ clientToken' \in MaybeTokens
          /\ config' \in [token : MaybeTokens, regex : {"plain", "escaped"}]
      BY <2>3, <3>1 DEF HandleRegistered, SaveToken, FileStates
    <3>4. QED BY <1>0, <2>3, <3>2, <3>3 DEF HandleRegistered, SaveToken, Inbox, Message
  <2>4. CASE HandleAuthFailed
    <3>1. Head(inbox) \in Message
      BY <2>1, <2>4 DEF HandleAuthFailed, Receive, Answers
    <3>2. [type |-> "bad", token |-> None] \in Message
      OBVIOUS
    <3> HIDE DEF Message
    <3>3. msg' \in Message /\ wiped' \subseteq Tokens
      BY <2>4, <3>1, <3>2 DEF HandleAuthFailed, Message
    <3>4. /\ yaml' \in FileStates /\ clientToken' \in MaybeTokens
          /\ config' \in [token : MaybeTokens, regex : {"plain", "escaped"}]
      BY <2>4 DEF HandleAuthFailed, SaveToken, FileStates
    <3>5. QED BY <1>0, <2>4, <3>3, <3>4 DEF HandleAuthFailed, SaveToken, Inbox, Message
  <2>5. QED BY <1>6, <2>2, <2>3, <2>4
<1>7. CASE OnMessage
  <2>1. Kept \in MaybeTokens
    BY DEF Kept
  <2>2. json' \in Device
    <3>1. json \in Device /\ [whole |-> FALSE, token |-> None] \in Device
      OBVIOUS
    <3> HIDE DEF Device
    <3>2. QED BY <1>7, <3>1, Zenon DEF OnMessage
  <2>3. QED BY <1>0, <1>7, <2>1, <2>2 DEF OnMessage, Inbox
<1>8. CASE WriteStore
  <2>1. json' \in Device
    <3>1. json \in Device /\ [whole |-> TRUE, token |-> storeToken] \in Device
      OBVIOUS
    <3> HIDE DEF Device
    <3>2. QED BY <1>8, <3>1, Zenon DEF WriteStore
  <2>2. bound' \in MaybeTokens /\ refused' \subseteq Tokens
    BY <1>8 DEF WriteStore, HandlingFollows
  <2>3. QED BY <1>0, <1>8, <2>1, <2>2 DEF WriteStore, Inbox
<1>9. CASE Die
  BY <1>0, <1>9 DEF Die, NoMessage, Inbox
<1>10. CASE Unbind
  BY <1>0, <1>10 DEF Unbind, Inbox
<1>11. CASE UNCHANGED vars
  BY <1>0, <1>11 DEF Inbox
<1>12. QED
  BY <1>1, <1>2, <1>3, <1>4, <1>5, <1>6, <1>7, <1>8, <1>9, <1>10, <1>11 DEF Next, Over

LEMMA NextInboxInOrder ==
    ASSUME TypeOK, InboxInOrder, RegisteredIsNew, [Next]_vars
    PROVE  InboxInOrder'
<1>1. inbox \in Seq(Answers) /\ Len(inbox) <= 2 /\ Len(inbox) \in Nat
      /\ DOMAIN inbox = 1..Len(inbox)
  BY LenProperties DEF TypeOK
<1>2. CASE /\ UNCHANGED inbox
           /\ pc' = pc \/ (pc' # "auth" /\ (pc \in Online \cup Handling => pc' \in Online \cup Handling))
  BY <1>2 DEF InboxInOrder, Registered
<1>3. CASE inbox' = <<>>
  BY <1>3 DEF InboxInOrder
<1>4. CASE SendAuth /\ inbox' # inbox
  <2>1. PICK m \in Answers : /\ m.type \in {"authenticated", "auth_failed"}
                             /\ Len(inbox) <= 1
                             /\ inbox' = Append(inbox, m)
    BY <1>4, AuthAnswered
  <2>2. /\ DOMAIN inbox' = 1..(Len(inbox) + 1)
        /\ \A i \in DOMAIN inbox : inbox'[i] = inbox[i]
        /\ inbox'[Len(inbox) + 1].type # "registered"
    BY <1>1, <2>1, Added
  <2>3. \A i \in DOMAIN inbox : inbox[i].type = "registered"
    BY <1>4 DEF SendAuth, InboxInOrder, Registered
  <2>4. pc' = "read"
    BY <1>4 DEF SendAuth
  <2>5. \A i \in DOMAIN inbox' : \/ i = Len(inbox) + 1 /\ inbox'[i].type # "registered"
                                 \/ i = 1 /\ inbox'[i].type = "registered"
    <3>1. CASE Len(inbox) = 0
      BY <1>1, <2>2, <3>1
    <3>2. CASE Len(inbox) = 1
      BY <1>1, <2>2, <2>3, <3>2
    <3>3. Len(inbox) = 0 \/ Len(inbox) = 1
      <4>1. Len(inbox) <= 1
        BY <2>1
      <4>2. QED BY <1>1, <4>1
    <3>4. QED BY <3>1, <3>2, <3>3
  <2>6. QED BY <2>4, <2>5 DEF InboxInOrder, Registered
<1>5. CASE SendRegister /\ inbox' # inbox
  <2>1. PICK m \in Answers : m.type = "registered" /\ inbox' = Append(inbox, m)
    BY <1>5, CodeAnswered
  <2>2. /\ DOMAIN inbox' = 1..(Len(inbox) + 1)
        /\ \A i \in DOMAIN inbox : inbox'[i] = inbox[i]
        /\ inbox'[Len(inbox) + 1].type = "registered"
    BY <1>1, <2>1, Added
  <2>3. Len(inbox) <= 1 /\ \A i \in DOMAIN inbox : inbox[i].type # "registered"
    BY <1>5, CodeAnswered DEF Registered
  <2>4. pc' = pc /\ pc \in {"auth", "read"}
    BY <1>5 DEF SendRegister
  <2>5. pc = "auth" => Len(inbox) = 0
    BY <1>1, <2>3 DEF InboxInOrder, Registered
  <2>6. QED BY <1>1, <2>2, <2>3, <2>4, <2>5 DEF InboxInOrder, Registered
<1>6. CASE pc = "read" /\ pc' \in {"read"} \cup Handling /\ inbox # <<>> /\ inbox' = Tail(inbox)
  <2>1. \A i \in DOMAIN inbox' : i \in Nat /\ i + 1 \in DOMAIN inbox /\ inbox'[i] = inbox[i + 1]
    <3>1. inbox' \in Seq(Answers) /\ \A i \in DOMAIN inbox' : i + 1 \in DOMAIN inbox /\ inbox'[i] = inbox[i + 1]
      BY <1>1, <1>6, Taken
    <3>2. QED BY <3>1, LenProperties
  <2>2. QED BY <1>6, <2>1 DEF InboxInOrder, Registered
<1>7. QED
  BY <1>2, <1>3, <1>4, <1>5, <1>6
     DEF Next, Load, EnsureConfigFormat, RewriteConfig, NewStore, OfferBinding, EnterCode,
         RunBegin, Connect, SendAuth, Disconnect, SendRegister, HandleAuthenticated,
         HandleRegistered, HandleAuthFailed, SaveToken, Receive, WriteConfig, OnMessage, WriteStore, Die, Unbind, Over

(* What keeps RegisteredIsNew: the client learns nothing but what it knew.   *)
LEMMA NothingLearnt ==
    ASSUME TypeOK, RegisteredIsNew, Known' \subseteq Known \cup {None}, issued' = issued,
           \A i \in DOMAIN inbox' : inbox'[i].type = "registered" =>
              /\ prompt' = prompt
              /\ \E j \in DOMAIN inbox : inbox'[i] = inbox[j]
    PROVE  RegisteredIsNew'
<1>1. \A j \in DOMAIN inbox : inbox[j].token \in Tokens
  <2>1. \A j \in DOMAIN inbox : inbox[j] \in Answers
    BY LenProperties, ElementOfSeq DEF TypeOK
  <2>2. QED BY <2>1 DEF Answers
<1>2. Known' \subseteq 0..issued' /\ issued \in Nat
  BY DEF RegisteredIsNew, TypeOK
<1>3. ASSUME NEW i \in DOMAIN inbox', inbox'[i].type = "registered"
      PROVE  prompt' = "spent" /\ inbox'[i].token = issued' /\ issued' \notin Known'
  <2>1. PICK j \in DOMAIN inbox : inbox'[i] = inbox[j]
    BY <1>3
  <2>2. prompt = "spent" /\ inbox[j].token = issued /\ issued \notin Known
    BY <1>3, <2>1 DEF RegisteredIsNew, Registered
  <2>3. issued # None
    BY <1>1, <2>2
  <2>4. QED BY <1>3, <2>1, <2>2, <2>3
<1>4. QED BY <1>2, <1>3 DEF RegisteredIsNew, Registered

(* What the verdicts on their way tell, after each thing that happens to them. *)
LEMMA NextTold ==
    ASSUME TypeOK, InboxInOrder, RegisteredIsNew
    PROVE  /\ inbox' = inbox => Told' = Told
           /\ inbox' = <<>> => Told' = {}
           /\ inbox # <<>> /\ inbox' = Tail(inbox) => Told' \subseteq Told
           /\ inbox # <<>> /\ Head(inbox).type # "registered" => Head(inbox).token \in Told
           /\ SendAuth => Told' \subseteq Told \cup {clientToken}
           /\ SendRegister => Told' = Told
<1>1. inbox \in Seq(Answers) /\ Len(inbox) \in Nat /\ DOMAIN inbox = 1..Len(inbox)
  BY LenProperties DEF TypeOK
<1>2. inbox' = inbox => Told' = Told
  BY DEF Told, Registered
<1>3. inbox' = <<>> => Told' = {}
  BY DEF Told, Registered
<1>4. ASSUME inbox # <<>>, inbox' = Tail(inbox)
      PROVE  Told' \subseteq Told
  <2>1. \A i \in DOMAIN inbox' : i + 1 \in DOMAIN inbox /\ inbox'[i] = inbox[i + 1]
    BY <1>1, <1>4, Taken
  <2>2. QED BY <2>1 DEF Told, Registered
<1>5. ASSUME inbox # <<>>, Head(inbox).type # "registered"
      PROVE  Head(inbox).token \in Told
  <2>1. 1 \in DOMAIN inbox /\ Head(inbox) = inbox[1]
    BY <1>1, <1>5, HeadTailProperties, EmptySeq
  <2>2. QED BY <1>5, <2>1 DEF Told, Registered
<1>6. ASSUME SendAuth PROVE Told' \subseteq Told \cup {clientToken}
  <2>1. CASE inbox' = inbox
    BY <1>2, <2>1
  <2>2. CASE inbox' # inbox
    <3>1. PICK m \in Answers : m.token = clientToken /\ inbox' = Append(inbox, m)
      BY <1>6, <2>2, AuthAnswered
    <3>2. /\ DOMAIN inbox' = 1..(Len(inbox) + 1)
          /\ \A i \in DOMAIN inbox : inbox'[i] = inbox[i]
          /\ inbox'[Len(inbox) + 1].token = clientToken
      BY <1>1, <3>1, Added
    <3>3. \A i \in DOMAIN inbox' : i \in DOMAIN inbox \/ i = Len(inbox) + 1
      BY <1>1, <3>2
    <3>4. QED BY <3>2, <3>3 DEF Told, Registered
  <2>3. QED BY <2>1, <2>2
<1>7. ASSUME SendRegister PROVE Told' = Told
  <2>1. CASE inbox' = inbox
    BY <1>2, <2>1
  <2>2. CASE inbox' # inbox
    <3>1. PICK m \in Answers : m.type = "registered" /\ inbox' = Append(inbox, m)
      BY <1>7, <2>2, CodeAnswered
    <3>2. /\ DOMAIN inbox' = 1..(Len(inbox) + 1)
          /\ \A i \in DOMAIN inbox : inbox'[i] = inbox[i]
          /\ inbox'[Len(inbox) + 1].type = "registered"
      BY <1>1, <3>1, Added
    <3>3. \A i \in DOMAIN inbox' : i \in DOMAIN inbox \/ i = Len(inbox) + 1
      BY <1>1, <3>2
    <3>4. DOMAIN inbox \subseteq DOMAIN inbox'
      BY <1>1, <3>2
    <3>5. QED BY <3>2, <3>3, <3>4 DEF Told, Registered
  <2>3. QED BY <2>1, <2>2
<1>8. QED BY <1>2, <1>3, <1>4, <1>5, <1>6, <1>7

LEMMA NextRegisteredIsNew ==
    ASSUME TypeOK, InboxInOrder, RegisteredIsNew, HandlingFollows, [Next]_vars
    PROVE  RegisteredIsNew'
<1>1. inbox \in Seq(Answers) /\ Len(inbox) \in Nat /\ DOMAIN inbox = 1..Len(inbox)
  BY LenProperties DEF TypeOK
<1>2. ASSUME UNCHANGED <<inbox, prompt, issued>>, Known' \subseteq Known \cup {None}
      PROVE  RegisteredIsNew'
  BY <1>2, NothingLearnt
<1>3. ASSUME UNCHANGED <<issued, prompt>>, Known' \subseteq Known \cup {None},
             inbox # <<>>, inbox' = Tail(inbox)
      PROVE  RegisteredIsNew'
  <2>1. \A i \in DOMAIN inbox' : i + 1 \in DOMAIN inbox /\ inbox'[i] = inbox[i + 1]
    BY <1>1, <1>3, Taken
  <2>2. QED BY <1>3, <2>1, NothingLearnt
<1>4. ASSUME UNCHANGED issued, Known' \subseteq Known \cup {None}, inbox' = <<>>
      PROVE  RegisteredIsNew'
  BY <1>4, NothingLearnt
<1>5. ASSUME Told' \subseteq Told \cup Held, refused' = refused,
             Held' \subseteq Held \cup {None},
             pc' \in Handling => pc \in Handling /\ msg' = msg
      PROVE  Known' \subseteq Known \cup {None}
  BY <1>5 DEF Known
<1>6. CASE Load
  <2>1. Held' \subseteq Held \cup {None}
    BY <1>6 DEF Load, Held
  <2>2. QED BY <1>2, <1>5, <1>6, <2>1, NextTold DEF Load
<1>7. CASE EnsureConfigFormat
  <2>1. Held' \subseteq Held \cup {None}
    BY <1>7 DEF EnsureConfigFormat, Held
  <2>2. QED BY <1>2, <1>5, <1>7, <2>1, NextTold DEF EnsureConfigFormat
<1>8. CASE RewriteConfig
  <2>1. Held' \subseteq Held \cup {None}
    BY <1>8, SafeFile DEF RewriteConfig, Held, TypeOK
  <2>2. QED BY <1>2, <1>5, <1>8, <2>1, NextTold DEF RewriteConfig
<1>9. CASE NewStore
  <2>1. storeToken' \in {json.token, None} /\ config'.token \in {json.token, config.token}
    BY <1>9 DEF NewStore, TypeOK
  <2>2. Held' \subseteq Held \cup {None}
    BY <1>9, <2>1 DEF NewStore, Held
  <2>3. QED BY <1>2, <1>5, <1>9, <2>2, NextTold DEF NewStore
<1>10. CASE OfferBinding \/ EnterCode
  <2>1. Known' \subseteq Known \cup {None}
    <3>1. Held' = Held
      BY <1>10 DEF OfferBinding, EnterCode, Held
    <3>2. QED BY <1>5, <1>10, <3>1, NextTold DEF OfferBinding, EnterCode
  <2>2. \A i \in DOMAIN inbox : inbox[i].type # "registered"
    BY <1>10 DEF OfferBinding, EnterCode, RegisteredIsNew, Registered, InboxInOrder
  <2>3. QED BY <1>10, <2>1, <2>2, NothingLearnt DEF OfferBinding, EnterCode
<1>11. CASE RunBegin
  <2>1. Held' \subseteq Held \cup {None}
    BY <1>11 DEF RunBegin, Held
  <2>2. QED BY <1>2, <1>5, <1>11, <2>1, NextTold DEF RunBegin
<1>12. CASE Connect
  <2>1. Held' = Held
    BY <1>12 DEF Connect, Held
  <2>2. QED BY <1>4, <1>5, <1>12, <2>1, NextTold DEF Connect
<1>13. CASE SendAuth
  <2>1. Held' = Held /\ clientToken \in Held
    BY <1>13 DEF SendAuth, Held
  <2>2. Known' \subseteq Known \cup {None}
    BY <1>5, <1>13, <2>1, NextTold DEF SendAuth
  <2>3. \A i \in DOMAIN inbox' : inbox'[i].type = "registered" =>
           \E j \in DOMAIN inbox : inbox'[i] = inbox[j]
    <3>1. CASE inbox' = inbox
      BY <3>1
    <3>2. CASE inbox' # inbox
      <4>1. PICK m \in Answers : m.type # "registered" /\ inbox' = Append(inbox, m)
        BY <1>13, <3>2, AuthAnswered
      <4>2. /\ DOMAIN inbox' = 1..(Len(inbox) + 1)
            /\ \A i \in DOMAIN inbox : inbox'[i] = inbox[i]
            /\ inbox'[Len(inbox) + 1].type # "registered"
        BY <1>1, <4>1, Added
      <4>3. \A i \in DOMAIN inbox' : i \in DOMAIN inbox \/ i = Len(inbox) + 1
        BY <1>1, <4>2
      <4>4. QED BY <4>2, <4>3
    <3>3. QED BY <3>1, <3>2
  <2>4. QED BY <1>13, <2>2, <2>3, NothingLearnt DEF SendAuth
<1>14. CASE Disconnect
  <2>1. Held' = Held
    BY <1>14 DEF Disconnect, Held
  <2>2. QED BY <1>2, <1>5, <1>14, <2>1, NextTold DEF Disconnect
<1>15. CASE SendRegister
  <2>1. Held' = Held /\ refused' = refused /\ pc' = pc /\ pc \notin Handling /\ prompt' = "spent"
    BY <1>15 DEF SendRegister, Held
  <2>2. Known' = Known
    BY <1>15, <2>1, NextTold DEF Known
  <2>3. Known \subseteq 0..issued /\ issued' \in {issued, issued + 1} /\ issued \in Nat
    BY <1>15, CodeAnswered DEF RegisteredIsNew, TypeOK
  <2>4. ASSUME NEW i \in DOMAIN inbox', inbox'[i].type = "registered"
        PROVE  inbox'[i].token = issued' /\ issued' \notin Known
    <3>1. \A k \in DOMAIN inbox : inbox[k].type # "registered"
      BY <1>15, CodeAnswered DEF Registered
    <3>2. inbox' # inbox
      BY <2>4, <3>1
    <3>3. PICK m \in Answers : m.token = issued' /\ issued' = issued + 1 /\ inbox' = Append(inbox, m)
      BY <1>15, <3>2, CodeAnswered
    <3>4. inbox'[i] = m
      <4>1. /\ DOMAIN inbox' = 1..(Len(inbox) + 1)
            /\ \A k \in DOMAIN inbox : inbox'[k] = inbox[k]
            /\ inbox'[Len(inbox) + 1] = m
        BY <1>1, <3>3, Added
      <4>2. i \in DOMAIN inbox \/ i = Len(inbox) + 1
        BY <1>1, <4>1
      <4>3. QED BY <2>4, <3>1, <4>1, <4>2
    <3>5. QED BY <2>3, <3>3, <3>4
  <2>5. QED BY <2>1, <2>2, <2>3, <2>4 DEF RegisteredIsNew, Registered
<1>16. CASE HandleAuthenticated
  <2>1. Held' = Held
    BY <1>16 DEF HandleAuthenticated, Held
  <2>2. QED BY <1>3, <1>5, <1>16, <2>1, NextTold DEF HandleAuthenticated, Receive
<1>17. CASE HandleRegistered
  <2>1. CASE msg' = Head(inbox)
    <3>1. inbox # <<>> /\ inbox' = Tail(inbox) /\ Head(inbox).type = "registered"
      BY <1>17 DEF HandleRegistered, Receive
    <3>2. /\ 1 \in DOMAIN inbox /\ Head(inbox) = inbox[1]
          /\ \A i \in DOMAIN inbox' : i \in Nat /\ i + 1 \in DOMAIN inbox /\ inbox'[i] = inbox[i + 1]
      <4>1. /\ inbox' \in Seq(Answers) /\ 1 \in DOMAIN inbox /\ Head(inbox) = inbox[1]
            /\ \A i \in DOMAIN inbox' : i + 1 \in DOMAIN inbox /\ inbox'[i] = inbox[i + 1]
        BY <1>1, <3>1, Taken
      <4>2. DOMAIN inbox' \subseteq Nat
        BY <4>1, LenProperties
      <4>3. QED BY <4>1, <4>2
    <3>3. inbox[1].token = issued
      BY <3>1, <3>2 DEF RegisteredIsNew, Registered
    <3>4. \A i \in DOMAIN inbox' : inbox'[i].type # "registered"
      BY <3>1, <3>2 DEF InboxInOrder, Registered
    <3>5. Held' \subseteq Held \cup {None, issued}
      BY <1>17, <2>1, <3>2, <3>3 DEF HandleRegistered, SaveToken, Held, TypeOK
    <3>6. Known' \subseteq Known \cup {None, issued}
      <4>1. Told' \subseteq Told /\ refused' = refused /\ msg'.token = issued
        BY <1>17, <2>1, <3>1, <3>2, <3>3, NextTold DEF HandleRegistered
      <4>2. QED BY <3>5, <4>1 DEF Known
    <3>7. Known \subseteq 0..issued /\ issued' = issued /\ issued \in Nat
      BY <1>17 DEF HandleRegistered, RegisteredIsNew, TypeOK
    <3>8. QED BY <3>4, <3>6, <3>7 DEF RegisteredIsNew, Registered
  <2>2. CASE UNCHANGED <<pc, yaml, memVars, msg>>
    <3>1. Held' = Held
      BY <1>17, <2>2 DEF HandleRegistered, Held
    <3>2. QED BY <1>3, <1>5, <1>17, <2>2, <3>1, NextTold DEF HandleRegistered, Receive
  <2>3. QED BY <1>17, <2>1, <2>2 DEF HandleRegistered
<1>18. CASE HandleAuthFailed
  <2>1. inbox # <<>> /\ inbox' = Tail(inbox) /\ Head(inbox).token \in Told
    BY <1>18, NextTold DEF HandleAuthFailed, Receive
  <2>2. Held' \subseteq Held \cup {None}
    BY <1>18 DEF HandleAuthFailed, SaveToken, Held, TypeOK
  <2>3. msg'.token \in Told \cup {None}
    BY <1>18, <2>1 DEF HandleAuthFailed
  <2>4. Known' \subseteq Known \cup {None}
    BY <1>18, <2>1, <2>2, <2>3, NextTold DEF Known, HandleAuthFailed
  <2>5. QED BY <1>3, <1>18, <2>1, <2>4 DEF HandleAuthFailed
<1>19. CASE WriteConfig
  <2>1. Held' \subseteq Held \cup {None}
    BY <1>19, SafeFile DEF WriteConfig, Held, TypeOK
  <2>2. QED BY <1>2, <1>5, <1>19, <2>1, NextTold DEF WriteConfig
<1>20. CASE OnMessage
  <2>1. Held' \subseteq Held \cup {None, msg.token} /\ pc \in Handling /\ msg' = msg
    BY <1>20 DEF OnMessage, Kept, Held
  <2>2. Known' \subseteq Known \cup {None}
    BY <1>20, <2>1, NextTold DEF Known, OnMessage
  <2>3. QED BY <1>2, <1>20, <2>2 DEF OnMessage
<1>21. CASE WriteStore
  <2>1. Held' \subseteq Held
    BY <1>21 DEF WriteStore, Held
  <2>2. refused' \subseteq refused \cup {msg.token} /\ pc \in Handling /\ pc' \notin Handling
    BY <1>21 DEF WriteStore
  <2>3. Known' \subseteq Known \cup {None}
    BY <1>21, <2>1, <2>2, NextTold DEF Known, WriteStore
  <2>4. QED BY <1>2, <1>21, <2>3 DEF WriteStore
<1>22. CASE Die
  <2>1. Held' = Held
    BY <1>22 DEF Die, Held
  <2>2. QED BY <1>4, <1>5, <1>22, <2>1, NextTold DEF Die
<1>23. CASE Unbind
  <2>1. Held' = Held
    BY <1>23 DEF Unbind, Held
  <2>2. QED BY <1>2, <1>5, <1>23, <2>1, NextTold DEF Unbind
<1>24. CASE UNCHANGED vars
  <2>1. Held' = Held
    BY <1>24 DEF Held
  <2>2. QED BY <1>2, <1>5, <1>24, <2>1, NextTold
<1>25. QED
  BY <1>6, <1>7, <1>8, <1>9, <1>10, <1>11, <1>12, <1>13, <1>14, <1>15, <1>16, <1>17, <1>18,
     <1>19, <1>20, <1>21, <1>22, <1>23, <1>24 DEF Next, Over

LEMMA NextHandlingFollows ==
    ASSUME TypeOK, HandlingFollows, [Next]_vars
    PROVE  HandlingFollows'
<1>1. CASE HandleRegistered
  <2>1. CASE msg' = Head(inbox)
    <3>1. Head(inbox).type = "registered" /\ Head(inbox).token \in Tokens
      <4>1. Head(inbox) \in Answers /\ Head(inbox).type = "registered"
        BY <1>1, HeadTailProperties DEF HandleRegistered, Receive, TypeOK
      <4>2. QED BY <4>1 DEF Answers
    <3>2. CASE SaveToken(Head(inbox).token) /\ bound' = None
      BY <2>1, <3>1, <3>2 DEF SaveToken, HandlingFollows, TypeOK
    <3>3. CASE pc' = pc
      BY <1>1, <3>3 DEF HandleRegistered, Receive, HandlingFollows
    <3>4. QED BY <1>1, <3>2, <3>3 DEF HandleRegistered
  <2>2. CASE pc' = pc
    BY <1>1, <2>2 DEF HandleRegistered, Receive, HandlingFollows
  <2>3. QED BY <1>1, <2>1, <2>2 DEF HandleRegistered
<1>2. CASE HandleAuthFailed
  <2>1. CASE msg' = Head(inbox)
    <3>1. Head(inbox).type = "auth_failed" /\ Head(inbox).token \in Tokens
      <4>1. Head(inbox) \in Answers /\ Head(inbox).type = "auth_failed"
        BY <1>2, HeadTailProperties DEF HandleAuthFailed, Receive, TypeOK
      <4>2. QED BY <4>1 DEF Answers
    <3>2. CASE SaveToken(None)
      BY <1>2, <2>1, <3>1, <3>2 DEF HandleAuthFailed, SaveToken, HandlingFollows, TypeOK
    <3>3. CASE pc' = "callback" /\ msg' = [type |-> "bad", token |-> None]
      BY <1>2, <3>3 DEF HandleAuthFailed, HandlingFollows
    <3>4. QED BY <1>2, <3>2, <3>3 DEF HandleAuthFailed
  <2>2. CASE pc' = "callback" /\ msg' = [type |-> "bad", token |-> None]
    BY <1>2, <2>2 DEF HandleAuthFailed, HandlingFollows
  <2>3. QED BY <1>2, <2>1, <2>2 DEF HandleAuthFailed
<1>3. CASE WriteConfig
  BY <1>3 DEF WriteConfig, HandlingFollows
<1>4. CASE OnMessage
  BY <1>4 DEF OnMessage, HandlingFollows, Kept
<1>5. CASE pc' \notin Handling
  BY <1>5 DEF HandlingFollows
<1>6. CASE UNCHANGED <<pc, bound, msg, clientToken, config, storeToken>>
  BY <1>6 DEF HandlingFollows, Kept
<1>7. QED
  BY <1>1, <1>2, <1>3, <1>4, <1>5, <1>6
     DEF Next, Load, EnsureConfigFormat, RewriteConfig, NewStore, OfferBinding, EnterCode,
         RunBegin, Connect, SendAuth, Disconnect, SendRegister, HandleAuthenticated, Receive,
         WriteStore, Die, Unbind, Over

(* A binding is in device.json, and nothing writes that file until a message *)
(* about tokens ends the binding.                                            *)
LEMMA NextBindingStored ==
    ASSUME TypeOK, HandlingFollows, BindingStored, BindingSurvives, [Next]_vars
    PROVE  BindingStored'
<1>1. CASE bound' = None
  BY <1>1 DEF BindingStored
<1>2. CASE NewStore
  <2>1. bound # None => storeToken' = bound /\ config'.token = bound
    BY <1>2 DEF NewStore, BindingStored, TypeOK
  <2>2. QED BY <1>2, <2>1 DEF NewStore, BindingStored
<1>3. CASE WriteStore
  BY <1>3 DEF WriteStore, BindingStored, HandlingFollows, Kept
<1>4. CASE OnMessage
  BY <1>4 DEF OnMessage, HandlingFollows, BindingStored
<1>5. CASE /\ UNCHANGED <<json, bound>>
           /\ pc' \notin {"prompt", "run"} \/ (pc \in {"prompt", "run"} /\ config' = config)
  BY <1>5 DEF BindingStored
<1>6. QED
  BY <1>1, <1>2, <1>3, <1>4, <1>5
     DEF Next, Load, EnsureConfigFormat, RewriteConfig, OfferBinding, EnterCode,
         RunBegin, Connect, SendAuth, Disconnect, SendRegister, HandleAuthenticated,
         HandleRegistered, HandleAuthFailed, SaveToken, Receive, WriteConfig, Die, Unbind, Over

LEMMA NextBindingSurvives ==
    ASSUME TypeOK, HandlingFollows, BindingStored, BindingSurvives, [Next]_vars
    PROVE  BindingSurvives'
<1>1. CASE bound' = None \/ pc' \notin Online
  BY <1>1 DEF BindingSurvives
<1>2. CASE RunBegin
  BY <1>2 DEF RunBegin, BindingStored, BindingSurvives
<1>3. CASE OnMessage
  BY <1>3 DEF OnMessage, HandlingFollows, BindingSurvives
<1>4. CASE WriteStore
  BY <1>4 DEF WriteStore, HandlingFollows, BindingSurvives
<1>5. CASE UNCHANGED <<clientToken, bound>> /\ (pc' \in Online => pc \in Online)
  BY <1>5 DEF BindingSurvives
<1>6. QED
  BY <1>1, <1>2, <1>3, <1>4, <1>5
     DEF Next, Load, EnsureConfigFormat, RewriteConfig, NewStore, OfferBinding, EnterCode,
         Connect, SendAuth, Disconnect, SendRegister, HandleAuthenticated, HandleRegistered,
         HandleAuthFailed, SaveToken, Receive, WriteConfig, Die, Unbind, Over

(* A refused token cannot come back: what is new to the client is what the   *)
(* server has just issued, and what it copies is what it holds.              *)
LEMMA NextRefusedGone ==
    ASSUME TypeOK, RegisteredIsNew, HandlingFollows, RefusedGone, [Next]_vars
    PROVE  RefusedGone'
<1>1. None \notin refused
  BY DEF TypeOK
<1>2. ASSUME refused' = refused, Held' \subseteq Held \cup {None}
      PROVE  RefusedGone'
  BY <1>1, <1>2 DEF RefusedGone
<1>3. CASE Load \/ EnsureConfigFormat \/ RunBegin
  <2>1. Held' \subseteq Held \cup {None}
    BY <1>3 DEF Load, EnsureConfigFormat, RunBegin, Held
  <2>2. QED BY <1>2, <1>3, <2>1 DEF Load, EnsureConfigFormat, RunBegin
<1>4. CASE NewStore
  <2>1. storeToken' \in {json.token, None} /\ config'.token \in {json.token, config.token}
    BY <1>4 DEF NewStore, TypeOK
  <2>2. Held' \subseteq Held \cup {None}
    BY <1>4, <2>1 DEF NewStore, Held
  <2>3. QED BY <1>2, <1>4, <2>2 DEF NewStore
<1>5. CASE RewriteConfig \/ WriteConfig
  <2>1. Held' \subseteq Held \cup {None}
    BY <1>5, SafeFile DEF RewriteConfig, WriteConfig, Held, TypeOK
  <2>2. QED BY <1>2, <1>5, <2>1 DEF RewriteConfig, WriteConfig
<1>6. CASE HandleRegistered
  <2>1. refused' = refused
    BY <1>6 DEF HandleRegistered
  <2>2. Head(inbox).token \notin refused
    <3>1. 1 \in DOMAIN inbox /\ Head(inbox) = inbox[1] /\ Head(inbox).type = "registered"
      BY <1>6, HeadTailProperties, LenProperties, EmptySeq DEF HandleRegistered, Receive, TypeOK
    <3>2. QED BY <3>1 DEF RegisteredIsNew, Registered, Known
  <2>3. Held' \subseteq Held \cup {None, Head(inbox).token}
    BY <1>6 DEF HandleRegistered, SaveToken, Held, TypeOK
  <2>4. QED BY <1>1, <2>1, <2>2, <2>3 DEF RefusedGone
<1>7. CASE HandleAuthFailed
  <2>1. Held' \subseteq Held \cup {None}
    BY <1>7 DEF HandleAuthFailed, SaveToken, Held, TypeOK
  <2>2. QED BY <1>2, <1>7, <2>1 DEF HandleAuthFailed
<1>8. CASE OnMessage
  <2>1. storeToken' \in {clientToken, None}
    BY <1>8 DEF OnMessage, Kept, HandlingFollows
  <2>2. Held' \subseteq Held \cup {None}
    BY <1>8, <2>1 DEF OnMessage, Held
  <2>3. QED BY <1>2, <1>8, <2>2 DEF OnMessage
<1>9. CASE WriteStore
  <2>1. Held' \subseteq Held
    BY <1>9 DEF WriteStore, Held
  <2>2. CASE refused' = refused
    BY <1>2, <2>1, <2>2
  <2>3. CASE refused' # refused
    <3>1. /\ refused' = refused \cup {msg.token} /\ json'.token = storeToken
          /\ msg.type = "auth_failed" /\ yaml.token # msg.token
      BY <1>9, <2>3 DEF WriteStore
    <3>2. clientToken = None /\ config.token = None /\ storeToken = None /\ msg.token # None
      BY <1>9, <3>1 DEF WriteStore, HandlingFollows, Kept
    <3>3. msg.token \notin Held'
      BY <1>9, <3>1, <3>2 DEF WriteStore, Held
    <3>4. QED BY <2>1, <3>1, <3>3 DEF RefusedGone
  <2>4. QED BY <2>2, <2>3
<1>10. CASE UNCHANGED <<fileVars, memVars, refused>>
  <2>1. Held' = Held
    BY <1>10 DEF Held
  <2>2. QED BY <1>2, <1>10, <2>1
<1>11. QED
  BY <1>3, <1>4, <1>5, <1>6, <1>7, <1>8, <1>9, <1>10
     DEF Next, OfferBinding, EnterCode, Connect, SendAuth, Disconnect, SendRegister,
         HandleAuthenticated, Die, Unbind, Over

LEMMA NextIInv == IInv /\ [Next]_vars => IInv'
<1> SUFFICES ASSUME IInv, [Next]_vars PROVE IInv'
  OBVIOUS
<1> USE DEF IInv
<1>1. TypeOK' /\ InboxInOrder' /\ RegisteredIsNew'
  BY NextTypeOK, NextInboxInOrder, NextRegisteredIsNew
<1>2. HandlingFollows' /\ BindingStored' /\ BindingSurvives' /\ RefusedGone'
  BY NextHandlingFollows, NextBindingStored, NextBindingSurvives, NextRefusedGone
<1>3. QED BY <1>1, <1>2

(* The inductive invariant holds, however the process dies and writes fail.  *)
THEOREM Invariance == Spec => []IInv
<1>1. QED BY InitIInv, NextIInv, PTL DEF Spec

(* Every variable keeps its type: the tokens in the files are tokens, and    *)
(* the server never has more than two answers on their way.                  *)
THEOREM TypeCorrect == Spec => []TypeOK
<1>1. IInv => TypeOK
  BY DEF IInv
<1>2. QED BY <1>1, Invariance, PTL

(* Once its registration reached device.json, a binding is what every start  *)
(* presents until the server speaks of tokens again.                         *)
THEOREM BindingsSurvive == Spec => []BindingSurvives
<1>1. IInv => BindingSurvives
  BY DEF IInv
<1>2. QED BY <1>1, Invariance, PTL

(* A token that was refused, and cleared from both files, is never presented *)
(* again.                                                                    *)
THEOREM RefusalsLast == Spec => []RefusedNotReused
<1>1. IInv => RefusedNotReused
  BY DEF IInv, RefusedGone, Held, RefusedNotReused
<1>2. QED BY <1>1, Invariance, PTL
===============================================================================
