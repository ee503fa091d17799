----------------------------- MODULE Credentials ------------------------------
(***************************************************************************)
(* The device token and where it lives: config.yaml and device.json, which *)
(* survive, and config.Config, store.Store and client.Client, which do     *)
(* not.  main loads the files and prompts for a binding code; the read     *)
(* loop handles registered and auth_failed, which rewrite both files, one  *)
(* after the other and each by os.WriteFile, so that the process may die   *)
(* with a file empty or with the two in disagreement.                      *)
(*                                                                         *)
(* The server is external: it answers auth by the tokens it holds valid,   *)
(* answers register with a new token, an error or not at all, and forgets  *)
(* a token when its user unbinds the device.                               *)
(***************************************************************************)
EXTENDS Integers, Sequences

CONSTANTS
    MaxTokens,   \* bound: tokens the server issues
    MaxStarts,   \* bound: starts of the process
    Windows,     \* runtime.GOOS == "windows"
    Files        \* what config.yaml may be when it all begins

ASSUME CredentialsAssumption ==
    /\ MaxTokens \in Nat /\ MaxStarts \in Nat
    /\ Windows \in BOOLEAN

None == 0
Tokens == 1..MaxTokens
MaybeTokens == Tokens \cup {None}

(* config.yaml is "missing", "empty", "edited" by hand, "saved" by the client *)
(* (its first line tells) or "broken", that is no YAML.  A regular expression *)
(* with an escape that YAML's double quotes lack is "escaped"; by hand it can *)
(* be quoted so that it is YAML.  Startup has what else becomes of texts.    *)
FileStates == [form : {"missing", "empty", "edited", "saved", "broken"},
               token : MaybeTokens, regex : {"plain", "escaped"}]

ASSUME FilesAssumption == Files \subseteq FileStates

VARIABLES
    pc,           \* where main and then the read loop are
    starts,
    yaml,         \* config.yaml
    json,         \* device.json: [whole, token]
    config,       \* globalConfig, which main and the client share
    storeToken,   \* localStorage.data.DeviceToken
    clientToken,  \* Client.deviceToken
    prompt,       \* the binding code: "none", "asking", "code" or "spent"
    inbox,        \* answers of the server on their way
    msg,          \* the message being handled
    issued, valid,\* the server's tokens
    bound,        \* history: the token whose registration reached device.json
    saved,        \* history: the token SaveToken wrote, since the last message about tokens
    refused,      \* history: tokens whose refusal was handled and cleared both files
    wiped         \* history: tokens cleared for the refusal of another

fileVars == <<yaml, json>>
memVars == <<config, storeToken, clientToken>>
serverVars == <<inbox, issued, valid>>
histVars == <<bound, saved, refused, wiped>>
vars == <<pc, starts, fileVars, memVars, prompt, msg, serverVars, histVars>>

File(form, token, regex) == [form |-> form, token |-> token, regex |-> regex]
Blank(form) == File(form, None, "plain")

(* SaveConfig puts every value between double quotes as it is; only a path   *)
(* has its backslashes turned.                                               *)
Rendered(c) == File(IF c.regex = "escaped" THEN "broken" ELSE "saved", c.token, c.regex)

NoMessage == [type |-> "none", token |-> None]

Init ==
    /\ pc = "off" /\ starts = 0
    /\ yaml \in Files
    /\ json = [whole |-> FALSE, token |-> None]
    /\ config = [token |-> None, regex |-> "plain"]
    /\ storeToken = None /\ clientToken = None
    /\ prompt = "none"
    /\ inbox = <<>> /\ msg = NoMessage
    /\ issued = yaml.token /\ valid = 1..issued
    /\ bound = None /\ saved = None /\ refused = {} /\ wiped = {}

Goto(at, to) == pc = at /\ pc' = to
-------------------------------------------------------------------------------
(* main.                                                                     *)

Load ==
    /\ Goto("off", IF yaml.form = "broken" THEN "fatal" ELSE "format")
    /\ starts < MaxStarts /\ starts' = starts + 1
    /\ config' = [token |-> yaml.token, regex |-> yaml.regex]
    /\ clientToken' = None
    /\ UNCHANGED <<fileVars, storeToken, prompt, msg, serverVars, histVars>>

NeedsRewrite == yaml.form # "saved" \/ (Windows /\ yaml.regex = "escaped")

EnsureConfigFormat ==
    /\ \/ Goto("format", "rewrite") /\ NeedsRewrite /\ yaml' = Blank("empty")
       \/ Goto("format", "store") /\ UNCHANGED yaml    \* no need, or no permission
    /\ UNCHANGED <<starts, json, memVars, prompt, msg, serverVars, histVars>>

RewriteConfig ==
    /\ Goto("rewrite", "store")
    /\ yaml' = Rendered(config) \/ UNCHANGED yaml
    /\ UNCHANGED <<starts, json, memVars, prompt, msg, serverVars, histVars>>

(* A device.json that does not parse counts as none.                         *)
NewStore ==
    /\ Goto("store", "prompt")
    /\ storeToken' = IF json.whole THEN json.token ELSE None
    /\ config' = [config EXCEPT !.token = IF storeToken' # None THEN storeToken' ELSE @]
    /\ UNCHANGED <<starts, fileVars, clientToken, prompt, msg, serverVars, histVars>>

HasToken == clientToken # None

(* -bind on the command line, or a goroutine that reads a code.              *)
OfferBinding ==
    /\ Goto("prompt", "run")
    /\ \/ prompt' = "code"
       \/ prompt' = IF HasToken THEN "none" ELSE "asking"
    /\ UNCHANGED <<starts, fileVars, memVars, msg, serverVars, histVars>>

EnterCode ==
    /\ prompt = "asking" /\ pc \notin {"off", "fatal"}
    /\ prompt' = "code"
    /\ UNCHANGED <<pc, starts, fileVars, memVars, msg, serverVars, histVars>>
-------------------------------------------------------------------------------
(* Client.Run.                                                               *)

RunBegin ==
    /\ Goto("run", "connect")
    /\ clientToken' = config.token
    /\ UNCHANGED <<starts, fileVars, config, storeToken, prompt, msg, serverVars, histVars>>

Connect ==
    /\ Goto("connect", "auth")
    /\ inbox' = <<>>
    /\ UNCHANGED <<starts, fileVars, memVars, prompt, msg, issued, valid, histVars>>

(* The server's verdict on the token, if there is one to send.               *)
SendAuth ==
    /\ Goto("auth", "read")
    /\ inbox' = IF clientToken = None THEN inbox
                ELSE Append(inbox, [type |-> IF clientToken \in valid THEN "authenticated"
                                             ELSE "auth_failed",
                                    token |-> clientToken])
    /\ UNCHANGED <<starts, fileVars, memVars, prompt, msg, issued, valid, histVars>>

Disconnect ==
    /\ pc \in {"auth", "read"} /\ pc' = "connect"
    /\ UNCHANGED <<starts, fileVars, memVars, prompt, msg, serverVars, histVars>>

(* The code is sent once, on any connection of this process.  The request or *)
(* its answer may be lost, and the code may be no good.                      *)
Answered ==
    \/ /\ issued < MaxTokens
       /\ issued' = issued + 1
       /\ valid' = valid \cup {issued'}
       /\ \/ inbox' = Append(inbox, [type |-> "registered", token |-> issued'])
          \/ UNCHANGED inbox
    \/ UNCHANGED serverVars

SendRegister_Repeated ==
    /\ prompt = "code" /\ pc \in {"auth", "read"}
    /\ Answered
    /\ UNCHANGED <<pc, starts, fileVars, memVars, prompt, msg, histVars>>
SendRegister ==
    /\ prompt = "code" /\ pc \in {"auth", "read"}
    /\ prompt' = "spent"
    /\ Answered
    /\ UNCHANGED <<pc, starts, fileVars, memVars, msg, histVars>>
-------------------------------------------------------------------------------
(* The read loop: the handler of the message, then the callback of main.     *)

Receive(type) == pc = "read" /\ inbox # <<>> /\ Head(inbox).type = type /\ inbox' = Tail(inbox)

HandleAuthenticated ==
    /\ Receive("authenticated")
    /\ UNCHANGED <<pc, starts, fileVars, memVars, prompt, msg, issued, valid, histVars>>

(* SaveToken begins: the client and the shared configuration have the token, *)
(* the file is truncated, or cannot be opened, which costs a line of log.    *)
SaveToken(token) ==
    /\ \/ pc' = "config" /\ yaml' = Blank("empty")
       \/ pc' = "callback" /\ UNCHANGED yaml
    /\ clientToken' = token
    /\ config' = [config EXCEPT !.token = token]
    /\ UNCHANGED storeToken

HandleRegistered ==
    /\ Receive("registered")
    /\ \/ /\ SaveToken(Head(inbox).token)
          /\ msg' = Head(inbox)
          /\ bound' = None /\ saved' = None
       \/ UNCHANGED <<pc, yaml, memVars, msg, bound, saved>>      \* bad payload
    /\ UNCHANGED <<starts, json, prompt, issued, valid, refused, wiped>>

(* With a bad payload the handler returns and only the callback clears.      *)
HandleAuthFailed ==
    /\ Receive("auth_failed")
    /\ bound' = None /\ saved' = None
    /\ \/ /\ SaveToken(None)
          /\ msg' = Head(inbox)
          /\ wiped' = wiped \cup ({clientToken} \ {None, Head(inbox).token})
       \/ /\ pc' = "callback"
          /\ msg' = [type |-> "bad", token |-> None]
          /\ UNCHANGED <<yaml, memVars, wiped>>
    /\ UNCHANGED <<starts, json, prompt, issued, valid, refused>>

WriteConfig ==
    /\ Goto("config", "callback")
    /\ \/ /\ yaml' = Rendered(config)
          /\ saved' = IF msg.type = "registered" THEN msg.token ELSE None
       \/ UNCHANGED <<yaml, saved>>                              \* a full disk
    /\ UNCHANGED <<starts, json, memVars, prompt, msg, serverVars, bound, refused, wiped>>

(* SaveCredentials or ClearCredentials.                                      *)
Kept_NeverCleared == IF msg.type = "registered" THEN msg.token ELSE storeToken
Kept_FirstOnly == IF msg.type = "registered" /\ storeToken = None THEN msg.token
                  ELSE IF msg.type = "registered" THEN storeToken ELSE None
Kept == IF msg.type = "registered" THEN msg.token ELSE None

OnMessage ==
    /\ \/ Goto("callback", "device") /\ json' = [whole |-> FALSE, token |-> None]
       \/ Goto("callback", "read") /\ UNCHANGED json
    /\ storeToken' = Kept
    /\ UNCHANGED <<starts, yaml, config, clientToken, prompt, msg, serverVars, histVars>>

WriteStore ==
    /\ Goto("device", "read")
    /\ \/ /\ json' = [whole |-> TRUE, token |-> storeToken]
          /\ bound' = IF msg.type = "registered" THEN msg.token ELSE None
          /\ refused' = IF msg.type = "auth_failed" /\ yaml.token # msg.token
                        THEN refused \cup {msg.token} ELSE refused
       \/ UNCHANGED <<json, bound, refused>>
    /\ UNCHANGED <<starts, yaml, memVars, prompt, msg, serverVars, saved, wiped>>
-------------------------------------------------------------------------------
(* The process ends, by a signal, a power cut or the console window, and the *)
(* user unbinds a device in the web page.                                    *)

Die ==
    /\ pc \notin {"off", "fatal"}
    /\ pc' = "off" /\ prompt' = "none" /\ inbox' = <<>> /\ msg' = NoMessage
    /\ UNCHANGED <<starts, fileVars, memVars, issued, valid, histVars>>

Unbind ==
    /\ \E t \in valid : valid' = valid \ {t}
    /\ UNCHANGED <<pc, starts, fileVars, memVars, prompt, msg, inbox, issued, histVars>>

(* Loading failed, or the bound on starts is reached.                        *)
Over == (pc = "fatal" \/ (pc = "off" /\ starts = MaxStarts)) /\ UNCHANGED vars

Next ==
    \/ Load \/ EnsureConfigFormat \/ RewriteConfig \/ NewStore \/ OfferBinding \/ EnterCode
    \/ RunBegin \/ Connect \/ SendAuth \/ Disconnect \/ SendRegister
    \/ HandleAuthenticated \/ HandleRegistered \/ HandleAuthFailed
    \/ WriteConfig \/ OnMessage \/ WriteStore
    \/ Die \/ Unbind \/ Over

Spec == Init /\ [][Next]_vars
-------------------------------------------------------------------------------
(* Properties.                                                               *)

Online == {"connect", "auth", "read"}

Answers == [type : {"authenticated", "auth_failed", "registered"}, token : Tokens]

TypeOK ==
    /\ pc \in {"off", "fatal", "format", "rewrite", "store", "prompt", "run",
               "config", "callback", "device"} \cup Online
    /\ starts \in 0..MaxStarts
    /\ yaml \in FileStates
    /\ json \in [whole : BOOLEAN, token : MaybeTokens]
    /\ config \in [token : MaybeTokens, regex : {"plain", "escaped"}]
    /\ storeToken \in MaybeTokens /\ clientToken \in MaybeTokens
    /\ prompt \in {"none", "asking", "code", "spent"}
    /\ inbox \in Seq(Answers) /\ Len(inbox) <= 2
    /\ msg \in [type : {"none", "registered", "auth_failed", "bad"}, token : MaybeTokens]
    /\ issued \in MaybeTokens /\ valid \subseteq 1..issued
    /\ bound \in MaybeTokens /\ saved \in MaybeTokens
    /\ refused \subseteq Tokens /\ wiped \subseteq Tokens

(* A registration whose token reached device.json is what every later start  *)
(* presents, whenever the processes before it died, whichever file they were *)
(* writing and whether config.yaml could be written, until the server says   *)
(* something new.                                                            *)
BindingSurvives == pc \in Online /\ bound # None => clientToken = bound

(* A token whose refusal was handled to the end, with both files cleared of  *)
(* it, is never presented again, by this process or a later one.             *)
RefusedNotReused == pc \in Online => clientToken \notin refused

(* Why they hold: what each of them leans on.                                *)

Handling == {"config", "callback", "device"}
Registered(i) == inbox[i].type = "registered"

(* A connection carries at most one verdict, which follows its auth, and at  *)
(* most one answer to the code; none is left when the process starts.        *)
InboxInOrder ==
    /\ pc \notin Online \cup Handling => inbox = <<>>
    /\ pc = "auth" => \A i \in DOMAIN inbox : Registered(i)
    /\ \A i, j \in DOMAIN inbox : Registered(i) = Registered(j) => i = j

(* Every token the client holds, has written down or is told about by a      *)
(* verdict.                                                                  *)
Held == {yaml.token, json.token, config.token, storeToken, clientToken}
Told == {inbox[i].token : i \in {j \in DOMAIN inbox : ~Registered(j)}}
Known == Held \cup Told \cup refused \cup (IF pc \in Handling THEN {msg.token} ELSE {})

(* The code is sent once, so a registered message brings the last token the  *)
(* server issued, and one the client has never seen.                         *)
RegisteredIsNew ==
    /\ Known \subseteq 0..issued
    /\ \A i \in DOMAIN inbox : Registered(i) =>
          prompt = "spent" /\ inbox[i].token = issued /\ issued \notin Known

(* While a message is handled, memory follows it.                            *)
HandlingFollows ==
    pc \in Handling =>
        /\ bound = None
        /\ msg.type \in {"registered", "auth_failed", "bad"}
        /\ msg.type # "bad" => msg.token \in Tokens
        /\ msg.type = "registered" => clientToken = msg.token /\ config.token = msg.token
        /\ msg.type = "auth_failed" => clientToken = None /\ config.token = None
        /\ pc = "device" => storeToken = Kept

(* device.json holds the binding, and memory has it once it is read.         *)
BindingStored ==
    bound # None =>
        /\ json = [whole |-> TRUE, token |-> bound]
        /\ pc \in {"prompt", "run"} => config.token = bound

(* A refused token is nowhere any more.                                      *)
RefusedGone == refused \cap Held = {}

(* The inductive invariant.                                                  *)
IInv ==
    /\ TypeOK /\ InboxInOrder /\ RegisteredIsNew
    /\ HandlingFollows /\ BindingStored /\ BindingSurvives
    /\ RefusedGone

(* What the documents say and the code does not do.                          *)

(* Only a client without a token asks for a binding code.                    *)
AsksOnlyUnbound == pc = "run" /\ prompt = "asking" => config.token = None

(* A client whose token was refused waits for a binding code.                *)
RefusedWaitsForBinding ==
    refused # {} /\ pc = "read" /\ inbox = <<>> /\ clientToken = None
        => prompt \in {"asking", "code"}

(* A token that was saved is the one the next start presents.                *)
SavedTokenIsUsed == pc \in Online /\ saved # None => clientToken = saved

(* auth_failed clears the token it is about, not one bound since.            *)
NewBindingKept == wiped = {}
===============================================================================
