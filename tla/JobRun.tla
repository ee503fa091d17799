-------------------------------- MODULE JobRun --------------------------------
(***************************************************************************)
(* One device at work: the read loop of client/handler.go that accepts     *)
(* jobs, stops them and starts screenshots; the goroutine of each job      *)
(* (executeTask and Wrapper.RunTask); the goroutine of each screenshot     *)
(* (Wrapper.TakeScreenshot); and the main goroutine that cleans up and     *)
(* exits.  They share the fields of maa.Wrapper, which RunTask and         *)
(* StopTask touch partly under Wrapper.mu and partly not, so each stretch  *)
(* of code between two points where another goroutine can be seen is an    *)
(* action of its own.                                                      *)
(*                                                                         *)
(* MaaFramework and the agents' operating-system processes are external:   *)
(* connecting, loading, creating, starting and running may each fail.      *)
(***************************************************************************)
EXTENDS Integers, FiniteSets

CONSTANTS
    Runs,         \* run_task messages, one goroutine each once accepted
    Shots,        \* request_screenshot messages, one goroutine each
    Controllers,  \* the controller names of interface.json
    Attaching,    \* those of them with attach_resource_path
    Requests,     \* what a run_task may ask: [ctrl, res, n], n task items
    Preferences,  \* what a request_screenshot may name, None for ""
    NumAgents,    \* agents configured in interface.json
    None          \* Go's nil and ""

ASSUME RequestsAssumption ==
    /\ None \notin Requests
    /\ \A q \in Requests : q.n \in Nat
ASSUME ThreadsAssumption == Runs \cap Shots = {} /\ None \notin Runs \cup Shots
ASSUME ControllersAssumption == None \notin Controllers /\ Attaching \subseteq Controllers
ASSUME AgentsAssumption == NumAgents \in Nat

VARIABLES
    (* client.Client *)
    currentJob,         \* the job being executed, or None
    reader,             \* the read loop: "read", or inside StopTask
    seen,               \* the tasker StopTask tested for nil
    (* the jobs *)
    jpc, want, item, outcome,
    stopped,            \* history: how a stop of the job met its execution
    (* the screenshots *)
    spc, pref,
    (* maa.Wrapper *)
    mu, stopRequested,
    controller, currentController,   \* a controller is named by its creator
    resource, currentResource, attached,
    tasker, bound,                   \* a tasker is named by its creator
    agentServers, nextAgent,
    (* outside: what exists in MaaFramework and in the operating system *)
    ctrls, taskers, halted, procs,
    proc                \* the client process

clientVars == <<currentJob, reader, seen>>
jobVars == <<jpc, want, item, outcome, stopped>>
shotVars == <<spc, pref>>
ctrlVars == <<controller, currentController, ctrls>>
resVars == <<resource, currentResource, attached>>
taskerVars == <<tasker, bound, taskers, halted>>
agentVars == <<agentServers, nextAgent, procs>>
vars == <<clientVars, jobVars, shotVars, mu, stopRequested, ctrlVars, resVars,
          taskerVars, agentVars, proc>>

Asked == {"unseen", "busy"}
Early == {"connect", "dial", "load", "attach", "bundle", "retire", "destroy", "create", "bind",
          "agents", "listing"}
InLoop == {"loop", "post", "wait"}
Active == {"spawned", "reap", "clear"} \cup Early \cup InLoop
Over == {"report", "done"}

Alive == proc \in {"up", "cleaned"}     \* goroutines run
Serving == proc = "up"                  \* main is inside Client.Run
Initialized == proc = "up"              \* Wrapper.initialized, reset by Cleanup

Init ==
    /\ currentJob = None /\ reader = "read" /\ seen = None
    /\ jpc = [r \in Runs |-> "unseen"]
    /\ want = [r \in Runs |-> None]
    /\ item = [r \in Runs |-> 0]
    /\ outcome = [r \in Runs |-> "none"]
    /\ stopped = [r \in Runs |-> "no"]
    /\ spc = [s \in Shots |-> "idle"] /\ pref = [s \in Shots |-> None]
    /\ mu = None /\ stopRequested = FALSE
    /\ controller = None /\ currentController = None /\ ctrls = {}
    /\ resource = FALSE /\ currentResource = None /\ attached = {}
    /\ tasker = None /\ bound = None /\ taskers = {} /\ halted = FALSE
    /\ agentServers = {} /\ nextAgent = 1 /\ procs = {}
    /\ proc = "up"

(* Job r, at pc "at", goes on to pc "to". *)
Goto(r, at, to) == Alive /\ jpc[r] = at /\ jpc' = [jpc EXCEPT ![r] = to]

(* Job r leaves RunTask with an error before the item loop. *)
Abort(r, at) ==
    /\ Goto(r, at, "clear")
    /\ outcome' = [outcome EXCEPT ![r] = "failed"]
    /\ UNCHANGED <<want, item, stopped>>

Step(r, at, to) == Goto(r, at, to) /\ UNCHANGED <<want, item, outcome, stopped>>

(* A nil *maafw.Tasker, *maafw.Resource or *maafw.Controller is dereferenced:  *)
(* no goroutine recovers, so the process dies where it stands.  It dies      *)
(* "crashed" if the client was serving, and "killed" if main had cleaned up. *)
Dies ==
    /\ proc' = IF Serving THEN "crashed" ELSE "killed"
    /\ UNCHANGED <<clientVars, jobVars, shotVars, mu, stopRequested, ctrlVars,
                   resVars, taskerVars, agentVars>>

Crash(r, at) == Alive /\ jpc[r] = at /\ Dies
-------------------------------------------------------------------------------
(* The read loop: run_task and stop_task.  Only it starts jobs.              *)

CanAccept_Always == TRUE
CanAccept == currentJob = None

RejectRunTask(r) ==
    /\ Serving /\ reader = "read"
    /\ ~CanAccept
    /\ jpc[r] = "unseen"
    /\ jpc' = [jpc EXCEPT ![r] = "busy"]
    /\ UNCHANGED <<clientVars, want, item, outcome, stopped, shotVars, mu, stopRequested,
                   ctrlVars, resVars, taskerVars, agentVars, proc>>

AcceptRunTask_WhileStopping(r) ==
    /\ Serving
    /\ CanAccept
    /\ jpc[r] = "unseen"
    /\ \E q \in Requests : want' = [want EXCEPT ![r] = q]
    /\ currentJob' = r
    /\ jpc' = [jpc EXCEPT ![r] = "spawned"]
    /\ UNCHANGED <<reader, seen, item, outcome, stopped, shotVars, mu, stopRequested,
                   ctrlVars, resVars, taskerVars, agentVars, proc>>
AcceptRunTask(r) ==
    /\ Serving /\ reader = "read"
    /\ CanAccept
    /\ jpc[r] = "unseen"
    /\ \E q \in Requests : want' = [want EXCEPT ![r] = q]
    /\ currentJob' = r
    /\ jpc' = [jpc EXCEPT ![r] = "spawned"]
    /\ UNCHANGED <<reader, seen, item, outcome, stopped, shotVars, mu, stopRequested,
                   ctrlVars, resVars, taskerVars, agentVars, proc>>

(* stop_task names the current job; for any other job the handler returns.   *)
HandleStopTask ==
    /\ Serving /\ reader = "read"
    /\ currentJob # None
    /\ reader' = "flag"
    /\ UNCHANGED <<currentJob, seen, jobVars, shotVars, mu, stopRequested, ctrlVars, resVars,
                   taskerVars, agentVars, proc>>

MoreItems_OneShort(r) == item[r] + 1 < want[r].n
MoreItems(r) == item[r] < want[r].n

(* How the flag meets the job: before RunTask has begun, while it still has  *)
(* an item to finish, or too late to matter.                                 *)
Meeting(r) ==
    IF jpc[r] = "spawned" THEN "early"
    ELSE IF jpc[r] \in Early \cup InLoop /\ MoreItems(r) THEN "landed"
    ELSE "late"

StopFlag ==
    /\ Alive /\ reader = "flag"
    /\ mu = None
    /\ stopRequested' = TRUE
    /\ stopped' = IF currentJob = None THEN stopped
                  ELSE [stopped EXCEPT ![currentJob] =
                          IF @ = "landed" THEN @ ELSE Meeting(currentJob)]
    /\ reader' = "test"
    /\ UNCHANGED <<currentJob, seen, jpc, want, item, outcome, shotVars, mu, ctrlVars, resVars,
                   taskerVars, agentVars, proc>>

(* w.tasker is tested and used after the unlock.  The two reads race with    *)
(* RunTask: the second may be of another tasker, or of none, or the compiler *)
(* may make one read of them.                                                *)
StopTest ==
    /\ Alive /\ reader = "test"
    /\ seen' = tasker
    /\ reader' = IF tasker = None THEN "read" ELSE "post"
    /\ UNCHANGED <<currentJob, jobVars, shotVars, mu, stopRequested, ctrlVars, resVars,
                   taskerVars, agentVars, proc>>

(* PostStop ends what the tasker is executing, and nothing it is given later. *)
StopPost ==
    /\ Alive /\ reader = "post"
    /\ \E t \in {seen, tasker} \ {None} :
         halted' = IF t \in taskers /\ \E r \in Runs : jpc[r] = "wait" THEN TRUE ELSE halted
    /\ reader' = "read" /\ seen' = None
    /\ UNCHANGED <<currentJob, jobVars, shotVars, mu, stopRequested, ctrlVars, resVars,
                   tasker, bound, taskers, agentVars, proc>>

StopNil == Alive /\ reader = "post" /\ tasker = None /\ Dies
-------------------------------------------------------------------------------
(* A job's goroutine up to its item loop.                                    *)

RunTaskBegin(r) ==
    /\ mu = None
    /\ \/ /\ ~Initialized
          /\ Abort(r, "spawned") /\ UNCHANGED stopRequested
       \/ /\ Initialized
          /\ Step(r, "spawned", "connect") /\ stopRequested' = FALSE
    /\ UNCHANGED <<clientVars, shotVars, mu, ctrlVars, resVars, taskerVars, agentVars, proc>>

(* The live controllers once c is destroyed. *)
Destroyed_Forgotten(c) == ctrls
Destroyed(c) == ctrls \ {c}

ControllerCached_AnyName(name) == controller # None
ControllerCached(name) == currentController = name /\ controller # None

(* connectControllerLocked: the cached controller, an unknown name, or the   *)
(* old controller destroyed and, with the mutex still held, a new one made.  *)
ConnectController(r) ==
    LET name == want[r].ctrl
        cached == ControllerCached(name)
    IN  /\ mu = None
        /\ \/ Step(r, "connect", "load") /\ cached /\ UNCHANGED <<mu, ctrlVars>>
           \/ /\ Abort(r, "connect")
              /\ ~cached /\ name \notin Controllers /\ UNCHANGED <<mu, ctrlVars>>
           \/ /\ Step(r, "connect", "dial")
              /\ ~cached /\ name \in Controllers
              /\ ctrls' = Destroyed(controller)
              /\ controller' = None
              /\ mu' = r
              /\ UNCHANGED currentController
        /\ UNCHANGED <<clientVars, shotVars, stopRequested, resVars, taskerVars,
                       agentVars, proc>>

Dial_KeepsLock(r) ==
    /\ \/ /\ Step(r, "dial", "load")
          /\ controller' = r
          /\ currentController' = want[r].ctrl
          /\ ctrls' = ctrls \cup {r}
          /\ mu' = None
       \/ Abort(r, "dial") /\ UNCHANGED <<ctrlVars, mu>>
    /\ UNCHANGED <<clientVars, shotVars, stopRequested, resVars, taskerVars, agentVars, proc>>
Dial_Retries(r) ==
    /\ mu' = None
    /\ \/ /\ Step(r, "dial", "load")
          /\ controller' = r
          /\ currentController' = want[r].ctrl
          /\ ctrls' = ctrls \cup {r}
       \/ Step(r, "dial", "connect") /\ UNCHANGED ctrlVars
    /\ UNCHANGED <<clientVars, shotVars, stopRequested, resVars, taskerVars, agentVars, proc>>
Dial_ErrorDropped(r) ==
    /\ mu' = None
    /\ \/ /\ Step(r, "dial", "load")
          /\ controller' = r
          /\ currentController' = want[r].ctrl
          /\ ctrls' = ctrls \cup {r}
       \/ Step(r, "dial", "load") /\ UNCHANGED ctrlVars
    /\ UNCHANGED <<clientVars, shotVars, stopRequested, resVars, taskerVars, agentVars, proc>>
Dial(r) ==
    /\ mu' = None
    /\ \/ /\ Step(r, "dial", "load")
          /\ controller' = r
          /\ currentController' = want[r].ctrl
          /\ ctrls' = ctrls \cup {r}
       \/ Abort(r, "dial") /\ UNCHANGED ctrlVars
    /\ UNCHANGED <<clientVars, shotVars, stopRequested, resVars, taskerVars, agentVars, proc>>

ResourceCached_AnyName(name) == resource
ResourceCached(name) == currentResource = name /\ resource

(* A name interface.json lacks fails before the old resource is released,    *)
(* NewResource fails after.                                                  *)
LoadResource(r) ==
    LET cached == ResourceCached(want[r].res)
    IN  /\ mu = None
        /\ \/ Step(r, "load", "attach") /\ cached /\ UNCHANGED resVars
           \/ Abort(r, "load") /\ ~cached /\ UNCHANGED resVars
           \/ /\ Abort(r, "load") /\ ~cached
              /\ resource' = FALSE /\ attached' = {} /\ UNCHANGED currentResource
           \/ /\ Step(r, "load", "attach") /\ ~cached
              /\ resource' = TRUE
              /\ currentResource' = want[r].res
              /\ attached' = {}
        /\ UNCHANGED <<clientVars, shotVars, mu, stopRequested, ctrlVars, taskerVars,
                       agentVars, proc>>

(* A bundle for the controller is attached if there is one, and a resource   *)
(* to attach it to; that is tested and used without the mutex.               *)
HasBundle_Always(r) == resource
HasBundle(r) == want[r].ctrl \in Attaching /\ resource

Attach(r) ==
    /\ \/ Step(r, "attach", "bundle") /\ HasBundle(r)
       \/ Step(r, "attach", "retire") /\ ~HasBundle(r)
    /\ UNCHANGED <<clientVars, shotVars, mu, stopRequested, ctrlVars, resVars, taskerVars,
                   agentVars, proc>>

(* PostBundle adds to the loaded resource; nothing ever takes a bundle out.  *)
PostBundle(r) ==
    /\ resource
    /\ Step(r, "bundle", "retire")
    /\ attached' = attached \cup {want[r].ctrl}
    /\ UNCHANGED <<clientVars, shotVars, mu, stopRequested, ctrlVars, resource,
                   currentResource, taskerVars, agentVars, proc>>

PostBundleNil(r) == ~resource /\ Crash(r, "bundle")

(* The live taskers once t is destroyed. *)
Retired_Forgotten(t) == taskers
Retired(t) == taskers \ {t}

RetireTasker(r) ==
    /\ \/ Step(r, "retire", "destroy") /\ tasker # None
       \/ Step(r, "retire", "create") /\ tasker = None
    /\ UNCHANGED <<clientVars, shotVars, mu, stopRequested, ctrlVars, resVars, taskerVars,
                   agentVars, proc>>

(* The old tasker is destroyed, and w.tasker still points to it.             *)
DestroyTasker(r) ==
    /\ tasker # None
    /\ Step(r, "destroy", "create")
    /\ taskers' = Retired(tasker)
    /\ UNCHANGED <<clientVars, shotVars, mu, stopRequested, ctrlVars, resVars, tasker,
                   bound, halted, agentVars, proc>>

DestroyNil(r) == tasker = None /\ Crash(r, "destroy")

CreateTasker(r) ==
    /\ \/ Step(r, "create", "bind") /\ tasker' = r /\ taskers' = taskers \cup {r}
       \/ Abort(r, "create") /\ tasker' = None /\ UNCHANGED taskers
    /\ bound' = None
    /\ UNCHANGED <<clientVars, shotVars, mu, stopRequested, ctrlVars, resVars, halted,
                   agentVars, proc>>

(* BindController, BindResource and Initialized().  The fields they read may *)
(* be nil: all of them after Cleanup, and while the client serves the        *)
(* controller, when a screenshot has taken it and dials, or found no other.  *)
Bound == tasker # None /\ controller # None /\ resource

Bind(r) ==
    /\ Bound
    /\ bound' = controller
    /\ Step(r, "bind", "agents") \/ Abort(r, "bind")
    /\ UNCHANGED <<clientVars, shotVars, mu, stopRequested, ctrlVars, resVars, tasker,
                   taskers, halted, agentVars, proc>>

BindNil(r) == ~Bound /\ Crash(r, "bind")

(* startAgents: the servers one after the other, each started and then put   *)
(* on the list; the first that does not start ends it, and the job goes on   *)
(* without the rest.                                                         *)
Agent(r) == <<r, nextAgent>>

StartAgent(r) ==
    /\ \/ /\ nextAgent <= NumAgents
          /\ Step(r, "agents", "listing")
          /\ procs' = procs \cup {Agent(r)} /\ UNCHANGED nextAgent
       \/ Step(r, "agents", "loop") /\ nextAgent' = 1 /\ UNCHANGED procs
    /\ UNCHANGED <<clientVars, shotVars, mu, stopRequested, ctrlVars, resVars, taskerVars,
                   agentServers, proc>>

ListAgent(r) ==
    /\ Step(r, "listing", "agents")
    /\ agentServers' = agentServers \cup {Agent(r)}
    /\ nextAgent' = nextAgent + 1
    /\ UNCHANGED <<clientVars, shotVars, mu, stopRequested, ctrlVars, resVars, taskerVars,
                   procs, proc>>
-------------------------------------------------------------------------------
(* The item loop of RunTask and the end of executeTask.                      *)

Leave_WithoutReaping(r, at, result) ==
    /\ Goto(r, at, IF result = "failed" THEN "clear" ELSE "reap")
    /\ outcome' = [outcome EXCEPT ![r] = result]
    /\ UNCHANGED <<want, stopped>>
(* What RunTask returns: the loop is left with taskErr nil or not.           *)
Leave(r, at, result) ==
    /\ Goto(r, at, "reap")
    /\ outcome' = [outcome EXCEPT ![r] = result]
    /\ UNCHANGED <<want, stopped>>

LoopCheck(r) ==
    /\ \/ Leave(r, "loop", "completed") /\ ~MoreItems(r)
       \/ Leave(r, "loop", "failed") /\ MoreItems(r)       \* stopped, or Compile fails
       \/ /\ Goto(r, "loop", "post") /\ MoreItems(r) /\ ~stopRequested
          /\ UNCHANGED <<want, outcome, stopped>>
    /\ UNCHANGED <<clientVars, item, shotVars, mu, stopRequested, ctrlVars, resVars,
                   taskerVars, agentVars, proc>>

PostTask(r) ==
    /\ tasker # None
    /\ Step(r, "post", "wait")
    /\ halted' = FALSE
    /\ UNCHANGED <<clientVars, shotVars, mu, stopRequested, ctrlVars, resVars, tasker,
                   bound, taskers, agentVars, proc>>

PostTaskNil(r) == tasker = None /\ Crash(r, "post")

ItemDone_StopUnseen(r) ==
    /\ Goto(r, "wait", "loop")
    /\ item' = [item EXCEPT ![r] = @ + 1]
    /\ UNCHANGED <<want, outcome, stopped>>
ItemDone(r) ==
    /\ ~stopRequested
    /\ Goto(r, "wait", "loop")
    /\ item' = [item EXCEPT ![r] = @ + 1]
    /\ UNCHANGED <<want, outcome, stopped>>

(* Wait returns, with a result of the framework's choosing; the stop request *)
(* is looked at before the result.                                           *)
TaskEnds(r) ==
    /\ \/ Leave(r, "wait", "failed") /\ UNCHANGED item
       \/ ItemDone(r)
    /\ UNCHANGED <<clientVars, shotVars, mu, stopRequested, ctrlVars, resVars, taskerVars,
                   agentVars, proc>>

StopAgents(r) ==
    /\ Step(r, "reap", "clear")
    /\ procs' = procs \ agentServers
    /\ agentServers' = {}
    /\ UNCHANGED <<clientVars, shotVars, mu, stopRequested, ctrlVars, resVars, taskerVars,
                   nextAgent, proc>>

ClearCurrentJob(r) ==
    /\ Step(r, "clear", "report")
    /\ currentJob' = None
    /\ UNCHANGED <<reader, seen, shotVars, mu, stopRequested, ctrlVars, resVars, taskerVars,
                   agentVars, proc>>

SendTaskCompleted(r) ==
    /\ Step(r, "report", "done")
    /\ UNCHANGED <<clientVars, shotVars, mu, stopRequested, ctrlVars, resVars, taskerVars,
                   agentVars, proc>>
-------------------------------------------------------------------------------
(* Screenshots.                                                              *)

ShotGoto(s, at, to) == Alive /\ spc[s] = at /\ spc' = [spc EXCEPT ![s] = to]

RequestScreenshot(s) ==
    /\ Serving /\ reader = "read"
    /\ ShotGoto(s, "idle", "spawned")
    /\ \E c \in Preferences : pref' = [pref EXCEPT ![s] = c]
    /\ UNCHANGED <<clientVars, jobVars, mu, stopRequested, ctrlVars, resVars, taskerVars,
                   agentVars, proc>>

(* The goroutine fills in the controller of the job it sees now.             *)
PickController(s) ==
    /\ ShotGoto(s, "spawned", "lock")
    /\ pref' = IF pref[s] = None /\ currentJob # None
               THEN [pref EXCEPT ![s] = want[currentJob].ctrl] ELSE pref
    /\ UNCHANGED <<clientVars, jobVars, mu, stopRequested, ctrlVars, resVars, taskerVars,
                   agentVars, proc>>

(* No candidate precedes the cached controller; whether it is still          *)
(* connected is up to the framework.                                         *)
Suits(s) == controller # None /\ (pref[s] \notin Controllers \/ pref[s] = currentController)

(* TakeScreenshot up to ensureScreenshotControllerLocked: the screen is      *)
(* grabbed at once, or the cached controller goes before any is dialled.     *)
TakeScreenshot(s) ==
    /\ mu = None
    /\ \/ /\ ~Initialized \/ Suits(s)
          /\ ShotGoto(s, "lock", "done")
          /\ UNCHANGED <<mu, ctrlVars>>
       \/ /\ Initialized
          /\ ShotGoto(s, "lock", "dial")
          /\ ctrls' = Destroyed(controller)
          /\ controller' = None
          /\ mu' = s
          /\ UNCHANGED currentController
    /\ pref' = [pref EXCEPT ![s] = None]       \* looked at above, and not again
    /\ UNCHANGED <<clientVars, jobVars, stopRequested, resVars, taskerVars,
                   agentVars, proc>>

(* The candidates are dialled in turn, so any of them may be the one that    *)
(* connects, or none.                                                        *)
ShotDial(s) ==
    /\ ShotGoto(s, "dial", "done")
    /\ mu' = None
    /\ \/ \E c \in Controllers :
            /\ controller' = s
            /\ currentController' = c
            /\ ctrls' = ctrls \cup {s}
       \/ UNCHANGED ctrlVars
    /\ UNCHANGED <<clientVars, jobVars, pref, stopRequested, resVars, taskerVars,
                   agentVars, proc>>
-------------------------------------------------------------------------------
(* The main goroutine once Client.Run has returned, and the agents' world.   *)

Cleanup ==
    /\ proc = "up" /\ reader = "read"
    /\ mu = None
    /\ procs' = procs \ agentServers /\ agentServers' = {}
    /\ taskers' = Retired(tasker) /\ tasker' = None
    /\ resource' = FALSE /\ attached' = {}
    /\ ctrls' = Destroyed(controller) /\ controller' = None
    /\ proc' = "cleaned"
    /\ UNCHANGED <<clientVars, jobVars, shotVars, mu, stopRequested, currentController,
                   currentResource, bound, halted, nextAgent>>

Exit ==
    /\ proc = "cleaned"
    /\ proc' = "exited"
    /\ UNCHANGED <<clientVars, jobVars, shotVars, mu, stopRequested, ctrlVars, resVars,
                   taskerVars, agentVars>>

AgentExits ==
    /\ \E a \in procs : procs' = procs \ {a}
    /\ UNCHANGED <<clientVars, jobVars, shotVars, mu, stopRequested, ctrlVars, resVars,
                   taskerVars, agentServers, nextAgent, proc>>

(* The process is gone.                                                      *)
Gone == ~Alive /\ UNCHANGED vars
-------------------------------------------------------------------------------
ReadLoop == HandleStopTask \/ StopFlag \/ StopTest \/ StopPost \/ StopNil

Setup(r) ==
    \/ RunTaskBegin(r) \/ ConnectController(r) \/ Dial(r) \/ LoadResource(r)
    \/ Attach(r) \/ PostBundle(r) \/ PostBundleNil(r)
    \/ RetireTasker(r) \/ DestroyTasker(r) \/ DestroyNil(r) \/ CreateTasker(r)
    \/ Bind(r) \/ BindNil(r) \/ StartAgent(r) \/ ListAgent(r)

Execute(r) ==
    \/ LoopCheck(r) \/ PostTask(r) \/ PostTaskNil(r)
    \/ StopAgents(r) \/ ClearCurrentJob(r) \/ SendTaskCompleted(r)

Shot(s) == PickController(s) \/ TakeScreenshot(s) \/ ShotDial(s)

Next ==
    \/ \E r \in Runs : \/ RejectRunTask(r) \/ AcceptRunTask(r)
                       \/ Setup(r) \/ Execute(r) \/ TaskEnds(r)
    \/ \E s \in Shots : RequestScreenshot(s) \/ Shot(s)
    \/ ReadLoop
    \/ Cleanup \/ Exit \/ AgentExits \/ Gone

Spec == Init /\ [][Next]_vars

(* The goroutines are scheduled: what one can do forever it does.  Nothing   *)
(* obliges the server to send, the user to quit or an agent to die.          *)
Scheduled ==
    /\ WF_vars(StopFlag) /\ WF_vars(StopTest) /\ WF_vars(StopPost \/ StopNil)
    /\ \A r \in Runs : WF_vars(Setup(r)) /\ WF_vars(Execute(r))
    /\ \A s \in Shots : WF_vars(Shot(s))

(* Every task item the framework executes ends by itself.                    *)
FairSpec == Spec /\ Scheduled /\ \A r \in Runs : WF_vars(TaskEnds(r))

(* A task item may run for ever unless PostStop interrupts it.               *)
EndlessSpec == Spec /\ Scheduled /\ \A r \in Runs : WF_vars(halted /\ TaskEnds(r))
-------------------------------------------------------------------------------
(* Properties.                                                               *)

FlagsOK == stopRequested \in BOOLEAN /\ resource \in BOOLEAN /\ halted \in BOOLEAN

TypeOK ==
    /\ FlagsOK
    /\ currentJob \in Runs \cup {None} /\ reader \in {"read", "flag", "test", "post"}
    /\ seen \in Runs \cup {None}
    /\ jpc \in [Runs -> Asked \cup Active \cup Over]
    /\ want \in [Runs -> Requests \cup {None}]
    /\ item \in [Runs -> Nat]
    /\ outcome \in [Runs -> {"none", "completed", "failed"}]
    /\ stopped \in [Runs -> {"no", "early", "landed", "late"}]
    /\ spc \in [Shots -> {"idle", "spawned", "lock", "dial", "done"}]
    /\ DOMAIN pref = Shots
    /\ mu \in Runs \cup Shots \cup {None}
    /\ controller \in Runs \cup Shots \cup {None} /\ ctrls \subseteq Runs \cup Shots
    /\ currentController \in Controllers \cup {None}
    /\ attached \subseteq Attaching
    /\ tasker \in Runs \cup {None} /\ taskers \subseteq Runs
    /\ bound \in Runs \cup Shots \cup {None}
    /\ agentServers \subseteq Runs \X (1..NumAgents) /\ procs \subseteq Runs \X (1..NumAgents)
    /\ nextAgent \in 1..NumAgents+1
    /\ proc \in {"up", "cleaned", "exited", "crashed", "killed"}

(* The busy check of handleRunTask: at most one job is ever between its      *)
(* acceptance and ClearCurrentJob, and currentJob names exactly that one,    *)
(* whatever stops, failures and screenshots come in between.                 *)
JobExclusion ==
    \A r \in Runs : jpc[r] \in Active <=> currentJob = r

(* Every controller ever made is destroyed, except the one the wrapper       *)
(* caches: no reconnection, by a job or a screenshot, leaks one.             *)
OnlyCachedControllerLives == ctrls = {controller} \ {None}

(* While a job executes items, the wrapper's tasker is the one this job made *)
(* and no earlier job's tasker is still alive.                               *)
JobOwnsTasker ==
    \A r \in Runs : Serving /\ jpc[r] \in {"bind", "agents", "listing"} \cup InLoop
                      => tasker = r /\ taskers = {r}

(* A stop_task that finds the job inside RunTask with items left keeps it    *)
(* from being reported as completed: the flag is looked at after every item. *)
StopLands == \A r \in Runs : stopped[r] = "landed" => outcome[r] # "completed"

(* A stop_task never cuts short another job than the one it named, although  *)
(* StopTask takes no job and calls PostStop after the unlock: neither the    *)
(* flag nor the interruption it leaves behind reaches the next job.          *)
StopSparesOthers ==
    \A r \in Runs : jpc[r] \in Early \cup InLoop /\ stopped[r] = "no"
                      => ~stopRequested /\ (jpc[r] = "wait" => ~halted)

(* While the client serves, an agent process lives only within the job that  *)
(* started it, and the wrapper holds the server that can kill it, or the job *)
(* is about to put it on the list: no way out of the item loop bypasses the  *)
(* reaping, nor does a later agent that fails leave the earlier ones behind. *)
AgentsConfined ==
    Serving => \A a \in procs :
        /\ a \in agentServers \/ (jpc[a[1]] = "listing" /\ a = Agent(a[1]))
        /\ jpc[a[1]] \in {"agents", "listing", "reap"} \cup InLoop

(* The resource a job executes with, cached or fresh, is the one it asked    *)
(* for and holds the bundles attached to its controller.                     *)
ResourceFitsJob ==
    \A r \in Runs : Serving /\ jpc[r] \in {"bind", "agents", "listing"} \cup InLoop
                      => /\ resource /\ currentResource = want[r].res
                         /\ want[r].ctrl \in Attaching => want[r].ctrl \in attached

(* The tasker of an executing job is bound to a live controller of the kind  *)
(* the job asked for.                                                        *)
ControllerFitsJob ==
    \A r \in Runs : Serving /\ jpc[r] \in {"agents", "listing"} \cup InLoop
                      => /\ bound \in ctrls /\ bound = controller
                         /\ currentController = want[r].ctrl

(* No screenshot has got hold of the controller.                             *)
Quiet == \A s \in Shots : spc[s] \notin {"dial", "done"}

(* Until a screenshot gets hold of the controller, no job, stop, failure or  *)
(* shutdown of another job makes a tasker work on the wrong one.             *)
ControllerFitsQuietJob == Quiet => ControllerFitsJob

(* A screenshot has taken the controller a job is about to bind: Wrapper.mu  *)
(* does not cover the binding.                                               *)
ControllerTaken == ~Quiet /\ controller = None /\ \E r \in Runs : jpc[r] = "bind"

(* StopTask was about to stop a tasker when the next could not be created.   *)
TaskerLost == reader = "post" /\ tasker = None

(* The client does not outlive every dereference of what it shares without   *)
(* a lock, but these two are the only ones that end it while it serves: no   *)
(* order of jobs, stops and failures otherwise finds a tasker, resource or   *)
(* controller gone that RunTask has tested or made.                          *)
OnlyKnownCrashes == proc = "crashed" => ControllerTaken \/ TaskerLost

(* A job that was accepted is reported, unless main cleans up before, or the *)
(* client dies of one of the two: it never waits for ever for Wrapper.mu.    *)
JobsAnswered ==
    \A r \in Runs :
        jpc[r] = "spawned" ~> \/ jpc[r] = "done"
                              \/ proc \in {"cleaned", "exited", "killed"}
                              \/ proc = "crashed" /\ (ControllerTaken \/ TaskerLost)

(* Likewise for the screenshots, which queue up behind that mutex.           *)
ShotsAnswered ==
    \A s \in Shots :
        spc[s] = "spawned" ~> \/ spc[s] = "done"
                              \/ proc \in {"cleaned", "exited", "killed"}
                              \/ proc = "crashed" /\ (ControllerTaken \/ TaskerLost)

(* Why the safety properties hold: what each of them leans on.               *)

(* A job's data follow its program counter.                                  *)
JobData ==
    \A r \in Runs :
        /\ jpc[r] \in Asked => want[r] = None
        /\ jpc[r] \in Asked \cup {"spawned"} \cup Early => item[r] = 0
        /\ jpc[r] \notin Asked => want[r] \in Requests /\ item[r] <= want[r].n
        /\ jpc[r] = "dial" => want[r].ctrl \in Controllers
        /\ jpc[r] = "bundle" => want[r].ctrl \in Attaching
        /\ jpc[r] = "listing" => nextAgent <= NumAgents
        /\ jpc[r] \in {"post", "wait"} => MoreItems(r)
        /\ jpc[r] \in Asked \cup {"spawned"} \cup Early \cup InLoop => outcome[r] = "none"
        /\ jpc[r] \in {"reap", "clear"} \cup Over =>
              /\ outcome[r] # "none"
              /\ outcome[r] = "completed" => ~MoreItems(r)

(* Wrapper.mu is held across states only while a controller is dialled, and  *)
(* no controller is cached then.                                             *)
MutexHeld ==
    /\ \A r \in Runs : mu = r <=> jpc[r] = "dial"
    /\ \A s \in Shots : mu = s <=> spc[s] = "dial"
    /\ mu # None => controller = None

TaskerChain ==
    /\ taskers \subseteq {tasker}
    /\ \A r \in Runs : /\ jpc[r] = "create" => taskers = {}
                       /\ Serving /\ jpc[r] = "destroy" => tasker # None

(* From the moment a stop lands, the flag stays up and an item is missing.   *)
StopPending ==
    \A r \in Runs :
        /\ jpc[r] \in Asked => stopped[r] = "no"
        /\ jpc[r] = "spawned" => stopped[r] # "landed"
        /\ stopped[r] = "landed" /\ jpc[r] \in Early \cup InLoop
              => stopRequested /\ MoreItems(r)

ServersConfined == \A a \in agentServers : jpc[a[1]] \in {"agents", "listing", "reap"} \cup InLoop

(* A stop that is past the unlock has met the job it may interrupt: the read *)
(* loop, inside StopTask, takes no new one.                                  *)
StopMarks == reader \in {"test", "post"} => \A r \in Runs : jpc[r] \in Active => stopped[r] # "no"

(* From LoadResource on a job has its resource, from Attach on the bundles.  *)
ResourceOnTheWay ==
    \A r \in Runs :
        Serving => /\ jpc[r] \in {"attach", "bundle", "retire", "destroy", "create"}
                        => resource /\ currentResource = want[r].res
                   /\ jpc[r] \in {"retire", "destroy", "create"} /\ want[r].ctrl \in Attaching
                        => want[r].ctrl \in attached

(* From ConnectController on the controller a job asked for is cached, and   *)
(* only a screenshot that dials could replace it.                            *)
ControllerOnTheWay ==
    \A r \in Runs :
        Serving /\ Quiet /\ jpc[r] \in {"load", "attach", "bundle", "retire", "destroy", "create", "bind"}
            => controller # None /\ currentController = want[r].ctrl

(* The inductive invariant.                                                  *)
IInv ==
    /\ TypeOK /\ JobExclusion /\ JobData
    /\ MutexHeld /\ OnlyCachedControllerLives
    /\ TaskerChain /\ JobOwnsTasker
    /\ StopPending /\ StopLands /\ StopMarks /\ StopSparesOthers
    /\ ServersConfined /\ AgentsConfined
    /\ ResourceOnTheWay /\ ResourceFitsJob
    /\ ControllerOnTheWay /\ ControllerFitsQuietJob
    /\ OnlyKnownCrashes

(* What the server is promised.  A job runs from its acceptance until it has *)
(* freed the device; its verdict counts from then on.                        *)
Phase(p) ==
    CASE p \in Asked -> p
      [] p \in Active -> "running"
      [] p = "report" -> "ended"
      [] p = "done" -> "reported"

Service == INSTANCE JobService WITH
    Loads <- {q.n : q \in Requests},
    phase <- [r \in Runs |-> Phase(jpc[r])],
    load <- [r \in Runs |-> IF want[r] = None THEN 0 ELSE want[r].n],
    progress <- item,
    verdict <- [r \in Runs |-> IF jpc[r] \in Over THEN outcome[r] ELSE "none"]

(* handler.go and wrapper.go keep the promise of JobService.                 *)
ServiceSpec == Service!Spec

(* What the documents say and the code does not do; each has a run of its    *)
(* own that shows how.                                                       *)

(* A stop_task accepted for the current job stops it, even one that arrives  *)
(* before the job's goroutine has entered RunTask.                           *)
StopHonoured == \A r \in Runs : stopped[r] = "early" => outcome[r] # "completed"

(* StopTask calls PostStop on a tasker that exists.                          *)
PostStopOnLiveTasker == Alive /\ reader = "post" => tasker \in taskers

(* The client serves until it is told to end.                                *)
ClientServes == proc # "crashed"

(* A stop that lands ends the job, even one whose item would run for ever.   *)
StopEndsJob ==
    \A r \in Runs : stopped[r] = "landed" ~> (jpc[r] = "done" \/ ~Serving)

(* No agent process outlives the client's orderly exit.                      *)
NoOrphanAgents == proc = "exited" => procs = {}
===============================================================================
