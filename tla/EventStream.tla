----------------------------- MODULE EventStream ------------------------------
(***************************************************************************)
(* How a job's events reach the send queue: executeTask and RunTask hand   *)
(* the job's two channels to the wrapper's EventHandler, MaaFramework's    *)
(* threads call back into it, two forwarding goroutines per job drain the  *)
(* channels into Client.sendCh, and the job is reported past them.  Jobs   *)
(* run one after the other (JobRun!JobExclusion), but what an earlier job  *)
(* left behind, a forwarder, a late callback or its report, goes on beside *)
(* the next.  Connections come and go meanwhile (module Connection), each  *)
(* with a writer of its own that takes from the one queue.                 *)
(***************************************************************************)
EXTENDS Integers, Sequences, SequencesExt

CONSTANTS
    NumJobs,      \* jobs of a behaviour, executed in the order 1, 2, ...
    Items,        \* Items[j]: the task items of job j, one status event per item
    Callbacks,    \* threads of MaaFramework that call OnTaskerTask
    MaxLogs,      \* calls of OnTaskerTask in a behaviour, all threads together
    StatusCap,    \* capacity of statusCh (100 in the code)
    LogCap,       \* capacity of logCh (1000)
    QueueCap,     \* capacity of Client.sendCh (256)
    MaxLosses     \* connections lost in a behaviour

ASSUME CapsAssumption ==
    /\ {NumJobs, MaxLogs, MaxLosses} \subseteq Nat
    /\ Items \in [1..NumJobs -> Nat]
    /\ {StatusCap, LogCap, QueueCap} \subseteq Nat \ {0}

Jobs == 1..NumJobs
Writers == 1..(MaxLosses + 1)   \* named by their connection
None == 0

VARIABLES
    job,        \* the job executeTask is at
    owing,      \* jobs that are over and not yet reported
    pc,         \* where executeTask and RunTask are
    item,       \* the next item of that job
    handler,    \* EventHandler: the job whose channels and id it holds, or None
    closed,     \* channels closed, as <<job, kind>>
    chan,       \* chan[<<job, kind>>]: what the channel buffers
    forwarder,  \* forwarder[<<job, kind>>]: "none", "ranging" or "ended"
    raised,     \* the job whose tasker raised the event a thread is at
    snapshot,   \* what a callback thread copied under the lock
    logs,       \* log events so far
    sendCh,     \* Client.sendCh
    up,         \* what is written on c.conn reaches the server
    conns,      \* connections so far
    writer,     \* writer[w]: "none", "running" or "ended"
    held,       \* the message a writer has taken and not yet written
    crowded,    \* history: a connection began while an earlier writer still ran
    heard       \* history: the progress the server last heard of each job

taskVars == <<job, owing, pc, item, handler, closed>>
eventVars == <<chan, forwarder, raised, snapshot, logs>>
wireVars == <<up, conns, writer, held, crowded, heard>>
vars == <<taskVars, eventVars, sendCh, wireVars>>

Kinds == {"status", "log"}
Channels == Jobs \X Kinds
Cap(k) == IF k = "status" THEN StatusCap ELSE LogCap

Init ==
    /\ job = 1 /\ owing = {} /\ pc = "idle" /\ item = 0
    /\ handler = None
    /\ closed = {}
    /\ chan = [c \in Channels |-> <<>>]
    /\ forwarder = [c \in Channels |-> "none"]
    /\ raised = [t \in Callbacks |-> None]
    /\ snapshot = [t \in Callbacks |-> <<None, None>>]
    /\ logs = 0
    /\ sendCh = <<>>
    /\ up = TRUE /\ conns = 1
    /\ writer = [w \in Writers |-> IF w = 1 THEN "running" ELSE "none"]
    /\ held = [w \in Writers |-> <<>>]
    /\ crowded = FALSE
    /\ heard = [j \in Jobs |-> 0]

(* n is the progress of a status; of a log, the job whose tasker raised it. *)
Event(j, k, n) == [job |-> j, kind |-> k, n |-> n]

(* Client.Send: the message is queued, or dropped when the queue is full.    *)
Enqueue_Unbounded(m) == sendCh' = Append(sendCh, m)
Enqueue(m) == sendCh' = IF Len(sendCh) < QueueCap THEN Append(sendCh, m) ELSE sendCh

(* safeSendStatus and safeSendLog: a send that does not block; on a closed   *)
(* channel it panics, which is recovered, and nothing is sent.               *)
SafeSend(c, m) ==
    chan' = IF c \notin closed /\ Len(chan[c]) < Cap(c[2])
            THEN [chan EXCEPT ![c] = Append(@, m)] ELSE chan
-------------------------------------------------------------------------------
(* executeTask, with the parts of handleRunTask and RunTask that emit.       *)

Goto(at, to) == pc = at /\ pc' = to

(* handleRunTask reports "running" past the channels; executeTask makes them *)
(* and starts their forwarders.                                              *)
StartJob ==
    /\ job \in Jobs
    /\ up
    /\ Goto("idle", "setup")
    /\ Enqueue(Event(job, "status", 0))
    /\ forwarder' = [c \in Channels |-> IF c[1] = job THEN "ranging" ELSE forwarder[c]]
    /\ UNCHANGED <<job, owing, item, handler, closed, chan, raised, snapshot, logs, wireVars>>

(* Connecting or loading may fail before SetChannels.                        *)
SetChannels ==
    /\ \/ Goto("setup", "loop") /\ handler' = job
       \/ Goto("setup", "clear") /\ UNCHANGED handler
    /\ item' = 0
    /\ UNCHANGED <<job, owing, closed, eventVars, sendCh, wireVars>>

(* Progress {Completed: i} before item i; any item may be the last.          *)
SendStatus ==
    /\ pc = "loop" /\ item < Items[job]
    /\ IF handler = None THEN UNCHANGED chan
       ELSE SafeSend(<<handler, "status">>, Event(handler, "status", item))
    /\ item' = item + 1
    /\ UNCHANGED <<job, owing, pc, handler, closed, forwarder, raised, snapshot, logs, sendCh,
                   wireVars>>

LeaveLoop ==
    /\ Goto("loop", "clear")
    /\ UNCHANGED <<job, owing, item, handler, closed, eventVars, sendCh, wireVars>>

ClearEventChannels_Forgotten ==
    /\ Goto("clear", "close")
    /\ UNCHANGED <<job, owing, item, handler, closed, eventVars, sendCh, wireVars>>
ClearEventChannels ==
    /\ Goto("clear", "close")
    /\ handler' = None
    /\ UNCHANGED <<job, owing, item, closed, eventVars, sendCh, wireVars>>

CloseChannels_StatusOnly ==
    /\ Goto("close", "report")
    /\ closed' = closed \cup {<<job, "status">>}
    /\ UNCHANGED <<job, owing, item, handler, eventVars, sendCh, wireVars>>
CloseChannels ==
    /\ Goto("close", "report")
    /\ closed' = closed \cup {<<job, k>> : k \in Kinds}
    /\ UNCHANGED <<job, owing, item, handler, eventVars, sendCh, wireVars>>

(* From here on the next job may come.                                       *)
ClearCurrentJob ==
    /\ Goto("report", "idle")
    /\ job' = job + 1
    /\ owing' = owing \cup {job}
    /\ UNCHANGED <<item, handler, closed, eventVars, sendCh, wireVars>>

SendTaskCompleted(j) ==
    /\ j \in owing
    /\ owing' = owing \ {j}
    /\ Enqueue(Event(j, "completed", 0))
    /\ UNCHANGED <<job, pc, item, handler, closed, eventVars, wireVars>>
-------------------------------------------------------------------------------
(* MaaFramework's threads.  A tasker raises an event while its job executes; *)
(* when the thread comes to take the read lock is up to the system, the job  *)
(* may have ended by then and the next have set its channels.                *)

Raise(t) ==
    /\ pc = "loop"
    /\ raised[t] = None
    /\ logs < MaxLogs
    /\ logs' = logs + 1
    /\ raised' = [raised EXCEPT ![t] = job]
    /\ UNCHANGED <<taskVars, chan, forwarder, snapshot, sendCh, wireVars>>

(* OnTaskerTask copies the channel and the job id under one read lock, and   *)
(* sends after it, so the copy too may be of a job that has ended since.     *)
Notice(t) ==
    /\ raised[t] # None /\ snapshot[t] = <<None, None>>
    /\ IF handler = None
       THEN raised' = [raised EXCEPT ![t] = None] /\ UNCHANGED snapshot
       ELSE snapshot' = [snapshot EXCEPT ![t] = <<handler, handler>>] /\ UNCHANGED raised
    /\ UNCHANGED <<taskVars, chan, forwarder, logs, sendCh, wireVars>>

Copied_Later(t) == <<snapshot[t][1], handler>>
Copied(t) == snapshot[t]

SendLog(t) ==
    /\ snapshot[t] # <<None, None>>
    /\ SafeSend(<<Copied(t)[1], "log">>, Event(Copied(t)[2], "log", raised[t]))
    /\ snapshot' = [snapshot EXCEPT ![t] = <<None, None>>]
    /\ raised' = [raised EXCEPT ![t] = None]
    /\ UNCHANGED <<taskVars, forwarder, logs, sendCh, wireVars>>
-------------------------------------------------------------------------------
(* The forwarders.                                                           *)

(* The positions of a channel's buffer that one receive may take.            *)
Receivable_Any(c) == DOMAIN chan[c]
Receivable(c) == {1} \cap DOMAIN chan[c]

Forward(c) ==
    /\ forwarder[c] = "ranging"
    /\ \E i \in Receivable(c) : /\ Enqueue(chan[c][i])
                                /\ chan' = [chan EXCEPT ![c] = RemoveAt(@, i)]
    /\ UNCHANGED <<taskVars, forwarder, raised, snapshot, logs, wireVars>>

(* range ends when the channel is closed and empty.                          *)
EndForward(c) ==
    /\ forwarder[c] = "ranging"
    /\ c \in closed /\ chan[c] = <<>>
    /\ forwarder' = [forwarder EXCEPT ![c] = "ended"]
    /\ UNCHANGED <<taskVars, chan, raised, snapshot, logs, sendCh, wireVars>>

-------------------------------------------------------------------------------
(* The connections.  writeLoop takes from the client's queue and writes on   *)
(* the client's connection, the one there is when it writes, so the writer   *)
(* of a lost connection goes on with the next until a write fails.           *)

Lose ==
    /\ up /\ conns <= MaxLosses
    /\ up' = FALSE
    /\ UNCHANGED <<taskVars, eventVars, sendCh, conns, writer, held, crowded, heard>>

Reconnect ==
    /\ ~up
    /\ up' = TRUE /\ conns' = conns + 1
    /\ writer' = [writer EXCEPT ![conns + 1] = "running"]
    /\ crowded' = (crowded \/ \E w \in Writers : writer[w] = "running")
    /\ UNCHANGED <<taskVars, eventVars, sendCh, held, heard>>

Take(w) ==
    /\ writer[w] = "running" /\ held[w] = <<>>
    /\ sendCh # <<>>
    /\ held' = [held EXCEPT ![w] = <<Head(sendCh)>>]
    /\ sendCh' = Tail(sendCh)
    /\ UNCHANGED <<taskVars, eventVars, up, conns, writer, crowded, heard>>

Heard(before, m) == IF m.kind = "status" THEN m.n ELSE before

(* The message reaches the server, or it is lost with the connection, and    *)
(* the writer learns of that or not.                                         *)
WriteMessage(w) ==
    /\ held[w] # <<>>
    /\ held' = [held EXCEPT ![w] = <<>>]
    /\ \/ /\ up
          /\ heard' = [heard EXCEPT ![Head(held[w]).job] = Heard(@, Head(held[w]))]
          /\ UNCHANGED writer
       \/ /\ ~up
          /\ writer' = [writer EXCEPT ![w] = "ended"] /\ UNCHANGED heard
       \/ /\ ~up
          /\ UNCHANGED <<writer, heard>>
    /\ UNCHANGED <<taskVars, eventVars, sendCh, up, conns, crowded>>

Write(w) == Take(w) \/ WriteMessage(w)
-------------------------------------------------------------------------------
ExecuteTask ==
    SetChannels \/ SendStatus \/ LeaveLoop \/ ClearEventChannels \/ CloseChannels
    \/ ClearCurrentJob

Quiet ==
    /\ job > NumJobs /\ owing = {} /\ up
    /\ \A t \in Callbacks : raised[t] = None
    /\ sendCh = <<>> /\ \A w \in Writers : held[w] = <<>>

(* Every job is over and nobody has anything left to send.                   *)
Terminated == Quiet /\ UNCHANGED vars

Next ==
    \/ StartJob \/ ExecuteTask
    \/ \E j \in Jobs : SendTaskCompleted(j)
    \/ \E t \in Callbacks : Raise(t) \/ Notice(t) \/ SendLog(t)
    \/ \E c \in Channels : Forward(c) \/ EndForward(c)
    \/ Lose \/ Reconnect \/ \E w \in Writers : Write(w)
    \/ Terminated

Spec == Init /\ [][Next]_vars

(* The client's goroutines are scheduled.  Nothing obliges the server to     *)
(* send a job, the framework to call back or a connection to carry a         *)
(* message: a send that finds no room does not wait for one.                 *)
FairSpec ==
    /\ Spec
    /\ WF_vars(ExecuteTask) /\ \A j \in Jobs : WF_vars(SendTaskCompleted(j))
    /\ \A c \in Channels : WF_vars(Forward(c) \/ EndForward(c))
-------------------------------------------------------------------------------
(* Properties.                                                               *)

Events == [job : Jobs, kind : Kinds \cup {"completed"}, n : Nat]

TypeOK ==
    /\ job \in 1..(NumJobs + 1) /\ owing \subseteq Jobs /\ item \in Nat /\ logs \in 0..MaxLogs
    /\ pc \in {"idle", "setup", "loop", "clear", "close", "report"}
    /\ handler \in Jobs \cup {None}
    /\ closed \subseteq Channels
    /\ chan \in [Channels -> Seq(Events)]
    /\ \A c \in Channels : Len(chan[c]) <= Cap(c[2])
    /\ forwarder \in [Channels -> {"none", "ranging", "ended"}]
    /\ raised \in [Callbacks -> Jobs \cup {None}]
    /\ snapshot \in [Callbacks -> (Jobs \cup {None}) \X (Jobs \cup {None})]
    /\ sendCh \in Seq(Events) /\ Len(sendCh) <= QueueCap
    /\ up \in BOOLEAN /\ crowded \in BOOLEAN
    /\ conns \in Writers
    /\ writer \in [Writers -> {"none", "running", "ended"}]
    /\ held \in [Writers -> Seq(Events)] /\ \A w \in Writers : Len(held[w]) <= 1
    /\ heard \in [Jobs -> Nat]

(* EventHandler keeps no channel that is closed: ClearEventChannels precedes *)
(* the close, and the next job's SetChannels brings fresh ones.              *)
HandlerHoldsOpenChannels ==
    handler # None => \A k \in Kinds : <<handler, k>> \notin closed

(* An event travels in the channel of the job whose id it carries, though    *)
(* the two are copied from a handler that changes hands; and a callback that *)
(* comes late is booked to the job that raised it or to one after it, never  *)
(* to one before.                                                            *)
EventsCarryTheirJob ==
    \A c \in Channels : \A i \in DOMAIN chan[c] :
        /\ chan[c][i].job = c[1]
        /\ chan[c][i].kind = "log" => chan[c][i].n \in 1..c[1]

(* The server never sees a job's progress go back, over any number of        *)
(* connections, as long as no two writers were at work together: what waits  *)
(* in the channel, in the queue and in the writer's hand keeps its order,    *)
(* though any of it may be dropped or lost.                                  *)
ProgressMonotone ==
    [][ ~crowded => \A j \in Jobs : heard[j] <= heard'[j] ]_vars

(* Forwarders do not leak: with the jobs over none is left ranging, for each *)
(* job comes to close its channels however RunTask returned.                 *)
ForwardersEnd == <>[](\A c \in Channels : forwarder[c] # "ranging")

(* Why they hold.                                                            *)

(* EventHandler has the channels of the job in hand, between SetChannels and *)
(* ClearEventChannels.                                                       *)
HandlerFollowsJob ==
    /\ job \notin Jobs => pc = "idle"
    /\ pc = "loop" => item <= Items[job]
    /\ handler # None => handler = job /\ pc \in {"loop", "clear"}

ClosedBehind == \A c \in closed : c[1] < job \/ (c[1] = job /\ pc = "report")

OwedBehind == \A j \in owing : j < job

(* The read lock: a thread's channel and job id are of one job, and not of   *)
(* one that was over when the event was raised.                              *)
CopiedTogether ==
    \A t \in Callbacks :
        /\ snapshot[t][1] = snapshot[t][2]
        /\ raised[t] <= job
        /\ snapshot[t] # <<None, None>> => raised[t] \in 1..snapshot[t][1]

ChannelsByKind == \A c \in Channels : \A i \in DOMAIN chan[c] : chan[c][i].kind = c[2]

(* The furthest a job can have been said to be.                              *)
Reached(j) ==
    IF j > job \/ (j = job /\ pc \in {"idle", "setup"}) THEN 0
    ELSE IF j = job /\ pc = "loop" THEN item ELSE Items[j]

(* Only writers that run hold a message, and one runs unless it is crowded.  *)
WritersInTurn ==
    /\ ~up => conns <= MaxLosses
    /\ \A w \in Writers : held[w] # <<>> => writer[w] = "running"
    /\ ~crowded => \A v, w \in Writers :
                        writer[v] = "running" /\ writer[w] = "running" => v = w

StatusOf(m, j) == m.job = j /\ m.kind = "status"

NoneAhead ==
    \A j \in Jobs :
        /\ heard[j] <= Reached(j)
        /\ \A w \in Writers : \A h \in DOMAIN held[w] :
              StatusOf(held[w][h], j) => held[w][h].n <= Reached(j)
        /\ \A p \in DOMAIN sendCh : StatusOf(sendCh[p], j) => sendCh[p].n <= Reached(j)
        /\ \A i \in DOMAIN chan[<<j, "status">>] : chan[<<j, "status">>][i].n <= Reached(j)

(* Each part of the way follows the one before: the channel, the queue, the  *)
(* writers' hands and what the server has heard.                             *)
ChannelInOrder ==
    \A j \in Jobs : \A i, k \in DOMAIN chan[<<j, "status">>] :
        i < k => chan[<<j, "status">>][i].n <= chan[<<j, "status">>][k].n

QueueInOrder ==
    \A j \in Jobs : \A p \in DOMAIN sendCh : StatusOf(sendCh[p], j) =>
        /\ \A q \in DOMAIN sendCh : StatusOf(sendCh[q], j) /\ p < q => sendCh[p].n <= sendCh[q].n
        /\ \A i \in DOMAIN chan[<<j, "status">>] : sendCh[p].n <= chan[<<j, "status">>][i].n

TakenInOrder ==
    \A j \in Jobs : \A w \in Writers : \A h \in DOMAIN held[w] : StatusOf(held[w][h], j) =>
        /\ \A p \in DOMAIN sendCh : StatusOf(sendCh[p], j) => held[w][h].n <= sendCh[p].n
        /\ \A i \in DOMAIN chan[<<j, "status">>] : held[w][h].n <= chan[<<j, "status">>][i].n

HeardInOrder ==
    \A j \in Jobs :
        /\ \A p \in DOMAIN sendCh : StatusOf(sendCh[p], j) => heard[j] <= sendCh[p].n
        /\ \A i \in DOMAIN chan[<<j, "status">>] : heard[j] <= chan[<<j, "status">>][i].n
        /\ ~crowded => \A w \in Writers : \A h \in DOMAIN held[w] :
              StatusOf(held[w][h], j) => heard[j] <= held[w][h].n

(* The inductive invariant.                                                  *)
IInv ==
    /\ TypeOK
    /\ HandlerFollowsJob /\ ClosedBehind /\ OwedBehind /\ CopiedTogether
    /\ EventsCarryTheirJob /\ ChannelsByKind
    /\ WritersInTurn /\ NoneAhead
    /\ ChannelInOrder /\ QueueInOrder /\ TakenInOrder /\ HeardInOrder

(* What the documents say and the code does not do.                          *)

Completes(p, j) == sendCh[p].job = j /\ sendCh[p].kind = "completed"

(* task_completed is the last the server hears of a job: when it is queued,  *)
(* none of the job's events still waits to be.                               *)
CompletedIsLast ==
    \A j \in Jobs : \A p \in DOMAIN sendCh :
        Completes(p, j) => \A k \in Kinds : chan[<<j, k>>] = <<>>

(* A log is booked to the job whose tasker raised it.                        *)
LogsBookedToRaiser ==
    \A c \in Channels : \A i \in DOMAIN chan[c] :
        chan[c][i].kind = "log" => chan[c][i].n = chan[c][i].job

(* A job that is over is reported to the server.                             *)
CompletedIsQueued ==
    \A j \in Jobs : <<j, "status">> \in closed ~> \E p \in DOMAIN sendCh : Completes(p, j)
===============================================================================
