------------------------------ MODULE Connection ------------------------------
(***************************************************************************)
(* The life of client.Client: Run connects, serves a connection with a     *)
(* writing goroutine, a heartbeat goroutine and its own read loop, and     *)
(* connects again, until the signal goroutine of main cancels the context  *)
(* and calls Stop.  Writers and heartbeats are not told when their         *)
(* connection is over, so those of an earlier one go on beside the new.    *)
(* The n-th connection, writer and heartbeat are all named n.              *)
(***************************************************************************)
EXTENDS Integers, Sequences, SequencesExt

CONSTANTS
    MaxConns,    \* bound: successful dials of a behaviour
    MaxMessages, \* bound: messages sent in a behaviour, auth not counted
    QueueCap,    \* capacity of sendCh (256 in the code)
    Token        \* whether a device token is set, so that auth is sent

ASSUME ConnectionAssumption ==
    /\ MaxConns \in Nat /\ MaxMessages \in Nat
    /\ QueueCap \in Nat \ {0}
    /\ Token \in BOOLEAN

Conns == 1..MaxConns

VARIABLES
    rpc,        \* where Run is
    conn,       \* c.conn, 0 for nil
    open,       \* connections that neither side nor the network has ended
    connected,  \* c.connected
    announced,  \* connectedCh is closed
    wpc,        \* the writers: "none", "select", "write" or "ended"
    held,       \* the message a writer has taken
    beat,       \* the heartbeats: "none", "ticking" or "ended"
    sendCh,     \* what is queued: [n, kind], n counts the calls of Send
    offered,    \* calls of Send so far
    delivered,  \* history: [conn, n, kind] in the order of the writes
    authed,     \* history: the connections whose auth went into the queue
    pingers,    \* history: the heartbeats that pinged on the current connection
    ctx,        \* the context is cancelled
    stopCh,     \* stopCh is closed
    sig         \* the signal goroutine: "idle", "cancel", "stop", "close", "done"

runVars == <<rpc, announced>>
connVars == <<conn, open, connected>>
writerVars == <<wpc, held, delivered>>
queueVars == <<sendCh, offered, authed>>
vars == <<runVars, connVars, writerVars, beat, queueVars, pingers, ctx, stopCh, sig>>

NoMessage == [n |-> 0, kind |-> "none"]

Init ==
    /\ rpc = "top" /\ announced = FALSE
    /\ conn = 0 /\ open = {} /\ connected = FALSE
    /\ wpc = [k \in Conns |-> "none"] /\ held = [k \in Conns |-> NoMessage]
    /\ delivered = <<>>
    /\ beat = [k \in Conns |-> "none"]
    /\ sendCh = <<>> /\ offered = 0 /\ authed = {}
    /\ pingers = {}
    /\ ctx = FALSE /\ stopCh = FALSE /\ sig = "idle"

(* Client.Send: queued, or dropped when the queue is full.                   *)
Send_Unbounded(kind) ==
    /\ offered' = offered + 1
    /\ sendCh' = Append(sendCh, [n |-> offered + 1, kind |-> kind])
Send(kind) ==
    /\ offered' = offered + 1
    /\ sendCh' = IF Len(sendCh) < QueueCap
                 THEN Append(sendCh, [n |-> offered + 1, kind |-> kind]) ELSE sendCh

Goto(at, to) == rpc = at /\ rpc' = to
-------------------------------------------------------------------------------
(* Run.                                                                      *)

Top ==
    /\ Goto("top", IF ctx THEN "ended" ELSE "dial")
    /\ UNCHANGED <<announced, connVars, writerVars, beat, queueVars, pingers, ctx, stopCh, sig>>

(* The handshake does not watch the context; it ends by itself.              *)
Dial ==
    /\ \/ /\ Goto("dial", "announce")
          /\ conn < MaxConns
          /\ conn' = conn + 1
          /\ open' = open \cup {conn + 1}
          /\ connected' = TRUE
          /\ pingers' = {}
       \/ Goto("dial", "wait") /\ UNCHANGED <<connVars, pingers>>
    /\ UNCHANGED <<announced, writerVars, beat, queueVars, ctx, stopCh, sig>>

(* connectedCh is closed, by the first connection; later ones find it so.    *)
Announce ==
    /\ Goto("announce", "start")
    /\ announced' = TRUE
    /\ UNCHANGED <<connVars, writerVars, beat, queueVars, pingers, ctx, stopCh, sig>>

(* The goroutines that runLoop starts.                                       *)
Spawned_OnlyFirst(pcs, pc) == IF conn = 1 THEN [pcs EXCEPT ![conn] = pc] ELSE pcs
Spawned(pcs, pc) == [pcs EXCEPT ![conn] = pc]

StartLoops ==
    /\ Goto("start", IF Token THEN "auth" ELSE "read")
    /\ wpc' = Spawned(wpc, "select")
    /\ beat' = Spawned(beat, "ticking")
    /\ UNCHANGED <<announced, connVars, held, delivered, queueVars, pingers, ctx, stopCh, sig>>

(* sendAuth: queued behind what waits there, while the writer already runs;  *)
(* when nothing fits it is gone like any other message.                      *)
SendAuth ==
    /\ Goto("auth", "read")
    /\ Send("auth")
    /\ authed' = IF sendCh' # sendCh THEN authed \cup {conn} ELSE authed
    /\ UNCHANGED <<announced, connVars, writerVars, beat, pingers, ctx, stopCh, sig>>

(* readLoop looks at the context, then blocks in ReadMessage until a message *)
(* comes or the connection ends.                                             *)
ReadCheck ==
    /\ Goto("read", IF ctx THEN "close" ELSE "recv")
    /\ UNCHANGED <<announced, connVars, writerVars, beat, queueVars, pingers, ctx, stopCh, sig>>

ReadMessage ==
    /\ conn \in open
    /\ Goto("recv", "read")
    /\ UNCHANGED <<announced, connVars, writerVars, beat, queueVars, pingers, ctx, stopCh, sig>>

ReadFails ==
    /\ conn \notin open
    /\ Goto("recv", "close")
    /\ UNCHANGED <<announced, connVars, writerVars, beat, queueVars, pingers, ctx, stopCh, sig>>

(* close(): by readLoop on its way out and by Stop.                          *)
Disconnect_FlagKept == open' = open \ {conn} /\ UNCHANGED <<conn, connected>>
Disconnect == connected' = FALSE /\ open' = open \ {conn} /\ UNCHANGED conn

CloseConn ==
    /\ Goto("close", "check")
    /\ Disconnect
    /\ UNCHANGED <<announced, writerVars, beat, queueVars, pingers, ctx, stopCh, sig>>

Check ==
    /\ Goto("check", IF ctx \/ stopCh THEN "ended" ELSE "wait")
    /\ UNCHANGED <<announced, connVars, writerVars, beat, queueVars, pingers, ctx, stopCh, sig>>

(* waitForReconnect: the timer fires or the context is done (Backoff has the *)
(* delays).                                                                  *)
WaitForReconnect ==
    /\ Goto("wait", "top")
    /\ UNCHANGED <<announced, connVars, writerVars, beat, queueVars, pingers, ctx, stopCh, sig>>
-------------------------------------------------------------------------------
(* Writers and heartbeats.                                                   *)

TakeMessage(k) ==
    /\ wpc[k] = "select" /\ sendCh # <<>>
    /\ wpc' = [wpc EXCEPT ![k] = "write"]
    /\ held' = [held EXCEPT ![k] = Head(sendCh)]
    /\ sendCh' = Tail(sendCh)
    /\ UNCHANGED <<runVars, connVars, delivered, beat, offered, authed, pingers, ctx, stopCh, sig>>

(* The write goes to the connection of the moment; when that is over the     *)
(* message is lost and the writer ends.                                      *)
WriteMessage_OwnOnly(k) ==
    /\ wpc[k] = "write"
    /\ \/ /\ conn \in open /\ conn = k
          /\ delivered' = Append(delivered, [conn |-> conn, n |-> held[k].n, kind |-> held[k].kind])
          /\ wpc' = [wpc EXCEPT ![k] = "select"]
       \/ /\ conn \notin open \/ conn # k
          /\ wpc' = [wpc EXCEPT ![k] = "ended"]
          /\ UNCHANGED delivered
    /\ held' = [held EXCEPT ![k] = NoMessage]
    /\ UNCHANGED <<runVars, connVars, beat, queueVars, pingers, ctx, stopCh, sig>>
WriteMessage(k) ==
    /\ wpc[k] = "write"
    /\ \/ /\ conn \in open
          /\ delivered' = Append(delivered, [conn |-> conn, n |-> held[k].n, kind |-> held[k].kind])
          /\ wpc' = [wpc EXCEPT ![k] = "select"]
       \/ /\ conn \notin open
          /\ wpc' = [wpc EXCEPT ![k] = "ended"]
          /\ UNCHANGED delivered
    /\ held' = [held EXCEPT ![k] = NoMessage]
    /\ UNCHANGED <<runVars, connVars, beat, queueVars, pingers, ctx, stopCh, sig>>

WriterDone(k) ==
    /\ wpc[k] = "select" /\ ctx
    /\ wpc' = [wpc EXCEPT ![k] = "ended"]
    /\ UNCHANGED <<runVars, connVars, held, delivered, beat, queueVars, pingers, ctx, stopCh, sig>>

(* A tick sends a ping, or finds the client disconnected and ends the loop;  *)
(* what it looks at is the flag of the client, not of its own connection.    *)
(* The first tick comes an interval after the start, long after sendAuth.    *)
Tick(k) ==
    /\ beat[k] = "ticking" /\ (rpc = "auth" => k # conn)
    /\ \/ /\ connected
          /\ offered < MaxMessages /\ Send("ping")
          /\ pingers' = pingers \cup {k}
          /\ UNCHANGED <<beat, authed>>
       \/ /\ ~connected
          /\ beat' = [beat EXCEPT ![k] = "ended"]
          /\ UNCHANGED <<queueVars, pingers>>
    /\ UNCHANGED <<runVars, connVars, writerVars, ctx, stopCh, sig>>

HeartbeatDone(k) ==
    /\ beat[k] = "ticking" /\ ctx
    /\ beat' = [beat EXCEPT ![k] = "ended"]
    /\ UNCHANGED <<runVars, connVars, writerVars, queueVars, pingers, ctx, stopCh, sig>>
-------------------------------------------------------------------------------
(* The rest of the program, the network, and main's signal goroutine.        *)

(* A handler, a job or a screenshot sends: the server has asked for it on    *)
(* some connection.  Before that there is main's register, once connectedCh  *)
(* is closed.                                                                *)
Asked == conn > 1 \/ (conn = 1 /\ rpc \notin {"announce", "start", "auth"})

Produce ==
    /\ Asked \/ (announced /\ offered = 0)
    /\ offered < MaxMessages /\ Send("event")
    /\ UNCHANGED <<authed, runVars, connVars, writerVars, beat, pingers, ctx, stopCh, sig>>

(* The server closes the connection or the network loses it.                 *)
Lose ==
    /\ conn \in open
    /\ open' = open \ {conn}
    /\ UNCHANGED <<runVars, conn, connected, writerVars, beat, queueVars, pingers, ctx, stopCh, sig>>

SigGoto(at, to) ==
    /\ sig = at /\ sig' = to
    /\ UNCHANGED <<runVars, writerVars, beat, queueVars, pingers>>

Signal == SigGoto("idle", "cancel") /\ UNCHANGED <<connVars, ctx, stopCh>>

(* cancel() comes first: whoever finds the connection closed by Stop finds   *)
(* the context done.                                                         *)
Cancel_Forgotten == SigGoto("cancel", "stop") /\ UNCHANGED <<connVars, ctx, stopCh>>
Cancel == SigGoto("cancel", "stop") /\ ctx' = TRUE /\ UNCHANGED <<connVars, stopCh>>
CloseStopCh == SigGoto("stop", "close") /\ stopCh' = TRUE /\ UNCHANGED <<connVars, ctx>>
StopClose == SigGoto("close", "done") /\ Disconnect /\ UNCHANGED <<ctx, stopCh>>

(* Run has returned: main cleans up and exits.                               *)
Ended == rpc = "ended" /\ UNCHANGED vars
-------------------------------------------------------------------------------
Run ==
    \/ Top \/ Dial \/ Announce \/ StartLoops \/ SendAuth \/ ReadCheck \/ ReadFails
    \/ CloseConn \/ Check \/ WaitForReconnect

SignalHandler == Cancel \/ CloseStopCh \/ StopClose

Next ==
    \/ Run \/ ReadMessage
    \/ \E k \in Conns : \/ TakeMessage(k) \/ WriteMessage(k) \/ WriterDone(k)
                        \/ Tick(k) \/ HeartbeatDone(k)
    \/ Produce \/ Lose
    \/ Signal \/ SignalHandler \/ Ended

Spec == Init /\ [][Next]_vars

(* Run, a signal handler that has its signal and the writers are scheduled,  *)
(* and a write returns.  The server need not accept, send or close.          *)
FairSpec ==
    /\ Spec
    /\ WF_vars(Run) /\ WF_vars(SignalHandler)
    /\ \A k \in Conns : WF_vars(TakeMessage(k) \/ WriteMessage(k))
-------------------------------------------------------------------------------
(* Properties.                                                               *)

Serving == {"read", "recv"}

Kinds == {"auth", "ping", "event"}
Numbers == 1..(MaxMessages + MaxConns)
Messages == [n : Numbers, kind : Kinds]

FlagsOK ==
    /\ announced \in BOOLEAN /\ connected \in BOOLEAN
    /\ ctx \in BOOLEAN /\ stopCh \in BOOLEAN

TypeOK ==
    /\ FlagsOK
    /\ rpc \in {"top", "dial", "announce", "start", "auth", "close", "check", "wait", "ended"}
                 \cup Serving
    /\ conn \in 0..MaxConns /\ open \subseteq Conns
    /\ wpc \in [Conns -> {"none", "select", "write", "ended"}]
    /\ held \in [Conns -> Messages \cup {NoMessage}]
    /\ beat \in [Conns -> {"none", "ticking", "ended"}]
    /\ sendCh \in Seq(Messages) /\ Len(sendCh) <= QueueCap
    /\ offered \in 0..(MaxMessages + MaxConns) /\ authed \subseteq Conns
    /\ delivered \in Seq([conn : Conns, n : Numbers, kind : Kinds])
    /\ pingers \subseteq Conns
    /\ sig \in {"idle", "cancel", "stop", "close", "done"}

(* While a connection is up and nobody shuts down, its own writer and its    *)
(* own heartbeat are alive: no failure of an earlier connection takes them   *)
(* down with it.                                                             *)
ConnectionServed ==
    rpc \in Serving /\ conn \in open /\ ~ctx
        => wpc[conn] \in {"select", "write"} /\ beat[conn] = "ticking"

(* Outside a connection the client never believes to be connected, or the    *)
(* heartbeats of lost connections would never end.                           *)
FlagFollowsLoop ==
    rpc \in {"top", "dial", "check", "wait", "ended"} => ~connected

(* A termination signal ends Run, whatever it is doing when the signal comes *)
(* and however the steps of cancel and Stop fall between its own.            *)
SignalEndsRun == sig = "cancel" ~> rpc = "ended"

(* An auth that got into the queue reaches the server on the connection it   *)
(* was sent for, unless that ends first: a writer left behind by an earlier  *)
(* connection may take it, but does not take it away.                        *)
AuthArrives ==
    \A c \in Conns :
        c \in authed ~> \/ \E i \in DOMAIN delivered : delivered[i].conn = c /\ delivered[i].kind = "auth"
                       \/ c \notin open \/ ctx

(* Why the safety properties hold: what each of them leans on.               *)

(* From a dial until readLoop is left there is a connection to speak of.     *)
Dialled == {"announce", "start", "auth"} \cup Serving

DialledHasConn == rpc \in Dialled => conn \in Conns

(* Every message has a number of its own range: one auth for each connection *)
(* that got beyond sendAuth, and the rest within MaxMessages.                *)
OfferedBounded ==
    offered <= MaxMessages + (IF rpc \in {"announce", "start", "auth"} THEN conn - 1 ELSE conn)

(* A writer about to write holds a message.                                  *)
WritersHold == \A k \in Conns : wpc[k] = "write" => held[k] \in Messages

(* cancel() comes before Stop closes anything.                               *)
CancelFirst == sig \in {"stop", "close", "done"} => ctx

(* So nobody but readLoop, on its way out, tells a client that is to go on   *)
(* that it is disconnected.                                                  *)
DialledConnected == rpc \in Dialled /\ ~ctx => connected

(* The goroutines of a connection are there from runLoop's first steps on.   *)
ServedFromStart ==
    rpc \in {"auth"} \cup Serving /\ conn \in open /\ ~ctx
        => wpc[conn] \in {"select", "write"} /\ beat[conn] = "ticking"

(* The inductive invariant.                                                  *)
IInv ==
    /\ TypeOK /\ DialledHasConn /\ OfferedBounded /\ WritersHold
    /\ CancelFirst /\ DialledConnected /\ ServedFromStart
    /\ FlagFollowsLoop

(* What the documents say and the code does not do.                          *)

(* With a token, every connection asks the server for authentication.        *)
AuthQueued == Token /\ rpc \in Serving => conn \in authed

(* sendCh is a queue: one connection carries messages in the order sent.     *)
QueueOrder ==
    \A i, j \in DOMAIN delivered :
        i < j /\ delivered[i].conn = delivered[j].conn => delivered[i].n < delivered[j].n

(* One heartbeat pings on a connection.                                      *)
OneHeartbeat == \A j, k \in pingers : j = k

(* With a token, a connection starts with auth.                              *)
AuthFirst ==
    Token => \A j \in DOMAIN delivered :
                 (\A i \in 1..(j - 1) : delivered[i].conn # delivered[j].conn)
                 => delivered[j].kind = "auth"
===============================================================================
