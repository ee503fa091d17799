--------------------------- MODULE ConnectionProofs ----------------------------
(***************************************************************************)
(* Proofs about Connection for any number of connections and messages, any *)
(* capacity of the queue, with and without a token.  IInv is proved one    *)
(* conjunct at a time; the actions are taken together by who takes them.   *)
(***************************************************************************)
EXTENDS Connection, SequenceTheorems, TLAPS

(* Abbreviations that every step expands.                                    *)
USE ConnectionAssumption
    DEF vars, runVars, connVars, writerVars, queueVars, Conns, Goto, SigGoto, Disconnect,
        Spawned, Serving, Dialled

LEMMA InitIInv == Init => IInv
<1> SUFFICES ASSUME Init PROVE IInv
  OBVIOUS
<1>1. FlagsOK
  BY Zenon DEF Init, FlagsOK
<1>2. TypeOK
  BY <1>1 DEF Init, TypeOK
<1>3. DialledHasConn /\ OfferedBounded /\ WritersHold /\ CancelFirst
  BY DEF Init, DialledHasConn, OfferedBounded, WritersHold, CancelFirst
<1>4. DialledConnected /\ ServedFromStart /\ FlagFollowsLoop
  BY DEF Init, DialledConnected, ServedFromStart, FlagFollowsLoop
<1>5. QED
  BY <1>2, <1>3, <1>4 DEF IInv

(* The three flags, by a prover that treats them as formulas. *)
LEMMA NextFlags ==
    ASSUME FlagsOK, [Next]_vars
    PROVE  FlagsOK'
<1> USE DEF FlagsOK
<1>1. ASSUME Run \/ ReadMessage PROVE FlagsOK'
  BY Zenon, <1>1 DEF Run, Top, Dial, Announce, StartLoops, SendAuth, ReadCheck, ReadFails, CloseConn,
              Check, WaitForReconnect, ReadMessage
<1>2. ASSUME NEW k \in Conns, TakeMessage(k) \/ WriteMessage(k) \/ WriterDone(k) PROVE FlagsOK'
  BY Zenon, <1>2 DEF TakeMessage, WriteMessage, WriterDone
<1>3. ASSUME NEW k \in Conns, Tick(k) \/ HeartbeatDone(k) PROVE FlagsOK'
  BY Zenon, <1>3 DEF Tick, HeartbeatDone
<1>4. ASSUME Produce \/ Lose PROVE FlagsOK'
  BY Zenon, <1>4 DEF Produce, Lose
<1>5. ASSUME Signal \/ SignalHandler PROVE FlagsOK'
  BY Zenon, <1>5 DEF Signal, SignalHandler, Cancel, CloseStopCh, StopClose
<1>6. ASSUME Ended \/ UNCHANGED vars PROVE FlagsOK'
  BY Zenon, <1>6 DEF Ended
<1>7. QED BY <1>1, <1>2, <1>3, <1>4, <1>5, <1>6 DEF Next

(* A message that fits is one more of the queue's kind.                      *)
LEMMA SendOK ==
    ASSUME TypeOK, NEW kind \in Kinds, Send(kind), offered < MaxMessages + MaxConns
    PROVE  /\ sendCh' \in Seq(Messages) /\ Len(sendCh') <= QueueCap
           /\ offered' \in 0..(MaxMessages + MaxConns)
<1>1. [n |-> offered + 1, kind |-> kind] \in Messages
  BY DEF TypeOK, Messages, Numbers
<1>2. QED
  BY <1>1, AppendProperties DEF TypeOK, Send

(* Every variable keeps its type, given that the flags keep theirs.          *)
LEMMA NextTypeOK ==
    ASSUME TypeOK, DialledHasConn, OfferedBounded, WritersHold, FlagsOK', [Next]_vars
    PROVE  TypeOK'
<1> USE DEF TypeOK
<1>1. ASSUME Run \/ ReadMessage PROVE TypeOK'
  <2>1. CASE SendAuth
    <3>1. conn \in Conns /\ offered < MaxMessages + MaxConns
      BY <2>1 DEF SendAuth, DialledHasConn, OfferedBounded
    <3>2. /\ sendCh' \in Seq(Messages) /\ Len(sendCh') <= QueueCap
          /\ offered' \in 0..(MaxMessages + MaxConns)
      BY <2>1, <3>1, SendOK DEF SendAuth, Kinds
    <3>3. QED
      BY <2>1, <3>1, <3>2 DEF SendAuth
  <2>2. CASE Dial
    <3>1. rpc' \in {"announce", "wait"}
      BY <2>2 DEF Dial
    <3>2. conn' \in 0..MaxConns /\ open' \subseteq Conns /\ pingers' \subseteq Conns
      <4>1. CASE UNCHANGED <<connVars, pingers>>
        BY <4>1
      <4>2. CASE /\ conn < MaxConns /\ conn' = conn + 1
                 /\ open' = open \cup {conn + 1} /\ pingers' = {}
        BY <4>2
      <4>3. QED BY <2>2, <4>1, <4>2 DEF Dial
    <3>3. UNCHANGED <<announced, writerVars, beat, queueVars, sig>>
      BY <2>2 DEF Dial
    <3>4. QED
      BY <3>1, <3>2, <3>3
  <2>3. CASE Top \/ Announce \/ StartLoops \/ ReadCheck \/ ReadFails \/ ReadMessage
    <3>1. CASE Top
      BY <3>1 DEF Top
    <3>2. CASE Announce
      BY <3>2 DEF Announce
    <3>3. CASE StartLoops
      BY <3>3 DEF StartLoops
    <3>4. CASE ReadCheck \/ ReadFails \/ ReadMessage
      BY <3>4 DEF ReadCheck, ReadFails, ReadMessage
    <3>5. QED BY <2>3, <3>1, <3>2, <3>3, <3>4
  <2>4. CASE CloseConn \/ Check \/ WaitForReconnect
    BY <2>4 DEF CloseConn, Check, WaitForReconnect
  <2>5. QED BY <1>1, <2>1, <2>2, <2>3, <2>4 DEF Run
<1>2. ASSUME NEW k \in Conns, TakeMessage(k) \/ WriteMessage(k) \/ WriterDone(k) PROVE TypeOK'
  <2>1. CASE TakeMessage(k)
    <3>1. /\ Head(sendCh) \in Messages
          /\ Tail(sendCh) \in Seq(Messages) /\ Len(Tail(sendCh)) <= QueueCap
      BY <2>1, HeadTailProperties DEF TakeMessage
    <3>2. QED
      BY <2>1, <3>1 DEF TakeMessage
  <2>2. CASE WriteMessage(k)
    <3>1. delivered' \in Seq([conn : Conns, n : Numbers, kind : Kinds])
      <4>1. CASE UNCHANGED delivered
        BY <4>1
      <4>2. CASE /\ conn \in open
                 /\ delivered' = Append(delivered, [conn |-> conn, n |-> held[k].n, kind |-> held[k].kind])
        <5>1. held[k] \in Messages
          BY <2>2 DEF WriteMessage, WritersHold
        <5>2. [conn |-> conn, n |-> held[k].n, kind |-> held[k].kind]
                 \in [conn : Conns, n : Numbers, kind : Kinds]
          BY <4>2, <5>1 DEF Messages
        <5>3. QED
          BY <4>2, <5>2, AppendProperties
      <4>3. QED BY <2>2, <4>1, <4>2 DEF WriteMessage
    <3>2. QED
      BY <2>2, <3>1 DEF WriteMessage
  <2>3. CASE WriterDone(k)
    BY <2>3 DEF WriterDone
  <2>4. QED BY <1>2, <2>1, <2>2, <2>3
<1>3. ASSUME NEW k \in Conns, Tick(k) \/ HeartbeatDone(k) PROVE TypeOK'
  <2>1. CASE UNCHANGED queueVars
    BY <1>3, <2>1 DEF Tick, HeartbeatDone
  <2>2. CASE Send("ping") /\ offered < MaxMessages
    <3>1. /\ sendCh' \in Seq(Messages) /\ Len(sendCh') <= QueueCap
          /\ offered' \in 0..(MaxMessages + MaxConns)
      BY <2>2, SendOK DEF Kinds
    <3>2. QED
      BY <1>3, <3>1 DEF Tick, HeartbeatDone
  <2>3. QED BY <1>3, <2>1, <2>2 DEF Tick, HeartbeatDone
<1>4. ASSUME Produce \/ Lose PROVE TypeOK'
  <2>1. CASE Produce
    <3>1. /\ sendCh' \in Seq(Messages) /\ Len(sendCh') <= QueueCap
          /\ offered' \in 0..(MaxMessages + MaxConns)
      BY <2>1, SendOK DEF Produce, Kinds
    <3>2. QED
      BY <2>1, <3>1 DEF Produce
  <2>2. CASE Lose
    BY <2>2 DEF Lose
  <2>3. QED BY <1>4, <2>1, <2>2
<1>5. ASSUME Signal \/ SignalHandler PROVE TypeOK'
  BY <1>5 DEF Signal, SignalHandler, Cancel, CloseStopCh, StopClose
<1>6. ASSUME Ended \/ UNCHANGED vars PROVE TypeOK'
  BY <1>6 DEF Ended
<1>7. QED BY <1>1, <1>2, <1>3, <1>4, <1>5, <1>6 DEF Next

(* A dial that succeeds numbers its connection. *)
LEMMA NextDialledHasConn ==
    ASSUME TypeOK, DialledHasConn, [Next]_vars
    PROVE  DialledHasConn'
<1> USE DEF TypeOK, DialledHasConn
<1>1. ASSUME Run \/ ReadMessage PROVE DialledHasConn'
  BY <1>1 DEF Run, Top, Dial, Announce, StartLoops, SendAuth, ReadCheck, ReadFails, CloseConn,
              Check, WaitForReconnect, ReadMessage
<1>2. ASSUME NEW k \in Conns, TakeMessage(k) \/ WriteMessage(k) \/ WriterDone(k) PROVE DialledHasConn'
  BY <1>2 DEF TakeMessage, WriteMessage, WriterDone
<1>3. ASSUME NEW k \in Conns, Tick(k) \/ HeartbeatDone(k) PROVE DialledHasConn'
  BY <1>3 DEF Tick, HeartbeatDone
<1>4. ASSUME Produce \/ Lose PROVE DialledHasConn'
  BY <1>4 DEF Produce, Lose
<1>5. ASSUME Signal \/ SignalHandler PROVE DialledHasConn'
  BY <1>5 DEF Signal, SignalHandler, Cancel, CloseStopCh, StopClose
<1>6. ASSUME Ended \/ UNCHANGED vars PROVE DialledHasConn'
  BY <1>6 DEF Ended
<1>7. QED BY <1>1, <1>2, <1>3, <1>4, <1>5, <1>6 DEF Next

(* Only sendAuth, once a connection, goes beyond MaxMessages. *)
LEMMA NextOfferedBounded ==
    ASSUME TypeOK, DialledHasConn, OfferedBounded, [Next]_vars
    PROVE  OfferedBounded'
<1> USE DEF TypeOK, DialledHasConn, OfferedBounded, Send
<1>1. ASSUME Run \/ ReadMessage PROVE OfferedBounded'
  BY <1>1 DEF Run, Top, Dial, Announce, StartLoops, SendAuth, ReadCheck, ReadFails, CloseConn,
              Check, WaitForReconnect, ReadMessage
<1>2. ASSUME NEW k \in Conns, TakeMessage(k) \/ WriteMessage(k) \/ WriterDone(k) PROVE OfferedBounded'
  BY <1>2 DEF TakeMessage, WriteMessage, WriterDone
<1>3. ASSUME NEW k \in Conns, Tick(k) \/ HeartbeatDone(k) PROVE OfferedBounded'
  BY <1>3 DEF Tick, HeartbeatDone
<1>4. ASSUME Produce \/ Lose PROVE OfferedBounded'
  BY <1>4 DEF Produce, Lose
<1>5. ASSUME Signal \/ SignalHandler PROVE OfferedBounded'
  BY <1>5 DEF Signal, SignalHandler, Cancel, CloseStopCh, StopClose
<1>6. ASSUME Ended \/ UNCHANGED vars PROVE OfferedBounded'
  BY <1>6 DEF Ended
<1>7. QED BY <1>1, <1>2, <1>3, <1>4, <1>5, <1>6 DEF Next

(* What a writer takes is a message of the queue. *)
LEMMA NextWritersHold ==
    ASSUME TypeOK, WritersHold, [Next]_vars
    PROVE  WritersHold'
<1> USE DEF TypeOK, WritersHold
<1>1. ASSUME Run \/ ReadMessage PROVE WritersHold'
  BY <1>1 DEF Run, Top, Dial, Announce, StartLoops, SendAuth, ReadCheck, ReadFails, CloseConn,
              Check, WaitForReconnect, ReadMessage
<1>2. ASSUME NEW k \in Conns, TakeMessage(k) \/ WriteMessage(k) \/ WriterDone(k) PROVE WritersHold'
  <2>1. CASE TakeMessage(k)
    BY <2>1 DEF TakeMessage
  <2>2. CASE WriteMessage(k)
    BY <2>2 DEF WriteMessage
  <2>3. CASE WriterDone(k)
    BY <2>3 DEF WriterDone
  <2>4. QED BY <1>2, <2>1, <2>2, <2>3
<1>3. ASSUME NEW k \in Conns, Tick(k) \/ HeartbeatDone(k) PROVE WritersHold'
  BY <1>3 DEF Tick, HeartbeatDone
<1>4. ASSUME Produce \/ Lose PROVE WritersHold'
  BY <1>4 DEF Produce, Lose
<1>5. ASSUME Signal \/ SignalHandler PROVE WritersHold'
  BY <1>5 DEF Signal, SignalHandler, Cancel, CloseStopCh, StopClose
<1>6. ASSUME Ended \/ UNCHANGED vars PROVE WritersHold'
  BY <1>6 DEF Ended
<1>7. QED BY <1>1, <1>2, <1>3, <1>4, <1>5, <1>6 DEF Next

(* The signal handler cancels before it goes on. *)
LEMMA NextCancelFirst ==
    ASSUME CancelFirst, [Next]_vars
    PROVE  CancelFirst'
<1> USE DEF CancelFirst
<1>1. ASSUME Run \/ ReadMessage PROVE CancelFirst'
  BY <1>1 DEF Run, Top, Dial, Announce, StartLoops, SendAuth, ReadCheck, ReadFails, CloseConn,
              Check, WaitForReconnect, ReadMessage
<1>2. ASSUME NEW k \in Conns, TakeMessage(k) \/ WriteMessage(k) \/ WriterDone(k) PROVE CancelFirst'
  BY <1>2 DEF TakeMessage, WriteMessage, WriterDone
<1>3. ASSUME NEW k \in Conns, Tick(k) \/ HeartbeatDone(k) PROVE CancelFirst'
  BY <1>3 DEF Tick, HeartbeatDone
<1>4. ASSUME Produce \/ Lose PROVE CancelFirst'
  BY <1>4 DEF Produce, Lose
<1>5. ASSUME Signal \/ SignalHandler PROVE CancelFirst'
  BY <1>5 DEF Signal, SignalHandler, Cancel, CloseStopCh, StopClose
<1>6. ASSUME Ended \/ UNCHANGED vars PROVE CancelFirst'
  BY <1>6 DEF Ended
<1>7. QED BY <1>1, <1>2, <1>3, <1>4, <1>5, <1>6 DEF Next

(* The flag is lowered on the way out of readLoop or after cancel. *)
LEMMA NextDialledConnected ==
    ASSUME TypeOK, CancelFirst, DialledConnected, [Next]_vars
    PROVE  DialledConnected'
<1> USE DEF TypeOK, CancelFirst, DialledConnected
<1>1. ASSUME Run \/ ReadMessage PROVE DialledConnected'
  BY <1>1 DEF Run, Top, Dial, Announce, StartLoops, SendAuth, ReadCheck, ReadFails, CloseConn,
              Check, WaitForReconnect, ReadMessage
<1>2. ASSUME NEW k \in Conns, TakeMessage(k) \/ WriteMessage(k) \/ WriterDone(k) PROVE DialledConnected'
  BY <1>2 DEF TakeMessage, WriteMessage, WriterDone
<1>3. ASSUME NEW k \in Conns, Tick(k) \/ HeartbeatDone(k) PROVE DialledConnected'
  BY <1>3 DEF Tick, HeartbeatDone
<1>4. ASSUME Produce \/ Lose PROVE DialledConnected'
  BY <1>4 DEF Produce, Lose
<1>5. ASSUME Signal \/ SignalHandler PROVE DialledConnected'
  BY <1>5 DEF Signal, SignalHandler, Cancel, CloseStopCh, StopClose
<1>6. ASSUME Ended \/ UNCHANGED vars PROVE DialledConnected'
  BY <1>6 DEF Ended
<1>7. QED BY <1>1, <1>2, <1>3, <1>4, <1>5, <1>6 DEF Next

(* A writer ends with its connection, a heartbeat with the flag, both with the context. *)
LEMMA NextServedFromStart ==
    ASSUME TypeOK, DialledHasConn, DialledConnected, ServedFromStart, [Next]_vars
    PROVE  ServedFromStart'
<1> USE DEF TypeOK, DialledHasConn, DialledConnected, ServedFromStart
<1>1. ASSUME Run \/ ReadMessage PROVE ServedFromStart'
  BY <1>1 DEF Run, Top, Dial, Announce, StartLoops, SendAuth, ReadCheck, ReadFails, CloseConn,
              Check, WaitForReconnect, ReadMessage
<1>2. ASSUME NEW k \in Conns, TakeMessage(k) \/ WriteMessage(k) \/ WriterDone(k) PROVE ServedFromStart'
  BY <1>2 DEF TakeMessage, WriteMessage, WriterDone
<1>3. ASSUME NEW k \in Conns, Tick(k) \/ HeartbeatDone(k) PROVE ServedFromStart'
  BY <1>3 DEF Tick, HeartbeatDone
<1>4. ASSUME Produce \/ Lose PROVE ServedFromStart'
  BY <1>4 DEF Produce, Lose
<1>5. ASSUME Signal \/ SignalHandler PROVE ServedFromStart'
  BY <1>5 DEF Signal, SignalHandler, Cancel, CloseStopCh, StopClose
<1>6. ASSUME Ended \/ UNCHANGED vars PROVE ServedFromStart'
  BY <1>6 DEF Ended
<1>7. QED BY <1>1, <1>2, <1>3, <1>4, <1>5, <1>6 DEF Next

(* close() precedes every way back to the top. *)
LEMMA NextFlagFollowsLoop ==
    ASSUME TypeOK, FlagFollowsLoop, [Next]_vars
    PROVE  FlagFollowsLoop'
<1> USE DEF TypeOK, FlagFollowsLoop
<1>1. ASSUME Run \/ ReadMessage PROVE FlagFollowsLoop'
  BY <1>1 DEF Run, Top, Dial, Announce, StartLoops, SendAuth, ReadCheck, ReadFails, CloseConn,
              Check, WaitForReconnect, ReadMessage
<1>2. ASSUME NEW k \in Conns, TakeMessage(k) \/ WriteMessage(k) \/ WriterDone(k) PROVE FlagFollowsLoop'
  BY <1>2 DEF TakeMessage, WriteMessage, WriterDone
<1>3. ASSUME NEW k \in Conns, Tick(k) \/ HeartbeatDone(k) PROVE FlagFollowsLoop'
  BY <1>3 DEF Tick, HeartbeatDone
<1>4. ASSUME Produce \/ Lose PROVE FlagFollowsLoop'
  BY <1>4 DEF Produce, Lose
<1>5. ASSUME Signal \/ SignalHandler PROVE FlagFollowsLoop'
  BY <1>5 DEF Signal, SignalHandler, Cancel, CloseStopCh, StopClose
<1>6. ASSUME Ended \/ UNCHANGED vars PROVE FlagFollowsLoop'
  BY <1>6 DEF Ended
<1>7. QED BY <1>1, <1>2, <1>3, <1>4, <1>5, <1>6 DEF Next

LEMMA NextIInv ==
    ASSUME IInv, [Next]_vars
    PROVE  IInv'
<1>1. FlagsOK'
  BY NextFlags DEF IInv, TypeOK
<1>2. TypeOK'
  BY <1>1, NextTypeOK DEF IInv
<1>3. DialledHasConn' /\ OfferedBounded' /\ WritersHold'
  BY NextDialledHasConn, NextOfferedBounded, NextWritersHold DEF IInv
<1>4. CancelFirst' /\ DialledConnected' /\ ServedFromStart'
  BY NextCancelFirst, NextDialledConnected, NextServedFromStart DEF IInv
<1>5. FlagFollowsLoop'
  BY NextFlagFollowsLoop DEF IInv
<1>6. QED
  BY <1>2, <1>3, <1>4, <1>5 DEF IInv

(* IInv holds in every reachable state.                                      *)
THEOREM Invariance == Spec => []IInv
<1>1. IInv /\ [Next]_vars => IInv'
  BY NextIInv
<1>2. QED
  BY InitIInv, <1>1, PTL DEF Spec

(* Types, and with them the bound of the queue. *)
THEOREM TypeCorrect == Spec => []TypeOK
<1>1. IInv => TypeOK
  BY DEF IInv
<1>2. QED
  BY Invariance, <1>1, PTL

(* A connection that is up has its own writer and heartbeat, whatever earlier ones left. *)
THEOREM Served == Spec => []ConnectionServed
<1>1. IInv => ConnectionServed
  BY DEF IInv, ConnectionServed, ServedFromStart
<1>2. QED
  BY Invariance, <1>1, PTL

(* Outside a connection the client does not believe to be connected. *)
THEOREM FlagFollows == Spec => []FlagFollowsLoop
<1>1. IInv => FlagFollowsLoop
  BY DEF IInv
<1>2. QED
  BY Invariance, <1>1, PTL
===============================================================================
