--------------------------- MODULE EventStreamProofs ---------------------------
(***************************************************************************)
(* Proofs about EventStream for any number of jobs, items, lost            *)
(* connections and threads that call back, and channels and queue of any   *)
(* capacity: an event is booked to its own job or a later one, and a job's *)
(* progress never goes back while the writers take turns, however full the *)
(* channels are and however late a callback sends.                         *)
(***************************************************************************)
EXTENDS EventStream, SequenceTheorems, TLAPS

USE CapsAssumption DEF vars, taskVars, eventVars, wireVars, Goto, None, Jobs, Kinds, Channels, Writers

(* A receive takes the first event of a buffer.                              *)
LEMMA Removed ==
    ASSUME NEW S, NEW s \in Seq(S), 1 \in DOMAIN s
    PROVE  /\ RemoveAt(s, 1) \in Seq(S) /\ Len(RemoveAt(s, 1)) = Len(s) - 1
           /\ \A i \in DOMAIN RemoveAt(s, 1) :
                 i \in Nat /\ i + 1 \in DOMAIN s /\ RemoveAt(s, 1)[i] = s[i + 1]
<1>1. DOMAIN s = 1..Len(s) /\ Len(s) \in Nat /\ s # <<>>
  BY LenProperties, EmptySeq
<1>2. SubSeq(s, 1, 0) = <<>>
  BY SubSeqEmpty
<1>3. RemoveAt(s, 1) = <<>> \o SubSeq(s, 2, Len(s))
  BY <1>2 DEF RemoveAt
<1>4. Tail(s) = SubSeq(s, 2, Len(s))
  BY <1>1, TailIsSubSeq
<1>5. /\ Tail(s) \in Seq(S) /\ Len(Tail(s)) = Len(s) - 1
      /\ \A i \in 1..Len(Tail(s)) : Tail(s)[i] = s[i + 1]
  BY <1>1, HeadTailProperties
<1>6. RemoveAt(s, 1) = Tail(s)
  BY <1>3, <1>4, <1>5, ConcatEmptySeq
<1>7. DOMAIN Tail(s) = 1..(Len(s) - 1)
  BY <1>5, LenProperties
<1>8. ASSUME NEW i \in DOMAIN Tail(s)
      PROVE  i \in Nat /\ i + 1 \in DOMAIN s /\ Tail(s)[i] = s[i + 1]
  BY <1>1, <1>5, <1>7
<1>9. QED BY <1>5, <1>6, <1>8

LEMMA Appended ==
    ASSUME NEW S, NEW s \in Seq(S), NEW m \in S
    PROVE  /\ Append(s, m) \in Seq(S) /\ Len(Append(s, m)) = Len(s) + 1 /\ Len(s) \in Nat
           /\ DOMAIN s = 1..Len(s) /\ DOMAIN Append(s, m) = 1..(Len(s) + 1)
           /\ \A i \in DOMAIN s : Append(s, m)[i] = s[i]
           /\ Append(s, m)[Len(s) + 1] = m
           /\ \A i \in DOMAIN Append(s, m) : i \in DOMAIN s \/ i = Len(s) + 1
<1>1. /\ Append(s, m) \in Seq(S) /\ Len(Append(s, m)) = Len(s) + 1
      /\ \A i \in 1..Len(s) : Append(s, m)[i] = s[i]
      /\ Append(s, m)[Len(s) + 1] = m
  BY AppendProperties
<1>2. DOMAIN s = 1..Len(s) /\ Len(s) \in Nat
  BY LenProperties
<1>3. DOMAIN Append(s, m) = 1..(Len(s) + 1)
  BY <1>1, LenProperties
<1>4. QED BY <1>1, <1>2, <1>3

(* The queue after Send: as it was, or with the message at its end.          *)
LEMMA Enqueued ==
    ASSUME sendCh \in Seq(Events), Len(sendCh) <= QueueCap, NEW m \in Events, Enqueue(m)
    PROVE  /\ sendCh' \in Seq(Events) /\ Len(sendCh') <= QueueCap
           /\ \/ sendCh' = sendCh
              \/ /\ \A p \in DOMAIN sendCh' :
                       \/ p \in DOMAIN sendCh /\ sendCh'[p] = sendCh[p]
                       \/ p \notin DOMAIN sendCh /\ sendCh'[p] = m
                 /\ \A p, q \in DOMAIN sendCh' : p < q => p \in DOMAIN sendCh
<1>1. CASE Len(sendCh) < QueueCap
  <2>1. sendCh' = Append(sendCh, m)
    BY <1>1 DEF Enqueue
  <2>2. /\ sendCh' \in Seq(Events) /\ Len(sendCh') = Len(sendCh) + 1 /\ Len(sendCh) \in Nat
        /\ DOMAIN sendCh = 1..Len(sendCh) /\ DOMAIN sendCh' = 1..(Len(sendCh) + 1)
        /\ \A p \in DOMAIN sendCh : sendCh'[p] = sendCh[p]
        /\ sendCh'[Len(sendCh) + 1] = m
        /\ \A p \in DOMAIN sendCh' : p \in DOMAIN sendCh \/ p = Len(sendCh) + 1
    BY <2>1, Appended
  <2>3. Len(sendCh') <= QueueCap
    BY <1>1, <2>2
  <2>4. \A p, q \in DOMAIN sendCh' : p < q => p \in DOMAIN sendCh
    BY <2>2
  <2>5. QED BY <2>2, <2>3, <2>4
<1>2. CASE ~(Len(sendCh) < QueueCap)
  BY <1>2 DEF Enqueue
<1>3. QED BY <1>1, <1>2

(* Every event a step makes is an event.                                     *)
LEMMA EventOK ==
    ASSUME NEW j \in Jobs, NEW k \in Kinds \cup {"completed"}, NEW n \in Nat
    PROVE  /\ Event(j, k, n) \in Events
           /\ Event(j, k, n).job = j /\ Event(j, k, n).kind = k /\ Event(j, k, n).n = n
  BY DEF Event, Events

(* What a writer holds is one event or nothing.                              *)
LEMMA Holding ==
    ASSUME NEW s \in Seq(Events), Len(s) <= 1
    PROVE  /\ s # <<>> => Head(s) = s[1] /\ Head(s) \in Events /\ 1 \in DOMAIN s
           /\ \A h \in DOMAIN s : h = 1 /\ s # <<>>
<1>1. DOMAIN s = 1..Len(s) /\ Len(s) \in Nat
  BY LenProperties
<1>2. ASSUME s # <<>> PROVE Head(s) = s[1] /\ Head(s) \in Events /\ 1 \in DOMAIN s
  <2>1. Len(s) # 0
    BY <1>2, EmptySeq
  <2>2. Head(s) \in Events
    BY <1>2, HeadTailProperties
  <2>3. QED BY <1>1, <2>1, <2>2
<1>3. \A h \in DOMAIN s : h = 1 /\ s # <<>>
  BY <1>1, EmptySeq
<1>4. QED BY <1>2, <1>3

LEMMA InitIInv == Init => IInv
<1> SUFFICES ASSUME Init PROVE IInv
  OBVIOUS
<1>1. \A c \in Channels : chan[c] = <<>> /\ Len(chan[c]) = 0 /\ DOMAIN chan[c] = {}
  BY EmptySeq DEF Init
<1>2. sendCh = <<>> /\ Len(sendCh) = 0 /\ DOMAIN sendCh = {} /\ sendCh \in Seq(Events)
  BY EmptySeq DEF Init
<1>3. \A w \in Writers : held[w] = <<>> /\ Len(held[w]) = 0 /\ DOMAIN held[w] = {}
  BY EmptySeq DEF Init
<1>4. TypeOK
  <2>1. chan \in [Channels -> Seq(Events)] /\ \A c \in Channels : Len(chan[c]) <= Cap(c[2])
    BY <1>1, EmptySeq DEF Init, Cap
  <2>2. held \in [Writers -> Seq(Events)] /\ \A w \in Writers : Len(held[w]) <= 1
    BY <1>3, EmptySeq DEF Init
  <2>3. heard \in [Jobs -> Nat] /\ conns \in Writers
        /\ writer \in [Writers -> {"none", "running", "ended"}]
    BY DEF Init
  <2>4. up \in BOOLEAN /\ crowded \in BOOLEAN
    BY DEF Init
  <2>5. /\ job \in 1..(NumJobs + 1) /\ owing \subseteq Jobs /\ item \in Nat /\ logs \in 0..MaxLogs
        /\ forwarder \in [Channels -> {"none", "ranging", "ended"}]
        /\ raised \in [Callbacks -> Jobs \cup {None}]
        /\ snapshot \in [Callbacks -> (Jobs \cup {None}) \X (Jobs \cup {None})]
        /\ Len(sendCh) <= QueueCap
    BY <1>2 DEF Init
  <2>6. QED BY <1>2, <2>1, <2>2, <2>3, <2>4, <2>5 DEF Init, TypeOK
<1>5. HandlerFollowsJob /\ ClosedBehind /\ OwedBehind
  BY DEF Init, HandlerFollowsJob, ClosedBehind, OwedBehind
<1>6. CopiedTogether
  BY DEF Init, CopiedTogether
<1>7. EventsCarryTheirJob /\ ChannelsByKind
  BY <1>1 DEF EventsCarryTheirJob, ChannelsByKind
<1>8. WritersInTurn
  <2>1. up /\ \A v \in Writers : writer[v] = "running" => v = 1
    BY DEF Init
  <2>2. QED BY <1>3, <2>1 DEF WritersInTurn
<1>9. \A j \in Jobs : <<j, "status">> \in Channels
  OBVIOUS
<1>10. NoneAhead
  <2>1. ASSUME NEW j \in Jobs PROVE heard[j] = 0 /\ Reached(j) = 0
    BY DEF Init, Reached
  <2>2. ASSUME NEW j \in Jobs PROVE DOMAIN chan[<<j, "status">>] = {}
    BY <1>1, <1>9
  <2>3. QED BY <1>2, <1>3, <2>1, <2>2 DEF NoneAhead
<1>11. ChannelInOrder /\ QueueInOrder /\ TakenInOrder /\ HeardInOrder
  BY <1>1, <1>2, <1>3, <1>9 DEF Init, ChannelInOrder, QueueInOrder, TakenInOrder, HeardInOrder
<1>12. QED BY <1>4, <1>5, <1>6, <1>7, <1>8, <1>10, <1>11 DEF IInv

(* What the handler holds is open.                                           *)
LEMMA Open == HandlerFollowsJob /\ ClosedBehind => HandlerHoldsOpenChannels
  BY DEF HandlerFollowsJob, ClosedBehind, HandlerHoldsOpenChannels

(* A thread that has something to send has the channel and id of one job.    *)
LEMMA Pairs ==
    ASSUME TypeOK, CopiedTogether, NEW t \in Callbacks, snapshot[t] # <<None, None>>
    PROVE  /\ Copied(t)[1] = Copied(t)[2] /\ Copied(t)[1] \in Jobs
           /\ raised[t] \in 1..Copied(t)[1] /\ raised[t] \in Nat
<1>1. snapshot[t] \in (Jobs \cup {None}) \X (Jobs \cup {None})
  BY DEF TypeOK
<1>2. snapshot[t] = <<snapshot[t][1], snapshot[t][2]>> /\ snapshot[t][1] = snapshot[t][2]
  BY <1>1 DEF CopiedTogether
<1>3. raised[t] \in 1..snapshot[t][1]
  BY Zenon DEF CopiedTogether
<1>4. raised[t] \in Nat
  <2>1. raised \in [Callbacks -> Jobs \cup {None}]
    BY DEF TypeOK
  <2>2. QED BY <2>1
<1>5. QED BY <1>1, <1>2, <1>3, <1>4 DEF Copied

(* The channels after a safe send.                                           *)
LEMMA Sent ==
    ASSUME chan \in [Channels -> Seq(Events)], NEW c \in Channels, NEW m \in Events, SafeSend(c, m),
           \A d \in Channels : Len(chan[d]) <= Cap(d[2])
    PROVE  /\ chan' \in [Channels -> Seq(Events)]
           /\ \A d \in Channels : d # c => chan'[d] = chan[d]
           /\ Len(chan'[c]) <= Cap(c[2])
           /\ \A i \in DOMAIN chan'[c] : \/ i \in DOMAIN chan[c] /\ chan'[c][i] = chan[c][i]
                                         \/ i \notin DOMAIN chan[c] /\ chan'[c][i] = m
           /\ \A i, k \in DOMAIN chan'[c] : i < k => i \in DOMAIN chan[c]
<1>1. CASE chan' = chan
  <2>1. DOMAIN chan[c] = 1..Len(chan[c])
    BY LenProperties
  <2>2. QED BY <1>1
<1>2. CASE Len(chan[c]) < Cap(c[2]) /\ chan' = [chan EXCEPT ![c] = Append(@, m)]
  <2>1. chan[c] \in Seq(Events)
    OBVIOUS
  <2>2. /\ Append(chan[c], m) \in Seq(Events)
        /\ Len(Append(chan[c], m)) = Len(chan[c]) + 1 /\ Len(chan[c]) \in Nat
        /\ DOMAIN chan[c] = 1..Len(chan[c])
        /\ \A i \in DOMAIN chan[c] : Append(chan[c], m)[i] = chan[c][i]
        /\ Append(chan[c], m)[Len(chan[c]) + 1] = m
        /\ DOMAIN Append(chan[c], m) = 1..(Len(chan[c]) + 1)
        /\ \A i \in DOMAIN Append(chan[c], m) : i \in DOMAIN chan[c] \/ i = Len(chan[c]) + 1
    BY <2>1, Appended
  <2>3. /\ chan' \in [Channels -> Seq(Events)] /\ chan'[c] = Append(chan[c], m)
        /\ \A d \in Channels : d # c => chan'[d] = chan[d]
    BY <1>2, <2>2
  <2>4. Cap(c[2]) \in Nat
    BY DEF Cap
  <2>5. Len(chan'[c]) <= Cap(c[2])
    BY <1>2, <2>2, <2>3, <2>4
  <2>6. \A i, k \in DOMAIN chan'[c] : i < k => i \in DOMAIN chan[c]
    BY <2>2, <2>3
  <2>7. QED BY <2>2, <2>3, <2>5, <2>6
<1>3. QED BY <1>1, <1>2 DEF SafeSend

(* The channels after a receive.                                             *)
LEMMA Received ==
    ASSUME chan \in [Channels -> Seq(Events)], NEW c \in Channels, Forward(c),
           \A d \in Channels : Len(chan[d]) <= Cap(d[2])
    PROVE  /\ 1 \in DOMAIN chan[c] /\ chan[c][1] \in Events /\ Enqueue(chan[c][1])
           /\ chan' \in [Channels -> Seq(Events)]
           /\ \A d \in Channels : d # c => chan'[d] = chan[d]
           /\ Len(chan'[c]) <= Cap(c[2])
           /\ \A i \in DOMAIN chan'[c] :
                 i \in Nat \ {0} /\ i + 1 \in DOMAIN chan[c] /\ chan'[c][i] = chan[c][i + 1]
<1>1. /\ 1 \in DOMAIN chan[c] /\ Enqueue(chan[c][1])
      /\ chan' = [chan EXCEPT ![c] = RemoveAt(@, 1)]
  BY DEF Forward, Receivable
<1>2. chan[c] \in Seq(Events)
  OBVIOUS
<1>3. /\ RemoveAt(chan[c], 1) \in Seq(Events)
      /\ Len(RemoveAt(chan[c], 1)) = Len(chan[c]) - 1
      /\ \A i \in DOMAIN RemoveAt(chan[c], 1) :
            i \in Nat /\ i + 1 \in DOMAIN chan[c] /\ RemoveAt(chan[c], 1)[i] = chan[c][i + 1]
  BY <1>1, <1>2, Removed
<1>4. DOMAIN chan[c] = 1..Len(chan[c]) /\ Len(chan[c]) \in Nat /\ chan[c][1] \in Events
  BY <1>1, <1>2, LenProperties, ElementOfSeq
<1>5. /\ chan' \in [Channels -> Seq(Events)] /\ chan'[c] = RemoveAt(chan[c], 1)
      /\ \A d \in Channels : d # c => chan'[d] = chan[d]
  BY <1>1, <1>3
<1>6. Cap(c[2]) \in Nat /\ Len(chan[c]) <= Cap(c[2])
  BY DEF Cap
<1>7. Len(chan'[c]) <= Cap(c[2])
  BY <1>3, <1>4, <1>5, <1>6
<1>8. DOMAIN chan'[c] = 1..Len(chan'[c])
  BY <1>5, LenProperties
<1>9. QED BY <1>1, <1>3, <1>4, <1>5, <1>7, <1>8

(* A writer takes the oldest message of the queue.                           *)
LEMMA Taken ==
    ASSUME TypeOK, NEW w \in Writers, Take(w)
    PROVE  /\ 1 \in DOMAIN sendCh /\ sendCh[1] \in Events
           /\ held' = [held EXCEPT ![w] = <<sendCh[1]>>]
           /\ sendCh' \in Seq(Events) /\ Len(sendCh') <= QueueCap
           /\ \A p \in DOMAIN sendCh' :
                 p \in Nat \ {0} /\ p + 1 \in DOMAIN sendCh /\ sendCh'[p] = sendCh[p + 1]
<1>1. /\ sendCh \in Seq(Events) /\ Len(sendCh) \in Nat /\ DOMAIN sendCh = 1..Len(sendCh)
      /\ sendCh # <<>> /\ Len(sendCh) <= QueueCap
  BY LenProperties DEF TypeOK, Take
<1>2. /\ Head(sendCh) \in Events /\ sendCh' \in Seq(Events)
      /\ Len(sendCh') = Len(sendCh) - 1
      /\ \A p \in 1..Len(sendCh') : sendCh'[p] = sendCh[p + 1]
  BY <1>1, HeadTailProperties DEF Take
<1>3. 1 \in DOMAIN sendCh /\ Head(sendCh) = sendCh[1]
  <2>1. Len(sendCh) # 0
    BY <1>1, EmptySeq
  <2>2. QED BY <1>1, <2>1
<1>4. DOMAIN sendCh' = 1..Len(sendCh')
  BY <1>2, LenProperties
<1>5. \A p \in DOMAIN sendCh' : p \in Nat \ {0} /\ p + 1 \in DOMAIN sendCh /\ sendCh'[p] = sendCh[p + 1]
  BY <1>1, <1>2, <1>4
<1>6. Len(sendCh') <= QueueCap
  BY <1>1, <1>2
<1>7. held' = [held EXCEPT ![w] = <<sendCh[1]>>]
  BY <1>3 DEF Take
<1>8. QED BY <1>2, <1>3, <1>5, <1>6, <1>7

(* What the server hears when a writer writes.                               *)
LEMMA Written ==
    ASSUME TypeOK, NEW w \in Writers, WriteMessage(w)
    PROVE  /\ held[w] # <<>> /\ 1 \in DOMAIN held[w] /\ held[w][1] \in Events
           /\ held' = [held EXCEPT ![w] = <<>>]
           /\ heard' \in [Jobs -> Nat]
           /\ \A j \in Jobs : \/ heard'[j] = heard[j]
                              \/ StatusOf(held[w][1], j) /\ heard'[j] = held[w][1].n
<1>1. held[w] \in Seq(Events) /\ Len(held[w]) <= 1 /\ held[w] # <<>>
  BY DEF TypeOK, WriteMessage
<1>2. Head(held[w]) = held[w][1] /\ held[w][1] \in Events /\ 1 \in DOMAIN held[w]
  BY <1>1, Holding
<1> DEFINE m == held[w][1]
<1>3. m.job \in Jobs /\ m.n \in Nat
  BY <1>2 DEF Events
<1>4. \/ heard' = heard
      \/ heard' = [heard EXCEPT ![m.job] = Heard(@, m)]
  BY <1>2 DEF WriteMessage
<1>5. heard \in [Jobs -> Nat]
  BY DEF TypeOK
<1> HIDE DEF m
<1>6. Heard(heard[m.job], m) \in Nat
  BY <1>3, <1>5 DEF Heard
<1>7. heard' \in [Jobs -> Nat]
  BY <1>3, <1>4, <1>5, <1>6
<1>8. ASSUME NEW j \in Jobs
      PROVE  heard'[j] = heard[j] \/ (StatusOf(m, j) /\ heard'[j] = m.n)
  <2>1. CASE heard' = heard
    BY <2>1
  <2>2. CASE heard' = [heard EXCEPT ![m.job] = Heard(@, m)]
    <3>1. CASE j = m.job
      BY <1>3, <1>5, <2>2, <3>1 DEF Heard, StatusOf
    <3>2. CASE j # m.job
      BY <1>3, <1>5, <2>2, <3>2
    <3>3. QED BY <3>1, <3>2
  <2>3. QED BY <1>4, <2>1, <2>2
<1>9. held' = [held EXCEPT ![w] = <<>>]
  BY DEF WriteMessage
<1>10. QED BY <1>1, <1>2, <1>7, <1>8, <1>9 DEF m

LEMMA NextTypeOK ==
    ASSUME TypeOK, HandlerFollowsJob, CopiedTogether, WritersInTurn, [Next]_vars
    PROVE  TypeOK'
<1> DEFINE Rest == /\ job \in 1..(NumJobs + 1) /\ owing \subseteq Jobs
                   /\ item \in Nat /\ logs \in 0..MaxLogs
                   /\ pc \in {"idle", "setup", "loop", "clear", "close", "report"}
                   /\ handler \in Jobs \cup {None}
                   /\ closed \subseteq Channels
                   /\ forwarder \in [Channels -> {"none", "ranging", "ended"}]
                   /\ raised \in [Callbacks -> Jobs \cup {None}]
                   /\ snapshot \in [Callbacks -> (Jobs \cup {None}) \X (Jobs \cup {None})]
           Buffers == /\ chan \in [Channels -> Seq(Events)]
                      /\ \A c \in Channels : Len(chan[c]) <= Cap(c[2])
           Queue == sendCh \in Seq(Events) /\ Len(sendCh) <= QueueCap
           Flags == up \in BOOLEAN /\ crowded \in BOOLEAN
           Lines == conns \in Writers /\ writer \in [Writers -> {"none", "running", "ended"}]
           Hands == held \in [Writers -> Seq(Events)] /\ \A w \in Writers : Len(held[w]) <= 1
           History == heard \in [Jobs -> Nat]
           Wire == Flags /\ Lines /\ Hands /\ History
<1>1. TypeOK <=> Rest /\ Buffers /\ Queue /\ Wire
  BY DEF TypeOK
<1>2. TypeOK' <=> Rest' /\ Buffers' /\ Queue' /\ Wire'
  BY DEF TypeOK
<1>3. ASSUME UNCHANGED wireVars PROVE Wire'
  BY <1>1, <1>3 DEF Wire
<1>4. ASSUME UNCHANGED taskVars, UNCHANGED eventVars PROVE Rest' /\ Buffers'
  BY <1>1, <1>4 DEF Rest, Buffers
<1> HIDE DEF Buffers, Queue, Flags, Lines, Hands, History, Wire, Rest
<1>5. CASE StartJob
  <2>1. Event(job, "status", 0) \in Events
    BY <1>5, EventOK DEF StartJob
  <2>2. Queue'
    BY <1>1, <1>5, <2>1, Enqueued DEF StartJob, Queue
  <2>3. Rest'
    BY <1>1, <1>5 DEF StartJob, Rest
  <2>4. UNCHANGED <<chan, wireVars>>
    BY <1>5 DEF StartJob
  <2>5. QED BY <1>1, <1>2, <1>3, <2>2, <2>3, <2>4 DEF Buffers
<1>6. CASE SetChannels \/ LeaveLoop \/ ClearEventChannels \/ CloseChannels \/ ClearCurrentJob
  <2>1. UNCHANGED <<chan, sendCh, wireVars>>
    BY <1>6 DEF SetChannels, LeaveLoop, ClearEventChannels, CloseChannels, ClearCurrentJob
  <2>2. Rest'
    <3>1. CASE SetChannels
      BY <1>1, <3>1 DEF SetChannels, HandlerFollowsJob, Rest
    <3>2. CASE LeaveLoop \/ ClearEventChannels
      BY <1>1, <3>2 DEF LeaveLoop, ClearEventChannels, Rest
    <3>3. CASE CloseChannels
      BY <1>1, <3>3 DEF CloseChannels, HandlerFollowsJob, Rest
    <3>4. CASE ClearCurrentJob
      <4>1. job \in Jobs /\ job' = job + 1 /\ owing' = owing \cup {job} /\ pc' = "idle"
        BY <1>1, <3>4 DEF ClearCurrentJob, HandlerFollowsJob, Rest
      <4>2. job' \in 1..(NumJobs + 1)
        BY <4>1
      <4>3. UNCHANGED <<item, logs, handler, closed, forwarder, raised, snapshot>>
        BY <3>4 DEF ClearCurrentJob
      <4>4. QED BY <1>1, <4>1, <4>2, <4>3 DEF Rest
    <3>5. QED BY <1>6, <3>1, <3>2, <3>3, <3>4
  <2>3. QED BY <1>1, <1>2, <1>3, <2>1, <2>2 DEF Buffers, Queue
<1>7. CASE SendStatus
  <2>1. UNCHANGED <<sendCh, wireVars>>
    BY <1>7 DEF SendStatus
  <2>2. Rest'
    BY <1>1, <1>7 DEF SendStatus, Rest
  <2>3. Buffers'
    <3>1. CASE handler = None
      BY <1>1, <1>7, <3>1 DEF SendStatus, Buffers
    <3>2. CASE handler # None
      <4>1. /\ SafeSend(<<handler, "status">>, Event(handler, "status", item))
            /\ handler \in Jobs /\ item \in Nat
        BY <1>1, <1>7, <3>2 DEF SendStatus, Rest
      <4>2. <<handler, "status">> \in Channels /\ Event(handler, "status", item) \in Events
        BY <4>1, EventOK
      <4>3. QED BY <1>1, <4>1, <4>2, Sent DEF Buffers
    <3>3. QED BY <3>1, <3>2
  <2>4. QED BY <1>1, <1>2, <1>3, <2>1, <2>2, <2>3 DEF Queue
<1>8. ASSUME NEW j \in Jobs, SendTaskCompleted(j) PROVE TypeOK'
  <2>1. Event(j, "completed", 0) \in Events
    BY EventOK
  <2>2. Queue'
    BY <1>1, <1>8, <2>1, Enqueued DEF SendTaskCompleted, Queue
  <2>3. Rest'
    BY <1>1, <1>8 DEF SendTaskCompleted, Rest
  <2>4. UNCHANGED <<chan, wireVars>>
    BY <1>8 DEF SendTaskCompleted
  <2>5. QED BY <1>1, <1>2, <1>3, <2>2, <2>3, <2>4 DEF Buffers
<1>9. ASSUME NEW t \in Callbacks, Raise(t) PROVE TypeOK'
  <2>1. UNCHANGED <<chan, sendCh, wireVars>>
    BY <1>9 DEF Raise
  <2>2. Rest'
    <3>1. job \in Jobs
      BY <1>1, <1>9 DEF Raise, HandlerFollowsJob
    <3>2. raised' \in [Callbacks -> Jobs \cup {None}] /\ logs' \in 0..MaxLogs
      BY <1>1, <1>9, <3>1 DEF Raise, Rest
    <3>3. UNCHANGED <<taskVars, forwarder, snapshot>>
      BY <1>9 DEF Raise
    <3>4. QED BY <1>1, <3>2, <3>3 DEF Rest
  <2>3. QED BY <1>1, <1>2, <1>3, <2>1, <2>2 DEF Buffers, Queue
<1>10. ASSUME NEW t \in Callbacks, Notice(t) PROVE TypeOK'
  <2>1. UNCHANGED <<chan, sendCh, wireVars>>
    BY <1>10 DEF Notice
  <2>2. Rest'
    <3>1. CASE handler = None
      BY <1>1, <1>10, <3>1 DEF Notice, Rest
    <3>2. CASE handler # None
      <4>1. UNCHANGED <<taskVars, forwarder, raised, logs>>
            /\ snapshot' = [snapshot EXCEPT ![t] = <<handler, handler>>]
        BY <1>10, <3>2 DEF Notice
      <4>2. <<handler, handler>> \in (Jobs \cup {None}) \X (Jobs \cup {None})
        BY <1>1 DEF Rest
      <4>3. snapshot' \in [Callbacks -> (Jobs \cup {None}) \X (Jobs \cup {None})]
        BY <1>1, <4>1, <4>2 DEF Rest
      <4>4. QED BY <1>1, <4>1, <4>3 DEF Rest
    <3>3. QED BY <3>1, <3>2
  <2>3. QED BY <1>1, <1>2, <1>3, <2>1, <2>2 DEF Buffers, Queue
<1>11. ASSUME NEW t \in Callbacks, SendLog(t) PROVE TypeOK'
  <2>1. UNCHANGED <<sendCh, wireVars>>
    BY <1>11 DEF SendLog
  <2>2. Rest'
    BY <1>1, <1>11 DEF SendLog, Rest
  <2>3. Buffers'
    <3>1. Copied(t)[1] \in Jobs /\ Copied(t)[2] \in Jobs /\ raised[t] \in Nat
      BY <1>1, <1>11, Pairs DEF SendLog
    <3>2. <<Copied(t)[1], "log">> \in Channels /\ Event(Copied(t)[2], "log", raised[t]) \in Events
      BY <3>1, EventOK
    <3>3. QED BY <1>1, <1>11, <3>2, Sent DEF SendLog, Buffers
  <2>4. QED BY <1>1, <1>2, <1>3, <2>1, <2>2, <2>3 DEF Queue
<1>12. ASSUME NEW c \in Channels, Forward(c) PROVE TypeOK'
  <2>1. UNCHANGED wireVars
    BY <1>12 DEF Forward
  <2>2. Rest'
    BY <1>1, <1>12 DEF Forward, Rest
  <2>3. Buffers' /\ Enqueue(chan[c][1]) /\ chan[c][1] \in Events
    BY <1>1, <1>12, Received DEF Buffers
  <2>4. Queue'
    BY <1>1, <2>3, Enqueued DEF Queue
  <2>5. QED BY <1>1, <1>2, <1>3, <2>1, <2>2, <2>3, <2>4
<1>13. ASSUME NEW c \in Channels, EndForward(c) PROVE TypeOK'
  <2>1. UNCHANGED <<chan, sendCh, wireVars>>
    BY <1>13 DEF EndForward
  <2>2. Rest'
    BY <1>1, <1>13 DEF EndForward, Rest
  <2>3. QED BY <1>1, <1>2, <1>3, <2>1, <2>2 DEF Buffers, Queue
<1>14. CASE Lose \/ Reconnect
  <2>1. UNCHANGED <<taskVars, eventVars, sendCh, held, heard>>
    BY <1>14 DEF Lose, Reconnect
  <2>2. Lines'
    <3>1. CASE Lose
      BY <1>1, <3>1 DEF Lose, Lines, Wire
    <3>2. CASE Reconnect
      <4>1. conns \in Writers /\ conns <= MaxLosses /\ conns' = conns + 1
        BY <1>1, <3>2 DEF Reconnect, WritersInTurn, Wire, Lines
      <4>2. conns + 1 \in Writers
        BY <4>1
      <4>3. writer' = [writer EXCEPT ![conns + 1] = "running"]
        BY <3>2 DEF Reconnect
      <4>4. QED BY <1>1, <4>1, <4>2, <4>3 DEF Lines, Wire
    <3>3. QED BY <1>14, <3>1, <3>2
  <2>3. Flags'
    <3>1. CASE Lose
      BY <1>1, <3>1 DEF Lose, Flags, Wire
    <3>2. CASE Reconnect
      <4>1. up' \in BOOLEAN
        BY <3>2 DEF Reconnect
      <4>2. crowded' \in BOOLEAN
        BY <3>2, Zenon DEF Reconnect
      <4>3. QED BY <4>1, <4>2 DEF Flags
    <3>3. QED BY <1>14, <3>1, <3>2
  <2>4. Hands' /\ History' /\ Queue'
    BY <1>1, <2>1 DEF Hands, History, Queue, Wire
  <2>5. Rest' /\ Buffers'
    BY <1>4, <2>1
  <2>6. QED BY <1>2, <2>2, <2>3, <2>4, <2>5 DEF Wire
<1>15. ASSUME NEW w \in Writers, Take(w) PROVE TypeOK'
  <2>1. UNCHANGED <<taskVars, eventVars, up, conns, writer, crowded, heard>>
    BY <1>15 DEF Take
  <2>2. Queue' /\ held' = [held EXCEPT ![w] = <<sendCh[1]>>] /\ sendCh[1] \in Events
    BY <1>15, Taken DEF Queue
  <2>3. <<sendCh[1]>> \in Seq(Events) /\ Len(<<sendCh[1]>>) = 1
    BY <2>2
  <2>4. Hands'
    BY <1>1, <2>2, <2>3 DEF Hands, Wire
  <2>5. Flags' /\ Lines' /\ History'
    BY <1>1, <2>1 DEF Flags, Lines, History, Wire
  <2>6. Rest' /\ Buffers'
    BY <1>4, <2>1
  <2>7. QED BY <1>2, <2>2, <2>4, <2>5, <2>6 DEF Wire
<1>16. ASSUME NEW w \in Writers, WriteMessage(w) PROVE TypeOK'
  <2>1. UNCHANGED <<taskVars, eventVars, sendCh, up, conns, crowded>>
    BY <1>16 DEF WriteMessage
  <2>2. History' /\ held' = [held EXCEPT ![w] = <<>>]
    BY <1>16, Written DEF History
  <2>3. <<>> \in Seq(Events) /\ Len(<<>>) = 0
    BY EmptySeq
  <2>4. Hands'
    BY <1>1, <2>2, <2>3 DEF Hands, Wire
  <2>5. writer' = writer \/ writer' = [writer EXCEPT ![w] = "ended"]
    BY <1>16 DEF WriteMessage
  <2>6. Lines' /\ Flags'
    BY <1>1, <2>1, <2>5 DEF Lines, Flags, Wire
  <2>7. Queue'
    BY <1>1, <2>1 DEF Queue
  <2>8. Rest' /\ Buffers'
    BY <1>4, <2>1
  <2>9. QED BY <1>2, <2>2, <2>4, <2>6, <2>7, <2>8 DEF Wire
<1>17. CASE UNCHANGED vars
  BY <1>1, <1>2, <1>3, <1>4, <1>17 DEF Queue
<1>18. QED
  BY <1>5, <1>6, <1>7, <1>8, <1>9, <1>10, <1>11, <1>12, <1>13, <1>14, <1>15, <1>16, <1>17
     DEF Next, ExecuteTask, Write, Terminated

LEMMA NextHandlerFollowsJob ==
    ASSUME TypeOK, HandlerFollowsJob, [Next]_vars
    PROVE  HandlerFollowsJob'
<1>1. CASE UNCHANGED <<job, pc, item, handler>>
  BY <1>1 DEF HandlerFollowsJob
<1>2. CASE StartJob \/ LeaveLoop \/ ClearEventChannels \/ CloseChannels \/ ClearCurrentJob
  BY <1>2 DEF StartJob, LeaveLoop, ClearEventChannels, CloseChannels, ClearCurrentJob,
              HandlerFollowsJob
<1>3. CASE SetChannels
  <2>1. job \in Jobs
    BY <1>3 DEF SetChannels, HandlerFollowsJob
  <2>2. Items[job] \in Nat
    BY <2>1
  <2>3. QED BY <1>3, <2>1, <2>2 DEF SetChannels, HandlerFollowsJob
<1>4. CASE SendStatus
  <2>1. job \in Jobs
    BY <1>4 DEF SendStatus, HandlerFollowsJob
  <2>2. Items[job] \in Nat /\ item \in Nat
    BY <2>1 DEF TypeOK
  <2>3. QED BY <1>4, <2>1, <2>2 DEF SendStatus, HandlerFollowsJob
<1>5. QED
  BY <1>1, <1>2, <1>3, <1>4
     DEF Next, ExecuteTask, SendTaskCompleted, Raise, Notice, SendLog, Forward, EndForward, Lose,
         Reconnect, Write, Take, WriteMessage, Terminated

LEMMA NextBehind ==
    ASSUME TypeOK, HandlerFollowsJob, ClosedBehind, OwedBehind, [Next]_vars
    PROVE  ClosedBehind' /\ OwedBehind'
<1>1. job \in Int /\ owing \subseteq Jobs
  BY DEF TypeOK
<1>2. CASE UNCHANGED <<job, pc, closed, owing>>
  BY <1>2 DEF ClosedBehind, OwedBehind
<1>3. CASE StartJob \/ SetChannels \/ LeaveLoop \/ ClearEventChannels
  BY <1>3 DEF StartJob, SetChannels, LeaveLoop, ClearEventChannels, ClosedBehind, OwedBehind
<1>4. CASE CloseChannels
  BY <1>4 DEF CloseChannels, ClosedBehind, OwedBehind
<1>5. CASE ClearCurrentJob
  <2>1. closed \subseteq Channels
    BY DEF TypeOK
  <2>2. \A c \in closed : c[1] \in Int
    BY <2>1
  <2>3. ClosedBehind'
    BY <1>1, <1>5, <2>2 DEF ClearCurrentJob, ClosedBehind
  <2>4. OwedBehind'
    BY <1>1, <1>5 DEF ClearCurrentJob, OwedBehind
  <2>5. QED BY <2>3, <2>4
<1>6. ASSUME NEW j \in Jobs, SendTaskCompleted(j) PROVE ClosedBehind' /\ OwedBehind'
  BY <1>6 DEF SendTaskCompleted, ClosedBehind, OwedBehind
<1>7. QED
  BY <1>2, <1>3, <1>4, <1>5, <1>6
     DEF Next, ExecuteTask, SendStatus, Raise, Notice, SendLog, Forward, EndForward, Lose,
         Reconnect, Write, Take, WriteMessage, Terminated

LEMMA NextCopiedTogether ==
    ASSUME TypeOK, HandlerFollowsJob, CopiedTogether, [Next]_vars
    PROVE  CopiedTogether'
<1> DEFINE OK(t) == /\ snapshot[t][1] = snapshot[t][2]
                    /\ raised[t] <= job
                    /\ snapshot[t] # <<None, None>> => raised[t] \in 1..snapshot[t][1]
<1>1. job \in Nat /\ \A t \in Callbacks : OK(t) /\ raised[t] \in Nat
  <2>1. \A t \in Callbacks : OK(t)
    BY Zenon DEF CopiedTogether
  <2>2. job \in Nat /\ \A t \in Callbacks : raised[t] \in Nat
    BY DEF TypeOK
  <2>3. QED BY <2>1, <2>2
<1>2. /\ raised \in [Callbacks -> Jobs \cup {None}]
      /\ snapshot \in [Callbacks -> (Jobs \cup {None}) \X (Jobs \cup {None})]
  BY DEF TypeOK
<1>3. CASE UNCHANGED <<snapshot, raised, job>>
  BY <1>3 DEF CopiedTogether
<1>4. CASE ClearCurrentJob
  <2>1. UNCHANGED <<snapshot, raised>> /\ job' = job + 1
    BY <1>4 DEF ClearCurrentJob
  <2>2. QED BY <1>1, <2>1 DEF CopiedTogether
<1>5. ASSUME NEW t \in Callbacks, \/ Raise(t) \/ Notice(t) \/ SendLog(t)
      PROVE  CopiedTogether'
  <2>1. job' = job /\ \A s \in Callbacks : s # t => snapshot'[s] = snapshot[s] /\ raised'[s] = raised[s]
    BY <1>2, <1>5 DEF Raise, Notice, SendLog
  <2>2. CASE Raise(t)
    <3>1. raised'[t] = job /\ snapshot' = snapshot /\ raised[t] = None
      BY <1>2, <2>2 DEF Raise
    <3>2. snapshot[t] = <<None, None>>
      BY <1>1, <3>1
    <3>3. OK(t)'
      BY <1>1, <2>1, <3>1, <3>2
    <3>4. QED BY <1>1, <2>1, <3>3 DEF CopiedTogether
  <2>3. CASE Notice(t)
    <3>1. CASE handler = None
      <4>1. raised'[t] = None /\ snapshot'[t] = <<None, None>>
        BY <1>2, <2>3, <3>1 DEF Notice
      <4>2. OK(t)'
        BY <1>1, <2>1, <4>1
      <4>3. QED BY <1>1, <2>1, <4>2 DEF CopiedTogether
    <3>2. CASE handler # None
      <4>1. /\ raised'[t] = raised[t] /\ raised[t] # None /\ snapshot'[t] = <<handler, handler>>
            /\ handler = job
        BY <1>2, <2>3, <3>2 DEF Notice, HandlerFollowsJob
      <4>2. OK(t)'
        BY <1>1, <2>1, <4>1
      <4>3. QED BY <1>1, <2>1, <4>2 DEF CopiedTogether
    <3>3. QED BY <3>1, <3>2
  <2>4. CASE SendLog(t)
    <3>1. raised'[t] = None /\ snapshot'[t] = <<None, None>>
      BY <1>2, <2>4 DEF SendLog
    <3>2. OK(t)'
      BY <1>1, <2>1, <3>1
    <3>3. QED BY <1>1, <2>1, <3>2 DEF CopiedTogether
  <2>5. QED BY <1>5, <2>2, <2>3, <2>4
<1>6. QED
  BY <1>3, <1>4, <1>5
     DEF Next, StartJob, ExecuteTask, SetChannels, SendStatus, LeaveLoop, ClearEventChannels,
         CloseChannels, SendTaskCompleted, Forward, EndForward, Lose, Reconnect, Write, Take,
         WriteMessage, Terminated

(* Whatever is put into a channel is of its job and kind: the channel and    *)
(* the id of a late callback are those of one job.                           *)
LEMMA NextChannels ==
    ASSUME TypeOK, HandlerFollowsJob, CopiedTogether, EventsCarryTheirJob, ChannelsByKind,
           [Next]_vars
    PROVE  EventsCarryTheirJob' /\ ChannelsByKind'
<1>1. /\ chan \in [Channels -> Seq(Events)]
      /\ \A d \in Channels : Len(chan[d]) <= Cap(d[2])
  BY DEF TypeOK
<1>2. CASE UNCHANGED chan
  BY <1>2 DEF EventsCarryTheirJob, ChannelsByKind
<1>3. ASSUME NEW c \in Channels, NEW m \in Events, m.job = c[1], m.kind = c[2],
             m.kind = "log" => m.n \in 1..c[1], SafeSend(c, m)
      PROVE  EventsCarryTheirJob' /\ ChannelsByKind'
  <2>1. /\ \A d \in Channels : d # c => chan'[d] = chan[d]
        /\ \A i \in DOMAIN chan'[c] : \/ i \in DOMAIN chan[c] /\ chan'[c][i] = chan[c][i]
                                      \/ i \notin DOMAIN chan[c] /\ chan'[c][i] = m
    BY <1>1, <1>3, Sent
  <2> DEFINE Fits(e, d) == e.job = d[1] /\ e.kind = d[2] /\ (e.kind = "log" => e.n \in 1..d[1])
  <2>2. \A d \in Channels : \A i \in DOMAIN chan[d] : Fits(chan[d][i], d)
    BY DEF EventsCarryTheirJob, ChannelsByKind
  <2>3. Fits(m, c)
    BY <1>3
  <2> HIDE DEF Fits
  <2>4. ASSUME NEW d \in Channels, NEW i \in DOMAIN chan'[d] PROVE Fits(chan'[d][i], d)
    BY <2>1, <2>2, <2>3
  <2>5. QED BY <2>4 DEF Fits, EventsCarryTheirJob, ChannelsByKind
<1>4. CASE SendStatus
  <2>1. CASE handler = None
    BY <1>2, <1>4, <2>1 DEF SendStatus
  <2>2. CASE handler # None
    <3>1. /\ SafeSend(<<handler, "status">>, Event(handler, "status", item))
          /\ handler \in Jobs /\ item \in Nat
      BY <1>4, <2>2 DEF SendStatus, TypeOK
    <3> DEFINE m == Event(handler, "status", item)
               c == <<handler, "status">>
    <3>2. m \in Events /\ c \in Channels /\ m.job = c[1] /\ m.kind = c[2] /\ m.kind # "log"
      BY <3>1, EventOK
    <3> HIDE DEF m, c
    <3>3. SafeSend(c, m)
      BY <3>1 DEF m, c
    <3>4. QED BY <1>3, <3>2, <3>3
  <2>3. QED BY <2>1, <2>2
<1>5. ASSUME NEW t \in Callbacks, SendLog(t) PROVE EventsCarryTheirJob' /\ ChannelsByKind'
  <2>1. /\ Copied(t)[1] \in Jobs /\ Copied(t)[2] = Copied(t)[1]
        /\ raised[t] \in 1..Copied(t)[1] /\ raised[t] \in Nat
    BY <1>5, Pairs DEF SendLog
  <2>2. SafeSend(<<Copied(t)[1], "log">>, Event(Copied(t)[1], "log", raised[t]))
    BY <1>5, <2>1 DEF SendLog
  <2> DEFINE m == Event(Copied(t)[1], "log", raised[t])
             c == <<Copied(t)[1], "log">>
  <2>3. m \in Events /\ c \in Channels /\ m.job = c[1] /\ m.kind = c[2] /\ m.n \in 1..c[1]
    BY <2>1, EventOK
  <2> HIDE DEF m, c
  <2>4. SafeSend(c, m)
    BY <2>2 DEF m, c
  <2>5. QED BY <1>3, <2>3, <2>4
<1>6. ASSUME NEW c \in Channels, Forward(c) PROVE EventsCarryTheirJob' /\ ChannelsByKind'
  <2>1. /\ \A d \in Channels : d # c => chan'[d] = chan[d]
        /\ \A i \in DOMAIN chan'[c] : i + 1 \in DOMAIN chan[c] /\ chan'[c][i] = chan[c][i + 1]
    BY <1>1, <1>6, Received
  <2>2. QED BY <2>1 DEF EventsCarryTheirJob, ChannelsByKind
<1>7. QED
  BY <1>2, <1>4, <1>5, <1>6
     DEF Next, StartJob, ExecuteTask, SetChannels, LeaveLoop, ClearEventChannels, CloseChannels,
         ClearCurrentJob, SendTaskCompleted, Raise, Notice, EndForward, Lose, Reconnect, Write,
         Take, WriteMessage, Terminated

(* Only Reconnect starts a writer, and it records whether another still runs. *)
LEMMA NextWritersInTurn ==
    ASSUME TypeOK, WritersInTurn, [Next]_vars
    PROVE  WritersInTurn'
<1> DEFINE Alone == ~crowded => \A v, w \in Writers :
                        writer[v] = "running" /\ writer[w] = "running" => v = w
           Busy == \A w \in Writers : held[w] # <<>> => writer[w] = "running"
<1>1. /\ writer \in [Writers -> {"none", "running", "ended"}] /\ conns \in Writers
      /\ held \in [Writers -> Seq(Events)]
  BY DEF TypeOK
<1>2. CASE UNCHANGED <<up, conns, writer, held, crowded>>
  BY <1>2 DEF WritersInTurn
<1>3. CASE Lose
  BY <1>3 DEF Lose, WritersInTurn
<1>4. CASE Reconnect
  <2>1. /\ up' = TRUE /\ writer' = [writer EXCEPT ![conns + 1] = "running"] /\ held' = held
        /\ crowded' = (crowded \/ \E w \in Writers : writer[w] = "running")
    BY <1>4 DEF Reconnect
  <2>2. Busy'
    BY <1>1, <2>1 DEF WritersInTurn
  <2>3. Alone'
    <3> SUFFICES ASSUME ~crowded', NEW v \in Writers, NEW w \in Writers,
                        writer'[v] = "running", writer'[w] = "running"
                 PROVE  v = w
      OBVIOUS
    <3>1. \A u \in Writers : writer[u] # "running"
      BY <2>1, Zenon
    <3>2. v = conns + 1 /\ w = conns + 1
      BY <1>1, <2>1, <3>1
    <3>3. QED BY <3>2
  <2>4. QED BY <2>1, <2>2, <2>3 DEF WritersInTurn
<1>5. ASSUME NEW w \in Writers, Take(w) PROVE WritersInTurn'
  <2>1. /\ writer[w] = "running" /\ held' = [held EXCEPT ![w] = <<Head(sendCh)>>]
        /\ UNCHANGED <<up, conns, writer, crowded>>
    BY <1>5 DEF Take
  <2>2. Busy'
    BY <1>1, <2>1 DEF WritersInTurn
  <2>3. QED BY <2>1, <2>2 DEF WritersInTurn
<1>6. ASSUME NEW w \in Writers, WriteMessage(w) PROVE WritersInTurn'
  <2>1. /\ held' = [held EXCEPT ![w] = <<>>]
        /\ writer' = writer \/ writer' = [writer EXCEPT ![w] = "ended"]
        /\ UNCHANGED <<up, conns, crowded>>
    BY <1>6 DEF WriteMessage
  <2>2. Busy'
    BY <1>1, <2>1 DEF WritersInTurn
  <2>3. Alone'
    BY <1>1, <2>1 DEF WritersInTurn
  <2>4. QED BY <2>1, <2>2, <2>3 DEF WritersInTurn
<1>7. QED
  BY <1>2, <1>3, <1>4, <1>5, <1>6
     DEF Next, StartJob, ExecuteTask, SetChannels, SendStatus, LeaveLoop, ClearEventChannels,
         CloseChannels, ClearCurrentJob, SendTaskCompleted, Raise, Notice, SendLog, Forward,
         EndForward, Write, Terminated

(* What the order of a job's progress compares are numbers.                  *)
LEMMA Numbers ==
    ASSUME TypeOK
    PROVE  /\ \A p \in DOMAIN sendCh : sendCh[p] \in Events /\ sendCh[p].n \in Nat /\ p \in Nat
           /\ \A w \in Writers : \A h \in DOMAIN held[w] : held[w][h].n \in Nat
           /\ \A j \in Jobs : /\ heard[j] \in Nat /\ Reached(j) \in Nat
                              /\ \A i \in DOMAIN chan[<<j, "status">>] :
                                    chan[<<j, "status">>][i].n \in Nat /\ i \in Nat
<1>1. \A e \in Events : e.n \in Nat
  BY DEF Events
<1>2. \A p \in DOMAIN sendCh : sendCh[p] \in Events /\ p \in Nat
  BY LenProperties, ElementOfSeq DEF TypeOK
<1>3. ASSUME NEW w \in Writers, NEW h \in DOMAIN held[w] PROVE held[w][h].n \in Nat
  <2>1. held[w] \in Seq(Events)
    BY DEF TypeOK
  <2>2. held[w][h] \in Events
    BY <2>1, LenProperties, ElementOfSeq
  <2>3. QED BY <1>1, <2>2
<1>4. ASSUME NEW j \in Jobs
      PROVE  /\ heard[j] \in Nat /\ Reached(j) \in Nat
             /\ \A i \in DOMAIN chan[<<j, "status">>] :
                   chan[<<j, "status">>][i].n \in Nat /\ i \in Nat
  <2>1. chan[<<j, "status">>] \in Seq(Events)
    BY DEF TypeOK
  <2>2. heard[j] \in Nat /\ item \in Nat
    BY DEF TypeOK
  <2>3. Reached(j) \in Nat
    BY <2>2 DEF Reached
  <2>4. \A i \in DOMAIN chan[<<j, "status">>] : chan[<<j, "status">>][i] \in Events /\ i \in Nat
    BY <2>1, LenProperties, ElementOfSeq
  <2>5. QED BY <1>1, <2>2, <2>3, <2>4
<1>5. QED BY <1>1, <1>2, <1>3, <1>4

(* How far a job can have been said to be never goes back.                   *)
LEMMA ReachedGrows ==
    ASSUME TypeOK, HandlerFollowsJob, [Next]_vars, NEW j \in Jobs
    PROVE  Reached(j) <= Reached(j)' /\ Reached(j)' \in Nat /\ Reached(j) \in Nat
<1>1. item \in Nat /\ Items[j] \in Nat /\ job \in Nat /\ j \in Nat
  <2>1. item \in Nat /\ job \in Nat
    BY DEF TypeOK
  <2>2. QED BY <2>1
<1>2. CASE UNCHANGED <<job, pc, item>>
  BY <1>1, <1>2 DEF Reached
<1>3. CASE StartJob
  BY <1>1, <1>3 DEF StartJob, Reached
<1>4. CASE SetChannels
  BY <1>1, <1>4 DEF SetChannels, Reached
<1>5. CASE SendStatus
  BY <1>1, <1>5 DEF SendStatus, Reached
<1>6. CASE LeaveLoop
  <2>1. job = j => item <= Items[j]
    BY <1>6 DEF LeaveLoop, HandlerFollowsJob
  <2>2. QED BY <1>1, <1>6, <2>1 DEF LeaveLoop, Reached
<1>7. CASE ClearEventChannels
  BY <1>1, <1>7 DEF ClearEventChannels, Reached
<1>8. CASE CloseChannels
  BY <1>1, <1>8 DEF CloseChannels, Reached
<1>9. CASE ClearCurrentJob
  BY <1>1, <1>9 DEF ClearCurrentJob, Reached
<1>10. QED
  BY <1>2, <1>3, <1>4, <1>5, <1>6, <1>7, <1>8, <1>9
     DEF Next, ExecuteTask, SendTaskCompleted, Raise, Notice, SendLog, Forward, EndForward, Lose,
         Reconnect, Write, Take, WriteMessage, Terminated

(* The queue after Send, as the order of progress sees it.                   *)
LEMMA QueueAfter ==
    ASSUME TypeOK, NEW m \in Events, Enqueue(m)
    PROVE  /\ \A p \in DOMAIN sendCh' : \/ p \in DOMAIN sendCh /\ sendCh'[p] = sendCh[p]
                                        \/ p \notin DOMAIN sendCh /\ sendCh'[p] = m
           /\ \A p, q \in DOMAIN sendCh' : p < q => p \in DOMAIN sendCh
<1>1. \/ sendCh' = sendCh
      \/ /\ \A p \in DOMAIN sendCh' : \/ p \in DOMAIN sendCh /\ sendCh'[p] = sendCh[p]
                                      \/ p \notin DOMAIN sendCh /\ sendCh'[p] = m
         /\ \A p, q \in DOMAIN sendCh' : p < q => p \in DOMAIN sendCh
  BY Enqueued DEF TypeOK
<1>2. QED BY <1>1

Ordered == NoneAhead /\ ChannelInOrder /\ QueueInOrder /\ TakenInOrder /\ HeardInOrder

(* Nothing is ahead after a step that adds at most events within reach.      *)
LEMMA AheadKept ==
    ASSUME TypeOK, NoneAhead,
           \A j \in Jobs : Reached(j) <= Reached(j)' /\ Reached(j)' \in Nat /\ Reached(j) \in Nat,
           \A j \in Jobs : \/ heard'[j] = heard[j]
                           \/ \E w \in Writers : \E h \in DOMAIN held[w] :
                                 StatusOf(held[w][h], j) /\ heard'[j] = held[w][h].n,
           \A j \in Jobs : \A w \in Writers : \A h \in DOMAIN held'[w] :
              StatusOf(held'[w][h], j) =>
                 \/ h \in DOMAIN held[w] /\ held'[w][h] = held[w][h]
                 \/ \E p \in DOMAIN sendCh : held'[w][h] = sendCh[p],
           \A j \in Jobs : \A p \in DOMAIN sendCh' : StatusOf(sendCh'[p], j) =>
              \/ \E q \in DOMAIN sendCh : sendCh'[p] = sendCh[q]
              \/ \E i \in DOMAIN chan[<<j, "status">>] : sendCh'[p] = chan[<<j, "status">>][i]
              \/ sendCh'[p].n <= Reached(j)',
           \A j \in Jobs : \A i \in DOMAIN chan'[<<j, "status">>] :
              \/ \E k \in DOMAIN chan[<<j, "status">>] :
                    chan'[<<j, "status">>][i] = chan[<<j, "status">>][k]
              \/ chan'[<<j, "status">>][i].n <= Reached(j)'
    PROVE  NoneAhead'
<1> SUFFICES ASSUME NEW j \in Jobs
             PROVE  /\ heard'[j] <= Reached(j)'
                    /\ \A w \in Writers : \A h \in DOMAIN held'[w] :
                          StatusOf(held'[w][h], j) => held'[w][h].n <= Reached(j)'
                    /\ \A p \in DOMAIN sendCh' :
                          StatusOf(sendCh'[p], j) => sendCh'[p].n <= Reached(j)'
                    /\ \A i \in DOMAIN chan'[<<j, "status">>] :
                          chan'[<<j, "status">>][i].n <= Reached(j)'
  BY DEF NoneAhead, StatusOf
<1>1. Reached(j) <= Reached(j)' /\ Reached(j)' \in Nat /\ Reached(j) \in Nat
  OBVIOUS
<1>2. /\ heard[j] \in Nat /\ heard[j] <= Reached(j)
      /\ \A w \in Writers : \A h \in DOMAIN held[w] : StatusOf(held[w][h], j) =>
            held[w][h].n \in Nat /\ held[w][h].n <= Reached(j)
      /\ \A p \in DOMAIN sendCh : StatusOf(sendCh[p], j) =>
            sendCh[p].n \in Nat /\ sendCh[p].n <= Reached(j)
      /\ \A i \in DOMAIN chan[<<j, "status">>] :
            chan[<<j, "status">>][i].n \in Nat /\ chan[<<j, "status">>][i].n <= Reached(j)
  BY Numbers DEF NoneAhead
<1> DEFINE Far == Reached(j)'
<1>3. \A n \in Nat : n <= Reached(j) => n <= Far
  BY <1>1
<1>4. \A p \in DOMAIN sendCh' : StatusOf(sendCh'[p], j) =>
         \/ \E q \in DOMAIN sendCh : sendCh'[p] = sendCh[q]
         \/ \E i \in DOMAIN chan[<<j, "status">>] : sendCh'[p] = chan[<<j, "status">>][i]
         \/ sendCh'[p].n <= Far
  OBVIOUS
<1>5. \A i \in DOMAIN chan'[<<j, "status">>] :
         \/ \E k \in DOMAIN chan[<<j, "status">>] :
               chan'[<<j, "status">>][i] = chan[<<j, "status">>][k]
         \/ chan'[<<j, "status">>][i].n <= Far
  OBVIOUS
<1> HIDE DEF Far
<1>6. heard'[j] <= Far
  <2>1. CASE heard'[j] = heard[j]
    BY <1>2, <1>3, <2>1
  <2>2. ASSUME NEW w \in Writers, NEW h \in DOMAIN held[w], StatusOf(held[w][h], j),
               heard'[j] = held[w][h].n
        PROVE  heard'[j] <= Far
    BY <1>2, <1>3, <2>2
  <2>3. QED BY <2>1, <2>2
<1>7. ASSUME NEW w \in Writers, NEW h \in DOMAIN held'[w], StatusOf(held'[w][h], j)
      PROVE  held'[w][h].n <= Far
  <2>1. CASE h \in DOMAIN held[w] /\ held'[w][h] = held[w][h]
    BY <1>2, <1>3, <1>7, <2>1
  <2>2. ASSUME NEW p \in DOMAIN sendCh, held'[w][h] = sendCh[p] PROVE held'[w][h].n <= Far
    BY <1>2, <1>3, <1>7, <2>2
  <2>3. QED BY <1>7, <2>1, <2>2
<1>8. ASSUME NEW p \in DOMAIN sendCh', StatusOf(sendCh'[p], j) PROVE sendCh'[p].n <= Far
  <2>1. ASSUME NEW q \in DOMAIN sendCh, sendCh'[p] = sendCh[q] PROVE sendCh'[p].n <= Far
    BY <1>2, <1>3, <1>8, <2>1
  <2>2. QED BY <1>2, <1>3, <1>8, <1>4, <2>1
<1>9. ASSUME NEW i \in DOMAIN chan'[<<j, "status">>] PROVE chan'[<<j, "status">>][i].n <= Far
  BY <1>2, <1>3, <1>9, <1>5
<1>10. QED BY <1>6, <1>7, <1>8, <1>9 DEF Far

(* A step that leaves the progress alone, but may queue another message.     *)
LEMMA ProgressKept ==
    ASSUME TypeOK, Ordered,
           \A j \in Jobs : Reached(j) <= Reached(j)' /\ Reached(j)' \in Nat /\ Reached(j) \in Nat,
           heard' = heard, held' = held, ~crowded' => ~crowded,
           \A j \in Jobs : chan'[<<j, "status">>] = chan[<<j, "status">>],
           sendCh' = sendCh \/ \E m \in Events : m.kind # "status" /\ Enqueue(m)
    PROVE  Ordered'
<1>1. ASSUME NEW j \in Jobs, NEW p \in DOMAIN sendCh', StatusOf(sendCh'[p], j)
      PROVE  p \in DOMAIN sendCh /\ sendCh'[p] = sendCh[p]
  <2>1. CASE sendCh' = sendCh
    BY <2>1
  <2>2. ASSUME NEW m \in Events, m.kind # "status", Enqueue(m)
        PROVE  p \in DOMAIN sendCh /\ sendCh'[p] = sendCh[p]
    BY <1>1, <2>2, QueueAfter DEF StatusOf
  <2>3. QED BY <2>1, <2>2
<1>2. NoneAhead'
  <2>1. NoneAhead
    BY DEF Ordered
  <2>2. QED BY <1>1, <2>1, AheadKept
<1>3. ChannelInOrder'
  BY DEF Ordered, ChannelInOrder
<1>4. QueueInOrder' /\ TakenInOrder'
  BY <1>1 DEF Ordered, QueueInOrder, TakenInOrder
<1>5. HeardInOrder'
  BY <1>1 DEF Ordered, HeardInOrder
<1>6. QED BY <1>2, <1>3, <1>4, <1>5 DEF Ordered

(* The first of its statuses is zero, before anything else is said of a job. *)
LEMMA StartJobOrdered ==
    ASSUME TypeOK, Ordered, StartJob,
           \A j \in Jobs : Reached(j) <= Reached(j)' /\ Reached(j)' \in Nat /\ Reached(j) \in Nat
    PROVE  Ordered'
<1> DEFINE m == Event(job, "status", 0)
<1>1. m \in Events /\ m.job = job /\ m.kind = "status" /\ m.n = 0 /\ job \in Jobs
  BY EventOK DEF StartJob, TypeOK
<1>2. UNCHANGED <<chan, heard, held, crowded>> /\ Enqueue(m) /\ Reached(job) = 0
  BY DEF StartJob, Reached
<1> HIDE DEF m
<1>3. /\ \A p \in DOMAIN sendCh' : \/ p \in DOMAIN sendCh /\ sendCh'[p] = sendCh[p]
                                   \/ p \notin DOMAIN sendCh /\ sendCh'[p] = m
      /\ \A p, q \in DOMAIN sendCh' : p < q => p \in DOMAIN sendCh
  BY <1>1, <1>2, QueueAfter
<1>4. ASSUME NEW j \in Jobs, NEW p \in DOMAIN sendCh', StatusOf(sendCh'[p], j)
      PROVE  \/ p \in DOMAIN sendCh /\ sendCh'[p] = sendCh[p]
             \/ p \notin DOMAIN sendCh /\ j = job /\ sendCh'[p].n = 0
  BY <1>1, <1>3, <1>4 DEF StatusOf
<1>5. NoneAhead'
  <2>1. NoneAhead
    BY DEF Ordered
  <2>2. ASSUME NEW j \in Jobs, NEW p \in DOMAIN sendCh', StatusOf(sendCh'[p], j)
        PROVE  (\E q \in DOMAIN sendCh : sendCh'[p] = sendCh[q]) \/ sendCh'[p].n <= Reached(j)'
    BY <1>4, <2>2
  <2>3. QED BY <1>2, <2>1, <2>2, AheadKept
(* Whatever was said of the job so far is zero too.                          *)
<1>6. /\ heard[job] = 0
      /\ \A w \in Writers : \A h \in DOMAIN held[w] : StatusOf(held[w][h], job) => held[w][h].n = 0
      /\ \A p \in DOMAIN sendCh : StatusOf(sendCh[p], job) => sendCh[p].n = 0
  <2>1. /\ heard[job] <= 0
        /\ \A w \in Writers : \A h \in DOMAIN held[w] : StatusOf(held[w][h], job) => held[w][h].n <= 0
        /\ \A p \in DOMAIN sendCh : StatusOf(sendCh[p], job) => sendCh[p].n <= 0
    BY <1>1, <1>2 DEF Ordered, NoneAhead
  <2>2. /\ heard[job] \in Nat
        /\ \A w \in Writers : \A h \in DOMAIN held[w] : held[w][h].n \in Nat
        /\ \A p \in DOMAIN sendCh : sendCh[p].n \in Nat
    BY <1>1, Numbers
  <2>3. QED BY <2>1, <2>2
<1>7. \A i \in DOMAIN chan[<<job, "status">>] : chan[<<job, "status">>][i].n \in Nat
  BY <1>1, Numbers
<1>8. ChannelInOrder'
  BY <1>2 DEF Ordered, ChannelInOrder
<1>9. QueueInOrder'
  <2>1. ASSUME NEW j \in Jobs, NEW p \in DOMAIN sendCh', StatusOf(sendCh'[p], j)
        PROVE  \A i \in DOMAIN chan'[<<j, "status">>] : sendCh'[p].n <= chan'[<<j, "status">>][i].n
    <3>1. CASE p \in DOMAIN sendCh /\ sendCh'[p] = sendCh[p]
      BY <1>2, <2>1, <3>1 DEF Ordered, QueueInOrder
    <3>2. CASE j = job /\ sendCh'[p].n = 0
      <4>1. chan'[<<j, "status">>] = chan[<<job, "status">>]
        BY <1>2, <3>2
      <4>2. ASSUME NEW i \in DOMAIN chan'[<<j, "status">>]
            PROVE  chan'[<<j, "status">>][i].n \in Nat
        BY <1>7, <4>1
      <4>3. \A i \in DOMAIN chan'[<<j, "status">>] : 0 <= chan'[<<j, "status">>][i].n
        BY ONLY <4>2
      <4>4. QED BY ONLY <3>2, <4>3
    <3>3. QED BY <1>4, <2>1, <3>1, <3>2
  <2>2. ASSUME NEW j \in Jobs, NEW p \in DOMAIN sendCh', StatusOf(sendCh'[p], j),
               NEW q \in DOMAIN sendCh', StatusOf(sendCh'[q], j), p < q
        PROVE  sendCh'[p].n <= sendCh'[q].n
    <3>1. p \in DOMAIN sendCh /\ sendCh'[p] = sendCh[p]
      BY <1>3, <2>2
    <3>2. CASE q \in DOMAIN sendCh /\ sendCh'[q] = sendCh[q]
      BY <2>2, <3>1, <3>2 DEF Ordered, QueueInOrder
    <3>3. CASE j = job /\ sendCh'[q].n = 0
      BY <1>6, <2>2, <3>1, <3>3
    <3>4. QED BY <1>4, <2>2, <3>2, <3>3
  <2>3. QED BY <2>1, <2>2 DEF QueueInOrder, StatusOf
<1>10. TakenInOrder'
  <2>1. ASSUME NEW j \in Jobs, NEW w \in Writers, NEW h \in DOMAIN held[w], StatusOf(held[w][h], j)
        PROVE  /\ \A p \in DOMAIN sendCh' : StatusOf(sendCh'[p], j) => held[w][h].n <= sendCh'[p].n
               /\ \A i \in DOMAIN chan[<<j, "status">>] : held[w][h].n <= chan[<<j, "status">>][i].n
    <3>1. \A i \in DOMAIN chan[<<j, "status">>] : held[w][h].n <= chan[<<j, "status">>][i].n
      BY <2>1 DEF Ordered, TakenInOrder
    <3>2. ASSUME NEW p \in DOMAIN sendCh', StatusOf(sendCh'[p], j)
          PROVE  held[w][h].n <= sendCh'[p].n
      <4>1. CASE p \in DOMAIN sendCh /\ sendCh'[p] = sendCh[p]
        BY <2>1, <3>2, <4>1 DEF Ordered, TakenInOrder
      <4>2. CASE j = job /\ sendCh'[p].n = 0
        BY <1>6, <2>1, <4>2
      <4>3. QED BY <1>4, <3>2, <4>1, <4>2
    <3>3. QED BY <3>1, <3>2
  <2>2. QED BY <1>2, <2>1 DEF TakenInOrder, StatusOf
<1>11. HeardInOrder'
  <2>1. ASSUME NEW j \in Jobs, NEW p \in DOMAIN sendCh', StatusOf(sendCh'[p], j)
        PROVE  heard[j] <= sendCh'[p].n
    <3>1. CASE p \in DOMAIN sendCh /\ sendCh'[p] = sendCh[p]
      BY <2>1, <3>1 DEF Ordered, HeardInOrder
    <3>2. CASE j = job /\ sendCh'[p].n = 0
      BY <1>6, <3>2
    <3>3. QED BY <1>4, <2>1, <3>1, <3>2
  <2>2. QED BY <1>2, <2>1 DEF Ordered, HeardInOrder, StatusOf
<1>12. QED BY <1>5, <1>8, <1>9, <1>10, <1>11 DEF Ordered

(* The progress of the next item: nothing further was said before.           *)
LEMMA SendStatusOrdered ==
    ASSUME TypeOK, HandlerFollowsJob, Ordered, SendStatus,
           \A j \in Jobs : Reached(j) <= Reached(j)' /\ Reached(j)' \in Nat /\ Reached(j) \in Nat
    PROVE  Ordered'
<1>1. CASE handler = None
  BY <1>1, ProgressKept DEF SendStatus
<1>2. CASE handler # None
  <2> DEFINE m == Event(job, "status", item)
             c == <<job, "status">>
  <2>1. /\ handler = job /\ job \in Jobs /\ pc' = "loop" /\ pc = "loop" /\ job' = job
        /\ item \in Nat /\ item' = item + 1
        /\ UNCHANGED <<sendCh, heard, held, crowded>>
    BY <1>2 DEF SendStatus, HandlerFollowsJob, TypeOK
  <2>2. m \in Events /\ m.n = item /\ c \in Channels /\ SafeSend(c, m)
    BY <1>2, <2>1, EventOK DEF SendStatus
  <2>3. Reached(job) = item /\ Reached(job)' = item + 1
    BY <2>1 DEF Reached
  <2> HIDE DEF m
  <2>4. /\ \A d \in Channels : d # c => chan'[d] = chan[d]
        /\ \A i \in DOMAIN chan'[c] : \/ i \in DOMAIN chan[c] /\ chan'[c][i] = chan[c][i]
                                      \/ i \notin DOMAIN chan[c] /\ chan'[c][i] = m
        /\ \A i, k \in DOMAIN chan'[c] : i < k => i \in DOMAIN chan[c]
    <3>1. /\ chan \in [Channels -> Seq(Events)]
          /\ \A d \in Channels : Len(chan[d]) <= Cap(d[2])
      BY DEF TypeOK
    <3> HIDE DEF c
    <3>2. QED BY ONLY <2>2, <3>1, Sent
  <2>5. ASSUME NEW j \in Jobs, NEW i \in DOMAIN chan'[<<j, "status">>]
        PROVE  \/ i \in DOMAIN chan[<<j, "status">>]
                  /\ chan'[<<j, "status">>][i] = chan[<<j, "status">>][i]
               \/ i \notin DOMAIN chan[<<j, "status">>]
                  /\ j = job /\ chan'[<<j, "status">>][i].n = item
    BY <2>1, <2>2, <2>4
  <2>6. NoneAhead'
    <3>1. NoneAhead
      BY DEF Ordered
    <3>2. ASSUME NEW j \in Jobs, NEW i \in DOMAIN chan'[<<j, "status">>]
          PROVE  \/ \E k \in DOMAIN chan[<<j, "status">>] :
                       chan'[<<j, "status">>][i] = chan[<<j, "status">>][k]
                 \/ chan'[<<j, "status">>][i].n <= Reached(j)'
      BY <2>1, <2>3, <2>5
    <3>3. QED BY <2>1, <3>1, <3>2, AheadKept
  (* Whatever was said of the job so far was of an earlier item.             *)
  <2>7. /\ heard[job] <= item
        /\ \A w \in Writers : \A h \in DOMAIN held[w] :
              StatusOf(held[w][h], job) => held[w][h].n <= item
        /\ \A p \in DOMAIN sendCh : StatusOf(sendCh[p], job) => sendCh[p].n <= item
        /\ \A i \in DOMAIN chan[<<job, "status">>] : chan[<<job, "status">>][i].n <= item
    BY <2>1, <2>3 DEF Ordered, NoneAhead
  <2>8. ChannelInOrder'
    <3>1. ASSUME NEW j \in Jobs, NEW i \in DOMAIN chan'[<<j, "status">>],
                 NEW k \in DOMAIN chan'[<<j, "status">>], i < k
          PROVE  chan'[<<j, "status">>][i].n <= chan'[<<j, "status">>][k].n
      <4>1. i \in DOMAIN chan[<<j, "status">>]
            /\ chan'[<<j, "status">>][i] = chan[<<j, "status">>][i]
        <5>1. CASE j = job
          BY <2>4, <3>1, <5>1
        <5>2. CASE j # job
          BY <2>5, <5>2
        <5>3. QED BY <5>1, <5>2
      <4>2. CASE k \in DOMAIN chan[<<j, "status">>]
                 /\ chan'[<<j, "status">>][k] = chan[<<j, "status">>][k]
        BY <3>1, <4>1, <4>2 DEF Ordered, ChannelInOrder
      <4>3. CASE j = job /\ chan'[<<j, "status">>][k].n = item
        BY <2>7, <4>1, <4>3
      <4>4. QED BY <2>5, <4>2, <4>3
    <3>2. QED BY <3>1 DEF ChannelInOrder
  <2>9. ASSUME NEW j \in Jobs, NEW i \in DOMAIN chan'[<<j, "status">>]
        PROVE  /\ heard[j] <= chan'[<<j, "status">>][i].n
               /\ \A p \in DOMAIN sendCh : StatusOf(sendCh[p], j) =>
                     sendCh[p].n <= chan'[<<j, "status">>][i].n
               /\ \A w \in Writers : \A h \in DOMAIN held[w] : StatusOf(held[w][h], j) =>
                     held[w][h].n <= chan'[<<j, "status">>][i].n
    <3>1. CASE i \in DOMAIN chan[<<j, "status">>]
               /\ chan'[<<j, "status">>][i] = chan[<<j, "status">>][i]
      <4>1. heard[j] <= chan[<<j, "status">>][i].n
        BY <3>1 DEF Ordered, HeardInOrder
      <4>2. \A p \in DOMAIN sendCh : StatusOf(sendCh[p], j) =>
                sendCh[p].n <= chan[<<j, "status">>][i].n
        BY <3>1 DEF Ordered, QueueInOrder
      <4>3. \A w \in Writers : \A h \in DOMAIN held[w] : StatusOf(held[w][h], j) =>
                held[w][h].n <= chan[<<j, "status">>][i].n
        BY <3>1 DEF Ordered, TakenInOrder
      <4>4. QED BY <3>1, <4>1, <4>2, <4>3
    <3>2. CASE j = job /\ chan'[<<j, "status">>][i].n = item
      BY <2>7, <3>2
    <3>3. QED BY <2>5, <3>1, <3>2
  <2>10. QueueInOrder' /\ TakenInOrder'
    BY <2>1, <2>9 DEF Ordered, QueueInOrder, TakenInOrder
  <2>11. HeardInOrder'
    BY <2>1, <2>9 DEF Ordered, HeardInOrder
  <2>12. QED BY <2>6, <2>8, <2>10, <2>11 DEF Ordered
<1>3. QED BY <1>1, <1>2

(* A forwarder takes the oldest of the channel and puts it behind the rest.  *)
LEMMA ForwardOrdered ==
    ASSUME TypeOK, EventsCarryTheirJob, ChannelsByKind, Ordered, NEW c \in Channels, Forward(c),
           \A j \in Jobs : Reached(j) <= Reached(j)' /\ Reached(j)' \in Nat /\ Reached(j) \in Nat
    PROVE  Ordered'
<1> DEFINE m == chan[c][1]
<1>1. /\ 1 \in DOMAIN chan[c] /\ m \in Events /\ Enqueue(m)
      /\ \A d \in Channels : d # c => chan'[d] = chan[d]
      /\ \A i \in DOMAIN chan'[c] :
            i \in Nat \ {0} /\ i + 1 \in DOMAIN chan[c] /\ chan'[c][i] = chan[c][i + 1]
  BY Received DEF TypeOK
<1>2. m.job = c[1] /\ m.kind = c[2]
  BY <1>1 DEF EventsCarryTheirJob, ChannelsByKind
<1>3. UNCHANGED <<heard, held, crowded>>
  BY DEF Forward
<1>4. CASE c[2] # "status"
  <2>1. \A j \in Jobs : chan'[<<j, "status">>] = chan[<<j, "status">>]
    <3>1. ASSUME NEW j \in Jobs PROVE <<j, "status">> \in Channels /\ <<j, "status">> # c
      BY <1>4 DEF Channels, Kinds
    <3>2. QED BY ONLY <1>1, <3>1
  <2>2. QED BY <1>1, <1>2, <1>3, <1>4, <2>1, ProgressKept
<1>5. CASE c[2] = "status"
  <2> DEFINE j0 == c[1]
  <2>1. c = <<j0, "status">> /\ j0 \in Jobs
    BY <1>5
  <2>2. /\ \A p \in DOMAIN sendCh' : \/ p \in DOMAIN sendCh /\ sendCh'[p] = sendCh[p]
                                     \/ p \notin DOMAIN sendCh /\ sendCh'[p] = m
        /\ \A p, q \in DOMAIN sendCh' : p < q => p \in DOMAIN sendCh
    BY <1>1, QueueAfter
  <2>3. /\ \A j \in Jobs : j # j0 => chan'[<<j, "status">>] = chan[<<j, "status">>]
        /\ \A i \in DOMAIN chan'[<<j0, "status">>] :
              /\ i \in Nat \ {0} /\ i + 1 \in DOMAIN chan[<<j0, "status">>]
              /\ chan'[<<j0, "status">>][i] = chan[<<j0, "status">>][i + 1]
        /\ 1 \in DOMAIN chan[<<j0, "status">>] /\ m = chan[<<j0, "status">>][1]
        /\ m.job = j0 /\ m.kind = "status"
    <3>1. \A j \in Jobs : j # j0 => chan'[<<j, "status">>] = chan[<<j, "status">>]
      <4>1. ASSUME NEW j \in Jobs, j # j0 PROVE <<j, "status">> # c /\ <<j, "status">> \in Channels
        BY <2>1, <4>1
      <4> HIDE DEF j0, m
      <4>2. QED BY <1>1, <4>1
    <3>2. /\ \A i \in DOMAIN chan'[c] :
                i \in Nat \ {0} /\ i + 1 \in DOMAIN chan[c] /\ chan'[c][i] = chan[c][i + 1]
          /\ 1 \in DOMAIN chan[c] /\ m = chan[c][1] /\ m.job = j0 /\ m.kind = "status"
      BY <1>1, <1>2, <1>5
    <3> HIDE DEF m, j0
    <3>3. QED BY ONLY <2>1, <3>1, <3>2
  <2> HIDE DEF m, j0
  <2>4. ASSUME NEW j \in Jobs, NEW p \in DOMAIN sendCh', StatusOf(sendCh'[p], j)
        PROVE  \/ p \in DOMAIN sendCh /\ sendCh'[p] = sendCh[p]
               \/ p \notin DOMAIN sendCh /\ j = j0 /\ sendCh'[p] = m
    BY <2>2, <2>3, <2>4 DEF StatusOf
  <2>5. ASSUME NEW j \in Jobs, NEW i \in DOMAIN chan'[<<j, "status">>]
        PROVE  \E k \in DOMAIN chan[<<j, "status">>] :
                  /\ chan'[<<j, "status">>][i] = chan[<<j, "status">>][k]
                  /\ j # j0 => k = i
                  /\ j = j0 => k = i + 1
    BY <2>3
  <2>6. NoneAhead'
    <3>1. NoneAhead
      BY DEF Ordered
    <3>2. ASSUME NEW j \in Jobs, NEW p \in DOMAIN sendCh', StatusOf(sendCh'[p], j)
          PROVE  \/ \E q \in DOMAIN sendCh : sendCh'[p] = sendCh[q]
                 \/ \E i \in DOMAIN chan[<<j, "status">>] : sendCh'[p] = chan[<<j, "status">>][i]
      BY <2>3, <2>4, <3>2
    <3>3. ASSUME NEW j \in Jobs, NEW i \in DOMAIN chan'[<<j, "status">>]
          PROVE  \E k \in DOMAIN chan[<<j, "status">>] :
                    chan'[<<j, "status">>][i] = chan[<<j, "status">>][k]
      BY <2>5
    <3>4. QED BY <1>3, <3>1, <3>2, <3>3, AheadKept
  <2>7. ASSUME NEW j \in Jobs, NEW i \in DOMAIN chan'[<<j, "status">>]
        PROVE  /\ heard[j] <= chan'[<<j, "status">>][i].n
               /\ \A p \in DOMAIN sendCh' : StatusOf(sendCh'[p], j) =>
                     sendCh'[p].n <= chan'[<<j, "status">>][i].n
               /\ \A w \in Writers : \A h \in DOMAIN held[w] : StatusOf(held[w][h], j) =>
                     held[w][h].n <= chan'[<<j, "status">>][i].n
    <3>1. PICK k \in DOMAIN chan[<<j, "status">>] :
                  /\ chan'[<<j, "status">>][i] = chan[<<j, "status">>][k]
                  /\ j = j0 => k = i + 1
      BY <2>5
    <3>2. heard[j] <= chan'[<<j, "status">>][i].n
      BY <3>1 DEF Ordered, HeardInOrder
    <3>3. ASSUME NEW p \in DOMAIN sendCh', StatusOf(sendCh'[p], j)
          PROVE  sendCh'[p].n <= chan'[<<j, "status">>][i].n
      <4>1. CASE p \in DOMAIN sendCh /\ sendCh'[p] = sendCh[p]
        BY <3>1, <3>3, <4>1 DEF Ordered, QueueInOrder
      <4>2. CASE j = j0 /\ sendCh'[p] = m
        <5>1. 1 < k /\ m = chan[<<j, "status">>][1] /\ 1 \in DOMAIN chan[<<j, "status">>]
          <6>1. i \in Nat \ {0} /\ k = i + 1
            BY <2>3, <3>1, <4>2
          <6>2. QED BY <2>3, <4>2, <6>1
        <5>2. QED BY <3>1, <4>2, <5>1 DEF Ordered, ChannelInOrder
      <4>3. QED BY <2>4, <3>3, <4>1, <4>2
    <3>4. \A w \in Writers : \A h \in DOMAIN held[w] : StatusOf(held[w][h], j) =>
              held[w][h].n <= chan'[<<j, "status">>][i].n
      BY <3>1 DEF Ordered, TakenInOrder
    <3>5. QED BY <3>2, <3>3, <3>4
  <2>8. ASSUME NEW j \in Jobs, NEW i \in DOMAIN chan'[<<j, "status">>],
               NEW k \in DOMAIN chan'[<<j, "status">>], i < k
        PROVE  chan'[<<j, "status">>][i].n <= chan'[<<j, "status">>][k].n
    <3>1. CASE j = j0
      <4>1. /\ i + 1 \in DOMAIN chan[<<j, "status">>] /\ k + 1 \in DOMAIN chan[<<j, "status">>]
            /\ chan'[<<j, "status">>][i] = chan[<<j, "status">>][i + 1]
            /\ chan'[<<j, "status">>][k] = chan[<<j, "status">>][k + 1]
            /\ i + 1 < k + 1
        <5>1. i \in Nat /\ k \in Nat
          BY <2>3, <2>8, <3>1
        <5>2. i + 1 < k + 1
          BY <2>8, <5>1
        <5>3. QED BY <2>3, <2>8, <3>1, <5>2
      <4>2. QED BY <4>1 DEF Ordered, ChannelInOrder
    <3>2. CASE j # j0
      BY <2>3, <2>8, <3>2 DEF Ordered, ChannelInOrder
    <3>3. QED BY <3>1, <3>2
  (* What is behind the queue is older than what the forwarder adds to it.   *)
  <2>9. ASSUME NEW j \in Jobs, NEW p \in DOMAIN sendCh', StatusOf(sendCh'[p], j)
        PROVE  /\ heard[j] <= sendCh'[p].n
               /\ \A w \in Writers : \A h \in DOMAIN held[w] : StatusOf(held[w][h], j) =>
                     held[w][h].n <= sendCh'[p].n
    <3>1. CASE p \in DOMAIN sendCh /\ sendCh'[p] = sendCh[p]
      <4>1. heard[j] <= sendCh[p].n
        BY <2>9, <3>1 DEF Ordered, HeardInOrder
      <4>2. \A w \in Writers : \A h \in DOMAIN held[w] : StatusOf(held[w][h], j) =>
                held[w][h].n <= sendCh[p].n
        BY <2>9, <3>1 DEF Ordered, TakenInOrder
      <4>3. QED BY <3>1, <4>1, <4>2
    <3>2. CASE j = j0 /\ sendCh'[p] = m
      <4>1. 1 \in DOMAIN chan[<<j, "status">>] /\ sendCh'[p] = chan[<<j, "status">>][1]
        BY <2>3, <3>2
      <4>2. heard[j] <= chan[<<j, "status">>][1].n
        BY <4>1 DEF Ordered, HeardInOrder
      <4>3. \A w \in Writers : \A h \in DOMAIN held[w] : StatusOf(held[w][h], j) =>
                held[w][h].n <= chan[<<j, "status">>][1].n
        BY <4>1 DEF Ordered, TakenInOrder
      <4>4. QED BY <4>1, <4>2, <4>3
    <3>3. QED BY <2>4, <2>9, <3>1, <3>2
  <2>10. ASSUME NEW j \in Jobs, NEW p \in DOMAIN sendCh', StatusOf(sendCh'[p], j),
                NEW q \in DOMAIN sendCh', StatusOf(sendCh'[q], j), p < q
         PROVE  sendCh'[p].n <= sendCh'[q].n
    <3>1. p \in DOMAIN sendCh /\ sendCh'[p] = sendCh[p]
      BY <2>2, <2>4, <2>10
    <3>2. CASE q \in DOMAIN sendCh /\ sendCh'[q] = sendCh[q]
      BY <2>10, <3>1, <3>2 DEF Ordered, QueueInOrder
    <3>3. CASE j = j0 /\ sendCh'[q] = m
      <4>1. 1 \in DOMAIN chan[<<j, "status">>] /\ sendCh'[q] = chan[<<j, "status">>][1]
        BY <2>3, <3>3
      <4>2. StatusOf(sendCh[p], j)
        BY <2>10, <3>1
      <4>3. QED BY <3>1, <4>1, <4>2 DEF Ordered, QueueInOrder
    <3>4. QED BY <2>4, <2>10, <3>2, <3>3
  <2>11. ChannelInOrder' /\ QueueInOrder'
    BY <2>7, <2>8, <2>10 DEF ChannelInOrder, QueueInOrder, StatusOf
  <2>12. TakenInOrder'
    BY <1>3, <2>7, <2>9 DEF TakenInOrder, StatusOf
  <2>13. HeardInOrder'
    BY <1>3, <2>7, <2>9 DEF Ordered, HeardInOrder, StatusOf
  <2>14. QED BY <2>6, <2>11, <2>12, <2>13 DEF Ordered
<1>6. QED BY <1>4, <1>5

(* A writer takes the oldest of the queue.                                   *)
LEMMA TakeOrdered ==
    ASSUME TypeOK, Ordered, NEW w \in Writers, Take(w),
           \A j \in Jobs : Reached(j) <= Reached(j)' /\ Reached(j)' \in Nat /\ Reached(j) \in Nat
    PROVE  Ordered'
<1> DEFINE m == sendCh[1]
<1>1. /\ 1 \in DOMAIN sendCh /\ m \in Events /\ held' = [held EXCEPT ![w] = <<m>>]
      /\ \A p \in DOMAIN sendCh' :
            p \in Nat \ {0} /\ p + 1 \in DOMAIN sendCh /\ sendCh'[p] = sendCh[p + 1]
  BY Taken
<1>2. UNCHANGED <<chan, heard, crowded>>
  BY DEF Take
<1>3. ASSUME NEW v \in Writers, NEW h \in DOMAIN held'[v]
      PROVE  \/ held'[v][h] = m
             \/ h \in DOMAIN held[v] /\ held'[v][h] = held[v][h]
  <2>1. held \in [Writers -> Seq(Events)]
    BY DEF TypeOK
  <2>2. CASE v = w
    <3>1. held'[v] = <<m>>
      BY <1>1, <2>1, <2>2
    <3>2. QED BY <1>3, <3>1
  <2>3. CASE v # w
    BY <1>1, <1>3, <2>1, <2>3
  <2>4. QED BY <2>2, <2>3
<1> HIDE DEF m
<1>4. ASSUME NEW p \in DOMAIN sendCh'
      PROVE  p + 1 \in DOMAIN sendCh /\ sendCh'[p] = sendCh[p + 1] /\ 1 < p + 1
  BY <1>1
(* What is taken is no newer than what stays, and no older than what was.    *)
<1>5. ASSUME NEW j \in Jobs, StatusOf(m, j)
      PROVE  /\ \A p \in DOMAIN sendCh' : StatusOf(sendCh'[p], j) => m.n <= sendCh'[p].n
             /\ \A i \in DOMAIN chan[<<j, "status">>] : m.n <= chan[<<j, "status">>][i].n
             /\ heard[j] <= m.n
  <2>1. \A q \in DOMAIN sendCh : StatusOf(sendCh[q], j) /\ 1 < q => m.n <= sendCh[q].n
    BY <1>1, <1>5 DEF Ordered, QueueInOrder, m
  <2>2. \A i \in DOMAIN chan[<<j, "status">>] : m.n <= chan[<<j, "status">>][i].n
    BY <1>1, <1>5 DEF Ordered, QueueInOrder, m
  <2>3. heard[j] <= m.n
    BY <1>1, <1>5 DEF Ordered, HeardInOrder, m
  <2>4. QED BY <1>4, <2>1, <2>2, <2>3
<1>6. NoneAhead'
  <2>1. NoneAhead
    BY DEF Ordered
  <2>2. ASSUME NEW p \in DOMAIN sendCh' PROVE \E q \in DOMAIN sendCh : sendCh'[p] = sendCh[q]
    BY <1>4
  <2>3. ASSUME NEW v \in Writers, NEW h \in DOMAIN held'[v]
        PROVE  \/ h \in DOMAIN held[v] /\ held'[v][h] = held[v][h]
               \/ \E p \in DOMAIN sendCh : held'[v][h] = sendCh[p]
    BY <1>1, <1>3 DEF m
  <2>4. QED BY <1>2, <2>1, <2>2, <2>3, AheadKept
<1>7. ChannelInOrder'
  BY <1>2 DEF Ordered, ChannelInOrder
<1>8. QueueInOrder'
  <2>1. ASSUME NEW j \in Jobs, NEW p \in DOMAIN sendCh', StatusOf(sendCh'[p], j)
        PROVE  /\ \A q \in DOMAIN sendCh' : StatusOf(sendCh'[q], j) /\ p < q =>
                     sendCh'[p].n <= sendCh'[q].n
               /\ \A i \in DOMAIN chan[<<j, "status">>] : sendCh'[p].n <= chan[<<j, "status">>][i].n
    <3>1. ASSUME NEW q \in DOMAIN sendCh', StatusOf(sendCh'[q], j), p < q
          PROVE  sendCh'[p].n <= sendCh'[q].n
      <4>1. p + 1 < q + 1
        BY <1>1, <3>1
      <4>2. QED BY <1>4, <2>1, <3>1, <4>1 DEF Ordered, QueueInOrder
    <3>2. ASSUME NEW i \in DOMAIN chan[<<j, "status">>]
          PROVE  sendCh'[p].n <= chan[<<j, "status">>][i].n
      BY <1>4, <2>1 DEF Ordered, QueueInOrder
    <3>3. QED BY <3>1, <3>2
  <2>2. QED BY <1>2, <2>1 DEF QueueInOrder, StatusOf
<1>9. TakenInOrder'
  <2>1. ASSUME NEW j \in Jobs, NEW v \in Writers, NEW h \in DOMAIN held'[v],
               StatusOf(held'[v][h], j)
        PROVE  /\ \A p \in DOMAIN sendCh' : StatusOf(sendCh'[p], j) => held'[v][h].n <= sendCh'[p].n
               /\ \A i \in DOMAIN chan[<<j, "status">>] : held'[v][h].n <= chan[<<j, "status">>][i].n
    <3>1. CASE held'[v][h] = m
      BY <1>5, <2>1, <3>1
    <3>2. CASE h \in DOMAIN held[v] /\ held'[v][h] = held[v][h]
      <4>1. /\ \A p \in DOMAIN sendCh : StatusOf(sendCh[p], j) => held[v][h].n <= sendCh[p].n
            /\ \A i \in DOMAIN chan[<<j, "status">>] : held[v][h].n <= chan[<<j, "status">>][i].n
        BY <2>1, <3>2 DEF Ordered, TakenInOrder
      <4>2. QED BY <1>4, <3>2, <4>1
    <3>3. QED BY <1>3, <2>1, <3>1, <3>2
  <2>2. QED BY <1>2, <2>1 DEF TakenInOrder, StatusOf
<1>10. HeardInOrder'
  <2>1. ASSUME NEW j \in Jobs, NEW v \in Writers, NEW h \in DOMAIN held'[v],
               StatusOf(held'[v][h], j), ~crowded
        PROVE  heard[j] <= held'[v][h].n
    <3>1. CASE held'[v][h] = m
      BY <1>5, <2>1, <3>1
    <3>2. CASE h \in DOMAIN held[v] /\ held'[v][h] = held[v][h]
      BY <2>1, <3>2 DEF Ordered, HeardInOrder
    <3>3. QED BY <1>3, <2>1, <3>1, <3>2
  <2>2. ASSUME NEW j \in Jobs, NEW p \in DOMAIN sendCh', StatusOf(sendCh'[p], j)
        PROVE  heard[j] <= sendCh'[p].n
    BY <1>4, <2>2 DEF Ordered, HeardInOrder
  <2>3. QED BY <1>2, <2>1, <2>2 DEF Ordered, HeardInOrder, StatusOf
<1>11. QED BY <1>6, <1>7, <1>8, <1>9, <1>10 DEF Ordered

(* What a writer writes is no newer than what is still to come.              *)
LEMMA WriteOrdered ==
    ASSUME TypeOK, WritersInTurn, Ordered, NEW w \in Writers, WriteMessage(w),
           \A j \in Jobs : Reached(j) <= Reached(j)' /\ Reached(j)' \in Nat /\ Reached(j) \in Nat
    PROVE  Ordered'
<1> DEFINE m == held[w][1]
<1>1. /\ held[w] # <<>> /\ 1 \in DOMAIN held[w] /\ held' = [held EXCEPT ![w] = <<>>]
      /\ \A j \in Jobs : heard'[j] = heard[j] \/ (StatusOf(m, j) /\ heard'[j] = m.n)
  BY Written
<1>2. UNCHANGED <<chan, sendCh, crowded>>
  BY DEF WriteMessage
<1>3. held \in [Writers -> Seq(Events)]
  BY DEF TypeOK
<1>4. ASSUME NEW v \in Writers, NEW h \in DOMAIN held'[v]
      PROVE  v # w /\ h \in DOMAIN held[v] /\ held'[v][h] = held[v][h]
  <2>1. CASE v = w
    <3>1. held'[v] = <<>>
      BY <1>1, <1>3, <2>1
    <3>2. QED BY <1>4, <3>1, EmptySeq
  <2>2. CASE v # w
    BY <1>1, <1>3, <1>4, <2>2
  <2>3. QED BY <2>1, <2>2
<1> HIDE DEF m
<1>5. NoneAhead'
  <2>1. NoneAhead
    BY DEF Ordered
  <2>2. ASSUME NEW j \in Jobs
        PROVE  \/ heard'[j] = heard[j]
               \/ \E v \in Writers : \E h \in DOMAIN held[v] :
                     StatusOf(held[v][h], j) /\ heard'[j] = held[v][h].n
    BY <1>1 DEF m
  <2>3. QED BY <1>2, <1>4, <2>1, <2>2, AheadKept
<1>6. ChannelInOrder' /\ QueueInOrder'
  BY <1>2 DEF Ordered, ChannelInOrder, QueueInOrder
<1>7. TakenInOrder'
  BY <1>2, <1>4 DEF Ordered, TakenInOrder
<1>8. HeardInOrder'
  <2>1. ASSUME NEW j \in Jobs
        PROVE  /\ \A p \in DOMAIN sendCh : StatusOf(sendCh[p], j) => heard'[j] <= sendCh[p].n
               /\ \A i \in DOMAIN chan[<<j, "status">>] : heard'[j] <= chan[<<j, "status">>][i].n
    <3>1. CASE heard'[j] = heard[j]
      BY <3>1 DEF Ordered, HeardInOrder
    <3>2. CASE StatusOf(m, j) /\ heard'[j] = m.n
      BY <1>1, <3>2 DEF Ordered, TakenInOrder, m
    <3>3. QED BY <1>1, <3>1, <3>2
  (* While the writers take turns no other holds a message.                  *)
  <2>2. ASSUME NEW v \in Writers, NEW h \in DOMAIN held'[v], ~crowded PROVE FALSE
    <3>1. v # w /\ h \in DOMAIN held[v]
      BY <1>4, <2>2
    <3>2. held[v] # <<>>
      BY <3>1, EmptySeq
    <3>3. writer[v] = "running" /\ writer[w] = "running"
      BY <1>1, <3>2 DEF WritersInTurn
    <3>4. QED BY <2>2, <3>1, <3>3 DEF WritersInTurn
  <2>3. QED BY <1>2, <2>1, <2>2 DEF HeardInOrder, StatusOf
<1>9. QED BY <1>5, <1>6, <1>7, <1>8 DEF Ordered

LEMMA NextOrdered ==
    ASSUME TypeOK, HandlerFollowsJob, CopiedTogether, EventsCarryTheirJob, ChannelsByKind,
           WritersInTurn, Ordered, [Next]_vars
    PROVE  Ordered'
<1>1. \A j \in Jobs : Reached(j) <= Reached(j)' /\ Reached(j)' \in Nat /\ Reached(j) \in Nat
  BY ReachedGrows
<1>2. CASE UNCHANGED <<chan, sendCh, held, heard, crowded>>
  BY <1>1, <1>2, ProgressKept
<1>3. ASSUME NEW j \in Jobs, SendTaskCompleted(j) PROVE Ordered'
  <2>1. Event(j, "completed", 0) \in Events /\ Event(j, "completed", 0).kind # "status"
    BY EventOK
  <2>2. QED BY <1>1, <1>3, <2>1, ProgressKept DEF SendTaskCompleted
<1>4. ASSUME NEW t \in Callbacks, SendLog(t) PROVE Ordered'
  <2> DEFINE c == <<Copied(t)[1], "log">>
             m == Event(Copied(t)[2], "log", raised[t])
  <2>1. SafeSend(c, m) /\ UNCHANGED <<sendCh, held, heard, crowded>>
    BY <1>4 DEF SendLog
  <2>2. c \in Channels /\ m \in Events /\ \A j \in Jobs : <<j, "status">> # c
    <3>1. Copied(t)[1] \in Jobs /\ Copied(t)[2] \in Jobs /\ raised[t] \in Nat
      BY <1>4, Pairs DEF SendLog
    <3>2. QED BY <3>1, EventOK
  <2> HIDE DEF c, m
  <2>3. \A j \in Jobs : chan'[<<j, "status">>] = chan[<<j, "status">>]
    <3>1. /\ chan \in [Channels -> Seq(Events)]
          /\ \A d \in Channels : Len(chan[d]) <= Cap(d[2])
      BY DEF TypeOK
    <3>2. \A d \in Channels : d # c => chan'[d] = chan[d]
      BY <2>1, <2>2, <3>1, Sent
    <3>3. QED BY <2>2, <3>2
  <2>4. QED BY <1>1, <2>1, <2>3, ProgressKept
<1>5. CASE Reconnect
  <2>1. UNCHANGED <<chan, sendCh, held, heard>> /\ (~crowded' => ~crowded)
    BY <1>5 DEF Reconnect
  <2>2. QED BY <1>1, <2>1, ProgressKept
<1>6. QED
  BY <1>1, <1>2, <1>3, <1>4, <1>5, StartJobOrdered, SendStatusOrdered, ForwardOrdered, TakeOrdered,
     WriteOrdered
     DEF Next, ExecuteTask, SetChannels, LeaveLoop, ClearEventChannels, CloseChannels,
         ClearCurrentJob, Raise, Notice, EndForward, Lose, Write, Terminated

LEMMA NextIInv == IInv /\ [Next]_vars => IInv'
<1> SUFFICES ASSUME IInv, [Next]_vars PROVE IInv'
  OBVIOUS
<1>1. /\ TypeOK /\ HandlerFollowsJob /\ ClosedBehind /\ OwedBehind /\ CopiedTogether
      /\ EventsCarryTheirJob /\ ChannelsByKind /\ WritersInTurn /\ Ordered
  BY DEF IInv, Ordered
<1>2. TypeOK'
  BY <1>1, NextTypeOK
<1>3. HandlerFollowsJob' /\ ClosedBehind' /\ OwedBehind' /\ CopiedTogether'
  BY <1>1, NextHandlerFollowsJob, NextBehind, NextCopiedTogether
<1>4. EventsCarryTheirJob' /\ ChannelsByKind' /\ WritersInTurn'
  BY <1>1, NextChannels, NextWritersInTurn
<1>5. Ordered'
  BY <1>1, NextOrdered
<1>6. QED BY <1>2, <1>3, <1>4, <1>5 DEF IInv, Ordered

(* The inductive invariant holds for any number of jobs, events, late        *)
(* callbacks and lost connections, whatever fits in the channels and the     *)
(* queue and however many writers take from it.                              *)
THEOREM Invariance == Spec => []IInv
<1>1. QED BY InitIInv, NextIInv, PTL DEF Spec

(* Every variable keeps its type: no channel and no queue holds more than it *)
(* can.                                                                      *)
THEOREM TypeCorrect == Spec => []TypeOK
<1>1. IInv => TypeOK
  BY DEF IInv
<1>2. QED BY <1>1, Invariance, PTL

(* EventHandler never keeps a closed channel.                                *)
THEOREM HandlerIsCurrent == Spec => []HandlerHoldsOpenChannels
<1>1. IInv => HandlerHoldsOpenChannels
  BY Open DEF IInv
<1>2. QED BY <1>1, Invariance, PTL

(* An event is booked to the job whose channel it travels in, which is the   *)
(* one that raised it or a later one.                                        *)
THEOREM EventsBooked == Spec => []EventsCarryTheirJob
<1>1. IInv => EventsCarryTheirJob
  BY DEF IInv
<1>2. QED BY <1>1, Invariance, PTL

(* What the server hears of a job's progress never goes back, over any       *)
(* number of connections, until a connection is made with a writer of an     *)
(* earlier one still at work.                                                *)
THEOREM ProgressNeverBack == Spec => ProgressMonotone
<1>1. IInv /\ [Next]_vars => [~crowded => \A j \in Jobs : heard[j] <= heard'[j]]_vars
  <2> SUFFICES ASSUME IInv, Next, ~crowded, NEW j \in Jobs
               PROVE  heard[j] <= heard'[j]
    OBVIOUS
  <2>1. heard[j] \in Nat
    BY Numbers DEF IInv
  <2>2. CASE heard' = heard
    BY <2>1, <2>2
  <2>3. ASSUME NEW w \in Writers, WriteMessage(w) PROVE heard[j] <= heard'[j]
    <3>1. /\ 1 \in DOMAIN held[w]
          /\ \/ heard'[j] = heard[j]
             \/ StatusOf(held[w][1], j) /\ heard'[j] = held[w][1].n
      BY <2>3, Written DEF IInv
    <3>2. StatusOf(held[w][1], j) => heard[j] <= held[w][1].n
      BY <3>1 DEF IInv, HeardInOrder
    <3>3. QED BY <2>1, <3>1, <3>2
  <2>4. QED
    BY <2>2, <2>3
       DEF Next, StartJob, ExecuteTask, SetChannels, SendStatus, LeaveLoop, ClearEventChannels,
           CloseChannels, ClearCurrentJob, SendTaskCompleted, Raise, Notice, SendLog, Forward,
           EndForward, Lose, Reconnect, Write, Take, Terminated, vars
<1>2. QED BY <1>1, Invariance, PTL DEF Spec, ProgressMonotone
===============================================================================
