----------------------------- MODULE JobRunProofs -----------------------------
(***************************************************************************)
(* Proofs about JobRun for any jobs, screenshots, controllers, requests    *)
(* and number of agents.  IInv is inductive; it is proved one conjunct at  *)
(* a time, each from the conjuncts it leans on, and the steps of one       *)
(* goroutine are taken together where they disturb the conjunct in the     *)
(* same way.                                                               *)
(***************************************************************************)
EXTENDS JobRun, TLAPS

(* Abbreviations that every step expands: tuples of variables, sets of       *)
(* program counters and the schemes the actions are built from.              *)
USE DEF vars, clientVars, jobVars, shotVars, ctrlVars, resVars, taskerVars, agentVars,
        Asked, Early, InLoop, Active, Over, Alive, Serving, Initialized,
        Goto, Step, Abort, Dies, Crash, Agent, ShotGoto

LEMMA InitIInv == Init => IInv
<1> SUFFICES ASSUME Init PROVE IInv
  OBVIOUS
<1>1. TypeOK
  <2>1. FlagsOK
    BY Zenon DEF Init, FlagsOK
  <2>2. QED
    BY <2>1, AgentsAssumption DEF Init, TypeOK
<1>2. JobExclusion /\ JobData /\ MutexHeld
  BY ThreadsAssumption DEF Init, JobExclusion, JobData, MutexHeld
<1>3. OnlyCachedControllerLives /\ TaskerChain /\ JobOwnsTasker
  BY DEF Init, OnlyCachedControllerLives, TaskerChain, JobOwnsTasker
<1>4. StopPending /\ StopLands /\ ServersConfined /\ AgentsConfined
  BY DEF Init, StopPending, StopLands, ServersConfined, AgentsConfined
<1>5. StopMarks /\ StopSparesOthers /\ ResourceOnTheWay /\ ResourceFitsJob
  BY DEF Init, StopMarks, StopSparesOthers, ResourceOnTheWay, ResourceFitsJob
<1>6. ControllerOnTheWay /\ ControllerFitsQuietJob /\ OnlyKnownCrashes
  BY DEF Init, ControllerOnTheWay, ControllerFitsQuietJob, ControllerFitsJob, OnlyKnownCrashes
<1>7. QED
  BY <1>1, <1>2, <1>3, <1>4, <1>5, <1>6 DEF IInv

(* The three flags, by a prover that treats them as formulas.                *)
LEMMA NextFlags ==
    ASSUME FlagsOK, [Next]_vars
    PROVE  FlagsOK'
<1> USE DEF FlagsOK, vars
<1>1. ASSUME NEW r \in Runs, RejectRunTask(r) \/ AcceptRunTask(r) PROVE FlagsOK'
  BY <1>1, Zenon DEF RejectRunTask, AcceptRunTask
<1>2. ASSUME NEW r \in Runs, Setup(r) PROVE FlagsOK'
  BY <1>2, Zenon DEF Setup, RunTaskBegin, ConnectController, Dial, LoadResource, Attach,
            PostBundle, PostBundleNil, RetireTasker, DestroyTasker, DestroyNil, CreateTasker, Bind,
            BindNil, StartAgent, ListAgent, HasBundle
<1>3. ASSUME NEW r \in Runs, Execute(r) PROVE FlagsOK'
  BY <1>3, Zenon DEF Execute, LoopCheck, PostTask, PostTaskNil, StopAgents, ClearCurrentJob,
              SendTaskCompleted, Leave
<1>4. ASSUME NEW r \in Runs, TaskEnds(r) PROVE FlagsOK'
  BY <1>4, Zenon DEF TaskEnds
<1>5. ASSUME NEW s \in Shots, RequestScreenshot(s) \/ Shot(s) PROVE FlagsOK'
  BY <1>5, Zenon DEF RequestScreenshot, Shot, PickController, TakeScreenshot, ShotDial
<1>6. ASSUME ReadLoop PROVE FlagsOK'
  BY <1>6, Zenon DEF ReadLoop, HandleStopTask, StopFlag, StopTest, StopPost, StopNil, Meeting
<1>7. ASSUME Cleanup \/ Exit \/ AgentExits \/ Gone \/ UNCHANGED vars PROVE FlagsOK'
  BY <1>7, Zenon DEF Cleanup, Exit, AgentExits, Gone
<1> HIDE DEF vars
<1>8. QED BY <1>1, <1>2, <1>3, <1>4, <1>5, <1>6, <1>7 DEF Next

(* Every variable keeps its type, given that the flags keep theirs. *)
LEMMA NextTypeOK ==
    ASSUME TypeOK, JobData, FlagsOK', [Next]_vars
    PROVE  TypeOK'
<1> USE ControllersAssumption, AgentsAssumption DEF TypeOK, vars, Destroyed, Retired
<1>1. ASSUME NEW r \in Runs, RejectRunTask(r) \/ AcceptRunTask(r) PROVE TypeOK'
  BY <1>1 DEF RejectRunTask, AcceptRunTask, CanAccept
<1>2. ASSUME NEW r \in Runs, Setup(r) PROVE TypeOK'
  <2>1. CASE RunTaskBegin(r)
    BY <2>1 DEF RunTaskBegin
  <2>2. CASE ConnectController(r)
    BY <2>2 DEF ConnectController
  <2>3. CASE Dial(r)
    BY <2>3 DEF Dial, JobData
  <2>4. CASE LoadResource(r)
    BY <2>4 DEF LoadResource
  <2>5. CASE Attach(r) \/ PostBundleNil(r)
    BY <2>5 DEF Attach, PostBundleNil
  <2>12. CASE PostBundle(r)
    BY <2>12 DEF PostBundle, JobData
  <2>6. CASE RetireTasker(r) \/ DestroyTasker(r) \/ DestroyNil(r)
    BY <2>6 DEF RetireTasker, DestroyTasker, DestroyNil
  <2>7. CASE CreateTasker(r)
    BY <2>7 DEF CreateTasker
  <2>8. CASE Bind(r)
    BY <2>8 DEF Bind
  <2>9. CASE BindNil(r)
    BY <2>9 DEF BindNil
  <2>10. CASE StartAgent(r) \/ ListAgent(r)
    BY <2>10 DEF StartAgent, ListAgent, JobData
  <2>11. QED BY <1>2, <2>1, <2>2, <2>3, <2>4, <2>5, <2>6, <2>7, <2>8, <2>9, <2>10, <2>12 DEF Setup
<1>3. ASSUME NEW r \in Runs, Execute(r) PROVE TypeOK'
  BY <1>3 DEF Execute, LoopCheck, PostTask, PostTaskNil, StopAgents, ClearCurrentJob,
              SendTaskCompleted, Leave
<1>4. ASSUME NEW r \in Runs, TaskEnds(r) PROVE TypeOK'
  BY <1>4 DEF TaskEnds, ItemDone, Leave
<1>5. ASSUME NEW s \in Shots, RequestScreenshot(s) \/ Shot(s) PROVE TypeOK'
  BY <1>5 DEF RequestScreenshot, Shot, PickController, TakeScreenshot, ShotDial
<1>6. ASSUME ReadLoop PROVE TypeOK'
  <2>1. CASE HandleStopTask
    BY <2>1 DEF HandleStopTask
  <2>2. CASE StopFlag
    BY <2>2 DEF StopFlag, Meeting
  <2>3. CASE StopTest \/ StopPost \/ StopNil
    BY <2>3 DEF StopTest, StopPost, StopNil
  <2>4. QED BY <1>6, <2>1, <2>2, <2>3 DEF ReadLoop
<1>7. ASSUME Cleanup \/ Exit \/ AgentExits \/ Gone \/ UNCHANGED vars PROVE TypeOK'
  BY <1>7 DEF Cleanup, Exit, AgentExits, Gone
<1> HIDE DEF vars
<1>8. QED BY <1>1, <1>2, <1>3, <1>4, <1>5, <1>6, <1>7 DEF Next

(* A stop touches none of the jobs' own data.                                *)
LEMMA ReadLoopFrame == ReadLoop => UNCHANGED <<currentJob, jpc, want, item, outcome, nextAgent>>
<1>1. HandleStopTask => UNCHANGED <<currentJob, jpc, want, item, outcome, nextAgent>>
  BY DEF HandleStopTask
<1>2. StopFlag => UNCHANGED <<currentJob, jpc, want, item, outcome, nextAgent>>
  BY DEF StopFlag
<1>3. StopTest \/ StopPost \/ StopNil => UNCHANGED <<currentJob, jpc, want, item, outcome, nextAgent>>
  BY DEF StopTest, StopPost, StopNil
<1>4. QED BY <1>1, <1>2, <1>3 DEF ReadLoop

(* Only an idle device takes a job, and only ClearCurrentJob makes it idle. *)
LEMMA NextJobExclusion ==
    ASSUME TypeOK, JobExclusion, [Next]_vars
    PROVE  JobExclusion'
<1> USE ThreadsAssumption DEF TypeOK, JobExclusion, vars
<1>1. ASSUME NEW r \in Runs, RejectRunTask(r) \/ AcceptRunTask(r) PROVE JobExclusion'
  BY <1>1 DEF RejectRunTask, AcceptRunTask, CanAccept
<1>2. ASSUME NEW r \in Runs, Setup(r) PROVE JobExclusion'
  BY <1>2 DEF Setup, RunTaskBegin, ConnectController, Dial, LoadResource, Attach,
            PostBundle, PostBundleNil, RetireTasker, DestroyTasker, DestroyNil, CreateTasker, Bind,
            BindNil, StartAgent, ListAgent, HasBundle
<1>3. ASSUME NEW r \in Runs, Execute(r) PROVE JobExclusion'
  BY <1>3 DEF Execute, LoopCheck, PostTask, PostTaskNil, StopAgents, ClearCurrentJob,
              SendTaskCompleted, Leave
<1>4. ASSUME NEW r \in Runs, TaskEnds(r) PROVE JobExclusion'
  BY <1>4 DEF TaskEnds, ItemDone, Leave
<1>5. ASSUME NEW s \in Shots, RequestScreenshot(s) \/ Shot(s) PROVE JobExclusion'
  BY <1>5 DEF RequestScreenshot, Shot, PickController, TakeScreenshot, ShotDial
<1>6. ASSUME ReadLoop PROVE JobExclusion'
  BY <1>6, ReadLoopFrame
<1>7. ASSUME Cleanup \/ Exit \/ AgentExits \/ Gone \/ UNCHANGED vars PROVE JobExclusion'
  BY <1>7 DEF Cleanup, Exit, AgentExits, Gone
<1> HIDE DEF vars
<1>8. QED BY <1>1, <1>2, <1>3, <1>4, <1>5, <1>6, <1>7 DEF Next

(* A job's data follow its program counter. *)
LEMMA NextJobData ==
    ASSUME TypeOK, JobExclusion, JobData, [Next]_vars
    PROVE  JobData'
<1> USE RequestsAssumption DEF TypeOK, JobExclusion, JobData, MoreItems, vars
<1>1. ASSUME NEW r \in Runs, RejectRunTask(r) \/ AcceptRunTask(r) PROVE JobData'
  BY <1>1 DEF RejectRunTask, AcceptRunTask, CanAccept
<1>2. ASSUME NEW r \in Runs, Setup(r) PROVE JobData'
  BY <1>2 DEF Setup, RunTaskBegin, ConnectController, Dial, LoadResource, Attach,
            PostBundle, PostBundleNil, RetireTasker, DestroyTasker, DestroyNil, CreateTasker, Bind,
            BindNil, StartAgent, ListAgent, HasBundle
<1>3. ASSUME NEW r \in Runs, Execute(r) PROVE JobData'
  BY <1>3 DEF Execute, LoopCheck, PostTask, PostTaskNil, StopAgents, ClearCurrentJob,
              SendTaskCompleted, Leave
<1>4. ASSUME NEW r \in Runs, TaskEnds(r) PROVE JobData'
  BY <1>4 DEF TaskEnds, ItemDone, Leave
<1>5. ASSUME NEW s \in Shots, RequestScreenshot(s) \/ Shot(s) PROVE JobData'
  BY <1>5 DEF RequestScreenshot, Shot, PickController, TakeScreenshot, ShotDial
<1>6. ASSUME ReadLoop PROVE JobData'
  BY <1>6, ReadLoopFrame DEF MoreItems
<1>7. ASSUME Cleanup \/ Exit \/ AgentExits \/ Gone \/ UNCHANGED vars PROVE JobData'
  BY <1>7 DEF Cleanup, Exit, AgentExits, Gone
<1> HIDE DEF vars
<1>8. QED BY <1>1, <1>2, <1>3, <1>4, <1>5, <1>6, <1>7 DEF Next

(* Every path out of a dial releases the mutex. *)
LEMMA NextMutexHeld ==
    ASSUME TypeOK, MutexHeld, [Next]_vars
    PROVE  MutexHeld'
<1> USE ThreadsAssumption DEF TypeOK, MutexHeld, vars
<1>1. ASSUME NEW r \in Runs, RejectRunTask(r) \/ AcceptRunTask(r) PROVE MutexHeld'
  BY <1>1 DEF RejectRunTask, AcceptRunTask, CanAccept
<1>2. ASSUME NEW r \in Runs, Setup(r) PROVE MutexHeld'
  BY <1>2 DEF Setup, RunTaskBegin, ConnectController, Dial, LoadResource, Attach,
            PostBundle, PostBundleNil, RetireTasker, DestroyTasker, DestroyNil, CreateTasker, Bind,
            BindNil, StartAgent, ListAgent, HasBundle
<1>3. ASSUME NEW r \in Runs, Execute(r) PROVE MutexHeld'
  BY <1>3 DEF Execute, LoopCheck, PostTask, PostTaskNil, StopAgents, ClearCurrentJob,
              SendTaskCompleted, Leave
<1>4. ASSUME NEW r \in Runs, TaskEnds(r) PROVE MutexHeld'
  BY <1>4 DEF TaskEnds, ItemDone, Leave
<1>5. ASSUME NEW s \in Shots, RequestScreenshot(s) \/ Shot(s) PROVE MutexHeld'
  BY <1>5 DEF RequestScreenshot, Shot, PickController, TakeScreenshot, ShotDial
<1>6. ASSUME ReadLoop PROVE MutexHeld'
  BY <1>6 DEF ReadLoop, HandleStopTask, StopFlag, StopTest, StopPost, StopNil, Meeting
<1>7. ASSUME Cleanup \/ Exit \/ AgentExits \/ Gone \/ UNCHANGED vars PROVE MutexHeld'
  BY <1>7 DEF Cleanup, Exit, AgentExits, Gone
<1> HIDE DEF vars
<1>8. QED BY <1>1, <1>2, <1>3, <1>4, <1>5, <1>6, <1>7 DEF Next

(* A controller is made only when none is cached, and only then cached. *)
LEMMA NextOnlyCached ==
    ASSUME TypeOK, MutexHeld, OnlyCachedControllerLives, [Next]_vars
    PROVE  OnlyCachedControllerLives'
<1> USE ThreadsAssumption DEF TypeOK, MutexHeld, OnlyCachedControllerLives, Destroyed, vars
<1>1. ASSUME NEW r \in Runs, RejectRunTask(r) \/ AcceptRunTask(r) PROVE OnlyCachedControllerLives'
  BY <1>1 DEF RejectRunTask, AcceptRunTask, CanAccept
<1>2. ASSUME NEW r \in Runs, Setup(r) PROVE OnlyCachedControllerLives'
  BY <1>2 DEF Setup, RunTaskBegin, ConnectController, Dial, LoadResource, Attach,
            PostBundle, PostBundleNil, RetireTasker, DestroyTasker, DestroyNil, CreateTasker, Bind,
            BindNil, StartAgent, ListAgent, HasBundle
<1>3. ASSUME NEW r \in Runs, Execute(r) PROVE OnlyCachedControllerLives'
  BY <1>3 DEF Execute, LoopCheck, PostTask, PostTaskNil, StopAgents, ClearCurrentJob,
              SendTaskCompleted, Leave
<1>4. ASSUME NEW r \in Runs, TaskEnds(r) PROVE OnlyCachedControllerLives'
  BY <1>4 DEF TaskEnds, ItemDone, Leave
<1>5. ASSUME NEW s \in Shots, RequestScreenshot(s) \/ Shot(s) PROVE OnlyCachedControllerLives'
  BY <1>5 DEF RequestScreenshot, Shot, PickController, TakeScreenshot, ShotDial
<1>6. ASSUME ReadLoop PROVE OnlyCachedControllerLives'
  BY <1>6 DEF ReadLoop, HandleStopTask, StopFlag, StopTest, StopPost, StopNil, Meeting
<1>7. ASSUME Cleanup \/ Exit \/ AgentExits \/ Gone \/ UNCHANGED vars PROVE OnlyCachedControllerLives'
  BY <1>7 DEF Cleanup, Exit, AgentExits, Gone
<1> HIDE DEF vars
<1>8. QED BY <1>1, <1>2, <1>3, <1>4, <1>5, <1>6, <1>7 DEF Next

(* The one tasker that may live is the one the wrapper points to. *)
LEMMA NextTaskerChain ==
    ASSUME TypeOK, JobExclusion, TaskerChain, [Next]_vars
    PROVE  TaskerChain'
<1> USE DEF TypeOK, JobExclusion, TaskerChain, Retired, vars
<1>1. ASSUME NEW r \in Runs, RejectRunTask(r) \/ AcceptRunTask(r) PROVE TaskerChain'
  BY <1>1 DEF RejectRunTask, AcceptRunTask, CanAccept
<1>2. ASSUME NEW r \in Runs, Setup(r) PROVE TaskerChain'
  <2>1. CASE CreateTasker(r)
    <3>1. taskers' \subseteq {tasker'} /\ jpc'[r] \notin {"destroy", "create"} /\ proc' = proc
      BY <2>1 DEF CreateTasker
    <3>2. \A q \in Runs \ {r} : jpc'[q] = jpc[q] /\ jpc[q] \notin Active
      BY <2>1 DEF CreateTasker
    <3>3. QED BY <3>1, <3>2
  <2>2. CASE RetireTasker(r)
    BY <2>2, ThreadsAssumption DEF RetireTasker
  <2>6. CASE DestroyTasker(r)
    <3>1. taskers' = {} /\ jpc'[r] = "create" /\ UNCHANGED <<tasker, proc>>
      BY <2>6 DEF DestroyTasker
    <3>2. \A q \in Runs \ {r} : jpc'[q] = jpc[q]
      BY <2>6 DEF DestroyTasker
    <3>3. QED BY <3>1, <3>2
  <2>3. CASE BindNil(r) \/ PostBundleNil(r) \/ DestroyNil(r)
    BY <2>3 DEF BindNil, PostBundleNil, DestroyNil
  <2>4. CASE /\ UNCHANGED <<tasker, taskers, proc>> /\ jpc'[r] \notin {"destroy", "create"}
             /\ \A q \in Runs \ {r} : jpc'[q] = jpc[q]
    BY <2>4
  <2>5. QED
    BY <1>2, <2>1, <2>2, <2>3, <2>4, <2>6
    DEF Setup, RunTaskBegin, ConnectController, Dial, LoadResource, Attach, PostBundle, Bind,
        StartAgent, ListAgent
<1>3. ASSUME NEW r \in Runs, Execute(r) PROVE TaskerChain'
  BY <1>3 DEF Execute, LoopCheck, PostTask, PostTaskNil, StopAgents, ClearCurrentJob,
              SendTaskCompleted, Leave
<1>4. ASSUME NEW r \in Runs, TaskEnds(r) PROVE TaskerChain'
  BY <1>4 DEF TaskEnds, ItemDone, Leave
<1>5. ASSUME NEW s \in Shots, RequestScreenshot(s) \/ Shot(s) PROVE TaskerChain'
  BY <1>5 DEF RequestScreenshot, Shot, PickController, TakeScreenshot, ShotDial
<1>6. ASSUME ReadLoop PROVE TaskerChain'
  BY <1>6 DEF ReadLoop, HandleStopTask, StopFlag, StopTest, StopPost, StopNil, Meeting
<1>7. ASSUME Cleanup \/ Exit \/ AgentExits \/ Gone \/ UNCHANGED vars PROVE TaskerChain'
  BY <1>7 DEF Cleanup, Exit, AgentExits, Gone
<1> HIDE DEF vars
<1>8. QED BY <1>1, <1>2, <1>3, <1>4, <1>5, <1>6, <1>7 DEF Next

(* Between two jobs nothing but a job replaces the tasker. *)
LEMMA NextJobOwnsTasker ==
    ASSUME TypeOK, JobExclusion, TaskerChain, JobOwnsTasker, [Next]_vars
    PROVE  JobOwnsTasker'
<1> USE DEF TypeOK, JobExclusion, TaskerChain, JobOwnsTasker, Retired, vars
<1>1. ASSUME NEW r \in Runs, RejectRunTask(r) \/ AcceptRunTask(r) PROVE JobOwnsTasker'
  BY <1>1 DEF RejectRunTask, AcceptRunTask, CanAccept
<1>2. ASSUME NEW r \in Runs, Setup(r) PROVE JobOwnsTasker'
  BY <1>2 DEF Setup, RunTaskBegin, ConnectController, Dial, LoadResource, Attach,
            PostBundle, PostBundleNil, RetireTasker, DestroyTasker, DestroyNil, CreateTasker, Bind,
            BindNil, StartAgent, ListAgent, HasBundle
<1>3. ASSUME NEW r \in Runs, Execute(r) PROVE JobOwnsTasker'
  BY <1>3 DEF Execute, LoopCheck, PostTask, PostTaskNil, StopAgents, ClearCurrentJob,
              SendTaskCompleted, Leave
<1>4. ASSUME NEW r \in Runs, TaskEnds(r) PROVE JobOwnsTasker'
  BY <1>4 DEF TaskEnds, ItemDone, Leave
<1>5. ASSUME NEW s \in Shots, RequestScreenshot(s) \/ Shot(s) PROVE JobOwnsTasker'
  BY <1>5 DEF RequestScreenshot, Shot, PickController, TakeScreenshot, ShotDial
<1>6. ASSUME ReadLoop PROVE JobOwnsTasker'
  BY <1>6 DEF ReadLoop, HandleStopTask, StopFlag, StopTest, StopPost, StopNil, Meeting
<1>7. ASSUME Cleanup \/ Exit \/ AgentExits \/ Gone \/ UNCHANGED vars PROVE JobOwnsTasker'
  BY <1>7 DEF Cleanup, Exit, AgentExits, Gone
<1> HIDE DEF vars
<1>8. QED BY <1>1, <1>2, <1>3, <1>4, <1>5, <1>6, <1>7 DEF Next

(* The flag that a landed stop raised is lowered by no one until the job has left its loop. *)
LEMMA NextStopPending ==
    ASSUME TypeOK, JobExclusion, JobData, StopPending, [Next]_vars
    PROVE  StopPending'
<1> USE DEF TypeOK, JobExclusion, JobData, StopPending, MoreItems, vars
<1>1. ASSUME NEW r \in Runs, RejectRunTask(r) \/ AcceptRunTask(r) PROVE StopPending'
  BY <1>1 DEF RejectRunTask, AcceptRunTask, CanAccept
<1>2. ASSUME NEW r \in Runs, Setup(r) PROVE StopPending'
  BY <1>2 DEF Setup, RunTaskBegin, ConnectController, Dial, LoadResource, Attach,
            PostBundle, PostBundleNil, RetireTasker, DestroyTasker, DestroyNil, CreateTasker, Bind,
            BindNil, StartAgent, ListAgent, HasBundle
<1>3. ASSUME NEW r \in Runs, Execute(r) PROVE StopPending'
  BY <1>3 DEF Execute, LoopCheck, PostTask, PostTaskNil, StopAgents, ClearCurrentJob,
              SendTaskCompleted, Leave
<1>4. ASSUME NEW r \in Runs, TaskEnds(r) PROVE StopPending'
  BY <1>4 DEF TaskEnds, ItemDone, Leave
<1>5. ASSUME NEW s \in Shots, RequestScreenshot(s) \/ Shot(s) PROVE StopPending'
  BY <1>5 DEF RequestScreenshot, Shot, PickController, TakeScreenshot, ShotDial
<1>6. ASSUME ReadLoop PROVE StopPending'
  <2>1. CASE HandleStopTask \/ StopTest \/ StopPost \/ StopNil
    <3>1. UNCHANGED <<jobVars, stopRequested>>
      BY <2>1 DEF HandleStopTask, StopTest, StopPost, StopNil
    <3>2. QED BY <3>1
  <2>2. CASE StopFlag
    <3>1. stopRequested'
      BY <2>2, Zenon DEF StopFlag
    <3>2. UNCHANGED <<jpc, want, item, outcome>>
      BY <2>2 DEF StopFlag
    <3>3. \A r \in Runs : stopped'[r] \in {stopped[r], Meeting(r)}
                       /\ (r # currentJob => stopped'[r] = stopped[r])
      BY <2>2 DEF StopFlag
    <3>4. QED BY <3>1, <3>2, <3>3 DEF Meeting
  <2>3. QED BY <1>6, <2>1, <2>2 DEF ReadLoop
<1>7. ASSUME Cleanup \/ Exit \/ AgentExits \/ Gone \/ UNCHANGED vars PROVE StopPending'
  BY <1>7 DEF Cleanup, Exit, AgentExits, Gone
<1> HIDE DEF vars
<1>8. QED BY <1>1, <1>2, <1>3, <1>4, <1>5, <1>6, <1>7 DEF Next

(* The loop is left as completed only by a job no stop has landed on. *)
LEMMA NextStopLands ==
    ASSUME TypeOK, JobExclusion, JobData, StopPending, StopLands, [Next]_vars
    PROVE  StopLands'
<1> USE DEF TypeOK, JobExclusion, JobData, StopPending, StopLands, MoreItems, vars
<1>1. ASSUME NEW r \in Runs, RejectRunTask(r) \/ AcceptRunTask(r) PROVE StopLands'
  BY <1>1 DEF RejectRunTask, AcceptRunTask, CanAccept
<1>2. ASSUME NEW r \in Runs, Setup(r) PROVE StopLands'
  BY <1>2 DEF Setup, RunTaskBegin, ConnectController, Dial, LoadResource, Attach,
            PostBundle, PostBundleNil, RetireTasker, DestroyTasker, DestroyNil, CreateTasker, Bind,
            BindNil, StartAgent, ListAgent, HasBundle
<1>3. ASSUME NEW r \in Runs, Execute(r) PROVE StopLands'
  BY <1>3 DEF Execute, LoopCheck, PostTask, PostTaskNil, StopAgents, ClearCurrentJob,
              SendTaskCompleted, Leave
<1>4. ASSUME NEW r \in Runs, TaskEnds(r) PROVE StopLands'
  BY <1>4 DEF TaskEnds, ItemDone, Leave
<1>5. ASSUME NEW s \in Shots, RequestScreenshot(s) \/ Shot(s) PROVE StopLands'
  BY <1>5 DEF RequestScreenshot, Shot, PickController, TakeScreenshot, ShotDial
<1>6. ASSUME ReadLoop PROVE StopLands'
  <2>1. CASE HandleStopTask \/ StopTest \/ StopPost \/ StopNil
    <3>1. UNCHANGED <<jobVars, stopRequested>>
      BY <2>1 DEF HandleStopTask, StopTest, StopPost, StopNil
    <3>2. QED BY <3>1
  <2>2. CASE StopFlag
    <3>1. stopRequested'
      BY <2>2, Zenon DEF StopFlag
    <3>2. UNCHANGED <<jpc, want, item, outcome>>
      BY <2>2 DEF StopFlag
    <3>3. \A r \in Runs : stopped'[r] \in {stopped[r], Meeting(r)}
                       /\ (r # currentJob => stopped'[r] = stopped[r])
      BY <2>2 DEF StopFlag
    <3>4. QED BY <3>1, <3>2, <3>3 DEF Meeting
  <2>3. QED BY <1>6, <2>1, <2>2 DEF ReadLoop
<1>7. ASSUME Cleanup \/ Exit \/ AgentExits \/ Gone \/ UNCHANGED vars PROVE StopLands'
  BY <1>7 DEF Cleanup, Exit, AgentExits, Gone
<1> HIDE DEF vars
<1>8. QED BY <1>1, <1>2, <1>3, <1>4, <1>5, <1>6, <1>7 DEF Next

(* Servers are recorded and dropped within one job. *)
LEMMA NextServersConfined ==
    ASSUME TypeOK, JobExclusion, ServersConfined, [Next]_vars
    PROVE  ServersConfined'
<1> USE DEF TypeOK, JobExclusion, ServersConfined, vars
<1>1. ASSUME NEW r \in Runs, RejectRunTask(r) \/ AcceptRunTask(r) PROVE ServersConfined'
  BY <1>1 DEF RejectRunTask, AcceptRunTask, CanAccept
<1>2. ASSUME NEW r \in Runs, Setup(r) PROVE ServersConfined'
  BY <1>2 DEF Setup, RunTaskBegin, ConnectController, Dial, LoadResource, Attach,
            PostBundle, PostBundleNil, RetireTasker, DestroyTasker, DestroyNil, CreateTasker, Bind,
            BindNil, StartAgent, ListAgent, HasBundle
<1>3. ASSUME NEW r \in Runs, Execute(r) PROVE ServersConfined'
  BY <1>3 DEF Execute, LoopCheck, PostTask, PostTaskNil, StopAgents, ClearCurrentJob,
              SendTaskCompleted, Leave
<1>4. ASSUME NEW r \in Runs, TaskEnds(r) PROVE ServersConfined'
  BY <1>4 DEF TaskEnds, ItemDone, Leave
<1>5. ASSUME NEW s \in Shots, RequestScreenshot(s) \/ Shot(s) PROVE ServersConfined'
  BY <1>5 DEF RequestScreenshot, Shot, PickController, TakeScreenshot, ShotDial
<1>6. ASSUME ReadLoop PROVE ServersConfined'
  BY <1>6 DEF ReadLoop, HandleStopTask, StopFlag, StopTest, StopPost, StopNil, Meeting
<1>7. ASSUME Cleanup \/ Exit \/ AgentExits \/ Gone \/ UNCHANGED vars PROVE ServersConfined'
  BY <1>7 DEF Cleanup, Exit, AgentExits, Gone
<1> HIDE DEF vars
<1>8. QED BY <1>1, <1>2, <1>3, <1>4, <1>5, <1>6, <1>7 DEF Next

(* A process is on the list, or about to be put there, and killed with it. *)
LEMMA NextAgentsConfined ==
    ASSUME TypeOK, JobExclusion, ServersConfined, AgentsConfined, [Next]_vars
    PROVE  AgentsConfined'
<1> USE DEF TypeOK, JobExclusion, ServersConfined, AgentsConfined, vars
<1>1. ASSUME NEW r \in Runs, RejectRunTask(r) \/ AcceptRunTask(r) PROVE AgentsConfined'
  BY <1>1 DEF RejectRunTask, AcceptRunTask, CanAccept
<1>2. ASSUME NEW r \in Runs, Setup(r) PROVE AgentsConfined'
  BY <1>2 DEF Setup, RunTaskBegin, ConnectController, Dial, LoadResource, Attach,
            PostBundle, PostBundleNil, RetireTasker, DestroyTasker, DestroyNil, CreateTasker, Bind,
            BindNil, StartAgent, ListAgent, HasBundle
<1>3. ASSUME NEW r \in Runs, Execute(r) PROVE AgentsConfined'
  BY <1>3 DEF Execute, LoopCheck, PostTask, PostTaskNil, StopAgents, ClearCurrentJob,
              SendTaskCompleted, Leave
<1>4. ASSUME NEW r \in Runs, TaskEnds(r) PROVE AgentsConfined'
  BY <1>4 DEF TaskEnds, ItemDone, Leave
<1>5. ASSUME NEW s \in Shots, RequestScreenshot(s) \/ Shot(s) PROVE AgentsConfined'
  BY <1>5 DEF RequestScreenshot, Shot, PickController, TakeScreenshot, ShotDial
<1>6. ASSUME ReadLoop PROVE AgentsConfined'
  BY <1>6 DEF ReadLoop, HandleStopTask, StopFlag, StopTest, StopPost, StopNil, Meeting
<1>7. ASSUME Cleanup \/ Exit \/ AgentExits \/ Gone \/ UNCHANGED vars PROVE AgentsConfined'
  BY <1>7 DEF Cleanup, Exit, AgentExits, Gone
<1> HIDE DEF vars
<1>8. QED BY <1>1, <1>2, <1>3, <1>4, <1>5, <1>6, <1>7 DEF Next

(* StopFlag marks the job it meets; no job is accepted before StopPost. *)
LEMMA NextStopMarks ==
    ASSUME TypeOK, JobExclusion, StopMarks, [Next]_vars
    PROVE  StopMarks'
<1> USE DEF TypeOK, JobExclusion, StopMarks, vars
<1>1. ASSUME NEW r \in Runs, RejectRunTask(r) \/ AcceptRunTask(r) PROVE StopMarks'
  BY <1>1 DEF RejectRunTask, AcceptRunTask, CanAccept
<1>2. ASSUME NEW r \in Runs, Setup(r) PROVE StopMarks'
  BY <1>2 DEF Setup, RunTaskBegin, ConnectController, Dial, LoadResource, Attach,
            PostBundle, PostBundleNil, RetireTasker, DestroyTasker, DestroyNil, CreateTasker, Bind,
            BindNil, StartAgent, ListAgent, HasBundle
<1>3. ASSUME NEW r \in Runs, Execute(r) PROVE StopMarks'
  BY <1>3 DEF Execute, LoopCheck, PostTask, PostTaskNil, StopAgents, ClearCurrentJob,
              SendTaskCompleted, Leave
<1>4. ASSUME NEW r \in Runs, TaskEnds(r) PROVE StopMarks'
  BY <1>4 DEF TaskEnds, ItemDone, Leave
<1>5. ASSUME NEW s \in Shots, RequestScreenshot(s) \/ Shot(s) PROVE StopMarks'
  BY <1>5 DEF RequestScreenshot, Shot, PickController, TakeScreenshot, ShotDial
<1>6. ASSUME ReadLoop PROVE StopMarks'
  <2>1. CASE HandleStopTask \/ StopTest \/ StopPost \/ StopNil
    <3>1. UNCHANGED <<jpc, stopped>> /\ (reader' \in {"test", "post"} => reader \in {"test", "post"})
      BY <2>1 DEF HandleStopTask, StopTest, StopPost, StopNil
    <3>2. QED BY <3>1
  <2>2. CASE StopFlag
    <3>1. \A r \in Runs : jpc[r] \in Active => r = currentJob
      BY <2>2
    <3>2. ASSUME NEW r \in Runs, r = currentJob PROVE stopped'[r] # "no"
      BY <2>2, <3>2, ThreadsAssumption DEF StopFlag, Meeting
    <3>3. UNCHANGED jpc
      BY <2>2 DEF StopFlag
    <3>4. QED BY <3>1, <3>2, <3>3
  <2>3. QED BY <1>6, <2>1, <2>2 DEF ReadLoop
<1>7. ASSUME Cleanup \/ Exit \/ AgentExits \/ Gone \/ UNCHANGED vars PROVE StopMarks'
  BY <1>7 DEF Cleanup, Exit, AgentExits, Gone
<1> HIDE DEF vars
<1>8. QED BY <1>1, <1>2, <1>3, <1>4, <1>5, <1>6, <1>7 DEF Next

(* RunTaskBegin lowers the flag, PostTask the interruption, before a job meets either. *)
LEMMA NextStopSparesOthers ==
    ASSUME TypeOK, JobExclusion, StopMarks, StopSparesOthers, [Next]_vars
    PROVE  StopSparesOthers'
<1> USE DEF TypeOK, JobExclusion, StopMarks, StopSparesOthers, vars
<1>1. ASSUME NEW r \in Runs, RejectRunTask(r) \/ AcceptRunTask(r) PROVE StopSparesOthers'
  BY <1>1 DEF RejectRunTask, AcceptRunTask, CanAccept
<1>2. ASSUME NEW r \in Runs, Setup(r) PROVE StopSparesOthers'
  BY <1>2 DEF Setup, RunTaskBegin, ConnectController, Dial, LoadResource, Attach,
            PostBundle, PostBundleNil, RetireTasker, DestroyTasker, DestroyNil, CreateTasker, Bind,
            BindNil, StartAgent, ListAgent, HasBundle
<1>3. ASSUME NEW r \in Runs, Execute(r) PROVE StopSparesOthers'
  BY <1>3 DEF Execute, LoopCheck, PostTask, PostTaskNil, StopAgents, ClearCurrentJob,
              SendTaskCompleted, Leave
<1>4. ASSUME NEW r \in Runs, TaskEnds(r) PROVE StopSparesOthers'
  BY <1>4 DEF TaskEnds, ItemDone, Leave
<1>5. ASSUME NEW s \in Shots, RequestScreenshot(s) \/ Shot(s) PROVE StopSparesOthers'
  BY <1>5 DEF RequestScreenshot, Shot, PickController, TakeScreenshot, ShotDial
<1>6. ASSUME ReadLoop PROVE StopSparesOthers'
  <2>1. CASE HandleStopTask \/ StopTest \/ StopNil
    <3>1. UNCHANGED <<jpc, stopped, stopRequested, halted>>
      BY <2>1 DEF HandleStopTask, StopTest, StopNil
    <3>2. QED BY <3>1
  <2>2. CASE StopFlag
    <3>1. StopMarks' /\ reader' = "test"
      BY <1>6, <2>2, NextStopMarks DEF Next, StopFlag
    <3>2. UNCHANGED jpc
      BY <2>2 DEF StopFlag
    <3>3. \A r \in Runs : jpc'[r] \in Early \cup InLoop => stopped'[r] # "no"
      BY <3>1
    <3>4. QED BY <3>3
  <2>3. CASE StopPost
    <3>1. UNCHANGED <<jpc, stopped>>
      BY <2>3 DEF StopPost
    <3>2. \A r \in Runs : jpc[r] \in Early \cup InLoop => stopped[r] # "no"
      BY <2>3 DEF StopPost
    <3>3. QED BY <3>1, <3>2
  <2>4. QED BY <1>6, <2>1, <2>2, <2>3 DEF ReadLoop
<1>7. ASSUME Cleanup \/ Exit \/ AgentExits \/ Gone \/ UNCHANGED vars PROVE StopSparesOthers'
  BY <1>7 DEF Cleanup, Exit, AgentExits, Gone
<1> HIDE DEF vars
<1>8. QED BY <1>1, <1>2, <1>3, <1>4, <1>5, <1>6, <1>7 DEF Next

(* Only the job at hand replaces the resource, and Cleanup, after which nothing serves. *)
LEMMA NextResourceOnTheWay ==
    ASSUME TypeOK, JobExclusion, JobData, ResourceOnTheWay, [Next]_vars
    PROVE  ResourceOnTheWay'
<1> USE DEF TypeOK, JobExclusion, JobData, ResourceOnTheWay, vars
<1>1. ASSUME NEW r \in Runs, RejectRunTask(r) \/ AcceptRunTask(r) PROVE ResourceOnTheWay'
  BY <1>1 DEF RejectRunTask, AcceptRunTask, CanAccept
<1>2. ASSUME NEW r \in Runs, Setup(r) PROVE ResourceOnTheWay'
  BY <1>2 DEF Setup, RunTaskBegin, ConnectController, Dial, LoadResource, Attach,
            PostBundle, PostBundleNil, RetireTasker, DestroyTasker, DestroyNil, CreateTasker, Bind,
            BindNil, StartAgent, ListAgent, HasBundle, ResourceCached
<1>3. ASSUME NEW r \in Runs, Execute(r) PROVE ResourceOnTheWay'
  BY <1>3 DEF Execute, LoopCheck, PostTask, PostTaskNil, StopAgents, ClearCurrentJob,
              SendTaskCompleted, Leave
<1>4. ASSUME NEW r \in Runs, TaskEnds(r) PROVE ResourceOnTheWay'
  BY <1>4 DEF TaskEnds, ItemDone, Leave
<1>5. ASSUME NEW s \in Shots, RequestScreenshot(s) \/ Shot(s) PROVE ResourceOnTheWay'
  BY <1>5 DEF RequestScreenshot, Shot, PickController, TakeScreenshot, ShotDial
<1>6. ASSUME ReadLoop PROVE ResourceOnTheWay'
  <2>1. UNCHANGED <<jpc, want, resVars>> /\ (Serving' => Serving)
    BY <1>6 DEF ReadLoop, HandleStopTask, StopFlag, StopTest, StopPost, StopNil
  <2>2. QED BY <2>1
<1>7. ASSUME Cleanup \/ Exit \/ AgentExits \/ Gone \/ UNCHANGED vars PROVE ResourceOnTheWay'
  BY <1>7 DEF Cleanup, Exit, AgentExits, Gone
<1> HIDE DEF vars
<1>8. QED BY <1>1, <1>2, <1>3, <1>4, <1>5, <1>6, <1>7 DEF Next

(* Nor does anybody touch it while the job executes. *)
LEMMA NextResourceFitsJob ==
    ASSUME TypeOK, JobExclusion, JobData, ResourceOnTheWay, ResourceFitsJob, [Next]_vars
    PROVE  ResourceFitsJob'
<1> USE DEF TypeOK, JobExclusion, JobData, ResourceOnTheWay, ResourceFitsJob, vars
<1>1. ASSUME NEW r \in Runs, RejectRunTask(r) \/ AcceptRunTask(r) PROVE ResourceFitsJob'
  BY <1>1 DEF RejectRunTask, AcceptRunTask, CanAccept
<1>2. ASSUME NEW r \in Runs, Setup(r) PROVE ResourceFitsJob'
  BY <1>2 DEF Setup, RunTaskBegin, ConnectController, Dial, LoadResource, Attach,
            PostBundle, PostBundleNil, RetireTasker, DestroyTasker, DestroyNil, CreateTasker, Bind,
            BindNil, StartAgent, ListAgent, HasBundle
<1>3. ASSUME NEW r \in Runs, Execute(r) PROVE ResourceFitsJob'
  BY <1>3 DEF Execute, LoopCheck, PostTask, PostTaskNil, StopAgents, ClearCurrentJob,
              SendTaskCompleted, Leave
<1>4. ASSUME NEW r \in Runs, TaskEnds(r) PROVE ResourceFitsJob'
  BY <1>4 DEF TaskEnds, ItemDone, Leave
<1>5. ASSUME NEW s \in Shots, RequestScreenshot(s) \/ Shot(s) PROVE ResourceFitsJob'
  BY <1>5 DEF RequestScreenshot, Shot, PickController, TakeScreenshot, ShotDial
<1>6. ASSUME ReadLoop PROVE ResourceFitsJob'
  <2>1. UNCHANGED <<jpc, want, resVars>> /\ (Serving' => Serving)
    BY <1>6 DEF ReadLoop, HandleStopTask, StopFlag, StopTest, StopPost, StopNil
  <2>2. QED BY <2>1
<1>7. ASSUME Cleanup \/ Exit \/ AgentExits \/ Gone \/ UNCHANGED vars PROVE ResourceFitsJob'
  BY <1>7 DEF Cleanup, Exit, AgentExits, Gone
<1> HIDE DEF vars
<1>8. QED BY <1>1, <1>2, <1>3, <1>4, <1>5, <1>6, <1>7 DEF Next

(* Without a screenshot only the job at hand replaces the controller. *)
LEMMA NextControllerOnTheWay ==
    ASSUME TypeOK, JobExclusion, JobData, MutexHeld, ControllerOnTheWay, [Next]_vars
    PROVE  ControllerOnTheWay'
<1> USE ThreadsAssumption, ControllersAssumption DEF TypeOK, JobExclusion, JobData, MutexHeld, ControllerOnTheWay, Quiet, ControllerCached, vars
<1>1. ASSUME NEW r \in Runs, RejectRunTask(r) \/ AcceptRunTask(r) PROVE ControllerOnTheWay'
  BY <1>1 DEF RejectRunTask, AcceptRunTask, CanAccept
<1>2. ASSUME NEW r \in Runs, Setup(r) PROVE ControllerOnTheWay'
  BY <1>2 DEF Setup, RunTaskBegin, ConnectController, Dial, LoadResource, Attach,
            PostBundle, PostBundleNil, RetireTasker, DestroyTasker, DestroyNil, CreateTasker, Bind,
            BindNil, StartAgent, ListAgent, HasBundle
<1>3. ASSUME NEW r \in Runs, Execute(r) PROVE ControllerOnTheWay'
  BY <1>3 DEF Execute, LoopCheck, PostTask, PostTaskNil, StopAgents, ClearCurrentJob,
              SendTaskCompleted, Leave
<1>4. ASSUME NEW r \in Runs, TaskEnds(r) PROVE ControllerOnTheWay'
  BY <1>4 DEF TaskEnds, ItemDone, Leave
<1>5. ASSUME NEW s \in Shots, RequestScreenshot(s) \/ Shot(s) PROVE ControllerOnTheWay'
  BY <1>5 DEF RequestScreenshot, Shot, PickController, TakeScreenshot, ShotDial
<1>6. ASSUME ReadLoop PROVE ControllerOnTheWay'
  BY <1>6 DEF ReadLoop, HandleStopTask, StopFlag, StopTest, StopPost, StopNil, Meeting
<1>7. ASSUME Cleanup \/ Exit \/ AgentExits \/ Gone \/ UNCHANGED vars PROVE ControllerOnTheWay'
  BY <1>7 DEF Cleanup, Exit, AgentExits, Gone
<1> HIDE DEF vars
<1>8. QED BY <1>1, <1>2, <1>3, <1>4, <1>5, <1>6, <1>7 DEF Next

(* Bind takes the controller that is cached, and that one is alive. *)
LEMMA NextControllerFits ==
    ASSUME TypeOK, JobExclusion, JobData, MutexHeld, OnlyCachedControllerLives,
           ControllerOnTheWay, ControllerFitsQuietJob, [Next]_vars
    PROVE  ControllerFitsQuietJob'
<1> USE ThreadsAssumption DEF TypeOK, JobExclusion, JobData, MutexHeld, OnlyCachedControllerLives,
        ControllerOnTheWay, ControllerFitsQuietJob, ControllerFitsJob, Quiet, Bound, Destroyed, vars
<1>1. ASSUME NEW r \in Runs, RejectRunTask(r) \/ AcceptRunTask(r) PROVE ControllerFitsQuietJob'
  BY <1>1 DEF RejectRunTask, AcceptRunTask, CanAccept
<1>2. ASSUME NEW r \in Runs, Setup(r) PROVE ControllerFitsQuietJob'
  BY <1>2 DEF Setup, RunTaskBegin, ConnectController, Dial, LoadResource, Attach,
            PostBundle, PostBundleNil, RetireTasker, DestroyTasker, DestroyNil, CreateTasker, Bind,
            BindNil, StartAgent, ListAgent, HasBundle
<1>3. ASSUME NEW r \in Runs, Execute(r) PROVE ControllerFitsQuietJob'
  BY <1>3 DEF Execute, LoopCheck, PostTask, PostTaskNil, StopAgents, ClearCurrentJob,
              SendTaskCompleted, Leave
<1>4. ASSUME NEW r \in Runs, TaskEnds(r) PROVE ControllerFitsQuietJob'
  BY <1>4 DEF TaskEnds, ItemDone, Leave
<1>5. ASSUME NEW s \in Shots, RequestScreenshot(s) \/ Shot(s) PROVE ControllerFitsQuietJob'
  BY <1>5 DEF RequestScreenshot, Shot, PickController, TakeScreenshot, ShotDial
<1>6. ASSUME ReadLoop PROVE ControllerFitsQuietJob'
  <2>1. UNCHANGED <<jpc, want, spc, ctrlVars, bound>> /\ (Serving' => Serving)
    BY <1>6 DEF ReadLoop, HandleStopTask, StopFlag, StopTest, StopPost, StopNil
  <2>2. QED BY <2>1
<1>7. ASSUME Cleanup \/ Exit \/ AgentExits \/ Gone \/ UNCHANGED vars PROVE ControllerFitsQuietJob'
  BY <1>7 DEF Cleanup, Exit, AgentExits, Gone
<1> HIDE DEF vars
<1>8. QED BY <1>1, <1>2, <1>3, <1>4, <1>5, <1>6, <1>7 DEF Next

(* The process dies where something is nil, and keeps its state; while it     *)
(* serves the invariants say what RunTask finds.                             *)
LEMMA DiesOfKnown ==
    ASSUME IInv, [Next]_vars
    PROVE  OnlyKnownCrashes'
<1> USE DEF OnlyKnownCrashes, ControllerTaken, TaskerLost, Quiet, vars
<1>1. ASSUME Dies, ControllerTaken \/ TaskerLost PROVE OnlyKnownCrashes'
  BY <1>1
<1>2. ASSUME ~Serving, Dies PROVE OnlyKnownCrashes'
  BY <1>2
<1>3. ASSUME proc' # "crashed" PROVE OnlyKnownCrashes'
  BY <1>3
<1>4. ASSUME NEW r \in Runs, RejectRunTask(r) \/ AcceptRunTask(r) PROVE proc' # "crashed"
  BY <1>4 DEF RejectRunTask, AcceptRunTask
<1>5. ASSUME NEW r \in Runs, Setup(r) PROVE OnlyKnownCrashes'
  <2>1. CASE BindNil(r)
    <3>1. Serving => tasker # None /\ resource
      BY <2>1, ThreadsAssumption DEF BindNil, IInv, JobOwnsTasker, ResourceFitsJob
    <3>2. Serving /\ Quiet => controller # None
      BY <2>1 DEF BindNil, IInv, ControllerOnTheWay
    <3>3. QED BY <2>1, <3>1, <3>2, <1>1, <1>2 DEF BindNil, Bound
  <2>2. CASE PostBundleNil(r)
    BY <2>2, <1>2 DEF PostBundleNil, IInv, ResourceOnTheWay
  <2>3. CASE DestroyNil(r)
    BY <2>3, <1>2 DEF DestroyNil, IInv, TaskerChain
  <2>4. CASE proc' = proc /\ Alive
    BY <2>4, <1>3
  <2>5. QED
    BY <1>5, <2>1, <2>2, <2>3, <2>4
    DEF Setup, RunTaskBegin, ConnectController, Dial, LoadResource, Attach, PostBundle,
        RetireTasker, DestroyTasker, CreateTasker, Bind, StartAgent, ListAgent
<1>6. ASSUME NEW r \in Runs, Execute(r) PROVE OnlyKnownCrashes'
  <2>1. CASE PostTaskNil(r)
    BY <2>1, <1>2, ThreadsAssumption DEF PostTaskNil, IInv, JobOwnsTasker
  <2>2. CASE proc' = proc /\ Alive
    BY <2>2, <1>3
  <2>3. QED
    BY <1>6, <2>1, <2>2
    DEF Execute, LoopCheck, PostTask, StopAgents, ClearCurrentJob, SendTaskCompleted, Leave
<1>7. ASSUME NEW r \in Runs, TaskEnds(r) PROVE proc' # "crashed"
  BY <1>7 DEF TaskEnds, ItemDone, Leave
<1>8. ASSUME NEW s \in Shots, RequestScreenshot(s) \/ Shot(s) PROVE proc' # "crashed"
  BY <1>8 DEF RequestScreenshot, Shot, PickController, TakeScreenshot, ShotDial
<1>9. ASSUME ReadLoop PROVE OnlyKnownCrashes'
  <2>1. CASE StopNil
    BY <2>1, <1>1 DEF StopNil
  <2>2. CASE proc' = proc /\ Alive
    BY <2>2, <1>3
  <2>3. QED
    BY <1>9, <2>1, <2>2 DEF ReadLoop, HandleStopTask, StopFlag, StopTest, StopPost
<1>10. ASSUME Cleanup \/ Exit PROVE proc' # "crashed"
  BY <1>10 DEF Cleanup, Exit
<1>11. ASSUME AgentExits \/ Gone \/ UNCHANGED vars PROVE OnlyKnownCrashes'
  BY <1>11 DEF AgentExits, Gone, IInv
<1> HIDE DEF vars, OnlyKnownCrashes
<1>12. QED BY <1>3, <1>4, <1>5, <1>6, <1>7, <1>8, <1>9, <1>10, <1>11 DEF Next

-------------------------------------------------------------------------------
LEMMA NextIInv ==
    ASSUME IInv, [Next]_vars
    PROVE  IInv'
<1>1. FlagsOK'
  BY NextFlags DEF IInv, TypeOK
<1>2. TypeOK'
  BY <1>1, NextTypeOK DEF IInv
<1>3. JobExclusion' /\ JobData' /\ MutexHeld' /\ OnlyCachedControllerLives'
  BY NextJobExclusion, NextJobData, NextMutexHeld, NextOnlyCached DEF IInv
<1>4. TaskerChain' /\ JobOwnsTasker'
  BY NextTaskerChain, NextJobOwnsTasker DEF IInv
<1>5. StopPending' /\ StopLands' /\ StopMarks' /\ StopSparesOthers'
  BY NextStopPending, NextStopLands, NextStopMarks, NextStopSparesOthers DEF IInv
<1>6. ServersConfined' /\ AgentsConfined'
  BY NextServersConfined, NextAgentsConfined DEF IInv
<1>7. ResourceOnTheWay' /\ ResourceFitsJob'
  BY NextResourceOnTheWay, NextResourceFitsJob DEF IInv
<1>8. ControllerOnTheWay' /\ ControllerFitsQuietJob'
  BY NextControllerOnTheWay, NextControllerFits DEF IInv
<1>9. OnlyKnownCrashes'
  BY DiesOfKnown
<1>10. QED
  BY <1>2, <1>3, <1>4, <1>5, <1>6, <1>7, <1>8, <1>9 DEF IInv

(* IInv holds in every reachable state.                                      *)
THEOREM Invariance == Spec => []IInv
<1>1. IInv /\ [Next]_vars => IInv'
  BY NextIInv
<1>2. QED
  BY InitIInv, <1>1, PTL DEF Spec

(* Types: no step takes a variable out of its set, whatever fails.           *)
THEOREM TypeCorrect == Spec => []TypeOK
<1>1. IInv => TypeOK
  BY DEF IInv
<1>2. QED
  BY Invariance, <1>1, PTL

(* The busy check of handleRunTask admits one job at a time and currentJob   *)
(* names it until ClearCurrentJob.                                           *)
THEOREM Exclusion == Spec => []JobExclusion
<1>1. IInv => JobExclusion
  BY DEF IInv
<1>2. QED
  BY Invariance, <1>1, PTL

(* connectControllerLocked and the screenshots leak no controller.           *)
THEOREM NoControllerLeaks == Spec => []OnlyCachedControllerLives
<1>1. IInv => OnlyCachedControllerLives
  BY DEF IInv
<1>2. QED
  BY Invariance, <1>1, PTL

(* An executing job uses the tasker it made, and no other lives.             *)
THEOREM TaskerOwnership == Spec => []JobOwnsTasker
<1>1. IInv => JobOwnsTasker
  BY DEF IInv
<1>2. QED
  BY Invariance, <1>1, PTL

(* A stop that lands inside RunTask keeps the job from completing.           *)
THEOREM StopsLand == Spec => []StopLands
<1>1. IInv => StopLands
  BY DEF IInv
<1>2. QED
  BY Invariance, <1>1, PTL

(* While the client serves, agent processes live only within their job.      *)
THEOREM AgentConfinement == Spec => []AgentsConfined
<1>1. IInv => AgentsConfined
  BY DEF IInv
<1>2. QED
  BY Invariance, <1>1, PTL

(* A stop reaches no other job than the one it named, by flag or by interruption. *)
THEOREM StopSparing == Spec => []StopSparesOthers
<1>1. IInv => StopSparesOthers
  BY DEF IInv
<1>2. QED
  BY Invariance, <1>1, PTL

(* A job executes with the resource it asked for and the bundles of its controller. *)
THEOREM ResourceFits == Spec => []ResourceFitsJob
<1>1. IInv => ResourceFitsJob
  BY DEF IInv
<1>2. QED
  BY Invariance, <1>1, PTL

(* Before a screenshot gets hold of it, an executing job has its own, live controller. *)
THEOREM ControllerFits == Spec => []ControllerFitsQuietJob
<1>1. IInv => ControllerFitsQuietJob
  BY DEF IInv
<1>2. QED
  BY Invariance, <1>1, PTL

(* A serving client dies of nil only where a screenshot took the controller, *)
(* or where StopTask lost its tasker.                                        *)
THEOREM CrashesKnown == Spec => []OnlyKnownCrashes
<1>1. IInv => OnlyKnownCrashes
  BY DEF IInv
<1>2. QED
  BY Invariance, <1>1, PTL
-------------------------------------------------------------------------------
(* The refinement of JobService.                                             *)

(* A job that goes on moves its phase and nobody else's.                     *)
LEMMA PhaseStep ==
    ASSUME NEW Pcs, jpc \in [Runs -> Pcs], NEW r \in Runs, NEW p,
           jpc' = [jpc EXCEPT ![r] = p]
    PROVE  [q \in Runs |-> Phase(jpc[q])]' = [[q \in Runs |-> Phase(jpc[q])] EXCEPT ![r] = Phase(p)]
  OBVIOUS

LEMMA InitService == Init => Service!Init
  BY DEF Init, Service!Init, Phase

LEMMA NextService ==
    ASSUME IInv, IInv', [Next]_vars
    PROVE  [Service!Next]_(Service!vars)
<1> DEFINE phase == [r \in Runs |-> Phase(jpc[r])]
           load == [r \in Runs |-> IF want[r] = None THEN 0 ELSE want[r].n]
           verdict == [r \in Runs |-> IF jpc[r] \in Over THEN outcome[r] ELSE "none"]
<1> USE DEF IInv, TypeOK, JobData, Phase, Service!vars
<1>1. ASSUME NEW r \in Runs, RejectRunTask(r) PROVE Service!Reject(r)
  <2>1. currentJob \in Runs /\ jpc[currentJob] \in Active
    BY <1>1 DEF RejectRunTask, CanAccept, JobExclusion
  <2>2. phase[r] = "unseen" /\ phase[currentJob] = "running"
    BY <1>1, <2>1 DEF RejectRunTask
  <2>3. phase' = [phase EXCEPT ![r] = "busy"]
    <3>1. jpc' = [jpc EXCEPT ![r] = "busy"] /\ Phase("busy") = "busy"
      BY <1>1 DEF RejectRunTask
    <3>2. jpc \in [Runs -> Asked \cup Active \cup Over]
      OBVIOUS
    <3> HIDE DEF IInv, TypeOK, JobData, Phase
    <3>3. QED
      BY <3>1, <3>2, PhaseStep
  <2>4. UNCHANGED <<load, item, verdict>>
    BY <1>1 DEF RejectRunTask
  <2>5. QED
    BY <2>1, <2>2, <2>3, <2>4 DEF Service!Reject
<1>2. ASSUME NEW r \in Runs, AcceptRunTask(r) PROVE Service!Accept(r)
  <2>1. phase[r] = "unseen" /\ \A q \in Runs : phase[q] # "running"
    BY <1>2, ThreadsAssumption DEF AcceptRunTask, CanAccept, JobExclusion
  <2>2. phase' = [phase EXCEPT ![r] = "running"]
    <3>1. jpc' = [jpc EXCEPT ![r] = "spawned"] /\ Phase("spawned") = "running"
      BY <1>2 DEF AcceptRunTask
    <3>2. jpc \in [Runs -> Asked \cup Active \cup Over]
      OBVIOUS
    <3> HIDE DEF IInv, TypeOK, JobData, Phase
    <3>3. QED
      BY <3>1, <3>2, PhaseStep
  <2>3. PICK q \in Requests : want' = [want EXCEPT ![r] = q]
    BY <1>2 DEF AcceptRunTask
  <2>4. load' = [load EXCEPT ![r] = q.n]
    <3>1. want \in [Runs -> Requests \cup {None}] /\ q # None
      BY RequestsAssumption
    <3> HIDE DEF IInv, TypeOK, JobData, Phase
    <3>2. QED BY <2>3, <3>1
  <2>5. UNCHANGED <<item, verdict>>
    BY <1>2 DEF AcceptRunTask
  <2>6. \E n \in {p.n : p \in Requests} : load' = [load EXCEPT ![r] = n]
    <3>1. q.n \in {p.n : p \in Requests}
      OBVIOUS
    <3> HIDE DEF load
    <3>2. QED
      BY <2>4, <3>1
  <2>7. QED
    BY <2>1, <2>2, <2>5, <2>6 DEF Service!Accept
<1>3. ASSUME NEW r \in Runs, Setup(r) PROVE UNCHANGED Service!vars
  BY <1>3 DEF Setup, RunTaskBegin, ConnectController, Dial, LoadResource, Attach,
            PostBundle, PostBundleNil, RetireTasker, DestroyTasker, DestroyNil, CreateTasker, Bind,
            BindNil, StartAgent, ListAgent, HasBundle
<1>4. ASSUME NEW r \in Runs, TaskEnds(r) PROVE Service!Work(r) \/ UNCHANGED Service!vars
  BY <1>4, RequestsAssumption DEF TaskEnds, ItemDone, Leave, MoreItems, Service!Work
<1>5. ASSUME NEW r \in Runs, LoopCheck(r) \/ PostTask(r) \/ PostTaskNil(r) \/ StopAgents(r)
      PROVE  UNCHANGED Service!vars
  BY <1>5 DEF LoopCheck, PostTask, PostTaskNil, StopAgents, Leave
<1>6. ASSUME NEW r \in Runs, ClearCurrentJob(r) PROVE Service!End(r)
  <2>1. phase[r] = "running"
    BY <1>6 DEF ClearCurrentJob
  <2>2. phase' = [phase EXCEPT ![r] = "ended"]
    <3>1. jpc' = [jpc EXCEPT ![r] = "report"] /\ Phase("report") = "ended"
      BY <1>6 DEF ClearCurrentJob
    <3>2. jpc \in [Runs -> Asked \cup Active \cup Over]
      OBVIOUS
    <3> HIDE DEF IInv, TypeOK, JobData, Phase
    <3>3. QED
      BY <3>1, <3>2, PhaseStep
  <2>3. verdict' = [verdict EXCEPT ![r] = outcome[r]]
    BY <1>6 DEF ClearCurrentJob
  <2>4. outcome[r] \in {"completed", "failed"}
    BY <1>6 DEF ClearCurrentJob
  <2>5. want[r] \in Requests /\ load[r] = want[r].n
    BY <1>6, RequestsAssumption DEF ClearCurrentJob
  <2>6. outcome[r] = "completed" => item[r] = load[r]
    <3>1. outcome[r] = "completed" => ~(item[r] < want[r].n) /\ item[r] <= want[r].n
      BY <1>6 DEF ClearCurrentJob, MoreItems
    <3>2. item[r] \in Nat /\ want[r].n \in Nat
      BY <2>5, RequestsAssumption
    <3> HIDE DEF IInv, TypeOK, JobData, load
    <3>3. outcome[r] = "completed" => item[r] = want[r].n
      BY <3>1, <3>2
    <3>4. QED
      BY <2>5, <3>3
  <2>7. UNCHANGED <<load, item>>
    BY <1>6 DEF ClearCurrentJob
  <2>8. QED
    BY <2>1, <2>2, <2>3, <2>4, <2>6, <2>7 DEF Service!End
<1>7. ASSUME NEW r \in Runs, SendTaskCompleted(r) PROVE Service!Report(r)
  <2>1. phase[r] = "ended"
    BY <1>7 DEF SendTaskCompleted
  <2>2. phase' = [phase EXCEPT ![r] = "reported"]
    <3>1. jpc' = [jpc EXCEPT ![r] = "done"] /\ Phase("done") = "reported"
      BY <1>7 DEF SendTaskCompleted
    <3>2. jpc \in [Runs -> Asked \cup Active \cup Over]
      OBVIOUS
    <3> HIDE DEF IInv, TypeOK, JobData, Phase
    <3>3. QED
      BY <3>1, <3>2, PhaseStep
  <2>3. UNCHANGED <<load, item, verdict>>
    BY <1>7 DEF SendTaskCompleted
  <2>4. QED
    BY <2>1, <2>2, <2>3 DEF Service!Report
<1>8. ASSUME NEW s \in Shots, RequestScreenshot(s) \/ Shot(s) PROVE UNCHANGED Service!vars
  BY <1>8 DEF RequestScreenshot, Shot, PickController, TakeScreenshot, ShotDial
<1>9. ASSUME ReadLoop PROVE UNCHANGED Service!vars
  <2>1. UNCHANGED <<jpc, want, item, outcome>>
    BY <1>9 DEF ReadLoop, HandleStopTask, StopFlag, StopTest, StopPost, StopNil
  <2>2. QED BY <2>1
<1>10. ASSUME Cleanup \/ Exit \/ AgentExits \/ Gone \/ UNCHANGED vars
       PROVE  UNCHANGED Service!vars
  BY <1>10 DEF Cleanup, Exit, AgentExits, Gone
<1> HIDE DEF IInv, TypeOK, vars, Service!vars
<1>11. QED
  BY <1>1, <1>2, <1>3, <1>4, <1>5, <1>6, <1>7, <1>8, <1>9, <1>10
  DEF Next, Execute, Service!Next

(* The client implements JobService: one job at a time, its items in order,  *)
(* one verdict, and "completed" only for a job whose every item was done.    *)
THEOREM ImplementsService == Spec => ServiceSpec
<1>1. IInv /\ IInv' /\ [Next]_vars => [Service!Next]_(Service!vars)
  BY NextService
<1>2. QED
  BY InitService, Invariance, <1>1, PTL DEF Spec, ServiceSpec, Service!Spec
===============================================================================
