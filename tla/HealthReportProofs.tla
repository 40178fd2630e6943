------------------------- MODULE HealthReportProofs -------------------------
(***************************************************************************)
(* Proofs about QuitProtocol, for any number of SIGINTs; and about         *)
(* HealthReport, which extends it, for any ring size and any number of     *)
(* blocks as well.                                                         *)
(***************************************************************************)
EXTENDS HealthReport, TLAPS

-----------------------------------------------------------------------------
(* QuitProtocol *)

LEMMA TypeCorrectInit == Init => TypeOK
<1> SUFFICES ASSUME Init PROVE TypeOK
  OBVIOUS
<1>1. pc \in [Frames -> Labels]
  BY DEF Init, Labels, MainLabels, HealthLabels, HandlerLabels
<1>2. quit \in [Threads -> BOOLEAN]
  BY DEF Init
<1>3. sigints \in 0 .. MaxSigints /\ late \in 0 .. MaxLate
  BY SigintAssumption DEF Init, MaxLate
<1> QED  BY <1>1, <1>2, <1>3 DEF Init, TypeOK

LEMMA TypeCorrectStep == TypeOK /\ [Next]_vars => TypeOK'
<1> SUFFICES ASSUME TypeOK, [Next]_vars PROVE TypeOK'
  OBVIOUS
<1> USE SigintAssumption DEF TypeOK
<1>1. ASSUME NEW f \in Frames, Lock(f) PROVE TypeOK'
  BY <1>1 DEF Lock, GoTo, Labels, MainLabels, HealthLabels, HandlerLabels
<1>2. ASSUME NEW f \in Frames, Store(f) PROVE TypeOK'
  BY <1>2 DEF Store, At, GoTo, Labels, MainLabels
<1>3. ASSUME NEW f \in Threads, Load(f) PROVE TypeOK'
  BY <1>3 DEF Load, At, GoTo, Labels, MainLabels, Frames
<1>4. ASSUME NEW f \in Frames, Unlock(f) PROVE TypeOK'
  BY <1>4 DEF Unlock, GoTo, Labels, MainLabels, HealthLabels, HandlerLabels
<1>5. ASSUME main PROVE TypeOK'
  <2> USE DEF Labels, MainLabels, HealthLabels, Frames, Threads, At, GoTo
  <2>1. CASE Initialise  BY <2>1 DEF Initialise
  <2>2. CASE Install     BY <2>2 DEF Install
  <2>3. CASE Setup       BY <2>3 DEF Setup
  <2>4. CASE Launch      BY <2>4 DEF Launch
  <2>5. CASE Read        BY <2>5 DEF Read
  <2>6. CASE Loop        BY <2>6 DEF Loop
  <2>7. CASE Join        BY <2>7 DEF Join
  <2>8. CASE Disconnect  BY <2>8 DEF Disconnect
  <2>9. CASE CloseLog    BY <2>9 DEF CloseLog
  <2>10. CASE DestroyQuit BY <2>10 DEF DestroyQuit
  <2>11. CASE Return     BY <2>11 DEF Return
  <2>12. CASE MainFails  BY <2>12 DEF MainFails
  <2> QED  BY <1>5, <2>1, <2>2, <2>3, <2>4, <2>5, <2>6, <2>7, <2>8, <2>9,
              <2>10, <2>11, <2>12 DEF main
<1>6. ASSUME health_thread_fn PROVE TypeOK'
  <2> USE DEF Labels, HealthLabels, Frames, Threads, At, GoTo
  <2>1. CASE OpenSocket  BY <2>1 DEF OpenSocket
  <2>2. CASE HealthFails BY <2>2 DEF HealthFails
  <2>3. CASE Collect     BY <2>3 DEF Collect
  <2>4. CASE Send        BY <2>4 DEF Send, MaxLate
  <2>5. CASE Sleep       BY <2>5 DEF Sleep
  <2> QED  BY <1>6, <2>1, <2>2, <2>3, <2>4, <2>5 DEF health_thread_fn
<1>7. ASSUME NEW f \in Handlers, HandlerLogs(f) PROVE TypeOK'
  BY <1>7 DEF HandlerLogs, At, GoTo, Labels, HandlerLabels, Frames
<1>8. ASSUME NEW t \in Threads, Deliver(t) PROVE TypeOK'
  BY <1>8 DEF Deliver, GoTo, HandlerOf, Labels, HandlerLabels, Frames,
              Threads, Handlers
<1>9. CASE UNCHANGED vars
  BY <1>9 DEF vars
<1> QED  BY <1>1, <1>2, <1>3, <1>4, <1>5, <1>6, <1>7, <1>8, <1>9
         DEF Next, Step, Ended

\* The variables have their types: in particular the health messages counted
\* in late and the signals in sigints stay within their bounds.
THEOREM TypeCorrect == Spec => []TypeOK
BY TypeCorrectInit, TypeCorrectStep, PTL DEF Spec

-----------------------------------------------------------------------------

\* The flag, the teardown and the rounds of the health thread together are
\* inductive.
LEMMA SafetyInvInit == Init => SafetyInv
<1> SUFFICES ASSUME Init PROVE SafetyInv
  OBVIOUS
<1>1. TypeOK
  BY TypeCorrectInit
<1>2. pc["main"] = "initialise" /\ pc["health"] = "unborn"
  BY DEF Init, Frames, Threads
<1>3. \A f \in Handlers : pc[f] = "idle"
  BY DEF Init, Frames, Handlers
<1> QED
  BY <1>1, <1>2, <1>3
  DEF Init, SafetyInv, Labelled, QuietStart, Enclosed, RoundsLeft, Starting,
      Stopping, MainLabels, HealthLabels, HandlerLabels

LEMMA SafetyInvStep == SafetyInv /\ [Next]_vars => SafetyInv'
<1> SUFFICES ASSUME SafetyInv, [Next]_vars PROVE SafetyInv'
  OBVIOUS
<1>0. TypeOK'
  BY TypeCorrectStep DEF SafetyInv
<1> USE DEF SafetyInv, Labelled, QuietStart, Enclosed, RoundsLeft, Starting,
        Stopping, MainLabels, HealthLabels, HandlerLabels, TypeOK, Frames,
        Threads, Handlers, MaxLate
<1>1. ASSUME NEW f \in Frames, Lock(f) PROVE SafetyInv'
  BY <1>0, <1>1 DEF Lock, GoTo
<1>2. ASSUME NEW f \in Frames, Store(f) PROVE SafetyInv'
  BY <1>0, <1>2 DEF Store, At, GoTo
<1>3. ASSUME NEW f \in Threads, Load(f) PROVE SafetyInv'
  BY <1>0, <1>3 DEF Load, At, GoTo
<1>4. ASSUME NEW f \in Frames, Unlock(f) PROVE SafetyInv'
  BY <1>0, <1>4 DEF Unlock, GoTo
<1>5. ASSUME main PROVE SafetyInv'
  <2> USE <1>0 DEF At, GoTo
  <2>1. CASE Initialise  BY <2>1 DEF Initialise
  <2>2. CASE Install     BY <2>2 DEF Install
  <2>3. CASE Setup       BY <2>3 DEF Setup
  <2>4. CASE Launch      BY <2>4 DEF Launch
  <2>5. CASE Read        BY <2>5 DEF Read
  <2>6. CASE Loop        BY <2>6 DEF Loop
  <2>7. CASE Join        BY <2>7 DEF Join, Joinable
  <2>8. CASE Disconnect  BY <2>8 DEF Disconnect
  <2>9. CASE CloseLog    BY <2>9 DEF CloseLog
  <2>10. CASE DestroyQuit BY <2>10 DEF DestroyQuit
  <2>11. CASE Return     BY <2>11 DEF Return
  <2>12. CASE MainFails  BY <2>12 DEF MainFails
  <2> QED  BY <1>5, <2>1, <2>2, <2>3, <2>4, <2>5, <2>6, <2>7, <2>8, <2>9,
              <2>10, <2>11, <2>12 DEF main
<1>6. ASSUME health_thread_fn PROVE SafetyInv'
  <2> USE <1>0 DEF At, GoTo
  <2>1. CASE OpenSocket  BY <2>1 DEF OpenSocket
  <2>2. CASE HealthFails BY <2>2 DEF HealthFails
  <2>3. CASE Collect     BY <2>3 DEF Collect
  <2>4. CASE Send        BY <2>4 DEF Send
  <2>5. CASE Sleep       BY <2>5 DEF Sleep, HealthQuits
  <2> QED  BY <1>6, <2>1, <2>2, <2>3, <2>4, <2>5 DEF health_thread_fn
<1>7. ASSUME NEW f \in Handlers, HandlerLogs(f) PROVE SafetyInv'
  BY <1>0, <1>7 DEF HandlerLogs, At, GoTo
<1>8. ASSUME NEW t \in Threads, Deliver(t) PROVE SafetyInv'
  BY <1>0, <1>8 DEF Deliver, GoTo, HandlerOf, Installed
<1>9. CASE UNCHANGED vars
  BY <1>0, <1>9 DEF vars
<1> QED  BY <1>1, <1>2, <1>3, <1>4, <1>5, <1>6, <1>7, <1>8, <1>9
         DEF Next, Step, Ended

LEMMA SafetyInvAlways == Spec => []SafetyInv
BY SafetyInvInit, SafetyInvStep, PTL DEF Spec

\* While the health thread runs, main has torn down nothing that it uses.
THEOREM HealthIsProvided == Spec => []HealthProvided
<1>1. SafetyInv => HealthProvided
  BY DEF SafetyInv, HealthProvided, Alive, Labelled, Enclosed, MainLabels,
         Starting, Stopping
<1> QED  BY <1>1, SafetyInvAlways, PTL

\* After the flag is raised the health thread sends at most two messages.
THEOREM HealthIsPrompt == Spec => []HealthStopsPromptly
<1>1. SafetyInv => HealthStopsPromptly
  BY DEF SafetyInv, TypeOK, RoundsLeft, HealthStopsPromptly, MaxLate
<1> QED  BY <1>1, SafetyInvAlways, PTL

\* A request to quit is never lost.
THEOREM QuitIsNeverLost == Spec => QuitNeverLost
<1>1. SafetyInv /\ [Next]_vars => [g_quit => g_quit']_vars
  <2> SUFFICES ASSUME SafetyInv, [Next]_vars, g_quit PROVE g_quit'
    BY DEF vars
  <2>1. CASE \E f \in Frames : Lock(f) \/ Store(f) \/ Unlock(f)
    BY <2>1 DEF Lock, Store, Unlock
  <2>2. CASE \E f \in Threads : Load(f)
    BY <2>2 DEF Load
  <2>3. CASE main
    <3>1. CASE Initialise
      BY <3>1 DEF SafetyInv, QuietStart, Initialise, At
    <3> QED
      BY <2>3, <3>1 DEF main, Install, Setup, Launch, Read, Loop, Join,
         Disconnect, CloseLog, DestroyQuit, Return, MainFails
  <2>4. CASE health_thread_fn
    BY <2>4 DEF health_thread_fn, OpenSocket, HealthFails, Collect, Send, Sleep
  <2>5. CASE \E f \in Handlers : HandlerLogs(f)
    BY <2>5 DEF HandlerLogs
  <2>6. CASE \E t \in Threads : Deliver(t)
    BY <2>6 DEF Deliver
  <2>7. CASE UNCHANGED vars
    BY <2>7 DEF vars
  <2> QED
    BY <2>1, <2>2, <2>3, <2>4, <2>5, <2>6, <2>7 DEF Next, Step, Ended
<1> QED  BY <1>1, SafetyInvAlways, PTL DEF Spec, QuitNeverLost

-----------------------------------------------------------------------------
(* HealthReport *)

\* Each step is a step of QuitProtocol or leaves its variables alone.
LEMMA StepOfQuitProtocol == [ReportNext]_all_vars => [Next]_vars
<1> SUFFICES ASSUME [ReportNext]_all_vars PROVE [Next]_vars
  OBVIOUS
<1>1. CASE UpstreamWrites \/ MainReads
  BY <1>1 DEF UpstreamWrites, MainReads
<1>2. CASE \/ SampleStatus \/ SampleWritten \/ SampleRead \/ SampleFull
           \/ SampleClear
  BY <1>2 DEF SampleStatus, SampleWritten, SampleRead, SampleFull,
     SampleClear, Sample
<1>3. CASE Collected \/ Sent \/ LoopLeft
  <2>1. (health_thread_fn => Step("health")) /\ (main => Step("main"))
    BY DEF Step
  <2>2. Collect \/ Send \/ Loop
    BY <1>3 DEF Collected, Sent, LoopLeft
  <2>3. health_thread_fn \/ main
    BY <2>2 DEF health_thread_fn, main
  <2> QED  BY <2>1, <2>3 DEF Next, Frames, Threads
<1>4. CASE Others
  <2>1. CASE \E f \in Frames :
               Lock(f) \/ Store(f) \/ Unlock(f) \/ (f \in Threads /\ Load(f))
                 \/ (f \in Handlers /\ HandlerLogs(f))
    BY <2>1 DEF Next, Step
  <2>2. CASE \/ Initialise \/ Install \/ Setup \/ Launch \/ Read \/ Join
             \/ Disconnect \/ CloseLog \/ DestroyQuit \/ Return \/ MainFails
    <3>1. main
      BY <2>2 DEF main
    <3>2. Step("main")
      BY <3>1 DEF Step
    <3> QED  BY <3>2 DEF Next, Frames, Threads
  <2>3. CASE OpenSocket \/ HealthFails \/ Sleep
    <3>1. health_thread_fn
      BY <2>3 DEF health_thread_fn
    <3>2. Step("health")
      BY <3>1 DEF Step
    <3> QED  BY <3>2 DEF Next, Frames, Threads
  <2>4. CASE (\E t \in Threads : Deliver(t)) \/ Ended
    BY <2>4 DEF Next
  <2> QED  BY <1>4, <2>1, <2>2, <2>3, <2>4 DEF Others
<1>5. CASE UNCHANGED all_vars
  BY <1>5 DEF all_vars
<1> QED  BY <1>1, <1>2, <1>3, <1>4, <1>5 DEF ReportNext

\* With the messages filled in and the ring moving, the threads, the flag and
\* the teardown still behave as QuitProtocol says: all that is shown of it
\* holds here.
THEOREM ReportImplementsQuitProtocol == ReportSpec => Spec
<1>1. ReportInit => Init
  BY DEF ReportInit
<1> QED  BY <1>1, StepOfQuitProtocol, PTL DEF ReportSpec, Spec

-----------------------------------------------------------------------------

LEMMA OrderFacts ==
  /\ Len(Order) = 5
  /\ Order[1] = "status" /\ Order[2] = "written" /\ Order[3] = "read"
  /\ Order[4] = "full" /\ Order[5] = "clear"
BY DEF Order

\* Main, once past its loop, does not come back.
LEMMA StoppedStays ==
  ASSUME SafetyInv, [Next]_vars, Stopped
  PROVE  Stopped'
<1> USE DEF SafetyInv, TypeOK, Labelled, Frames, Threads, Handlers, Stopped,
        Stopping, MainLabels, HealthLabels, HandlerLabels
<1>1. ASSUME NEW f \in Frames, Lock(f) \/ Store(f) \/ Unlock(f) PROVE Stopped'
  BY <1>1 DEF Lock, Store, Unlock, At, GoTo
<1>2. ASSUME NEW f \in Threads, Load(f) PROVE Stopped'
  BY <1>2 DEF Load, At, GoTo
<1>3. CASE main
  BY <1>3 DEF main, Initialise, Install, Setup, Launch, Read, Loop, Join,
     Disconnect, CloseLog, DestroyQuit, Return, MainFails, At, GoTo
<1>4. CASE health_thread_fn
  BY <1>4 DEF health_thread_fn, OpenSocket, HealthFails, Collect, Send, Sleep,
     At, GoTo
<1>5. ASSUME NEW f \in Handlers, HandlerLogs(f) PROVE Stopped'
  BY <1>5 DEF HandlerLogs, At, GoTo
<1>6. ASSUME NEW t \in Threads, Deliver(t) PROVE Stopped'
  BY <1>6 DEF Deliver, HandlerOf, GoTo
<1>7. CASE UNCHANGED vars
  BY <1>7 DEF vars
<1> QED  BY <1>1, <1>2, <1>3, <1>4, <1>5, <1>6, <1>7 DEF Next, Step, Ended

\* The health thread leaves "collect" by Collect only.
LEMMA OthersKeepCollecting ==
  ASSUME SafetyInv, Others, pc["health"] = "collect"
  PROVE  pc'["health"] = "collect"
<1> USE DEF SafetyInv, TypeOK, Labelled, Frames, Threads, Handlers,
        MainLabels, HealthLabels, HandlerLabels
<1>1. ASSUME NEW f \in Frames,
             \/ Lock(f) \/ Store(f) \/ Unlock(f) \/ (f \in Threads /\ Load(f))
             \/ (f \in Handlers /\ HandlerLogs(f))
      PROVE  pc'["health"] = "collect"
  BY <1>1 DEF Lock, Store, Unlock, Load, HandlerLogs, At, GoTo
<1>2. CASE \/ Initialise \/ Install \/ Setup \/ Read \/ Join
           \/ Disconnect \/ CloseLog \/ DestroyQuit \/ Return \/ MainFails
  BY <1>2 DEF Initialise, Install, Setup, Read, Join, Disconnect,
     CloseLog, DestroyQuit, Return, MainFails, At, GoTo
<1>3. CASE Launch
  BY <1>3 DEF Launch, At, Enclosed, Starting
<1>4. CASE OpenSocket \/ HealthFails \/ Sleep
  BY <1>4 DEF OpenSocket, HealthFails, Sleep, At, GoTo
<1>5. ASSUME NEW t \in Threads, Deliver(t) PROVE pc'["health"] = "collect"
  BY <1>5 DEF Deliver, HandlerOf, GoTo
<1>6. CASE Ended
  BY <1>6 DEF Ended, vars
<1> QED  BY <1>1, <1>2, <1>3, <1>4, <1>5, <1>6 DEF Others

-----------------------------------------------------------------------------

LEMMA ReportInvInit == ReportInit => ReportInv
<1> SUFFICES ASSUME ReportInit PROVE ReportInv
  OBVIOUS
<1>1. SafetyInv
  BY SafetyInvInit DEF ReportInit
<1>2. pc["health"] = "unborn"
  BY DEF ReportInit, Init, Frames, Threads
<1>3. ReportTypeOK
  BY OrderFacts DEF ReportInit, ReportTypeOK, Messages, NoMessage, Statuses
<1> QED
  BY <1>1, <1>2, <1>3, RingAssumption
  DEF ReportInit, ReportInv, RingInv, Sampled, FinalCount, NoMessage

LEMMA ReportInvStep == ReportInv /\ [ReportNext]_all_vars => ReportInv'
<1> SUFFICES ASSUME ReportInv, [ReportNext]_all_vars PROVE ReportInv'
  OBVIOUS
<1>0. SafetyInv' /\ (Stopped => Stopped')
  BY StepOfQuitProtocol, SafetyInvStep, StoppedStays DEF ReportInv
<1> USE RingAssumption, OrderFacts
    DEF ReportInv, ReportTypeOK, RingInv, Sampled, FinalCount, ReadSampled
<1>1. CASE UpstreamWrites
  BY <1>0, <1>1 DEF UpstreamWrites, report_vars, vars, Messages, Stopped
<1>2. CASE MainReads
  <2>1. ~Stopped
    BY <1>2 DEF MainReads, At, Stopped, Stopping
  <2> QED
    BY <1>0, <1>2, <2>1 DEF MainReads, report_vars, vars, Messages, Stopped
<1>3. CASE SampleStatus
  BY <1>0, <1>3
  DEF SampleStatus, Sample, ring_vars, vars, Messages, Stopped, At
<1>4. CASE SampleWritten
  BY <1>0, <1>4
  DEF SampleWritten, Sample, ring_vars, vars, Messages, Stopped, At
<1>5. CASE SampleRead
  BY <1>0, <1>5
  DEF SampleRead, Sample, ring_vars, vars, Messages, Stopped, At
<1>6. CASE SampleFull
  BY <1>0, <1>6
  DEF SampleFull, Sample, ring_vars, vars, Messages, Stopped, At
<1>7. CASE SampleClear
  BY <1>0, <1>7
  DEF SampleClear, Sample, ring_vars, vars, Messages, Stopped, At
<1>8. CASE Collected
  BY <1>0, <1>8 DEF Collected, Collect, ring_vars, Messages
<1>9. CASE Sent
  <2>1. pc["health"] = "send" /\ pc'["health"] # "collect"
    BY <1>9 DEF Sent, Send, At, GoTo, SafetyInv, TypeOK, Frames, Threads
  <2> QED  BY <1>0, <1>9, <2>1 DEF Sent, ring_vars, Messages
<1>10. CASE LoopLeft
  <2>1. pc'["health"] = pc["health"]
    BY <1>10 DEF LoopLeft, Loop, GoTo, SafetyInv, TypeOK, Frames, Threads
  <2>2. quit["main"] => Stopped'
    BY <1>10 DEF LoopLeft, Loop, At, GoTo, Stopped, SafetyInv, TypeOK, Frames,
       Threads
  <2>3. status' \in Statuses /\ (status = "SHUTTING_DOWN" => UNCHANGED status)
    BY <1>10 DEF LoopLeft, Statuses
  <2> QED
    BY <1>0, <1>10, <2>1, <2>2, <2>3 DEF LoopLeft, ring_vars, Messages
<1>11. CASE Others
  <2>1. pc["health"] = "collect" => pc'["health"] = "collect"
    BY <1>11, OthersKeepCollecting
  <2> QED
    BY <1>0, <1>11, <2>1 DEF Others, ring_vars, report_vars, Messages
<1>12. CASE UNCHANGED all_vars
  BY <1>0, <1>12 DEF all_vars, vars, ring_vars, report_vars, Messages, Stopped
<1> QED  BY <1>1, <1>2, <1>3, <1>4, <1>5, <1>6, <1>7, <1>8, <1>9, <1>10,
            <1>11, <1>12 DEF ReportNext

LEMMA ReportInvAlways == ReportSpec => []ReportInv
BY ReportInvInit, ReportInvStep, PTL DEF ReportSpec

\* A message that says SHUTTING_DOWN reports every block the program will ever
\* have read, wherever SIGINT and the two threads' steps fall.
THEOREM ShutdownReportIsFinal == ReportSpec => []ShutdownIsFinal
<1>1. ReportInv => ShutdownIsFinal
  BY DEF ReportInv, FinalCount, ShutdownIsFinal
<1> QED  BY <1>1, ReportInvAlways, PTL

\* No message shows a backlog larger than the ring, although its counters are
\* sampled at different moments.
THEOREM ReportedBacklogFits == ReportSpec => []BacklogFitsRing
<1>1. ReportInv => BacklogFitsRing
  BY DEF ReportInv, Sampled, BacklogFitsRing
<1> QED  BY <1>1, ReportInvAlways, PTL
=============================================================================
