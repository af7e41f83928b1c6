----------------------- MODULE ServiceControl_proofs ------------------------
(***************************************************************************)
(* Proofs about ServiceControl, for any engines and number of requests.    *)
(***************************************************************************)
EXTENDS ServiceControl, TLAPS

---------------------------------------------------------------------------
(* Typing. A goroutine is there as long as it holds the mutex, so that the *)
(* count of those that end does not fall below zero.                       *)

Counted == \A j \in Tasks : jobs[j] <= requests /\ timers[j] <= requests
HolderRuns == holder # Nobody => Kind(holder) \in Queued /\ jobs[holder] > 0

ServiceInv == ServiceTypeOK /\ Counted /\ HolderRuns

LEMMA TaskKinds ==
  /\ \A s \in Services, kind \in Queued \cup {"toggle"} : <<kind, s>> \in Tasks /\ Kind(<<kind, s>>) = kind
  /\ \A j \in Tasks : Kind(j) \in Queued \cup {"toggle"} /\ Service(j) \in Services
BY DEF Tasks, Kind, Service

LEMMA ClearedTyped == \A e \in Events : Cleared(e) \subseteq Tasks
BY DEF Events, Cleared

LEMMA RequestTyped ==
  ASSUME ServiceInv, NEW j \in Tasks, Request(j)
  PROVE  /\ jobs' \in [Tasks -> 0..MaxRequests] /\ timers' \in [Tasks -> 0..MaxRequests]
         /\ flags' \subseteq Tasks /\ dropped' \subseteq Tasks
         /\ requests' \in 0..MaxRequests
         /\ Counted' /\ HolderRuns'
         /\ UNCHANGED <<installed, listed, holder, emitted>>
<1> USE ServiceAssumption DEF ServiceInv, ServiceTypeOK
<1>1. requests < MaxRequests /\ requests' = requests + 1
      BY DEF Request
<1>2. jobs' = [jobs EXCEPT ![j] = @ + 1] /\ timers' = [timers EXCEPT ![j] = @ + 1]
      BY DEF Request
<1>3. \A i \in Tasks : /\ jobs[i] \in Nat /\ jobs[i] <= requests
                       /\ timers[i] \in Nat /\ timers[i] <= requests
      BY DEF Counted
<1>4. requests \in Nat /\ requests' \in 0..MaxRequests
      BY <1>1
<1>5. jobs' \in [Tasks -> 0..MaxRequests] /\ timers' \in [Tasks -> 0..MaxRequests] /\ Counted'
      BY <1>1, <1>2, <1>3, <1>4 DEF Counted
<1>6. HolderRuns'
  <2>1. holder' = holder
        BY DEF Request
  <2> QED
      BY <1>2, <1>3, <2>1 DEF HolderRuns
<1>7. flags' \subseteq Tasks /\ dropped' \subseteq Tasks
      BY DEF Request
<1> QED
    BY <1>4, <1>5, <1>6, <1>7 DEF Request

LEMMA EndsTyped ==
  ASSUME ServiceInv, NEW j \in Tasks, NEW event \in SUBSET Events, Ends(j, event), jobs[j] > 0
  PROVE  /\ jobs' \in [Tasks -> 0..MaxRequests] /\ emitted' \subseteq Events /\ Counted'
         /\ UNCHANGED <<installed, listed, flags, timers, confirm, requests, dropped>>
<1> USE ServiceAssumption DEF ServiceInv, ServiceTypeOK
<1>1. jobs' = [jobs EXCEPT ![j] = @ - 1]
      BY DEF Ends
<1>2. \A i \in Tasks : jobs[i] \in Nat /\ jobs[i] <= requests /\ timers[i] <= requests
      BY DEF Counted
<1>3. jobs' \in [Tasks -> 0..MaxRequests]
      BY <1>1, <1>2
<1>4. requests \in Nat /\ requests' = requests /\ timers' = timers
      BY DEF Ends
<1>5. Counted'
      BY <1>1, <1>2, <1>4 DEF Counted
<1> QED
    BY <1>3, <1>5 DEF Ends

LEMMA ServiceStepTyped == ServiceInv /\ [ServiceNext]_serviceVars => ServiceInv'
<1> SUFFICES ASSUME ServiceInv, [ServiceNext]_serviceVars PROVE ServiceInv'
    OBVIOUS
<1> USE DEF ServiceInv
<1>0. ServiceTypeOK /\ Counted /\ HolderRuns
      OBVIOUS
<1>1. CASE Refresh \/ CancelRequest \/ OtherError
      BY <1>0, <1>1 DEF Refresh, CancelRequest, OtherError, ServiceTypeOK, Counted, HolderRuns, Events
<1>2. ASSUME NEW s \in Services, AskInstall(s) \/ AskUninstall(s) PROVE ServiceInv'
      BY <1>0, <1>2, TaskKinds DEF AskInstall, AskUninstall, ServiceTypeOK, Counted, HolderRuns, Queued
<1>3. CASE Confirmed
  <2>1. confirm \in Tasks /\ Request(confirm) /\ confirm' = Nobody
        BY <1>0, <1>3 DEF Confirmed, ServiceTypeOK
  <2> QED
      BY <1>0, <2>1, RequestTyped DEF ServiceTypeOK
<1>4. ASSUME NEW s \in Services, handleToggle(s) PROVE ServiceInv'
  <2>1. <<"toggle", s>> \in Tasks /\ Request(<<"toggle", s>>) /\ confirm' = confirm
        BY <1>4, TaskKinds DEF handleToggle
  <2> QED
      BY <1>0, <2>1, RequestTyped DEF ServiceTypeOK
<1>5. ASSUME NEW cleared \in SUBSET Tasks, ClearFlags(cleared), timers' \in [Tasks -> 0..MaxRequests],
             \A j \in Tasks : timers'[j] <= timers[j],
             emitted' \subseteq emitted,
             UNCHANGED <<installed, listed, jobs, holder, confirm, requests>>
      PROVE  ServiceInv'
  <2>1. ServiceTypeOK'
        BY <1>0, <1>5 DEF ServiceTypeOK, ClearFlags
  <2>2. Counted'
    <3>1. requests \in Nat /\ \A j \in Tasks : timers[j] \in Nat /\ timers'[j] \in Nat
          BY <1>0, <1>5, ServiceAssumption DEF ServiceTypeOK
    <3> QED
        BY <1>0, <1>5, <3>1 DEF Counted
  <2>3. HolderRuns'
        BY <1>0, <1>5 DEF HolderRuns
  <2> QED
      BY <2>1, <2>2, <2>3
<1>6. ASSUME NEW j \in Tasks, TimerEnds(j) PROVE ServiceInv'
  <2>1. timers' = [timers EXCEPT ![j] = @ - 1] /\ timers[j] > 0 /\ timers \in [Tasks -> 0..MaxRequests]
        BY <1>0, <1>6 DEF TimerEnds, ServiceTypeOK
  <2>2. timers' \in [Tasks -> 0..MaxRequests] /\ \A i \in Tasks : timers'[i] <= timers[i]
        BY <2>1, ServiceAssumption
  <2> QED
      BY <1>5, <1>6, <2>2 DEF TimerEnds
<1>7. ASSUME NEW e \in Events, Delivered(e) PROVE ServiceInv'
  <2>1. Cleared(e) \in SUBSET Tasks /\ timers' \in [Tasks -> 0..MaxRequests]
        /\ \A i \in Tasks : timers'[i] <= timers[i]
        BY <1>0, <1>7, ClearedTyped, ServiceAssumption DEF Delivered, ServiceTypeOK
  <2> QED
      BY <1>5, <1>7, <2>1 DEF Delivered
<1>8. CASE LeaveTab
  <2>1. timers' \in [Tasks -> 0..MaxRequests] /\ \A i \in Tasks : timers'[i] <= timers[i]
        BY <1>0, <1>8, ServiceAssumption DEF LeaveTab, ServiceTypeOK
  <2> QED
      BY <1>0, <1>5, <1>8, <2>1 DEF LeaveTab, ServiceTypeOK
<1>9. ASSUME NEW j \in Tasks, Lock(j) PROVE ServiceInv'
      BY <1>0, <1>9 DEF Lock, RunningTasks, ServiceTypeOK, Counted, HolderRuns
<1>10. CASE TakesEffect
  <2>1. Service(holder) \in Services
        BY <1>0, <1>10, TaskKinds DEF TakesEffect, ServiceTypeOK
  <2> QED
      BY <1>0, <1>10, <2>1 DEF TakesEffect, ServiceTypeOK, Counted, HolderRuns
<1>11. CASE Unlock
  <2>1. holder \in Tasks /\ jobs[holder] > 0 /\ holder' = Nobody
        BY <1>0, <1>11 DEF Unlock, ServiceTypeOK, HolderRuns
  <2>2. PICK event \in SUBSET Events : Ends(holder, event)
        BY <1>11, <2>1 DEF Unlock, Events
  <2> QED
      BY <1>0, <2>1, <2>2, EndsTyped DEF ServiceTypeOK, HolderRuns
<1>12. ASSUME NEW s \in Services, Toggled(s) PROVE ServiceInv'
  <2>1. <<"toggle", s>> \in Tasks /\ jobs[<<"toggle", s>>] > 0 /\ Kind(<<"toggle", s>>) = "toggle"
        BY <1>12, TaskKinds DEF Toggled, RunningTasks
  <2>2. PICK event \in SUBSET Events : Ends(<<"toggle", s>>, event)
        BY <1>12 DEF Toggled, Events
  <2>3. holder' = holder /\ jobs' = [jobs EXCEPT ![<<"toggle", s>>] = @ - 1]
        BY <1>12, <2>2 DEF Toggled, Ends
  <2>4. HolderRuns'
        BY <1>0, <2>1, <2>3 DEF HolderRuns, ServiceTypeOK, Queued
  <2> QED
      BY <1>0, <2>1, <2>2, <2>3, <2>4, EndsTyped DEF ServiceTypeOK
<1>13. ASSUME NEW s \in Services, Elsewhere(s) PROVE ServiceInv'
       BY <1>0, <1>13 DEF Elsewhere, ServiceTypeOK, Counted, HolderRuns
<1>14. CASE UNCHANGED serviceVars
       BY <1>0, <1>14 DEF serviceVars, ServiceTypeOK, Counted, HolderRuns
<1> QED
    BY <1>1, <1>2, <1>3, <1>4, <1>6, <1>7, <1>8, <1>9, <1>10, <1>11, <1>12, <1>13, <1>14 DEF ServiceNext

LEMMA ServiceInitTyped == ServiceInit => ServiceInv
BY ServiceAssumption DEF ServiceInit, ServiceInv, ServiceTypeOK, Counted, HolderRuns

\* Every reachable state of the databases tab and its goroutines is well typed.
THEOREM ServiceTyped == ServiceSpec => []ServiceTypeOK
<1>1. ServiceInv => ServiceTypeOK
      BY DEF ServiceInv
<1> QED
    BY <1>1, ServiceInitTyped, ServiceStepTyped, PTL DEF ServiceSpec

---------------------------------------------------------------------------
(* Nothing is done to an engine twice at a time. *)

\* What makes NoDoubleJob inductive: the flag of a goroutine that runs is up or
\* was cleared too early, and a request that awaits its confirmation has no
\* flag yet, since no other can be made before it is answered.
FlagTellsOfJob == \A j \in Tasks : jobs[j] > 0 => j \in flags \cup dropped
ConfirmFree == confirm # Nobody => confirm \notin flags

JobInv == FlagTellsOfJob /\ ConfirmFree /\ NoDoubleJob

LEMMA RequestKeeps ==
  ASSUME ServiceInv, JobInv, NEW j \in Tasks, j \notin flags, Request(j)
  PROVE  FlagTellsOfJob' /\ NoDoubleJob'
<1>0. \A i \in Tasks : jobs[i] \in Nat
      BY ServiceAssumption DEF ServiceInv, ServiceTypeOK
<1>1. /\ jobs' = [jobs EXCEPT ![j] = @ + 1]
      /\ flags' = flags \cup {j}
      /\ dropped' = IF jobs[j] = 0 THEN dropped \ {j} ELSE dropped
      BY DEF Request
<1>2. \A i \in Tasks : jobs'[i] = IF i = j THEN jobs[j] + 1 ELSE jobs[i]
      BY <1>1 DEF ServiceInv, ServiceTypeOK
<1>3. FlagTellsOfJob'
      BY <1>1, <1>2 DEF JobInv, FlagTellsOfJob
<1>4. NoDoubleJob'
  <2>1. jobs[j] > 0 => j \in dropped
        BY DEF JobInv, FlagTellsOfJob
  <2> QED
      BY <1>0, <1>1, <1>2, <2>1 DEF JobInv, NoDoubleJob
<1> QED
    BY <1>3, <1>4

LEMMA JobStep == ServiceInv /\ JobInv /\ [ServiceNext]_serviceVars => JobInv'
<1> SUFFICES ASSUME ServiceInv, JobInv, [ServiceNext]_serviceVars PROVE JobInv'
    OBVIOUS
<1> USE DEF JobInv
<1>1. CASE Refresh \/ CancelRequest \/ OtherError \/ TakesEffect
      BY <1>1 DEF Refresh, CancelRequest, OtherError, TakesEffect, FlagTellsOfJob, ConfirmFree, NoDoubleJob
<1>2. ASSUME NEW s \in Services, AskInstall(s) \/ AskUninstall(s) PROVE JobInv'
  <2>1. confirm' \notin flags
        BY <1>2 DEF AskInstall, AskUninstall, Flagged, Kind
  <2> QED
      BY <1>2, <2>1 DEF AskInstall, AskUninstall, FlagTellsOfJob, ConfirmFree, NoDoubleJob
<1>3. CASE Confirmed
  <2>1. confirm \in Tasks /\ confirm \notin flags /\ Request(confirm) /\ confirm' = Nobody
        BY <1>3 DEF Confirmed, ConfirmFree, ServiceInv, ServiceTypeOK
  <2> QED
      BY <2>1, RequestKeeps DEF ConfirmFree
<1>4. ASSUME NEW s \in Services, handleToggle(s) PROVE JobInv'
  <2>1. /\ <<"toggle", s>> \in Tasks /\ <<"toggle", s>> \notin flags /\ Request(<<"toggle", s>>)
        /\ confirm = Nobody /\ confirm' = confirm
        BY <1>4, TaskKinds DEF handleToggle
  <2> QED
      BY <2>1, RequestKeeps DEF ConfirmFree
<1>5. ASSUME NEW cleared, ClearFlags(cleared), UNCHANGED <<jobs, confirm>> PROVE JobInv'
      BY <1>5 DEF ClearFlags, FlagTellsOfJob, ConfirmFree, NoDoubleJob
<1>6. ASSUME NEW j \in Tasks, TimerEnds(j) PROVE JobInv'
      BY <1>5, <1>6 DEF TimerEnds
<1>7. ASSUME NEW e \in Events, Delivered(e) PROVE JobInv'
      BY <1>5, <1>7 DEF Delivered
<1>8. CASE LeaveTab
      BY <1>5, <1>8 DEF LeaveTab
<1>9. ASSUME NEW j \in Tasks, Lock(j) PROVE JobInv'
      BY <1>9 DEF Lock, FlagTellsOfJob, ConfirmFree, NoDoubleJob
<1>10. ASSUME NEW j \in Tasks, NEW event, Ends(j, event) PROVE JobInv'
  <2>1. \A i \in Tasks : jobs[i] \in Nat /\ jobs'[i] = IF i = j THEN jobs[j] - 1 ELSE jobs[i]
        BY <1>10, ServiceAssumption DEF Ends, ServiceInv, ServiceTypeOK
  <2>2. flags' = flags /\ dropped' = dropped /\ confirm' = confirm
        BY <1>10 DEF Ends
  <2> QED
      BY <2>1, <2>2 DEF FlagTellsOfJob, ConfirmFree, NoDoubleJob
<1>11. CASE Unlock
  <2>1. holder \in Tasks
        BY <1>11 DEF Unlock, ServiceInv, ServiceTypeOK
  <2> QED
      BY <1>10, <1>11, <2>1 DEF Unlock
<1>12. ASSUME NEW s \in Services, Toggled(s) PROVE JobInv'
  <2>1. <<"toggle", s>> \in Tasks
        BY TaskKinds
  <2> QED
      BY <1>10, <1>12, <2>1 DEF Toggled
<1>13. ASSUME NEW s \in Services, Elsewhere(s) PROVE JobInv'
       BY <1>13 DEF Elsewhere, FlagTellsOfJob, ConfirmFree, NoDoubleJob
<1>14. CASE UNCHANGED serviceVars
       BY <1>14 DEF serviceVars, FlagTellsOfJob, ConfirmFree, NoDoubleJob
<1> QED
    BY <1>1, <1>2, <1>3, <1>4, <1>6, <1>7, <1>8, <1>9, <1>11, <1>12, <1>13, <1>14 DEF ServiceNext

\* The manager does not start the same job on an engine while one runs, unless
\* the flag that disables its button was cleared too early.
THEOREM ServiceNoDoubleJob == ServiceSpec => []NoDoubleJob
<1>1. ServiceInit => JobInv
      BY DEF ServiceInit, JobInv, FlagTellsOfJob, ConfirmFree, NoDoubleJob
<1>2. JobInv => NoDoubleJob
      BY DEF JobInv
<1> QED
    BY <1>1, <1>2, ServiceInitTyped, ServiceStepTyped, JobStep, PTL DEF ServiceSpec

=============================================================================
