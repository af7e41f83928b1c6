------------------------ MODULE ServerControl_proofs ------------------------
(***************************************************************************)
(* Proofs about ServerControl, for any number of processes and clicks.     *)
(***************************************************************************)
EXTENDS ServerControl, TLAPS

---------------------------------------------------------------------------
(* Typing. *)

States == {"unborn", "booting", "listening", "dead"}
Calls == [at : {"idle", "kill", "port", "answered"}, proc : 0..MaxStarts, running : BOOLEAN, stop : BOOLEAN]

LEMMA ReturnTyped ==
  ASSUME TypeOK, NEW c \in Callers, NEW running \in BOOLEAN, NEW stop \in BOOLEAN, Return(c, running, stop)
  PROVE  call' \in [Callers -> Calls]
<1>1. Idle \in Calls /\ [at |-> "answered", proc |-> 0, running |-> running, stop |-> stop] \in Calls
      BY ServerAssumption DEF Idle, Calls
<1> QED
    BY <1>1 DEF Return, TypeOK, Calls

LEMMA ClickedTyped ==
  ASSUME TypeOK, NEW c \in Callers, NEW stop \in BOOLEAN, CanClick(c, stop), Clicked(c)
  PROVE  clicks' \in [Callers -> 0..MaxClicks] /\ window' \in [running : BOOLEAN, loading : BOOLEAN]
<1>1. clicks[c] + 1 \in 0..MaxClicks
      BY ServerAssumption DEF CanClick, TypeOK
<1> QED
    BY <1>1 DEF Clicked, TypeOK

LEMMA ServerInitTyped == Init => TypeOK
<1> SUFFICES ASSUME Init PROVE TypeOK
    OBVIOUS
<1>1. Idle \in Calls
      BY ServerAssumption DEF Idle, Calls
<1>2. process \in [Processes -> States] /\ call \in [Callers -> Calls]
      BY <1>1 DEF Init, States
<1>3. window \in [running : BOOLEAN, loading : BOOLEAN] /\ clicks \in [Callers -> 0..MaxClicks]
      BY ServerAssumption DEF Init
<1>4. serverProc \in 0..MaxStarts
      BY ServerAssumption DEF Init
<1>5. foreign \in BOOLEAN /\ early \in BOOLEAN
      BY Zenon DEF Init
<1> QED
    BY <1>2, <1>3, <1>4, <1>5 DEF Init, TypeOK, Calls, States

LEMMA ServerStepTyped == TypeOK /\ [Next]_serverVars => TypeOK'
<1> SUFFICES ASSUME TypeOK, [Next]_serverVars PROVE TypeOK'
    OBVIOUS
<1> USE DEF TypeOK
<1>1. ASSUME NEW p \in Processes, Listen(p) \/ Exit(p) PROVE TypeOK'
      BY <1>1 DEF Listen, Exit
<1>2. ASSUME NEW p \in Processes, PortOpens(p) \/ GivesUp(p) PROVE TypeOK'
      BY <1>2 DEF PortOpens, GivesUp
<1>3. CASE Foreign
      BY <1>3 DEF Foreign
<1>4. ASSUME NEW c \in Callers, StartServer(c) PROVE TypeOK'
  <2>1. clicks' \in [Callers -> 0..MaxClicks] /\ window' \in [running : BOOLEAN, loading : BOOLEAN]
        BY <1>4, ClickedTyped DEF StartServer
  <2>2. call' \in [Callers -> Calls]
        BY <1>4, ReturnTyped DEF StartServer, AlreadyRunning, CannotStart, Started
  <2>3. early' \in BOOLEAN
        BY <1>4, Zenon DEF StartServer, AlreadyRunning, CannotStart, Started
  <2>4. CASE AlreadyRunning(c) \/ CannotStart(c)
        BY <1>4, <2>1, <2>2, <2>3, <2>4 DEF StartServer, AlreadyRunning, CannotStart, Calls
  <2>5. CASE Started(c)
    <3>1. PICK p \in Fresh : /\ process' = [process EXCEPT ![p] = "booting"]
                             /\ serverProc' = p
                             /\ waiting' = waiting \cup {p}
                             /\ excused' = IF Stopping # {} THEN excused \cup {p} ELSE excused
          BY <2>5 DEF Started
    <3>2. p \in Processes /\ p \in 0..MaxStarts
          BY ServerAssumption DEF Fresh, Processes
    <3> QED
        BY <1>4, <2>1, <2>2, <2>3, <2>5, <3>1, <3>2 DEF StartServer, Started, Calls
  <2> QED
      BY <1>4, <2>4, <2>5 DEF StartServer
<1>5. ASSUME NEW c \in Callers, StopServer(c) PROVE TypeOK'
  <2>1. clicks' \in [Callers -> 0..MaxClicks] /\ window' \in [running : BOOLEAN, loading : BOOLEAN]
        BY <1>5, ClickedTyped DEF StopServer
  <2>2. call' \in [Callers -> Calls]
        BY <1>5 DEF StopServer, Calls
  <2> QED
      BY <1>5, <2>1, <2>2, ServerAssumption DEF StopServer, Calls
<1>6. ASSUME NEW c \in Callers, KillProc(c) PROVE TypeOK'
  <2>1. call' \in [Callers -> Calls]
    <3>1. call' = [call EXCEPT ![c] = [call[c] EXCEPT !.at = "port", !.proc = 0]]
          BY <1>6 DEF KillProc
    <3>2. call[c] \in Calls
          BY DEF Calls
    <3>3. [call[c] EXCEPT !.at = "port", !.proc = 0] \in Calls
      <4>1. 0 \in 0..MaxStarts
            BY ServerAssumption
      <4>2. [call[c] EXCEPT !.at = "port"] \in Calls
            BY <3>2 DEF Calls
      <4>3. \A k \in Calls, n \in 0..MaxStarts : [k EXCEPT !.proc = n] \in Calls
            BY DEF Calls
      <4> QED
          BY <4>1, <4>2, <4>3
    <3> QED
        BY <3>1, <3>3 DEF Calls
  <2>2. process' \in [Processes -> States]
        BY <1>6 DEF KillProc, Kill, States
  <2> QED
      BY <1>6, <2>1, <2>2 DEF KillProc, Calls, States
<1>7. ASSUME NEW c \in Callers, KillPort(c) PROVE TypeOK'
  <2>1. call' \in [Callers -> Calls]
        BY <1>7, ReturnTyped DEF KillPort
  <2>2. process' \in [Processes -> States]
        BY <1>7 DEF KillPort, States
  <2> QED
      BY <1>7, <2>1, <2>2 DEF KillPort, Calls, States
<1>8. CASE WindowAnswered
  <2>1. Idle \in Calls
        BY ServerAssumption DEF Idle, Calls
  <2>2. window' \in [running : BOOLEAN, loading : BOOLEAN]
        BY <1>8, Zenon DEF WindowAnswered, Callers
  <2> QED
      BY <1>8, <2>1, <2>2 DEF WindowAnswered, Calls
<1>9. CASE Poll \/ OtherError
      BY <1>9 DEF Poll, Asked, OtherError
<1>10. ASSUME NEW running \in BOOLEAN, PollAnswered(running) PROVE TypeOK'
       BY <1>10 DEF PollAnswered
<1>11. ASSUME NEW e \in {"started", "stopped", "error"}, Delivered(e) PROVE TypeOK'
       BY <1>11 DEF Delivered, Asked
<1>12. CASE UNCHANGED serverVars
       BY <1>12 DEF serverVars
<1> QED
    BY <1>1, <1>2, <1>3, <1>4, <1>5, <1>6, <1>7, <1>8, <1>9, <1>10, <1>11, <1>12 DEF Next

\* Every reachable state of the manager's server control is well typed.
THEOREM ServerTyped == Spec => []TypeOK
<1> QED
    BY ServerInitTyped, ServerStepTyped, PTL DEF Spec

---------------------------------------------------------------------------
(* The spinner. *)

\* Stronger than LoadingOwed: the answer to a start, which does not end the
\* spinner, is not counted as something that will.
StartOwed ==
  (window.loading /\ (call["window"].at = "idle" \/ (call["window"].at = "answered" /\ ~call["window"].stop)))
    => events # {} \/ waiting # {} \/ early

LEMMA StartOwedStep == TypeOK /\ StartOwed /\ [Next]_serverVars => StartOwed'
<1> SUFFICES ASSUME TypeOK, StartOwed, [Next]_serverVars PROVE StartOwed'
    OBVIOUS
<1>0. /\ call \in [Callers -> Calls] /\ window \in [running : BOOLEAN, loading : BOOLEAN]
      /\ "window" \in Callers /\ "menu" \in Callers /\ Callers = {"window", "menu"}
      BY DEF TypeOK, Calls, Callers
<1> USE DEF StartOwed
<1>1. ASSUME NEW p \in Processes, Listen(p) \/ Exit(p) \/ PortOpens(p) \/ GivesUp(p) PROVE StartOwed'
  <2>1. CASE Listen(p) \/ Exit(p)
        BY <2>1 DEF Listen, Exit
  <2>2. CASE PortOpens(p) \/ GivesUp(p)
    <3>1. events' # {}
          BY <2>2 DEF PortOpens, GivesUp
    <3> QED
        BY <3>1
  <2> QED
      BY <1>1, <2>1, <2>2
<1>2. CASE Foreign \/ Poll \/ OtherError
  <2>1. window' = window /\ call' = call /\ waiting' = waiting /\ early' = early /\ events \subseteq events'
        BY <1>2 DEF Foreign, Poll, OtherError
  <2> QED
      BY <2>1
<1>3. ASSUME NEW c \in Callers, StartServer(c) PROVE StartOwed'
  <2>1. CASE c = "window"
    <3>1. early' \/ events' # {} \/ waiting' # {}
          BY <1>3, <2>1 DEF StartServer, AlreadyRunning, CannotStart, Started
    <3> QED
        BY <3>1
  <2>2. CASE c = "menu"
    <3>1. window' = window /\ call'["window"] = call["window"]
          BY <1>0, <1>3, <2>2 DEF StartServer, Clicked, AlreadyRunning, CannotStart, Started, Return
    <3>2. (early => early') /\ events \subseteq events' /\ waiting \subseteq waiting'
          BY <1>3, <2>2 DEF StartServer, AlreadyRunning, CannotStart, Started
    <3> QED
        BY <3>1, <3>2
  <2> QED
      BY <1>0, <2>1, <2>2
<1>4. ASSUME NEW c \in Callers, StopServer(c) \/ KillProc(c) \/ KillPort(c) PROVE StartOwed'
  <2>1. waiting' = waiting /\ early' = early /\ events \subseteq events'
        BY <1>4 DEF StopServer, KillProc, KillPort
  <2>2. CASE c = "window"
    <3>1. call'["window"].at \in {"kill", "port"} \/ call'["window"].stop
      <4>1. CASE StopServer(c)
            BY <1>0, <2>2, <4>1 DEF StopServer
      <4>2. CASE KillProc(c)
            BY <1>0, <2>2, <4>2 DEF KillProc, Calls
      <4>3. CASE KillPort(c)
            BY <1>0, <2>2, <4>3 DEF KillPort, Return
      <4> QED
          BY <1>4, <4>1, <4>2, <4>3
    <3>2. call'["window"].at # "idle"
      <4>1. CASE StopServer(c)
            BY <1>0, <2>2, <4>1 DEF StopServer
      <4>2. CASE KillProc(c)
            BY <1>0, <2>2, <4>2 DEF KillProc, Calls
      <4>3. CASE KillPort(c)
            BY <1>0, <2>2, <4>3 DEF KillPort, Return
      <4> QED
          BY <1>4, <4>1, <4>2, <4>3
    <3> QED
        BY <3>1, <3>2
  <2>3. CASE c = "menu"
    <3>1. window' = window /\ call'["window"] = call["window"]
          BY <1>0, <1>4, <2>3 DEF StopServer, Clicked, KillProc, KillPort, Return
    <3> QED
        BY <2>1, <3>1
  <2> QED
      BY <1>0, <2>2, <2>3
<1>5. CASE WindowAnswered
  <2>1. /\ call["window"].at = "answered" /\ events' = events /\ waiting' = waiting /\ early' = early
        /\ window'.loading = (window.loading /\ ~call["window"].stop)
        BY <1>5 DEF WindowAnswered
  <2> QED
      BY <2>1
<1>6. ASSUME NEW running \in BOOLEAN, PollAnswered(running) PROVE StartOwed'
  <2>1. window'.loading = window.loading
        BY <1>0, <1>6 DEF PollAnswered
  <2> QED
      BY <1>6, <2>1 DEF PollAnswered
<1>7. ASSUME NEW e \in {"started", "stopped", "error"}, Delivered(e) PROVE StartOwed'
  <2>1. ~window'.loading
        BY <1>0, <1>7 DEF Delivered
  <2> QED
      BY <2>1
<1>8. CASE UNCHANGED serverVars
      BY <1>8 DEF serverVars
<1> QED
    BY <1>1, <1>2, <1>3, <1>4, <1>5, <1>6, <1>7, <1>8 DEF Next

\* While the window of the manager shows its spinner, something that ends it is
\* still to come, except after a start that found the server running.
THEOREM ServerLoadingOwed == Spec => []LoadingOwed
<1>1. Init => StartOwed
      BY DEF Init, StartOwed
<1>2. StartOwed => LoadingOwed
      BY DEF StartOwed, LoadingOwed, Idle
<1> QED
    BY <1>1, <1>2, ServerTyped, StartOwedStep, PTL DEF Spec

---------------------------------------------------------------------------
(* The process. *)

\* A process that is held while a stop is under way was started during it.
\* This is what excuses the kills of a stop: they can only hit such a one.
HeldDuringStop == Stopping # {} /\ serverProc # 0 => serverProc \in excused

ProcInv == ProcMatches /\ HeldDuringStop

LEMMA ProcStep == TypeOK /\ ProcInv /\ [Next]_serverVars => ProcInv'
<1> SUFFICES ASSUME TypeOK, ProcInv, [Next]_serverVars PROVE ProcInv'
    OBVIOUS
<1>0. /\ call \in [Callers -> Calls] /\ process \in [Processes -> States]
      /\ \A p \in Processes : p # 0
      BY ServerAssumption DEF TypeOK, Calls, States, Processes
\* What the others do: no process comes alive or dies, no call kills.
<1>1. ASSUME UNCHANGED <<serverProc, process, excused>>,
             \A c \in Callers : call'[c].at = call[c].at /\ call'[c].proc = call[c].proc
      PROVE  ProcInv'
      BY <1>1 DEF ProcInv, ProcMatches, HeldDuringStop, Stopping, Alive
<1>2. ASSUME NEW p \in Processes, Listen(p) \/ Exit(p) PROVE ProcInv'
  <2>1. serverProc' = serverProc /\ call' = call
        BY <1>2 DEF Listen, Exit
  <2>2. \A q \in Processes : Alive(q)' => Alive(q)
        BY <1>0, <1>2 DEF Listen, Exit, Alive
  <2>3. \A q \in Processes : process'[q] = "dead" => process[q] = "dead" \/ q \in excused'
        BY <1>0, <1>2 DEF Listen, Exit
  <2>4. excused \subseteq excused'
        BY <1>2 DEF Listen, Exit
  <2> QED
      BY <2>1, <2>2, <2>3, <2>4 DEF ProcInv, ProcMatches, HeldDuringStop, Stopping
<1>3. ASSUME NEW p \in Processes, PortOpens(p) \/ GivesUp(p) PROVE ProcInv'
      BY <1>1, <1>3 DEF PortOpens, GivesUp
<1>4. CASE Foreign \/ Poll \/ OtherError
      BY <1>1, <1>4 DEF Foreign, Poll, OtherError
<1>5. ASSUME NEW c \in Callers, StartServer(c) PROVE ProcInv'
  \* The caller stops nothing, before or after.
  <2>1. /\ call[c] = Idle /\ call'[c].at \in {"idle", "answered"}
        /\ \A d \in Callers \ {c} : call'[d] = call[d]
        BY <1>0, <1>5 DEF StartServer, CanClick, AlreadyRunning, CannotStart, Started, Return, Idle
  <2>2. \A d \in Callers : call[d].at = "kill" => call'[d].at = "kill" /\ call'[d].proc = call[d].proc
        BY <2>1 DEF Idle
  <2>3. Stopping' = Stopping
    <3>1. \A d \in Callers : call[d].at \in {"kill", "port"} <=> call'[d].at \in {"kill", "port"}
          BY <2>1 DEF Idle
    <3> QED
        BY <3>1 DEF Stopping
  <2>4. CASE AlreadyRunning(c) \/ CannotStart(c)
    <3>1. UNCHANGED <<serverProc, process, excused>>
          BY <2>4 DEF AlreadyRunning, CannotStart
    <3> QED
        BY <2>2, <2>3, <3>1 DEF ProcInv, ProcMatches, HeldDuringStop, Alive
  <2>5. CASE Started(c)
    <3>1. PICK p \in Fresh : /\ process' = [process EXCEPT ![p] = "booting"]
                             /\ serverProc' = p
                             /\ excused' = IF Stopping # {} THEN excused \cup {p} ELSE excused
          BY <2>5 DEF Started
    <3>2. serverProc = 0 /\ p \in Processes
          BY <2>5 DEF Started, Fresh
    <3>3. ProcMatches'
      <4> SUFFICES ASSUME NEW q \in Processes
                   PROVE  /\ Alive(q)' => \/ serverProc' = q
                                          \/ \E d \in Callers : call'[d].at = "kill" /\ call'[d].proc = q
                          /\ serverProc' = q /\ process'[q] = "dead" => q \in excused'
          BY DEF ProcMatches
      <4>1. CASE q = p
            BY <1>0, <3>1, <3>2, <4>1
      <4>2. CASE q # p
        <5>1. process'[q] = process[q]
              BY <1>0, <3>1, <3>2, <4>2
        <5>2. Alive(q) => \E d \in Callers : call[d].at = "kill" /\ call[d].proc = q
              BY <1>0, <3>2 DEF ProcInv, ProcMatches
        <5> QED
            BY <2>2, <3>1, <4>2, <5>1, <5>2 DEF Alive
      <4> QED
          BY <4>1, <4>2
    <3>4. HeldDuringStop'
          BY <2>3, <3>1 DEF HeldDuringStop
    <3> QED
        BY <3>3, <3>4 DEF ProcInv
  <2> QED
      BY <1>5, <2>4, <2>5 DEF StartServer
<1>6. ASSUME NEW c \in Callers, StopServer(c) PROVE ProcInv'
  <2>1. /\ call[c] = Idle /\ serverProc' = 0 /\ process' = process /\ excused' = excused
        /\ call'[c].at = "kill" /\ call'[c].proc = serverProc
        /\ \A d \in Callers \ {c} : call'[d] = call[d]
        BY <1>0, <1>6 DEF StopServer, CanClick
  <2>2. call[c].at # "kill"
        BY <2>1 DEF Idle
  <2>3. ASSUME NEW p \in Processes, Alive(p)'
        PROVE  \E d \in Callers : call'[d].at = "kill" /\ call'[d].proc = p
    <3>1. serverProc = p \/ \E d \in Callers : call[d].at = "kill" /\ call[d].proc = p
          BY <2>1, <2>3 DEF ProcInv, ProcMatches, Alive
    <3> QED
        BY <2>1, <2>2, <3>1
  <2> QED
      BY <1>0, <2>1, <2>3 DEF ProcInv, ProcMatches, HeldDuringStop
<1>7. ASSUME NEW c \in Callers, KillProc(c) PROVE ProcInv'
  <2>1. /\ call[c].at = "kill" /\ call'[c].at = "port" /\ serverProc' = serverProc /\ excused' = excused
        /\ \A d \in Callers \ {c} : call'[d] = call[d]
        /\ process' = IF call[c].proc # 0 THEN Kill(call[c].proc) ELSE process
        BY <1>0, <1>7 DEF KillProc, Calls
  <2>2. \A q \in Processes : process'[q] = process[q] \/ process'[q] = "dead"
        BY <1>0, <2>1 DEF Kill
  <2>3. \A q \in Processes : q = call[c].proc => ~Alive(q)'
        BY <1>0, <2>1 DEF Kill, Alive
  <2>4. serverProc # 0 => serverProc \in excused
        BY <2>1 DEF ProcInv, HeldDuringStop, Stopping
  <2>5. ASSUME NEW p \in Processes, Alive(p)'
        PROVE  serverProc = p \/ \E d \in Callers : call'[d].at = "kill" /\ call'[d].proc = p
    <3>1. Alive(p)
          BY <2>2, <2>5 DEF Alive
    <3>2. serverProc = p \/ \E d \in Callers : call[d].at = "kill" /\ call[d].proc = p
          BY <3>1 DEF ProcInv, ProcMatches
    <3>3. p # call[c].proc
          BY <2>3, <2>5
    <3> QED
        BY <2>1, <3>2, <3>3
  <2> QED
      BY <1>0, <2>1, <2>4, <2>5 DEF ProcInv, ProcMatches, HeldDuringStop
<1>8. ASSUME NEW c \in Callers, KillPort(c) PROVE ProcInv'
  <2>1. /\ call[c].at = "port" /\ call'[c].at # "kill" /\ serverProc' = serverProc /\ excused' = excused
        /\ \A d \in Callers \ {c} : call'[d] = call[d]
        /\ \A q \in Processes : process'[q] = process[q] \/ process'[q] = "dead"
        BY <1>0, <1>8 DEF KillPort, Return, Idle
  <2>2. serverProc # 0 => serverProc \in excused
        BY <2>1 DEF ProcInv, HeldDuringStop, Stopping
  <2>3. \A q \in Processes : Alive(q)' => Alive(q)
        BY <2>1 DEF Alive
  <2>4. \A d \in Callers : call[d].at = "kill" => call'[d] = call[d]
        BY <2>1
  <2> QED
      BY <1>0, <2>1, <2>2, <2>3, <2>4 DEF ProcInv, ProcMatches, HeldDuringStop
<1>9. CASE WindowAnswered
  <2>1. /\ call["window"].at = "answered" /\ call'["window"] = Idle
        /\ \A d \in Callers \ {"window"} : call'[d] = call[d]
        /\ UNCHANGED <<serverProc, process, excused>>
        BY <1>0, <1>9 DEF WindowAnswered, Callers
  <2>2. \A d \in Callers : call[d].at = "kill" => call'[d].at = "kill" /\ call'[d].proc = call[d].proc
        BY <2>1 DEF Idle
  <2>3. Stopping' = Stopping
    <3>1. \A d \in Callers : call[d].at \in {"kill", "port"} <=> call'[d].at \in {"kill", "port"}
          BY <2>1 DEF Idle
    <3> QED
        BY <3>1 DEF Stopping
  <2> QED
      BY <2>1, <2>2, <2>3 DEF ProcInv, ProcMatches, HeldDuringStop, Alive
<1>10. ASSUME NEW running \in BOOLEAN, PollAnswered(running) PROVE ProcInv'
       BY <1>1, <1>10 DEF PollAnswered
<1>11. ASSUME NEW e \in {"started", "stopped", "error"}, Delivered(e) PROVE ProcInv'
       BY <1>1, <1>11 DEF Delivered
<1>12. CASE UNCHANGED serverVars
       BY <1>1, <1>12 DEF serverVars
<1> QED
    BY <1>2, <1>3, <1>4, <1>5, <1>6, <1>7, <1>8, <1>9, <1>10, <1>11, <1>12 DEF Next

\* No server that the manager started runs without being held, unless a stop is
\* about to kill it, and the one it holds has not ended unless it ended by
\* itself or was started while a stop was under way.
THEOREM ServerProcMatches == Spec => []ProcMatches
<1>1. Init => ProcInv
      BY DEF Init, ProcInv, ProcMatches, HeldDuringStop, Stopping, Alive, Idle
<1>2. ProcInv => ProcMatches
      BY DEF ProcInv
<1> QED
    BY <1>1, <1>2, ServerTyped, ProcStep, PTL DEF Spec

=============================================================================
