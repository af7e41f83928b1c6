--------------------------- MODULE ServerControl ---------------------------
(***************************************************************************)
(* How the desktop manager starts and stops the server: StartServer        *)
(* and StopServer of manager/app.go, called by the window and by the tray  *)
(* and application menus, the goroutine waitForPort, and what the window   *)
(* shows of it (App of manager/frontend/src/App.tsx): the answers of its   *)
(* own calls, the events of the backend and a poll every 3 s, which arrive *)
(* in any order. StartServer holds the mutex to its end; StopServer gives  *)
(* it back before it kills. The process is a number; another program may   *)
(* listen on the port. app:error is also sent by others (ServiceControl).  *)
(* That the kill by port may hit a client of the server is the kill of     *)
(* nothing here.                                                           *)
(***************************************************************************)
EXTENDS Naturals, FiniteSets

CONSTANTS MaxStarts,   \* how many processes a behaviour starts
          MaxClicks    \* how often the window, and a menu, is clicked

ASSUME ServerAssumption == MaxStarts \in Nat /\ MaxClicks \in Nat

VARIABLES
  serverProc,  \* the process the manager holds, 0 for nil
  process,     \* what became of each process
  foreign,     \* another program listens on the port
  waiting,     \* the processes a waitForPort goroutine waits for
  call,        \* where the call of the window and that of a menu stands
  window,      \* status.running and loading
  events,      \* emitted, not yet delivered to the window
  polls,       \* the answers of GetServerStatus under way
  clicks,
  early,       \* history: the last start of the window answered, and no event will follow
  excused      \* history: processes that ended by themselves, or were started during a stop

serverVars == <<serverProc, process, foreign, waiting, call, window, events, polls, clicks, early, excused>>

Callers == {"window", "menu"}
Processes == 1..MaxStarts
Idle == [at |-> "idle", proc |-> 0, running |-> FALSE, stop |-> FALSE]

Alive(p) == process[p] \in {"booting", "listening"}
Listening == {p \in Processes : process[p] = "listening"}
isPortOpen == foreign \/ Listening # {}
Fresh == {p \in Processes : process[p] = "unborn"}
Stopping == {c \in Callers : call[c].at \in {"kill", "port"}}

---------------------------------------------------------------------------
(* The processes. *)

Listen(p) ==
  /\ process[p] = "booting" /\ ~isPortOpen
  /\ process' = [process EXCEPT ![p] = "listening"]
  /\ UNCHANGED <<serverProc, foreign, waiting, call, window, events, polls, clicks, early, excused>>

\* It crashes, or finds the port taken.
Exit(p) ==
  /\ Alive(p)
  /\ process' = [process EXCEPT ![p] = "dead"]
  /\ excused' = excused \cup {p}
  /\ UNCHANGED <<serverProc, foreign, waiting, call, window, events, polls, clicks, early>>

Foreign ==
  /\ Listening = {}
  /\ foreign' = ~foreign
  /\ UNCHANGED <<serverProc, process, waiting, call, window, events, polls, clicks, early, excused>>

---------------------------------------------------------------------------
(* Starting. *)

\* The button shows Start or Stop by the status, and nothing while loading.
CanClick(c, stop) ==
  /\ call[c] = Idle /\ clicks[c] < MaxClicks
  /\ c = "window" => ~window.loading /\ window.running = stop

Clicked(c) ==
  /\ clicks' = [clicks EXCEPT ![c] = @ + 1]
  /\ window' = IF c = "window" THEN [window EXCEPT !.loading = TRUE] ELSE window

\* The menus do not wait for the answer.
Return(c, running, stop) ==
  call' = [call EXCEPT ![c] = IF c = "menu" THEN Idle
                              ELSE [at |-> "answered", proc |-> 0, running |-> running, stop |-> stop]]

\* Nothing is started when a process is held or somebody has the port: the
\* answer is that the server runs, and there is no event.
AlreadyRunning(c) ==
  /\ serverProc # 0 \/ isPortOpen
  /\ Return(c, TRUE, FALSE)
  /\ early' = (early \/ c = "window")
  /\ UNCHANGED <<serverProc, process, waiting, events, excused>>

\* No binary, or it cannot be run.
CannotStart(c) ==
  /\ serverProc = 0 /\ ~isPortOpen
  /\ events' = events \cup {"error"}
  /\ Return(c, FALSE, FALSE)
  /\ early' = (early /\ c # "window")
  /\ UNCHANGED <<serverProc, process, waiting, excused>>

Started(c) ==
  /\ serverProc = 0 /\ ~isPortOpen
  /\ \E p \in Fresh :
       /\ \A q \in Fresh : p <= q
       /\ process' = [process EXCEPT ![p] = "booting"]
       /\ serverProc' = p
       /\ waiting' = waiting \cup {p}
       /\ excused' = IF Stopping # {} THEN excused \cup {p} ELSE excused
  /\ Return(c, TRUE, FALSE)
  /\ early' = (early /\ c # "window")
  /\ UNCHANGED events

StartServer(c) ==
  /\ CanClick(c, FALSE)
  /\ Clicked(c)
  /\ AlreadyRunning(c) \/ CannotStart(c) \/ Started(c)
  /\ UNCHANGED <<foreign, polls>>

\* The port answers, whoever opened it.
PortOpens(p) ==
  /\ p \in waiting /\ isPortOpen
  /\ waiting' = waiting \ {p}
  /\ events' = events \cup {"started"}
  /\ UNCHANGED <<serverProc, process, foreign, call, window, polls, clicks, early, excused>>

\* A bug: waitForPort gives up without a word.
GivesUpMutant(p) ==
  /\ p \in waiting
  /\ waiting' = waiting \ {p}
  /\ UNCHANGED <<serverProc, process, foreign, call, window, events, polls, clicks, early, excused>>

\* After 6 s waitForPort gives up, also when the server was stopped meanwhile.
GivesUp(p) ==
  /\ p \in waiting
  /\ waiting' = waiting \ {p}
  /\ events' = events \cup {"error"}
  /\ UNCHANGED <<serverProc, process, foreign, call, window, polls, clicks, early, excused>>

---------------------------------------------------------------------------
(* Stopping: under the mutex the process is taken, then it is killed, then *)
(* whatever listens on the port.                                           *)

StopServer(c) ==
  /\ CanClick(c, TRUE)
  /\ Clicked(c)
  /\ call' = [call EXCEPT ![c] = [at |-> "kill", proc |-> serverProc, running |-> FALSE, stop |-> TRUE]]
  /\ serverProc' = 0
  /\ UNCHANGED <<process, foreign, waiting, events, polls, early, excused>>

Kill(p) == [process EXCEPT ![p] = IF Alive(p) THEN "dead" ELSE @]

\* A bug: the process is forgotten, not killed.
KillProcMutant(c) ==
  /\ call[c].at = "kill"
  /\ call' = [call EXCEPT ![c].at = "port", ![c].proc = 0]
  /\ UNCHANGED <<serverProc, process, foreign, waiting, window, events, polls, clicks, early, excused>>

KillProc(c) ==
  /\ call[c].at = "kill"
  /\ process' = IF call[c].proc # 0 THEN Kill(call[c].proc) ELSE process
  /\ call' = [call EXCEPT ![c].at = "port", ![c].proc = 0]
  /\ UNCHANGED <<serverProc, foreign, waiting, window, events, polls, clicks, early, excused>>

\* findPIDOnPort may miss the listener: on macOS lsof also lists the clients of
\* the port, and the first process is taken; on an error there is none.
KillPort(c) ==
  /\ call[c].at = "port"
  /\ \/ /\ process' = [p \in Processes |-> IF p \in Listening THEN "dead" ELSE process[p]]
        /\ foreign' = FALSE
     \/ UNCHANGED <<process, foreign>>
  /\ events' = events \cup {"stopped"}
  /\ Return(c, FALSE, TRUE)
  /\ UNCHANGED <<serverProc, waiting, window, polls, clicks, early, excused>>

---------------------------------------------------------------------------
(* The window. *)

\* handleStop is done with the answer, handleStart waits for an event.
WindowAnswered ==
  /\ call["window"].at = "answered"
  /\ window' = [running |-> call["window"].running, loading |-> window.loading /\ ~call["window"].stop]
  /\ call' = [call EXCEPT !["window"] = Idle]
  /\ UNCHANGED <<serverProc, process, foreign, waiting, events, polls, clicks, early, excused>>

\* GetServerStatus: it runs when a process is held.
Asked == polls \cup {serverProc # 0}

\* A bug: the polling stops once the server runs.
PollMutant ==
  /\ ~window.running
  /\ polls' = Asked
  /\ UNCHANGED <<serverProc, process, foreign, waiting, call, window, events, clicks, early, excused>>

\* The interval; a poll does not wait for the one before.
Poll ==
  /\ polls' = Asked
  /\ UNCHANGED <<serverProc, process, foreign, waiting, call, window, events, clicks, early, excused>>

PollAnswered(running) ==
  /\ running \in polls
  /\ polls' = polls \ {running}
  /\ window' = [window EXCEPT !.running = running]
  /\ UNCHANGED <<serverProc, process, foreign, waiting, call, events, clicks, early, excused>>

\* server:started and server:stopped refresh the status, app:error does not.
Delivered(e) ==
  /\ e \in events
  /\ events' = events \ {e}
  /\ window' = [window EXCEPT !.loading = FALSE]
  /\ polls' = IF e = "error" THEN polls ELSE Asked
  /\ UNCHANGED <<serverProc, process, foreign, waiting, call, clicks, early, excused>>

\* Installing or starting a database fails.
OtherError ==
  /\ events' = events \cup {"error"}
  /\ UNCHANGED <<serverProc, process, foreign, waiting, call, window, polls, clicks, early, excused>>

---------------------------------------------------------------------------

Init ==
  /\ serverProc = 0
  /\ process = [p \in Processes |-> "unborn"]
  /\ foreign \in BOOLEAN
  /\ waiting = {}
  /\ call = [c \in Callers |-> Idle]
  /\ window = [running |-> FALSE, loading |-> FALSE]
  /\ events = {}
  /\ polls = {FALSE}
  /\ clicks = [c \in Callers |-> 0]
  /\ early = FALSE
  /\ excused = {}

Next ==
  \/ \E p \in Processes : Listen(p) \/ Exit(p) \/ PortOpens(p) \/ GivesUp(p)
  \/ \E c \in Callers : StartServer(c) \/ StopServer(c) \/ KillProc(c) \/ KillPort(c)
  \/ \E running \in BOOLEAN : PollAnswered(running)
  \/ \E e \in {"started", "stopped", "error"} : Delivered(e)
  \/ WindowAnswered \/ Poll \/ Foreign \/ OtherError

\* The interval keeps running, calls and events arrive, and a goroutine goes
\* on; nobody has to click, and the processes do as they like.
Fairness ==
  /\ WF_serverVars(Poll) /\ WF_serverVars(WindowAnswered)
  /\ \A running \in BOOLEAN : WF_serverVars(PollAnswered(running))
  /\ \A e \in {"started", "stopped", "error"} : WF_serverVars(Delivered(e))
  /\ \A c \in Callers : WF_serverVars(KillProc(c)) /\ WF_serverVars(KillPort(c))
  /\ \A p \in Processes : WF_serverVars(PortOpens(p)) /\ WF_serverVars(GivesUp(p))

Spec == Init /\ [][Next]_serverVars /\ Fairness

---------------------------------------------------------------------------
(* Properties. *)

TypeOK ==
  /\ serverProc \in 0..MaxStarts
  /\ process \in [Processes -> {"unborn", "booting", "listening", "dead"}]
  /\ foreign \in BOOLEAN
  /\ waiting \subseteq Processes
  /\ call \in [Callers -> [at : {"idle", "kill", "port", "answered"}, proc : 0..MaxStarts,
                       running : BOOLEAN, stop : BOOLEAN]]
  /\ window \in [running : BOOLEAN, loading : BOOLEAN]
  /\ events \subseteq {"started", "stopped", "error"}
  /\ polls \subseteq BOOLEAN
  /\ clicks \in [Callers -> 0..MaxClicks]
  /\ early \in BOOLEAN
  /\ excused \subseteq Processes

\* While the window shows its spinner, whose button does nothing, something is
\* still to come that ends it: the answer of a stop, an event, or the end of
\* waitForPort. The exception is a start that found the server running: it
\* answers without an event and the spinner stays.
LoadingOwed ==
  window.loading => \/ call["window"] # Idle
                    \/ events # {}
                    \/ waiting # {}
                    \/ early

\* The process that the manager holds is what runs: no server that it started
\* is left running unheld, unless a stop is about to kill it, and the one it
\* holds has not ended unless it ended by itself or was started while a stop
\* was under way, whose kill of whatever has the port then hit it.
ProcMatches ==
  \A p \in Processes :
    /\ Alive(p) => serverProc = p \/ \E c \in Callers : call[c].at = "kill" /\ call[c].proc = p
    /\ serverProc = p /\ process[p] = "dead" => p \in excused

\* Once the manager goes on holding a process, or none, the window comes to
\* show that and keeps showing it, although polls and answers that were read
\* before may arrive after.
ShownSettles ==
  /\ <>[](serverProc # 0) => <>[]window.running
  /\ <>[](serverProc = 0) => <>[]~window.running

=============================================================================
