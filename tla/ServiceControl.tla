--------------------------- MODULE ServiceControl ---------------------------
(***************************************************************************)
(* How the desktop manager installs, removes, starts and stops database    *)
(* engines: InstallService, UninstallService, StartService and StopService *)
(* of manager/app.go, each a goroutine that nobody waits for, and          *)
(* DatabasesTab of manager/frontend/src/App.tsx, which guesses from        *)
(* events, polls and timers whether one still runs. The flags are of the   *)
(* tab and forgotten when another one is chosen; the goroutines go on.     *)
(* Whether an engine runs, and which of the two a toggle does, is data.    *)
(***************************************************************************)
EXTENDS Naturals, FiniteSets

CONSTANTS Services,
          MaxRequests,   \* how many requests a behaviour makes
          Nobody         \* holds installMu when it is free

ASSUME ServiceAssumption == MaxRequests \in Nat

VARIABLES
  installed,   \* what is on the machine
  listed,      \* services: what the window believes is
  jobs,        \* how many goroutines there are of each kind and engine
  holder,      \* the one that has installMu
  flags,       \* loadingServices, installingServices and uninstallingServices
  timers,      \* the polls and timers that will clear each flag
  confirm,     \* confirmInstall or confirmUninstall
  emitted,     \* events that are not yet delivered
  requests,
  dropped      \* history: flags cleared while the goroutine they tell of runs

serviceVars == <<installed, listed, jobs, holder, flags, timers, confirm, emitted, requests, dropped>>

Queued == {"install", "uninstall"}
Tasks == (Queued \cup {"toggle"}) \X Services
Kind(j) == j[1]
Service(j) == j[2]

RunningTasks == {j \in Tasks : jobs[j] > 0}

\* The events: that one is done, app:error and service:error.
AppError == <<"app:error", Nobody>>
ServiceError == <<"service:error", Nobody>>
Events == Tasks \cup {AppError, ServiceError}

\* Clearing flags, rightly or not.
ClearFlags(cleared) ==
  /\ flags' = flags \ cleared
  /\ dropped' = dropped \cup (cleared \cap flags \cap {j \in Tasks : jobs'[j] > 0})

---------------------------------------------------------------------------
(* The tab. *)

\* GetAllServices, after an event, a timer, or every 3 s.
Refresh ==
  /\ listed' = installed
  /\ UNCHANGED <<installed, jobs, holder, flags, timers, confirm, emitted, requests, dropped>>

Flagged(kind) == {j \in flags : Kind(j) = kind}

AskInstall(s) ==
  /\ confirm = Nobody /\ s \notin listed /\ Flagged("install") = {}
  /\ confirm' = <<"install", s>>
  /\ UNCHANGED <<installed, listed, jobs, holder, flags, timers, emitted, requests, dropped>>

AskUninstall(s) ==
  /\ confirm = Nobody /\ s \in listed /\ <<"uninstall", s>> \notin flags
  /\ confirm' = <<"uninstall", s>>
  /\ UNCHANGED <<installed, listed, jobs, holder, flags, timers, emitted, requests, dropped>>

CancelRequest ==
  /\ confirm # Nobody
  /\ confirm' = Nobody
  /\ UNCHANGED <<installed, listed, jobs, holder, flags, timers, emitted, requests, dropped>>

\* A goroutine, a flag, and what will clear it.
Request(j) ==
  /\ requests < MaxRequests /\ requests' = requests + 1
  /\ jobs' = [jobs EXCEPT ![j] = @ + 1]
  /\ flags' = flags \cup {j}
  /\ timers' = [timers EXCEPT ![j] = @ + 1]
  /\ dropped' = IF jobs[j] = 0 THEN dropped \ {j} ELSE dropped
  /\ UNCHANGED <<installed, listed, holder, emitted>>

\* handleInstall, handleUninstallConfirm
Confirmed ==
  /\ confirm # Nobody /\ Request(confirm)
  /\ confirm' = Nobody

\* A bug: the button of a toggle does not look at its flag.
handleToggleMutant(s) ==
  /\ confirm = Nobody /\ s \in listed
  /\ <<"uninstall", s>> \notin flags
  /\ Request(<<"toggle", s>>)
  /\ UNCHANGED confirm

handleToggle(s) ==
  /\ confirm = Nobody /\ s \in listed
  /\ {<<"toggle", s>>, <<"uninstall", s>>} \cap flags = {}
  /\ Request(<<"toggle", s>>)
  /\ UNCHANGED confirm

\* The poll sees the change or gives up after 15 s; the timer goes off after
\* 300 s. An earlier request's may be the one, as an event cancels neither.
TimerEnds(j) ==
  /\ timers[j] > 0
  /\ timers' = [timers EXCEPT ![j] = @ - 1]
  /\ UNCHANGED jobs
  /\ ClearFlags({j})
  /\ UNCHANGED <<installed, listed, holder, confirm, emitted, requests>>

Cleared(e) ==
  CASE e = AppError     -> {j \in Tasks : Kind(j) \in Queued}
    [] e = ServiceError -> {j \in Tasks : Kind(j) = "toggle"}
    [] OTHER            -> {e}

Delivered(e) ==
  /\ e \in emitted
  /\ emitted' = emitted \ {e}
  /\ UNCHANGED jobs
  /\ ClearFlags(Cleared(e))
  /\ UNCHANGED <<installed, listed, holder, timers, confirm, requests>>

\* Another tab is chosen and this one chosen again: a new component, which
\* what the old one left behind does not reach.
LeaveTab ==
  /\ confirm = Nobody
  /\ timers' = [j \in Tasks |-> 0]
  /\ UNCHANGED jobs
  /\ ClearFlags(flags)
  /\ UNCHANGED <<installed, listed, holder, confirm, emitted, requests>>

---------------------------------------------------------------------------
(* The goroutines. *)

Lock(j) ==
  /\ Kind(j) \in Queued /\ j \in RunningTasks /\ holder = Nobody
  /\ holder' = j
  /\ UNCHANGED <<installed, listed, jobs, flags, timers, confirm, emitted, requests, dropped>>

\* The commands do their work, and more is to come before the goroutine ends.
TakesEffect ==
  /\ holder # Nobody
  /\ installed' = IF Kind(holder) = "install" THEN installed \cup {Service(holder)}
                  ELSE installed \ {Service(holder)}
  /\ UNCHANGED <<listed, jobs, holder, flags, timers, confirm, emitted, requests, dropped>>

Ends(j, event) ==
  /\ jobs' = [jobs EXCEPT ![j] = @ - 1]
  /\ emitted' = emitted \cup event
  /\ UNCHANGED <<installed, listed, flags, timers, confirm, requests, dropped>>

Unlock ==
  /\ holder # Nobody /\ holder' = Nobody
  /\ \/ (Kind(holder) = "install") = (Service(holder) \in installed) /\ Ends(holder, {holder})
     \/ Ends(holder, {AppError})

\* StartService reports its errors as app:error, StopService as service:error;
\* service:started and service:stopped clear no flag.
Toggled(s) ==
  /\ <<"toggle", s>> \in RunningTasks
  /\ \E event \in {{}, {AppError}, {ServiceError}} : Ends(<<"toggle", s>>, event)
  /\ UNCHANGED holder

\* The server could not be started (ServerControl).
OtherError ==
  /\ emitted' = emitted \cup {AppError}
  /\ UNCHANGED <<installed, listed, jobs, holder, flags, timers, confirm, requests, dropped>>

\* By hand, or another program.
Elsewhere(s) ==
  /\ installed' = IF s \in installed THEN installed \ {s} ELSE installed \cup {s}
  /\ UNCHANGED <<listed, jobs, holder, flags, timers, confirm, emitted, requests, dropped>>

---------------------------------------------------------------------------

ServiceInit ==
  /\ installed \in SUBSET Services /\ listed = installed
  /\ jobs = [j \in Tasks |-> 0] /\ holder = Nobody
  /\ flags = {} /\ timers = [j \in Tasks |-> 0] /\ confirm = Nobody
  /\ emitted = {} /\ requests = 0 /\ dropped = {}

ServiceNext ==
  \/ Refresh \/ CancelRequest \/ Confirmed \/ LeaveTab \/ TakesEffect \/ Unlock \/ OtherError
  \/ \E s \in Services : AskInstall(s) \/ AskUninstall(s) \/ handleToggle(s) \/ Toggled(s) \/ Elsewhere(s)
  \/ \E j \in Tasks : TimerEnds(j) \/ Lock(j)
  \/ \E e \in Events : Delivered(e)

ServiceSpec == ServiceInit /\ [][ServiceNext]_serviceVars

---------------------------------------------------------------------------
(* Properties. *)

ServiceTypeOK ==
  /\ installed \subseteq Services /\ listed \subseteq Services
  /\ jobs \in [Tasks -> 0..MaxRequests] /\ timers \in [Tasks -> 0..MaxRequests]
  /\ holder \in Tasks \cup {Nobody} /\ confirm \in Tasks \cup {Nobody}
  /\ flags \subseteq Tasks /\ dropped \subseteq Tasks
  /\ emitted \subseteq Events
  /\ requests \in 0..MaxRequests

\* The same thing is not done to an engine twice at a time: its flag disables
\* the button as long as the goroutine runs, unless the flag was cleared too
\* early, by the error of another operation, a poll or timer (15 s and 300 s,
\* which the goroutine may outlast), or because the tab was left.
NoDoubleJob ==
  \A j \in Tasks : jobs[j] > 1 => j \in dropped

=============================================================================
