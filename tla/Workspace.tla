----------------------------- MODULE Workspace -----------------------------
(***************************************************************************)
(* One view of the dashboard in one browser tab: a query it shows, the     *)
(* requests in flight, and its dialog. TanStack Query (the cache, the      *)
(* observers of useQuery and useMutation) is external and is modelled by   *)
(* what the views rely on:                                                 *)
(*   - staleTime is 0: a query refetches when it comes on screen, unless a *)
(*     fetch of it is in flight, which it then waits for;                  *)
(*   - invalidateQueries refetches what is on screen; it starts a fetch in *)
(*     flight again only if the query already has data;                    *)
(*   - onSuccess of useMutation always runs; the callback given to mutate()*)
(*     runs only for the latest call of a component that is still there.   *)
(* A behaviour is about one view, one of its queries and at most MaxMenu   *)
(* of its operations, all chosen at the start.                             *)
(***************************************************************************)
EXTENDS Views, FiniteSets, Integers, Sequences, SequencesExt

CONSTANTS
  MaxMenu,     \* how many operations of the view a behaviour is about
  MaxFlights,  \* how many requests are in flight at most
  MaxItems     \* how many databases or tables a list has a button for

ASSUME WorkspaceAssumption == MaxItems \in Nat \ {0}

VARIABLES
  scene,    \* the type of database, the view, the query and the operations
  mounted,  \* whether the view is on screen
  cell,     \* the cached data of the query and the fetch in flight
  flights,  \* the requests in flight, in the order they were sent
  dialog,   \* the dialog that is open
  why       \* history: what left the data out of date, "" if nothing did

workspaceVars == <<scene, mounted, cell, flights, dialog, why>>

NoDialog == [of |-> "", saved |-> FALSE]

\* Keys with no database or table in them.
GlobalKeys == {"databases", "databases-stats", "users", "app-users", "security", "server-status",
               "mongo-currentop", "mongo-replset", "mongo-top", "mongo-serverlog"}
\* The flags that are a useState: whoever ends clears them.
Flags == {"bulkLoading", "running", "backupingDb", "restoringDb", "creating", "editSaving",
          "savingPassword", "importing", "exporting"}
\* The views of the tab "data", which stays when another table is selected.
DataViews == {"table", "documents", "tables"}

InFlight == DOMAIN flights
OfFlight(i) == Ops[flights[i].name]
OnScreen == mounted \/ scene.query \in SidebarQueries(scene.dbType, scene.view)

Offered(dbType, isAdmin, view) ==
  {n \in DOMAIN Ops : /\ Ops[n].view = view
                      /\ dbType \in Ops[n].on
                      /\ isAdmin \/ ~Ops[n].admin}

---------------------------------------------------------------------------
(* The cache. *)

\* A reason is worth keeping when what is, or will be, on screen is stale.
StaleBecause(reason, c) == IF "stale" \in {c.data, c.fetch} THEN reason ELSE ""

FetchIfIdle == IF cell.fetch = "idle" THEN [cell EXCEPT !.fetch = "sent"] ELSE cell

\* invalidateQueries for a query on screen; a first load is not started again.
Refetched(c) == IF c.fetch = "idle" \/ c.data # "none" THEN [c EXCEPT !.fetch = "sent"] ELSE c

Read ==
  /\ cell.fetch = "sent"
  /\ cell' = [cell EXCEPT !.fetch = "fresh"]
  /\ UNCHANGED <<scene, mounted, flights, dialog, why>>

Arrive ==
  /\ cell.fetch \in {"fresh", "stale"}
  /\ cell' = [data |-> cell.fetch, fetch |-> "idle"]
  /\ why' = IF cell.fetch = "fresh" THEN "" ELSE why
  /\ UNCHANGED <<scene, mounted, flights, dialog>>

\* After its retries a fetch gives up and the old data stays on screen.
FetchFails ==
  /\ cell.fetch # "idle"
  /\ cell' = [cell EXCEPT !.fetch = "idle"]
  /\ why' = StaleBecause("fetch failed", cell')
  /\ UNCHANGED <<scene, mounted, flights, dialog>>

\* The window gets the focus, or a refetchInterval passes.
Focus ==
  /\ OnScreen
  /\ cell' = FetchIfIdle
  /\ UNCHANGED <<scene, mounted, flights, dialog, why>>

\* Ctrl+Shift+R
RefreshAll ==
  /\ OnScreen
  /\ cell' = Refetched(cell)
  /\ UNCHANGED <<scene, mounted, flights, dialog, why>>

---------------------------------------------------------------------------
(* The dialog. *)

OpenDialog(n) ==
  /\ mounted /\ dialog = NoDialog /\ Ops[n].via # "button"
  /\ dialog' = [of |-> n, saved |-> FALSE]
  /\ UNCHANGED <<scene, mounted, cell, flights, why>>

Disowned == [i \in InFlight |-> [flights[i] EXCEPT !.own = FALSE]]

CloseDialog ==
  /\ dialog # NoDialog
  /\ dialog' = NoDialog
  /\ flights' = Disowned
  /\ UNCHANGED <<scene, mounted, cell, why>>

---------------------------------------------------------------------------
(* Requests. *)

\* A bug: each button looks at its own request only, not at the flag it shares.
BlockedMutant(n, item) ==
  \E i \in InFlight : /\ flights[i].latest
                      /\ flights[i].name = n
                      /\ Ops[n].blockedBy # {}

\* The button looks at what its mutation or its flag is about now.
Blocked(n, item) ==
  \E i \in InFlight : /\ flights[i].latest
                      /\ OfFlight(i).uses \in Ops[n].blockedBy
                      /\ Ops[n].perItem => flights[i].item = item

\* A modal dialog covers the buttons of the view.
Reachable(n) == IF Ops[n].via = "button" THEN dialog = NoDialog ELSE dialog.of = n

\* mutate() again, or the flag set again: the earlier request is forgotten.
Forgotten(uses) ==
  [i \in InFlight |-> [flights[i] EXCEPT !.latest = @ /\ OfFlight(i).uses # uses]]

\* One item, or several ticked ones in any order.
Selections(n) ==
  LET items == IF Ops[n].perItem \/ Ops[n].bulk THEN 1..MaxItems ELSE {1}
  IN  {s \in UNION {[1..k -> items] : k \in 1..(IF Ops[n].bulk THEN MaxItems ELSE 1)} : IsInjective(s)}

\* mutate() is called for each item, and watches the last.
Submitted(n, items) ==
  [k \in DOMAIN items |->
     [name |-> n, item |-> items[k], latest |-> k = Len(items), visit |-> TRUE,
      own |-> Ops[n].via # "button", here |-> TRUE, stage |-> "sent"]]

Submit(n) ==
  \E items \in Selections(n) :
    /\ mounted /\ Reachable(n) /\ ~Blocked(n, items[1]) /\ Len(flights) + Len(items) <= MaxFlights
    /\ flights' = Forgotten(Ops[n].uses) \o Submitted(n, items)
    /\ UNCHANGED <<scene, mounted, cell, dialog, why>>

Written(c) == [x \in {"data", "fetch"} |-> IF c[x] = "fresh" THEN "stale" ELSE c[x]]

\* The server does what was asked.
Apply(i) ==
  /\ flights[i].stage = "sent"
  /\ flights' = [flights EXCEPT ![i].stage = "applied"]
  /\ cell' = IF flights[i].here /\ scene.query \in Changes(scene.dbType, OfFlight(i).request) THEN Written(cell) ELSE cell
  /\ UNCHANGED <<scene, mounted, dialog, why>>

Ended(i) ==
  RemoveAt(IF OfFlight(i).uses \in Flags /\ flights[i].visit THEN Forgotten(OfFlight(i).uses) ELSE flights, i)

\* The callback given to mutate().
CalledBack(i) == flights[i].latest /\ flights[i].visit

ClosesDialog(i) ==
  /\ dialog # NoDialog /\ Ops[dialog.of].via = OfFlight(i).via /\ flights[i].visit
  /\ \/ OfFlight(i).closes = "hook"
     \/ OfFlight(i).closes = "local" /\ CalledBack(i)

InvalidatedBy(i) ==
  Matches(OfFlight(i).hook \cup (IF CalledBack(i) THEN OfFlight(i).local ELSE {}))

\* What keeps a query that the request changed from being fetched again.
Omission(i) ==
  IF scene.query \notin InvalidatedBy(i)
  THEN IF scene.query \in Matches(OfFlight(i).local) THEN "callback lost"
       ELSE IF scene.query \in NotInvalidated[flights[i].name] THEN "not invalidated" ELSE why
  ELSE IF cell.data = "none" THEN "first load" ELSE why

\* The server keeps no place for a key that is no longer on screen, so an
\* invalidation is of interest only while the key of the request is.
Succeed(i) ==
  /\ flights[i].stage = "applied"
  /\ flights' = IF ClosesDialog(i) THEN RemoveAt(Disowned, i) ELSE Ended(i)
  /\ dialog' = IF ClosesDialog(i) THEN NoDialog
               ELSE [dialog EXCEPT !.saved = @ \/ flights[i].own]
  /\ cell' = IF OnScreen /\ flights[i].here /\ scene.query \in InvalidatedBy(i) THEN Refetched(cell) ELSE cell
  /\ why' = IF flights[i].here /\ scene.query \in Changes(scene.dbType, OfFlight(i).request)
            THEN StaleBecause(Omission(i), cell') ELSE why
  /\ UNCHANGED <<scene, mounted>>

\* An error is answered, before or after the server did it.
Fail(i) ==
  /\ flights' = Ended(i)
  /\ why' = IF flights[i].here /\ flights[i].stage = "applied" /\ scene.query \in Changes(scene.dbType, OfFlight(i).request)
            THEN StaleBecause("request failed", cell) ELSE why
  /\ UNCHANGED <<scene, mounted, cell, dialog>>

---------------------------------------------------------------------------
(* Moving through the dashboard. *)

Unmounted(stillHere) ==
  [i \in InFlight |-> [flights[i] EXCEPT !.latest = FALSE, !.visit = FALSE, !.own = FALSE, !.here = @ /\ stillHere]]

\* Another tab is chosen.
LeaveView ==
  /\ mounted
  /\ mounted' = FALSE
  /\ dialog' = NoDialog
  /\ flights' = Unmounted(TRUE)
  /\ UNCHANGED <<scene, cell, why>>

ReturnToView ==
  /\ ~mounted
  /\ mounted' = TRUE
  /\ cell' = IF OnScreen THEN cell ELSE FetchIfIdle
  /\ why' = IF ~OnScreen /\ cell.fetch = "stale" THEN "joined an old fetch" ELSE why
  /\ UNCHANGED <<scene, flights, dialog>>

\* Another database or table is selected: the tab "data" keeps its components,
\* any other tab is left.
Navigate ==
  /\ mounted /\ dialog = NoDialog /\ scene.query \notin GlobalKeys
  /\ UNCHANGED <<scene, dialog>>
  /\ mounted' = (scene.view \in DataViews)
  /\ cell' = [data |-> "none", fetch |-> IF OnScreen' THEN "sent" ELSE "idle"]
  /\ flights' = IF scene.view \in DataViews
                THEN [i \in InFlight |-> [flights[i] EXCEPT !.here = FALSE]]
                ELSE Unmounted(FALSE)
  /\ why' = ""

---------------------------------------------------------------------------

WorkspaceInit ==
  /\ \E dbType \in DbTypes, isAdmin \in BOOLEAN :
       \E view \in GlobalTabs(dbType, isAdmin) \cup DbTabs(dbType, isAdmin) :
         \E query \in Shows(dbType, view), menu \in SUBSET Offered(dbType, isAdmin, view) :
           /\ Cardinality(menu) \in 1..MaxMenu
           /\ scene = [dbType |-> dbType, view |-> view, query |-> query, menu |-> menu]
  /\ mounted = TRUE
  /\ cell = [data |-> "none", fetch |-> "sent"]
  /\ flights = <<>>
  /\ dialog = NoDialog
  /\ why = ""

WorkspaceNext ==
  \/ Read \/ Arrive \/ FetchFails \/ Focus \/ RefreshAll
  \/ \E n \in scene.menu : OpenDialog(n) \/ Submit(n)
  \/ \E i \in InFlight : Apply(i) \/ Succeed(i) \/ Fail(i)
  \/ CloseDialog
  \/ LeaveView \/ ReturnToView \/ Navigate

WorkspaceSpec == WorkspaceInit /\ [][WorkspaceNext]_workspaceVars

---------------------------------------------------------------------------
(* Properties. *)

\* When nothing is in flight any more, what the view shows is what the server
\* has, unless the answer of a request does not invalidate the query (the list
\* NotInvalidated of Views), its callback was lost, the request or a fetch
\* failed, or the first load of the query was under way: every view must
\* invalidate what its requests change (the onSuccess of each useMutation).
QuietIsFresh ==
  (OnScreen /\ InFlight = {} /\ cell = [data |-> "stale", fetch |-> "idle"]) => why # ""

\* No request is sent a second time while the first is pending, as long as the
\* view stays on screen: the isPending and the flags the buttons look at. The
\* operations that the code does send twice are listed in Unguarded of Views.
NoDoubleSubmission ==
  \A i, j \in InFlight :
    (i # j /\ flights[i].visit /\ flights[j].visit /\ flights[i].item = flights[j].item
     /\ flights[i].name = flights[j].name) => flights[i].name \in Unguarded

\* A dialog is not left open with what it has already saved, where a second
\* press would save it again: each form closes itself on success, from its
\* onSuccess, or from the callback of mutate(), which a second call would lose.
SavedDialogCloses == ~dialog.saved

WorkspaceTypeOK ==
  /\ mounted \in BOOLEAN
  /\ cell \in [data : {"none", "fresh", "stale"}, fetch : {"idle", "sent", "fresh", "stale"}]
  /\ dialog \in [of : scene.menu \cup {""}, saved : BOOLEAN]
  /\ \A i \in InFlight :
       flights[i] \in [name : scene.menu, item : 1..MaxItems, latest : BOOLEAN, visit : BOOLEAN, own : BOOLEAN,
                       here : BOOLEAN, stage : {"sent", "applied"}]

=============================================================================
