---------------------------- MODULE DocumentView ----------------------------
(***************************************************************************)
(* What document-view.tsx keeps about the collection it shows: the filter, *)
(* the page, and the panels Explain and Distinct. The view stays on screen *)
(* when another collection is selected and resets part of this; a panel is *)
(* filled by an answer that may come after that. How many pages there are  *)
(* is asked of the server and changes at any time; filters are values and  *)
(* the documents themselves are data. Inserting, editing and deleting are  *)
(* in Workspace.                                                           *)
(***************************************************************************)
EXTENDS Naturals

CONSTANTS Collections, Filters, NoFilter, NoCollection,
          MaxPages    \* how many pages a collection has at most

ASSUME DocumentAssumption == NoFilter \in Filters /\ NoCollection \notin Collections /\ MaxPages \in Nat

VARIABLES
  collection,   \* selectedTable
  filter,       \* what is typed and what is applied: filterRows, activeFilter
  page,
  pages,        \* how many pages each collection has under each filter
  shrunk,       \* history: pages went away since the page was chosen
  explain,      \* explainData: the collection it is of, and the calls awaited
  distinct      \* distinctResult, and the calls awaited

docVars == <<collection, filter, page, pages, shrunk, explain, distinct>>

\* late is history: another collection was selected since it was asked for.
NoPanel == [of |-> NoCollection, late |-> FALSE, asked |-> {}]

---------------------------------------------------------------------------
(* The filter and the page. *)

\* setPage(0)
FirstPage == page' = 0 /\ shrunk' = FALSE

Type(f) ==
  /\ filter' = [filter EXCEPT !.typed = f]
  /\ UNCHANGED <<collection, page, pages, shrunk, explain, distinct>>

\* A bug: the page is kept under another filter.
applyFilterMutant ==
  /\ filter' = [filter EXCEPT !.active = filter.typed]
  /\ UNCHANGED <<collection, page, shrunk, pages, explain, distinct>>

applyFilter ==
  /\ filter' = [filter EXCEPT !.active = filter.typed]
  /\ FirstPage
  /\ UNCHANGED <<collection, pages, explain, distinct>>

clearFilter ==
  /\ filter' = [typed |-> NoFilter, active |-> NoFilter]
  /\ FirstPage
  /\ UNCHANGED <<collection, pages, explain, distinct>>

NextPage ==
  /\ page + 1 < pages[collection][filter.active]
  /\ page' = page + 1 /\ shrunk' = FALSE
  /\ UNCHANGED <<collection, filter, pages, explain, distinct>>

PrevPage ==
  /\ page > 0
  /\ page' = page - 1
  /\ UNCHANGED <<collection, filter, pages, shrunk, explain, distinct>>

\* Another page size, here with other numbers of pages.
PageSize(c, f, n) ==
  /\ pages' = [pages EXCEPT ![c][f] = n]
  /\ FirstPage
  /\ UNCHANGED <<collection, filter, explain, distinct>>

\* Documents come and go; a delete does not turn the page back.
Documents(c, f, n) ==
  /\ pages' = [pages EXCEPT ![c][f] = n]
  /\ shrunk' = (shrunk \/ n < pages[c][f])
  /\ UNCHANGED <<collection, filter, page, explain, distinct>>

---------------------------------------------------------------------------
(* The panels. *)

PanelAsked(panel) == [panel EXCEPT !.asked = @ \cup {collection}]

\* An error fills the panel too.
PanelAnswered(panel, c) == [of |-> c, late |-> c # collection, asked |-> panel.asked \ {c}]

\* The button is disabled while the plan is awaited.
handleExplain ==
  /\ explain.asked = {}
  /\ explain' = PanelAsked(explain)
  /\ UNCHANGED <<collection, filter, page, pages, shrunk, distinct>>

ExplainAnswered ==
  /\ \E c \in explain.asked : explain' = PanelAnswered(explain, c)
  /\ UNCHANGED <<collection, filter, page, pages, shrunk, distinct>>

CloseExplain ==
  /\ explain.of # NoCollection
  /\ explain' = [NoPanel EXCEPT !.asked = explain.asked]
  /\ UNCHANGED <<collection, filter, page, pages, shrunk, distinct>>

\* The Enter key of the field asks again while an answer is awaited.
handleDistinct ==
  /\ distinct' = PanelAsked(distinct)
  /\ UNCHANGED <<collection, filter, page, pages, shrunk, explain>>

DistinctAnswered ==
  /\ \E c \in distinct.asked : distinct' = PanelAnswered(distinct, c)
  /\ UNCHANGED <<collection, filter, page, pages, shrunk, explain>>

---------------------------------------------------------------------------
(* Reset on collection change: the Distinct panel is not reset. *)

\* A bug: the plan stays when another collection is selected.
ExplainResetMutant == explain

ExplainReset == [NoPanel EXCEPT !.asked = explain.asked]

Select(c) ==
  /\ c # collection
  /\ collection' = c
  /\ filter' = [typed |-> NoFilter, active |-> NoFilter]
  /\ FirstPage
  /\ explain' = ExplainReset
  /\ distinct' = [distinct EXCEPT !.late = distinct.of # NoCollection]
  /\ UNCHANGED pages

---------------------------------------------------------------------------

DocumentInit ==
  /\ collection \in Collections
  /\ filter = [typed |-> NoFilter, active |-> NoFilter]
  /\ page = 0
  /\ pages = [c \in Collections |-> [f \in Filters |-> MaxPages]]
  /\ shrunk = FALSE
  /\ explain = NoPanel
  /\ distinct = NoPanel

DocumentNext ==
  \/ applyFilter \/ clearFilter \/ NextPage \/ PrevPage
  \/ handleExplain \/ ExplainAnswered \/ CloseExplain \/ handleDistinct \/ DistinctAnswered
  \/ \E f \in Filters : Type(f)
  \/ \E c \in Collections : Select(c)
  \/ \E c \in Collections, f \in Filters, n \in 0..MaxPages : PageSize(c, f, n) \/ Documents(c, f, n)

DocumentSpec == DocumentInit /\ [][DocumentNext]_docVars

---------------------------------------------------------------------------
(* Properties. *)

Panels == [of : Collections \cup {NoCollection}, late : BOOLEAN, asked : SUBSET Collections]

DocumentTypeOK ==
  /\ collection \in Collections
  /\ filter \in [typed : Filters, active : Filters]
  /\ page \in Nat
  /\ pages \in [Collections -> [Filters -> 0..MaxPages]]
  /\ shrunk \in BOOLEAN
  /\ explain \in Panels /\ distinct \in Panels

\* The page that is shown exists under the filter and the collection that are
\* shown, whatever was typed, applied and selected, unless documents went away
\* since the user turned to it: the list is then empty although there are some.
PageExists == page = 0 \/ page < pages[collection][filter.active] \/ shrunk

\* The plan that Explain shows is one of the collection that is shown, unless
\* its answer came after another collection was selected.
PanelOfCollection == explain.of \in {NoCollection, collection} \/ explain.late

=============================================================================
