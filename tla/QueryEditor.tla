---------------------------- MODULE QueryEditor ----------------------------
(***************************************************************************)
(* The history of query-editor.tsx. Each tab keeps a list of its own, read *)
(* from localStorage when the editor comes on screen, and an effect stores *)
(* the whole list whenever it changes. A statement is entered into the     *)
(* list by the callback given to mutate(), which only runs for the latest  *)
(* call of an editor that is still on screen: Ctrl+Enter has no guard      *)
(* against a statement that is still running.                              *)
(* A statement is the number of its run; whether it succeeds is data.      *)
(***************************************************************************)
EXTENDS Naturals, Sequences, SequencesExt

CONSTANTS Editors,       \* the tabs of the browser
          MaxHistory,    \* MAX_HISTORY
          MaxStatements, \* how many statements a behaviour runs
          NoEditor       \* for a statement that is not running

ASSUME HistoryAssumption == MaxHistory \in Nat \ {0} /\ MaxStatements \in Nat /\ NoEditor \notin Editors

VARIABLES
  stored,    \* the list in localStorage
  history,   \* the list of each editor
  visible,   \* which editors are on screen
  latest,    \* the statement each editor's callbacks are for, 0 for none
  running,   \* the statements in flight: the editor each was sent from
  sent,      \* how many statements were sent
  gone       \* history: why an answered statement may not be in the list

queryVars == <<stored, history, visible, latest, running, sent, gone>>

Statements == 1..MaxStatements

Reasons == {"callback lost", "cleared", "overwritten", "too many"}
GoneBecause(reason, ids) == [s \in Statements |-> gone[s] \cup (IF s \in ids THEN {reason} ELSE {})]

---------------------------------------------------------------------------

\* saveHistory
Truncated(list) == SubSeq(list, 1, IF Len(list) < MaxHistory THEN Len(list) ELSE MaxHistory)

\* useEffect stores the list of this editor over whatever is stored.
Store(e, list) ==
  /\ history' = [history EXCEPT ![e] = list]
  /\ stored' = Truncated(list)

\* loadHistory; the effect stores the list again when the editor appears.
OpenEditor(e) ==
  /\ e \notin visible
  /\ visible' = visible \cup {e}
  /\ Store(e, stored)
  /\ UNCHANGED <<latest, running, sent, gone>>

\* Another tab of the dashboard, a reload; the answers find nobody.
LeaveEditor(e) ==
  /\ e \in visible
  /\ visible' = visible \ {e}
  /\ history' = [history EXCEPT ![e] = <<>>]
  /\ latest' = [latest EXCEPT ![e] = 0]
  /\ UNCHANGED <<stored, running, sent, gone>>

handleExecute(e) ==
  /\ e \in visible /\ sent < MaxStatements
  /\ sent' = sent + 1
  /\ running' = [running EXCEPT ![sent + 1] = e]
  /\ latest' = [latest EXCEPT ![e] = sent + 1]
  /\ UNCHANGED <<stored, history, visible, gone>>

\* A bug: the entry replaces the list.
EnteredMutant(e, s) == <<s>>

\* setHistory((prev) => [entry, ...prev]): onto the list there is by now.
Entered(e, s) == <<s>> \o history[e]

StatementAnswered(s) ==
  LET e == running[s] IN
  /\ e # NoEditor
  /\ running' = [running EXCEPT ![s] = NoEditor]
  /\ IF latest[e] = s
     THEN /\ Store(e, Entered(e, s))
          /\ gone' = [t \in Statements |->
                        gone[t] \cup (IF t \in ToSet(stored) \ ToSet(history[e]) THEN {"overwritten"} ELSE {})
                                \cup (IF t \in ToSet(history'[e]) \ ToSet(stored') THEN {"too many"} ELSE {})]
     ELSE /\ gone' = GoneBecause("callback lost", {s})
          /\ UNCHANGED <<stored, history>>
  /\ UNCHANGED <<visible, latest, sent>>

clearHistory(e) ==
  /\ e \in visible /\ history[e] # <<>>
  /\ Store(e, <<>>)
  /\ gone' = GoneBecause("cleared", ToSet(stored))
  /\ UNCHANGED <<visible, latest, running, sent>>

---------------------------------------------------------------------------

EditorInit ==
  /\ stored = <<>>
  /\ history = [e \in Editors |-> <<>>]
  /\ visible = {}
  /\ latest = [e \in Editors |-> 0]
  /\ running = [s \in Statements |-> NoEditor]
  /\ sent = 0
  /\ gone = [s \in Statements |-> {}]

EditorNext ==
  \/ \E e \in Editors : OpenEditor(e) \/ LeaveEditor(e) \/ handleExecute(e) \/ clearHistory(e)
  \/ \E s \in Statements : StatementAnswered(s)

EditorSpec == EditorInit /\ [][EditorNext]_queryVars

---------------------------------------------------------------------------
(* Properties. *)

EditorTypeOK ==
  /\ stored \in Seq(Statements) /\ Len(stored) <= MaxHistory
  /\ history \in [Editors -> Seq(Statements)]
  /\ visible \subseteq Editors
  /\ latest \in [Editors -> 0..MaxStatements]
  /\ running \in [Statements -> Editors \cup {NoEditor}]
  /\ sent \in 0..MaxStatements
  /\ gone \in [Statements -> SUBSET Reasons]

\* A statement that was answered is in the stored history, unless the list
\* was full or cleared, another statement was sent or the editor left before
\* the answer, or the editor of another tab, which does not read the list
\* again, stored its own over it. No interleaving within one tab loses an
\* entry in another way.
HistoryExplained ==
  \A s \in 1..sent : running[s] = NoEditor /\ s \notin ToSet(stored) => gone[s] # {}

=============================================================================
