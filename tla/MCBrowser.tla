----------------------------- MODULE MCBrowser -----------------------------
(***************************************************************************)
(* The dashboard of one tab, and the session that several tabs share,      *)
(* checked in one run: a behaviour is about one of them.                   *)
(***************************************************************************)
EXTENDS Workspace, ClientSession

VARIABLE about

browserVars == <<about, workspaceVars, sessionVars>>

\* Where the dashboard rests when the behaviour is about the session.
WorkspaceRests ==
  /\ scene = [dbType |-> "mysql", view |-> "export", query |-> "tables", menu |-> {"ExportTable"}]
  /\ mounted = TRUE /\ cell = [data |-> "none", fetch |-> "sent"]
  /\ flights = <<>> /\ dialog = NoDialog /\ why = ""

BrowserInit ==
  /\ \/ about = "workspace" /\ WorkspaceInit
     \/ about = "session" /\ WorkspaceRests
  /\ SessionInit

BrowserNext ==
  /\ UNCHANGED about
  /\ \/ about = "workspace" /\ WorkspaceNext /\ UNCHANGED sessionVars
     \/ about = "session" /\ SessionNext /\ UNCHANGED workspaceVars

BrowserSpec == BrowserInit /\ [][BrowserNext]_browserVars

\* The tabs are alike.
TabSymmetry == Permutations(Tabs)

=============================================================================
