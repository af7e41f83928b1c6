--------------------------- MODULE ClientSession ---------------------------
(***************************************************************************)
(* The session as the tabs of one browser see it: custom-fetch.ts (refresh *)
(* of the access token on a 401, one retry, reload), App.tsx (what is      *)
(* asked at load), the stores of auth and connection, and the pages that   *)
(* log in and out. The tabs share the cookies; a refresh is deduplicated   *)
(* within a tab only. Refresh tokens rotate, and the server answers the    *)
(* use of a revoked one by revoking all of them (module Auth).             *)
(*                                                                         *)
(* A request and what the server does with it are one step, the answer     *)
(* and its Set-Cookie another. The cookie of the access token disappears   *)
(* when the token expires; refresh tokens do not expire here. There is one *)
(* account, and answers of one tab can overtake those of another. Whether  *)
(* a tab has a database connection is left out: a call may always lose it. *)
(* So is a statement that revokes and fails, whose error the code ignores. *)
(***************************************************************************)
EXTENDS Naturals

CONSTANTS Tabs,
          NoTab,      \* for a token that was not issued
          MaxToken,   \* how many refresh tokens a behaviour issues
          MaxCalls    \* how many calls of a tab may be in flight

ASSUME SessionAssumption == NoTab \notin Tabs /\ MaxToken \in Nat /\ MaxCalls \in Nat

VARIABLES
  jar,      \* the cookies: whether there is an access token, the refresh token
  token,    \* the refresh tokens of the server; 0 is none
  tab,      \* what each tab shows and awaits
  reused,   \* history: the last use of a revoked token
  logout    \* history: whether the user logged out since the last login, and
            \* what may undo it

sessionVars == <<jar, token, tab, reused, logout>>

Tokens == 1..MaxToken
CallStates == {"ok", "401", "waiting"}   \* answered so, or waiting for the refresh

\* by: what revoked it; next: what it was exchanged for; of: the tab whose
\* request issued it; lost: whether the answer that carried it was lost.
NoToken == [state |-> "unissued", by |-> "", next |-> 0, of |-> NoTab, lost |-> FALSE]

\* refresh, entering and leaving are the requests to /auth/ that are awaited.
Nothing == [kind |-> "none", token |-> 0]
Loading == [page |-> "loading", calls |-> [c \in CallStates |-> 0],
            refresh |-> Nothing, entering |-> Nothing, leaving |-> "none"]

NotReused == [refreshed |-> FALSE, other |-> FALSE, lost |-> FALSE]

Unissued == {n \in Tokens : token[n].state = "unissued"}
\* A token is a random string: any that was not issued.
NextToken == CHOOSE n \in Unissued : TRUE

Issue(tokens, n, t) == [tokens EXCEPT ![n].state = "valid", ![n].of = t]
Revoke(tokens, k, by, next) ==
  [tokens EXCEPT ![k] = IF @.state = "valid" THEN [@ EXCEPT !.state = "revoked", !.by = by, !.next = next] ELSE @]
RevokeAll(by) == [n \in Tokens |-> Revoke(token, n, by, 0)[n]]

---------------------------------------------------------------------------
(* The page. *)

\* What a reload aborts is lost, with the cookies of its answer.
Lost(a) == IF a.token = 0 THEN token ELSE [token EXCEPT ![a.token].lost = TRUE]

Reload(t) ==
  /\ tab' = [tab EXCEPT ![t] = Loading]
  /\ token' = [n \in Tokens |-> IF n \in {tab[t].refresh.token, tab[t].entering.token}
                                THEN [token[n] EXCEPT !.lost = TRUE] ELSE token[n]]
  /\ logout' = IF tab[t].leaving # "none" THEN [logout EXCEPT !.undone = TRUE] ELSE logout

UserReloads(t) ==
  /\ Reload(t)
  /\ UNCHANGED <<jar, reused>>

\* GET /auth/me is not refreshed: without an access token, or without an
\* answer, the login page shows.
Load(t) ==
  /\ tab[t].page = "loading"
  /\ \E page \in IF jar.access THEN {"in", "login"} ELSE {"login"} : tab' = [tab EXCEPT ![t].page = page]
  /\ UNCHANGED <<jar, token, reused, logout>>

---------------------------------------------------------------------------
(* Requests, and the refresh on a 401. *)

Sent == IF jar.access THEN "ok" ELSE "401"
CanCall(t) == tab[t].calls["ok"] + tab[t].calls["401"] + tab[t].calls["waiting"] < MaxCalls
Plus(calls, c) == [calls EXCEPT ![c] = @ + 1]
Minus(calls, c) == [calls EXCEPT ![c] = @ - 1]

Call(t) ==
  /\ tab[t].page = "in" /\ CanCall(t)
  /\ tab' = [tab EXCEPT ![t].calls = Plus(@, Sent)]
  /\ UNCHANGED <<jar, token, reused, logout>>

CallDone(t) ==
  /\ tab[t].calls["ok"] > 0
  /\ tab' = [tab EXCEPT ![t].calls = Minus(@, "ok")]
  /\ UNCHANGED <<jar, token, reused, logout>>

\* handleConnectionLost: the server is gone, or it has no connection for us.
ConnectionLost(t) ==
  /\ \E c \in CallStates : tab[t].calls[c] > 0
  /\ Reload(t)
  /\ UNCHANGED <<jar, reused>>

\* What the server does with POST /auth/refresh, and its answer.
RefreshAtServer(t, k, answer) ==
  \/ /\ k # 0 /\ token[k].state = "valid" /\ Unissued # {}
     /\ token' = Issue(Revoke(token, k, "refresh", NextToken), NextToken, t)
     /\ answer = [kind |-> "ok", token |-> NextToken]
     /\ UNCHANGED reused
  \/ /\ k # 0 /\ token[k].state = "revoked"
     /\ token' = RevokeAll("reuse")
     /\ answer = [kind |-> "clear", token |-> 0]
     /\ reused' = IF token[k].by # "refresh" THEN NotReused
                  ELSE [refreshed |-> TRUE, other |-> token[token[k].next].of # t, lost |-> token[token[k].next].lost]
  \/ \* an error of the database, before or after the token was revoked
     /\ k # 0
     /\ token' \in {token, Revoke(token, k, "failed", 0)}
     /\ answer = [kind |-> "clear", token |-> 0]
     /\ UNCHANGED reused
  \/ \* no cookie, or too many requests
     /\ answer = [kind |-> "refused", token |-> 0]
     /\ UNCHANGED <<token, reused>>

Wait(t, answer) ==
  tab' = [tab EXCEPT ![t].calls = Plus(Minus(@, "401"), "waiting"), ![t].refresh = answer]

SendRefresh(t) ==
  \E answer \in [kind : {"ok", "clear", "refused"}, token : 0..MaxToken] :
    RefreshAtServer(t, jar.refresh, answer) /\ Wait(t, answer)

\* A bug: every 401 sends a refresh of its own.
refreshOnceMutant(t) == SendRefresh(t)

\* A refresh under way in this tab is waited for.
refreshOnce(t) ==
  IF tab[t].refresh = Nothing THEN SendRefresh(t)
  ELSE Wait(t, tab[t].refresh) /\ UNCHANGED <<token, reused>>

Unauthorized(t) ==
  /\ tab[t].calls["401"] > 0
  /\ refreshOnce(t)
  /\ UNCHANGED <<jar, logout>>

\* The calls that waited are sent again with the new cookies.
Retried(calls) == [calls EXCEPT !["waiting"] = 0, !["ok"] = @ + calls["waiting"]]

Refreshed(t) ==
  /\ tab[t].refresh.kind = "ok"
  /\ jar' = [access |-> TRUE, refresh |-> tab[t].refresh.token]
  /\ tab' = [tab EXCEPT ![t].refresh = Nothing, ![t].calls = Retried(@)]
  /\ UNCHANGED <<token, reused, logout>>

NotRefreshed(t) ==
  /\ tab[t].refresh # Nothing
  /\ \/ tab[t].refresh.kind = "clear" /\ jar' = [access |-> FALSE, refresh |-> 0]
     \/ UNCHANGED jar   \* refused, or the answer is lost
  /\ Reload(t)
  /\ UNCHANGED reused

---------------------------------------------------------------------------
(* Logging in and out. *)

Login(t) ==
  /\ tab[t].page = "login" /\ tab[t].entering = Nothing /\ Unissued # {}
  /\ token' = Issue(token, NextToken, t)
  /\ tab' = [tab EXCEPT ![t].entering = [kind |-> "login", token |-> NextToken]]
  /\ logout' = [of |-> FALSE, undone |-> FALSE]
  /\ UNCHANGED <<jar, reused>>

LoggedIn(t) ==
  /\ tab[t].entering.kind = "login"
  /\ jar' = [access |-> TRUE, refresh |-> tab[t].entering.token]
  /\ tab' = [tab EXCEPT ![t].entering = Nothing, ![t].page = "in"]
  /\ UNCHANGED <<token, reused, logout>>

LoginFails(t) ==
  /\ tab[t].entering.kind = "login"
  /\ token' = Lost(tab[t].entering)
  /\ tab' = [tab EXCEPT ![t].entering = Nothing]
  /\ UNCHANGED <<jar, reused, logout>>

\* A bug: the cookie of the access token is not cleared.
ClearsMutant == [access |-> jar.access, refresh |-> 0]

\* clearAuthCookies of the handler Logout; the handler is behind the access token.
Clears == [access |-> FALSE, refresh |-> 0]

\* What is on its way and brings the cookies back.
Undoes == \E u \in Tabs : tab[u].refresh.kind = "ok" \/ tab[u].entering.kind = "login"

\* logout() of the store shows the login page at once and ignores the answer.
LogoutAtServer(t, calls) ==
  /\ tab' = [tab EXCEPT ![t].page = "login", ![t].calls = calls, ![t].entering = Nothing, ![t].leaving = Sent]
  /\ token' = IF jar.access /\ jar.refresh # 0 THEN Revoke(token, jar.refresh, "logout", 0) ELSE token
  /\ logout' = [of |-> TRUE, undone |-> Undoes \/ ~jar.access]
  /\ UNCHANGED <<jar, reused>>

\* The menu also sends POST /disconnect, which is refreshed as any call.
Logout(t) ==
  /\ tab[t].page = "in" /\ tab[t].leaving = "none" /\ tab[t].entering = Nothing /\ CanCall(t)
  /\ LogoutAtServer(t, Plus(tab[t].calls, Sent))

LoggedOut(t) ==
  /\ tab[t].leaving # "none"
  /\ tab' = [tab EXCEPT ![t].leaving = "none"]
  /\ \/ tab[t].leaving = "ok" /\ jar' = Clears /\ UNCHANGED logout
     \/ UNCHANGED jar /\ logout' = [logout EXCEPT !.undone = TRUE]   \* a 401, or the answer is lost
  /\ UNCHANGED <<token, reused>>

\* change-password-dialog.tsx: all tokens are revoked, then the tab logs out.
ChangePassword(t) ==
  /\ tab[t].page = "in" /\ tab[t].entering = Nothing /\ jar.access
  /\ token' = RevokeAll("password")
  /\ tab' = [tab EXCEPT ![t].entering = [kind |-> "password", token |-> 0]]
  /\ UNCHANGED <<jar, reused, logout>>

PasswordChanged(t) ==
  /\ tab[t].entering.kind = "password" /\ tab[t].leaving = "none"
  /\ LogoutAtServer(t, tab[t].calls)

AccessExpires ==
  /\ jar.access
  /\ jar' = [jar EXCEPT !.access = FALSE]
  /\ UNCHANGED <<token, tab, reused, logout>>

---------------------------------------------------------------------------

SessionInit ==
  /\ jar = [access |-> FALSE, refresh |-> 0]
  /\ token = [n \in Tokens |-> NoToken]
  /\ tab = [t \in Tabs |-> Loading]
  /\ reused = NotReused
  /\ logout = [of |-> FALSE, undone |-> FALSE]

SessionNext ==
  \/ AccessExpires
  \/ \E t \in Tabs :
       \/ UserReloads(t) \/ Load(t)
       \/ Call(t) \/ Refreshed(t) \/ NotRefreshed(t)
       \/ Login(t) \/ LoggedIn(t) \/ LoginFails(t)
       \/ Logout(t) \/ LoggedOut(t) \/ ChangePassword(t) \/ PasswordChanged(t)
       \/ CallDone(t) \/ ConnectionLost(t) \/ Unauthorized(t)

SessionSpec == SessionInit /\ [][SessionNext]_sessionVars

---------------------------------------------------------------------------
(* Properties. *)

SessionTypeOK ==
  /\ jar \in [access : BOOLEAN, refresh : 0..MaxToken]
  /\ token \in [Tokens -> [state : {"unissued", "valid", "revoked"}, by : {"", "refresh", "failed", "reuse", "logout", "password"},
                           next : 0..MaxToken, of : Tabs \cup {NoTab}, lost : BOOLEAN]]
  /\ tab \in [Tabs -> [page : {"loading", "login", "in"}, calls : [CallStates -> 0..MaxCalls],
                       refresh : [kind : {"none", "ok", "clear", "refused"}, token : 0..MaxToken],
                       entering : [kind : {"none", "login", "password"}, token : 0..MaxToken],
                       leaving : {"none", "ok", "401"}]]
  /\ reused \in [refreshed : BOOLEAN, other : BOOLEAN, lost : BOOLEAN]
  /\ logout \in [of : BOOLEAN, undone : BOOLEAN]

\* A tab does not use a refresh token twice, which would make the server end
\* all sessions of the account: however many of its calls get a 401 at once,
\* there is one refresh. A token that a refresh has exchanged is used again only
\* when another tab refreshed it or the answer with its successor was lost.
NoReuseAlone ==
  reused.refreshed => reused.other \/ reused.lost

Quiet ==
  \A t \in Tabs : /\ tab[t].refresh = Nothing /\ tab[t].entering = Nothing /\ tab[t].leaving = "none"
                  /\ tab[t].calls["401"] = 0

\* After a logout no reload shows the account again: the cookies are gone or
\* revoked once all answers are in, unless there was no access token any more
\* (the answer 401 is ignored and nothing is revoked), a refresh was under way
\* (its late answer brings new cookies), or the answer was lost.
LogoutHolds ==
  (logout.of /\ ~logout.undone /\ Quiet) =>
    ~jar.access /\ (jar.refresh # 0 => token[jar.refresh].state # "valid")

=============================================================================
