--------------------------- MODULE Browser_proofs ---------------------------
(***************************************************************************)
(* Proofs about what runs in the browser: ClientSession, for any number of *)
(* tabs, calls and tokens, and Workspace, for every view, every database   *)
(* type, any menu of its operations and both roles.                        *)
(***************************************************************************)
EXTENDS ClientSession, Workspace, SequenceTheorems, TLAPS

---------------------------------------------------------------------------
(* Typing. The calls of a tab are counted together, so that none of the    *)
(* three counts outgrows the bound when calls move from one to another.    *)

Counts == [CallStates -> 0..MaxCalls]
Answers == [kind : {"none", "ok", "clear", "refused"}, token : 0..MaxToken]
Entries == [kind : {"none", "login", "password"}, token : 0..MaxToken]
TabStates == [page : {"loading", "login", "in"}, calls : Counts, refresh : Answers, entering : Entries,
              leaving : {"none", "ok", "401"}]
TokenStates == [state : {"unissued", "valid", "revoked"}, by : {"", "refresh", "failed", "reuse", "logout", "password"},
                next : 0..MaxToken, of : Tabs \cup {NoTab}, lost : BOOLEAN]

CallsOf(calls) == calls["ok"] + calls["401"] + calls["waiting"]
CallsBounded == \A t \in Tabs : CallsOf(tab[t].calls) <= MaxCalls

\* A token that was exchanged knows what for.
TokenTables == {f \in [Tokens -> TokenStates] : \A n \in Tokens : f[n].by = "refresh" => f[n].next \in Tokens}

SessionInv ==
  /\ jar \in [access : BOOLEAN, refresh : 0..MaxToken]
  /\ token \in TokenTables
  /\ tab \in [Tabs -> TabStates]
  /\ reused \in [refreshed : BOOLEAN, other : BOOLEAN, lost : BOOLEAN]
  /\ logout \in [of : BOOLEAN, undone : BOOLEAN]
  /\ CallsBounded

LEMMA NothingTyped ==
  /\ Loading \in TabStates /\ CallsOf(Loading.calls) <= MaxCalls
  /\ Nothing \in Answers /\ Nothing \in Entries
  /\ NoToken \in TokenStates /\ NotReused \in [refreshed : BOOLEAN, other : BOOLEAN, lost : BOOLEAN]
<1>1. Nothing \in Answers /\ Nothing \in Entries
      BY SessionAssumption DEF Nothing, Answers, Entries
<1>2. [c \in CallStates |-> 0] \in Counts /\ CallsOf([c \in CallStates |-> 0]) <= MaxCalls
      BY SessionAssumption DEF Counts, CallsOf, CallStates
<1> QED
    BY <1>1, <1>2, SessionAssumption DEF Loading, TabStates, NoToken, TokenStates, NotReused

\* A call more, a call less, or one that now waits.
LEMMA CountsTyped ==
  ASSUME NEW calls \in Counts, CallsOf(calls) <= MaxCalls, NEW c \in {"ok", "401"}
  PROVE  /\ CallsOf(calls) < MaxCalls => Plus(calls, c) \in Counts /\ CallsOf(Plus(calls, c)) <= MaxCalls
         /\ calls[c] > 0 => Minus(calls, c) \in Counts /\ CallsOf(Minus(calls, c)) <= MaxCalls
         /\ calls["401"] > 0 => /\ Plus(Minus(calls, "401"), "waiting") \in Counts
                                /\ CallsOf(Plus(Minus(calls, "401"), "waiting")) <= MaxCalls
         /\ Retried(calls) \in Counts /\ CallsOf(Retried(calls)) <= MaxCalls
<1>1. /\ calls["ok"] \in 0..MaxCalls /\ calls["401"] \in 0..MaxCalls /\ calls["waiting"] \in 0..MaxCalls
      /\ CallStates = {"ok", "401", "waiting"}
      BY DEF Counts, CallStates
<1>2. calls \in [CallStates -> 0..MaxCalls]
      BY DEF Counts
<1> USE <1>1, <1>2, SessionAssumption DEF CallsOf, Plus, Minus
<1>3. CallsOf(calls) < MaxCalls => Plus(calls, c) \in Counts /\ CallsOf(Plus(calls, c)) <= MaxCalls
  <2>1. CASE c = "ok"
        BY <2>1 DEF Counts
  <2>2. CASE c = "401"
        BY <2>2 DEF Counts
  <2> QED
      BY <2>1, <2>2
<1>4. calls[c] > 0 => Minus(calls, c) \in Counts /\ CallsOf(Minus(calls, c)) <= MaxCalls
  <2>1. CASE c = "ok"
        BY <2>1 DEF Counts
  <2>2. CASE c = "401"
        BY <2>2 DEF Counts
  <2> QED
      BY <2>1, <2>2
<1>5. calls["401"] > 0 => /\ Plus(Minus(calls, "401"), "waiting") \in Counts
                          /\ CallsOf(Plus(Minus(calls, "401"), "waiting")) <= MaxCalls
      BY DEF Counts
<1>6. Retried(calls) \in Counts /\ CallsOf(Retried(calls)) <= MaxCalls
      BY DEF Counts, Retried
<1> QED
    BY <1>3, <1>4, <1>5, <1>6

LEMMA Entry ==
  ASSUME NEW f \in TokenTables, NEW n \in Tokens
  PROVE  f[n] \in TokenStates /\ (f[n].by = "refresh" => f[n].next \in Tokens)
BY DEF TokenTables

Endings == {"refresh", "failed", "reuse", "logout", "password"}

\* What may become of a token in a step.
Becomes(old, new) ==
  \/ new = old
  \/ new = [old EXCEPT !.lost = TRUE]
  \/ \E t \in Tabs : new = [old EXCEPT !.state = "valid", !.of = t]
  \/ \E by \in Endings, next \in 0..MaxToken :
       (by = "refresh" => next \in Tokens) /\ new = [old EXCEPT !.state = "revoked", !.by = by, !.next = next]

LEMMA TableTyped ==
  ASSUME NEW f \in TokenTables, NEW g, g = [n \in Tokens |-> g[n]], \A n \in Tokens : Becomes(f[n], g[n])
  PROVE  g \in TokenTables
<1>1. ASSUME NEW n \in Tokens
      PROVE  g[n] \in TokenStates /\ (g[n].by = "refresh" => g[n].next \in Tokens)
  <2>1. f[n] \in TokenStates /\ (f[n].by = "refresh" => f[n].next \in Tokens) /\ Becomes(f[n], g[n])
        BY Entry
  <2> QED
      BY <2>1 DEF Becomes, TokenStates, Endings
<1>2. g \in [Tokens -> TokenStates]
      BY <1>1
<1> QED
    BY <1>1, <1>2 DEF TokenTables

\* The server's tokens stay typed whatever is issued, revoked or lost.
LEMMA TokensTyped ==
  ASSUME NEW f \in TokenTables, NEW k \in Tokens, NEW t \in Tabs,
         NEW by \in Endings, NEW next \in 0..MaxToken, by = "refresh" => next \in Tokens
  PROVE  /\ Issue(f, k, t) \in TokenTables
         /\ Revoke(f, k, by, next) \in TokenTables
         /\ [f EXCEPT ![k].lost = TRUE] \in TokenTables
<1>0. f \in [Tokens -> TokenStates]
      BY DEF TokenTables
<1>1. ASSUME NEW new, Becomes(f[k], new) PROVE [f EXCEPT ![k] = new] \in TokenTables
  <2> DEFINE g == [f EXCEPT ![k] = new]
  <2>1. g = [n \in Tokens |-> g[n]] /\ \A n \in Tokens : Becomes(f[n], g[n])
        BY <1>0, <1>1 DEF Becomes
  <2> QED
      BY <2>1, TableTyped
<1>2. Issue(f, k, t) = [f EXCEPT ![k] = [f[k] EXCEPT !.state = "valid", !.of = t]]
      BY <1>0 DEF Issue
<1>3. \/ Revoke(f, k, by, next) = f
      \/ Revoke(f, k, by, next) = [f EXCEPT ![k] = [f[k] EXCEPT !.state = "revoked", !.by = by, !.next = next]]
      BY <1>0 DEF Revoke
<1>4. [f EXCEPT ![k].lost = TRUE] = [f EXCEPT ![k] = [f[k] EXCEPT !.lost = TRUE]]
      BY <1>0
<1>5. /\ Becomes(f[k], [f[k] EXCEPT !.state = "valid", !.of = t])
      /\ Becomes(f[k], [f[k] EXCEPT !.state = "revoked", !.by = by, !.next = next])
      /\ Becomes(f[k], [f[k] EXCEPT !.lost = TRUE])
      BY DEF Becomes
<1> QED
    BY <1>1, <1>2, <1>3, <1>4, <1>5

LEMMA NextTokenFresh == Unissued # {} => NextToken \in Unissued /\ NextToken \in Tokens
BY DEF NextToken, Unissued

LEMMA RevokeAllTyped ==
  ASSUME token \in TokenTables, NEW by \in {"reuse", "password"}
  PROVE  RevokeAll(by) \in TokenTables
<1>1. token \in [Tokens -> TokenStates] /\ 0 \in 0..MaxToken
      BY SessionAssumption DEF TokenTables
<1>2. ASSUME NEW n \in Tokens PROVE Becomes(token[n], RevokeAll(by)[n])
  <2>1. \/ RevokeAll(by)[n] = token[n]
        \/ RevokeAll(by)[n] = [token[n] EXCEPT !.state = "revoked", !.by = by, !.next = 0]
        BY <1>1 DEF RevokeAll, Revoke
  <2> QED
      BY <1>1, <2>1 DEF Becomes, Endings
<1>3. RevokeAll(by) = [n \in Tokens |-> RevokeAll(by)[n]]
      BY DEF RevokeAll
<1> QED
    BY <1>2, <1>3, TableTyped

\* One tab changes into a state that is typed and within its calls.
LEMMA TabTyped ==
  ASSUME SessionInv, NEW t \in Tabs, NEW r \in TabStates, CallsOf(r.calls) <= MaxCalls,
         tab' = [tab EXCEPT ![t] = r]
  PROVE  tab' \in [Tabs -> TabStates] /\ CallsBounded'
BY DEF SessionInv, CallsBounded

LEMMA ReloadTyped ==
  ASSUME SessionInv, NEW t \in Tabs, Reload(t), jar' \in [access : BOOLEAN, refresh : 0..MaxToken],
         UNCHANGED reused
  PROVE  SessionInv'
<1>1. tab' = [tab EXCEPT ![t] = Loading]
      BY DEF Reload
<1>2. tab' \in [Tabs -> TabStates] /\ CallsBounded'
      BY <1>1, TabTyped, NothingTyped
<1>3. token' \in TokenTables
  <2>1. token \in TokenTables
        BY DEF SessionInv
  <2>2. \A n \in Tokens : Becomes(token[n], token'[n])
        BY DEF Reload, Becomes
  <2>3. token' = [n \in Tokens |-> token'[n]]
        BY DEF Reload
  <2> QED
      BY <2>1, <2>2, <2>3, TableTyped
<1>4. logout' \in [of : BOOLEAN, undone : BOOLEAN]
      BY DEF Reload, SessionInv
<1> QED
    BY <1>2, <1>3, <1>4 DEF SessionInv

LEMMA SessionInitTyped == SessionInit => SessionInv
<1> SUFFICES ASSUME SessionInit PROVE SessionInv
    OBVIOUS
<1>1. /\ jar \in [access : BOOLEAN, refresh : 0..MaxToken] /\ token \in TokenTables
      /\ tab \in [Tabs -> TabStates] /\ reused \in [refreshed : BOOLEAN, other : BOOLEAN, lost : BOOLEAN]
      /\ logout \in [of : BOOLEAN, undone : BOOLEAN]
  <2>1. token \in TokenTables
        BY NothingTyped DEF SessionInit, TokenTables, NoToken
  <2> QED
      BY <2>1, NothingTyped, SessionAssumption DEF SessionInit
<1>2. CallsBounded
      BY NothingTyped DEF SessionInit, CallsBounded
<1> QED
    BY <1>1, <1>2 DEF SessionInv

LEMMA RefreshTyped ==
  ASSUME SessionInv, NEW t \in Tabs, Unauthorized(t)
  PROVE  SessionInv'
<1>0. tab[t] \in TabStates /\ tab[t].calls \in Counts /\ CallsOf(tab[t].calls) <= MaxCalls /\ tab[t].calls["401"] > 0
      BY DEF SessionInv, CallsBounded, Unauthorized, TabStates
<1>1. ASSUME NEW answer \in Answers, Wait(t, answer)
      PROVE  tab' \in [Tabs -> TabStates] /\ CallsBounded'
  <2> DEFINE calls == Plus(Minus(tab[t].calls, "401"), "waiting")
             r == [tab[t] EXCEPT !.calls = calls, !.refresh = answer]
  <2>1. calls \in Counts /\ CallsOf(calls) <= MaxCalls
        BY <1>0, CountsTyped
  <2> HIDE DEF calls
  <2>2. r \in TabStates /\ r.calls = calls
        BY <1>0, <2>1 DEF TabStates
  <2>3. tab' = [tab EXCEPT ![t] = r]
        BY <1>1 DEF Wait, calls
  <2> QED
      BY <2>1, <2>2, <2>3, TabTyped
<1>2. CASE tab[t].refresh = Nothing
  <2>1. PICK answer \in [kind : {"ok", "clear", "refused"}, token : 0..MaxToken] :
          RefreshAtServer(t, jar.refresh, answer) /\ Wait(t, answer)
        BY <1>2 DEF Unauthorized, refreshOnce, SendRefresh
  <2>2. answer \in Answers
        BY DEF Answers
  <2>3. token \in TokenTables /\ jar.refresh \in 0..MaxToken
        BY DEF SessionInv
  <2>4. /\ token' \in TokenTables
        /\ reused' \in [refreshed : BOOLEAN, other : BOOLEAN, lost : BOOLEAN]
    <3>1. CASE /\ jar.refresh # 0 /\ token[jar.refresh].state = "valid" /\ Unissued # {}
               /\ token' = Issue(Revoke(token, jar.refresh, "refresh", NextToken), NextToken, t)
               /\ UNCHANGED reused
      <4>1. jar.refresh \in Tokens /\ NextToken \in Tokens
            BY <2>3, <3>1, NextTokenFresh, SessionAssumption DEF Tokens
      <4>2. Revoke(token, jar.refresh, "refresh", NextToken) \in TokenTables
        <5>1. NextToken \in 0..MaxToken /\ "refresh" \in Endings
              BY <4>1, SessionAssumption DEF Tokens, Endings
        <5> QED
            BY <2>3, <4>1, <5>1, TokensTyped
      <4>3. token' \in TokenTables
        <5>1. 0 \in 0..MaxToken /\ "logout" \in Endings
              BY SessionAssumption DEF Endings
        <5> QED
            BY <3>1, <4>1, <4>2, <5>1, TokensTyped
      <4> QED
          BY <3>1, <4>3 DEF SessionInv
    <3>2. CASE /\ jar.refresh # 0 /\ token[jar.refresh].state = "revoked"
               /\ token' = RevokeAll("reuse")
               /\ reused' = IF token[jar.refresh].by # "refresh" THEN NotReused
                            ELSE [refreshed |-> TRUE, other |-> token[token[jar.refresh].next].of # t,
                                  lost |-> token[token[jar.refresh].next].lost]
      <4>1. token' \in TokenTables
            BY <2>3, <3>2, RevokeAllTyped
      <4>2. /\ jar.refresh \in Tokens
            /\ token[jar.refresh].next \in 0..MaxToken
            /\ NotReused \in [refreshed : BOOLEAN, other : BOOLEAN, lost : BOOLEAN]
        <5>1. jar.refresh \in Tokens
              BY <2>3, <3>2, SessionAssumption DEF Tokens
        <5>2. token[jar.refresh] \in TokenStates
              BY <2>3, <5>1, Entry
        <5> QED
            BY <5>1, <5>2, NothingTyped DEF TokenStates
      <4>3. token[jar.refresh].by = "refresh" => token[token[jar.refresh].next].lost \in BOOLEAN
            BY <2>3, <4>2, Entry DEF TokenStates
      <4> QED
          BY <3>2, <4>1, <4>2, <4>3
    <3>3. CASE UNCHANGED <<token, reused>>
          BY <2>3, <3>3 DEF SessionInv
    <3>4. CASE jar.refresh # 0 /\ token' = Revoke(token, jar.refresh, "failed", 0) /\ UNCHANGED reused
      <4>1. jar.refresh \in Tokens /\ 0 \in 0..MaxToken /\ "failed" \in Endings
            BY <2>3, <3>4, SessionAssumption DEF Tokens, Endings
      <4>2. token' \in TokenTables
            BY <2>3, <3>4, <4>1, TokensTyped
      <4> QED
          BY <3>4, <4>2 DEF SessionInv
    <3> QED
        BY <2>1, <3>1, <3>2, <3>3, <3>4 DEF RefreshAtServer
  <2> QED
      BY <1>1, <2>1, <2>2, <2>4 DEF SessionInv, Unauthorized
<1>3. CASE tab[t].refresh # Nothing
  <2>1. Wait(t, tab[t].refresh) /\ UNCHANGED <<jar, token, reused, logout>>
        BY <1>3 DEF Unauthorized, refreshOnce
  <2>2. tab[t].refresh \in Answers
        BY <1>0 DEF TabStates
  <2> QED
      BY <1>1, <2>1, <2>2 DEF SessionInv
<1> QED
    BY <1>2, <1>3

\* A tab that changes, when nothing but what is named changes with it.
LEMMA TabStep ==
  ASSUME SessionInv, NEW t \in Tabs, NEW r \in TabStates, CallsOf(r.calls) <= MaxCalls,
         tab' = [tab EXCEPT ![t] = r],
         jar' \in [access : BOOLEAN, refresh : 0..MaxToken], token' \in TokenTables,
         logout' \in [of : BOOLEAN, undone : BOOLEAN], UNCHANGED reused
  PROVE  SessionInv'
BY TabTyped DEF SessionInv

LEMMA LogoutTyped ==
  ASSUME SessionInv, NEW t \in Tabs, NEW calls \in Counts, CallsOf(calls) <= MaxCalls, LogoutAtServer(t, calls)
  PROVE  SessionInv'
<1> DEFINE r == [tab[t] EXCEPT !.page = "login", !.calls = calls, !.entering = Nothing, !.leaving = Sent]
<1>0. tab[t] \in TabStates /\ jar \in [access : BOOLEAN, refresh : 0..MaxToken] /\ token \in TokenTables
      BY DEF SessionInv
<1>1. Sent \in {"ok", "401"} /\ Nothing \in Entries
      BY NothingTyped DEF Sent
<1>2. r \in TabStates /\ r.calls = calls
      BY <1>0, <1>1 DEF TabStates
<1>3. tab' = [tab EXCEPT ![t] = r]
      BY DEF LogoutAtServer
<1>4. token' \in TokenTables
  <2>1. CASE jar.access /\ jar.refresh # 0
    <3>1. jar.refresh \in Tokens /\ 0 \in 0..MaxToken /\ "logout" \in Endings
          BY <1>0, <2>1, SessionAssumption DEF Tokens, Endings
    <3> QED
        BY <1>0, <2>1, <3>1, TokensTyped DEF LogoutAtServer
  <2> QED
      BY <1>0, <2>1 DEF LogoutAtServer
<1>5. logout' \in [of : BOOLEAN, undone : BOOLEAN] /\ UNCHANGED <<jar, reused>>
  <2>1. (Undoes \/ ~jar.access) \in BOOLEAN
        BY <1>0 DEF Undoes
  <2> QED
      BY <2>1 DEF LogoutAtServer
<1> QED
    BY <1>0, <1>2, <1>3, <1>4, <1>5, TabStep

LEMMA SessionStepTyped == SessionInv /\ [SessionNext]_sessionVars => SessionInv'
<1> SUFFICES ASSUME SessionInv, [SessionNext]_sessionVars PROVE SessionInv'
    OBVIOUS
<1>0. /\ jar \in [access : BOOLEAN, refresh : 0..MaxToken] /\ token \in TokenTables
      /\ logout \in [of : BOOLEAN, undone : BOOLEAN]
      /\ \A t \in Tabs : /\ tab[t] \in TabStates /\ tab[t].calls \in Counts /\ CallsOf(tab[t].calls) <= MaxCalls
                         /\ tab[t].refresh \in Answers /\ tab[t].entering \in Entries
                         /\ tab[t].refresh.token \in 0..MaxToken /\ tab[t].entering.token \in 0..MaxToken
      BY DEF SessionInv, CallsBounded, TabStates, Answers, Entries
<1>1. CASE AccessExpires
      BY <1>0, <1>1 DEF AccessExpires, SessionInv, CallsBounded
<1>2. ASSUME NEW t \in Tabs, UserReloads(t) \/ ConnectionLost(t) PROVE SessionInv'
      BY <1>0, <1>2, ReloadTyped DEF UserReloads, ConnectionLost
<1>3. ASSUME NEW t \in Tabs, Load(t) PROVE SessionInv'
  <2>1. PICK page \in {"in", "login"} : tab' = [tab EXCEPT ![t].page = page]
        BY <1>3 DEF Load
  <2> DEFINE r == [tab[t] EXCEPT !.page = page]
  <2>2. r \in TabStates /\ r.calls = tab[t].calls
        BY <1>0 DEF TabStates
  <2>3. tab' = [tab EXCEPT ![t] = r] /\ UNCHANGED <<jar, token, reused, logout>>
        BY <1>3, <2>1 DEF Load
  <2> QED
      BY <1>0, <2>2, <2>3, TabStep
<1>4. ASSUME NEW t \in Tabs, Call(t) \/ CallDone(t) PROVE SessionInv'
  <2>1. PICK calls \in Counts : tab' = [tab EXCEPT ![t].calls = calls] /\ CallsOf(calls) <= MaxCalls
    <3>1. CASE Call(t)
      <4>1. Sent \in {"ok", "401"} /\ CallsOf(tab[t].calls) < MaxCalls
            BY <3>1 DEF Sent, Call, CanCall, CallsOf
      <4>2. Plus(tab[t].calls, Sent) \in Counts /\ CallsOf(Plus(tab[t].calls, Sent)) <= MaxCalls
            BY <1>0, <4>1, CountsTyped
      <4>3. tab' = [tab EXCEPT ![t].calls = Plus(tab[t].calls, Sent)]
            BY <3>1 DEF Call
      <4> QED
          BY <4>2, <4>3
    <3>2. CASE CallDone(t)
      <4>1. Minus(tab[t].calls, "ok") \in Counts /\ CallsOf(Minus(tab[t].calls, "ok")) <= MaxCalls
            BY <1>0, <3>2, CountsTyped DEF CallDone
      <4>2. tab' = [tab EXCEPT ![t].calls = Minus(tab[t].calls, "ok")]
            BY <3>2 DEF CallDone
      <4> QED
          BY <4>1, <4>2
    <3> QED
        BY <1>4, <3>1, <3>2
  <2> DEFINE r == [tab[t] EXCEPT !.calls = calls]
  <2>2. r \in TabStates /\ r.calls = calls
        BY <1>0 DEF TabStates
  <2>3. tab' = [tab EXCEPT ![t] = r] /\ UNCHANGED <<jar, token, reused, logout>>
        BY <1>4, <2>1 DEF Call, CallDone
  <2> QED
      BY <1>0, <2>1, <2>2, <2>3, TabStep
<1>5. ASSUME NEW t \in Tabs, Refreshed(t) PROVE SessionInv'
  <2> DEFINE calls == Retried(tab[t].calls)
             r == [tab[t] EXCEPT !.refresh = Nothing, !.calls = calls]
  <2>1. calls \in Counts /\ CallsOf(calls) <= MaxCalls
        BY <1>0, CountsTyped
  <2>2. UNCHANGED <<token, reused, logout>>
        BY <1>5 DEF Refreshed
  <2>5. tab' = [tab EXCEPT ![t] = r]
        BY <1>0, <1>5 DEF Refreshed
  <2> HIDE DEF calls
  <2>3. r \in TabStates /\ r.calls = calls
        BY <1>0, <2>1, NothingTyped DEF TabStates
  <2>4. jar' \in [access : BOOLEAN, refresh : 0..MaxToken]
        BY <1>0, <1>5 DEF Refreshed
  <2> QED
      BY <1>0, <2>1, <2>2, <2>3, <2>4, <2>5, TabStep
<1>6. ASSUME NEW t \in Tabs, NotRefreshed(t) PROVE SessionInv'
  <2>1. jar' \in [access : BOOLEAN, refresh : 0..MaxToken]
    <3>1. CASE UNCHANGED jar
          BY <1>0, <3>1
    <3>2. CASE jar' = [access |-> FALSE, refresh |-> 0]
          BY <3>2, SessionAssumption
    <3> QED
        BY <1>6, <3>1, <3>2 DEF NotRefreshed
  <2> QED
      BY <1>6, <2>1, ReloadTyped DEF NotRefreshed
<1>7. ASSUME NEW t \in Tabs, Login(t) PROVE SessionInv'
  <2> DEFINE answer == [kind |-> "login", token |-> NextToken]
             r == [tab[t] EXCEPT !.entering = answer]
  <2>1. NextToken \in Tokens /\ NextToken \in 0..MaxToken /\ 0 \in 0..MaxToken /\ "logout" \in Endings
        BY <1>7, NextTokenFresh, SessionAssumption DEF Login, Tokens, Endings
  <2>2. answer \in Entries
        BY <2>1 DEF Entries
  <2>3. tab' = [tab EXCEPT ![t] = r] /\ UNCHANGED <<jar, reused>> /\ logout' \in [of : BOOLEAN, undone : BOOLEAN]
        BY <1>7 DEF Login
  <2>4. token' \in TokenTables
        BY <1>0, <1>7, <2>1, TokensTyped DEF Login
  <2> HIDE DEF answer
  <2>5. r \in TabStates /\ r.calls = tab[t].calls
        BY <1>0, <2>2 DEF TabStates
  <2> QED
      BY <1>0, <2>3, <2>4, <2>5, TabStep
<1>8. ASSUME NEW t \in Tabs, LoggedIn(t) \/ LoginFails(t) PROVE SessionInv'
  <2> DEFINE in == [tab[t] EXCEPT !.entering = Nothing, !.page = "in"]
             out == [tab[t] EXCEPT !.entering = Nothing]
  <2>1. in \in TabStates /\ in.calls = tab[t].calls /\ out \in TabStates /\ out.calls = tab[t].calls
        BY <1>0, NothingTyped DEF TabStates
  <2>2. tab' = [tab EXCEPT ![t] = in] \/ tab' = [tab EXCEPT ![t] = out]
        BY <1>8 DEF LoggedIn, LoginFails
  <2>3. jar' \in [access : BOOLEAN, refresh : 0..MaxToken] /\ UNCHANGED <<reused, logout>>
    <3>1. CASE UNCHANGED jar
          BY <1>0, <1>8, <3>1 DEF LoggedIn, LoginFails
    <3>2. CASE LoggedIn(t)
          BY <1>0, <3>2 DEF LoggedIn
    <3> QED
        BY <1>8, <3>1, <3>2 DEF LoginFails
  <2>4. token' \in TokenTables
    <3>1. CASE token' = token
          BY <1>0, <3>1
    <3>2. CASE token' = [token EXCEPT ![tab[t].entering.token].lost = TRUE] /\ tab[t].entering.token # 0
      <4>1. tab[t].entering.token \in Tokens /\ 0 \in 0..MaxToken /\ "logout" \in Endings
            BY <1>0, <3>2, SessionAssumption DEF Tokens, Endings
      <4> QED
          BY <1>0, <3>2, <4>1, TokensTyped
    <3> QED
        BY <1>8, <3>1, <3>2 DEF LoggedIn, LoginFails, Lost
  <2> QED
      BY <1>0, <2>1, <2>2, <2>3, <2>4, TabStep
<1>9. ASSUME NEW t \in Tabs, Logout(t) \/ PasswordChanged(t) PROVE SessionInv'
  <2>1. CASE Logout(t)
    <3>1. Sent \in {"ok", "401"} /\ CallsOf(tab[t].calls) < MaxCalls
          BY <2>1 DEF Sent, Logout, CanCall, CallsOf
    <3>2. Plus(tab[t].calls, Sent) \in Counts /\ CallsOf(Plus(tab[t].calls, Sent)) <= MaxCalls
          BY <1>0, <3>1, CountsTyped
    <3> QED
        BY <2>1, <3>2, LogoutTyped DEF Logout
  <2>2. CASE PasswordChanged(t)
        BY <1>0, <2>2, LogoutTyped DEF PasswordChanged
  <2> QED
      BY <1>9, <2>1, <2>2
<1>10. ASSUME NEW t \in Tabs, LoggedOut(t) PROVE SessionInv'
  <2> DEFINE r == [tab[t] EXCEPT !.leaving = "none"]
  <2>1. r \in TabStates /\ r.calls = tab[t].calls
        BY <1>0 DEF TabStates
  <2>2. tab' = [tab EXCEPT ![t] = r] /\ UNCHANGED <<token, reused>>
        BY <1>10 DEF LoggedOut
  <2>3. jar' \in [access : BOOLEAN, refresh : 0..MaxToken] /\ logout' \in [of : BOOLEAN, undone : BOOLEAN]
    <3>1. CASE jar' = [access |-> FALSE, refresh |-> 0] /\ UNCHANGED logout
          BY <1>0, <3>1, SessionAssumption
    <3>2. CASE UNCHANGED jar /\ logout' = [logout EXCEPT !.undone = TRUE]
          BY <1>0, <3>2
    <3> QED
        BY <1>10, <3>1, <3>2 DEF LoggedOut, Clears
  <2> QED
      BY <1>0, <2>1, <2>2, <2>3, TabStep
<1>11. ASSUME NEW t \in Tabs, ChangePassword(t) PROVE SessionInv'
  <2> DEFINE r == [tab[t] EXCEPT !.entering = [kind |-> "password", token |-> 0]]
  <2>1. r \in TabStates /\ r.calls = tab[t].calls
        BY <1>0, SessionAssumption DEF TabStates, Entries
  <2>2. tab' = [tab EXCEPT ![t] = r] /\ UNCHANGED <<jar, reused, logout>>
        BY <1>11 DEF ChangePassword
  <2>3. token' \in TokenTables
        BY <1>0, <1>11, RevokeAllTyped DEF ChangePassword
  <2> QED
      BY <1>0, <2>1, <2>2, <2>3, TabStep
<1>12. ASSUME NEW t \in Tabs, Unauthorized(t) PROVE SessionInv'
       BY <1>12, RefreshTyped
<1>13. CASE UNCHANGED sessionVars
       BY <1>13 DEF sessionVars, SessionInv, CallsBounded
<1> QED
    BY <1>1, <1>2, <1>3, <1>4, <1>5, <1>6, <1>7, <1>8, <1>9, <1>10, <1>11, <1>12, <1>13 DEF SessionNext

LEMMA SessionInvTypes == SessionInv => SessionTypeOK
BY DEF SessionInv, SessionTypeOK, TokenTables, TokenStates, TabStates, Counts, Answers, Entries

\* Cookies, the server's tokens and the tabs are well typed in every reachable
\* state, and no tab has more calls in flight than MaxCalls.
THEOREM SessionTyped == SessionSpec => []SessionTypeOK
<1> QED
    BY SessionInitTyped, SessionStepTyped, SessionInvTypes, PTL DEF SessionSpec

---------------------------------------------------------------------------
(* After a logout: what makes LogoutHolds inductive. *)

\* Until something undoes a logout, no cookie is on its way, the cookie of the
\* refresh token names no valid one, and an access token goes with an answer.
LogoutKept ==
  (logout.of /\ ~logout.undone) =>
    /\ ~Undoes
    /\ jar.refresh # 0 => token[jar.refresh].state # "valid"
    /\ jar.access => \E t \in Tabs : tab[t].leaving = "ok"

\* A step that sends no cookie, makes no token valid, and ends no wait for the
\* answer of a logout.
LEMMA LogoutUndisturbed ==
  ASSUME LogoutKept, logout'.of => logout.of, logout'.of /\ ~logout'.undone => ~logout.undone,
         jar'.refresh \in {jar.refresh, 0}, jar'.access => jar.access,
         jar.refresh # 0 /\ token[jar.refresh].state # "valid" => token'[jar.refresh].state # "valid",
         logout'.of /\ ~logout'.undone =>
           \A t \in Tabs : /\ tab'[t].refresh.kind = "ok" => tab[t].refresh.kind = "ok"
                           /\ tab'[t].entering.kind = "login" => tab[t].entering.kind = "login"
                           /\ tab[t].leaving = "ok" => tab'[t].leaving = "ok"
  PROVE  LogoutKept'
<1> SUFFICES ASSUME logout'.of, ~logout'.undone
             PROVE  /\ ~Undoes'
                    /\ jar'.refresh # 0 => token'[jar'.refresh].state # "valid"
                    /\ jar'.access => \E t \in Tabs : tab'[t].leaving = "ok"
    BY DEF LogoutKept
<1>1. /\ ~Undoes
      /\ jar.refresh # 0 => token[jar.refresh].state # "valid"
      /\ jar.access => \E t \in Tabs : tab[t].leaving = "ok"
      BY DEF LogoutKept
<1>2. ~Undoes'
      BY <1>1 DEF Undoes
<1>3. jar'.access => \E t \in Tabs : tab'[t].leaving = "ok"
      BY <1>1
<1> QED
    BY <1>1, <1>2, <1>3

\* What the server's operations leave of the validity of a token.
LEMMA NoneRevived ==
  ASSUME token \in TokenTables, NEW n \in Tokens, NEW k \in Tokens, NEW by, NEW next
  PROVE  /\ token[n].state # "valid" => RevokeAll(by)[n] = token[n]
         /\ token[n].state # "valid" => Revoke(token, k, by, next)[n] = token[n]
         /\ Revoke(token, k, by, next)[k].state # "valid"
         /\ [token EXCEPT ![k].lost = TRUE][n].state = token[n].state
<1>1. token \in [Tokens -> TokenStates]
      BY DEF TokenTables
<1> QED
    BY <1>1 DEF RevokeAll, Revoke, TokenStates

LEMMA ReloadKeepsLogout ==
  ASSUME SessionInv, LogoutKept, NEW t \in Tabs, Reload(t),
         jar' \in {jar, [access |-> FALSE, refresh |-> 0]}
  PROVE  LogoutKept'
<1>1. /\ tab \in [Tabs -> TabStates] /\ jar.refresh \in 0..MaxToken /\ logout \in [of : BOOLEAN, undone : BOOLEAN]
      BY DEF SessionInv
<1>2. jar.refresh # 0 /\ token[jar.refresh].state # "valid" => token'[jar.refresh].state # "valid"
  <2>1. jar.refresh # 0 => jar.refresh \in Tokens
        BY <1>1, SessionAssumption DEF Tokens
  <2>2. SessionInv => token \in [Tokens -> TokenStates]
        BY DEF SessionInv, TokenTables
  <2> QED
      BY <2>1, <2>2 DEF Reload, TokenStates
<1>3. logout'.of => logout.of
      BY <1>1 DEF Reload
<1>4. logout'.of /\ ~logout'.undone => ~logout.undone /\ tab[t].leaving = "none"
      BY <1>1 DEF Reload
<1>5. logout'.of /\ ~logout'.undone =>
        \A u \in Tabs : /\ tab'[u].refresh.kind = "ok" => tab[u].refresh.kind = "ok"
                        /\ tab'[u].entering.kind = "login" => tab[u].entering.kind = "login"
                        /\ tab[u].leaving = "ok" => tab'[u].leaving = "ok"
      BY <1>1, <1>4 DEF Reload, Loading, Nothing
<1>6. jar'.refresh \in {jar.refresh, 0} /\ (jar'.access => jar.access)
      OBVIOUS
<1> QED
    BY <1>2, <1>3, <1>4, <1>5, <1>6, LogoutUndisturbed

LEMMA LeavingKeepsLogout ==
  ASSUME SessionInv, NEW t \in Tabs, NEW calls, LogoutAtServer(t, calls)
  PROVE  LogoutKept'
<1>1. tab \in [Tabs -> TabStates] /\ jar \in [access : BOOLEAN, refresh : 0..MaxToken] /\ token \in TokenTables
      BY DEF SessionInv
<1>2. logout' = [of |-> TRUE, undone |-> Undoes \/ ~jar.access] /\ UNCHANGED jar
      BY DEF LogoutAtServer
<1> SUFFICES ASSUME ~Undoes, jar.access
             PROVE  /\ ~Undoes' /\ \E u \in Tabs : tab'[u].leaving = "ok"
                    /\ jar.refresh # 0 => token'[jar.refresh].state # "valid"
    BY <1>2 DEF LogoutKept
<1>3. ~Undoes'
      BY <1>1 DEF LogoutAtServer, Undoes, Nothing, TabStates
<1>4. tab'[t].leaving = "ok"
      BY <1>1 DEF LogoutAtServer, Sent, TabStates
<1>5. jar.refresh # 0 => token'[jar.refresh].state # "valid"
  <2> SUFFICES ASSUME jar.refresh # 0 PROVE token'[jar.refresh].state # "valid"
      OBVIOUS
  <2>1. jar.refresh \in Tokens
        BY <1>1, SessionAssumption DEF Tokens
  <2>2. token' = Revoke(token, jar.refresh, "logout", 0)
        BY DEF LogoutAtServer
  <2> QED
      BY <1>1, <2>1, <2>2, NoneRevived
<1> QED
    BY <1>3, <1>4, <1>5

LEMMA RefreshKeepsLogout ==
  ASSUME SessionInv, LogoutKept, NEW t \in Tabs, Unauthorized(t)
  PROVE  LogoutKept'
<1>0. /\ tab \in [Tabs -> TabStates] /\ jar.refresh \in 0..MaxToken /\ token \in TokenTables
      /\ logout \in [of : BOOLEAN, undone : BOOLEAN]
      BY DEF SessionInv
<1>1. UNCHANGED <<jar, logout>>
      BY DEF Unauthorized
<1> SUFFICES ASSUME logout.of, ~logout.undone
             PROVE  LogoutKept'
    BY <1>1 DEF LogoutKept
<1>2. jar.refresh # 0 => jar.refresh \in Tokens /\ token[jar.refresh].state # "valid"
      BY <1>0, SessionAssumption DEF Tokens, LogoutKept
<1>3. PICK answer : Wait(t, answer) /\ (answer.kind = "ok" => tab[t].refresh.kind = "ok")
  <2>1. CASE tab[t].refresh = Nothing
    <3>1. PICK answer \in [kind : {"ok", "clear", "refused"}, token : 0..MaxToken] :
            RefreshAtServer(t, jar.refresh, answer) /\ Wait(t, answer)
          BY <2>1 DEF Unauthorized, refreshOnce, SendRefresh
    <3>2. answer.kind # "ok"
          BY <1>2, <3>1 DEF RefreshAtServer
    <3> QED
        BY <3>1, <3>2
  <2>2. CASE tab[t].refresh # Nothing
        BY <2>2 DEF Unauthorized, refreshOnce
  <2> QED
      BY <2>1, <2>2
<1>4. jar.refresh # 0 => token'[jar.refresh].state # "valid"
  <2>1. CASE UNCHANGED token
        BY <1>2, <2>1
  <2>2. CASE token' = RevokeAll("reuse")
        BY <1>0, <1>2, <2>2, NoneRevived
  <2>3. CASE token' = Revoke(token, jar.refresh, "failed", 0)
        BY <1>0, <1>2, <2>3, NoneRevived
  <2>4. token' \in {token, RevokeAll("reuse"), Revoke(token, jar.refresh, "failed", 0)}
        BY <1>2 DEF Unauthorized, refreshOnce, SendRefresh, RefreshAtServer
  <2> QED
      BY <2>1, <2>2, <2>3, <2>4
<1>5. \A u \in Tabs : /\ tab'[u].refresh.kind = "ok" => tab[u].refresh.kind = "ok"
                      /\ tab'[u].entering = tab[u].entering /\ tab'[u].leaving = tab[u].leaving
      BY <1>0, <1>3 DEF Wait, TabStates
<1> QED
    BY <1>1, <1>4, <1>5, LogoutUndisturbed

LEMMA SessionStepKeepsLogout == SessionInv /\ LogoutKept /\ [SessionNext]_sessionVars => LogoutKept'
<1> SUFFICES ASSUME SessionInv, LogoutKept, [SessionNext]_sessionVars PROVE LogoutKept'
    OBVIOUS
<1>0. /\ jar \in [access : BOOLEAN, refresh : 0..MaxToken] /\ token \in TokenTables /\ tab \in [Tabs -> TabStates]
      /\ logout \in [of : BOOLEAN, undone : BOOLEAN]
      /\ jar.refresh # 0 => jar.refresh \in Tokens
      BY SessionAssumption DEF SessionInv, Tokens
<1>1. CASE AccessExpires
  <2>1. UNCHANGED <<token, tab, logout>> /\ jar' = [jar EXCEPT !.access = FALSE]
        BY <1>1 DEF AccessExpires
  <2>2. jar'.refresh = jar.refresh /\ ~jar'.access
        BY <1>0, <2>1
  <2> QED
      BY <2>1, <2>2, LogoutUndisturbed
<1>2. ASSUME NEW t \in Tabs, UserReloads(t) \/ ConnectionLost(t) \/ NotRefreshed(t) PROVE LogoutKept'
  <2>1. Reload(t) /\ jar' \in {jar, [access |-> FALSE, refresh |-> 0]}
        BY <1>2 DEF UserReloads, ConnectionLost, NotRefreshed
  <2> QED
      BY <2>1, ReloadKeepsLogout
<1>3. ASSUME NEW t \in Tabs, Load(t) \/ Call(t) \/ CallDone(t) PROVE LogoutKept'
  <2>1. UNCHANGED <<jar, token, logout>>
        BY <1>3 DEF Load, Call, CallDone
  <2>2. \A u \in Tabs : tab'[u].refresh = tab[u].refresh /\ tab'[u].entering = tab[u].entering
                        /\ tab'[u].leaving = tab[u].leaving
    <3>1. \/ \E page : tab' = [tab EXCEPT ![t].page = page]
          \/ \E calls : tab' = [tab EXCEPT ![t].calls = calls]
          BY <1>3 DEF Load, Call, CallDone
    <3> QED
        BY <1>0, <3>1 DEF TabStates
  <2> QED
      BY <2>1, <2>2, LogoutUndisturbed
<1>4. ASSUME NEW t \in Tabs, Refreshed(t) \/ LoggedIn(t) PROVE LogoutKept'
  <2>1. Undoes /\ UNCHANGED logout
        BY <1>4 DEF Refreshed, LoggedIn, Undoes
  <2> QED
      BY <2>1 DEF LogoutKept
<1>5. ASSUME NEW t \in Tabs, Login(t) PROVE LogoutKept'
      BY <1>5 DEF Login, LogoutKept
<1>6. ASSUME NEW t \in Tabs, LoginFails(t) PROVE LogoutKept'
  <2>1. Undoes /\ UNCHANGED logout
        BY <1>6 DEF LoginFails, Undoes
  <2> QED
      BY <2>1 DEF LogoutKept
<1>7. ASSUME NEW t \in Tabs, Logout(t) \/ PasswordChanged(t) PROVE LogoutKept'
      BY <1>7, LeavingKeepsLogout DEF Logout, PasswordChanged
<1>8. ASSUME NEW t \in Tabs, LoggedOut(t) PROVE LogoutKept'
  <2>1. CASE UNCHANGED jar /\ logout' = [logout EXCEPT !.undone = TRUE]
        BY <1>0, <2>1 DEF LogoutKept
  <2>2. CASE jar' = Clears /\ UNCHANGED logout
    <3>1. UNCHANGED token /\ tab' = [tab EXCEPT ![t].leaving = "none"]
          BY <1>8 DEF LoggedOut
    <3>2. \A u \in Tabs : tab'[u].refresh = tab[u].refresh /\ tab'[u].entering = tab[u].entering
          BY <1>0, <3>1 DEF TabStates
    <3>3. ~Undoes => ~Undoes'
          BY <3>2 DEF Undoes
    <3>4. jar'.refresh = 0 /\ ~jar'.access
          BY <2>2 DEF Clears
    <3> QED
        BY <2>2, <3>3, <3>4 DEF LogoutKept
  <2> QED
      BY <1>8, <2>1, <2>2 DEF LoggedOut
<1>9. ASSUME NEW t \in Tabs, ChangePassword(t) PROVE LogoutKept'
  <2>1. /\ UNCHANGED <<jar, logout>> /\ token' = RevokeAll("password")
        /\ tab' = [tab EXCEPT ![t].entering = [kind |-> "password", token |-> 0]]
        BY <1>9 DEF ChangePassword
  <2>2. \A u \in Tabs : /\ tab'[u].refresh = tab[u].refresh /\ tab'[u].leaving = tab[u].leaving
                        /\ tab'[u].entering.kind = "login" => tab[u].entering.kind = "login"
        BY <1>0, <2>1 DEF TabStates
  <2>3. jar.refresh # 0 /\ token[jar.refresh].state # "valid" => token'[jar.refresh].state # "valid"
        BY <1>0, <2>1, NoneRevived
  <2> QED
      BY <2>1, <2>2, <2>3, LogoutUndisturbed
<1>10. ASSUME NEW t \in Tabs, Unauthorized(t) PROVE LogoutKept'
       BY <1>10, RefreshKeepsLogout
<1>11. CASE UNCHANGED sessionVars
       BY <1>11 DEF sessionVars, LogoutKept, Undoes
<1> QED
    BY <1>1, <1>2, <1>3, <1>4, <1>5, <1>6, <1>7, <1>8, <1>9, <1>10, <1>11 DEF SessionNext

\* A logout holds, for any number of tabs and of calls in flight: once all is
\* quiet no cookie opens the account again, unless one of the listed events
\* undid the logout.
THEOREM SessionLogoutHolds == SessionSpec => []LogoutHolds
<1>1. SessionInit => LogoutKept
      BY DEF SessionInit, LogoutKept
<1>2. LogoutKept => LogoutHolds
      BY DEF LogoutKept, LogoutHolds, Quiet
<1> QED
    BY <1>1, <1>2, SessionInitTyped, SessionStepTyped, SessionStepKeepsLogout, PTL DEF SessionSpec

---------------------------------------------------------------------------
(* The use of a revoked token: what makes NoReuseAlone inductive.          *)

Carried(t) == {tab[t].refresh.token, tab[t].entering.token} \ {0}

\* A token on its way to a tab was issued to it, was not exchanged, and is not
\* the one in the jar.
CarriedFresh ==
  \A t \in Tabs :
    /\ tab[t].refresh.token # 0 => tab[t].refresh.token # tab[t].entering.token
    /\ \A m \in Carried(t) : /\ token[m].state # "unissued" /\ token[m].of = t /\ token[m].by # "refresh"
                             /\ m # jar.refresh

JarIssued == jar.refresh # 0 => token[jar.refresh].state # "unissued"

UnissuedUnused == \A n \in Tokens : token[n].state = "unissued" => token[n].by # "refresh"

\* When the token in the jar was exchanged, its successor was lost or the tab
\* it was issued to awaits it.
SuccessorAwaited ==
  (jar.refresh # 0 /\ token[jar.refresh].by = "refresh") =>
    \/ token[token[jar.refresh].next].lost
    \/ \E u \in Tabs : /\ token[token[jar.refresh].next].of = u
                       /\ tab[u].refresh = [kind |-> "ok", token |-> token[jar.refresh].next]

ReuseInv == CarriedFresh /\ JarIssued /\ UnissuedUnused /\ SuccessorAwaited

\* What a token keeps in a step that issues none and exchanges none.
Aged(old, new) ==
  /\ new.state = "unissued" <=> old.state = "unissued"
  /\ new.of = old.of
  /\ new.by = "refresh" => old.by = "refresh" /\ new.next = old.next
  /\ old.lost => new.lost

LEMMA AgesWell ==
  ASSUME token \in TokenTables, NEW n \in Tokens, NEW k \in Tokens, NEW by \in Endings, by # "refresh",
         NEW next \in 0..MaxToken
  PROVE  /\ Aged(token[n], token[n])
         /\ Aged(token[n], RevokeAll(by)[n])
         /\ Aged(token[n], Revoke(token, k, by, next)[n])
         /\ Aged(token[n], [token[n] EXCEPT !.lost = TRUE])
         /\ Aged(token[n], [token EXCEPT ![k].lost = TRUE][n])
<1>1. token \in [Tokens -> TokenStates] /\ token[n] \in TokenStates
      BY DEF TokenTables
<1>2. /\ Aged(token[n], token[n])
      /\ Aged(token[n], [token[n] EXCEPT !.lost = TRUE])
      BY <1>1 DEF Aged, TokenStates
<1>3. ASSUME NEW j, token[n].state = "valid"
      PROVE  Aged(token[n], [token[n] EXCEPT !.state = "revoked", !.by = by, !.next = j])
      BY <1>1, <1>3 DEF Aged, TokenStates
<1>4. Aged(token[n], RevokeAll(by)[n])
  <2>1. \/ RevokeAll(by)[n] = token[n]
        \/ /\ token[n].state = "valid"
           /\ RevokeAll(by)[n] = [token[n] EXCEPT !.state = "revoked", !.by = by, !.next = 0]
        BY <1>1 DEF RevokeAll, Revoke
  <2> QED
      BY <1>2, <1>3, <2>1
<1>5. Aged(token[n], Revoke(token, k, by, next)[n])
  <2>1. \/ Revoke(token, k, by, next)[n] = token[n]
        \/ /\ token[n].state = "valid"
           /\ Revoke(token, k, by, next)[n] = [token[n] EXCEPT !.state = "revoked", !.by = by, !.next = next]
        BY <1>1 DEF Revoke
  <2> QED
      BY <1>2, <1>3, <2>1
<1>6. Aged(token[n], [token EXCEPT ![k].lost = TRUE][n])
  <2>1. \/ [token EXCEPT ![k].lost = TRUE][n] = token[n]
        \/ [token EXCEPT ![k].lost = TRUE][n] = [token[n] EXCEPT !.lost = TRUE]
        BY <1>1
  <2> QED
      BY <1>2, <2>1
<1> QED
    BY <1>2, <1>4, <1>5, <1>6

\* Where the successor of the token in the jar is.
LEMMA SuccessorTyped ==
  ASSUME SessionInv
  PROVE  /\ jar.refresh # 0 => jar.refresh \in Tokens
         /\ jar.refresh # 0 /\ token[jar.refresh].by = "refresh" => token[jar.refresh].next \in Tokens
         /\ \A t \in Tabs : Carried(t) \subseteq Tokens
<1>1. jar.refresh \in 0..MaxToken /\ token \in TokenTables
      BY DEF SessionInv
<1>2. jar.refresh # 0 => jar.refresh \in Tokens
      BY <1>1, SessionAssumption DEF Tokens
<1>3. \A t \in Tabs : Carried(t) \subseteq Tokens
      BY SessionAssumption DEF SessionInv, TabStates, Answers, Entries, Carried, Tokens
<1> QED
    BY <1>1, <1>2, <1>3, Entry

\* A step in which tokens only age, nothing new is on its way, and what is no
\* longer awaited is lost.
LEMMA AgingStep ==
  ASSUME SessionInv, ReuseInv,
         \A n \in Tokens : Aged(token[n], token'[n]),
         jar'.refresh \in {jar.refresh, 0},
         \A t \in Tabs :
           /\ tab'[t].refresh.token \in {tab[t].refresh.token, 0}
           /\ tab'[t].entering.token \in {tab[t].entering.token, 0}
           /\ \/ tab'[t].refresh = tab[t].refresh
              \/ tab[t].refresh.token = 0
              \/ token'[tab[t].refresh.token].lost
  PROVE  ReuseInv'
<1>0. \A t \in Tabs : Carried(t)' \subseteq Carried(t) /\ Carried(t) \subseteq Tokens
      BY SuccessorTyped DEF Carried
<1>1. CarriedFresh'
  <2> SUFFICES ASSUME NEW t \in Tabs
               PROVE  /\ tab'[t].refresh.token # 0 => tab'[t].refresh.token # tab'[t].entering.token
                      /\ \A m \in Carried(t)' : /\ token'[m].state # "unissued" /\ token'[m].of = t
                                                /\ token'[m].by # "refresh" /\ m # jar'.refresh
      BY DEF CarriedFresh
  <2>1. tab'[t].refresh.token # 0 => tab'[t].refresh.token # tab'[t].entering.token
        BY DEF ReuseInv, CarriedFresh
  <2>2. ASSUME NEW m \in Carried(t)'
        PROVE  token'[m].state # "unissued" /\ token'[m].of = t /\ token'[m].by # "refresh" /\ m # jar'.refresh
    <3>1. m \in Carried(t) /\ m \in Tokens /\ m # 0
          BY <1>0, <2>2 DEF Carried
    <3>2. token[m].state # "unissued" /\ token[m].of = t /\ token[m].by # "refresh" /\ m # jar.refresh
          BY <3>1 DEF ReuseInv, CarriedFresh
    <3>3. Aged(token[m], token'[m])
          BY <3>1
    <3> QED
        BY <3>1, <3>2, <3>3 DEF Aged
  <2> QED
      BY <2>1, <2>2
<1>2. JarIssued' /\ UnissuedUnused'
      BY SuccessorTyped DEF ReuseInv, JarIssued, UnissuedUnused, Aged
<1>3. SuccessorAwaited'
  <2> DEFINE k == jar.refresh
             n == token[k].next
  <2> SUFFICES ASSUME jar'.refresh # 0, token'[jar'.refresh].by = "refresh"
               PROVE  \/ token'[token'[jar'.refresh].next].lost
                      \/ \E u \in Tabs : /\ token'[token'[jar'.refresh].next].of = u
                                         /\ tab'[u].refresh = [kind |-> "ok", token |-> token'[jar'.refresh].next]
      BY DEF SuccessorAwaited
  <2>1. jar'.refresh = k /\ k # 0 /\ k \in Tokens
        BY SuccessorTyped
  <2>2. token[k].by = "refresh" /\ token'[k].next = n
        BY <2>1 DEF Aged
  <2>3. n \in Tokens /\ Aged(token[n], token'[n])
        BY <2>1, <2>2, SuccessorTyped
  <2> HIDE DEF n
  <2>4. CASE token[n].lost
        BY <2>1, <2>2, <2>3, <2>4 DEF Aged
  <2>5. ASSUME NEW u \in Tabs, token[n].of = u, tab[u].refresh = [kind |-> "ok", token |-> n]
        PROVE  token'[n].lost \/ (token'[n].of = u /\ tab'[u].refresh = [kind |-> "ok", token |-> n])
    <3>1. tab[u].refresh.token = n /\ n # 0
          BY <2>3, <2>5, SessionAssumption DEF Tokens
    <3>2. tab'[u].refresh = tab[u].refresh \/ token'[n].lost
          BY <3>1
    <3>3. token'[n].of = u
          BY <2>3, <2>5 DEF Aged
    <3> QED
        BY <2>5, <3>2, <3>3
  <2>6. token[n].lost \/ \E u \in Tabs : token[n].of = u /\ tab[u].refresh = [kind |-> "ok", token |-> n]
        BY <2>1, <2>2 DEF ReuseInv, SuccessorAwaited, n
  <2> QED
      BY <2>1, <2>2, <2>4, <2>5, <2>6
<1> QED
    BY <1>1, <1>2, <1>3 DEF ReuseInv

\* The cookie of an answer replaces the one in the jar.
LEMMA ArrivalStep ==
  ASSUME SessionInv, ReuseInv, NEW t \in Tabs, NEW m \in 0..MaxToken,
         m \in {tab[t].refresh.token, tab[t].entering.token}, jar'.refresh = m, UNCHANGED token,
         \A u \in Tabs :
           /\ tab'[u].refresh.token \in {tab[u].refresh.token, 0}
           /\ tab'[u].entering.token \in {tab[u].entering.token, 0},
         m # 0 => m \notin Carried(t)'
  PROVE  ReuseInv'
<1>0. \A u \in Tabs : Carried(u)' \subseteq Carried(u)
      BY DEF Carried
<1>1. m # 0 => token[m].state # "unissued" /\ token[m].of = t /\ token[m].by # "refresh"
      BY DEF ReuseInv, CarriedFresh, Carried
<1>2. CarriedFresh'
  <2> SUFFICES ASSUME NEW u \in Tabs
               PROVE  /\ tab'[u].refresh.token # 0 => tab'[u].refresh.token # tab'[u].entering.token
                      /\ \A n \in Carried(u)' : /\ token'[n].state # "unissued" /\ token'[n].of = u
                                                /\ token'[n].by # "refresh" /\ n # jar'.refresh
      BY DEF CarriedFresh
  <2>1. tab'[u].refresh.token # 0 => tab'[u].refresh.token # tab'[u].entering.token
        BY DEF ReuseInv, CarriedFresh
  <2>2. ASSUME NEW n \in Carried(u)'
        PROVE  token[n].state # "unissued" /\ token[n].of = u /\ token[n].by # "refresh" /\ n # m
    <3>1. n \in Carried(u) /\ n # 0
          BY <1>0, <2>2 DEF Carried
    <3>2. token[n].state # "unissued" /\ token[n].of = u /\ token[n].by # "refresh"
          BY <3>1 DEF ReuseInv, CarriedFresh
    <3>3. n # m
          BY <1>1, <2>2, <3>1, <3>2
    <3> QED
        BY <3>2, <3>3
  <2> QED
      BY <2>1, <2>2
<1>3. JarIssued' /\ UnissuedUnused' /\ SuccessorAwaited'
      BY <1>1 DEF ReuseInv, JarIssued, UnissuedUnused, SuccessorAwaited
<1> QED
    BY <1>2, <1>3 DEF ReuseInv

\* A token n is issued to tab t, by a login or in exchange for the one in the jar.
Issued(t, n) ==
  /\ token[n].state = "unissued" /\ jar'.refresh = jar.refresh
  /\ token'[n].state = "valid" /\ token'[n].of = t /\ token'[n].by # "refresh"
  /\ \A m \in Tokens \ {n} : /\ token'[m].state = "unissued" <=> token[m].state = "unissued"
                             /\ token'[m].of = token[m].of
                             /\ m # jar.refresh => token'[m].by = token[m].by
  /\ \A m \in Tokens : token'[m].lost = token[m].lost
  /\ \A u \in Tabs \ {t} : tab'[u].refresh = tab[u].refresh /\ tab'[u].entering = tab[u].entering
  /\ Carried(t)' \subseteq Carried(t) \cup {n}
  /\ tab'[t].refresh.token # 0 => tab'[t].refresh.token # tab'[t].entering.token
  /\ \/ jar.refresh # 0 /\ token'[jar.refresh].next = n /\ tab'[t].refresh = [kind |-> "ok", token |-> n]
     \/ /\ jar.refresh # 0 => token'[jar.refresh] = token[jar.refresh]
        /\ tab'[t].refresh = tab[t].refresh

LEMMA IssueStep ==
  ASSUME SessionInv, ReuseInv, NEW t \in Tabs, NEW n \in Tokens, Issued(t, n)
  PROVE  ReuseInv'
<1>1. /\ token[n].state = "unissued" /\ jar'.refresh = jar.refresh
      /\ token'[n].state = "valid" /\ token'[n].of = t /\ token'[n].by # "refresh"
      BY DEF Issued
<1>2. ASSUME NEW m \in Tokens, m # n
      PROVE  /\ token'[m].state = "unissued" <=> token[m].state = "unissued"
             /\ token'[m].of = token[m].of
             /\ m # jar.refresh => token'[m].by = token[m].by
      BY <1>2 DEF Issued
<1>3. /\ \A u \in Tabs \ {t} : tab'[u].refresh = tab[u].refresh /\ tab'[u].entering = tab[u].entering
      /\ Carried(t)' \subseteq Carried(t) \cup {n}
      /\ tab'[t].refresh.token # 0 => tab'[t].refresh.token # tab'[t].entering.token
      BY DEF Issued
<1>4. \A m \in Tokens : token'[m].lost = token[m].lost
      BY DEF Issued
<1>5. /\ \A u \in Tabs \ {t} : Carried(u)' = Carried(u)
      /\ \A u \in Tabs : Carried(u) \subseteq Tokens
      /\ jar.refresh # 0 => jar.refresh \in Tokens
      BY <1>3, SuccessorTyped DEF Carried
<1>6. jar.refresh # n
      BY <1>1, SessionAssumption DEF ReuseInv, JarIssued, Tokens
<1>7. CarriedFresh'
  <2> SUFFICES ASSUME NEW u \in Tabs
               PROVE  /\ tab'[u].refresh.token # 0 => tab'[u].refresh.token # tab'[u].entering.token
                      /\ \A m \in Carried(u)' : /\ token'[m].state # "unissued" /\ token'[m].of = u
                                                /\ token'[m].by # "refresh" /\ m # jar'.refresh
      BY DEF CarriedFresh
  <2>1. tab'[u].refresh.token # 0 => tab'[u].refresh.token # tab'[u].entering.token
        BY <1>3 DEF ReuseInv, CarriedFresh
  <2>2. ASSUME NEW m \in Carried(u)
        PROVE  token'[m].state # "unissued" /\ token'[m].of = u /\ token'[m].by # "refresh" /\ m # jar'.refresh
    <3>1. /\ token[m].state # "unissued" /\ token[m].of = u /\ token[m].by # "refresh" /\ m # jar.refresh
          /\ m \in Tokens /\ m # n
          BY <1>5, <1>1 DEF ReuseInv, CarriedFresh
    <3>2. /\ token'[m].state = "unissued" <=> token[m].state = "unissued"
          /\ token'[m].of = token[m].of /\ token'[m].by = token[m].by
          BY <3>1, <1>2
    <3> QED
        BY <1>1, <3>1, <3>2
  <2>3. u = t => token'[n].state # "unissued" /\ token'[n].of = u /\ token'[n].by # "refresh" /\ n # jar'.refresh
        BY <1>6, <1>1
  <2>4. Carried(u)' \subseteq Carried(u) \/ (u = t /\ Carried(u)' \subseteq Carried(u) \cup {n})
        BY <1>5, <1>3
  <2> QED
      BY <2>1, <2>2, <2>3, <2>4
<1>8. JarIssued' /\ UnissuedUnused'
  <2>1. JarIssued'
        BY <1>5, <1>6, <1>1, <1>2 DEF ReuseInv, JarIssued
  <2>2. ASSUME NEW m \in Tokens, token'[m].state = "unissued" PROVE token'[m].by # "refresh"
    <3>1. m # n /\ token[m].state = "unissued"
          BY <2>2, <1>1, <1>2
    <3>2. m # jar.refresh
          BY <3>1, SessionAssumption DEF ReuseInv, JarIssued, Tokens
    <3>3. token[m].by # "refresh"
          BY <3>1 DEF ReuseInv, UnissuedUnused
    <3> QED
        BY <3>1, <3>2, <3>3, <1>2
  <2> QED
      BY <2>1, <2>2 DEF UnissuedUnused
<1>9. SuccessorAwaited'
  <2>1. CASE jar.refresh # 0 /\ token'[jar.refresh].next = n /\ tab'[t].refresh = [kind |-> "ok", token |-> n]
        BY <2>1, <1>1 DEF SuccessorAwaited
  <2>2. CASE (jar.refresh # 0 => token'[jar.refresh] = token[jar.refresh]) /\ tab'[t].refresh = tab[t].refresh
    <3> DEFINE k == jar.refresh
               s == token[k].next
    <3> SUFFICES ASSUME k # 0, token'[k].by = "refresh"
                 PROVE  \/ token'[token'[k].next].lost
                        \/ \E u \in Tabs : /\ token'[token'[k].next].of = u
                                           /\ tab'[u].refresh = [kind |-> "ok", token |-> token'[k].next]
        BY <1>1 DEF SuccessorAwaited
    <3>1. k \in Tokens \ {n} /\ token[k].by = "refresh" /\ token'[k].next = s
          BY <1>5, <1>6, <2>2
    <3>2. s \in Tokens /\ s # 0
          BY <3>1, SuccessorTyped, SessionAssumption DEF Tokens
    <3>3. token[s].lost \/ \E u \in Tabs : token[s].of = u /\ tab[u].refresh = [kind |-> "ok", token |-> s]
          BY <3>1 DEF ReuseInv, SuccessorAwaited
    <3> HIDE DEF s
    <3>4. token'[s].lost = token[s].lost
          BY <3>2, <1>4
    <3>5. ASSUME NEW u \in Tabs, token[s].of = u, tab[u].refresh = [kind |-> "ok", token |-> s]
          PROVE  token'[s].of = u /\ tab'[u].refresh = [kind |-> "ok", token |-> s]
      <4>1. s \in Carried(u)
            BY <3>2, <3>5 DEF Carried
      <4>2. s # n
            BY <4>1, <1>1 DEF ReuseInv, CarriedFresh
      <4>3. token'[s].of = u
            BY <3>2, <3>5, <4>2, <1>2
      <4>4. tab'[u].refresh = tab[u].refresh
            BY <2>2, <1>3
      <4> QED
          BY <3>5, <4>3, <4>4
    <3> QED
        BY <3>1, <3>3, <3>4, <3>5
  <2> QED
      BY <2>1, <2>2 DEF Issued
<1> QED
    BY <1>7, <1>8, <1>9 DEF ReuseInv

LEMMA ReloadKeepsReuse ==
  ASSUME SessionInv, ReuseInv, NEW t \in Tabs, Reload(t),
         jar' \in {jar, [access |-> FALSE, refresh |-> 0]}
  PROVE  ReuseInv'
<1>0. tab \in [Tabs -> TabStates] /\ token \in TokenTables /\ 0 \in 0..MaxToken
      BY SessionAssumption DEF SessionInv
<1>1. \A n \in Tokens : Aged(token[n], token'[n])
  <2> SUFFICES ASSUME NEW n \in Tokens PROVE Aged(token[n], token'[n])
      OBVIOUS
  <2>1. token'[n] = token[n] \/ token'[n] = [token[n] EXCEPT !.lost = TRUE]
        BY DEF Reload
  <2> QED
      BY <1>0, <2>1, AgesWell DEF Endings
<1>2. \A u \in Tabs :
        /\ tab'[u].refresh.token \in {tab[u].refresh.token, 0}
        /\ tab'[u].entering.token \in {tab[u].entering.token, 0}
        /\ \/ tab'[u].refresh = tab[u].refresh
           \/ tab[u].refresh.token = 0
           \/ token'[tab[u].refresh.token].lost
  <2>1. tab' = [tab EXCEPT ![t] = Loading] /\ Loading.refresh.token = 0 /\ Loading.entering.token = 0
        BY DEF Reload, Loading, Nothing
  <2>2. tab[t].refresh.token = 0 \/ token'[tab[t].refresh.token].lost
    <3>1. tab[t].refresh.token # 0 => tab[t].refresh.token \in Tokens
          BY SuccessorTyped DEF Carried
    <3>2. tab[t].refresh.token \in Tokens => token[tab[t].refresh.token] \in TokenStates
          BY <1>0 DEF TokenTables
    <3> QED
        BY <3>1, <3>2 DEF Reload, TokenStates
  <2> QED
      BY <1>0, <2>1, <2>2
<1>3. jar'.refresh \in {jar.refresh, 0}
      OBVIOUS
<1> QED
    BY <1>1, <1>2, <1>3, AgingStep

LEMMA LeavingKeepsReuse ==
  ASSUME SessionInv, ReuseInv, NEW t \in Tabs, NEW calls, LogoutAtServer(t, calls)
  PROVE  ReuseInv'
<1>0. tab \in [Tabs -> TabStates] /\ token \in TokenTables /\ 0 \in 0..MaxToken /\ "logout" \in Endings
      BY SessionAssumption DEF SessionInv, Endings
<1>1. \A n \in Tokens : Aged(token[n], token'[n])
  <2> SUFFICES ASSUME NEW n \in Tokens PROVE Aged(token[n], token'[n])
      OBVIOUS
  <2>1. CASE token' = token
        BY <1>0, <2>1, AgesWell
  <2>2. CASE jar.refresh # 0 /\ token' = Revoke(token, jar.refresh, "logout", 0)
    <3>1. jar.refresh \in Tokens
          BY <2>2, SuccessorTyped
    <3> QED
        BY <1>0, <2>2, <3>1, AgesWell
  <2> QED
      BY <2>1, <2>2 DEF LogoutAtServer
<1>2. \A u \in Tabs : /\ tab'[u].refresh = tab[u].refresh
                      /\ tab'[u].entering.token \in {tab[u].entering.token, 0}
      BY <1>0 DEF LogoutAtServer, Nothing, TabStates
<1>3. jar' = jar
      BY DEF LogoutAtServer
<1> QED
    BY <1>1, <1>2, <1>3, AgingStep

\* A refresh, and the uses of a revoked token.
LEMMA RefreshKeepsReuse ==
  ASSUME SessionInv, ReuseInv, NoReuseAlone, NEW t \in Tabs, Unauthorized(t)
  PROVE  ReuseInv' /\ NoReuseAlone'
<1>0. /\ tab \in [Tabs -> TabStates] /\ token \in TokenTables /\ token \in [Tokens -> TokenStates]
      /\ 0 \in 0..MaxToken /\ UNCHANGED jar
      BY SessionAssumption DEF SessionInv, Unauthorized, TokenTables
<1>1. ASSUME NEW answer, Wait(t, answer)
      PROVE  /\ \A u \in Tabs : tab'[u].entering = tab[u].entering
             /\ \A u \in Tabs \ {t} : tab'[u].refresh = tab[u].refresh
             /\ tab'[t].refresh = answer
      BY <1>0, <1>1 DEF Wait, TabStates
<1>2. CASE tab[t].refresh # Nothing
  <2>1. Wait(t, tab[t].refresh) /\ UNCHANGED <<token, reused>>
        BY <1>2 DEF Unauthorized, refreshOnce
  <2>2. \A n \in Tokens : Aged(token[n], token'[n])
        BY <1>0, <2>1, AgesWell DEF Endings
  <2>3. \A u \in Tabs : tab'[u].entering = tab[u].entering /\ tab'[u].refresh = tab[u].refresh
        BY <1>1, <2>1
  <2>4. ReuseInv'
        BY <1>0, <2>2, <2>3, AgingStep
  <2> QED
      BY <2>1, <2>4 DEF NoReuseAlone
<1>3. CASE tab[t].refresh = Nothing
  <2>1. PICK answer \in [kind : {"ok", "clear", "refused"}, token : 0..MaxToken] :
          RefreshAtServer(t, jar.refresh, answer) /\ Wait(t, answer)
        BY <1>3 DEF Unauthorized, refreshOnce, SendRefresh
  <2>2. tab[t].refresh.token = 0
        BY <1>3 DEF Nothing
  <2> DEFINE k == jar.refresh
  <2>3. CASE /\ k # 0 /\ token[k].state = "valid" /\ Unissued # {}
             /\ token' = Issue(Revoke(token, k, "refresh", NextToken), NextToken, t)
             /\ answer = [kind |-> "ok", token |-> NextToken]
             /\ UNCHANGED reused
    <3> DEFINE n == NextToken
    <3>1. n \in Tokens /\ token[n].state = "unissued" /\ k \in Tokens
          BY <2>3, NextTokenFresh, SuccessorTyped DEF Unissued
    <3> HIDE DEF n
    <3>2. k # n
          BY <2>3, <3>1
    <3>3. token' = Issue(Revoke(token, k, "refresh", n), n, t) /\ answer = [kind |-> "ok", token |-> n]
          BY <2>3 DEF n
    <3>4. /\ token'[n] = [token[n] EXCEPT !.state = "valid", !.of = t]
          /\ token'[k] = [token[k] EXCEPT !.state = "revoked", !.by = "refresh", !.next = n]
          /\ \A m \in Tokens \ {n, k} : token'[m] = token[m]
          BY <1>0, <2>3, <3>1, <3>2, <3>3 DEF Issue, Revoke
    <3>5. /\ token[n] \in TokenStates /\ token[k] \in TokenStates
          /\ token[n].by # "refresh"
          BY <1>0, <3>1 DEF ReuseInv, UnissuedUnused
    <3>6. /\ token'[n].state = "valid" /\ token'[n].of = t /\ token'[n].by # "refresh" /\ token'[n].lost = token[n].lost
          /\ token'[k].state = "revoked" /\ token'[k].next = n
          /\ token'[k].of = token[k].of /\ token'[k].lost = token[k].lost
          BY <3>4, <3>5 DEF TokenStates
    <3>7. /\ \A m \in Tokens \ {n} : /\ token'[m].state = "unissued" <=> token[m].state = "unissued"
                                     /\ token'[m].of = token[m].of
                                     /\ m # k => token'[m].by = token[m].by
          /\ \A m \in Tokens : token'[m].lost = token[m].lost
      <4>1. ASSUME NEW m \in Tokens \ {n, k} PROVE token'[m] = token[m]
            BY <3>4
      <4>2. ASSUME NEW m \in Tokens \ {n}
            PROVE  /\ token'[m].state = "unissued" <=> token[m].state = "unissued"
                   /\ token'[m].of = token[m].of
                   /\ m # k => token'[m].by = token[m].by
        <5>1. CASE m = k
              BY <2>3, <3>6, <5>1
        <5>2. CASE m # k
              BY <4>1, <5>2
        <5> QED
            BY <5>1, <5>2
      <4>3. ASSUME NEW m \in Tokens PROVE token'[m].lost = token[m].lost
            BY <3>6, <4>1
      <4> QED
          BY <4>2, <4>3
    <3>8. /\ \A u \in Tabs \ {t} : tab'[u].refresh = tab[u].refresh /\ tab'[u].entering = tab[u].entering
          /\ tab'[t].entering = tab[t].entering /\ tab'[t].refresh = [kind |-> "ok", token |-> n]
          BY <1>1, <2>1, <3>3
    <3>9. Carried(t)' \subseteq Carried(t) \cup {n}
          BY <3>8 DEF Carried
    <3>10. tab'[t].refresh.token # 0 => tab'[t].refresh.token # tab'[t].entering.token
      <4>1. n # 0 /\ (n = tab[t].entering.token => n \in Carried(t))
            BY <3>1, SessionAssumption DEF Carried, Tokens
      <4>2. n \notin Carried(t)
            BY <3>1 DEF ReuseInv, CarriedFresh
      <4> QED
          BY <3>8, <4>1, <4>2
    <3>11. ReuseInv'
      <4>1. k # 0 /\ jar'.refresh = k
            BY <1>0, <2>3
      <4>2. Issued(t, n)
            BY <3>1, <3>6, <3>7, <3>8, <3>9, <3>10, <4>1 DEF Issued
      <4> QED
          BY <3>1, <4>2, IssueStep
    <3> QED
        BY <2>3, <3>11 DEF NoReuseAlone
  <2>4. CASE /\ k # 0 /\ token[k].state = "revoked"
             /\ token' = RevokeAll("reuse")
             /\ answer = [kind |-> "clear", token |-> 0]
             /\ reused' = IF token[k].by # "refresh" THEN NotReused
                          ELSE [refreshed |-> TRUE, other |-> token[token[k].next].of # t,
                                lost |-> token[token[k].next].lost]
    <3>1. \A n \in Tokens : Aged(token[n], token'[n])
          BY <1>0, <2>4, AgesWell DEF Endings
    <3>2. \A u \in Tabs : /\ tab'[u].entering = tab[u].entering
                          /\ tab'[u].refresh.token \in {tab[u].refresh.token, 0}
                          /\ tab'[u].refresh = tab[u].refresh \/ tab[u].refresh.token = 0
          BY <1>1, <2>1, <2>2, <2>4
    <3>3. ReuseInv'
          BY <1>0, <3>1, <3>2, AgingStep
    <3>4. NoReuseAlone'
      <4>1. CASE token[k].by # "refresh"
            BY <2>4, <4>1 DEF NoReuseAlone, NotReused
      <4>2. CASE token[k].by = "refresh"
        <5>1. token[token[k].next].lost \/ token[token[k].next].of # t
              BY <1>3, <2>4, <4>2 DEF ReuseInv, SuccessorAwaited, Nothing
        <5>2. reused' = [refreshed |-> TRUE, other |-> token[token[k].next].of # t, lost |-> token[token[k].next].lost]
              BY <2>4, <4>2
        <5> QED
            BY <5>1, <5>2 DEF NoReuseAlone
      <4> QED
          BY <4>1, <4>2
    <3> QED
        BY <3>3, <3>4
  <2>5. CASE /\ token' = token \/ (k # 0 /\ token' = Revoke(token, k, "failed", 0))
             /\ answer.token = 0 /\ UNCHANGED reused
    <3>1. \A n \in Tokens : Aged(token[n], token'[n])
      <4>1. (k # 0 => k \in Tokens) /\ "failed" \in Endings
            BY SuccessorTyped DEF Endings
      <4> QED
          BY <1>0, <2>5, <4>1, AgesWell
    <3>2. \A u \in Tabs : /\ tab'[u].entering = tab[u].entering
                          /\ tab'[u].refresh.token \in {tab[u].refresh.token, 0}
                          /\ tab'[u].refresh = tab[u].refresh \/ tab[u].refresh.token = 0
          BY <1>1, <2>1, <2>2, <2>5
    <3>3. ReuseInv'
          BY <1>0, <3>1, <3>2, AgingStep
    <3> QED
        BY <2>5, <3>3 DEF NoReuseAlone
  <2>6. \/ answer.token = 0 /\ UNCHANGED <<token, reused>>
        \/ k # 0 /\ answer.token = 0 /\ token' \in {token, Revoke(token, k, "failed", 0)} /\ UNCHANGED reused
        \/ /\ k # 0 /\ token[k].state = "valid" /\ Unissued # {}
           /\ token' = Issue(Revoke(token, k, "refresh", NextToken), NextToken, t)
           /\ answer = [kind |-> "ok", token |-> NextToken]
           /\ UNCHANGED reused
        \/ /\ k # 0 /\ token[k].state = "revoked"
           /\ token' = RevokeAll("reuse")
           /\ answer = [kind |-> "clear", token |-> 0]
           /\ reused' = IF token[k].by # "refresh" THEN NotReused
                        ELSE [refreshed |-> TRUE, other |-> token[token[k].next].of # t,
                              lost |-> token[token[k].next].lost]
        BY <2>1 DEF RefreshAtServer
  <2> QED
      BY <2>3, <2>4, <2>5, <2>6
<1> QED
    BY <1>2, <1>3

LEMMA LoginKeepsReuse ==
  ASSUME SessionInv, ReuseInv, NEW t \in Tabs, Login(t)
  PROVE  ReuseInv'
<1> DEFINE n == NextToken
<1>0. tab \in [Tabs -> TabStates] /\ token \in [Tokens -> TokenStates]
      BY DEF SessionInv, TokenTables
<1>1. n \in Tokens /\ token[n].state = "unissued" /\ token[n].by # "refresh" /\ token[n] \in TokenStates
      BY <1>0, NextTokenFresh DEF Login, Unissued, ReuseInv, UnissuedUnused
<1>2. /\ UNCHANGED jar /\ token' = Issue(token, n, t)
      /\ tab' = [tab EXCEPT ![t].entering = [kind |-> "login", token |-> n]]
      BY DEF Login
<1> HIDE DEF n
<1>3. token'[n] = [token[n] EXCEPT !.state = "valid", !.of = t] /\ \A m \in Tokens \ {n} : token'[m] = token[m]
      BY <1>0, <1>1, <1>2 DEF Issue
<1>4. token'[n].state = "valid" /\ token'[n].of = t /\ token'[n].by # "refresh"
      BY <1>1, <1>3 DEF TokenStates
<1>5. \A m \in Tokens : token'[m].lost = token[m].lost
      BY <1>1, <1>3 DEF TokenStates
<1>6. /\ \A u \in Tabs : tab'[u].refresh = tab[u].refresh
      /\ \A u \in Tabs \ {t} : tab'[u].entering = tab[u].entering
      /\ tab'[t].entering.token = n
      BY <1>0, <1>2 DEF TabStates
<1>7. Carried(t)' \subseteq Carried(t) \cup {n}
      BY <1>6 DEF Carried
<1>8. tab'[t].refresh.token # 0 => tab'[t].refresh.token # tab'[t].entering.token
  <2>1. n \notin Carried(t)
        BY <1>1 DEF ReuseInv, CarriedFresh
  <2> QED
      BY <1>6, <2>1 DEF Carried
<1>9. jar.refresh # 0 => token'[jar.refresh] = token[jar.refresh]
  <2>1. jar.refresh # 0 => jar.refresh \in Tokens /\ jar.refresh # n
        BY <1>1, SuccessorTyped DEF ReuseInv, JarIssued
  <2> QED
      BY <1>3, <2>1
<1>10. \A m \in Tokens \ {n} : /\ token'[m].state = "unissued" <=> token[m].state = "unissued"
                               /\ token'[m].of = token[m].of
                               /\ m # jar.refresh => token'[m].by = token[m].by
       BY <1>3
<1>11. jar'.refresh = jar.refresh /\ tab'[t].refresh = tab[t].refresh
       BY <1>2, <1>6
<1>12. \A u \in Tabs \ {t} : tab'[u].refresh = tab[u].refresh /\ tab'[u].entering = tab[u].entering
       BY <1>6
<1>13. Issued(t, n)
       BY <1>1, <1>4, <1>5, <1>7, <1>8, <1>9, <1>10, <1>11, <1>12 DEF Issued
<1> QED
    BY <1>1, <1>13, IssueStep

LEMMA SessionStepKeepsReuse ==
  SessionInv /\ ReuseInv /\ NoReuseAlone /\ [SessionNext]_sessionVars => ReuseInv' /\ NoReuseAlone'
<1> SUFFICES ASSUME SessionInv, ReuseInv, NoReuseAlone, [SessionNext]_sessionVars PROVE ReuseInv' /\ NoReuseAlone'
    OBVIOUS
<1>0. /\ tab \in [Tabs -> TabStates] /\ token \in TokenTables /\ 0 \in 0..MaxToken
      /\ jar \in [access : BOOLEAN, refresh : 0..MaxToken]
      BY SessionAssumption DEF SessionInv
<1>1. UNCHANGED reused => NoReuseAlone'
      BY DEF NoReuseAlone
<1>2. UNCHANGED token => \A n \in Tokens : Aged(token[n], token'[n])
      BY <1>0, AgesWell DEF Endings
<1>3. CASE AccessExpires \/ UNCHANGED sessionVars
  <2>1. jar'.refresh = jar.refresh /\ UNCHANGED <<token, tab, reused>>
        BY <1>0, <1>3 DEF AccessExpires, sessionVars
  <2> QED
      BY <1>1, <1>2, <2>1, AgingStep
<1>4. ASSUME NEW t \in Tabs, UserReloads(t) \/ ConnectionLost(t) \/ NotRefreshed(t) PROVE ReuseInv' /\ NoReuseAlone'
  <2>1. Reload(t) /\ jar' \in {jar, [access |-> FALSE, refresh |-> 0]} /\ UNCHANGED reused
        BY <1>4 DEF UserReloads, ConnectionLost, NotRefreshed
  <2> QED
      BY <1>1, <2>1, ReloadKeepsReuse
<1>5. ASSUME NEW t \in Tabs, Load(t) \/ Call(t) \/ CallDone(t) PROVE ReuseInv' /\ NoReuseAlone'
  <2>1. UNCHANGED <<jar, token, reused>>
        BY <1>5 DEF Load, Call, CallDone
  <2>2. \A u \in Tabs : tab'[u].refresh = tab[u].refresh /\ tab'[u].entering = tab[u].entering
    <3>1. \/ \E page : tab' = [tab EXCEPT ![t].page = page]
          \/ \E calls : tab' = [tab EXCEPT ![t].calls = calls]
          BY <1>5 DEF Load, Call, CallDone
    <3> QED
        BY <1>0, <3>1 DEF TabStates
  <2> QED
      BY <1>1, <1>2, <2>1, <2>2, AgingStep
<1>6. ASSUME NEW t \in Tabs, Refreshed(t) PROVE ReuseInv' /\ NoReuseAlone'
  <2> DEFINE m == tab[t].refresh.token
  <2>1. m \in 0..MaxToken /\ jar'.refresh = m /\ UNCHANGED <<token, reused>>
        BY <1>0, <1>6 DEF Refreshed, TabStates, Answers
  <2>2. /\ \A u \in Tabs : tab'[u].entering = tab[u].entering
        /\ \A u \in Tabs \ {t} : tab'[u].refresh = tab[u].refresh
        /\ tab'[t].refresh.token = 0
        BY <1>0, <1>6 DEF Refreshed, Nothing, TabStates
  <2>3. m # 0 => m \notin Carried(t)'
        BY <2>2 DEF ReuseInv, CarriedFresh, Carried
  <2> QED
      BY <1>1, <2>1, <2>2, <2>3, ArrivalStep
<1>7. ASSUME NEW t \in Tabs, LoggedIn(t) PROVE ReuseInv' /\ NoReuseAlone'
  <2> DEFINE m == tab[t].entering.token
  <2>1. m \in 0..MaxToken /\ jar'.refresh = m /\ UNCHANGED <<token, reused>>
        BY <1>0, <1>7 DEF LoggedIn, TabStates, Entries
  <2>2. /\ \A u \in Tabs : tab'[u].refresh = tab[u].refresh
        /\ \A u \in Tabs \ {t} : tab'[u].entering = tab[u].entering
        /\ tab'[t].entering.token = 0
        BY <1>0, <1>7 DEF LoggedIn, Nothing, TabStates
  <2>3. m # 0 => m \notin Carried(t)'
        BY <2>2 DEF ReuseInv, CarriedFresh, Carried
  <2> QED
      BY <1>1, <2>1, <2>2, <2>3, ArrivalStep
<1>8. ASSUME NEW t \in Tabs, LoginFails(t) PROVE ReuseInv' /\ NoReuseAlone'
  <2>1. \A n \in Tokens : Aged(token[n], token'[n])
    <3>1. CASE token' = token
          BY <1>2, <3>1
    <3>2. CASE tab[t].entering.token # 0 /\ token' = [token EXCEPT ![tab[t].entering.token].lost = TRUE]
      <4>1. tab[t].entering.token \in Tokens
            BY <3>2, SuccessorTyped DEF Carried
      <4>2. "reuse" \in Endings
            BY DEF Endings
      <4> QED
          BY <1>0, <3>2, <4>1, <4>2, AgesWell
    <3> QED
        BY <1>8, <3>1, <3>2 DEF LoginFails, Lost
  <2>2. \A u \in Tabs : /\ tab'[u].refresh = tab[u].refresh
                        /\ tab'[u].entering.token \in {tab[u].entering.token, 0}
        BY <1>0, <1>8 DEF LoginFails, Nothing, TabStates
  <2>3. UNCHANGED <<jar, reused>>
        BY <1>8 DEF LoginFails
  <2> QED
      BY <1>1, <2>1, <2>2, <2>3, AgingStep
<1>9. ASSUME NEW t \in Tabs, Logout(t) \/ PasswordChanged(t) PROVE ReuseInv' /\ NoReuseAlone'
  <2>1. PICK calls : LogoutAtServer(t, calls)
        BY <1>9 DEF Logout, PasswordChanged
  <2>2. UNCHANGED reused
        BY <2>1 DEF LogoutAtServer
  <2> QED
      BY <1>1, <2>1, <2>2, LeavingKeepsReuse
<1>10. ASSUME NEW t \in Tabs, LoggedOut(t) PROVE ReuseInv' /\ NoReuseAlone'
  <2>1. jar'.refresh \in {jar.refresh, 0} /\ UNCHANGED <<token, reused>>
        BY <1>10 DEF LoggedOut, Clears
  <2>2. \A u \in Tabs : tab'[u].refresh = tab[u].refresh /\ tab'[u].entering = tab[u].entering
        BY <1>0, <1>10 DEF LoggedOut, TabStates
  <2> QED
      BY <1>1, <1>2, <2>1, <2>2, AgingStep
<1>11. ASSUME NEW t \in Tabs, ChangePassword(t) PROVE ReuseInv' /\ NoReuseAlone'
  <2>1. UNCHANGED <<jar, reused>> /\ token' = RevokeAll("password")
        BY <1>11 DEF ChangePassword
  <2>2. \A n \in Tokens : Aged(token[n], token'[n])
        BY <1>0, <2>1, AgesWell DEF Endings
  <2>3. \A u \in Tabs : /\ tab'[u].refresh = tab[u].refresh
                        /\ tab'[u].entering.token \in {tab[u].entering.token, 0}
        BY <1>0, <1>11 DEF ChangePassword, TabStates
  <2> QED
      BY <1>1, <2>1, <2>2, <2>3, AgingStep
<1>12. ASSUME NEW t \in Tabs, Login(t) PROVE ReuseInv' /\ NoReuseAlone'
  <2>1. UNCHANGED reused
        BY <1>12 DEF Login
  <2> QED
      BY <1>1, <1>12, <2>1, LoginKeepsReuse
<1>13. ASSUME NEW t \in Tabs, Unauthorized(t) PROVE ReuseInv' /\ NoReuseAlone'
       BY <1>13, RefreshKeepsReuse
<1> QED
    BY <1>3, <1>4, <1>5, <1>6, <1>7, <1>8, <1>9, <1>10, <1>11, <1>12, <1>13 DEF SessionNext

\* A tab alone never makes the server see a refresh token twice, for any number
\* of tabs and of calls in flight: a token that a refresh has exchanged is used
\* again only when another tab refreshed it or its successor was lost.
THEOREM SessionNoReuseAlone == SessionSpec => []NoReuseAlone
<1>1. SessionInit => ReuseInv /\ NoReuseAlone
  <2> SUFFICES ASSUME SessionInit PROVE ReuseInv /\ NoReuseAlone
      OBVIOUS
  <2>1. /\ jar.refresh = 0 /\ ~reused.refreshed
        /\ \A t \in Tabs : tab[t].refresh.token = 0 /\ tab[t].entering.token = 0
        /\ \A n \in Tokens : token[n].by = ""
        BY DEF SessionInit, Loading, Nothing, NoToken, NotReused
  <2> QED
      BY <2>1 DEF ReuseInv, CarriedFresh, Carried, JarIssued, UnissuedUnused, SuccessorAwaited, NoReuseAlone
<1> QED
    BY <1>1, SessionInitTyped, SessionStepTyped, SessionStepKeepsReuse, PTL DEF SessionSpec

---------------------------------------------------------------------------
(* Workspace: the requests in flight as a sequence. *)

\* A function on 1..n is a sequence.
LEMMA NumberedIsSeq ==
  ASSUME NEW S, NEW n \in Nat, NEW f \in [1..n -> S]
  PROVE  f \in Seq(S) /\ Len(f) = n
OBVIOUS

\* Where the j-th entry was before the i-th was removed.
Skip(i, j) == IF j < i THEN j ELSE j + 1

\* RemoveAt leaves the other entries, in their order.
LEMMA RemoveAtSkips ==
  ASSUME NEW S, NEW s \in Seq(S), NEW i \in DOMAIN s
  PROVE  /\ RemoveAt(s, i) \in Seq(S)
         /\ DOMAIN RemoveAt(s, i) = 1..(Len(s) - 1)
         /\ \A j \in DOMAIN RemoveAt(s, i) : Skip(i, j) \in DOMAIN s \ {i} /\ RemoveAt(s, i)[j] = s[Skip(i, j)]
<1> DEFINE before == SubSeq(s, 1, i - 1)
           after == SubSeq(s, i + 1, Len(s))
<1>1. Len(s) \in Nat /\ DOMAIN s = 1..Len(s)
  BY LenProperties
<1>2. \A j \in 1..Len(s) : s[j] \in S
  BY ElementOfSeq
<1>3. i \in Int /\ 1 <= i /\ i <= Len(s)
  BY <1>1
<1>4. /\ before \in Seq(S) /\ Len(before) = i - 1
      /\ \A j \in 1..(i - 1) : before[j] = s[j]
  <2>1. \A j \in 1..(i - 1) : s[j] \in S
    BY <1>1, <1>2, <1>3
  <2>2. 1 \in Int /\ i - 1 \in Int
    BY <1>3
  <2>3. /\ before \in Seq(S) /\ Len(before) = IF 1 <= i - 1 THEN i - 1 - 1 + 1 ELSE 0
        /\ \A j \in 1..(i - 1 - 1 + 1) : before[j] = s[1 + j - 1]
    BY <2>1, <2>2, SubSeqProperties
  <2> HIDE DEF before
  <2> QED BY <1>3, <2>3
<1>5. /\ after \in Seq(S) /\ Len(after) = Len(s) - i
      /\ \A j \in 1..(Len(s) - i) : after[j] = s[i + j]
  <2>1. \A j \in (i + 1)..Len(s) : s[j] \in S
    BY <1>1, <1>2, <1>3
  <2>2. i + 1 \in Int /\ Len(s) \in Int
    BY <1>1, <1>3
  <2>3. /\ after \in Seq(S) /\ Len(after) = IF i + 1 <= Len(s) THEN Len(s) - (i + 1) + 1 ELSE 0
        /\ \A j \in 1..(Len(s) - (i + 1) + 1) : after[j] = s[i + 1 + j - 1]
    BY <2>1, <2>2, SubSeqProperties
  <2> HIDE DEF after
  <2>4. \A j \in 1..(Len(s) - i) : j \in 1..(Len(s) - (i + 1) + 1) /\ i + 1 + j - 1 = i + j
    BY <1>1, <1>3
  <2> QED BY <1>1, <1>3, <2>3, <2>4
<1>6. RemoveAt(s, i) = before \o after
  BY DEF RemoveAt
<1> HIDE DEF before, after
<1>7. /\ before \o after \in Seq(S) /\ Len(before \o after) = Len(before) + Len(after)
      /\ \A j \in 1..(Len(before) + Len(after)) :
           (before \o after)[j] = IF j <= Len(before) THEN before[j] ELSE after[j - Len(before)]
  BY <1>4, <1>5, ConcatProperties
<1>8. Len(before) + Len(after) = Len(s) - 1
  BY <1>1, <1>3, <1>4, <1>5
<1>9. DOMAIN (before \o after) = 1..(Len(s) - 1)
  BY <1>7, <1>8, LenProperties
<1>10. ASSUME NEW j \in 1..(Len(s) - 1)
       PROVE  Skip(i, j) \in 1..Len(s) /\ Skip(i, j) # i /\ (before \o after)[j] = s[Skip(i, j)]
  <2>1. j \in Int /\ 1 <= j /\ j <= Len(s) - 1
    BY <1>1
  <2>2. (before \o after)[j] = IF j <= i - 1 THEN before[j] ELSE after[j - (i - 1)]
    BY <1>4, <1>7, <1>8
  <2>3. CASE j < i
    <3>1. Skip(i, j) = j /\ j <= i - 1 /\ j \in 1..(i - 1)
      BY <1>3, <2>1, <2>3 DEF Skip
    <3> QED BY <1>1, <1>4, <2>1, <2>2, <2>3, <3>1
  <2>4. CASE ~(j < i)
    <3>1. Skip(i, j) = j + 1 /\ ~(j <= i - 1) /\ j - (i - 1) \in 1..(Len(s) - i) /\ i + (j - (i - 1)) = j + 1
      BY <1>1, <1>3, <2>1, <2>4 DEF Skip
    <3>2. after[j - (i - 1)] = s[j + 1]
      BY <1>5, <3>1
    <3> QED BY <1>1, <1>3, <2>1, <2>2, <2>4, <3>1, <3>2
  <2> QED BY <2>3, <2>4
<1> QED BY <1>1, <1>6, <1>7, <1>9, <1>10

\* No entry twice, and none but the one removed is missing.
LEMMA RemoveAtKeeps ==
  ASSUME NEW S, NEW s \in Seq(S), NEW i \in DOMAIN s
  PROVE  /\ \A j, k \in DOMAIN RemoveAt(s, i) : Skip(i, j) = Skip(i, k) => j = k
         /\ \A k \in DOMAIN s \ {i} : \E j \in DOMAIN RemoveAt(s, i) : RemoveAt(s, i)[j] = s[k]
<1>1. Len(s) \in Nat /\ DOMAIN s = 1..Len(s)
  BY LenProperties
<1>2. i \in Int /\ 1 <= i /\ i <= Len(s)
  BY <1>1
<1>3. DOMAIN RemoveAt(s, i) = 1..(Len(s) - 1)
  BY RemoveAtSkips
<1>4. \A j, k \in 1..(Len(s) - 1) : Skip(i, j) = Skip(i, k) => j = k
  BY <1>1, <1>2 DEF Skip
<1>5. ASSUME NEW k \in 1..Len(s), k # i PROVE \E j \in 1..(Len(s) - 1) : RemoveAt(s, i)[j] = s[k]
  <2>1. k \in Int /\ 1 <= k /\ k <= Len(s)
    BY <1>1
  <2>2. CASE k < i
    <3>1. k \in 1..(Len(s) - 1) /\ Skip(i, k) = k
      BY <1>1, <1>2, <2>1, <2>2 DEF Skip
    <3> QED BY <1>3, <3>1, RemoveAtSkips
  <2>3. CASE ~(k < i)
    <3> DEFINE h == k - 1
    <3>1. h \in 1..(Len(s) - 1) /\ Skip(i, h) = k
      BY <1>1, <1>2, <1>5, <2>1, <2>3 DEF Skip
    <3> HIDE DEF h
    <3>2. \A j \in DOMAIN RemoveAt(s, i) : RemoveAt(s, i)[j] = s[Skip(i, j)]
      BY RemoveAtSkips
    <3>3. RemoveAt(s, i)[h] = s[k]
      BY <1>3, <3>1, <3>2
    <3> QED BY <3>1, <3>3
  <2> QED BY <2>2, <2>3
<1> QED BY <1>1, <1>3, <1>4, <1>5

---------------------------------------------------------------------------
(* What the table of Views promises. *)

Guarded(n) == n \notin Unguarded
\* The mutations and the flags that a button or a key of the view does not look at,
\* or forgets.
UnguardedUses ==
  {<<"table", "deleteRow">>, <<"table", "updateRow">>, <<"documents", "deleteRow">>, <<"users", "dropUser">>,
   <<"users", "savingPassword">>, <<"databases", "createDb">>, <<"databases", "backupingDb">>,
   <<"databases", "restoringDb">>, <<"security", "addIP">>, <<"import", "importing">>,
   <<"aggregate", "aggregate">>, <<"query", "execute">>, <<"tables", "dropTable">>, <<"tables", "truncateTable">>}

\* The dialog is closed by the callback of mutate(): its own button, which is the
\* only one in reach, looks at its mutation, and no flag is cleared with another's.
ClosesLocally(n) ==
  /\ Ops[n].closes = "local"
  /\ Ops[n].uses \in Ops[n].blockedBy /\ Ops[n].uses \notin Flags
  /\ ~Ops[n].perItem /\ ~Ops[n].bulk

\* What the table says of one operation: it is guarded with all that shares what
\* it uses, its button looks at that, its dialog is closed, and its answer
\* invalidates what it changes on screen but for the listed omissions.
OpSound(n) ==
  /\ Guarded(n) <=> <<Ops[n].view, Ops[n].uses>> \notin UnguardedUses
  /\ Guarded(n) => Ops[n].uses \in Ops[n].blockedBy /\ ~Ops[n].perItem /\ ~Ops[n].bulk
  /\ Ops[n].via # "button" => Ops[n].closes = "hook" \/ ClosesLocally(n)
  /\ \A dbType \in Ops[n].on :
       Changes(dbType, Ops[n].request) \cap Shows(dbType, Ops[n].view)
         \subseteq Matches(Ops[n].hook) \cup Matches(Ops[n].local) \cup NotInvalidated[n]

\* What the requests of the table change.
LEMMA ChangesOf ==
  ASSUME NEW dbType
  PROVE
  /\ \A request \in RowRequests : Changes(dbType, request) = RowData \cup OnMongo(dbType, {"columns"})
  /\ \A request \in TableRequests : Changes(dbType, request) = TableLists \cup OnMongo(dbType, {"databases"})
  /\ Changes(dbType, "mongoDuplicateCollection") = TableLists
  /\ Changes(dbType, "mongoRenameCollection") = TableLists \cup OfOneTable
  /\ Changes(dbType, "mongoConvertToCapped") = RowData \cup IndexQueries \cup {"columns"}
  /\ Changes(dbType, "alterColumn") = {"columns", "rows"}
  /\ \A request \in DatabaseRequests : Changes(dbType, request) = DatabasesQueries
  /\ \A request \in {"restoreDatabase", "executeQuery", "importSQL"} : Changes(dbType, request) = ServerData
  /\ \A request \in {"importJSON", "mongoRunAggregation"} :
       Changes(dbType, request) = RowData \cup TableLists \cup {"columns", "databases"}
  /\ \A request \in IndexRequests : Changes(dbType, request) = IndexQueries \cup Sizes
  /\ Changes(dbType, "mongoCompactCollection") = Sizes
  /\ Changes(dbType, "mongoSetValidation") = {"mongo-validation"}
  /\ Changes(dbType, "mongoSetProfilingLevel") = ProfilerQueries \cup {"tables"}
  /\ Changes(dbType, "mongoCreateCustomRole") = RoleQueries \cup {"tables"}
  /\ Changes(dbType, "mongoCreateUser") = UserQueries \cup {"tables"}
  /\ \A request \in RoleRequests : Changes(dbType, request) = RoleQueries
  /\ \A request \in UserRequests : Changes(dbType, request) = UserQueries
  /\ Changes(dbType, "mongoUploadGridFSFile") = GridFSQueries \cup {"tables", "databases"}
  /\ Changes(dbType, "mongoDeleteGridFSFile") = {"gridfs-files"}
  /\ Changes(dbType, "dropTrigger") = TriggerQueries
  /\ Changes(dbType, "dropRoutine") = RoutineQueries
  /\ Changes(dbType, "mongoKillOp") = {"mongo-currentop"}
  /\ \A request \in {"updateRole", "delete"} : Changes(dbType, request) = AccountQueries
  /\ \A request \in WhitelistRequests : Changes(dbType, request) = SecurityQueries
  /\ \A request \in {"backupDatabase", "changeDBUserPassword", "exportDatabase", "exportTable", "maintenanceTable"} :
       Changes(dbType, request) = {}
<1> USE DEF Changes, DatabaseRequests, IndexRequests, RoleRequests, RowRequests, TableRequests, UserRequests,
           WhitelistRequests
<1>1. \A request \in RowRequests : Changes(dbType, request) = RowData \cup OnMongo(dbType, {"columns"})
  OBVIOUS
<1>2. \A request \in TableRequests : Changes(dbType, request) = TableLists \cup OnMongo(dbType, {"databases"})
  OBVIOUS
<1>3. Changes(dbType, "mongoDuplicateCollection") = TableLists
  OBVIOUS
<1>4. Changes(dbType, "mongoRenameCollection") = TableLists \cup OfOneTable
  OBVIOUS
<1>5. Changes(dbType, "mongoConvertToCapped") = RowData \cup IndexQueries \cup {"columns"}
  OBVIOUS
<1>6. Changes(dbType, "alterColumn") = {"columns", "rows"}
  OBVIOUS
<1>7. \A request \in DatabaseRequests : Changes(dbType, request) = DatabasesQueries
  OBVIOUS
<1>8. \A request \in {"restoreDatabase", "executeQuery", "importSQL"} : Changes(dbType, request) = ServerData
  OBVIOUS
<1>9. \A request \in {"importJSON", "mongoRunAggregation"} :
         Changes(dbType, request) = RowData \cup TableLists \cup {"columns", "databases"}
  OBVIOUS
<1>10. \A request \in IndexRequests : Changes(dbType, request) = IndexQueries \cup Sizes
  OBVIOUS
<1>11. Changes(dbType, "mongoCompactCollection") = Sizes
  OBVIOUS
<1>12. Changes(dbType, "mongoSetValidation") = {"mongo-validation"}
  OBVIOUS
<1>13. Changes(dbType, "mongoSetProfilingLevel") = ProfilerQueries \cup {"tables"}
  OBVIOUS
<1>14. Changes(dbType, "mongoCreateCustomRole") = RoleQueries \cup {"tables"}
  OBVIOUS
<1>15. Changes(dbType, "mongoCreateUser") = UserQueries \cup {"tables"}
  OBVIOUS
<1>16. \A request \in RoleRequests : Changes(dbType, request) = RoleQueries
  OBVIOUS
<1>17. \A request \in UserRequests : Changes(dbType, request) = UserQueries
  OBVIOUS
<1>18. Changes(dbType, "mongoUploadGridFSFile") = GridFSQueries \cup {"tables", "databases"}
  OBVIOUS
<1>19. Changes(dbType, "mongoDeleteGridFSFile") = {"gridfs-files"}
  OBVIOUS
<1>20. Changes(dbType, "dropTrigger") = TriggerQueries
  OBVIOUS
<1>21. Changes(dbType, "dropRoutine") = RoutineQueries
  OBVIOUS
<1>22. Changes(dbType, "mongoKillOp") = {"mongo-currentop"}
  OBVIOUS
<1>23. \A request \in {"updateRole", "delete"} : Changes(dbType, request) = AccountQueries
  OBVIOUS
<1>24. \A request \in WhitelistRequests : Changes(dbType, request) = SecurityQueries
  OBVIOUS
<1>25. \A request \in {"backupDatabase", "changeDBUserPassword", "exportDatabase", "exportTable", "maintenanceTable"} :
         Changes(dbType, request) = {}
  OBVIOUS
<1> QED BY <1>1, <1>2, <1>3, <1>4, <1>5, <1>6, <1>7, <1>8, <1>9, <1>10, <1>11, <1>12, <1>13, <1>14, <1>15,
           <1>16, <1>17, <1>18, <1>19, <1>20, <1>21, <1>22, <1>23, <1>24, <1>25

\* What the views of the table show.
LEMMA ShowsOf ==
  ASSUME NEW dbType
  PROVE
  /\ ViewShows(dbType, "table") = TableQueries
  /\ ViewShows(dbType, "documents") = DocumentQueries
  /\ ViewShows(dbType, "structure") = StructureQueries(dbType)
  /\ ViewShows(dbType, "tables") = TablesQueries(dbType)
  /\ ViewShows(dbType, "databases") = DatabasesQueries
  /\ ViewShows(dbType, "indexes") = IndexQueries
  /\ ViewShows(dbType, "roles") = RoleQueries
  /\ ViewShows(dbType, "users") = UserQueries
  /\ ViewShows(dbType, "accounts") = AccountQueries
  /\ ViewShows(dbType, "security") = SecurityQueries
  /\ ViewShows(dbType, "views") = ViewQueries
  /\ ViewShows(dbType, "gridfs") = GridFSQueries
  /\ ViewShows(dbType, "profiler") = ProfilerQueries
  /\ ViewShows(dbType, "triggers") = TriggerQueries
  /\ ViewShows(dbType, "routines") = RoutineQueries
  /\ ViewShows(dbType, "status") = StatusQueries(dbType)
  /\ ViewShows(dbType, "aggregate") = {}
  /\ ViewShows(dbType, "import") = {}
  /\ ViewShows(dbType, "export") = {}
  /\ ViewShows(dbType, "query") = {}
BY DEF ViewShows

\* The table, entry by entry.
LEMMA OpsNamed ==
  /\ Ops["TableInsert"] = TableInsert /\ "TableInsert" \in DOMAIN Ops
  /\ Ops["TableUpdate"] = TableUpdate /\ "TableUpdate" \in DOMAIN Ops
  /\ Ops["TableDelete"] = TableDelete /\ "TableDelete" \in DOMAIN Ops
  /\ Ops["InlineSave"] = InlineSave /\ "InlineSave" \in DOMAIN Ops
  /\ Ops["DocInsert"] = DocInsert /\ "DocInsert" \in DOMAIN Ops
  /\ Ops["DocUpdate"] = DocUpdate /\ "DocUpdate" \in DOMAIN Ops
  /\ Ops["DocDelete"] = DocDelete /\ "DocDelete" \in DOMAIN Ops
  /\ Ops["BulkInsert"] = BulkInsert /\ "BulkInsert" \in DOMAIN Ops
  /\ Ops["BulkUpdate"] = BulkUpdate /\ "BulkUpdate" \in DOMAIN Ops
  /\ Ops["BulkDelete"] = BulkDelete /\ "BulkDelete" \in DOMAIN Ops
  /\ Ops["AlterColumn"] = AlterColumn /\ "AlterColumn" \in DOMAIN Ops
  /\ Ops["DropColumn"] = DropColumn /\ "DropColumn" \in DOMAIN Ops
  /\ Ops["Maintenance"] = Maintenance /\ "Maintenance" \in DOMAIN Ops
  /\ Ops["Compact"] = Compact /\ "Compact" \in DOMAIN Ops
  /\ Ops["RenameCollection"] = RenameCollection /\ "RenameCollection" \in DOMAIN Ops
  /\ Ops["DuplicateCollection"] = DuplicateCollection /\ "DuplicateCollection" \in DOMAIN Ops
  /\ Ops["ConvertToCapped"] = ConvertToCapped /\ "ConvertToCapped" \in DOMAIN Ops
  /\ Ops["SetValidation"] = SetValidation /\ "SetValidation" \in DOMAIN Ops
  /\ Ops["CreateTable"] = CreateTable /\ "CreateTable" \in DOMAIN Ops
  /\ Ops["DropTable"] = DropTable /\ "DropTable" \in DOMAIN Ops
  /\ Ops["TruncateTable"] = TruncateTable /\ "TruncateTable" \in DOMAIN Ops
  /\ Ops["CreateCapped"] = CreateCapped /\ "CreateCapped" \in DOMAIN Ops
  /\ Ops["CreateTimeSeries"] = CreateTimeSeries /\ "CreateTimeSeries" \in DOMAIN Ops
  /\ Ops["CreateDatabase"] = CreateDatabase /\ "CreateDatabase" \in DOMAIN Ops
  /\ Ops["DropDatabase"] = DropDatabase /\ "DropDatabase" \in DOMAIN Ops
  /\ Ops["BackupDatabase"] = BackupDatabase /\ "BackupDatabase" \in DOMAIN Ops
  /\ Ops["RestoreDatabase"] = RestoreDatabase /\ "RestoreDatabase" \in DOMAIN Ops
  /\ Ops["CreateIndex"] = CreateIndex /\ "CreateIndex" \in DOMAIN Ops
  /\ Ops["DropIndex"] = DropIndex /\ "DropIndex" \in DOMAIN Ops
  /\ Ops["HideIndex"] = HideIndex /\ "HideIndex" \in DOMAIN Ops
  /\ Ops["CreateRole"] = CreateRole /\ "CreateRole" \in DOMAIN Ops
  /\ Ops["UpdateRole"] = UpdateRole /\ "UpdateRole" \in DOMAIN Ops
  /\ Ops["DropRole"] = DropRole /\ "DropRole" \in DOMAIN Ops
  /\ Ops["CreateUser"] = CreateUser /\ "CreateUser" \in DOMAIN Ops
  /\ Ops["SaveRoles"] = SaveRoles /\ "SaveRoles" \in DOMAIN Ops
  /\ Ops["ChangeUserPassword"] = ChangeUserPassword /\ "ChangeUserPassword" \in DOMAIN Ops
  /\ Ops["DropUser"] = DropUser /\ "DropUser" \in DOMAIN Ops
  /\ Ops["UpdateAccountRole"] = UpdateAccountRole /\ "UpdateAccountRole" \in DOMAIN Ops
  /\ Ops["DeleteAccount"] = DeleteAccount /\ "DeleteAccount" \in DOMAIN Ops
  /\ Ops["ToggleWhitelist"] = ToggleWhitelist /\ "ToggleWhitelist" \in DOMAIN Ops
  /\ Ops["AddIP"] = AddIP /\ "AddIP" \in DOMAIN Ops
  /\ Ops["RemoveIP"] = RemoveIP /\ "RemoveIP" \in DOMAIN Ops
  /\ Ops["BulkAddIPs"] = BulkAddIPs /\ "BulkAddIPs" \in DOMAIN Ops
  /\ Ops["CreateView"] = CreateView /\ "CreateView" \in DOMAIN Ops
  /\ Ops["DropView"] = DropView /\ "DropView" \in DOMAIN Ops
  /\ Ops["UploadFile"] = UploadFile /\ "UploadFile" \in DOMAIN Ops
  /\ Ops["DeleteFile"] = DeleteFile /\ "DeleteFile" \in DOMAIN Ops
  /\ Ops["SetProfiling"] = SetProfiling /\ "SetProfiling" \in DOMAIN Ops
  /\ Ops["DropTrigger"] = DropTrigger /\ "DropTrigger" \in DOMAIN Ops
  /\ Ops["DropRoutine"] = DropRoutine /\ "DropRoutine" \in DOMAIN Ops
  /\ Ops["KillOp"] = KillOp /\ "KillOp" \in DOMAIN Ops
  /\ Ops["RunAggregation"] = RunAggregation /\ "RunAggregation" \in DOMAIN Ops
  /\ Ops["ImportScript"] = ImportScript /\ "ImportScript" \in DOMAIN Ops
  /\ Ops["ImportDocuments"] = ImportDocuments /\ "ImportDocuments" \in DOMAIN Ops
  /\ Ops["ExportTable"] = ExportTable /\ "ExportTable" \in DOMAIN Ops
  /\ Ops["ExportDatabase"] = ExportDatabase /\ "ExportDatabase" \in DOMAIN Ops
  /\ Ops["ExecuteDDL"] = ExecuteDDL /\ "ExecuteDDL" \in DOMAIN Ops
  /\ Ops["ExecuteOther"] = ExecuteOther /\ "ExecuteOther" \in DOMAIN Ops
<1>1. /\ Ops["TableInsert"] = TableInsert /\ "TableInsert" \in DOMAIN Ops
      /\ Ops["TableUpdate"] = TableUpdate /\ "TableUpdate" \in DOMAIN Ops
      /\ Ops["TableDelete"] = TableDelete /\ "TableDelete" \in DOMAIN Ops
      /\ Ops["InlineSave"] = InlineSave /\ "InlineSave" \in DOMAIN Ops
      /\ Ops["DocInsert"] = DocInsert /\ "DocInsert" \in DOMAIN Ops
      /\ Ops["DocUpdate"] = DocUpdate /\ "DocUpdate" \in DOMAIN Ops
      /\ Ops["DocDelete"] = DocDelete /\ "DocDelete" \in DOMAIN Ops
      /\ Ops["BulkInsert"] = BulkInsert /\ "BulkInsert" \in DOMAIN Ops
      /\ Ops["BulkUpdate"] = BulkUpdate /\ "BulkUpdate" \in DOMAIN Ops
      /\ Ops["BulkDelete"] = BulkDelete /\ "BulkDelete" \in DOMAIN Ops
  BY DEF Ops
<1>2. /\ Ops["AlterColumn"] = AlterColumn /\ "AlterColumn" \in DOMAIN Ops
      /\ Ops["DropColumn"] = DropColumn /\ "DropColumn" \in DOMAIN Ops
      /\ Ops["Maintenance"] = Maintenance /\ "Maintenance" \in DOMAIN Ops
      /\ Ops["Compact"] = Compact /\ "Compact" \in DOMAIN Ops
      /\ Ops["RenameCollection"] = RenameCollection /\ "RenameCollection" \in DOMAIN Ops
      /\ Ops["DuplicateCollection"] = DuplicateCollection /\ "DuplicateCollection" \in DOMAIN Ops
      /\ Ops["ConvertToCapped"] = ConvertToCapped /\ "ConvertToCapped" \in DOMAIN Ops
      /\ Ops["SetValidation"] = SetValidation /\ "SetValidation" \in DOMAIN Ops
      /\ Ops["CreateTable"] = CreateTable /\ "CreateTable" \in DOMAIN Ops
      /\ Ops["DropTable"] = DropTable /\ "DropTable" \in DOMAIN Ops
  BY DEF Ops
<1>3. /\ Ops["TruncateTable"] = TruncateTable /\ "TruncateTable" \in DOMAIN Ops
      /\ Ops["CreateCapped"] = CreateCapped /\ "CreateCapped" \in DOMAIN Ops
      /\ Ops["CreateTimeSeries"] = CreateTimeSeries /\ "CreateTimeSeries" \in DOMAIN Ops
      /\ Ops["CreateDatabase"] = CreateDatabase /\ "CreateDatabase" \in DOMAIN Ops
      /\ Ops["DropDatabase"] = DropDatabase /\ "DropDatabase" \in DOMAIN Ops
      /\ Ops["BackupDatabase"] = BackupDatabase /\ "BackupDatabase" \in DOMAIN Ops
      /\ Ops["RestoreDatabase"] = RestoreDatabase /\ "RestoreDatabase" \in DOMAIN Ops
      /\ Ops["CreateIndex"] = CreateIndex /\ "CreateIndex" \in DOMAIN Ops
      /\ Ops["DropIndex"] = DropIndex /\ "DropIndex" \in DOMAIN Ops
      /\ Ops["HideIndex"] = HideIndex /\ "HideIndex" \in DOMAIN Ops
  BY DEF Ops
<1>4. /\ Ops["CreateRole"] = CreateRole /\ "CreateRole" \in DOMAIN Ops
      /\ Ops["UpdateRole"] = UpdateRole /\ "UpdateRole" \in DOMAIN Ops
      /\ Ops["DropRole"] = DropRole /\ "DropRole" \in DOMAIN Ops
      /\ Ops["CreateUser"] = CreateUser /\ "CreateUser" \in DOMAIN Ops
      /\ Ops["SaveRoles"] = SaveRoles /\ "SaveRoles" \in DOMAIN Ops
      /\ Ops["ChangeUserPassword"] = ChangeUserPassword /\ "ChangeUserPassword" \in DOMAIN Ops
      /\ Ops["DropUser"] = DropUser /\ "DropUser" \in DOMAIN Ops
      /\ Ops["UpdateAccountRole"] = UpdateAccountRole /\ "UpdateAccountRole" \in DOMAIN Ops
      /\ Ops["DeleteAccount"] = DeleteAccount /\ "DeleteAccount" \in DOMAIN Ops
      /\ Ops["ToggleWhitelist"] = ToggleWhitelist /\ "ToggleWhitelist" \in DOMAIN Ops
  BY DEF Ops
<1>5. /\ Ops["AddIP"] = AddIP /\ "AddIP" \in DOMAIN Ops
      /\ Ops["RemoveIP"] = RemoveIP /\ "RemoveIP" \in DOMAIN Ops
      /\ Ops["BulkAddIPs"] = BulkAddIPs /\ "BulkAddIPs" \in DOMAIN Ops
      /\ Ops["CreateView"] = CreateView /\ "CreateView" \in DOMAIN Ops
      /\ Ops["DropView"] = DropView /\ "DropView" \in DOMAIN Ops
      /\ Ops["UploadFile"] = UploadFile /\ "UploadFile" \in DOMAIN Ops
      /\ Ops["DeleteFile"] = DeleteFile /\ "DeleteFile" \in DOMAIN Ops
      /\ Ops["SetProfiling"] = SetProfiling /\ "SetProfiling" \in DOMAIN Ops
      /\ Ops["DropTrigger"] = DropTrigger /\ "DropTrigger" \in DOMAIN Ops
      /\ Ops["DropRoutine"] = DropRoutine /\ "DropRoutine" \in DOMAIN Ops
  BY DEF Ops
<1>6. /\ Ops["KillOp"] = KillOp /\ "KillOp" \in DOMAIN Ops
      /\ Ops["RunAggregation"] = RunAggregation /\ "RunAggregation" \in DOMAIN Ops
      /\ Ops["ImportScript"] = ImportScript /\ "ImportScript" \in DOMAIN Ops
      /\ Ops["ImportDocuments"] = ImportDocuments /\ "ImportDocuments" \in DOMAIN Ops
      /\ Ops["ExportTable"] = ExportTable /\ "ExportTable" \in DOMAIN Ops
      /\ Ops["ExportDatabase"] = ExportDatabase /\ "ExportDatabase" \in DOMAIN Ops
      /\ Ops["ExecuteDDL"] = ExecuteDDL /\ "ExecuteDDL" \in DOMAIN Ops
      /\ Ops["ExecuteOther"] = ExecuteOther /\ "ExecuteOther" \in DOMAIN Ops
  BY DEF Ops
<1> QED BY <1>1, <1>2, <1>3, <1>4, <1>5, <1>6

\* The omissions, entry by entry.
LEMMA OmissionsOf ==
  /\ \A n \in DOMAIN Ops \ {"RenameCollection", "ConvertToCapped", "CreateTable", "DropTable", "CreateCapped",
                           "CreateTimeSeries", "TruncateTable", "CreateView", "DropView", "ImportDocuments",
                           "CreateIndex", "DropIndex", "HideIndex", "SetProfiling", "CreateRole", "CreateUser",
                           "UploadFile", "RunAggregation", "ImportScript", "ExecuteDDL", "RestoreDatabase",
                           "ExecuteOther"} :
       NotInvalidated[n] = {}
  /\ NotInvalidated["RenameCollection"] = OfOneTable \ {"rows"}
  /\ NotInvalidated["ConvertToCapped"] = {"columns", "mongo-field-analysis"}
  /\ NotInvalidated["CreateTable"] = {"databases", "schema-tables", "mongo-dbstats", "mongo-coll-meta"}
  /\ NotInvalidated["DropTable"] = {"databases", "schema-tables", "mongo-dbstats", "mongo-coll-meta"}
  /\ NotInvalidated["CreateCapped"] = {"databases", "mongo-dbstats", "mongo-coll-meta"}
  /\ NotInvalidated["CreateTimeSeries"] = {"databases", "mongo-dbstats", "mongo-coll-meta"}
  /\ NotInvalidated["TruncateTable"] = {"mongo-dbstats", "mongo-coll-meta"}
  /\ NotInvalidated["CreateView"] = {"databases"}
  /\ NotInvalidated["DropView"] = {"databases"}
  /\ NotInvalidated["ImportDocuments"] = {"databases"}
  /\ NotInvalidated["CreateIndex"] = {"mongo-index-stats"}
  /\ NotInvalidated["DropIndex"] = {"mongo-index-stats"}
  /\ NotInvalidated["HideIndex"] = {"mongo-index-stats"}
  /\ NotInvalidated["SetProfiling"] = {"mongo-profile-data", "tables"}
  /\ NotInvalidated["CreateRole"] = {"tables"}
  /\ NotInvalidated["CreateUser"] = {"tables"}
  /\ NotInvalidated["UploadFile"] = {"databases", "tables"}
  /\ NotInvalidated["RunAggregation"] = {"databases", "tables"}
  /\ NotInvalidated["ImportScript"] = {"databases", "schemas", "schema-tables"}
  /\ NotInvalidated["ExecuteDDL"] = {"schemas", "schema-tables"}
  /\ NotInvalidated["RestoreDatabase"] = DatabasesQueries
  /\ NotInvalidated["ExecuteOther"] = {"databases", "tables", "schemas", "schema-tables"}
BY OpsNamed DEF NotInvalidated

\* Every operation of the table is sound.
LEMMA EachSound == \A n \in DOMAIN Ops : OpSound(n)
<1> USE OpsNamed, OmissionsOf, ChangesOf, ShowsOf DEF OpSound, Guarded, Unguarded, UnguardedUses, ClosesLocally,
                                                      Flags, Shows, SidebarQueries, Matches, DbTypes, Sql, Mongo,
                                                      OnMongo, Op, Dialog
<1>1. OpSound("TableInsert") /\ OpSound("TableUpdate") /\ OpSound("TableDelete") /\ OpSound("InlineSave")
  BY DEF TableInsert, TableInsertForm, useInsertRow, RowRequests, RowData, Sizes, TableQueries, TableUpdate,
         TableEditForm, useUpdateRow, TableDelete, useDeleteRow, InlineSave, CellKeys
<1>2. /\ OpSound("DocInsert") /\ OpSound("DocUpdate") /\ OpSound("DocDelete") /\ OpSound("BulkInsert")
      /\ OpSound("BulkUpdate") /\ OpSound("BulkDelete")
  BY DEF DocInsert, DocInsertForm, useInsertRow, invalidateFind, RowRequests, RowData, Sizes, DocumentQueries,
         DocUpdate, DocEditForm, useUpdateRow, DocDelete, useDeleteRow, BulkInsert, BulkInsertForm,
         BulkUpdate, BulkUpdateForm, BulkDelete, BulkDeleteForm
<1>3. /\ OpSound("AlterColumn") /\ OpSound("DropColumn") /\ OpSound("Maintenance") /\ OpSound("Compact")
  BY DEF AlterColumn, ColumnForm, useAlterColumn, StructureQueries, DropColumn, DropColumnButton,
         Maintenance, Compact, Sizes
<1>4. /\ OpSound("RenameCollection") /\ OpSound("DuplicateCollection")
      /\ OpSound("ConvertToCapped") /\ OpSound("SetValidation")
  BY DEF StructureQueries, RenameCollection, RenameForm, TableLists, OfOneTable, DuplicateCollection,
         DuplicateForm, ConvertToCapped, CappedForm, RowData, Sizes, IndexQueries, SetValidation, ValidationForm
<1>5. /\ OpSound("CreateTable") /\ OpSound("DropTable") /\ OpSound("TruncateTable")
      /\ OpSound("CreateCapped") /\ OpSound("CreateTimeSeries")
  BY DEF CreateTable, CreateTableForm, useCreateTable, TableRequests, TableLists, TablesQueries, DropTable,
         TableButtons, useDropTable, TruncateTable, useTruncateTable, RowRequests, RowData, Sizes, CreateCapped,
         CreateCappedForm, CreateTimeSeries, TimeSeriesForm
<1>6. OpSound("CreateDatabase") /\ OpSound("DropDatabase") /\ OpSound("BackupDatabase")
  BY DEF CreateDatabase, CreateDatabaseForm, useCreateDatabase, DatabaseRequests, DatabasesQueries,
         DropDatabase, DatabaseButtons, useDropDatabase, BackupDatabase
<1>7. OpSound("RestoreDatabase")
  BY DEF DatabasesQueries, DatabaseButtons, RestoreDatabase
<1>8. OpSound("CreateIndex") /\ OpSound("DropIndex") /\ OpSound("HideIndex")
  BY DEF CreateIndex, CreateIndexForm, invalidateIndexes, IndexRequests, IndexQueries, Sizes, DropIndex,
         IndexButtons, HideIndex
<1>9. OpSound("CreateRole") /\ OpSound("UpdateRole") /\ OpSound("DropRole")
  BY DEF CreateRole, RoleForm, RoleQueries, RoleRequests, UpdateRole, DropRole, DropRoleButton
<1>10. /\ OpSound("CreateUser") /\ OpSound("SaveRoles") /\ OpSound("ChangeUserPassword")
       /\ OpSound("DropUser")
  BY DEF CreateUser, CreateUserForm, UserQueries, UserRequests, SaveRoles, EditRolesForm,
         ChangeUserPassword, PasswordForm, DropUser
<1>11. OpSound("UpdateAccountRole") /\ OpSound("DeleteAccount")
  BY DEF UpdateAccountRole, AccountButtons, useUpdateUserRole, AccountQueries, DeleteAccount, useDeleteUser
<1>12. OpSound("ToggleWhitelist") /\ OpSound("AddIP") /\ OpSound("RemoveIP") /\ OpSound("BulkAddIPs")
  BY DEF ToggleWhitelist, ToggleButton, SecurityQueries, WhitelistRequests, AddIP, AddIPForm, RemoveIP,
         RemoveButton, BulkAddIPs, BulkIPsForm
<1>13. OpSound("CreateView") /\ OpSound("DropView")
  BY DEF CreateView, CreateViewForm, ViewQueries, TableRequests, TableLists, Sizes, DropView, DropViewButton
<1>14. OpSound("UploadFile") /\ OpSound("DeleteFile")
  BY DEF UploadFile, UploadButton, GridFSQueries, DeleteFile, DeleteFileButton
<1>15. OpSound("SetProfiling")
  BY DEF SetProfiling, ProfilerButton, ProfilerQueries
<1>16. OpSound("DropTrigger")
  BY DEF DropTrigger, TriggerButton, TriggerQueries
<1>17. OpSound("DropRoutine")
  BY DEF DropRoutine, RoutineButton, RoutineQueries
<1>18. OpSound("KillOp")
  BY DEF KillOp, KillButton, StatusQueries
<1>19. OpSound("RunAggregation")
  BY DEF RunAggregation, RunButton, RowData, TableLists, Sizes
<1>20. OpSound("ImportScript") /\ OpSound("ImportDocuments")
  BY DEF ImportScript, ImportDocuments, FilePicker, RowData, TableLists, Sizes
<1>21. OpSound("ExportTable") /\ OpSound("ExportDatabase")
  BY DEF ExportTable, ExportButtons, ExportDatabase
<1>22. OpSound("ExecuteDDL") /\ OpSound("ExecuteOther")
  BY DEF ExecuteDDL, QueryEditorKeys, ExecuteOther
<1> HIDE OpsNamed, OmissionsOf, ChangesOf, ShowsOf DEF OpSound, Guarded, Unguarded, UnguardedUses, ClosesLocally,
                                                       Flags, Shows, SidebarQueries, Matches, DbTypes, Sql, Mongo,
                                                       OnMongo, Op, Dialog
<1> QED BY <1>1, <1>2, <1>3, <1>4, <1>5, <1>6, <1>7, <1>8, <1>9, <1>10, <1>11, <1>12, <1>13, <1>14, <1>15,
           <1>16, <1>17, <1>18, <1>19, <1>20, <1>21, <1>22
          DEF Ops

\* The button of a guarded operation looks at what the operation itself uses.
SelfBlocking ==
  \A n \in DOMAIN Ops : Guarded(n) => Ops[n].uses \in Ops[n].blockedBy /\ ~Ops[n].perItem /\ ~Ops[n].bulk
\* What shares a mutation or a flag in a view is guarded together.
SharedGuards ==
  \A m, n \in DOMAIN Ops : Ops[m].view = Ops[n].view /\ Ops[m].uses = Ops[n].uses /\ Guarded(m) => Guarded(n)
\* A dialog is closed by the answer, or by a callback that its button keeps.
DialogsClose == \A n \in DOMAIN Ops : Ops[n].via # "button" => Ops[n].closes = "hook" \/ ClosesLocally(n)
\* What an answer leaves out of date is in the list of the omissions.
AnswersCover ==
  \A n \in DOMAIN Ops : \A dbType \in Ops[n].on :
    Changes(dbType, Ops[n].request) \cap Shows(dbType, Ops[n].view)
      \subseteq Matches(Ops[n].hook) \cup Matches(Ops[n].local) \cup NotInvalidated[n]

LEMMA TableSound == "" \notin DOMAIN Ops /\ SelfBlocking /\ SharedGuards /\ DialogsClose /\ AnswersCover
<1>1. "" \notin DOMAIN Ops
  BY DEF Ops
<1>2. SelfBlocking /\ DialogsClose /\ AnswersCover
  BY EachSound DEF OpSound, SelfBlocking, DialogsClose, AnswersCover
<1>3. SharedGuards
  BY EachSound DEF OpSound, SharedGuards
<1> QED BY <1>1, <1>2, <1>3

---------------------------------------------------------------------------
(* Workspace: the view a behaviour is about. *)

\* The operations of a behaviour are of its view, and offered for its database.
SceneOK ==
  /\ scene.query \in Shows(scene.dbType, scene.view)
  /\ \A n \in scene.menu : n \in DOMAIN Ops /\ Ops[n].view = scene.view /\ scene.dbType \in Ops[n].on

LEMMA SceneStays ==
  ASSUME [WorkspaceNext]_workspaceVars
  PROVE  scene' = scene
BY DEF WorkspaceNext, workspaceVars, Read, Arrive, FetchFails, Focus, RefreshAll, OpenDialog, CloseDialog,
       Submit, Apply, Succeed, Fail, LeaveView, ReturnToView, Navigate

LEMMA SceneInit == WorkspaceInit => SceneOK
<1> SUFFICES ASSUME WorkspaceInit PROVE SceneOK
  OBVIOUS
<1>a. PICK dbType \in DbTypes, isAdmin \in BOOLEAN :
        \E view \in GlobalTabs(dbType, isAdmin) \cup DbTabs(dbType, isAdmin) :
          \E query \in Shows(dbType, view), menu \in SUBSET Offered(dbType, isAdmin, view) :
            scene = [dbType |-> dbType, view |-> view, query |-> query, menu |-> menu]
  BY DEF WorkspaceInit
<1>b. PICK view \in GlobalTabs(dbType, isAdmin) \cup DbTabs(dbType, isAdmin) :
        \E query \in Shows(dbType, view), menu \in SUBSET Offered(dbType, isAdmin, view) :
          scene = [dbType |-> dbType, view |-> view, query |-> query, menu |-> menu]
  BY <1>a
<1>1. PICK query \in Shows(dbType, view), menu \in SUBSET Offered(dbType, isAdmin, view) :
        scene = [dbType |-> dbType, view |-> view, query |-> query, menu |-> menu]
  BY <1>b
<1>2. scene.dbType = dbType /\ scene.view = view /\ scene.query = query /\ scene.menu = menu
  BY <1>1
<1>3. \A n \in menu : n \in DOMAIN Ops /\ Ops[n].view = view /\ dbType \in Ops[n].on
  BY <1>1 DEF Offered
<1> QED BY <1>1, <1>2, <1>3 DEF SceneOK

---------------------------------------------------------------------------
(* Workspace: typing. *)

FlightSet ==
  [name : scene.menu, item : 1..MaxItems, latest : BOOLEAN, visit : BOOLEAN, own : BOOLEAN, here : BOOLEAN,
   stage : {"sent", "applied"}]
CellSet == [data : {"none", "fresh", "stale"}, fetch : {"idle", "sent", "fresh", "stale"}]
DialogSet == [of : scene.menu \cup {""}, saved : BOOLEAN]

WorkspaceInv ==
  /\ mounted \in BOOLEAN
  /\ cell \in CellSet
  /\ dialog \in DialogSet
  /\ flights \in Seq(FlightSet)

LEMMA FlightsNumbered ==
  ASSUME WorkspaceInv
  PROVE  /\ Len(flights) \in Nat /\ InFlight = 1..Len(flights)
         /\ \A i \in InFlight : flights[i] \in FlightSet
<1>1. flights \in Seq(FlightSet)
  BY DEF WorkspaceInv
<1>2. Len(flights) \in Nat /\ DOMAIN flights = 1..Len(flights)
  BY <1>1, LenProperties
<1>3. \A i \in 1..Len(flights) : flights[i] \in FlightSet
  BY <1>1, ElementOfSeq
<1> QED BY <1>2, <1>3 DEF InFlight

\* Whose request is it still, and of what: nothing but the flags changes.
SameRequest(f, g) ==
  g.name = f.name /\ g.item = f.item /\ g.stage = f.stage

LEMMA ForgottenFlights ==
  ASSUME WorkspaceInv, NEW uses
  PROVE  /\ Forgotten(uses) \in Seq(FlightSet)
         /\ DOMAIN Forgotten(uses) = InFlight
         /\ \A i \in InFlight :
              /\ SameRequest(flights[i], Forgotten(uses)[i])
              /\ Forgotten(uses)[i].visit = flights[i].visit
              /\ Forgotten(uses)[i].own = flights[i].own
              /\ Forgotten(uses)[i].here = flights[i].here
              /\ flights[i].latest /\ OfFlight(i).uses # uses => Forgotten(uses)[i].latest
<1>1. /\ Len(flights) \in Nat /\ InFlight = 1..Len(flights)
      /\ \A i \in InFlight : flights[i] \in FlightSet
  BY FlightsNumbered
<1> DEFINE fs == Forgotten(uses)
<1>2. DOMAIN fs = InFlight /\ fs = [i \in InFlight |-> fs[i]]
  BY DEF Forgotten
<1>3. ASSUME NEW i \in InFlight
      PROVE  /\ fs[i] \in FlightSet /\ SameRequest(flights[i], fs[i])
             /\ fs[i].visit = flights[i].visit /\ fs[i].own = flights[i].own /\ fs[i].here = flights[i].here
             /\ flights[i].latest /\ OfFlight(i).uses # uses => fs[i].latest
  <2> DEFINE b == flights[i].latest /\ OfFlight(i).uses # uses
  <2>1. fs[i] = [flights[i] EXCEPT !.latest = b]
    BY DEF Forgotten
  <2>2. b \in BOOLEAN
    BY <1>1 DEF FlightSet
  <2> HIDE DEF b, fs
  <2>3. fs[i] \in FlightSet
    BY <1>1, <2>1, <2>2 DEF FlightSet
  <2>4. fs[i].latest = b
    BY <1>1, <2>1 DEF FlightSet
  <2>5. /\ SameRequest(flights[i], fs[i]) /\ fs[i].visit = flights[i].visit /\ fs[i].own = flights[i].own
       /\ fs[i].here = flights[i].here
    BY <1>1, <2>1 DEF FlightSet, SameRequest
  <2> QED BY <2>3, <2>4, <2>5 DEF b
<1> HIDE DEF fs
<1>4. fs \in [1..Len(flights) -> FlightSet]
  BY <1>1, <1>2, <1>3
<1>5. fs \in Seq(FlightSet)
  BY <1>1, <1>4, NumberedIsSeq
<1> QED BY <1>2, <1>3, <1>5 DEF fs

LEMMA DisownedFlights ==
  ASSUME WorkspaceInv
  PROVE  /\ Disowned \in Seq(FlightSet)
         /\ DOMAIN Disowned = InFlight
         /\ \A i \in InFlight :
              /\ SameRequest(flights[i], Disowned[i])
              /\ Disowned[i].visit = flights[i].visit
              /\ Disowned[i].own = FALSE
              /\ Disowned[i].here = flights[i].here
              /\ Disowned[i].latest = flights[i].latest
<1>1. /\ Len(flights) \in Nat /\ InFlight = 1..Len(flights)
      /\ \A i \in InFlight : flights[i] \in FlightSet
  BY FlightsNumbered
<1>2. DOMAIN Disowned = InFlight /\ Disowned = [i \in InFlight |-> Disowned[i]]
  BY DEF Disowned
<1>3. ASSUME NEW i \in InFlight
      PROVE  /\ Disowned[i] \in FlightSet /\ SameRequest(flights[i], Disowned[i])
             /\ Disowned[i].visit = flights[i].visit /\ Disowned[i].own = FALSE
             /\ Disowned[i].here = flights[i].here /\ Disowned[i].latest = flights[i].latest
  <2>1. Disowned[i] = [flights[i] EXCEPT !.own = FALSE]
    BY DEF Disowned
  <2> QED BY <1>1, <2>1 DEF FlightSet, SameRequest
<1>4. Disowned \in [1..Len(flights) -> FlightSet]
  BY <1>1, <1>2, <1>3
<1> QED BY <1>1, <1>2, <1>3, <1>4, NumberedIsSeq

LEMMA UnmountedFlights ==
  ASSUME WorkspaceInv, NEW stillHere \in BOOLEAN
  PROVE  /\ Unmounted(stillHere) \in Seq(FlightSet)
         /\ DOMAIN Unmounted(stillHere) = InFlight
         /\ \A i \in InFlight :
              /\ SameRequest(flights[i], Unmounted(stillHere)[i])
              /\ Unmounted(stillHere)[i].visit = FALSE
              /\ Unmounted(stillHere)[i].own = FALSE
              /\ Unmounted(stillHere)[i].here <=> flights[i].here /\ stillHere
<1>1. /\ Len(flights) \in Nat /\ InFlight = 1..Len(flights)
      /\ \A i \in InFlight : flights[i] \in FlightSet
  BY FlightsNumbered
<1> DEFINE fs == Unmounted(stillHere)
<1>2. DOMAIN fs = InFlight /\ fs = [i \in InFlight |-> fs[i]]
  BY DEF Unmounted
<1>3. ASSUME NEW i \in InFlight
      PROVE  /\ fs[i] \in FlightSet /\ SameRequest(flights[i], fs[i])
             /\ fs[i].visit = FALSE /\ fs[i].own = FALSE
             /\ fs[i].here <=> flights[i].here /\ stillHere
  <2> DEFINE b == flights[i].here /\ stillHere
  <2>1. fs[i] = [flights[i] EXCEPT !.latest = FALSE, !.visit = FALSE, !.own = FALSE, !.here = b]
    BY DEF Unmounted
  <2>2. b \in BOOLEAN
    OBVIOUS
  <2> HIDE DEF b, fs
  <2>3. fs[i] \in FlightSet
    BY <1>1, <2>1, <2>2 DEF FlightSet
  <2>4. fs[i].here = b
    BY <1>1, <2>1 DEF FlightSet
  <2>5. SameRequest(flights[i], fs[i]) /\ fs[i].visit = FALSE /\ fs[i].own = FALSE
    BY <1>1, <2>1 DEF FlightSet, SameRequest
  <2> QED BY <2>3, <2>4, <2>5 DEF b
<1> HIDE DEF fs
<1>4. fs \in [1..Len(flights) -> FlightSet]
  BY <1>1, <1>2, <1>3
<1>5. fs \in Seq(FlightSet)
  BY <1>1, <1>4, NumberedIsSeq
<1> QED BY <1>2, <1>3, <1>5 DEF fs

\* One request fewer: the others keep what they are about, and their owner.
LEMMA EndedFlights ==
  ASSUME WorkspaceInv, NEW i \in InFlight
  PROVE  /\ Ended(i) \in Seq(FlightSet)
         /\ \A j \in DOMAIN Ended(i) :
              /\ Skip(i, j) \in InFlight \ {i}
              /\ SameRequest(flights[Skip(i, j)], Ended(i)[j])
              /\ Ended(i)[j].visit = flights[Skip(i, j)].visit
              /\ Ended(i)[j].own = flights[Skip(i, j)].own
              /\ (/\ flights[Skip(i, j)].latest
                  /\ flights[i].visit /\ OfFlight(i).uses \in Flags => OfFlight(Skip(i, j)).uses # OfFlight(i).uses)
                   => Ended(i)[j].latest
         /\ \A j, k \in DOMAIN Ended(i) : Skip(i, j) = Skip(i, k) => j = k
         /\ \A k \in InFlight \ {i} : \E j \in DOMAIN Ended(i) :
              SameRequest(flights[k], Ended(i)[j]) /\ Ended(i)[j].here = flights[k].here
<1> DEFINE fs == IF OfFlight(i).uses \in Flags /\ flights[i].visit THEN Forgotten(OfFlight(i).uses) ELSE flights
<1>1. /\ fs \in Seq(FlightSet) /\ DOMAIN fs = InFlight
      /\ \A k \in InFlight :
           /\ SameRequest(flights[k], fs[k])
           /\ fs[k].visit = flights[k].visit /\ fs[k].own = flights[k].own /\ fs[k].here = flights[k].here
           /\ (/\ flights[k].latest
               /\ flights[i].visit /\ OfFlight(i).uses \in Flags => OfFlight(k).uses # OfFlight(i).uses)
                => fs[k].latest
  <2>1. CASE OfFlight(i).uses \in Flags /\ flights[i].visit
    <3>1. fs = Forgotten(OfFlight(i).uses)
      BY <2>1
    <3> HIDE DEF fs
    <3> QED BY <2>1, <3>1, ForgottenFlights
  <2>2. CASE ~(OfFlight(i).uses \in Flags /\ flights[i].visit)
    <3>1. fs = flights
      BY <2>2
    <3> HIDE DEF fs
    <3> QED BY <3>1 DEF WorkspaceInv, InFlight, SameRequest
  <2> QED BY <2>1, <2>2
<1>2. Ended(i) = RemoveAt(fs, i)
  BY DEF Ended
<1> HIDE DEF fs
<1>3. /\ RemoveAt(fs, i) \in Seq(FlightSet)
      /\ \A j \in DOMAIN RemoveAt(fs, i) : Skip(i, j) \in InFlight \ {i} /\ RemoveAt(fs, i)[j] = fs[Skip(i, j)]
      /\ \A j, k \in DOMAIN RemoveAt(fs, i) : Skip(i, j) = Skip(i, k) => j = k
      /\ \A k \in InFlight \ {i} : \E j \in DOMAIN RemoveAt(fs, i) : RemoveAt(fs, i)[j] = fs[k]
  <2>1. i \in DOMAIN fs
    BY <1>1
  <2> QED BY <1>1, <2>1, RemoveAtSkips, RemoveAtKeeps
<1> QED BY <1>1, <1>2, <1>3

\* The same when the dialog is closed with it.
LEMMA ClosedFlights ==
  ASSUME WorkspaceInv, NEW i \in InFlight
  PROVE  /\ RemoveAt(Disowned, i) \in Seq(FlightSet)
         /\ \A j \in DOMAIN RemoveAt(Disowned, i) :
              /\ Skip(i, j) \in InFlight \ {i}
              /\ SameRequest(flights[Skip(i, j)], RemoveAt(Disowned, i)[j])
              /\ RemoveAt(Disowned, i)[j].visit = flights[Skip(i, j)].visit
              /\ RemoveAt(Disowned, i)[j].own = FALSE
              /\ RemoveAt(Disowned, i)[j].latest = flights[Skip(i, j)].latest
         /\ \A j, k \in DOMAIN RemoveAt(Disowned, i) : Skip(i, j) = Skip(i, k) => j = k
         /\ \A k \in InFlight \ {i} : \E j \in DOMAIN RemoveAt(Disowned, i) :
              SameRequest(flights[k], RemoveAt(Disowned, i)[j]) /\ RemoveAt(Disowned, i)[j].here = flights[k].here
<1>1. Disowned \in Seq(FlightSet) /\ i \in DOMAIN Disowned
  BY DisownedFlights
<1>2. /\ RemoveAt(Disowned, i) \in Seq(FlightSet)
      /\ \A j \in DOMAIN RemoveAt(Disowned, i) :
           Skip(i, j) \in InFlight \ {i} /\ RemoveAt(Disowned, i)[j] = Disowned[Skip(i, j)]
      /\ \A j, k \in DOMAIN RemoveAt(Disowned, i) : Skip(i, j) = Skip(i, k) => j = k
      /\ \A k \in InFlight \ {i} : \E j \in DOMAIN RemoveAt(Disowned, i) : RemoveAt(Disowned, i)[j] = Disowned[k]
  BY <1>1, DisownedFlights, RemoveAtSkips, RemoveAtKeeps
<1> DEFINE left == RemoveAt(Disowned, i)
<1> HIDE DEF left
<1>3. /\ left \in Seq(FlightSet)
      /\ \A j \in DOMAIN left : Skip(i, j) \in InFlight \ {i} /\ left[j] = Disowned[Skip(i, j)]
      /\ \A j, k \in DOMAIN left : Skip(i, j) = Skip(i, k) => j = k
      /\ \A k \in InFlight \ {i} : \E j \in DOMAIN left : left[j] = Disowned[k]
  BY <1>2 DEF left
<1>a. \A k \in InFlight :
        /\ SameRequest(flights[k], Disowned[k])
        /\ Disowned[k].visit = flights[k].visit
        /\ Disowned[k].own = FALSE
        /\ Disowned[k].here = flights[k].here
        /\ Disowned[k].latest = flights[k].latest
  BY DisownedFlights
<1>4. ASSUME NEW j \in DOMAIN left
      PROVE  /\ Skip(i, j) \in InFlight \ {i}
             /\ SameRequest(flights[Skip(i, j)], left[j])
             /\ left[j].visit = flights[Skip(i, j)].visit
             /\ left[j].own = FALSE
             /\ left[j].latest = flights[Skip(i, j)].latest
  <2>1. Skip(i, j) \in InFlight \ {i} /\ left[j] = Disowned[Skip(i, j)]
    BY <1>3
  <2> QED BY <1>a, <2>1
<1>5. \A k \in InFlight \ {i} : \E j \in DOMAIN left :
        SameRequest(flights[k], left[j]) /\ left[j].here = flights[k].here
  <2> SUFFICES ASSUME NEW k \in InFlight \ {i}
               PROVE  \E j \in DOMAIN left : SameRequest(flights[k], left[j]) /\ left[j].here = flights[k].here
    OBVIOUS
  <2>1. PICK j \in DOMAIN left : left[j] = Disowned[k]
    BY <1>3
  <2> QED BY <1>a, <2>1
<1> QED BY <1>3, <1>4, <1>5 DEF left

\* The requests a press sends are at the end, the earlier ones keep their places.
LEMMA SubmitSends ==
  ASSUME WorkspaceInv, NEW n \in scene.menu, Submit(n)
  PROVE  /\ \E items \in Selections(n) : ~Blocked(n, items[1])
         /\ flights' \in Seq(FlightSet)
         /\ InFlight \subseteq DOMAIN flights'
         /\ \A i \in InFlight : flights'[i] = Forgotten(Ops[n].uses)[i]
         /\ \A i \in DOMAIN flights' \ InFlight :
              flights'[i].name = n /\ flights'[i].visit /\ (flights'[i].own => Ops[n].via # "button")
         /\ ~Ops[n].perItem /\ ~Ops[n].bulk =>
              \A i, j \in DOMAIN flights' \ InFlight : i = j /\ flights'[i].latest
<1>1. PICK items \in Selections(n) :
        ~Blocked(n, items[1]) /\ flights' = Forgotten(Ops[n].uses) \o Submitted(n, items)
  BY DEF Submit
<1> DEFINE fs == Forgotten(Ops[n].uses)
           new == Submitted(n, items)
<1>2. PICK k \in 1..MaxItems : items \in [1..k -> 1..MaxItems] /\ (~Ops[n].perItem /\ ~Ops[n].bulk => k = 1)
  BY <1>1, WorkspaceAssumption DEF Selections
<1>3. k \in Nat /\ 1 <= k /\ DOMAIN items = 1..k
  BY <1>2, WorkspaceAssumption
<1>4. Len(items) = k
  BY <1>2, <1>3, NumberedIsSeq
<1>5. ASSUME NEW m \in 1..k
      PROVE  /\ new[m] \in FlightSet /\ new[m].name = n /\ new[m].visit /\ (new[m].own => Ops[n].via # "button")
             /\ m = k => new[m].latest
  <2> DEFINE last == m = k
             own == Ops[n].via # "button"
  <2>1. new[m] = [name |-> n, item |-> items[m], latest |-> last, visit |-> TRUE,
                  own |-> own, here |-> TRUE, stage |-> "sent"]
    BY <1>3, <1>4 DEF Submitted
  <2>2. items[m] \in 1..MaxItems /\ last \in BOOLEAN /\ own \in BOOLEAN
    BY <1>2
  <2>3. (own => Ops[n].via # "button") /\ (m = k => last)
    OBVIOUS
  <2> HIDE DEF new, own, last
  <2>4. new[m] \in FlightSet
    BY <2>1, <2>2 DEF FlightSet
  <2>5. new[m].name = n /\ new[m].visit = TRUE /\ new[m].own = own /\ new[m].latest = last
    BY <2>1
  <2> QED BY <2>3, <2>4, <2>5
<1>6. DOMAIN new = 1..k /\ new = [m \in 1..k |-> new[m]]
  BY <1>3 DEF Submitted
<1>7. fs \in Seq(FlightSet) /\ DOMAIN fs = InFlight /\ Len(flights) \in Nat /\ InFlight = 1..Len(flights)
  BY ForgottenFlights, FlightsNumbered
<1> HIDE DEF fs, new
<1>8. new \in Seq(FlightSet) /\ Len(new) = k
  <2>1. new \in [1..k -> FlightSet]
    BY <1>5, <1>6
  <2> QED BY <1>3, <2>1, NumberedIsSeq
<1>9. Len(fs) = Len(flights)
  <2>1. Len(fs) \in Nat /\ DOMAIN fs = 1..Len(fs)
    BY <1>7, LenProperties
  <2> QED BY <1>7, <2>1
<1> DEFINE all == fs \o new
<1>10. /\ all \in Seq(FlightSet) /\ Len(all) = Len(flights) + k
       /\ \A i \in 1..(Len(flights) + k) :
            all[i] = IF i <= Len(flights) THEN fs[i] ELSE new[i - Len(flights)]
  <2>1. /\ all \in Seq(FlightSet) /\ Len(all) = Len(fs) + Len(new)
        /\ \A i \in 1..(Len(fs) + Len(new)) :
             all[i] = IF i <= Len(fs) THEN fs[i] ELSE new[i - Len(fs)]
    BY <1>7, <1>8, ConcatProperties
  <2> HIDE DEF all
  <2> QED BY <1>8, <1>9, <2>1
<1>11. DOMAIN all = 1..(Len(flights) + k)
  BY <1>10, LenProperties
<1>12. flights' = all
  BY <1>1 DEF fs, new
<1> HIDE DEF all
<1>13. InFlight \subseteq DOMAIN all /\ \A i \in InFlight : all[i] = fs[i]
  BY <1>3, <1>7, <1>10, <1>11
<1>14. \A i \in DOMAIN all \ InFlight : i - Len(flights) \in 1..k /\ all[i] = new[i - Len(flights)]
  BY <1>3, <1>7, <1>10, <1>11
<1>15. \A i \in DOMAIN all \ InFlight :
         all[i].name = n /\ all[i].visit /\ (all[i].own => Ops[n].via # "button")
  BY <1>5, <1>14
<1>16. ASSUME ~Ops[n].perItem, ~Ops[n].bulk, NEW i \in DOMAIN all \ InFlight, NEW j \in DOMAIN all \ InFlight
       PROVE  i = j /\ all[i].latest
  <2>1. k = 1
    BY <1>2, <1>16
  <2>2. i - Len(flights) = 1 /\ j - Len(flights) = 1 /\ all[i] = new[1]
    BY <1>14, <2>1
  <2>3. i = j
    BY <1>3, <1>7, <1>11, <2>2
  <2>4. new[1].latest
    <3>1. 1 \in 1..k
      BY <2>1
    <3> QED BY <1>5, <2>1, <3>1
  <2> QED BY <2>2, <2>3, <2>4
<1> QED BY <1>1, <1>10, <1>12, <1>13, <1>15, <1>16 DEF fs

\* A request that is carried out.
LEMMA AppliedFlights ==
  ASSUME WorkspaceInv, NEW i \in InFlight, flights' = [flights EXCEPT ![i].stage = "applied"]
  PROVE  /\ flights' \in Seq(FlightSet)
         /\ DOMAIN flights' = InFlight
         /\ \A k \in InFlight \ {i} : flights'[k] = flights[k]
         /\ flights'[i].stage = "applied" /\ flights'[i].name = flights[i].name
         /\ flights'[i].visit = flights[i].visit /\ flights'[i].latest = flights[i].latest
         /\ flights'[i].own = flights[i].own /\ flights'[i].here = flights[i].here
<1> DEFINE f == [flights[i] EXCEPT !.stage = "applied"]
<1>1. /\ Len(flights) \in Nat /\ InFlight = 1..Len(flights) /\ flights[i] \in FlightSet
  BY FlightsNumbered
<1>2. f \in FlightSet /\ f.stage = "applied" /\ f.name = flights[i].name /\ f.visit = flights[i].visit
      /\ f.latest = flights[i].latest /\ f.own = flights[i].own /\ f.here = flights[i].here
  BY <1>1 DEF FlightSet
<1>3. flights' = [flights EXCEPT ![i] = f]
  OBVIOUS
<1> HIDE DEF f
<1>4. flights \in Seq(FlightSet)
  BY DEF WorkspaceInv
<1>5. /\ flights' \in Seq(FlightSet) /\ Len(flights') = Len(flights)
      /\ \A k \in 1..Len(flights) : flights'[k] = IF k = i THEN f ELSE flights[k]
  BY <1>1, <1>2, <1>3, <1>4, ExceptSeq
<1>6. DOMAIN flights' = 1..Len(flights)
  BY <1>5, LenProperties
<1> QED BY <1>1, <1>2, <1>5, <1>6

\* Another database or table: no request is about what is on screen now.
LEMMA MovedFlights ==
  ASSUME WorkspaceInv
  PROVE  LET moved == [i \in InFlight |-> [flights[i] EXCEPT !.here = FALSE]] IN
         /\ moved \in Seq(FlightSet) /\ DOMAIN moved = InFlight
         /\ \A i \in InFlight :
              /\ SameRequest(flights[i], moved[i]) /\ moved[i].visit = flights[i].visit
              /\ moved[i].own = flights[i].own /\ moved[i].latest = flights[i].latest
<1> DEFINE moved == [i \in InFlight |-> [flights[i] EXCEPT !.here = FALSE]]
<1>1. /\ Len(flights) \in Nat /\ InFlight = 1..Len(flights)
      /\ \A i \in InFlight : flights[i] \in FlightSet
  BY FlightsNumbered
<1>2. ASSUME NEW i \in InFlight
      PROVE  /\ moved[i] \in FlightSet /\ SameRequest(flights[i], moved[i])
             /\ moved[i].visit = flights[i].visit /\ moved[i].own = flights[i].own
             /\ moved[i].latest = flights[i].latest
  BY <1>1 DEF FlightSet, SameRequest
<1>3. DOMAIN moved = InFlight /\ moved = [i \in InFlight |-> moved[i]]
  OBVIOUS
<1> HIDE DEF moved
<1>4. moved \in [1..Len(flights) -> FlightSet]
  BY <1>1, <1>2, <1>3
<1>5. moved \in Seq(FlightSet)
  BY <1>1, <1>4, NumberedIsSeq
<1>6. /\ moved \in Seq(FlightSet) /\ DOMAIN moved = InFlight
      /\ \A i \in InFlight :
           /\ SameRequest(flights[i], moved[i]) /\ moved[i].visit = flights[i].visit
           /\ moved[i].own = flights[i].own /\ moved[i].latest = flights[i].latest
  BY <1>2, <1>3, <1>5
<1> QED BY <1>6 DEF moved

LEMMA WorkspaceStepTyped ==
  ASSUME WorkspaceInv, [WorkspaceNext]_workspaceVars
  PROVE  WorkspaceInv'
<1>0. scene' = scene /\ FlightSet' = FlightSet /\ DialogSet' = DialogSet
  BY SceneStays DEF FlightSet, DialogSet
<1>a. /\ cell.data \in {"none", "fresh", "stale"} /\ cell.fetch \in {"idle", "sent", "fresh", "stale"}
      /\ Refetched(cell) \in CellSet /\ FetchIfIdle \in CellSet
  BY DEF WorkspaceInv, CellSet, Refetched, FetchIfIdle
<1>b. NoDialog \in DialogSet
  BY DEF NoDialog, DialogSet
<1>1. ASSUME Read \/ Arrive \/ FetchFails \/ Focus \/ RefreshAll PROVE WorkspaceInv'
  <2>0. mounted' = mounted /\ flights' = flights /\ dialog' = dialog
    BY <1>1 DEF Read, Arrive, FetchFails, Focus, RefreshAll
  <2>1. cell' \in CellSet
    <3>1. cell \in CellSet
      BY DEF WorkspaceInv
    <3>2. ASSUME Read PROVE cell' \in CellSet
      BY <3>1, <3>2 DEF Read, CellSet
    <3>3. ASSUME Arrive PROVE cell' \in CellSet
      BY <3>1, <3>3 DEF Arrive, CellSet
    <3>4. ASSUME FetchFails PROVE cell' \in CellSet
      BY <3>1, <3>4 DEF FetchFails, CellSet
    <3> QED BY <1>1, <1>a, <3>2, <3>3, <3>4 DEF Focus, RefreshAll
  <2> QED BY <1>0, <2>0, <2>1 DEF WorkspaceInv
<1>2. ASSUME NEW n \in scene.menu, OpenDialog(n) PROVE WorkspaceInv'
  <2>1. dialog' \in DialogSet
    BY <1>2 DEF OpenDialog, DialogSet
  <2> QED BY <1>0, <1>2, <2>1 DEF OpenDialog, WorkspaceInv
<1>3. ASSUME NEW n \in scene.menu, Submit(n) PROVE WorkspaceInv'
  <2>1. flights' \in Seq(FlightSet)
    BY <1>3, SubmitSends
  <2>2. UNCHANGED <<mounted, cell, dialog>>
    BY <1>3 DEF Submit
  <2> QED BY <1>0, <2>1, <2>2 DEF WorkspaceInv
<1>4. ASSUME NEW i \in InFlight, Apply(i) PROVE WorkspaceInv'
  <2>1. flights' \in Seq(FlightSet)
    BY <1>4, AppliedFlights DEF Apply
  <2>2. Written(cell) \in CellSet
    BY <1>a DEF Written, CellSet
  <2>3. cell' \in CellSet
    BY <1>4, <2>2 DEF Apply, WorkspaceInv
  <2>4. UNCHANGED <<mounted, dialog>>
    BY <1>4 DEF Apply
  <2> QED BY <1>0, <2>1, <2>3, <2>4 DEF WorkspaceInv
<1>5. ASSUME NEW i \in InFlight, Succeed(i) PROVE WorkspaceInv'
  <2>1. flights' \in Seq(FlightSet)
    BY <1>5, EndedFlights, ClosedFlights DEF Succeed
  <2>2. cell' \in CellSet
    BY <1>5, <1>a DEF Succeed, WorkspaceInv
  <2>3. dialog' \in DialogSet
    <3>1. flights[i].own \in BOOLEAN /\ dialog \in DialogSet
      BY FlightsNumbered DEF FlightSet, WorkspaceInv
    <3>2. CASE ClosesDialog(i)
      BY <1>5, <1>b, <3>2 DEF Succeed
    <3>3. CASE ~ClosesDialog(i)
      <4>1. dialog' = [dialog EXCEPT !.saved = dialog.saved \/ flights[i].own]
        BY <1>5, <3>3 DEF Succeed
      <4> QED BY <3>1, <4>1 DEF DialogSet
    <3> QED BY <3>2, <3>3
  <2>4. mounted' = mounted
    BY <1>5 DEF Succeed
  <2> QED BY <1>0, <2>1, <2>2, <2>3, <2>4 DEF WorkspaceInv
<1>6. ASSUME NEW i \in InFlight, Fail(i) PROVE WorkspaceInv'
  <2>1. flights' \in Seq(FlightSet) /\ UNCHANGED <<mounted, cell, dialog>>
    BY <1>6, EndedFlights DEF Fail
  <2> QED BY <1>0, <2>1 DEF WorkspaceInv
<1>7. ASSUME CloseDialog PROVE WorkspaceInv'
  <2>1. flights' \in Seq(FlightSet) /\ dialog' = NoDialog /\ UNCHANGED <<mounted, cell>>
    BY <1>7, DisownedFlights DEF CloseDialog
  <2> QED BY <1>0, <1>b, <2>1 DEF WorkspaceInv
<1>8. ASSUME LeaveView PROVE WorkspaceInv'
  <2>1. flights' \in Seq(FlightSet) /\ dialog' = NoDialog /\ mounted' = FALSE /\ cell' = cell
    BY <1>8, UnmountedFlights DEF LeaveView
  <2> QED BY <1>0, <1>b, <2>1 DEF WorkspaceInv
<1>9. ASSUME ReturnToView PROVE WorkspaceInv'
  <2>1. cell' \in CellSet /\ mounted' = TRUE /\ UNCHANGED <<flights, dialog>>
    BY <1>9, <1>a DEF ReturnToView, WorkspaceInv
  <2> QED BY <1>0, <2>1 DEF WorkspaceInv
<1>10. ASSUME Navigate PROVE WorkspaceInv'
  <2>1. mounted' \in BOOLEAN /\ dialog' = dialog
    <3>1. mounted' = (scene.view \in DataViews) /\ dialog' = dialog
      BY <1>10 DEF Navigate
    <3>2. (scene.view \in DataViews) \in BOOLEAN
      OBVIOUS
    <3> QED BY <3>1, <3>2, Zenon
  <2>2. cell' \in CellSet
    BY <1>10 DEF Navigate, CellSet
  <2>3. flights' \in Seq(FlightSet)
    <3>1. CASE scene.view \in DataViews
      BY <1>10, <3>1, MovedFlights DEF Navigate
    <3>2. CASE scene.view \notin DataViews
      BY <1>10, <3>2, UnmountedFlights DEF Navigate
    <3> QED BY <3>1, <3>2
  <2> QED BY <1>0, <2>1, <2>2, <2>3 DEF WorkspaceInv
<1>11. CASE UNCHANGED workspaceVars
  BY <1>0, <1>11 DEF workspaceVars, WorkspaceInv
<1> QED
  BY <1>1, <1>2, <1>3, <1>4, <1>5, <1>6, <1>7, <1>8, <1>9, <1>10, <1>11 DEF WorkspaceNext

LEMMA WorkspaceInitTyped == WorkspaceInit => WorkspaceInv
<1> SUFFICES ASSUME WorkspaceInit PROVE WorkspaceInv
  OBVIOUS
<1>1. mounted = TRUE /\ cell = [data |-> "none", fetch |-> "sent"] /\ flights = <<>> /\ dialog = NoDialog
  BY DEF WorkspaceInit
<1>2. cell \in CellSet
  BY <1>1 DEF CellSet
<1>3. dialog \in DialogSet
  BY <1>1 DEF DialogSet, NoDialog
<1>4. flights \in Seq(FlightSet)
  BY <1>1, EmptySeq
<1> QED BY <1>1, <1>2, <1>3, <1>4 DEF WorkspaceInv

---------------------------------------------------------------------------
(* Workspace: one request of a guarded operation at a time. *)

Guard(f) == f.visit /\ Guarded(f.name)

\* A guarded request of this visit is the latest of what it uses, which no
\* other uses: no later call forgot it, and its button sees it.
GuardedOnce ==
  \A i \in InFlight : Guard(flights[i]) =>
    /\ flights[i].latest
    /\ \A j \in InFlight \ {i} : Guard(flights[j]) => OfFlight(j).uses # OfFlight(i).uses

LEMMA GuardedOnceKept ==
  ASSUME GuardedOnce, NEW from \in [DOMAIN flights' -> InFlight],
         \A j, k \in DOMAIN flights' : from[j] = from[k] => j = k,
         \A j \in DOMAIN flights' :
           /\ flights'[j].name = flights[from[j]].name
           /\ flights'[j].visit => flights[from[j]].visit
           /\ Guard(flights'[j]) /\ flights[from[j]].latest => flights'[j].latest
  PROVE  GuardedOnce'
<1>1. ASSUME NEW j \in DOMAIN flights', Guard(flights'[j])
      PROVE  /\ flights'[j].latest
             /\ \A k \in DOMAIN flights' \ {j} :
                  Guard(flights'[k]) => Ops[flights'[k].name].uses # Ops[flights'[j].name].uses
  <2>1. from[j] \in InFlight /\ Guard(flights[from[j]])
    BY <1>1 DEF Guard
  <2>2. flights'[j].latest
    BY <1>1, <2>1 DEF GuardedOnce
  <2>3. ASSUME NEW k \in DOMAIN flights' \ {j}, Guard(flights'[k])
        PROVE  Ops[flights'[k].name].uses # Ops[flights'[j].name].uses
    <3>1. from[k] \in InFlight \ {from[j]} /\ Guard(flights[from[k]])
      BY <2>3 DEF Guard
    <3> QED BY <2>1, <3>1 DEF GuardedOnce, OfFlight
  <2> QED BY <2>2, <2>3
<1> QED BY <1>1 DEF GuardedOnce, InFlight, OfFlight

\* What clears the flag of a request that ended clears no other's.
LEMMA UnguardedShare ==
  ASSUME SceneOK, WorkspaceInv, GuardedOnce, NEW i \in InFlight, NEW k \in InFlight \ {i},
         flights[i].visit, Guard(flights[k])
  PROVE  OfFlight(k).uses # OfFlight(i).uses
<1> SUFFICES ASSUME OfFlight(k).uses = OfFlight(i).uses PROVE FALSE
  OBVIOUS
<1>1. flights[i].name \in scene.menu /\ flights[k].name \in scene.menu
  BY FlightsNumbered DEF FlightSet
<1>2. Guarded(flights[i].name)
  BY <1>1, TableSound DEF SharedGuards, SceneOK, Guard, OfFlight
<1> QED BY <1>2 DEF GuardedOnce, Guard

LEMMA GuardedOnceStep ==
  ASSUME SceneOK, WorkspaceInv, GuardedOnce, [WorkspaceNext]_workspaceVars
  PROVE  GuardedOnce'
<1>1. CASE flights' = flights
  BY <1>1 DEF GuardedOnce, InFlight, OfFlight
<1>2. ASSUME DOMAIN flights' = InFlight,
             \A j \in InFlight : /\ flights'[j].name = flights[j].name
                                 /\ flights'[j].visit => flights[j].visit
                                 /\ Guard(flights'[j]) /\ flights[j].latest => flights'[j].latest
      PROVE  GuardedOnce'
  <2> DEFINE from == [j \in InFlight |-> j]
  <2>1. from \in [DOMAIN flights' -> InFlight] /\ \A j \in InFlight : from[j] = j
    BY <1>2
  <2> HIDE DEF from
  <2> QED BY <1>2, <2>1, GuardedOnceKept
<1>3. ASSUME NEW i \in InFlight,
             \A j \in DOMAIN flights' :
               /\ Skip(i, j) \in InFlight
               /\ flights'[j].name = flights[Skip(i, j)].name
               /\ flights'[j].visit => flights[Skip(i, j)].visit
               /\ Guard(flights'[j]) /\ flights[Skip(i, j)].latest => flights'[j].latest,
             \A j, k \in DOMAIN flights' : Skip(i, j) = Skip(i, k) => j = k
      PROVE  GuardedOnce'
  <2> DEFINE from == [j \in DOMAIN flights' |-> Skip(i, j)]
  <2>1. from \in [DOMAIN flights' -> InFlight] /\ \A j \in DOMAIN flights' : from[j] = Skip(i, j)
    BY <1>3
  <2> HIDE DEF from
  <2> QED BY <1>3, <2>1, GuardedOnceKept
<1>4. ASSUME NEW i \in InFlight, flights' = Ended(i) PROVE GuardedOnce'
  <2>1. /\ \A j \in DOMAIN flights' :
              /\ Skip(i, j) \in InFlight \ {i}
              /\ SameRequest(flights[Skip(i, j)], flights'[j])
              /\ flights'[j].visit = flights[Skip(i, j)].visit
              /\ (/\ flights[Skip(i, j)].latest
                  /\ flights[i].visit /\ OfFlight(i).uses \in Flags => OfFlight(Skip(i, j)).uses # OfFlight(i).uses)
                   => flights'[j].latest
        /\ \A j, k \in DOMAIN flights' : Skip(i, j) = Skip(i, k) => j = k
    BY <1>4, EndedFlights
  <2>2. ASSUME NEW j \in DOMAIN flights', Guard(flights'[j]), flights[Skip(i, j)].latest
        PROVE  flights'[j].latest
    <3>1. Guard(flights[Skip(i, j)]) /\ Skip(i, j) \in InFlight \ {i}
      BY <2>1, <2>2 DEF Guard, SameRequest
    <3>2. flights[i].visit => OfFlight(Skip(i, j)).uses # OfFlight(i).uses
      BY <3>1, UnguardedShare
    <3> QED BY <2>1, <2>2, <3>2
  <2> QED BY <1>3, <2>1, <2>2 DEF SameRequest
<1>5. ASSUME NEW i \in InFlight, flights' = RemoveAt(Disowned, i) PROVE GuardedOnce'
  <2>1. /\ \A j \in DOMAIN flights' :
              /\ Skip(i, j) \in InFlight \ {i}
              /\ SameRequest(flights[Skip(i, j)], flights'[j])
              /\ flights'[j].visit = flights[Skip(i, j)].visit
              /\ flights'[j].latest = flights[Skip(i, j)].latest
        /\ \A j, k \in DOMAIN flights' : Skip(i, j) = Skip(i, k) => j = k
    BY <1>5, ClosedFlights
  <2> QED BY <1>3, <2>1 DEF SameRequest
<1>6. ASSUME NEW n \in scene.menu, Submit(n) PROVE GuardedOnce'
  <2> DEFINE New == DOMAIN flights' \ InFlight
  <2>1. /\ \E items \in Selections(n) : ~Blocked(n, items[1])
        /\ InFlight \subseteq DOMAIN flights'
        /\ \A i \in InFlight : flights'[i] = Forgotten(Ops[n].uses)[i]
        /\ \A i \in New : flights'[i].name = n /\ flights'[i].visit
        /\ ~Ops[n].perItem /\ ~Ops[n].bulk => \A i, j \in New : i = j /\ flights'[i].latest
    BY <1>6, SubmitSends
  <2>2. \A i \in InFlight : /\ flights'[i].name = flights[i].name /\ flights'[i].visit = flights[i].visit
                            /\ flights[i].latest /\ OfFlight(i).uses # Ops[n].uses => flights'[i].latest
    BY <2>1, ForgottenFlights DEF SameRequest
  <2>3. n \in DOMAIN Ops /\ \A i \in InFlight : flights[i].name \in scene.menu /\ flights[i].name \in DOMAIN Ops
    BY FlightsNumbered DEF FlightSet, SceneOK
  <2> HIDE DEF New
  <2>4. ASSUME NEW i \in InFlight, Guard(flights[i]) PROVE OfFlight(i).uses # Ops[n].uses
    <3> SUFFICES ASSUME OfFlight(i).uses = Ops[n].uses PROVE FALSE
      OBVIOUS
    <3>1. Guarded(n)
      BY <2>3, <2>4, TableSound DEF SharedGuards, SceneOK, Guard, OfFlight
    <3>2. Ops[n].uses \in Ops[n].blockedBy /\ ~Ops[n].perItem
      BY <2>3, <3>1, TableSound DEF SelfBlocking
    <3>3. flights[i].latest
      BY <2>4 DEF GuardedOnce
    <3> QED BY <2>1, <3>2, <3>3 DEF Blocked
  <2>5. ASSUME NEW i \in New, Guarded(n) PROVE flights'[i].latest /\ \A j \in New : j = i
    BY <2>1, <2>3, <2>5, TableSound DEF SelfBlocking
  <2>6. ASSUME NEW i \in InFlight, Guard(flights'[i])
        PROVE  flights'[i].latest /\ Ops[flights'[i].name].uses # Ops[n].uses
    <3>1. Guard(flights[i])
      BY <2>2, <2>6 DEF Guard
    <3> QED BY <2>2, <2>4, <3>1 DEF GuardedOnce, OfFlight
  <2>7. ASSUME NEW i \in InFlight, NEW j \in InFlight \ {i}, Guard(flights'[i]), Guard(flights'[j])
        PROVE  Ops[flights'[j].name].uses # Ops[flights'[i].name].uses
    BY <2>2, <2>7 DEF GuardedOnce, OfFlight, Guard
  <2>8. ASSUME NEW i \in DOMAIN flights', Guard(flights'[i])
        PROVE  /\ flights'[i].latest
               /\ \A j \in DOMAIN flights' \ {i} : Guard(flights'[j]) =>
                    Ops[flights'[j].name].uses # Ops[flights'[i].name].uses
    <3>1. CASE i \in InFlight
      BY <2>1, <2>6, <2>7, <2>8, <3>1 DEF New
    <3>2. CASE i \in New
      <4>1. flights'[i].name = n /\ Guarded(n)
        BY <2>1, <2>8, <3>2 DEF Guard
      <4>2. \A j \in DOMAIN flights' \ {i} : j \in InFlight
        BY <2>5, <3>2, <4>1 DEF New
      <4> QED BY <2>5, <2>6, <3>2, <4>1, <4>2
    <3> QED BY <3>1, <3>2 DEF New
  <2> QED BY <2>8 DEF GuardedOnce, InFlight, OfFlight
<1>7. ASSUME NEW i \in InFlight, Apply(i) PROVE GuardedOnce'
  <2>1. flights' = [flights EXCEPT ![i].stage = "applied"]
    BY <1>7 DEF Apply
  <2>2. DOMAIN flights' = InFlight /\ \A j \in InFlight :
          /\ flights'[j].name = flights[j].name
          /\ flights'[j].visit = flights[j].visit
          /\ flights'[j].latest = flights[j].latest
    BY <2>1, AppliedFlights
  <2> QED BY <1>2, <2>2
<1>8. ASSUME NEW i \in InFlight, Succeed(i) \/ Fail(i) PROVE GuardedOnce'
  BY <1>4, <1>5, <1>8 DEF Succeed, Fail
<1>9. ASSUME CloseDialog PROVE GuardedOnce'
  <2>1. flights' = Disowned
    BY <1>9 DEF CloseDialog
  <2> QED BY <1>2, <2>1, DisownedFlights DEF SameRequest
<1>10. ASSUME LeaveView PROVE GuardedOnce'
  <2>1. flights' = Unmounted(TRUE)
    BY <1>10 DEF LeaveView
  <2> QED BY <1>2, <2>1, UnmountedFlights DEF SameRequest, Guard
<1>11. ASSUME Navigate PROVE GuardedOnce'
  <2>1. CASE scene.view \in DataViews
    <3>1. flights' = [i \in InFlight |-> [flights[i] EXCEPT !.here = FALSE]]
      BY <1>11, <2>1 DEF Navigate
    <3> QED BY <1>2, <3>1, MovedFlights DEF SameRequest
  <2>2. CASE scene.view \notin DataViews
    <3>1. flights' = Unmounted(FALSE)
      BY <1>11, <2>2 DEF Navigate
    <3> QED BY <1>2, <3>1, UnmountedFlights DEF SameRequest, Guard
  <2> QED BY <2>1, <2>2
<1> QED
  BY <1>1, <1>6, <1>7, <1>8, <1>9, <1>10, <1>11
  DEF WorkspaceNext, workspaceVars, Read, Arrive, FetchFails, Focus, RefreshAll, OpenDialog, ReturnToView

LEMMA NothingInFlight == WorkspaceInit => flights = <<>> /\ InFlight = {}
<1> SUFFICES ASSUME WorkspaceInit PROVE flights = <<>> /\ InFlight = {}
  OBVIOUS
<1>1. flights = <<>>
  BY DEF WorkspaceInit
<1>2. Len(flights) = 0
  BY <1>1, EmptySeq
<1>3. InFlight = 1..Len(flights)
  BY FlightsNumbered, WorkspaceInitTyped
<1> QED BY <1>1, <1>2, <1>3

\* No request but those of the Unguarded is sent a second time while the first is
\* pending, whatever the view and however many operations and requests there are.
THEOREM WorkspaceNoDoubleSubmission == WorkspaceSpec => []NoDoubleSubmission
<1>1. WorkspaceInit => GuardedOnce
  BY NothingInFlight DEF GuardedOnce
<1>2. SceneOK /\ [WorkspaceNext]_workspaceVars => SceneOK'
  BY SceneStays DEF SceneOK
<1>3. GuardedOnce => NoDoubleSubmission
  BY DEF GuardedOnce, NoDoubleSubmission, Guard, Guarded, OfFlight
<1> QED
  BY <1>1, <1>2, <1>3, SceneInit, WorkspaceInitTyped, WorkspaceStepTyped, GuardedOnceStep, PTL DEF WorkspaceSpec

---------------------------------------------------------------------------
(* Workspace: a dialog closes with what it saved. *)

\* A request that is still its dialog's was sent in this visit from the dialog
\* that is open, which has saved nothing yet; and if its callback is to close the
\* dialog, no later call has taken it away.
DialogOwns ==
  /\ dialog.saved = FALSE
  /\ dialog.of # "" => dialog.of \in DOMAIN Ops /\ Ops[dialog.of].via # "button"
  /\ \A i \in InFlight : flights[i].own => /\ flights[i].visit /\ dialog.of = flights[i].name
                                           /\ OfFlight(i).closes = "hook" \/ flights[i].latest

\* The two halves of DialogOwns after a step.
LEMMA DialogOwnsFrom ==
  ASSUME dialog'.saved = FALSE,
         dialog'.of # "" => dialog'.of \in DOMAIN Ops /\ Ops[dialog'.of].via # "button",
         \A i \in DOMAIN flights' : flights'[i].own =>
           /\ flights'[i].visit /\ dialog'.of = flights'[i].name
           /\ Ops[flights'[i].name].closes = "hook" \/ flights'[i].latest
  PROVE  DialogOwns'
<1>1. \A i \in InFlight' : flights'[i].own =>
        /\ flights'[i].visit /\ dialog'.of = flights'[i].name
        /\ OfFlight(i)'.closes = "hook" \/ flights'[i].latest
  BY DEF InFlight, OfFlight
<1> QED BY <1>1, Zenon DEF DialogOwns

LEMMA DialogOwnsStep ==
  ASSUME SceneOK, WorkspaceInv, DialogOwns, [WorkspaceNext]_workspaceVars
  PROVE  DialogOwns'
<1>0. NoDialog.of = "" /\ NoDialog.saved = FALSE
  BY DEF NoDialog
<1>a. \A i \in InFlight : /\ flights[i].name \in scene.menu /\ flights[i].name \in DOMAIN Ops /\ flights[i].name # ""
                          /\ flights[i].own \in BOOLEAN
  BY FlightsNumbered, TableSound DEF FlightSet, SceneOK
<1>b. \A n \in scene.menu : n \in DOMAIN Ops /\ n # ""
  BY TableSound DEF SceneOK
<1>1. CASE flights' = flights /\ dialog' = dialog
  BY <1>1 DEF DialogOwns, InFlight, OfFlight
<1>2. ASSUME NEW n \in scene.menu, OpenDialog(n)
      PROVE  DialogOwns'
  <2>1. dialog.of = "" /\ Ops[n].via # "button" /\ flights' = flights /\ dialog'.of = n /\ dialog'.saved = FALSE
    BY <1>0, <1>2 DEF OpenDialog
  <2>2. \A i \in InFlight : ~flights[i].own
    BY <1>a, <2>1 DEF DialogOwns
  <2> QED BY <1>b, <2>1, <2>2 DEF DialogOwns, InFlight
<1>3. ASSUME NEW n \in scene.menu, Submit(n)
      PROVE  DialogOwns'
  <2> DEFINE New == DOMAIN flights' \ InFlight
  <2>1. /\ \E items \in Selections(n) : ~Blocked(n, items[1])
        /\ InFlight \subseteq DOMAIN flights'
        /\ \A i \in InFlight : flights'[i] = Forgotten(Ops[n].uses)[i]
        /\ \A i \in New : flights'[i].name = n /\ flights'[i].visit /\ (flights'[i].own => Ops[n].via # "button")
        /\ ~Ops[n].perItem /\ ~Ops[n].bulk => \A i \in New : flights'[i].latest
    BY <1>3, SubmitSends
  <2>2. \A i \in InFlight : /\ flights'[i].name = flights[i].name /\ flights'[i].visit = flights[i].visit
                            /\ flights'[i].own = flights[i].own
    BY <2>1, ForgottenFlights DEF SameRequest
  <2>3. dialog' = dialog /\ Reachable(n)
    BY <1>3 DEF Submit
  <2> HIDE DEF New
\* While its callback is to come, the button of the dialog is disabled.
  <2>4. ASSUME NEW i \in InFlight, flights[i].own PROVE OfFlight(i).closes = "hook"
    <3> SUFFICES ASSUME OfFlight(i).closes # "hook" PROVE FALSE
      OBVIOUS
    <3>1. dialog.of = flights[i].name /\ flights[i].latest /\ dialog # NoDialog
      BY <1>0, <1>a, <2>4 DEF DialogOwns
    <3>2. Ops[flights[i].name].via # "button" /\ n = flights[i].name
      BY <1>a, <2>3, <3>1 DEF DialogOwns, Reachable
    <3>3. ClosesLocally(n)
      BY <1>b, <3>2, TableSound DEF DialogsClose, OfFlight
    <3> QED BY <2>1, <3>1, <3>2, <3>3 DEF ClosesLocally, Blocked, OfFlight
  <2>5. ASSUME NEW i \in New, flights'[i].own
        PROVE  flights'[i].visit /\ dialog.of = n /\ (Ops[n].closes = "hook" \/ flights'[i].latest)
    <3>1. Ops[n].via # "button" /\ flights'[i].visit
      BY <2>1, <2>5
    <3>2. Ops[n].closes = "hook" \/ ClosesLocally(n)
      BY <1>b, <3>1, TableSound DEF DialogsClose
    <3> QED BY <2>1, <2>3, <3>1, <3>2 DEF Reachable, ClosesLocally
  <2>6. ASSUME NEW i \in DOMAIN flights', flights'[i].own
        PROVE  /\ flights'[i].visit /\ dialog'.of = flights'[i].name
               /\ Ops[flights'[i].name].closes = "hook" \/ flights'[i].latest
    <3>1. CASE i \in InFlight
      BY <2>2, <2>3, <2>4, <2>6, <3>1 DEF DialogOwns, OfFlight
    <3>2. CASE i \in New
      BY <2>1, <2>3, <2>5, <2>6, <3>2
    <3> QED BY <3>1, <3>2 DEF New
  <2>7. /\ dialog'.saved = FALSE
        /\ dialog'.of # "" => dialog'.of \in DOMAIN Ops /\ Ops[dialog'.of].via # "button"
    BY <2>3 DEF DialogOwns
  <2> QED BY <2>6, <2>7, DialogOwnsFrom
<1>4. ASSUME NEW i \in InFlight, Apply(i)
      PROVE  DialogOwns'
  <2>1. flights' = [flights EXCEPT ![i].stage = "applied"] /\ dialog' = dialog
    BY <1>4 DEF Apply
  <2>2. DOMAIN flights' = InFlight /\ \A j \in InFlight :
          /\ flights'[j].name = flights[j].name
          /\ flights'[j].visit = flights[j].visit /\ flights'[j].latest = flights[j].latest
          /\ flights'[j].own = flights[j].own
    BY <2>1, AppliedFlights
  <2>3. /\ dialog'.saved = FALSE
        /\ dialog'.of # "" => dialog'.of \in DOMAIN Ops /\ Ops[dialog'.of].via # "button"
    BY <2>1 DEF DialogOwns
  <2>4. ASSUME NEW j \in DOMAIN flights', flights'[j].own
        PROVE  /\ flights'[j].visit /\ dialog'.of = flights'[j].name
               /\ Ops[flights'[j].name].closes = "hook" \/ flights'[j].latest
    BY <2>1, <2>2, <2>4 DEF DialogOwns, OfFlight
  <2> QED BY <2>3, <2>4, DialogOwnsFrom
<1>5. ASSUME NEW i \in InFlight, flights' = Ended(i), dialog'.of = dialog.of, dialog'.saved = FALSE
      PROVE  DialogOwns'
  <2>1. \A j \in DOMAIN flights' :
              /\ Skip(i, j) \in InFlight \ {i}
              /\ SameRequest(flights[Skip(i, j)], flights'[j])
              /\ flights'[j].visit = flights[Skip(i, j)].visit /\ flights'[j].own = flights[Skip(i, j)].own
              /\ (/\ flights[Skip(i, j)].latest
                  /\ flights[i].visit /\ OfFlight(i).uses \in Flags => OfFlight(Skip(i, j)).uses # OfFlight(i).uses)
                   => flights'[j].latest
    BY <1>5, EndedFlights
  <2>2. ASSUME NEW j \in DOMAIN flights', flights'[j].own
        PROVE  /\ flights'[j].visit /\ dialog'.of = flights'[j].name
               /\ Ops[flights'[j].name].closes = "hook" \/ flights'[j].latest
    <3> DEFINE k == Skip(i, j)
    <3>1. k \in InFlight /\ flights[k].own /\ flights'[j].name = flights[k].name
      BY <2>1, <2>2 DEF SameRequest
    <3>2. /\ flights[k].visit /\ dialog.of = flights[k].name
          /\ OfFlight(k).closes = "hook" \/ flights[k].latest
      BY <3>1 DEF DialogOwns
    <3>3. OfFlight(k).closes = "hook" \/ OfFlight(k).uses \notin Flags
      <4>1. flights[k].name \in DOMAIN Ops /\ OfFlight(k).via # "button"
        BY <1>a, <3>1, <3>2 DEF DialogOwns, OfFlight
      <4> QED BY <4>1, TableSound DEF DialogsClose, ClosesLocally, OfFlight
    <3>4. OfFlight(k).closes = "hook" \/ flights'[j].latest
      BY <2>1, <3>2, <3>3
    <3> QED BY <1>5, <2>1, <3>1, <3>2, <3>4 DEF OfFlight
  <2>3. dialog'.of # "" => dialog'.of \in DOMAIN Ops /\ Ops[dialog'.of].via # "button"
    BY <1>5 DEF DialogOwns
  <2> QED BY <1>5, <2>2, <2>3, DialogOwnsFrom
<1>6. ASSUME NEW i \in InFlight, Succeed(i)
      PROVE  DialogOwns'
  <2>1. CASE ClosesDialog(i)
    <3>1. flights' = RemoveAt(Disowned, i) /\ dialog' = NoDialog
      BY <1>6, <2>1 DEF Succeed
    <3>2. \A j \in DOMAIN flights' : flights'[j].own = FALSE
      BY <3>1, ClosedFlights
    <3> QED BY <1>0, <3>1, <3>2 DEF DialogOwns, InFlight
  <2>2. CASE ~ClosesDialog(i)
    <3>1. flights' = Ended(i) /\ dialog' = [dialog EXCEPT !.saved = dialog.saved \/ flights[i].own]
      BY <1>6, <2>2 DEF Succeed
    <3>2. flights[i].own = FALSE
      <4> SUFFICES ASSUME flights[i].own PROVE ClosesDialog(i)
        BY <1>a, <2>2
      <4>1. flights[i].visit /\ dialog.of = flights[i].name
        BY DEF DialogOwns
      <4>2. dialog # NoDialog /\ Ops[dialog.of].via = OfFlight(i).via /\ OfFlight(i).via # "button"
        BY <1>0, <1>a, <4>1 DEF DialogOwns, OfFlight
      <4>3. OfFlight(i).closes = "hook" \/ OfFlight(i).closes = "local"
        BY <1>a, <4>2, TableSound DEF DialogsClose, ClosesLocally, OfFlight
      <4>4. OfFlight(i).closes = "local" => CalledBack(i)
        BY <4>1 DEF DialogOwns, CalledBack
      <4> QED BY <4>1, <4>2, <4>3, <4>4 DEF ClosesDialog
    <3>3. dialog'.of = dialog.of /\ dialog'.saved = FALSE
      <4>1. dialog \in DialogSet /\ dialog.saved = FALSE
        BY DEF WorkspaceInv, DialogOwns
      <4>2. (dialog.saved \/ flights[i].own) = FALSE
        BY <3>2, <4>1
      <4> QED BY <3>1, <4>1, <4>2 DEF DialogSet
    <3> QED BY <1>5, <3>1, <3>3
  <2> QED BY <2>1, <2>2
<1>7. ASSUME NEW i \in InFlight, Fail(i)
      PROVE  DialogOwns'
  <2>1. flights' = Ended(i) /\ dialog' = dialog
    BY <1>7 DEF Fail
  <2> QED BY <1>5, <2>1 DEF DialogOwns
<1>8. ASSUME DOMAIN flights' = InFlight, \A i \in InFlight : flights'[i].own = FALSE, dialog' = NoDialog
      PROVE  DialogOwns'
  BY <1>0, <1>8 DEF DialogOwns, InFlight
<1>9. ASSUME CloseDialog \/ LeaveView
      PROVE  DialogOwns'
  <2>1. dialog' = NoDialog /\ (flights' = Disowned \/ flights' = Unmounted(TRUE))
    BY <1>9 DEF CloseDialog, LeaveView
  <2> QED BY <1>8, <2>1, DisownedFlights, UnmountedFlights
<1>10. ASSUME Navigate
      PROVE  DialogOwns'
  <2>1. dialog' = NoDialog /\ dialog = NoDialog
    BY <1>10 DEF Navigate
  <2>2. \A i \in InFlight : flights[i].own = FALSE
    BY <1>0, <1>a, <2>1 DEF DialogOwns
  <2>3. CASE scene.view \in DataViews
    <3>1. flights' = [i \in InFlight |-> [flights[i] EXCEPT !.here = FALSE]]
      BY <1>10, <2>3 DEF Navigate
    <3> QED BY <1>8, <2>1, <2>2, <3>1, MovedFlights
  <2>4. CASE scene.view \notin DataViews
    <3>1. flights' = Unmounted(FALSE)
      BY <1>10, <2>4 DEF Navigate
    <3> QED BY <1>8, <2>1, <3>1, UnmountedFlights
  <2> QED BY <2>3, <2>4
<1> QED
  BY <1>1, <1>2, <1>3, <1>4, <1>6, <1>7, <1>9, <1>10
  DEF WorkspaceNext, workspaceVars, Read, Arrive, FetchFails, Focus, RefreshAll, ReturnToView

\* A dialog is not left open with what it has already saved.
THEOREM WorkspaceDialogCloses == WorkspaceSpec => []SavedDialogCloses
<1>1. WorkspaceInit => DialogOwns
  <2> SUFFICES ASSUME WorkspaceInit PROVE DialogOwns
    OBVIOUS
  <2>1. dialog = NoDialog
    BY DEF WorkspaceInit
  <2>2. dialog.of = "" /\ dialog.saved = FALSE
    BY <2>1 DEF NoDialog
  <2> QED BY <2>2, NothingInFlight DEF DialogOwns
<1>2. SceneOK /\ [WorkspaceNext]_workspaceVars => SceneOK'
  BY SceneStays DEF SceneOK
<1>3. DialogOwns => SavedDialogCloses
  BY DEF DialogOwns, SavedDialogCloses
<1> QED
  BY <1>1, <1>2, <1>3, SceneInit, WorkspaceInitTyped, WorkspaceStepTyped, DialogOwnsStep, PTL DEF WorkspaceSpec

---------------------------------------------------------------------------
(* Workspace: what is out of date has a reason, or is about to be fetched. *)

\* A request that was carried out on what is on screen and has not answered:
\* its answer will invalidate the query, or leave a reason.
Owes(f, at) == f.here /\ f.stage = "applied" /\ at.query \in Changes(at.dbType, Ops[f.name].request)
Owed == why # "" \/ \E i \in InFlight : Owes(flights[i], scene)

StaleIsOwed ==
  OnScreen => /\ cell.data = "stale" => cell.fetch \in {"sent", "fresh"} \/ Owed
              /\ cell.fetch = "stale" => Owed

LEMMA RefetchedStale ==
  ASSUME WorkspaceInv
  PROVE  /\ Refetched(cell).data = cell.data
         /\ cell.data # "none" => Refetched(cell).fetch = "sent"
         /\ Refetched(cell).fetch \in {"sent", cell.fetch}
         /\ FetchIfIdle.data = cell.data
         /\ FetchIfIdle.fetch = (IF cell.fetch = "idle" THEN "sent" ELSE cell.fetch)
<1>1. cell \in CellSet
  BY DEF WorkspaceInv
<1> QED BY <1>1 DEF Refetched, FetchIfIdle, CellSet

\* The list of the omissions is complete: an answer that neither fetches the
\* query again nor finds it waiting for a first load leaves a reason.
LEMMA OmissionGiven ==
  ASSUME SceneOK, WorkspaceInv, NEW i \in InFlight, scene.query \in Changes(scene.dbType, OfFlight(i).request),
         scene.query \in InvalidatedBy(i) => cell.data = "none"
  PROVE  Omission(i) # ""
<1> DEFINE n == flights[i].name
           q == scene.query
<1>1. n \in scene.menu /\ n \in DOMAIN Ops /\ Ops[n].view = scene.view /\ scene.dbType \in Ops[n].on
  BY FlightsNumbered DEF FlightSet, SceneOK
<1>2. q \in Matches(Ops[n].hook) \cup Matches(Ops[n].local) \cup NotInvalidated[n]
  <2>1. Changes(scene.dbType, Ops[n].request) \cap Shows(scene.dbType, Ops[n].view)
          \subseteq Matches(Ops[n].hook) \cup Matches(Ops[n].local) \cup NotInvalidated[n]
    BY <1>1, TableSound DEF AnswersCover
  <2>2. q \in Changes(scene.dbType, Ops[n].request) /\ q \in Shows(scene.dbType, Ops[n].view)
    BY <1>1 DEF SceneOK, OfFlight
  <2> QED BY <2>1, <2>2
<1>3. Matches(Ops[n].hook) \subseteq InvalidatedBy(i)
  BY DEF Matches, InvalidatedBy, OfFlight
<1>4. CASE q \in InvalidatedBy(i)
  BY <1>4 DEF Omission
<1>5. CASE q \notin InvalidatedBy(i)
  <2>1. q \in Matches(OfFlight(i).local) \/ q \in NotInvalidated[n]
    BY <1>2, <1>3, <1>5 DEF OfFlight
  <2> QED BY <1>5, <2>1 DEF Omission
<1> QED BY <1>4, <1>5

LEMMA StaleIsOwedStep ==
  ASSUME SceneOK, WorkspaceInv, StaleIsOwed, [WorkspaceNext]_workspaceVars
  PROVE  StaleIsOwed'
<1>0. scene' = scene /\ cell \in CellSet
  BY SceneStays DEF WorkspaceInv
<1>a. ASSUME mounted' = mounted PROVE OnScreen' = OnScreen
  BY <1>0, <1>a DEF OnScreen
\* What was owed is owed while its request is in flight and about the screen.
<1>b. ASSUME \A i \in InFlight : \E j \in DOMAIN flights' :
               SameRequest(flights[i], flights'[j]) /\ flights'[j].here = flights[i].here,
             why' = why, Owed
      PROVE  Owed'
  <2>1. ASSUME NEW i \in InFlight, Owes(flights[i], scene)
        PROVE  \E j \in DOMAIN flights' : Owes(flights'[j], scene')
    <3>1. PICK j \in DOMAIN flights' : SameRequest(flights[i], flights'[j]) /\ flights'[j].here = flights[i].here
      BY <1>b
    <3> QED BY <1>0, <2>1, <3>1 DEF Owes, SameRequest
  <2> QED BY <1>b, <2>1 DEF Owed, InFlight
<1>c. CASE UNCHANGED <<mounted, cell, flights, why>>
  <2>1. Owed => Owed'
    BY <1>0, <1>c DEF Owed, Owes, InFlight
  <2> QED BY <1>a, <1>c, <2>1 DEF StaleIsOwed
<1>1. ASSUME Read \/ Focus \/ RefreshAll PROVE StaleIsOwed'
  <2>1. UNCHANGED <<mounted, flights, why>>
    BY <1>1 DEF Read, Focus, RefreshAll
  <2>2. Owed => Owed'
    BY <1>0, <2>1 DEF Owed, Owes, InFlight
  <2>3. \/ cell'.data = cell.data /\ cell'.fetch \in {"sent", "fresh"}
        \/ cell'.data = cell.data /\ cell'.fetch = cell.fetch
    <3>1. ASSUME Read PROVE cell'.data = cell.data /\ cell'.fetch = "fresh"
      BY <1>0, <3>1 DEF Read, CellSet
    <3> QED BY <1>1, <3>1, RefetchedStale DEF Focus, RefreshAll
  <2> QED BY <1>a, <2>1, <2>2, <2>3 DEF StaleIsOwed
<1>2. ASSUME Arrive PROVE StaleIsOwed'
  <2>1. UNCHANGED <<mounted, flights>> /\ cell'.data = cell.fetch /\ cell'.fetch = "idle"
    BY <1>2 DEF Arrive
  <2>2. CASE cell.fetch = "fresh"
    BY <2>1, <2>2 DEF StaleIsOwed
  <2>3. CASE cell.fetch = "stale"
    <3>1. why' = why
      BY <1>2, <2>3 DEF Arrive
    <3>2. Owed => Owed'
      BY <1>0, <2>1, <3>1 DEF Owed, Owes, InFlight
    <3> QED BY <1>a, <2>1, <2>3, <3>2 DEF StaleIsOwed
  <2> QED BY <1>2, <2>2, <2>3 DEF Arrive
<1>3. ASSUME FetchFails PROVE StaleIsOwed'
  <2>1. cell'.data = cell.data /\ cell'.fetch = "idle" /\ why' = StaleBecause("fetch failed", cell')
    BY <1>0, <1>3 DEF FetchFails, CellSet
  <2>2. cell'.data = "stale" => why' # ""
    BY <2>1 DEF StaleBecause
  <2> QED BY <2>1, <2>2 DEF StaleIsOwed, Owed
<1>4. ASSUME NEW n \in scene.menu, Submit(n) PROVE StaleIsOwed'
  <2>1. \A i \in InFlight :
          i \in DOMAIN flights' /\ SameRequest(flights[i], flights'[i]) /\ flights'[i].here = flights[i].here
    BY <1>4, SubmitSends, ForgottenFlights
  <2>2. UNCHANGED <<mounted, cell, why>>
    BY <1>4 DEF Submit
  <2>3. Owed => Owed'
    BY <1>b, <2>1, <2>2
  <2> QED BY <1>a, <2>2, <2>3 DEF StaleIsOwed
<1>5. ASSUME NEW i \in InFlight, Apply(i) PROVE StaleIsOwed'
  <2>1. flights' = [flights EXCEPT ![i].stage = "applied"] /\ UNCHANGED <<mounted, why>> /\ flights[i].stage = "sent"
    BY <1>5 DEF Apply
  <2>2. /\ DOMAIN flights' = InFlight /\ \A k \in InFlight \ {i} : flights'[k] = flights[k]
        /\ flights'[i].stage = "applied" /\ flights'[i].name = flights[i].name /\ flights'[i].here = flights[i].here
    BY <2>1, AppliedFlights
  <2>3. Owed => Owed'
    <3>1. ASSUME NEW k \in InFlight, Owes(flights[k], scene) PROVE Owes(flights'[k], scene')
      <4>1. k # i
        BY <2>1, <3>1 DEF Owes
      <4> QED BY <1>0, <2>2, <3>1, <4>1 DEF Owes
    <3> QED BY <2>1, <2>2, <3>1 DEF Owed, InFlight
  <2>4. CASE flights[i].here /\ scene.query \in Changes(scene.dbType, OfFlight(i).request)
    <3>1. Owes(flights'[i], scene')
      BY <1>0, <2>2, <2>4 DEF Owes, OfFlight
    <3> QED BY <2>2, <3>1 DEF StaleIsOwed, Owed, InFlight
  <2>5. CASE ~(flights[i].here /\ scene.query \in Changes(scene.dbType, OfFlight(i).request))
    <3>1. cell' = cell
      BY <1>5, <2>5 DEF Apply
    <3> QED BY <1>a, <2>1, <2>3, <3>1 DEF StaleIsOwed
  <2> QED BY <2>4, <2>5
\* A request that is over and owed nothing takes nothing that is owed with it.
<1>d. ASSUME NEW i \in InFlight, ~Owes(flights[i], scene), why' = why, Owed,
             flights' = Ended(i) \/ flights' = RemoveAt(Disowned, i)
      PROVE  Owed'
  <2>1. \A k \in InFlight \ {i} : \E j \in DOMAIN flights' :
          SameRequest(flights[k], flights'[j]) /\ flights'[j].here = flights[k].here
    <3>1. CASE flights' = Ended(i)
      <4>1. \A k \in InFlight \ {i} : \E j \in DOMAIN Ended(i) :
              SameRequest(flights[k], Ended(i)[j]) /\ Ended(i)[j].here = flights[k].here
        BY EndedFlights
      <4> QED BY <3>1, <4>1, Zenon
    <3>2. CASE flights' = RemoveAt(Disowned, i)
      <4>1. \A k \in InFlight \ {i} : \E j \in DOMAIN RemoveAt(Disowned, i) :
              SameRequest(flights[k], RemoveAt(Disowned, i)[j]) /\ RemoveAt(Disowned, i)[j].here = flights[k].here
        BY ClosedFlights
      <4> QED BY <3>2, <4>1, Zenon
    <3> QED BY <1>d, <3>1, <3>2
  <2>2. ASSUME NEW k \in InFlight, Owes(flights[k], scene)
        PROVE  \E j \in DOMAIN flights' : Owes(flights'[j], scene')
    <3>1. k # i
      BY <1>d, <2>2
    <3>2. PICK j \in DOMAIN flights' : SameRequest(flights[k], flights'[j]) /\ flights'[j].here = flights[k].here
      BY <2>1, <3>1
    <3> QED BY <1>0, <2>2, <3>2 DEF Owes, SameRequest
  <2> QED BY <1>d, <2>2 DEF Owed, InFlight
<1>6. ASSUME NEW i \in InFlight, Succeed(i) PROVE StaleIsOwed'
  <2>1. /\ mounted' = mounted /\ flights[i].stage = "applied"
        /\ flights' = Ended(i) \/ flights' = RemoveAt(Disowned, i)
        /\ cell' = IF OnScreen /\ flights[i].here /\ scene.query \in InvalidatedBy(i) THEN Refetched(cell) ELSE cell
    BY <1>6 DEF Succeed
  <2>2. cell'.data = cell.data /\ (cell'.fetch = cell.fetch \/ cell'.fetch = "sent")
    BY <2>1, RefetchedStale
  <2>3. CASE ~Owes(flights[i], scene)
    <3>1. why' = why
      BY <1>6, <2>1, <2>3 DEF Succeed, Owes, OfFlight
    <3>2. Owed => Owed'
      BY <1>d, <2>1, <2>3, <3>1
    <3> QED BY <1>a, <2>1, <2>2, <3>2 DEF StaleIsOwed
  <2>4. CASE Owes(flights[i], scene)
    <3>1. why' = StaleBecause(Omission(i), cell') /\ scene.query \in Changes(scene.dbType, OfFlight(i).request) /\ flights[i].here
      BY <1>6, <2>4 DEF Succeed, Owes, OfFlight
    <3>2. CASE OnScreen /\ scene.query \in InvalidatedBy(i) /\ cell.data # "none"
      <4>1. cell'.fetch = "sent"
        BY <2>1, <3>1, <3>2, RefetchedStale
      <4> QED BY <4>1 DEF StaleIsOwed
    <3>3. CASE OnScreen /\ ~(scene.query \in InvalidatedBy(i) /\ cell.data # "none")
      <4>1. Omission(i) # ""
        BY <3>1, <3>3, OmissionGiven
      <4>2. cell'.data = "stale" \/ cell'.fetch = "stale" => why' # ""
        BY <3>1, <4>1 DEF StaleBecause
      <4> QED BY <4>2 DEF StaleIsOwed, Owed
    <3>4. CASE ~OnScreen
      BY <1>a, <2>1, <3>4 DEF StaleIsOwed
    <3> QED BY <3>2, <3>3, <3>4
  <2> QED BY <2>3, <2>4
<1>7. ASSUME NEW i \in InFlight, Fail(i) PROVE StaleIsOwed'
  <2>1. flights' = Ended(i) /\ cell' = cell /\ mounted' = mounted
    BY <1>7 DEF Fail
  <2>2. CASE ~Owes(flights[i], scene)
    <3>1. why' = why
      BY <1>7, <2>2 DEF Fail, Owes, OfFlight
    <3>2. Owed => Owed'
      BY <1>d, <2>1, <2>2, <3>1
    <3> QED BY <1>a, <2>1, <3>2 DEF StaleIsOwed
  <2>3. CASE Owes(flights[i], scene)
    <3>1. why' = StaleBecause("request failed", cell)
      BY <1>7, <2>3 DEF Fail, Owes, OfFlight
    <3>2. cell'.data = "stale" \/ cell'.fetch = "stale" => why' # ""
      BY <2>1, <3>1 DEF StaleBecause
    <3> QED BY <3>2 DEF StaleIsOwed, Owed
  <2> QED BY <2>2, <2>3
<1>8. ASSUME CloseDialog PROVE StaleIsOwed'
  <2>1. flights' = Disowned /\ UNCHANGED <<mounted, cell, why>>
    BY <1>8 DEF CloseDialog
  <2>2. Owed => Owed'
    BY <1>b, <2>1, DisownedFlights
  <2> QED BY <1>a, <2>1, <2>2 DEF StaleIsOwed
<1>9. ASSUME LeaveView PROVE StaleIsOwed'
  <2>1. flights' = Unmounted(TRUE) /\ UNCHANGED <<cell, why>> /\ mounted
    BY <1>9 DEF LeaveView
  <2>2. \A i \in InFlight : i \in DOMAIN flights' /\ SameRequest(flights[i], flights'[i])
                             /\ (flights'[i].here <=> flights[i].here)
    BY <2>1, UnmountedFlights
  <2>3. Owed => Owed'
    <3>1. ASSUME NEW i \in InFlight, Owes(flights[i], scene) PROVE Owes(flights'[i], scene')
      BY <1>0, <2>2, <3>1 DEF Owes, SameRequest
    <3> QED BY <2>1, <2>2, <3>1 DEF Owed, InFlight
  <2> QED BY <2>1, <2>3 DEF StaleIsOwed, OnScreen
<1>10. ASSUME ReturnToView PROVE StaleIsOwed'
  <2>1. /\ flights' = flights /\ mounted'
        /\ cell' = IF OnScreen THEN cell ELSE FetchIfIdle
        /\ why' = IF ~OnScreen /\ cell.fetch = "stale" THEN "joined an old fetch" ELSE why
    BY <1>10 DEF ReturnToView
  <2>2. CASE OnScreen
    <3>1. cell' = cell /\ why' = why
      BY <2>1, <2>2
    <3>2. Owed => Owed'
      BY <1>0, <2>1, <3>1 DEF Owed, Owes, InFlight
    <3> QED BY <2>2, <3>1, <3>2 DEF StaleIsOwed
  <2>3. CASE ~OnScreen
    <3>1. cell'.fetch = IF cell.fetch = "idle" THEN "sent" ELSE cell.fetch
      BY <2>1, <2>3, RefetchedStale
    <3>2. cell'.fetch # "stale" => cell'.fetch \in {"sent", "fresh"}
      BY <1>0, <3>1 DEF CellSet
    <3>3. cell'.fetch = "stale" => why' # ""
      BY <2>1, <2>3, <3>1
    <3> QED BY <3>2, <3>3 DEF StaleIsOwed, Owed
  <2> QED BY <2>2, <2>3
<1>11. ASSUME Navigate PROVE StaleIsOwed'
  <2>1. cell'.data = "none" /\ cell'.fetch \in {"sent", "idle"}
    BY <1>11 DEF Navigate
  <2> QED BY <2>1 DEF StaleIsOwed
<1> QED
  BY <1>c, <1>1, <1>2, <1>3, <1>4, <1>5, <1>6, <1>7, <1>8, <1>9, <1>10, <1>11
  DEF WorkspaceNext, workspaceVars, OpenDialog

\* When nothing is in flight any more, a view that shows old data has a reason
\* that the table of Views, a failure or a race names.
THEOREM WorkspaceQuietIsFresh == WorkspaceSpec => []QuietIsFresh
<1>1. WorkspaceInit => StaleIsOwed
  <2> SUFFICES ASSUME WorkspaceInit PROVE StaleIsOwed
    OBVIOUS
  <2>1. cell.data = "none" /\ cell.fetch = "sent"
    BY DEF WorkspaceInit
  <2> QED BY <2>1 DEF StaleIsOwed
<1>2. SceneOK /\ [WorkspaceNext]_workspaceVars => SceneOK'
  BY SceneStays DEF SceneOK
<1>3. StaleIsOwed => QuietIsFresh
  <2> SUFFICES ASSUME StaleIsOwed, OnScreen, InFlight = {}, cell = [data |-> "stale", fetch |-> "idle"]
               PROVE  why # ""
    BY DEF QuietIsFresh
  <2>1. cell.data = "stale" /\ cell.fetch = "idle"
    OBVIOUS
  <2>2. Owed
    BY <2>1 DEF StaleIsOwed
  <2> QED BY <2>2 DEF Owed
<1> QED
  BY <1>1, <1>2, <1>3, SceneInit, WorkspaceInitTyped, WorkspaceStepTyped, StaleIsOwedStep, PTL DEF WorkspaceSpec

\* The flags and stages of a request, the dialog and the query stay in their types.
THEOREM WorkspaceTyped == WorkspaceSpec => []WorkspaceTypeOK
<1>1. WorkspaceInv => WorkspaceTypeOK
  BY FlightsNumbered DEF WorkspaceInv, WorkspaceTypeOK, FlightSet, CellSet, DialogSet
<1> QED
  BY <1>1, WorkspaceInitTyped, WorkspaceStepTyped, PTL DEF WorkspaceSpec

=============================================================================
