------------------------------ MODULE Sessions ------------------------------
(***************************************************************************)
(* Sign-in sessions: the row behind a token, the cookie that carries the   *)
(* token, and the sliding expiry that keeps the two alive.                 *)
(*                                                                         *)
(*   internal/auth/auth.go   login, callback, startSession, logout,        *)
(*                           session (RequireAuth)                         *)
(*   internal/db/queries.go  CreateSession, SessionUser, RefreshSession,   *)
(*                           DeleteSession                                 *)
(*                                                                         *)
(* Times are relative: what is left of a row's or a cookie's life, in      *)
(* units of which the lifetime has Life; Tick lets one pass.  A request    *)
(* reads the row and refreshes it in two statements, so time and other     *)
(* requests pass between them, and its answer may be late or lost.         *)
(*                                                                         *)
(* Abstracted: the identity provider's part of the callback is whether it  *)
(* succeeds; a token is issued fresh (randomToken: 32 random bytes).        *)
(***************************************************************************)
EXTENDS Naturals

CONSTANTS
  Browsers,    \* who signs in; a jar of cookies each
  Tokens,      \* what randomToken may draw, each once
  NoToken,     \* no cookie
  Life         \* auth.go sessionTTL, in units of time

VARIABLES
  rows,        \* sessions: what is left of each token's row, or NoRow
  issued,       \* the tokens handed out so far
  jar,         \* the session cookie of each browser
  state,       \* the browsers holding a login's state cookie
  asks         \* the request each browser has in flight

sessionVars == <<rows, issued, jar, state, asks>>

NoRow == Life + 1

Cookie == [token : Tokens \cup {NoToken}, left : 0..Life]
Empty  == [token |-> NoToken, left |-> 0]

\* A request: none; one that passed SessionUser; one answered, with or without
\* the cookie set again.
Ask == [step : {"none", "known", "answered"}, token : Tokens \cup {NoToken}, again : BOOLEAN]
NoAsk == [step |-> "none", token |-> NoToken, again |-> FALSE]

ASSUME SessionAssumption ==
  /\ NoToken \notin Tokens
  /\ Life \in Nat \ {0}

SessionTypeOK ==
  /\ rows \in [Tokens -> 0..Life \cup {NoRow}]
  /\ issued \subseteq Tokens
  /\ jar \in [Browsers -> Cookie]
  /\ state \subseteq Browsers
  /\ asks \in [Browsers -> Ask]

SessionInit ==
  /\ rows = [t \in Tokens |-> NoRow]
  /\ issued = {}
  /\ jar = [b \in Browsers |-> Empty]
  /\ state = {}
  /\ asks = [b \in Browsers |-> NoAsk]

\* expires_at > unixepoch()
Live(t) == rows[t] \in 1..Life

\* What the browser sends: a cookie past its Max-Age is not sent.
Sent(b) == IF jar[b].left > 0 THEN jar[b].token ELSE NoToken

------------------------------------------------------------------------------
\* login: the state and verifier cookies, one thing here.
Login(b) ==
  /\ state' = state \cup {b}
  /\ UNCHANGED <<rows, issued, jar, asks>>

\* callback: they are spent whatever happens; without them, or with a provider that
\* refuses, there is no session.
CallbackRefused(b) ==
  /\ b \in state
  /\ state' = state \ {b}
  /\ UNCHANGED <<rows, issued, jar, asks>>

\* startSession: a fresh token, its row, its cookie.
Callback(b, t) ==
  /\ b \in state /\ t \notin issued
  /\ state' = state \ {b}
  /\ issued' = issued \cup {t}
  /\ rows' = [rows EXCEPT ![t] = Life]
  /\ jar' = [jar EXCEPT ![b] = [token |-> t, left |-> Life]]
  /\ UNCHANGED asks

\* clearCookie, in an answer that may be lost.
Cleared(b) == jar' \in {jar, [jar EXCEPT ![b] = Empty]}

\* logout: DeleteSession, for a cookie that was sent, and the cookie cleared.
Logout(b) ==
  /\ rows' = IF Sent(b) = NoToken THEN rows ELSE [rows EXCEPT ![Sent(b)] = NoRow]
  /\ Cleared(b)
  /\ UNCHANGED <<issued, state, asks>>

\* logout, when DeleteSession fails: that is only logged, and the answer is the same.
LogoutFails(b) ==
  /\ Sent(b) # NoToken
  /\ Cleared(b)
  /\ UNCHANGED <<rows, issued, state, asks>>

\* session, first statement: SessionUser, which treats an expired row as absent.
SessionFound(b) ==
  /\ asks[b] = NoAsk /\ Sent(b) # NoToken /\ Live(Sent(b))
  /\ asks' = [asks EXCEPT ![b] = [step |-> "known", token |-> Sent(b), again |-> FALSE]]
  /\ UNCHANGED <<rows, issued, jar, state>>

\* Mutant: any row of the token is extended, live or not.
DueUngated(t) == rows[t] # NoRow /\ rows[t] < Life \div 2

\* RefreshSession's WHERE clause: live, and past half its life.
Due(t) == Live(t) /\ rows[t] < Life \div 2

\* Second statement: RefreshSession.  When it failed or had nothing to do the
\* answer leaves the cookie alone.
SessionRefreshed(b) ==
  LET t == asks[b].token IN
  /\ asks[b].step = "known"
  /\ \/ /\ Due(t)
        /\ rows' = [rows EXCEPT ![t] = Life]
        /\ asks' = [asks EXCEPT ![b].step = "answered", ![b].again = TRUE]
     \/ /\ asks' = [asks EXCEPT ![b].step = "answered"]
        /\ UNCHANGED rows
  /\ UNCHANGED <<issued, jar, state>>

\* The answer arrives, and its Set-Cookie with it; or it is lost.
Answered(b) ==
  /\ asks[b].step = "answered"
  /\ asks' = [asks EXCEPT ![b] = NoAsk]
  /\ jar' \in {jar} \cup
       (IF asks[b].again THEN {[jar EXCEPT ![b] = [token |-> asks[b].token, left |-> Life]]}
        ELSE {})
  /\ UNCHANGED <<rows, issued, state>>

Minus(n) == IF n = 0 THEN 0 ELSE n - 1

SessionTick ==
  /\ rows' = [t \in Tokens |-> IF rows[t] = NoRow THEN NoRow ELSE Minus(rows[t])]
  /\ jar' = [b \in Browsers |-> [jar[b] EXCEPT !.left = Minus(@)]]
  /\ UNCHANGED <<issued, state, asks>>

Browsing(b) ==
  \/ Login(b) \/ CallbackRefused(b) \/ (\E t \in Tokens : Callback(b, t))
  \/ Logout(b) \/ LogoutFails(b) \/ SessionFound(b) \/ SessionRefreshed(b) \/ Answered(b)

SessionNext == SessionTick \/ \E b \in Browsers : Browsing(b)

SessionSpec == SessionInit /\ [][SessionNext]_sessionVars

------------------------------------------------------------------------------
\* A session that expired, or whose row a logout deleted, stays so: a request that
\* found it live and refreshes it a moment later, after the expiry or after the
\* logout, does not bring it back, and neither does the cookie its answer sets.  A
\* logout that could not delete the row ends nothing, whatever auth.go says of it
\* ("/auth/logout revokes the session"): the row is as live as before.
SessionsEnd ==
  [][\A t \in issued : ~Live(t) => rows'[t] \in {rows[t], NoRow}]_sessionVars
==============================================================================
