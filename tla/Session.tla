------------------------------- MODULE Session -------------------------------
(***************************************************************************)
(* A browser's sessions with the backend (src/backend/src/sonclarus/auth): *)
(* login or signup stores a refresh-token row and sends a cookie and an    *)
(* access token, refresh rotates the row, logout revokes it and puts the   *)
(* access token on Redis' blacklist.  Refresh and logout calls are         *)
(* processes with one action per await.                                    *)
(*                                                                         *)
(* The row columns are the committed values; a transaction's own UPDATE    *)
(* stays in its call until the commit, which follows the response, and     *)
(* other UPDATEs of the row wait for it.  Time is in ticks.                *)
(***************************************************************************)
EXTENDS Integers, FiniteSets

CONSTANTS Sessions,         \* the logins
          Calls,            \* the refresh and logout requests
          SlidingWindow,    \* RefreshTokenService.SLIDING_WINDOW
          MaxSessionWindow, \* RefreshTokenService.MAX_SESSION_WINDOW
          AccessLifetime,   \* jwt.access_token_expire_minutes
          TicksPerSecond,   \* JWT expiries and Redis lifetimes are whole seconds
          MaxTime           \* bound: the clock stops here

ASSUME SessionAssumption ==
    /\ Sessions \cap Calls = {}
    /\ SlidingWindow \in Nat /\ MaxSessionWindow \in Nat
    /\ SlidingWindow <= MaxSessionWindow
    /\ TicksPerSecond \in Nat \ {0}
    /\ AccessLifetime \in Nat /\ AccessLifetime % TicksPerSecond = 0
    /\ MaxTime \in Nat

None == "none"

ASSUME NoneAssumption == None \notin Sessions \cup Calls

(* A token is named for the login or the refresh call that issued it; the  *)
(* access token issued with it has the same name.                          *)
Tokens == Sessions \cup Calls

VARIABLES
    now,
    login,             \* login of each session: "none", "open", "done", "lost"
    hashed_token,      \* refresh_tokens.hashed_token, None when there is no row
    is_revoked,        \* refresh_tokens.is_revoked
    expires_at,        \* refresh_tokens.expires_at
    max_window_limit,  \* refresh_tokens.max_window_limit
    row_lock,          \* the call whose transaction has written the row
    cookie,            \* the refresh token in the browser's cookie jar
    bearer,            \* the access token the browser uses
    exp,               \* expiry claim of each access token
    blacklist,         \* when the token's blacklist key expires in Redis
    pc,                \* where each call is
    sent,              \* the refresh token in its cookie
    shown,             \* the valid access token in its header, for logout
    asked,             \* the time its handler read
    target,            \* the session whose row it found
    response           \* the cookie header on its way to the browser

rowVars  == <<hashed_token, is_revoked, expires_at, max_window_limit>>
webVars  == <<cookie, bearer>>
jwtVars  == <<exp, blacklist>>
callVars == <<sent, shown, asked, target>>
vars == <<now, login, rowVars, row_lock, webVars, jwtVars, pc, callVars, response>>

Refreshing == {"read", "update", "commit_refresh"}
LoggingOut == {"revoke", "blacklist", "commit_logout"}
Ended == {"refreshed", "rejected", "logged_out", "failed"}

TypeOK ==
    /\ now \in 0 .. MaxTime
    /\ login \in [Sessions -> {"none", "open", "done", "lost"}]
    /\ hashed_token \in [Sessions -> Tokens \cup {None}]
    /\ is_revoked \in [Sessions -> BOOLEAN]
    /\ expires_at \in [Sessions -> Nat]
    /\ max_window_limit \in [Sessions -> Nat]
    /\ row_lock \in [Sessions -> Calls \cup {None}]
    /\ cookie \in Tokens \cup {None}
    /\ bearer \in Tokens \cup {None}
    /\ exp \in [Tokens -> Nat]
    /\ blacklist \in [Tokens -> Nat]
    /\ pc \in [Calls -> {"idle"} \cup Refreshing \cup LoggingOut \cup Ended]
    /\ sent \in [Calls -> Tokens \cup {None}]
    /\ shown \in [Calls -> Tokens \cup {None}]
    /\ asked \in [Calls -> 0 .. MaxTime]
    /\ target \in [Calls -> Sessions \cup {None}]
    /\ response \in [Calls -> {"none", "set", "delete"}]

Init ==
    /\ now = 0
    /\ login = [s \in Sessions |-> "none"]
    /\ hashed_token = [s \in Sessions |-> None]
    /\ is_revoked = [s \in Sessions |-> FALSE]
    /\ expires_at = [s \in Sessions |-> 0]
    /\ max_window_limit = [s \in Sessions |-> 0]
    /\ row_lock = [s \in Sessions |-> None]
    /\ cookie = None
    /\ bearer = None
    /\ exp = [t \in Tokens |-> 0]
    /\ blacklist = [t \in Tokens |-> 0]
    /\ pc = [c \in Calls |-> "idle"]
    /\ sent = [c \in Calls |-> None]
    /\ shown = [c \in Calls |-> None]
    /\ asked = [c \in Calls |-> 0]
    /\ target = [c \in Calls |-> None]
    /\ response = [c \in Calls |-> "none"]

-----------------------------------------------------------------------------
(* Time and access tokens.                                                 *)

Tick ==
    /\ now < MaxTime
    /\ now' = now + 1
    /\ UNCHANGED <<login, rowVars, row_lock, webVars, jwtVars, pc, callVars, response>>

(* int(time): the whole second, in ticks.                                  *)
Whole(t) == t - (t % TicksPerSecond)

(* create_access_token                                                     *)
Expiry == Whole(now) + AccessLifetime

(* decode_and_verify_token accepts the token.                              *)
Unexpired(t) == now < exp[t]

(* current_user_dep lets a request with this access token through.         *)
Accepted(t) == Unexpired(t) /\ ~(now < blacklist[t])

-----------------------------------------------------------------------------
(* Login and signup: the row is committed after the response.              *)

(* RefreshTokenService.create: the dates of the new row.                   *)
CreateToken(s) ==
    /\ expires_at' = [expires_at EXCEPT ![s] = now + SlidingWindow]
    /\ max_window_limit' = [max_window_limit EXCEPT ![s] = now + MaxSessionWindow]

(* _issue_tokens                                                           *)
IssueTokens(s) ==
    /\ exp' = [exp EXCEPT ![s] = Expiry]
    /\ CreateToken(s)

Login(s) ==
    /\ login[s] = "none"
    /\ login' = [login EXCEPT ![s] = "open"]
    /\ IssueTokens(s)
    /\ cookie' = s
    /\ bearer' = s
    /\ UNCHANGED <<now, hashed_token, is_revoked, row_lock, blacklist, pc, callVars, response>>

CommitLogin(s) ==
    /\ login[s] = "open"
    /\ login' = [login EXCEPT ![s] = "done"]
    /\ hashed_token' = [hashed_token EXCEPT ![s] = s]
    /\ UNCHANGED <<now, is_revoked, expires_at, max_window_limit, row_lock, webVars,
                   jwtVars, pc, callVars, response>>

LoseLogin(s) ==
    /\ login[s] = "open"
    /\ login' = [login EXCEPT ![s] = "lost"]
    /\ UNCHANGED <<now, rowVars, row_lock, webVars, jwtVars, pc, callVars, response>>

-----------------------------------------------------------------------------
Goto(c, label) == pc' = [pc EXCEPT ![c] = label]

(* The row a refresh token belongs to.                                     *)
RowsOf(t) == {s \in Sessions : hashed_token[s] = t}

(* refresh: the handler gets the cookie and reads the clock.               *)
Refresh(c) ==
    /\ pc[c] = "idle"
    /\ cookie # None
    /\ sent' = [sent EXCEPT ![c] = cookie]
    /\ asked' = [asked EXCEPT ![c] = now]
    /\ Goto(c, "read")
    /\ UNCHANGED <<now, login, rowVars, row_lock, webVars, jwtVars, shown, target, response>>

Valid(s, time) ==
    ~is_revoked[s] /\ time < max_window_limit[s] /\ time < expires_at[s]

(* Fault: the row is updated by the token it was issued with, not by its id. *)
ReadTokenOnly(c) ==
    /\ pc[c] = "read"
    /\ \E s \in RowsOf(sent[c]) : Valid(s, asked[c])
    /\ target' = [target EXCEPT ![c] = sent[c]]
    /\ Goto(c, "update")
    /\ UNCHANGED <<now, login, rowVars, row_lock, webVars, jwtVars, sent, shown, asked,
                   response>>

(* get_by_hash and the checks of rotate; a rejection deletes the cookie.   *)
ReadToken(c) ==
    /\ pc[c] = "read"
    /\ \/ \E s \in RowsOf(sent[c]) :
             /\ Valid(s, asked[c])
             /\ target' = [target EXCEPT ![c] = s]
             /\ Goto(c, "update")
             /\ UNCHANGED response
       \/ /\ \A s \in RowsOf(sent[c]) : ~Valid(s, asked[c])
          /\ response' = [response EXCEPT ![c] = "delete"]
          /\ Goto(c, "rejected")
          /\ UNCHANGED target
    /\ UNCHANGED <<now, login, rowVars, row_lock, webVars, jwtVars, sent, shown, asked>>

(* UPDATE ... WHERE id: the new token and its response; the commit comes    *)
(* after the response.                                                     *)
UpdateToken(c) ==
    /\ pc[c] = "update"
    /\ row_lock[target[c]] = None
    /\ row_lock' = [row_lock EXCEPT ![target[c]] = c]
    /\ exp' = [exp EXCEPT ![c] = Expiry]
    /\ response' = [response EXCEPT ![c] = "set"]
    /\ Goto(c, "commit_refresh")
    /\ UNCHANGED <<now, login, rowVars, webVars, blacklist, callVars>>

(* Fault: the new expiry is not cut at the end of the session window.      *)
NextExpiryUncut(time, limit) == time + SlidingWindow

(* calculate_next_expiry                                                   *)
NextExpiry(time, limit) ==
    IF time + SlidingWindow < limit THEN time + SlidingWindow ELSE limit

(* Fault: the whole row is written back as it was read.                    *)
CommitRefreshWholeRow(c) ==
    /\ pc[c] = "commit_refresh"
    /\ LET s == target[c]
       IN  /\ hashed_token' = [hashed_token EXCEPT ![s] = c]
           /\ expires_at' = [expires_at EXCEPT ![s] =
                                NextExpiry(asked[c], max_window_limit[s])]
           /\ is_revoked' = [is_revoked EXCEPT ![s] = FALSE]
           /\ row_lock' = [row_lock EXCEPT ![s] = None]
    /\ Goto(c, "refreshed")
    /\ UNCHANGED <<now, login, max_window_limit, webVars, jwtVars, callVars, response>>

CommitRefresh(c) ==
    /\ pc[c] = "commit_refresh"
    /\ LET s == target[c]
       IN  /\ hashed_token' = [hashed_token EXCEPT ![s] = c]
           /\ expires_at' = [expires_at EXCEPT ![s] =
                                NextExpiry(asked[c], max_window_limit[s])]
           /\ row_lock' = [row_lock EXCEPT ![s] = None]
    /\ Goto(c, "refreshed")
    /\ UNCHANGED <<now, login, is_revoked, max_window_limit, webVars, jwtVars, callVars,
                   response>>

-----------------------------------------------------------------------------
(* logout: the handler gets the cookie and the claims of an access token    *)
(* that has not expired, and reads the clock.                              *)
Logout(c) ==
    /\ pc[c] = "idle"
    /\ \E s \in Sessions : login[s] # "none"
    /\ sent' = [sent EXCEPT ![c] = cookie]
    /\ shown' = [shown EXCEPT ![c] =
                    IF bearer # None /\ Unexpired(bearer) THEN bearer ELSE None]
    /\ asked' = [asked EXCEPT ![c] = now]
    /\ Goto(c, IF cookie = None THEN "blacklist" ELSE "revoke")
    /\ UNCHANGED <<now, login, rowVars, row_lock, webVars, jwtVars, target, response>>

(* UPDATE ... WHERE hashed_token: finds the row by the token it has once   *)
(* no other transaction holds it, or nothing.                              *)
RevokeToken(c) ==
    /\ pc[c] = "revoke"
    /\ \A s \in RowsOf(sent[c]) : row_lock[s] = None
    /\ \/ \E s \in RowsOf(sent[c]) :
             /\ row_lock' = [row_lock EXCEPT ![s] = c]
             /\ target' = [target EXCEPT ![c] = s]
       \/ RowsOf(sent[c]) = {} /\ UNCHANGED <<row_lock, target>>
    /\ Goto(c, "blacklist")
    /\ UNCHANGED <<now, login, rowVars, webVars, jwtVars, sent, shown, asked, response>>

(* Fault: the difference is taken first and rounded down.                  *)
RemainingRounded(c) == Whole(exp[shown[c]] - asked[c])

(* exp - int(now), in whole seconds.                                       *)
Remaining(c) == exp[shown[c]] - Whole(asked[c])

(* add_jti_to_blacklist: a Redis key with a lifetime.                      *)
AddToBlacklist(t, lifetime) ==
    blacklist' = IF lifetime > 0 THEN [blacklist EXCEPT ![t] = now + lifetime]
                                 ELSE blacklist

(* The rest of logout, and the response that deletes the cookie.           *)
BlacklistToken(c) ==
    /\ pc[c] = "blacklist"
    /\ IF shown[c] # None THEN AddToBlacklist(shown[c], Remaining(c))
                          ELSE UNCHANGED blacklist
    /\ response' = [response EXCEPT ![c] = IF sent[c] = None THEN "none" ELSE "delete"]
    /\ Goto(c, "commit_logout")
    /\ UNCHANGED <<now, login, rowVars, row_lock, webVars, exp, callVars>>

CommitLogout(c) ==
    /\ pc[c] = "commit_logout"
    /\ IF target[c] = None THEN UNCHANGED <<is_revoked, row_lock>>
       ELSE /\ is_revoked' = [is_revoked EXCEPT ![target[c]] = TRUE]
            /\ row_lock' = [row_lock EXCEPT ![target[c]] = None]
    /\ Goto(c, "logged_out")
    /\ UNCHANGED <<now, login, hashed_token, expires_at, max_window_limit, webVars, jwtVars,
                   callVars, response>>

-----------------------------------------------------------------------------
(* PostgreSQL or Redis raises, or the process dies: the transaction is     *)
(* rolled back; a response that was sent stays sent.                       *)
Fail(c) ==
    /\ pc[c] \in Refreshing \cup LoggingOut
    /\ row_lock' = [s \in Sessions |-> IF row_lock[s] = c THEN None ELSE row_lock[s]]
    /\ Goto(c, "failed")
    /\ UNCHANGED <<now, login, rowVars, webVars, jwtVars, callVars, response>>

(* The browser applies the response; a client that refreshed uses the new  *)
(* access token from now on.                                               *)
Receive(c) ==
    /\ response[c] # "none"
    /\ IF response[c] = "set" THEN cookie' = c /\ bearer' = c
                              ELSE cookie' = None /\ UNCHANGED bearer
    /\ response' = [response EXCEPT ![c] = "none"]
    /\ UNCHANGED <<now, login, rowVars, row_lock, jwtVars, pc, callVars>>

CallStep(c) ==
    \/ Refresh(c) \/ ReadToken(c) \/ UpdateToken(c) \/ CommitRefresh(c)
    \/ Logout(c) \/ RevokeToken(c) \/ BlacklistToken(c) \/ CommitLogout(c)
    \/ Fail(c) \/ Receive(c)

Next ==
    \/ Tick
    \/ \E s \in Sessions : Login(s) \/ CommitLogin(s) \/ LoseLogin(s)
    \/ \E c \in Calls : CallStep(c)

Spec == Init /\ [][Next]_vars

-----------------------------------------------------------------------------
(* Properties.                                                             *)

(* A row that a logout has revoked stays revoked, although a refresh that  *)
(* read it before may still update it afterwards (auth/services.py:161,    *)
(* auth/repository.py:48).                                                 *)
RevokedStaysRevoked ==
    \A c \in Calls : pc[c] = "logged_out" /\ target[c] # None => is_revoked[target[c]]

(* No sequence of refreshes, whatever clock values their handlers read     *)
(* before they wait for the row, extends a session past the window fixed   *)
(* at its login.                                                           *)
WindowRespected ==
    \A s \in Sessions : expires_at[s] <= max_window_limit[s]

(* An access token that a logout presented is never accepted again: its    *)
(* blacklist key, counted in whole seconds from a later moment, does not   *)
(* expire before the token (auth/routers.py:140, auth/repository.py:61).   *)
LoggedOutTokenIsDead ==
    \A c \in Calls : pc[c] \in {"commit_logout", "logged_out"} /\ shown[c] # None
        => ~Accepted(shown[c])

(* The session a refresh token was issued for.                             *)
SessionOf(t) == IF t \in Sessions THEN t ELSE target[t]

(* "Revoke the current session" (backend/README.md:95): when a logout that *)
(* brought the cookie of a stored session has ended, that session is       *)
(* revoked.                                                                *)
LogoutRevokes ==
    \A c \in Calls : pc[c] = "logged_out" /\ sent[c] # None =>
        LET s == SessionOf(sent[c])
        IN  hashed_token[s] # None => is_revoked[s]
=============================================================================
