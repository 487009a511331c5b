---------------------------- MODULE SessionProofs ----------------------------
(* Proofs about Session and Accounts, for any number of logins, signups    *)
(* and calls, any windows and lifetimes and any clock.                     *)
(*                                                                         *)
(* Every step of Accounts is a step of Session or none to it, so the       *)
(* session's invariant carries over.  The accounts add that an open insert *)
(* and a committed user exclude each other, and that an open login has its *)
(* user with it.                                                           *)
EXTENDS Accounts, FiniteSetTheorems, TLAPS

USE SessionAssumption, NoneAssumption

-----------------------------------------------------------------------------
(* The inductive invariant.                                                *)

(* The token has been issued: its expiry claim stays as it is.             *)
Issued(t) ==
    /\ t \in Sessions => login[t] # "none"
    /\ t \in Calls => pc[t] \in {"commit_refresh", "refreshed", "failed"}

(* The browser has only what was issued to it, and shows only that.        *)
IssuedInv ==
    /\ bearer # None => Issued(bearer)
    /\ \A c \in Calls : /\ shown[c] # None => Issued(shown[c])
                        /\ response[c] = "set" => Issued(c)

(* A call has read a clock that cannot be ahead, and updates a row it has  *)
(* found under the token it brought.                                       *)
CallInv ==
    \A c \in Calls :
        /\ asked[c] <= now
        /\ pc[c] = "read" => sent[c] # None
        /\ pc[c] \in {"update", "commit_refresh"} =>
              target[c] \in Sessions /\ hashed_token[target[c]] # None

(* A row is stored by the commit of its login.                             *)
StoredInv == \A s \in Sessions : hashed_token[s] # None => login[s] = "done"

(* Whoever has blacklisted a token has done so until it expires.           *)
BlacklistInv ==
    \A c \in Calls : pc[c] \in {"commit_logout", "logged_out"} /\ shown[c] # None =>
        exp[shown[c]] <= now \/ exp[shown[c]] <= blacklist[shown[c]]

SInv ==
    /\ TypeOK
    /\ IssuedInv /\ CallInv /\ StoredInv /\ BlacklistInv
    /\ RevokedStaysRevoked /\ WindowRespected

-----------------------------------------------------------------------------
(* Whole seconds.                                                          *)

LEMMA WholeType ==
    ASSUME NEW t \in Nat
    PROVE  Whole(t) \in Nat /\ Whole(t) <= t
<1>1. t % TicksPerSecond \in 0 .. TicksPerSecond - 1
  OBVIOUS
<1>2. t % TicksPerSecond <= t
  OBVIOUS
<1> QED
  BY <1>1, <1>2 DEF Whole

LEMMA ExpiryType == ASSUME now \in Nat PROVE Expiry \in Nat
BY WholeType DEF Expiry

LEMMA InitHolds == Init => SInv
<1> SUFFICES ASSUME Init PROVE SInv
  OBVIOUS
<1>1. TypeOK
  BY DEF Init, TypeOK, Tokens
<1>2. IssuedInv /\ CallInv /\ StoredInv /\ BlacklistInv
  BY DEF Init, IssuedInv, CallInv, StoredInv, BlacklistInv
<1>3. RevokedStaysRevoked /\ WindowRespected
  BY DEF Init, RevokedStaysRevoked, WindowRespected
<1> QED
  BY <1>1, <1>2, <1>3 DEF SInv

-----------------------------------------------------------------------------
(* Time and logins.                                                        *)

LEMMA TickStep ==
    ASSUME SInv, Tick
    PROVE  SInv'
<1>1. /\ TypeOK /\ IssuedInv /\ CallInv /\ StoredInv /\ BlacklistInv
      /\ RevokedStaysRevoked /\ WindowRespected
  BY DEF SInv
<1>2. /\ now \in Nat /\ now' = now + 1 /\ now' \in 0 .. MaxTime
      /\ UNCHANGED <<login, rowVars, row_lock, webVars, jwtVars, pc, callVars, response>>
  BY <1>1 DEF Tick, TypeOK
<1> USE DEF rowVars, webVars, jwtVars, callVars
<1>3. TypeOK'
  BY <1>1, <1>2 DEF TypeOK
<1>4. IssuedInv' /\ StoredInv' /\ RevokedStaysRevoked' /\ WindowRespected'
  BY <1>1, <1>2 DEF IssuedInv, Issued, StoredInv, RevokedStaysRevoked, WindowRespected
<1>5. CallInv'
  BY <1>1, <1>2 DEF CallInv, TypeOK
<1>6. BlacklistInv'
  <2> SUFFICES ASSUME NEW c \in Calls, pc[c] \in {"commit_logout", "logged_out"},
                      shown[c] # None
               PROVE  exp[shown[c]] <= now + 1 \/ exp[shown[c]] <= blacklist[shown[c]]
    BY <1>2 DEF BlacklistInv
  <2>1. exp[shown[c]] \in Nat
    BY <1>1 DEF TypeOK
  <2> QED
    BY <1>1, <1>2, <2>1 DEF BlacklistInv
<1> QED
  BY <1>3, <1>4, <1>5, <1>6 DEF SInv

(* A login issues a token that nobody can have shown or hold yet.          *)
LEMMA LoginStep ==
    ASSUME SInv, NEW s \in Sessions, Login(s)
    PROVE  SInv'
<1>1. /\ TypeOK /\ IssuedInv /\ CallInv /\ StoredInv /\ BlacklistInv
      /\ RevokedStaysRevoked /\ WindowRespected
  BY DEF SInv
<1>2. /\ login[s] = "none" /\ login' = [login EXCEPT ![s] = "open"]
      /\ exp' = [exp EXCEPT ![s] = Expiry]
      /\ expires_at' = [expires_at EXCEPT ![s] = now + SlidingWindow]
      /\ max_window_limit' = [max_window_limit EXCEPT ![s] = now + MaxSessionWindow]
      /\ cookie' = s /\ bearer' = s
      /\ UNCHANGED <<now, hashed_token, is_revoked, row_lock, blacklist, pc, callVars,
                     response>>
  BY DEF Login, IssueTokens, CreateToken
<1> USE DEF callVars
<1>3. s \in Tokens /\ s # None /\ s \notin Calls /\ now \in Nat /\ Expiry \in Nat
  BY <1>1, ExpiryType DEF TypeOK, Tokens
<1>4. TypeOK'
  BY <1>1, <1>2, <1>3 DEF TypeOK
<1>5. \A t \in Tokens : Issued(t) => t # s /\ Issued(t)'
  BY <1>1, <1>2, <1>3 DEF Issued, TypeOK
<1>6. IssuedInv'
  <2>1. Issued(s)'
    BY <1>1, <1>2, <1>3 DEF Issued, TypeOK
  <2> QED
    BY <1>1, <1>2, <1>5, <2>1 DEF IssuedInv, Issued, TypeOK, Tokens
<1>7. CallInv' /\ RevokedStaysRevoked'
  BY <1>1, <1>2 DEF CallInv, RevokedStaysRevoked
<1>8. StoredInv'
  BY <1>1, <1>2 DEF StoredInv, TypeOK
<1>9. BlacklistInv'
  <2>1. \A c \in Calls : shown[c] # None => shown[c] # s /\ exp'[shown[c]] = exp[shown[c]]
    BY <1>1, <1>2, <1>5 DEF IssuedInv, TypeOK
  <2> QED
    BY <1>1, <1>2, <2>1 DEF BlacklistInv
<1>10. WindowRespected'
  BY <1>1, <1>2, <1>3 DEF WindowRespected, TypeOK
<1> QED
  BY <1>4, <1>6, <1>7, <1>8, <1>9, <1>10 DEF SInv

LEMMA EndLoginStep ==
    ASSUME SInv, NEW s \in Sessions, CommitLogin(s) \/ LoseLogin(s)
    PROVE  SInv'
<1>1. /\ TypeOK /\ IssuedInv /\ CallInv /\ StoredInv /\ BlacklistInv
      /\ RevokedStaysRevoked /\ WindowRespected
  BY DEF SInv
<1>2. /\ login[s] = "open"
      /\ \/ /\ login' = [login EXCEPT ![s] = "done"]
            /\ hashed_token' = [hashed_token EXCEPT ![s] = s]
         \/ login' = [login EXCEPT ![s] = "lost"] /\ hashed_token' = hashed_token
      /\ UNCHANGED <<now, is_revoked, expires_at, max_window_limit, row_lock, webVars,
                     jwtVars, pc, callVars, response>>
  BY DEF CommitLogin, LoseLogin, rowVars
<1> USE DEF webVars, jwtVars, callVars
<1>3. s \in Tokens /\ s # None
  BY DEF Tokens
<1>4. TypeOK'
  BY <1>1, <1>2, <1>3 DEF TypeOK
<1>5. IssuedInv'
  <2>1. \A t \in Tokens : Issued(t) => Issued(t)'
    BY <1>1, <1>2 DEF Issued, TypeOK
  <2> QED
    BY <1>1, <1>2, <2>1 DEF IssuedInv, Issued, TypeOK, Tokens
<1>6. CallInv'
  BY <1>1, <1>2, <1>3 DEF CallInv, TypeOK
<1>7. StoredInv'
  BY <1>1, <1>2 DEF StoredInv, TypeOK
<1>8. BlacklistInv' /\ RevokedStaysRevoked' /\ WindowRespected'
  BY <1>1, <1>2 DEF BlacklistInv, RevokedStaysRevoked, WindowRespected
<1> QED
  BY <1>4, <1>5, <1>6, <1>7, <1>8 DEF SInv

-----------------------------------------------------------------------------
(* The calls.                                                              *)

(* A call that only moves on, its own reading of the browser, the row or   *)
(* the lock apart.                                                         *)
LEMMA IssuedStays ==
    ASSUME TypeOK, IssuedInv, UNCHANGED <<login, bearer>>, NEW c \in Calls,
           \A d \in Calls : d # c => pc'[d] = pc[d],
           Issued(c) => Issued(c)',
           \A d \in Calls : shown'[d] # None => Issued(shown'[d]),
           \A d \in Calls : response'[d] = "set" => response[d] = "set" \/ Issued(d)'
    PROVE  IssuedInv'
<1>1. \A t : Issued(t) => Issued(t)'
  BY DEF Issued
<1>2. bearer' # None => Issued(bearer)'
  <2>1. PICK t : t = bearer
    OBVIOUS
  <2>2. bearer # None => Issued(t)'
    BY <1>1, <2>1 DEF IssuedInv
  <2> QED
    BY <2>1, <2>2 DEF Issued
<1>3. ASSUME NEW d \in Calls, shown'[d] # None PROVE Issued(shown[d])'
  <2>1. PICK t : t = shown'[d]
    OBVIOUS
  <2>2. Issued(t)'
    BY <1>1, <1>3, <2>1
  <2> QED
    BY <2>1, <2>2 DEF Issued
<1>4. \A d \in Calls : response'[d] = "set" => Issued(d)'
  BY <1>1 DEF IssuedInv
<1> QED
  BY <1>2, <1>3, <1>4 DEF IssuedInv

(* The handler of a call starts: it takes the cookie, the access token if  *)
(* it is a logout, and the time.                                           *)
LEMMA BeginStep ==
    ASSUME SInv, NEW c \in Calls, Refresh(c) \/ Logout(c)
    PROVE  SInv'
<1>1. /\ TypeOK /\ IssuedInv /\ CallInv /\ StoredInv /\ BlacklistInv
      /\ RevokedStaysRevoked /\ WindowRespected
  BY DEF SInv
<1>2. /\ pc[c] = "idle" /\ sent' = [sent EXCEPT ![c] = cookie]
      /\ asked' = [asked EXCEPT ![c] = now]
      /\ \/ pc' = [pc EXCEPT ![c] = "read"] /\ cookie # None
         \/ pc' = [pc EXCEPT ![c] = "blacklist"] \/ pc' = [pc EXCEPT ![c] = "revoke"]
      /\ shown' = shown \/ shown' = [shown EXCEPT ![c] =
                               IF bearer # None /\ Unexpired(bearer) THEN bearer ELSE None]
      /\ UNCHANGED <<now, login, rowVars, row_lock, webVars, jwtVars, target, response>>
  BY DEF Refresh, Logout, Goto
<1> USE DEF rowVars, webVars, jwtVars
<1>3. TypeOK'
  BY <1>1, <1>2 DEF TypeOK, Refreshing, LoggingOut
<1>4. IssuedInv'
  <2>1. ~Issued(c)
    BY <1>2 DEF Issued
  <2>2. \A d \in Calls : shown'[d] # None => Issued(shown'[d])
    BY <1>1, <1>2 DEF IssuedInv, TypeOK
  <2> QED
    BY <1>1, <1>2, <2>1, <2>2, IssuedStays DEF TypeOK
<1>5. CallInv'
  BY <1>1, <1>2 DEF CallInv, TypeOK
<1>6. StoredInv' /\ WindowRespected'
  BY <1>1, <1>2 DEF StoredInv, WindowRespected
<1>7. BlacklistInv' /\ RevokedStaysRevoked'
  BY <1>1, <1>2 DEF BlacklistInv, RevokedStaysRevoked, TypeOK
<1> QED
  BY <1>3, <1>4, <1>5, <1>6, <1>7 DEF SInv

LEMMA ReadTokenStep ==
    ASSUME SInv, NEW c \in Calls, ReadToken(c)
    PROVE  SInv'
<1>1. /\ TypeOK /\ IssuedInv /\ CallInv /\ StoredInv /\ BlacklistInv
      /\ RevokedStaysRevoked /\ WindowRespected
  BY DEF SInv
<1>2. /\ pc[c] = "read" /\ sent[c] # None
      /\ \/ /\ \E s \in RowsOf(sent[c]) : target' = [target EXCEPT ![c] = s]
            /\ pc' = [pc EXCEPT ![c] = "update"] /\ response' = response
         \/ /\ response' = [response EXCEPT ![c] = "delete"]
            /\ pc' = [pc EXCEPT ![c] = "rejected"] /\ target' = target
      /\ UNCHANGED <<now, login, rowVars, row_lock, webVars, jwtVars, sent, shown, asked>>
  BY <1>1 DEF ReadToken, Goto, CallInv
<1> USE DEF rowVars, webVars, jwtVars
<1>3. TypeOK'
  BY <1>1, <1>2 DEF TypeOK, Refreshing, Ended, RowsOf
<1>4. IssuedInv'
  <2>1. ~Issued(c)
    BY <1>2 DEF Issued
  <2>2. \A d \in Calls : shown'[d] # None => Issued(shown'[d])
    BY <1>1, <1>2 DEF IssuedInv
  <2>3. \A d \in Calls : response'[d] = "set" => response[d] = "set"
    BY <1>1, <1>2 DEF TypeOK
  <2> QED
    BY <1>1, <1>2, <2>1, <2>2, <2>3, IssuedStays DEF TypeOK
<1>5. CallInv'
  BY <1>1, <1>2 DEF CallInv, TypeOK, RowsOf
<1>6. StoredInv' /\ WindowRespected'
  BY <1>1, <1>2 DEF StoredInv, WindowRespected
<1>7. BlacklistInv' /\ RevokedStaysRevoked'
  BY <1>1, <1>2 DEF BlacklistInv, RevokedStaysRevoked, TypeOK
<1> QED
  BY <1>3, <1>4, <1>5, <1>6, <1>7 DEF SInv

(* A refresh issues a token that nobody can have shown yet.                *)
LEMMA UpdateTokenStep ==
    ASSUME SInv, NEW c \in Calls, UpdateToken(c)
    PROVE  SInv'
<1>1. /\ TypeOK /\ IssuedInv /\ CallInv /\ StoredInv /\ BlacklistInv
      /\ RevokedStaysRevoked /\ WindowRespected
  BY DEF SInv
<1>2. /\ pc[c] = "update" /\ pc' = [pc EXCEPT ![c] = "commit_refresh"]
      /\ row_lock' = [row_lock EXCEPT ![target[c]] = c]
      /\ exp' = [exp EXCEPT ![c] = Expiry]
      /\ response' = [response EXCEPT ![c] = "set"]
      /\ UNCHANGED <<now, login, rowVars, webVars, blacklist, callVars>>
  BY DEF UpdateToken, Goto
<1> USE DEF rowVars, webVars, callVars
<1>3. c \in Tokens /\ c \notin Sessions /\ Expiry \in Nat
  BY <1>1, ExpiryType DEF TypeOK, Tokens
<1>4. TypeOK'
  BY <1>1, <1>2, <1>3 DEF TypeOK, Refreshing
<1>5. ~Issued(c)
  BY <1>2 DEF Issued
<1>6. IssuedInv'
  <2>1. \A d \in Calls : shown'[d] # None => Issued(shown'[d])
    BY <1>1, <1>2 DEF IssuedInv
  <2>2. Issued(c)'
    BY <1>1, <1>2, <1>3 DEF Issued, TypeOK
  <2>3. \A d \in Calls : response'[d] = "set" => response[d] = "set" \/ d = c
    BY <1>1, <1>2 DEF TypeOK
  <2>4. \A d \in Calls : response'[d] = "set" => response[d] = "set" \/ Issued(d)'
    BY <2>2, <2>3 DEF Issued
  <2> QED
    BY <1>1, <1>2, <1>5, <2>1, <2>4, IssuedStays DEF TypeOK
<1>7. CallInv'
  BY <1>1, <1>2 DEF CallInv, TypeOK
<1>8. StoredInv' /\ WindowRespected'
  BY <1>1, <1>2 DEF StoredInv, WindowRespected
<1>9. BlacklistInv'
  <2>1. \A d \in Calls : shown[d] # None => shown[d] # c /\ exp'[shown[d]] = exp[shown[d]]
    BY <1>1, <1>2, <1>5 DEF IssuedInv, TypeOK
  <2> QED
    BY <1>1, <1>2, <2>1 DEF BlacklistInv, TypeOK
<1>10. RevokedStaysRevoked'
  BY <1>1, <1>2 DEF RevokedStaysRevoked, TypeOK
<1> QED
  BY <1>4, <1>6, <1>7, <1>8, <1>9, <1>10 DEF SInv

(* The new expiry never passes the end of the session's window.            *)
LEMMA CommitRefreshStep ==
    ASSUME SInv, NEW c \in Calls, CommitRefresh(c)
    PROVE  SInv'
<1>1. /\ TypeOK /\ IssuedInv /\ CallInv /\ StoredInv /\ BlacklistInv
      /\ RevokedStaysRevoked /\ WindowRespected
  BY DEF SInv
<1>2. PICK s : s = target[c]
  OBVIOUS
<1>3. /\ pc[c] = "commit_refresh" /\ pc' = [pc EXCEPT ![c] = "refreshed"]
      /\ hashed_token' = [hashed_token EXCEPT ![s] = c]
      /\ expires_at' = [expires_at EXCEPT ![s] = NextExpiry(asked[c], max_window_limit[s])]
      /\ row_lock' = [row_lock EXCEPT ![s] = None]
      /\ UNCHANGED <<now, login, is_revoked, max_window_limit, webVars, jwtVars, callVars,
                     response>>
  BY <1>2 DEF CommitRefresh, Goto
<1> USE DEF webVars, jwtVars, callVars
<1>4. /\ s \in Sessions /\ hashed_token[s] # None /\ c \in Tokens /\ c # None
  BY <1>1, <1>2, <1>3 DEF CallInv, Tokens
<1>5. /\ NextExpiry(asked[c], max_window_limit[s]) \in Nat
      /\ NextExpiry(asked[c], max_window_limit[s]) <= max_window_limit[s]
  BY <1>1, <1>4 DEF NextExpiry, TypeOK
<1>6. TypeOK'
  BY <1>1, <1>3, <1>4, <1>5 DEF TypeOK, Ended
<1>7. IssuedInv'
  <2>1. Issued(c) => Issued(c)'
    BY <1>1, <1>3 DEF Issued, TypeOK
  <2>2. \A d \in Calls : shown'[d] # None => Issued(shown'[d])
    BY <1>1, <1>3 DEF IssuedInv
  <2> QED
    BY <1>1, <1>3, <2>1, <2>2, IssuedStays DEF TypeOK
<1>8. CallInv'
  BY <1>1, <1>3, <1>4 DEF CallInv, TypeOK
<1>9. StoredInv'
  BY <1>1, <1>3, <1>4 DEF StoredInv, TypeOK
<1>10. WindowRespected'
  BY <1>1, <1>3, <1>5 DEF WindowRespected, TypeOK
<1>11. BlacklistInv' /\ RevokedStaysRevoked'
  BY <1>1, <1>3 DEF BlacklistInv, RevokedStaysRevoked, TypeOK
<1> QED
  BY <1>6, <1>7, <1>8, <1>9, <1>10, <1>11 DEF SInv

LEMMA RevokeTokenStep ==
    ASSUME SInv, NEW c \in Calls, RevokeToken(c)
    PROVE  SInv'
<1>1. /\ TypeOK /\ IssuedInv /\ CallInv /\ StoredInv /\ BlacklistInv
      /\ RevokedStaysRevoked /\ WindowRespected
  BY DEF SInv
<1>2. /\ pc[c] = "revoke" /\ pc' = [pc EXCEPT ![c] = "blacklist"]
      /\ \/ \E s \in RowsOf(sent[c]) : /\ row_lock' = [row_lock EXCEPT ![s] = c]
                                       /\ target' = [target EXCEPT ![c] = s]
         \/ UNCHANGED <<row_lock, target>>
      /\ UNCHANGED <<now, login, rowVars, webVars, jwtVars, sent, shown, asked, response>>
  BY DEF RevokeToken, Goto
<1> USE DEF rowVars, webVars, jwtVars
<1>3. TypeOK'
  <2>1. row_lock' \in [Sessions -> Calls \cup {None}]
    BY <1>1, <1>2 DEF TypeOK
  <2>2. target' \in [Calls -> Sessions \cup {None}]
    BY <1>1, <1>2 DEF TypeOK, RowsOf
  <2> QED
    BY <1>1, <1>2, <2>1, <2>2 DEF TypeOK, LoggingOut
<1>4. IssuedInv'
  <2>1. ~Issued(c)
    BY <1>2 DEF Issued
  <2>2. \A d \in Calls : shown'[d] # None => Issued(shown'[d])
    BY <1>1, <1>2 DEF IssuedInv
  <2> QED
    BY <1>1, <1>2, <2>1, <2>2, IssuedStays DEF TypeOK
<1>5. CallInv'
  BY <1>1, <1>2 DEF CallInv, TypeOK
<1>6. StoredInv' /\ WindowRespected'
  BY <1>1, <1>2 DEF StoredInv, WindowRespected
<1>7. BlacklistInv' /\ RevokedStaysRevoked'
  BY <1>1, <1>2 DEF BlacklistInv, RevokedStaysRevoked, TypeOK
<1> QED
  BY <1>3, <1>4, <1>5, <1>6, <1>7 DEF SInv

(* The blacklist key is set at or after the moment from which its lifetime  *)
(* was counted, so it lasts as long as the token.                          *)
LEMMA BlacklistTokenStep ==
    ASSUME SInv, NEW c \in Calls, BlacklistToken(c)
    PROVE  SInv'
<1>1. /\ TypeOK /\ IssuedInv /\ CallInv /\ StoredInv /\ BlacklistInv
      /\ RevokedStaysRevoked /\ WindowRespected
  BY DEF SInv
<1>2. PICK t, r : t = shown[c] /\ r = Remaining(c)
  OBVIOUS
<1>3. /\ pc[c] = "blacklist" /\ pc' = [pc EXCEPT ![c] = "commit_logout"]
      /\ IF t # None /\ r > 0 THEN blacklist' = [blacklist EXCEPT ![t] = now + r]
                              ELSE blacklist' = blacklist
      /\ response' = [response EXCEPT ![c] = IF sent[c] = None THEN "none" ELSE "delete"]
      /\ UNCHANGED <<now, login, rowVars, row_lock, webVars, exp, callVars>>
  BY <1>2 DEF BlacklistToken, AddToBlacklist, Goto
<1> USE DEF rowVars, webVars, callVars
<1>4. t # None => /\ t \in Tokens /\ r \in Int /\ now \in Nat /\ exp[t] \in Nat
                  /\ exp[t] <= now + r
  <2>1. asked[c] \in Nat /\ asked[c] <= now
    BY <1>1 DEF TypeOK, CallInv
  <2>2. Whole(asked[c]) \in Nat /\ Whole(asked[c]) <= asked[c]
    BY <2>1, WholeType
  <2> QED
    BY <1>1, <1>2, <2>1, <2>2 DEF TypeOK, Remaining
<1>5. TypeOK'
  <2>1. blacklist' \in [Tokens -> Nat]
    BY <1>1, <1>3, <1>4 DEF TypeOK
  <2> QED
    BY <1>1, <1>3, <2>1 DEF TypeOK, LoggingOut
<1>6. IssuedInv'
  <2>1. ~Issued(c)
    BY <1>3 DEF Issued
  <2>2. \A d \in Calls : shown'[d] # None => Issued(shown'[d])
    BY <1>1, <1>3 DEF IssuedInv
  <2>3. \A d \in Calls : response'[d] = "set" => response[d] = "set"
    BY <1>1, <1>3 DEF TypeOK
  <2> QED
    BY <1>1, <1>3, <2>1, <2>2, <2>3, IssuedStays DEF TypeOK
<1>7. CallInv'
  BY <1>1, <1>3 DEF CallInv, TypeOK
<1>8. StoredInv' /\ WindowRespected'
  BY <1>1, <1>3 DEF StoredInv, WindowRespected
<1>9. BlacklistInv'
  <2>1. \A u \in Tokens : u # t => blacklist'[u] = blacklist[u]
    BY <1>1, <1>3 DEF TypeOK
  <2>2. t # None => exp[t] <= now \/ exp[t] <= blacklist'[t]
    BY <1>1, <1>3, <1>4 DEF TypeOK
  <2> QED
    BY <1>1, <1>2, <1>3, <2>1, <2>2 DEF BlacklistInv, TypeOK
<1>10. RevokedStaysRevoked'
  BY <1>1, <1>3 DEF RevokedStaysRevoked, TypeOK
<1> QED
  BY <1>5, <1>6, <1>7, <1>8, <1>9, <1>10 DEF SInv

(* No step takes back what the commit of a logout has revoked.             *)
LEMMA CommitLogoutStep ==
    ASSUME SInv, NEW c \in Calls, CommitLogout(c)
    PROVE  SInv'
<1>1. /\ TypeOK /\ IssuedInv /\ CallInv /\ StoredInv /\ BlacklistInv
      /\ RevokedStaysRevoked /\ WindowRespected
  BY DEF SInv
<1>2. /\ pc[c] = "commit_logout" /\ pc' = [pc EXCEPT ![c] = "logged_out"]
      /\ IF target[c] = None THEN UNCHANGED <<is_revoked, row_lock>>
         ELSE /\ is_revoked' = [is_revoked EXCEPT ![target[c]] = TRUE]
              /\ row_lock' = [row_lock EXCEPT ![target[c]] = None]
      /\ UNCHANGED <<now, login, hashed_token, expires_at, max_window_limit, webVars,
                     jwtVars, callVars, response>>
  BY DEF CommitLogout, Goto
<1> USE DEF webVars, jwtVars, callVars
<1>3. TypeOK'
  <2>1. is_revoked' \in [Sessions -> BOOLEAN]
    <3>1. is_revoked \in [Sessions -> BOOLEAN]
      BY <1>1 DEF TypeOK
    <3> QED
      BY <1>2, <3>1
  <2>2. row_lock' \in [Sessions -> Calls \cup {None}]
    <3>1. row_lock \in [Sessions -> Calls \cup {None}]
      BY <1>1 DEF TypeOK
    <3> QED
      BY <1>2, <3>1
  <2>3. pc' \in [Calls -> {"idle"} \cup Refreshing \cup LoggingOut \cup Ended]
    BY <1>1, <1>2 DEF TypeOK, Ended
  <2> QED
    BY <1>1, <1>2, <2>1, <2>2, <2>3 DEF TypeOK
<1>4. IssuedInv'
  <2>1. ~Issued(c)
    BY <1>2 DEF Issued
  <2>2. \A d \in Calls : shown'[d] # None => Issued(shown'[d])
    BY <1>1, <1>2 DEF IssuedInv
  <2> QED
    BY <1>1, <1>2, <2>1, <2>2, IssuedStays DEF TypeOK
<1>5. CallInv'
  BY <1>1, <1>2 DEF CallInv, TypeOK
<1>6. StoredInv' /\ WindowRespected'
  BY <1>1, <1>2 DEF StoredInv, WindowRespected
<1>7. BlacklistInv'
  BY <1>1, <1>2 DEF BlacklistInv, TypeOK
<1>8. RevokedStaysRevoked'
  <2>1. \A s \in Sessions : is_revoked[s] => is_revoked'[s]
    BY <1>1, <1>2 DEF TypeOK
  <2>2. target[c] # None => is_revoked'[target[c]]
    BY <1>1, <1>2 DEF TypeOK
  <2> QED
    BY <1>1, <1>2, <2>1, <2>2 DEF RevokedStaysRevoked, TypeOK
<1> QED
  BY <1>3, <1>4, <1>5, <1>6, <1>7, <1>8 DEF SInv

(* A rolled-back call lets its row go; what it has sent stays sent.        *)
LEMMA FailStep ==
    ASSUME SInv, NEW c \in Calls, Fail(c)
    PROVE  SInv'
<1>1. /\ TypeOK /\ IssuedInv /\ CallInv /\ StoredInv /\ BlacklistInv
      /\ RevokedStaysRevoked /\ WindowRespected
  BY DEF SInv
<1>2. /\ pc[c] \in Refreshing \cup LoggingOut /\ pc' = [pc EXCEPT ![c] = "failed"]
      /\ row_lock' = [s \in Sessions |-> IF row_lock[s] = c THEN None ELSE row_lock[s]]
      /\ UNCHANGED <<now, login, rowVars, webVars, jwtVars, callVars, response>>
  BY DEF Fail, Goto
<1> USE DEF rowVars, webVars, jwtVars, callVars
<1>3. TypeOK'
  BY <1>1, <1>2 DEF TypeOK, Ended
<1>4. IssuedInv'
  <2>1. Issued(c) => Issued(c)'
    BY <1>1, <1>2 DEF Issued, TypeOK
  <2>2. \A d \in Calls : shown'[d] # None => Issued(shown'[d])
    BY <1>1, <1>2 DEF IssuedInv
  <2> QED
    BY <1>1, <1>2, <2>1, <2>2, IssuedStays DEF TypeOK
<1>5. CallInv'
  BY <1>1, <1>2 DEF CallInv, TypeOK
<1>6. StoredInv' /\ WindowRespected'
  BY <1>1, <1>2 DEF StoredInv, WindowRespected
<1>7. BlacklistInv' /\ RevokedStaysRevoked'
  BY <1>1, <1>2 DEF BlacklistInv, RevokedStaysRevoked, TypeOK
<1> QED
  BY <1>3, <1>4, <1>5, <1>6, <1>7 DEF SInv

LEMMA ReceiveStep ==
    ASSUME SInv, NEW c \in Calls, Receive(c)
    PROVE  SInv'
<1>1. /\ TypeOK /\ IssuedInv /\ CallInv /\ StoredInv /\ BlacklistInv
      /\ RevokedStaysRevoked /\ WindowRespected
  BY DEF SInv
<1>2. /\ \/ response[c] = "set" /\ cookie' = c /\ bearer' = c
         \/ cookie' = None /\ bearer' = bearer
      /\ response' = [response EXCEPT ![c] = "none"]
      /\ UNCHANGED <<now, login, rowVars, row_lock, jwtVars, pc, callVars>>
  BY DEF Receive
<1> USE DEF rowVars, jwtVars, callVars
<1>3. TypeOK'
  BY <1>1, <1>2 DEF TypeOK, Tokens
<1>4. IssuedInv'
  <2>1. \A t : Issued(t) => Issued(t)'
    BY <1>2 DEF Issued
  <2>2. bearer' # None => Issued(bearer)'
    <3>1. PICK t : t = bearer'
      OBVIOUS
    <3>2. t # None => Issued(t)
      BY <1>1, <1>2, <3>1 DEF IssuedInv
    <3> QED
      BY <2>1, <3>1, <3>2 DEF Issued
  <2>3. \A d \in Calls : response'[d] = "set" => Issued(d)'
    BY <1>1, <1>2, <2>1 DEF IssuedInv, TypeOK
  <2>4. ASSUME NEW d \in Calls, shown'[d] # None PROVE Issued(shown[d])'
    BY <1>1, <1>2, <2>4 DEF IssuedInv, Issued
  <2> QED
    BY <2>2, <2>3, <2>4 DEF IssuedInv
<1>5. CallInv'
  BY <1>1, <1>2 DEF CallInv
<1>6. StoredInv' /\ WindowRespected' /\ BlacklistInv' /\ RevokedStaysRevoked'
  BY <1>1, <1>2 DEF StoredInv, WindowRespected, BlacklistInv, RevokedStaysRevoked
<1> QED
  BY <1>3, <1>4, <1>5, <1>6 DEF SInv

-----------------------------------------------------------------------------
(* The invariant holds, and what follows from it.                          *)

LEMMA StutterStep == SInv /\ UNCHANGED vars => SInv'
<1> SUFFICES ASSUME SInv, UNCHANGED vars PROVE SInv'
  OBVIOUS
<1> USE DEF SInv, vars, rowVars, webVars, jwtVars, callVars
<1>1. TypeOK'
  BY DEF TypeOK
<1>2. IssuedInv' /\ CallInv' /\ StoredInv' /\ BlacklistInv'
  BY DEF IssuedInv, Issued, CallInv, StoredInv, BlacklistInv
<1>3. RevokedStaysRevoked' /\ WindowRespected'
  BY DEF RevokedStaysRevoked, WindowRespected
<1> QED
  BY <1>1, <1>2, <1>3

LEMMA NextHolds == SInv /\ [Next]_vars => SInv'
BY TickStep, LoginStep, EndLoginStep, BeginStep, ReadTokenStep, UpdateTokenStep,
   CommitRefreshStep, RevokeTokenStep, BlacklistTokenStep, CommitLogoutStep, FailStep,
   ReceiveStep, StutterStep DEF Next, CallStep

LEMMA TokensStayDead == SInv => LoggedOutTokenIsDead
<1> SUFFICES ASSUME SInv, NEW c \in Calls, pc[c] \in {"commit_logout", "logged_out"},
                    shown[c] # None
             PROVE  ~Accepted(shown[c])
  BY DEF LoggedOutTokenIsDead
<1>1. PICK t : t = shown[c]
  OBVIOUS
<1>2. exp[t] \in Nat /\ blacklist[t] \in Nat /\ now \in Nat
  BY <1>1 DEF SInv, TypeOK
<1>3. exp[t] <= now \/ exp[t] <= blacklist[t]
  BY <1>1 DEF SInv, BlacklistInv
<1> QED
  BY <1>1, <1>2, <1>3 DEF Accepted, Unexpired

(* The invariant holds of every behaviour of Session.                      *)
THEOREM SessionInvariant == Spec => []SInv
BY InitHolds, NextHolds, PTL DEF Spec

(* A refresh that read the row before a logout revoked it does not bring   *)
(* the session back.                                                       *)
THEOREM RevocationsStay == Spec => []RevokedStaysRevoked
BY SessionInvariant, PTL DEF SInv

(* However often a session is refreshed, it ends within the window that    *)
(* its login fixed.                                                        *)
THEOREM WindowHolds == Spec => []WindowRespected
BY SessionInvariant, PTL DEF SInv

(* The access token a logout presented is accepted by no later request.    *)
THEOREM LogoutKillsToken == Spec => []LoggedOutTokenIsDead
BY SessionInvariant, TokensStayDead, PTL

-----------------------------------------------------------------------------
(* Accounts implements Session.                                            *)

USE RivalsAssumption

LEMMA AccountsAreSessions == [AccountsNext]_allVars => [Next]_vars
BY DEF AccountsNext, SessionStep, SignupTokens, CommitSignup, LoseSignup, LoginUser,
       EndLogin, CommitRival, CheckEmail, InsertUser, FailSignup, Next, allVars

(* What the browser's sessions do under Accounts, Session allows.          *)
THEOREM AccountsImplementSession == AccountsSpec => Spec
<1>1. AccountsInit => Init
  BY DEF AccountsInit
<1> QED
  BY <1>1, AccountsAreSessions, PTL DEF AccountsSpec, Spec

-----------------------------------------------------------------------------
(* The inductive invariant.                                                *)

(* The index: one open insert or one committed user, and never both.       *)
IndexInv ==
    /\ \A u \in users : signup[u] = "committed"
    /\ \A u, v \in users : u = v
    /\ \A u \in Signups : signup[u] = "inserted" => users = {}
    /\ \A u, v \in Signups : signup[u] = "inserted" /\ signup[v] = "inserted" => u = v

(* An open login has a user that is stored, or is stored with it.          *)
OpenInv ==
    \A s \in Sessions : login[s] = "open" =>
        \/ signup[s] = "inserted" /\ user_id[s] = s
        \/ signup[s] = "login" /\ user_id[s] \in users

AInv ==
    /\ SInv
    /\ AccountsTypeOK /\ IndexInv /\ OpenInv
    /\ RefusalsNameAnAccount /\ SessionsHaveTheirUser

LEMMA AccountsInitHolds == AccountsInit => AInv
<1> SUFFICES ASSUME AccountsInit PROVE AInv
  OBVIOUS
<1>1. SInv
  BY InitHolds DEF AccountsInit
<1>2. AccountsTypeOK
  BY <1>1 DEF SInv, AccountsInit, AccountsTypeOK
<1>3. IndexInv /\ OpenInv /\ RefusalsNameAnAccount /\ SessionsHaveTheirUser
  BY DEF AccountsInit, Init, IndexInv, OpenInv, RefusalsNameAnAccount,
         SessionsHaveTheirUser
<1> QED
  BY <1>1, <1>2, <1>3 DEF AInv

-----------------------------------------------------------------------------
(* The steps.                                                              *)

(* A call stores a token only in a row that is stored already.             *)
LEMMA CallKeepsRows ==
    ASSUME SInv, NEW c \in Calls, CallStep(c)
    PROVE  /\ login' = login
           /\ \A s \in Sessions : hashed_token'[s] # None => hashed_token[s] # None
<1>1. CASE CommitRefresh(c)
  <2>1. PICK s : s = target[c]
    OBVIOUS
  <2>2. /\ hashed_token' = [hashed_token EXCEPT ![s] = c] /\ login' = login
        /\ hashed_token[s] # None
    BY <1>1, <2>1 DEF CommitRefresh, SInv, CallInv
  <2> QED
    BY <2>2 DEF SInv, TypeOK
<1>2. CASE ~CommitRefresh(c)
  BY <1>2 DEF CallStep, Refresh, ReadToken, UpdateToken, Logout, RevokeToken,
              BlacklistToken, CommitLogout, Fail, Receive, rowVars
<1> QED
  BY <1>1, <1>2

LEMMA SessionStepKeeps ==
    ASSUME AInv, SInv', SessionStep
    PROVE  AInv'
<1>1. UNCHANGED accountVars
  BY DEF SessionStep
<1>2. /\ login' = login
      /\ \A s \in Sessions : hashed_token'[s] # None => hashed_token[s] # None
  <2>1. CASE Tick
    BY <2>1 DEF Tick, rowVars
  <2> QED
    BY <2>1, CallKeepsRows DEF SessionStep, AInv
<1>3. AccountsTypeOK'
  BY <1>1 DEF AInv, SInv, AccountsTypeOK, accountVars
<1>4. IndexInv' /\ OpenInv' /\ RefusalsNameAnAccount'
  BY <1>1, <1>2 DEF AInv, IndexInv, OpenInv, RefusalsNameAnAccount, accountVars
<1>5. SessionsHaveTheirUser'
  BY <1>1, <1>2 DEF AInv, SessionsHaveTheirUser, accountVars
<1> QED
  BY <1>3, <1>4, <1>5 DEF AInv

(* A signup that is refused finds another's account: its own is not there. *)
LEMMA CheckEmailStep ==
    ASSUME AInv, SInv', NEW u \in Signups, CheckEmail(u)
    PROVE  AInv'
<1>1. AccountsTypeOK /\ IndexInv /\ OpenInv /\ RefusalsNameAnAccount /\ SessionsHaveTheirUser
  BY DEF AInv
<1>2. /\ signup[u] = "none"
      /\ signup' = [signup EXCEPT ![u] = IF users = {} THEN "insert" ELSE "taken"]
      /\ UNCHANGED <<vars, users, user_id>>
  BY DEF CheckEmail, SetSignup
<1>3. AccountsTypeOK'
  BY <1>1, <1>2 DEF AccountsTypeOK, SInv
<1>4. u \notin users
  BY <1>1, <1>2 DEF IndexInv
<1>5. IndexInv'
  BY <1>1, <1>2 DEF IndexInv, AccountsTypeOK
<1>6. OpenInv'
  BY <1>1, <1>2 DEF OpenInv, AccountsTypeOK, vars
<1>7. RefusalsNameAnAccount'
  BY <1>1, <1>2, <1>4 DEF RefusalsNameAnAccount, AccountsTypeOK
<1>8. SessionsHaveTheirUser'
  BY <1>1, <1>2 DEF SessionsHaveTheirUser, vars, rowVars
<1> QED
  BY <1>3, <1>5, <1>6, <1>7, <1>8 DEF AInv

(* The insert waits for an open one and fails when there is a user.        *)
LEMMA InsertUserStep ==
    ASSUME AInv, SInv', NEW u \in Signups, InsertUser(u)
    PROVE  AInv'
<1>1. AccountsTypeOK /\ IndexInv /\ OpenInv /\ RefusalsNameAnAccount /\ SessionsHaveTheirUser
  BY DEF AInv
<1>2. /\ signup[u] = "insert" /\ \A v \in Signups : signup[v] # "inserted"
      /\ signup' = [signup EXCEPT ![u] = IF users = {} THEN "inserted" ELSE "conflict"]
      /\ UNCHANGED <<vars, users, user_id>>
  BY DEF InsertUser, SetSignup
<1>3. AccountsTypeOK'
  BY <1>1, <1>2 DEF AccountsTypeOK, SInv
<1>4. u \notin users
  BY <1>1, <1>2 DEF IndexInv
<1>5. IndexInv'
  <2>1. \A v \in Signups : v # u => signup'[v] = signup[v]
    BY <1>1, <1>2 DEF AccountsTypeOK
  <2>2. signup'[u] = "inserted" => users = {}
    BY <1>1, <1>2 DEF AccountsTypeOK
  <2>3. \A v \in users : v \in Signups /\ v # u
    BY <1>1, <1>4 DEF AccountsTypeOK
  <2> QED
    BY <1>1, <1>2, <2>1, <2>2, <2>3 DEF IndexInv
<1>6. OpenInv'
  BY <1>1, <1>2 DEF OpenInv, AccountsTypeOK, vars
<1>7. RefusalsNameAnAccount'
  BY <1>1, <1>2, <1>4 DEF RefusalsNameAnAccount, AccountsTypeOK
<1>8. SessionsHaveTheirUser'
  BY <1>1, <1>2 DEF SessionsHaveTheirUser, vars, rowVars
<1> QED
  BY <1>3, <1>5, <1>6, <1>7, <1>8 DEF AInv

(* A rolled-back insert leaves no user and no open login.                  *)
LEMMA FailSignupStep ==
    ASSUME AInv, SInv', NEW u \in Signups, FailSignup(u) \/ (u \in Sessions /\ LoseSignup(u))
    PROVE  AInv'
<1>1. AccountsTypeOK /\ IndexInv /\ OpenInv /\ RefusalsNameAnAccount /\ SessionsHaveTheirUser
  BY DEF AInv
<1>2. /\ signup[u] = "inserted" /\ signup' = [signup EXCEPT ![u] = "failed"]
      /\ UNCHANGED <<users, user_id, hashed_token>>
      /\ \A s \in Sessions : login'[s] = "open" => login[s] = "open" /\ s # u
  <2>1. CASE FailSignup(u)
    BY <2>1 DEF FailSignup, SetSignup, Fresh, vars, rowVars
  <2>2. CASE u \in Sessions /\ LoseSignup(u)
    <3>1. login' = [login EXCEPT ![u] = "lost"]
      BY <2>2 DEF LoseSignup, LoseLogin
    <3>2. \A s \in Sessions : login'[s] = IF s = u THEN "lost" ELSE login[s]
      BY <3>1 DEF AInv, SInv, TypeOK
    <3> QED
      BY <2>2, <3>2 DEF LoseSignup, LoseLogin, SetSignup, rowVars
  <2> QED
    BY <2>1, <2>2
<1>3. AccountsTypeOK'
  BY <1>1, <1>2 DEF AccountsTypeOK, SInv
<1>4. IndexInv'
  BY <1>1, <1>2 DEF IndexInv, AccountsTypeOK
<1>5. OpenInv'
  BY <1>1, <1>2 DEF OpenInv, AccountsTypeOK, Signups
<1>6. RefusalsNameAnAccount' /\ SessionsHaveTheirUser'
  BY <1>1, <1>2 DEF RefusalsNameAnAccount, SessionsHaveTheirUser, AccountsTypeOK
<1> QED
  BY <1>3, <1>4, <1>5, <1>6 DEF AInv

(* The commit of a signup stores the only user, its session's row with it  *)
(* when it is this browser's.                                              *)
LEMMA CommitSignupStep ==
    ASSUME AInv, SInv', NEW u \in Signups,
           (u \in Sessions /\ CommitSignup(u)) \/ (u \in Rivals /\ CommitRival(u))
    PROVE  AInv'
<1>1. AccountsTypeOK /\ IndexInv /\ OpenInv /\ RefusalsNameAnAccount /\ SessionsHaveTheirUser
  BY DEF AInv
<1>2. /\ signup[u] = "inserted" /\ signup' = [signup EXCEPT ![u] = "committed"]
      /\ users' = users \cup {u} /\ user_id' = user_id
  BY DEF CommitSignup, CommitRival, SetSignup
<1>3. /\ \A s \in Sessions : login'[s] = "open" => login[s] = "open" /\ s # u
      /\ \A s \in Sessions : hashed_token'[s] # None =>
            hashed_token[s] # None \/ (s = u /\ user_id[s] = u)
  <2>1. CASE u \in Sessions /\ CommitSignup(u)
    <3>1. /\ login[u] = "open" /\ login' = [login EXCEPT ![u] = "done"]
          /\ hashed_token' = [hashed_token EXCEPT ![u] = u]
      BY <2>1 DEF CommitSignup, CommitLogin
    <3>2. /\ \A s \in Sessions : login'[s] = IF s = u THEN "done" ELSE login[s]
          /\ \A s \in Sessions : hashed_token'[s] = IF s = u THEN u ELSE hashed_token[s]
      BY <3>1 DEF AInv, SInv, TypeOK
    <3>3. user_id[u] = u
      BY <1>1, <1>2, <2>1, <3>1 DEF OpenInv
    <3> QED
      BY <3>2, <3>3
  <2>2. CASE u \in Rivals /\ CommitRival(u)
    BY <2>2 DEF CommitRival, vars, rowVars
  <2> QED
    BY <2>1, <2>2
<1>4. users = {} /\ users' = {u}
  BY <1>1, <1>2 DEF IndexInv
<1>5. AccountsTypeOK'
  BY <1>1, <1>2 DEF AccountsTypeOK, SInv
<1>6. IndexInv'
  BY <1>1, <1>2, <1>4 DEF IndexInv, AccountsTypeOK
<1>7. OpenInv'
  <2> SUFFICES ASSUME NEW s \in Sessions, login'[s] = "open"
               PROVE  FALSE
    BY DEF OpenInv
  <2>1. login[s] = "open" /\ s # u /\ s \in Signups
    BY <1>3 DEF Signups
  <2>2. signup[s] = "inserted"
    BY <1>1, <1>4, <2>1 DEF OpenInv
  <2> QED
    BY <1>1, <1>2, <2>1, <2>2 DEF IndexInv
<1>8. RefusalsNameAnAccount'
  BY <1>1, <1>2, <1>4 DEF RefusalsNameAnAccount, AccountsTypeOK
<1>9. SessionsHaveTheirUser'
  BY <1>1, <1>2, <1>3, <1>4 DEF SessionsHaveTheirUser
<1> QED
  BY <1>5, <1>6, <1>7, <1>8, <1>9 DEF AInv

(* A session opens with the user of its signup or with the one it found.   *)
LEMMA OpenStep ==
    ASSUME AInv, SInv', NEW s \in Sessions, SignupTokens(s) \/ LoginUser(s)
    PROVE  AInv'
<1>1. AccountsTypeOK /\ IndexInv /\ OpenInv /\ RefusalsNameAnAccount /\ SessionsHaveTheirUser
  BY DEF AInv
<1>2. /\ login[s] = "none" /\ login' = [login EXCEPT ![s] = "open"]
      /\ UNCHANGED <<users, hashed_token>> /\ hashed_token[s] = None /\ s \in Signups
      /\ \A r \in Sessions : login'[r] = "open" => r = s \/ login[r] = "open"
  <2>1. /\ login[s] = "none" /\ login' = [login EXCEPT ![s] = "open"]
        /\ UNCHANGED <<users, hashed_token>>
    BY DEF SignupTokens, LoginUser, Login
  <2>2. hashed_token[s] = None
    BY <2>1 DEF AInv, SInv, StoredInv
  <2> QED
    BY <2>1, <2>2 DEF AInv, SInv, TypeOK, Signups
<1>3. PICK u \in Signups :
         /\ user_id' = [user_id EXCEPT ![s] = u]
         /\ \/ u = s /\ signup[s] = "inserted" /\ signup' = signup
            \/ /\ u \in users /\ signup[s] \in {"none", "taken", "conflict", "failed"}
               /\ signup' = [signup EXCEPT ![s] = "login"]
  BY <1>1, <1>2 DEF SignupTokens, LoginUser, SetSignup, AccountsTypeOK
<1>4. AccountsTypeOK'
  BY <1>1, <1>2, <1>3 DEF AccountsTypeOK, SInv
<1>5. IndexInv'
  BY <1>1, <1>2, <1>3 DEF IndexInv, AccountsTypeOK
<1>6. OpenInv'
  <2> SUFFICES ASSUME NEW r \in Sessions, login'[r] = "open"
               PROVE  \/ signup'[r] = "inserted" /\ user_id'[r] = r
                      \/ signup'[r] = "login" /\ user_id'[r] \in users'
    BY DEF OpenInv
  <2>1. CASE r = s
    BY <1>1, <1>2, <1>3, <2>1 DEF AccountsTypeOK
  <2>2. CASE r # s
    <3>1. login[r] = "open" /\ r \in Signups
      BY <1>2, <2>2 DEF Signups
    <3>2. signup'[r] = signup[r] /\ user_id'[r] = user_id[r]
      BY <1>1, <1>3, <2>2, <3>1 DEF AccountsTypeOK
    <3> QED
      BY <1>1, <1>2, <3>1, <3>2 DEF OpenInv
  <2> QED
    BY <2>1, <2>2
<1>7. RefusalsNameAnAccount'
  BY <1>1, <1>2, <1>3 DEF RefusalsNameAnAccount, AccountsTypeOK
<1>8. SessionsHaveTheirUser'
  BY <1>1, <1>2, <1>3 DEF SessionsHaveTheirUser, AccountsTypeOK
<1> QED
  BY <1>4, <1>5, <1>6, <1>7, <1>8 DEF AInv

(* The row of a login without signup is committed to the user it found.    *)
LEMMA CloseStep ==
    ASSUME AInv, SInv', NEW s \in Sessions, EndLogin(s)
    PROVE  AInv'
<1>1. AccountsTypeOK /\ IndexInv /\ OpenInv /\ RefusalsNameAnAccount /\ SessionsHaveTheirUser
  BY DEF AInv
<1>2. /\ signup[s] = "login" /\ UNCHANGED accountVars /\ login[s] = "open"
      /\ \A r \in Sessions : login'[r] = "open" => login[r] = "open"
      /\ \A r \in Sessions : hashed_token'[r] # None => hashed_token[r] # None \/ r = s
  BY DEF EndLogin, CommitLogin, LoseLogin, rowVars, AInv, SInv, TypeOK
<1>3. user_id[s] \in users
  BY <1>1, <1>2 DEF OpenInv
<1>4. AccountsTypeOK'
  BY <1>1, <1>2 DEF AccountsTypeOK, SInv, accountVars
<1>5. IndexInv' /\ OpenInv' /\ RefusalsNameAnAccount'
  BY <1>1, <1>2 DEF IndexInv, OpenInv, RefusalsNameAnAccount, accountVars
<1>6. SessionsHaveTheirUser'
  BY <1>1, <1>2, <1>3 DEF SessionsHaveTheirUser, accountVars
<1> QED
  BY <1>4, <1>5, <1>6 DEF AInv

-----------------------------------------------------------------------------
(* The invariant holds, and what follows from it.                          *)

LEMMA AccountsNextHolds == AInv /\ [AccountsNext]_allVars => AInv'
<1> SUFFICES ASSUME AInv, [AccountsNext]_allVars PROVE AInv'
  OBVIOUS
<1>1. SInv'
  BY AccountsAreSessions, NextHolds DEF AInv
<1>2. CASE UNCHANGED allVars
  BY <1>1, <1>2 DEF AInv, SInv, AccountsTypeOK, IndexInv, OpenInv, RefusalsNameAnAccount,
                    SessionsHaveTheirUser, allVars, accountVars, vars, rowVars
<1>3. Sessions \subseteq Signups /\ Rivals \subseteq Signups
  BY DEF Signups
<1> QED
  BY <1>1, <1>2, <1>3, SessionStepKeeps, CheckEmailStep, InsertUserStep, FailSignupStep,
     CommitSignupStep, OpenStep, CloseStep DEF AccountsNext

(* At most one user has the address when any two of them are the same.     *)
LEMMA AtMostOneUser == IndexInv => AccountIsUnique
<1> SUFFICES ASSUME IndexInv PROVE Cardinality(users) <= 1
  BY DEF AccountIsUnique
<1>1. CASE users = {}
  BY <1>1, FS_EmptySet
<1>2. CASE users # {}
  <2>1. PICK u : u \in users
    BY <1>2
  <2>2. users = {u}
    BY <2>1 DEF IndexInv
  <2>3. Cardinality({u}) = 1
    BY FS_Singleton
  <2> QED
    BY <2>2, <2>3
<1> QED
  BY <1>1, <1>2

(* The invariant holds of every behaviour of Accounts.                     *)
THEOREM AccountsInvariant == AccountsSpec => []AInv
BY AccountsInitHolds, AccountsNextHolds, PTL DEF AccountsSpec

(* The rows, tokens and signups have the types of their columns.           *)
THEOREM AccountsTypes == AccountsSpec => []AccountsTypeOK
BY AccountsInvariant, PTL DEF AInv

(* Any number of signups with one address create one account.              *)
THEOREM AccountStaysUnique == AccountsSpec => []AccountIsUnique
<1>1. AInv => AccountIsUnique
  BY AtMostOneUser DEF AInv
<1> QED
  BY <1>1, AccountsInvariant, PTL

(* No signup is refused for an account that is not there in the end.       *)
THEOREM RefusalsAreTrue == AccountsSpec => []RefusalsNameAnAccount
BY AccountsInvariant, PTL DEF AInv

(* No stored session is without its stored user.                           *)
THEOREM SessionsKeepTheirUser == AccountsSpec => []SessionsHaveTheirUser
BY AccountsInvariant, PTL DEF AInv
=============================================================================
