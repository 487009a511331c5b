------------------------------- MODULE Accounts -------------------------------
(***************************************************************************)
(* Signups with one e-mail address (src/backend/src/sonclarus/users and    *)
(* auth), composed with Session: the browser's own signup or login, whose  *)
(* tokens Session follows, and signups of rivals elsewhere.                *)
(*                                                                         *)
(* A signup reads whether the address is taken, inserts the user and the   *)
(* refresh token in one transaction, answers, and commits.  What makes the *)
(* address unique is the index of users.email: an insert waits for an open *)
(* transaction with the same address and fails when that one has committed. *)
(***************************************************************************)
EXTENDS Session

CONSTANT Rivals     \* the signups of other clients

ASSUME RivalsAssumption == Rivals \cap (Sessions \cup Calls \cup {None}) = {}

Signups == Sessions \cup Rivals

VARIABLES signup,  \* how far each signup is, or "login" for a session without one
          users,   \* the committed users with the address, by their signup
          user_id  \* the user of each session's refresh-token row

accountVars == <<signup, users, user_id>>
allVars == <<vars, accountVars>>

AccountsTypeOK ==
    /\ TypeOK
    /\ signup \in [Signups -> {"none", "insert", "inserted", "committed",
                               "taken", "conflict", "failed", "login"}]
    /\ users \subseteq Signups
    /\ user_id \in [Sessions -> Signups \cup {None}]

AccountsInit ==
    /\ Init
    /\ signup = [u \in Signups |-> "none"]
    /\ users = {}
    /\ user_id = [s \in Sessions |-> None]

-----------------------------------------------------------------------------
SetSignup(u, stage) == signup' = [signup EXCEPT ![u] = stage]

(* The session is still to be opened.                                      *)
Fresh(u) == u \in Sessions => login[u] = "none"

(* check_by_email sees committed rows only; 409 when there is one.         *)
CheckEmail(u) ==
    /\ signup[u] = "none" /\ Fresh(u)
    /\ SetSignup(u, IF users = {} THEN "insert" ELSE "taken")
    /\ UNCHANGED <<vars, users, user_id>>

(* Fault: users.email without its unique index.                            *)
InsertUserUnindexed(u) ==
    /\ signup[u] = "insert"
    /\ SetSignup(u, "inserted")
    /\ UNCHANGED <<vars, users, user_id>>

(* Fault: an address in an open transaction is taken to be taken.          *)
InsertUserNoWait(u) ==
    /\ signup[u] = "insert"
    /\ SetSignup(u, IF users = {} /\ \A v \in Signups : signup[v] # "inserted"
                    THEN "inserted" ELSE "conflict")
    /\ UNCHANGED <<vars, users, user_id>>

(* The INSERT waits for the address's open transaction; IntegrityError is   *)
(* handled nowhere: the answer is a 500.                                   *)
InsertUser(u) ==
    /\ signup[u] = "insert"
    /\ \A v \in Signups : signup[v] # "inserted"
    /\ SetSignup(u, IF users = {} THEN "inserted" ELSE "conflict")
    /\ UNCHANGED <<vars, users, user_id>>

(* _issue_tokens with the new user's id, and the response.                 *)
SignupTokens(s) ==
    /\ signup[s] = "inserted"
    /\ Login(s)
    /\ user_id' = [user_id EXCEPT ![s] = s]
    /\ UNCHANGED <<signup, users>>

(* Fault: the token's row is stored by a session of its own.               *)
LoseSignupKeepsToken(s) ==
    /\ signup[s] = "inserted"
    /\ CommitLogin(s)
    /\ SetSignup(s, "failed")
    /\ UNCHANGED <<users, user_id>>

(* The commit fails after the response: neither row exists.                *)
LoseSignup(s) ==
    /\ signup[s] = "inserted"
    /\ LoseLogin(s)
    /\ SetSignup(s, "failed")
    /\ UNCHANGED <<users, user_id>>

(* Both rows are committed together.                                       *)
CommitSignup(s) ==
    /\ signup[s] = "inserted"
    /\ CommitLogin(s)
    /\ SetSignup(s, "committed")
    /\ users' = users \cup {s}
    /\ UNCHANGED user_id

(* A rival's transaction commits; its tokens are none of this browser's.   *)
CommitRival(r) ==
    /\ signup[r] = "inserted"
    /\ SetSignup(r, "committed")
    /\ users' = users \cup {r}
    /\ UNCHANGED <<vars, user_id>>

(* PostgreSQL raises, or the process dies, between the insert and the      *)
(* response.  (Before the insert there is nothing to undo.)                *)
FailSignup(u) ==
    /\ signup[u] = "inserted" /\ Fresh(u)
    /\ SetSignup(u, "failed")
    /\ UNCHANGED <<vars, users, user_id>>

(* login: the user is found by the address.                                *)
LoginUser(s) ==
    /\ signup[s] \in {"none", "taken", "conflict", "failed"}
    /\ Login(s)
    /\ \E u \in users : user_id' = [user_id EXCEPT ![s] = u]
    /\ SetSignup(s, "login")
    /\ UNCHANGED users

EndLogin(s) ==
    /\ signup[s] = "login"
    /\ CommitLogin(s) \/ LoseLogin(s)
    /\ UNCHANGED accountVars

-----------------------------------------------------------------------------
SessionStep ==
    /\ Tick \/ \E c \in Calls : CallStep(c)
    /\ UNCHANGED accountVars

AccountsNext ==
    \/ SessionStep
    \/ \E s \in Sessions : \/ SignupTokens(s) \/ CommitSignup(s) \/ LoseSignup(s)
                           \/ LoginUser(s) \/ EndLogin(s)
    \/ \E r \in Rivals : CommitRival(r)
    \/ \E u \in Signups : CheckEmail(u) \/ InsertUser(u) \/ FailSignup(u)

AccountsSpec == AccountsInit /\ [][AccountsNext]_allVars

-----------------------------------------------------------------------------
(* Properties.                                                             *)

(* However signups with one address interleave between their check and     *)
(* their commit, they create one account (users/services.py:15,            *)
(* users/models.py:13).                                                    *)
AccountIsUnique == Cardinality(users) <= 1

(* A signup is turned away only when the account it collides with exists:  *)
(* an open transaction that is rolled back later leaves the address free   *)
(* for the one that waited.                                                *)
RefusalsNameAnAccount ==
    \A u \in Signups : signup[u] \in {"taken", "conflict"} => users \ {u} # {}

(* A stored session belongs to a stored user, whichever commits are lost   *)
(* after their response (auth/services.py:35-40, shared/database.py:47).   *)
SessionsHaveTheirUser ==
    \A s \in Sessions : hashed_token[s] # None => user_id[s] \in users
=============================================================================
