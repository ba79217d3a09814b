-------------------------------- MODULE Auth --------------------------------
(***************************************************************************)
(* The sessions of the file server: a user's token version in Postgres,    *)
(* the refresh tokens there, the blacklist of access tokens in Redis, and  *)
(* the handlers that read and write them, one statement or command at a    *)
(* time.  Any number of handlers run at once.                              *)
(*                                                                         *)
(* An access token is its claims: signing them is a function of them, and  *)
(* times are whole seconds, so that two tokens with the same claims are    *)
(* the same token.  A refresh token is the row that holds its hash.        *)
(***************************************************************************)
EXTENDS Integers, FiniteSets

CONSTANTS
    Users,
    Requests,      \* the handlers that can run at once
    Rows,          \* the refresh tokens that can be generated
    AccessTTL,     \* seconds an access token lives
    RefreshTTL,    \* seconds a refresh token lives
    MaxTime,       \* bound on the clock
    MaxVersion,    \* bound on the token versions
    None

ASSUME AuthAssumption ==
    /\ AccessTTL \in Nat \ {0} /\ RefreshTTL \in Nat \ {0}
    /\ MaxTime \in Nat /\ MaxVersion \in Nat
    /\ None \notin Users /\ None \notin Rows

VARIABLES
    now,        \* the clock, which all processes share
    version,    \* users.token_version
    rows,       \* refresh_tokens
    blacklist,  \* the keys set in Redis, each with the time it expires at
    ended,      \* the unexpired tokens Redis took from a handler (history)
    issued,     \* the access tokens handed out
    req,        \* the handlers
    quiet,      \* what the last LogoutAll of a user had beside it (history)
    redeemed    \* the refresh tokens a committed rotation accepted (history)

vars == <<now, version, rows, blacklist, ended, issued, req, quiet, redeemed>>

Token == [user : Users, ver : 0..MaxVersion, iat : 0..MaxTime]

Exp(t) == t.iat + AccessTTL

NoRow == [state |-> "free", user |-> None, until |-> 0]

Row == [state : {"free", "live", "revoked", "deleted"},
        user : Users \cup {None},
        until : 0..(MaxTime + RefreshTTL)]

Kinds == {"signin", "refresh", "api", "logout", "logout_all", "revoke_all"}

(* token is what RequireAuth validates, or the cookie that a refresh ends; *)
(* cookie is the one that a logout finds.  seen is history: what held of   *)
(* the token or row when the handler began.                                *)
Request == [kind : Kinds \cup {None},
            pc : {"idle", "select", "delete", "user", "sign", "insert",
                  "version", "redis", "accepted", "revoke", "aborted"},
            user : Users \cup {None},
            token : Token \cup {None},
            cookie : Token \cup {None},
            row : Rows \cup {None},
            ver : 0..MaxVersion,
            access : Token \cup {None},
            seen : [ver : 0..MaxVersion, ended : BOOLEAN]]

Idle == [kind |-> None, pc |-> "idle", user |-> None, token |-> None, cookie |-> None,
         row |-> None, ver |-> 0, access |-> None, seen |-> [ver |-> 0, ended |-> FALSE]]

TypeOK ==
    /\ now \in 0..MaxTime
    /\ version \in [Users -> 0..MaxVersion]
    /\ rows \in [Rows -> Row]
    /\ blacklist \subseteq [token : Token, until : 0..(MaxTime + AccessTTL)]
    /\ ended \subseteq Token /\ issued \subseteq Token
    /\ req \in [Requests -> Request]
    /\ quiet \in [Users -> {"no", "closing", "closed"}]
    /\ redeemed \subseteq Rows

Init ==
    /\ now = 0
    /\ version = [u \in Users |-> 0]
    /\ rows = [k \in Rows |-> NoRow]
    /\ blacklist = {} /\ ended = {} /\ issued = {}
    /\ req = [r \in Requests |-> Idle]
    /\ quiet = [u \in Users |-> "no"] /\ redeemed = {}

-----------------------------------------------------------------------------
(* Redis.                                                                  *)

(* Mutant: the key expires before the token.                               *)
BlacklistUntil_Early(t) == Exp(t) - 1

BlacklistUntil(t) == Exp(t)

(* BlacklistToken: nothing is set for a token that has expired, nor when   *)
(* Redis errs, which both handlers that call it ignore.                    *)
BlacklistToken(t) ==
    \/ UNCHANGED <<blacklist, ended>>
    \/ /\ ended' = ended \cup {g \in {t} \ {None} : now < Exp(g)}
       /\ blacklist' = IF t # None /\ Exp(t) > now
                       THEN blacklist \cup {[token |-> t, until |-> BlacklistUntil(t)]}
                       ELSE blacklist

Blacklisted(t) == \E b \in blacklist : b.token = t /\ now < b.until

-----------------------------------------------------------------------------
(* Signing in and refreshing.                                              *)

(* The ways a handler moves on: to its next statement, to its answer.      *)
Goto(r, pc) == req' = [req EXCEPT ![r].pc = pc]

Answer(r) == req' = [req EXCEPT ![r] = Idle]

(* The user row is read, and the password agrees with it.                  *)
SignIn(r, u) ==
    /\ req[r].pc = "idle"
    /\ req' = [req EXCEPT ![r] = [Idle EXCEPT !.kind = "signin", !.pc = "sign", !.user = u,
                                              !.ver = version[u]]]
    /\ quiet' = [quiet EXCEPT ![u] = "no"]
    /\ UNCHANGED <<now, version, rows, blacklist, ended, issued, redeemed>>

(* The handler blacklists the access token in the cookie, if there is one, *)
(* before it looks at the refresh token in the other.                      *)
Refresh(r, t, k) ==
    /\ req[r].pc = "idle"
    /\ t \in issued \cup {None}
    /\ k # None => rows[k].state # "free"
    /\ BlacklistToken(t)
    /\ req' = [req EXCEPT ![r] =
                 [Idle EXCEPT !.kind = "refresh", !.pc = "select", !.token = t, !.row = k,
                              !.seen.ended = k # None /\ (k \in redeemed \/ rows[k].state = "revoked")]]
    /\ UNCHANGED <<now, version, rows, issued, quiet, redeemed>>

Usable(k) == k # None /\ rows[k].state = "live" /\ now < rows[k].until

(* The SELECT of ValidateAndRotateRefreshToken.                            *)
RefreshSelect(r) ==
    LET k == req[r].row IN
    /\ req[r].pc = "select"
    /\ IF Usable(k)
       THEN /\ req' = [req EXCEPT ![r].pc = "delete", ![r].user = rows[k].user]
            /\ quiet' = IF quiet[rows[k].user] = "closing"
                        THEN [quiet EXCEPT ![rows[k].user] = "no"] ELSE quiet
       ELSE Answer(r) /\ UNCHANGED quiet
    /\ UNCHANGED <<now, version, rows, blacklist, ended, issued, redeemed>>

(* Mutant: the row is left for the next refresh.                           *)
RefreshDelete_Keeps(r) ==
    /\ req[r].pc = "delete"
    /\ redeemed' = redeemed \cup {req[r].row}
    /\ Goto(r, "user")
    /\ UNCHANGED <<now, version, rows, blacklist, ended, issued, quiet>>

(* Its DELETE and COMMIT: the row goes, whether or not another transaction *)
(* has deleted or revoked it since.                                        *)
RefreshDelete(r) ==
    /\ req[r].pc = "delete"
    /\ rows' = [rows EXCEPT ![req[r].row].state = "deleted"]
    /\ redeemed' = redeemed \cup {req[r].row}
    /\ Goto(r, "user")
    /\ UNCHANGED <<now, version, blacklist, ended, issued, quiet>>

RefreshUser(r) ==
    /\ req[r].pc = "user"
    /\ req' = [req EXCEPT ![r].pc = "sign", ![r].ver = version[req[r].user]]
    /\ UNCHANGED <<now, version, rows, blacklist, ended, issued, quiet, redeemed>>

(* generateAccessToken: the claims are the user, the version that was read *)
(* and the second it is.                                                   *)
Sign(r) ==
    /\ req[r].pc = "sign"
    /\ req' = [req EXCEPT ![r].pc = "insert",
                          ![r].access = [user |-> req[r].user, ver |-> req[r].ver, iat |-> now]]
    /\ UNCHANGED <<now, version, rows, blacklist, ended, issued, quiet, redeemed>>

(* generateRefreshToken, and the answer with both cookies, which may be    *)
(* lost.                                                                   *)
InsertRow(r, k) ==
    /\ req[r].pc = "insert" /\ rows[k].state = "free"
    /\ rows' = [rows EXCEPT ![k] = [state |-> "live", user |-> req[r].user,
                                    until |-> now + RefreshTTL]]
    /\ issued' \in {issued, issued \cup {req[r].access}}
    /\ Answer(r)
    /\ UNCHANGED <<now, version, blacklist, ended, quiet, redeemed>>

-----------------------------------------------------------------------------
(* RequireAuth, and what runs behind it.                                   *)

(* The signature and the expiry of t are good, which came as Bearer, with  *)
(* c or nothing in the cookie beside it, or is c itself: extractToken      *)
(* prefers the header.                                                     *)
Present(r, kind, t, c) ==
    /\ req[r].pc = "idle" /\ t \in issued /\ now < Exp(t)
    /\ req' = [req EXCEPT ![r] =
                 [Idle EXCEPT !.kind = kind, !.pc = "version", !.user = t.user, !.token = t,
                              !.cookie = IF kind = "logout" THEN c ELSE None,
                              !.seen.ver = version[t.user], !.seen.ended = t \in ended]]
    /\ UNCHANGED <<now, version, rows, blacklist, ended, issued, quiet, redeemed>>

CheckVersion(r) ==
    /\ req[r].pc = "version"
    /\ IF req[r].token.ver = version[req[r].user] THEN Goto(r, "redis") ELSE Answer(r)
    /\ UNCHANGED <<now, version, rows, blacklist, ended, issued, quiet, redeemed>>

(* An error of Redis refuses the token (Fail).                             *)
CheckBlacklist(r) ==
    /\ req[r].pc = "redis"
    /\ IF Blacklisted(req[r].token) THEN Answer(r) ELSE Goto(r, "accepted")
    /\ UNCHANGED <<now, version, rows, blacklist, ended, issued, quiet, redeemed>>

Serve(r) ==
    /\ req[r].pc = "accepted" /\ req[r].kind = "api"
    /\ Answer(r)
    /\ UNCHANGED <<now, version, rows, blacklist, ended, issued, quiet, redeemed>>

(* The token in the cookie is blacklisted, whichever was validated.        *)
Logout(r) ==
    /\ req[r].pc = "accepted" /\ req[r].kind = "logout"
    /\ BlacklistToken(req[r].cookie)
    /\ Answer(r)
    /\ UNCHANGED <<now, version, rows, issued, quiet, redeemed>>

Granting(u) ==
    \E r \in Requests : /\ req[r].kind \in {"signin", "refresh"} /\ req[r].user = u
                        /\ req[r].pc \in {"delete", "user", "sign", "insert"}

(* The handler asserts the type of a context value stored under another    *)
(* key: it panics before it calls the service, and the connection is cut.  *)
LogoutAllPanic(r) ==
    /\ req[r].pc = "accepted" /\ req[r].kind = "logout_all"
    /\ Goto(r, "aborted")
    /\ UNCHANGED <<now, version, rows, blacklist, ended, issued, quiet, redeemed>>

(* Service.LogoutAll itself, for whoever calls it with a user id: two      *)
(* statements, with no transaction around them.                            *)
Revoking(r, u) ==
    /\ req[r].pc = "idle"
    /\ req' = [req EXCEPT ![r] = [Idle EXCEPT !.kind = "revoke_all", !.pc = "revoke", !.user = u]]
    /\ quiet' = [quiet EXCEPT ![u] = IF Granting(u) THEN "no" ELSE "closing"]

(* Mutant: only the refresh tokens are seen to.                            *)
LogoutAllIncrement_Not(r, u) ==
    /\ Revoking(r, u)
    /\ UNCHANGED <<now, version, rows, blacklist, ended, issued, redeemed>>

LogoutAllIncrement(r, u) ==
    /\ Revoking(r, u)
    /\ version[u] < MaxVersion
    /\ version' = [version EXCEPT ![u] = @ + 1]
    /\ UNCHANGED <<now, rows, blacklist, ended, issued, redeemed>>

LogoutAllRevoke(r) ==
    LET u == req[r].user IN
    /\ req[r].pc = "revoke"
    /\ rows' = [k \in Rows |-> IF rows[k].user = u /\ rows[k].state = "live"
                               THEN [rows[k] EXCEPT !.state = "revoked"] ELSE rows[k]]
    /\ quiet' = [quiet EXCEPT ![u] = IF @ = "closing" THEN "closed" ELSE @]
    /\ Answer(r)
    /\ UNCHANGED <<now, version, blacklist, ended, issued, redeemed>>

-----------------------------------------------------------------------------
(* A statement fails, Redis errs, the client goes away and cancels the     *)
(* context, the process dies: the handler goes no further.                 *)
Fail(r) ==
    /\ req[r].pc \notin {"idle", "aborted"}
    /\ Answer(r)
    /\ UNCHANGED <<now, version, rows, blacklist, ended, issued, quiet, redeemed>>

Tick ==
    /\ now < MaxTime
    /\ now' = now + 1
    /\ UNCHANGED <<version, rows, blacklist, ended, issued, req, quiet, redeemed>>

Next ==
    \/ Tick
    \/ \E r \in Requests :
          \/ \E u \in Users : SignIn(r, u) \/ LogoutAllIncrement(r, u)
          \/ \E t \in issued \cup {None}, k \in Rows \cup {None} : Refresh(r, t, k)
          \/ RefreshSelect(r) \/ RefreshDelete(r) \/ RefreshUser(r) \/ Sign(r)
          \/ \E k \in Rows : InsertRow(r, k)
          \/ \E t \in issued, c \in issued \cup {None}, kind \in {"api", "logout", "logout_all"} :
                Present(r, kind, t, c)
          \/ CheckVersion(r) \/ CheckBlacklist(r) \/ Serve(r) \/ Logout(r)
          \/ LogoutAllPanic(r) \/ LogoutAllRevoke(r)
          \/ Fail(r)

Spec == Init /\ [][Next]_vars

-----------------------------------------------------------------------------
(* Properties.                                                             *)

(* A token accepted behind RequireAuth was, when the request began, of the *)
(* user's current version or a later one, and not one that a logout or a   *)
(* refresh had found in its cookie and Redis had taken.  So it is at any   *)
(* point between the token's issue and its expiry; a request that sees the *)
(* token just before it expires, and looks for its key, gone with it, just *)
(* after, is accepted all the same.  Not ended at all is the token of a    *)
(* logout that came as Bearer, or whose Redis erred: both are answered     *)
(* with 204, and the token is good until it expires.                       *)
AcceptedIsCurrent ==
    \A r \in Requests :
        LET t == req[r].token IN
        req[r].pc = "accepted" =>
            /\ req[r].seen.ended => now >= Exp(t)
            /\ t.ver >= req[r].seen.ver

(* A refresh token that was rotated away or revoked before a request began *)
(* buys that request nothing, however the request runs beside others.      *)
RotatedIsSpent ==
    \A r \in Requests :
        req[r].kind = "refresh" /\ req[r].pc \in {"delete", "user", "sign", "insert"}
            => ~ req[r].seen.ended

(* After a logout from all sessions that no sign-in and no refresh ran     *)
(* beside, and until the next sign-in, the user has no session: neither a  *)
(* refresh token nor an access token that would be accepted.               *)
LogoutAllEnds ==
    \A u \in Users : quiet[u] = "closed" =>
        /\ \A k \in Rows : ~ (rows[k].user = u /\ Usable(k))
        /\ \A t \in issued : ~ (t.user = u /\ t.ver = version[u] /\ now < Exp(t))

(* auth/handler.go:58: the handler blacklists the old access token.  The   *)
(* one it hands out is another.                                            *)
RefreshGivesNewToken ==
    \A r \in Requests :
        req[r].kind = "refresh" /\ req[r].access # None => req[r].access # req[r].token

(* auth/handler.go:92: a logout from all sessions without a user id is     *)
(* answered with 401.                                                      *)
NoHandlerPanics == \A r \in Requests : req[r].pc # "aborted"

=============================================================================
