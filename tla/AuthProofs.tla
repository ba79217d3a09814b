----------------------------- MODULE AuthProofs -----------------------------
(***************************************************************************)
(* The safety of sessions for any number of users, handlers and tokens,    *)
(* and any lifetimes.                                                      *)
(*                                                                         *)
(* A handler reads the expiry, the version and the blacklist at three      *)
(* moments.  The argument is that versions only grow, that a key of the    *)
(* blacklist is never taken away before its token expires, and that a row  *)
(* once deleted or revoked is never live again.                            *)
(***************************************************************************)
EXTENDS Auth, TLAPS

PCs == {"idle", "select", "delete", "user", "sign", "insert",
        "version", "redis", "accepted", "revoke", "aborted"}

Granted == {"delete", "user", "sign", "insert"}

Validating == {"version", "redis", "accepted"}

(* What a handler holds by the place it is at.                             *)
Holds(r) ==
    /\ req[r].pc \in Granted \cup Validating \cup {"revoke"} => req[r].user \in Users
    /\ req[r].pc = "delete" => req[r].row \in Rows
    /\ req[r].pc = "insert" => req[r].access \in Token
    /\ req[r].pc \in Validating => req[r].token \in Token /\ req[r].user = req[r].token.user
    /\ req[r].pc = "select" => req[r].kind = "refresh"

OwnedRows == \A k \in Rows : rows[k].state = "live" => rows[k].user \in Users

(* TypeOK made inductive.                                                  *)
TypeInv ==
    /\ TypeOK
    /\ OwnedRows
    /\ \A r \in Requests : Holds(r)

-----------------------------------------------------------------------------
(* Requests.                                                               *)

(* Every action but Tick changes one handler, and leaves it a request.     *)
HandlerStep(r) ==
    \/ \E u \in Users : SignIn(r, u) \/ LogoutAllIncrement(r, u)
    \/ \E t \in issued \cup {None}, k \in Rows \cup {None} : Refresh(r, t, k)
    \/ RefreshSelect(r) \/ RefreshDelete(r) \/ RefreshUser(r) \/ Sign(r)
    \/ \E k \in Rows : InsertRow(r, k)
    \/ \E t \in issued, c \in issued \cup {None}, kind \in {"api", "logout", "logout_all"} :
          Present(r, kind, t, c)
    \/ CheckVersion(r) \/ CheckBlacklist(r) \/ Serve(r) \/ Logout(r)
    \/ LogoutAllPanic(r) \/ LogoutAllRevoke(r)
    \/ Fail(r)

LEMMA IdleTyped == Idle \in Request
  BY AuthAssumption DEF Idle, Request, Kinds

(* Moving on and answering.                                                *)
LEMMA GotoTyped ==
  ASSUME TypeOK, NEW r \in Requests, NEW p \in PCs, Goto(r, p)
  PROVE  /\ req' \in [Requests -> Request]
         /\ req'[r].pc = p /\ req'[r].kind = req[r].kind /\ req'[r].user = req[r].user
         /\ req'[r].token = req[r].token /\ req'[r].row = req[r].row
         /\ req'[r].access = req[r].access /\ req'[r].seen = req[r].seen
         /\ \A q \in Requests : q # r => req'[q] = req[q]
<1> DEFINE h == [req[r] EXCEPT !.pc = p]
<1>1. req[r] \in Request
  BY DEF TypeOK
<1>2. h \in Request
  BY <1>1 DEF Request, PCs
<1>3. req' = [req EXCEPT ![r] = h]
  BY DEF Goto
<1>4. /\ h.pc = p /\ h.kind = req[r].kind /\ h.user = req[r].user
      /\ h.token = req[r].token /\ h.row = req[r].row
      /\ h.access = req[r].access /\ h.seen = req[r].seen
  BY <1>1 DEF Request
<1> HIDE DEF h
<1> QED
  BY <1>2, <1>3, <1>4 DEF TypeOK

LEMMA AnswerTyped ==
  ASSUME TypeOK, NEW r \in Requests, Answer(r)
  PROVE  /\ req' \in [Requests -> Request]
         /\ req'[r] = Idle
         /\ \A q \in Requests : q # r => req'[q] = req[q]
  BY IdleTyped DEF TypeOK, Answer

(* What is set in Redis: a key for each token that is ended.               *)
LEMMA BlacklistTyped ==
  ASSUME TypeOK, NEW t \in Token \cup {None}, BlacklistToken(t)
  PROVE  /\ blacklist' \subseteq [token : Token, until : 0..(MaxTime + AccessTTL)]
         /\ ended' \subseteq Token
         /\ blacklist \subseteq blacklist' /\ ended \subseteq ended'
         /\ \A b \in blacklist' \ blacklist : b.until = Exp(b.token)
         /\ \A g \in ended' \ ended : \E b \in blacklist' : b.token = g
<1>1. CASE UNCHANGED <<blacklist, ended>>
  BY <1>1 DEF TypeOK
<1>2. CASE /\ ended' = ended \cup {g \in {t} \ {None} : now < Exp(g)}
           /\ ~ (t # None /\ Exp(t) > now) /\ blacklist' = blacklist
  <2>1. now \in Nat /\ (t \in Token => Exp(t) \in Nat)
    BY AuthAssumption DEF TypeOK, Token, Exp
  <2>2. t # None => ~ now < Exp(t)
    BY <1>2, <2>1
  <2> QED
    BY <1>2, <2>2 DEF TypeOK
<1>3. CASE /\ ended' = ended \cup {g \in {t} \ {None} : now < Exp(g)}
           /\ t # None /\ Exp(t) > now
           /\ blacklist' = blacklist \cup {[token |-> t, until |-> BlacklistUntil(t)]}
  <2>1. t \in Token /\ t.iat \in 0..MaxTime
    BY <1>3 DEF Token
  <2>2. Exp(t) \in 0..(MaxTime + AccessTTL)
    BY <2>1, AuthAssumption DEF Exp
  <2>3. [token |-> t, until |-> Exp(t)] \in [token : Token, until : 0..(MaxTime + AccessTTL)]
    BY <2>1, <2>2
  <2>4. /\ ended' \subseteq ended \cup {t}
        /\ blacklist' = blacklist \cup {[token |-> t, until |-> Exp(t)]}
    BY <1>3 DEF BlacklistUntil
  <2>5. [token |-> t, until |-> Exp(t)].token = t /\ [token |-> t, until |-> Exp(t)].until = Exp(t)
    OBVIOUS
  <2> QED
    BY <1>3, <2>1, <2>3, <2>4, <2>5 DEF TypeOK
<1> QED
  BY <1>1, <1>2, <1>3 DEF BlacklistToken

-----------------------------------------------------------------------------
(* Types.                                                                  *)

(* A handler's step keeps the types.                                       *)
LEMMA HandlerTyped ==
  ASSUME TypeInv, NEW r \in Requests, HandlerStep(r)
  PROVE  TypeInv'
<1> USE DEF TypeInv
<1>0. /\ req[r] \in Request /\ now \in 0..MaxTime /\ Holds(r)
      /\ \A q \in Requests : Holds(q)
  BY DEF TypeOK
<1>1. ASSUME NEW u \in Users, SignIn(r, u)
      PROVE  TypeInv'
  <2> DEFINE h == [Idle EXCEPT !.kind = "signin", !.pc = "sign", !.user = u, !.ver = version[u]]
  <2>1. h \in Request
    BY IdleTyped DEF Idle, Request, Kinds, TypeOK
  <2>2. req' = [req EXCEPT ![r] = h]
    BY <1>1 DEF SignIn
  <2>3. TypeOK'
    BY <1>1, <2>1, <2>2 DEF TypeOK, SignIn
  <2>4. \A q \in Requests : Holds(q)'
    BY <1>0, <2>2 DEF Holds, Idle, TypeOK, Granted, Validating
  <2> QED
    BY <1>1, <2>3, <2>4 DEF SignIn, OwnedRows
<1>2. ASSUME NEW u \in Users, LogoutAllIncrement(r, u)
      PROVE  TypeInv'
  <2> DEFINE h == [Idle EXCEPT !.kind = "revoke_all", !.pc = "revoke", !.user = u]
  <2>1. h \in Request
    BY IdleTyped DEF Idle, Request, Kinds
  <2>2. req' = [req EXCEPT ![r] = h]
    BY <1>2 DEF LogoutAllIncrement, Revoking
  <2>3. version' \in [Users -> 0..MaxVersion]
    BY <1>2, AuthAssumption DEF LogoutAllIncrement, TypeOK
  <2>4. TypeOK'
    BY <1>2, <2>1, <2>2, <2>3 DEF TypeOK, LogoutAllIncrement, Revoking
  <2>5. \A q \in Requests : Holds(q)'
    BY <1>0, <2>2 DEF Holds, Idle, TypeOK, Granted, Validating
  <2> QED
    BY <1>2, <2>4, <2>5 DEF LogoutAllIncrement, OwnedRows
<1>3. ASSUME NEW t \in issued \cup {None}, NEW k \in Rows \cup {None}, Refresh(r, t, k)
      PROVE  TypeInv'
  <2> DEFINE e == k # None /\ (k \in redeemed \/ rows[k].state = "revoked")
             h == [Idle EXCEPT !.kind = "refresh", !.pc = "select", !.token = t, !.row = k,
                               !.seen.ended = e]
  <2>1. h \in Request
    <3>1. e \in BOOLEAN
      OBVIOUS
    <3>2. t \in Token \cup {None}
      BY DEF TypeOK
    <3> HIDE DEF e
    <3> QED
      BY IdleTyped, <3>1, <3>2 DEF Idle, Request, Kinds
  <2>2. req' = [req EXCEPT ![r] = h]
    BY <1>3 DEF Refresh
  <2>3. TypeOK'
    <3>1. t \in Token \cup {None} /\ BlacklistToken(t)
      BY <1>3 DEF TypeOK, Refresh
    <3> QED
      BY <1>3, <2>1, <2>2, <3>1, BlacklistTyped DEF TypeOK, Refresh
  <2>4. h.pc = "select" /\ h.kind = "refresh"
    BY DEF Idle
  <2>5. \A q \in Requests : Holds(q)'
    BY <1>0, <2>2, <2>4 DEF Holds, TypeOK, Granted, Validating
  <2> QED
    BY <1>3, <2>3, <2>5 DEF Refresh, OwnedRows
<1>4. CASE RefreshSelect(r)
  <2> DEFINE k == req[r].row
             h == [req[r] EXCEPT !.pc = "delete", !.user = rows[k].user]
  <2>1. CASE Usable(k)
    <3>1. k \in Rows /\ rows[k].user \in Users
      BY <1>0, <2>1 DEF Usable, OwnedRows, Request
    <3>2. h \in Request
      BY <1>0, <3>1 DEF Request
    <3>3. req' = [req EXCEPT ![r] = h]
      BY <1>4, <2>1 DEF RefreshSelect
    <3>4. quiet' \in [Users -> {"no", "closing", "closed"}]
      BY <1>4, <2>1, <3>1 DEF RefreshSelect, TypeOK
    <3>5. TypeOK'
      BY <1>4, <3>2, <3>3, <3>4 DEF TypeOK, RefreshSelect
    <3>6. h.pc = "delete" /\ h.row = k /\ h.user = rows[k].user
      BY <1>0 DEF Request
    <3>7. \A q \in Requests : Holds(q)'
      BY <1>0, <3>1, <3>3, <3>6 DEF Holds, TypeOK, Granted, Validating
    <3> QED
      BY <1>4, <3>5, <3>7 DEF RefreshSelect, OwnedRows
  <2>2. CASE ~ Usable(k)
    <3>1. Answer(r)
      BY <1>4, <2>2 DEF RefreshSelect
    <3>2. TypeOK'
      BY <1>4, <2>2, <3>1, AnswerTyped DEF TypeOK, RefreshSelect
    <3>3. \A q \in Requests : Holds(q)'
      BY <1>0, <3>1, AnswerTyped DEF Holds, Idle, Granted, Validating
    <3> QED
      BY <1>4, <3>2, <3>3 DEF RefreshSelect, OwnedRows
  <2> QED
    BY <2>1, <2>2
<1>5. CASE RefreshDelete(r)
  <2>1. Goto(r, "user") /\ req[r].row \in Rows /\ req[r].pc = "delete"
    BY <1>0, <1>5 DEF RefreshDelete, Holds
  <2>2. rows' \in [Rows -> Row] /\ OwnedRows'
    BY <1>5, <2>1 DEF RefreshDelete, TypeOK, OwnedRows, Row
  <2>3. TypeOK'
    BY <1>5, <2>1, <2>2, GotoTyped DEF TypeOK, RefreshDelete, PCs
  <2>4. \A q \in Requests : Holds(q)'
    BY <1>0, <2>1, GotoTyped DEF Holds, PCs, Granted, Validating
  <2> QED
    BY <2>2, <2>3, <2>4
<1>6. CASE RefreshUser(r)
  <2> DEFINE h == [req[r] EXCEPT !.pc = "sign", !.ver = version[req[r].user]]
  <2>1. req[r].user \in Users
    BY <1>0, <1>6 DEF RefreshUser, Holds, Granted
  <2>2. h \in Request /\ h.pc = "sign" /\ h.user = req[r].user
    BY <1>0, <2>1 DEF Request, TypeOK
  <2>3. req' = [req EXCEPT ![r] = h]
    BY <1>6 DEF RefreshUser
  <2>4. TypeOK'
    BY <1>6, <2>2, <2>3 DEF TypeOK, RefreshUser
  <2>5. \A q \in Requests : Holds(q)'
    BY <1>0, <2>1, <2>2, <2>3 DEF Holds, TypeOK, Granted, Validating
  <2> QED
    BY <1>6, <2>4, <2>5 DEF RefreshUser, OwnedRows
<1>7. CASE Sign(r)
  <2> DEFINE a == [user |-> req[r].user, ver |-> req[r].ver, iat |-> now]
             h == [req[r] EXCEPT !.pc = "insert", !.access = a]
  <2>1. req[r].user \in Users /\ a \in Token
    BY <1>0, <1>7 DEF Sign, Holds, Granted, Token, Request
  <2>2. h \in Request /\ h.pc = "insert" /\ h.user = req[r].user /\ h.access = a
    BY <1>0, <2>1 DEF Request
  <2>3. req' = [req EXCEPT ![r] = h]
    BY <1>7 DEF Sign
  <2>4. TypeOK'
    BY <1>7, <2>2, <2>3 DEF TypeOK, Sign
  <2>5. \A q \in Requests : Holds(q)'
    BY <1>0, <2>1, <2>2, <2>3 DEF Holds, TypeOK, Granted, Validating
  <2> QED
    BY <1>7, <2>4, <2>5 DEF Sign, OwnedRows
<1>8. ASSUME NEW k \in Rows, InsertRow(r, k)
      PROVE  TypeInv'
  <2> DEFINE n == [state |-> "live", user |-> req[r].user, until |-> now + RefreshTTL]
  <2>1. req[r].user \in Users /\ req[r].access \in Token
    BY <1>0, <1>8 DEF InsertRow, Holds, Granted
  <2>2. n \in Row
    BY <1>0, <2>1, AuthAssumption DEF Row
  <2>3. rows' = [rows EXCEPT ![k] = n] /\ Answer(r)
    BY <1>8 DEF InsertRow
  <2>4. rows' \in [Rows -> Row] /\ OwnedRows'
    BY <2>1, <2>2, <2>3 DEF TypeOK, OwnedRows
  <2>5. issued' \subseteq Token
    BY <1>8, <2>1 DEF InsertRow, TypeOK
  <2>6. TypeOK'
    BY <1>8, <2>3, <2>4, <2>5, AnswerTyped DEF TypeOK, InsertRow
  <2>7. \A q \in Requests : Holds(q)'
    BY <1>0, <2>3, AnswerTyped DEF Holds, Idle, Granted, Validating
  <2> QED
    BY <2>4, <2>6, <2>7
<1>9. ASSUME NEW t \in issued, NEW c \in issued \cup {None},
             NEW kind \in {"api", "logout", "logout_all"}, Present(r, kind, t, c)
      PROVE  TypeInv'
  <2> DEFINE e == t \in ended
             k == IF kind = "logout" THEN c ELSE None
             h == [Idle EXCEPT !.kind = kind, !.pc = "version", !.user = t.user, !.token = t,
                               !.cookie = k,
                               !.seen.ver = version[t.user], !.seen.ended = e]
  <2>1. t \in Token /\ t.user \in Users
    BY DEF TypeOK, Token
  <2>2. e \in BOOLEAN /\ c \in Token \cup {None}
    <3>1. e \in BOOLEAN
      OBVIOUS
    <3>2. issued \subseteq Token
      BY DEF TypeOK
    <3> HIDE DEF e
    <3> QED
      BY <3>1, <3>2
  <2>3. req' = [req EXCEPT ![r] = h]
    BY <1>9 DEF Present
  <2>7. k \in Token \cup {None}
    BY <2>2
  <2> HIDE DEF e, k
  <2>4. h \in Request /\ h.pc = "version" /\ h.user = t.user /\ h.token = t
    <3> DEFINE g == [Idle EXCEPT !.kind = kind, !.pc = "version", !.user = t.user, !.token = t,
                                 !.cookie = k]
               s == [Idle.seen EXCEPT !.ver = version[t.user], !.ended = e]
    <3>1. version[t.user] \in 0..MaxVersion
      BY <2>1 DEF TypeOK
    <3>2. /\ g \in Request /\ g.pc = "version" /\ g.user = t.user /\ g.token = t
          /\ g.seen = Idle.seen
      BY IdleTyped, <2>1, <2>7 DEF Idle, Request, Kinds
    <3>3. s \in [ver : 0..MaxVersion, ended : BOOLEAN]
      BY <2>2, <3>1 DEF Idle
    <3>4. h = [g EXCEPT !.seen = s]
      BY <3>2
    <3> HIDE DEF g, s
    <3>5. [g EXCEPT !.seen = s] \in Request
      BY <3>2, <3>3 DEF Request
    <3>6. /\ [g EXCEPT !.seen = s].pc = g.pc /\ [g EXCEPT !.seen = s].user = g.user
          /\ [g EXCEPT !.seen = s].token = g.token
      BY <3>2 DEF Request
    <3> QED
      BY <3>2, <3>4, <3>5, <3>6
  <2>5. TypeOK'
    BY <1>9, <2>3, <2>4 DEF TypeOK, Present
  <2>6. \A q \in Requests : Holds(q)'
    BY <1>0, <2>1, <2>3, <2>4 DEF Holds, TypeOK, Granted, Validating
  <2> QED
    BY <1>9, <2>5, <2>6 DEF Present, OwnedRows
<1>10. ASSUME NEW p \in {"redis", "accepted", "aborted"},
              Goto(r, p),
              p \in Validating => req[r].pc \in Validating,
              UNCHANGED <<now, version, rows, blacklist, ended, issued, quiet, redeemed>>
       PROVE  TypeInv'
  <2>1. TypeOK'
    BY <1>10, GotoTyped DEF TypeOK, PCs
  <2>2. \A q \in Requests : Holds(q)'
    BY <1>0, <1>10, GotoTyped DEF Holds, PCs, Granted, Validating
  <2> QED
    BY <1>10, <2>1, <2>2 DEF OwnedRows
<1>11. ASSUME Answer(r), UNCHANGED <<now, version, rows, blacklist, ended, issued, quiet, redeemed>>
       PROVE  TypeInv'
  <2>1. TypeOK'
    BY <1>11, AnswerTyped DEF TypeOK
  <2>2. \A q \in Requests : Holds(q)'
    BY <1>0, <1>11, AnswerTyped DEF Holds, Idle, Granted, Validating
  <2> QED
    BY <1>11, <2>1, <2>2 DEF OwnedRows
<1>12. CASE CheckVersion(r)
  BY <1>10, <1>11, <1>12 DEF CheckVersion, Validating
<1>13. CASE CheckBlacklist(r)
  BY <1>10, <1>11, <1>13 DEF CheckBlacklist, Validating
<1>14. CASE Serve(r)
  BY <1>11, <1>14 DEF Serve
<1>15. CASE Logout(r)
  <2>1. TypeOK'
    <3>1. req[r].cookie \in Token \cup {None}
      BY <1>0 DEF Request
    <3> QED
      BY <1>15, <3>1, AnswerTyped, BlacklistTyped DEF TypeOK, Logout
  <2>2. \A q \in Requests : Holds(q)'
    BY <1>0, <1>15, AnswerTyped DEF Logout, Holds, Idle, Granted, Validating
  <2> QED
    BY <1>15, <2>1, <2>2 DEF Logout, OwnedRows
<1>16. CASE LogoutAllPanic(r)
  BY <1>10, <1>16 DEF LogoutAllPanic, Validating
<1>17. CASE LogoutAllRevoke(r)
  <2>1. rows' \in [Rows -> Row] /\ OwnedRows'
    BY <1>17 DEF LogoutAllRevoke, TypeOK, OwnedRows, Row
  <2>2. quiet' \in [Users -> {"no", "closing", "closed"}]
    BY <1>17 DEF LogoutAllRevoke, TypeOK
  <2>3. TypeOK'
    BY <1>17, <2>1, <2>2, AnswerTyped DEF TypeOK, LogoutAllRevoke
  <2>4. \A q \in Requests : Holds(q)'
    BY <1>0, <1>17, AnswerTyped DEF LogoutAllRevoke, Holds, Idle, Granted, Validating
  <2> QED
    BY <2>1, <2>3, <2>4
<1>18. CASE Fail(r)
  BY <1>11, <1>18 DEF Fail
<1> QED
  BY <1>1, <1>2, <1>3, <1>4, <1>5, <1>6, <1>7, <1>8, <1>9, <1>12, <1>13, <1>14, <1>15,
     <1>16, <1>17, <1>18 DEF HandlerStep

LEMMA TypeInit ==
  ASSUME Init
  PROVE  TypeInv
<1>1. NoRow \in Row
  BY AuthAssumption DEF NoRow, Row
<1>2. TypeOK
  BY <1>1, IdleTyped, AuthAssumption DEF Init, TypeOK
<1>3. OwnedRows
  BY DEF Init, NoRow, OwnedRows
<1>4. \A r \in Requests : Holds(r)
  BY DEF Init, Idle, Holds, Granted, Validating
<1> QED
  BY <1>2, <1>3, <1>4 DEF TypeInv

LEMMA NextIsStep == Next <=> Tick \/ \E r \in Requests : HandlerStep(r)
  BY DEF Next, HandlerStep

LEMMA TypeStep ==
  ASSUME TypeInv, [Next]_vars
  PROVE  TypeInv'
<1>1. CASE Tick
  BY <1>1, AuthAssumption DEF Tick, TypeInv, TypeOK, OwnedRows, Holds
<1>2. CASE \E r \in Requests : HandlerStep(r)
  BY <1>2, HandlerTyped
<1>3. CASE UNCHANGED vars
  BY <1>3 DEF vars, TypeInv, TypeOK, OwnedRows, Holds
<1> QED
  BY <1>1, <1>2, <1>3, NextIsStep

(* The variables keep their types: a version stays within its bound, a     *)
(* row that is live has an owner.                                          *)
THEOREM TypeCorrect == Spec => []TypeOK
<1>1. Init => TypeInv
  BY TypeInit
<1>2. TypeInv /\ [Next]_vars => TypeInv'
  BY TypeStep
<1>3. TypeInv => TypeOK
  BY DEF TypeInv
<1> QED
  BY <1>1, <1>2, <1>3, PTL DEF Spec

LEMMA TypeAlways == Spec => []TypeInv
  BY TypeInit, TypeStep, PTL DEF Spec

-----------------------------------------------------------------------------
(* What has been read stays true enough.                                   *)

(* Every key goes when its token does, and not before.                     *)
KeysLast == \A b \in blacklist : b.until = Exp(b.token)

(* A token that was ended has had its key.                                 *)
Keyed(t) == \E b \in blacklist : b.token = t
EndedKeyed == \A t \in ended : Keyed(t)

(* A validation between its reads.                                         *)
Validated(r) ==
    req[r].pc \in Validating =>
        /\ req[r].seen.ended => Keyed(req[r].token)
        /\ req[r].seen.ver <= version[req[r].user]
        /\ req[r].pc # "version" => req[r].token.ver >= req[r].seen.ver
        /\ req[r].pc = "accepted" /\ req[r].seen.ended => now >= Exp(req[r].token)

ValidInv == KeysLast /\ EndedKeyed /\ \A r \in Requests : Validated(r)

(* Versions, keys and the clock only grow.                                 *)
Grows ==
    /\ \A u \in Users : version[u] <= version'[u]
    /\ blacklist \subseteq blacklist'
    /\ now <= now'

(* What a step that only lets them grow leaves of a validation.            *)
LEMMA ValidatedFrame ==
  ASSUME TypeInv, TypeInv', NEW q \in Requests, Validated(q), Grows, UNCHANGED req[q]
  PROVE  Validated(q)'
<1> SUFFICES ASSUME req[q].pc \in Validating
             PROVE  Validated(q)'
  BY DEF Validated
<1>1. /\ req[q] \in Request /\ req[q].user \in Users /\ req[q].token \in Token
      /\ req'[q] = req[q]
  BY DEF TypeInv, TypeOK, Holds
<1>2. /\ version[req[q].user] \in Nat /\ version'[req[q].user] \in Nat
      /\ req[q].seen.ver \in Nat /\ now \in Nat /\ now' \in Nat
      /\ Exp(req[q].token) \in Nat
  BY <1>1, AuthAssumption DEF TypeInv, TypeOK, Request, Token, Exp
<1>3. Keyed(req[q].token) => Keyed(req[q].token)'
  BY <1>1 DEF Grows, Keyed
<1>4. version[req[q].user] <= version'[req[q].user] /\ now <= now'
  BY <1>1 DEF Grows
<1>5. req[q].seen.ver <= version'[req[q].user]
  BY <1>2, <1>4 DEF Validated
<1>6. req[q].pc = "accepted" /\ req[q].seen.ended => now' >= Exp(req[q].token)
  BY <1>2, <1>4 DEF Validated
<1> QED
  BY <1>1, <1>3, <1>5, <1>6 DEF Validated

(* Every handler's step lets them grow, sets keys that last, and leaves    *)
(* the other handlers alone.                                               *)
LEMMA HandlerGrows ==
  ASSUME TypeInv, KeysLast, EndedKeyed, NEW r \in Requests, HandlerStep(r)
  PROVE  /\ Grows /\ KeysLast' /\ EndedKeyed' /\ now' = now
         /\ \A q \in Requests : q # r => req'[q] = req[q]
<1>0. /\ now \in Nat /\ \A u \in Users : version[u] \in Nat
      /\ issued \subseteq Token /\ TypeOK /\ Holds(r)
  BY AuthAssumption DEF TypeInv, TypeOK
<1>1. now' = now
  BY DEF HandlerStep, SignIn, LogoutAllIncrement, Refresh, RefreshSelect, RefreshDelete,
         RefreshUser, Sign, InsertRow, Present, CheckVersion, CheckBlacklist, Serve, Logout,
         LogoutAllPanic, LogoutAllRevoke, Fail
<1>2. \A q \in Requests : q # r => req'[q] = req[q]
  BY <1>0 DEF TypeOK, HandlerStep, SignIn, LogoutAllIncrement, Revoking, Refresh, RefreshSelect,
         RefreshDelete, RefreshUser, Sign, InsertRow, Present, CheckVersion, CheckBlacklist,
         Serve, Logout, LogoutAllPanic, LogoutAllRevoke, Fail, Goto, Answer
<1>3. \A u \in Users : version[u] <= version'[u]
  <2>1. CASE \E u \in Users : LogoutAllIncrement(r, u)
    BY <1>0, <2>1 DEF LogoutAllIncrement, TypeOK
  <2>2. CASE UNCHANGED version
    BY <1>0, <2>2
  <2> QED
    BY <2>1, <2>2 DEF HandlerStep, SignIn, Refresh, RefreshSelect, RefreshDelete,
         RefreshUser, Sign, InsertRow, Present, CheckVersion, CheckBlacklist, Serve, Logout,
         LogoutAllPanic, LogoutAllRevoke, Fail
<1>4. blacklist \subseteq blacklist' /\ KeysLast' /\ EndedKeyed'
  <2>1. ASSUME NEW t \in Token \cup {None}, BlacklistToken(t)
        PROVE  blacklist \subseteq blacklist' /\ KeysLast' /\ EndedKeyed'
    BY <1>0, <2>1, BlacklistTyped DEF KeysLast, EndedKeyed, Keyed
  <2>2. CASE UNCHANGED <<blacklist, ended>>
    BY <2>2 DEF KeysLast, EndedKeyed, Keyed
  <2>3. CASE Logout(r)
    <3>1. req[r].cookie \in Token \cup {None}
      BY <1>0 DEF TypeOK, Request
    <3> QED
      BY <2>1, <2>3, <3>1 DEF Logout
  <2>4. ASSUME NEW t \in issued \cup {None}, NEW k \in Rows \cup {None}, Refresh(r, t, k)
        PROVE  blacklist \subseteq blacklist' /\ KeysLast' /\ EndedKeyed'
    BY <1>0, <2>1, <2>4 DEF Refresh
  <2> QED
    BY <2>2, <2>3, <2>4 DEF HandlerStep, SignIn, LogoutAllIncrement, RefreshSelect,
         RefreshDelete, RefreshUser, Sign, InsertRow, Present, CheckVersion, CheckBlacklist,
         Serve, LogoutAllPanic, LogoutAllRevoke, Fail
<1> QED
  BY <1>0, <1>1, <1>2, <1>3, <1>4 DEF Grows

(* The handler's own validation: it begins with what holds, and each check *)
(* adds what it finds.                                                     *)
LEMMA HandlerValidated ==
  ASSUME TypeInv, TypeInv', KeysLast, EndedKeyed, NEW r \in Requests, Validated(r), HandlerStep(r)
  PROVE  Validated(r)'
<1> SUFFICES ASSUME req'[r].pc \in Validating
             PROVE  Validated(r)'
  BY DEF Validated
<1>0. /\ TypeOK /\ Holds(r) /\ req[r] \in Request /\ now \in Nat
      /\ Idle.pc \notin Validating
  BY AuthAssumption DEF TypeInv, TypeOK, Idle, Validating
<1>1. ASSUME NEW t \in issued, NEW c \in issued \cup {None},
             NEW kind \in {"api", "logout", "logout_all"}, Present(r, kind, t, c)
      PROVE  Validated(r)'
  <2> DEFINE e == t \in ended
             h == [Idle EXCEPT !.kind = kind, !.pc = "version", !.user = t.user, !.token = t,
                               !.cookie = IF kind = "logout" THEN c ELSE None,
                               !.seen.ver = version[t.user], !.seen.ended = e]
  <2>1. t \in Token /\ version[t.user] \in Nat /\ e \in BOOLEAN
    BY <1>0, AuthAssumption DEF TypeOK, Token
  <2>2. req' = [req EXCEPT ![r] = h] /\ UNCHANGED <<version, blacklist>>
    BY <1>1 DEF Present
  <2> HIDE DEF e
  <2>4. /\ h.pc = "version" /\ h.user = t.user /\ h.token = t
        /\ h.seen.ver = version[t.user] /\ h.seen.ended = e
    BY DEF Idle
  <2>5. req'[r] = h
    BY <1>0, <2>2 DEF TypeOK
  <2>6. /\ req'[r].pc = "version" /\ req'[r].user = t.user /\ req'[r].token = t
        /\ req'[r].seen.ver = version[t.user] /\ req'[r].seen.ended = e
    BY <2>4, <2>5
  <2>7. e => Keyed(req[r].token)'
    BY <2>2, <2>6 DEF EndedKeyed, Keyed, e
  <2> QED
    BY <2>1, <2>2, <2>6, <2>7 DEF Validated
<1>2. CASE CheckVersion(r)
  <2>1. /\ req[r].pc = "version" /\ Goto(r, "redis") /\ UNCHANGED <<version, blacklist>>
        /\ req[r].token.ver = version[req[r].user]
    BY <1>0, <1>2, AnswerTyped DEF CheckVersion
  <2>2. /\ req'[r].pc = "redis" /\ req'[r].user = req[r].user
        /\ req'[r].token = req[r].token /\ req'[r].seen = req[r].seen
    BY <1>0, <2>1, GotoTyped DEF PCs
  <2>3. Keyed(req[r].token) => Keyed(req[r].token)'
    BY <2>1, <2>2 DEF Keyed
  <2> QED
    BY <2>1, <2>2, <2>3 DEF Validated, Validating
<1>3. CASE CheckBlacklist(r)
  <2>1. /\ req[r].pc = "redis" /\ Goto(r, "accepted")
        /\ UNCHANGED <<now, version, blacklist>>
        /\ ~ Blacklisted(req[r].token)
    BY <1>0, <1>3, AnswerTyped DEF CheckBlacklist
  <2>2. /\ req'[r].pc = "accepted" /\ req'[r].user = req[r].user
        /\ req'[r].token = req[r].token /\ req'[r].seen = req[r].seen
    BY <1>0, <2>1, GotoTyped DEF PCs
  <2>3. Keyed(req[r].token) => Keyed(req[r].token)'
    BY <2>1, <2>2 DEF Keyed
  <2>4. Keyed(req[r].token) => now >= Exp(req[r].token)
    <3>1. req[r].token \in Token /\ Exp(req[r].token) \in Nat
      BY <1>0, <2>1, AuthAssumption DEF Holds, Validating, Token, Exp
    <3> QED
      BY <1>0, <2>1, <3>1 DEF Keyed, Blacklisted, KeysLast
  <2> QED
    BY <2>1, <2>2, <2>3, <2>4 DEF Validated, Validating
<1>4. CASE Answer(r)
  BY <1>0, <1>4, AnswerTyped
<1>5. ASSUME NEW p \in PCs \ Validating, Goto(r, p)
      PROVE  FALSE
  BY <1>0, <1>5, GotoTyped
<1>6. CASE \E u \in Users : SignIn(r, u) \/ LogoutAllIncrement(r, u)
  <2>1. PICK u \in Users : SignIn(r, u) \/ LogoutAllIncrement(r, u)
    BY <1>6
  <2> DEFINE s == [Idle EXCEPT !.kind = "signin", !.pc = "sign", !.user = u, !.ver = version[u]]
             l == [Idle EXCEPT !.kind = "revoke_all", !.pc = "revoke", !.user = u]
  <2>2. req' = [req EXCEPT ![r] = s] \/ req' = [req EXCEPT ![r] = l]
    BY <2>1 DEF SignIn, LogoutAllIncrement, Revoking
  <2>3. s.pc = "sign" /\ l.pc = "revoke"
    BY DEF Idle
  <2>4. req'[r] = s \/ req'[r] = l
    BY <1>0, <2>2 DEF TypeOK
  <2> QED
    BY <2>3, <2>4 DEF Validating
<1>7. CASE \E t \in issued \cup {None}, k \in Rows \cup {None} : Refresh(r, t, k)
  BY <1>0, <1>7 DEF Refresh, Idle, TypeOK, Validating
<1>8. CASE RefreshSelect(r) \/ RefreshUser(r) \/ Sign(r)
  BY <1>0, <1>4, <1>8 DEF RefreshSelect, RefreshUser, Sign, TypeOK, Request, Validating
<1>9. CASE RefreshDelete(r) \/ LogoutAllPanic(r)
  BY <1>5, <1>9 DEF RefreshDelete, LogoutAllPanic, PCs, Validating
<1>10. CASE \/ \E k \in Rows : InsertRow(r, k)
            \/ Serve(r) \/ Logout(r) \/ LogoutAllRevoke(r) \/ Fail(r)
  BY <1>4, <1>10 DEF InsertRow, Serve, Logout, LogoutAllRevoke, Fail
<1> QED
  BY <1>1, <1>2, <1>3, <1>6, <1>7, <1>8, <1>9, <1>10 DEF HandlerStep

LEMMA ValidStep ==
  ASSUME TypeInv, TypeInv', ValidInv, [Next]_vars
  PROVE  ValidInv'
<1>1. CASE Tick
  <2>1. Grows /\ \A q \in Requests : UNCHANGED req[q]
    BY <1>1, AuthAssumption DEF Tick, Grows, TypeInv, TypeOK
  <2>2. KeysLast' /\ EndedKeyed'
    BY <1>1 DEF Tick, ValidInv, KeysLast, EndedKeyed, Keyed
  <2> QED
    BY <2>1, <2>2, ValidatedFrame DEF ValidInv
<1>2. ASSUME NEW r \in Requests, HandlerStep(r)
      PROVE  ValidInv'
  <2>1. /\ Grows /\ KeysLast' /\ EndedKeyed'
        /\ \A q \in Requests : q # r => req'[q] = req[q]
    BY <1>2, HandlerGrows DEF ValidInv
  <2>2. Validated(r)'
    BY <1>2, HandlerValidated DEF ValidInv
  <2>3. \A q \in Requests : q # r => Validated(q)'
    BY <2>1, ValidatedFrame DEF ValidInv
  <2> QED
    BY <2>1, <2>2, <2>3 DEF ValidInv
<1>3. CASE UNCHANGED vars
  BY <1>3 DEF vars, ValidInv, KeysLast, EndedKeyed, Validated, Keyed
<1> QED
  BY <1>1, <1>2, <1>3, NextIsStep

(* What is accepted had not been ended in Redis when the request began,    *)
(* unless it has expired since, and is of the version it was then or later.*)
THEOREM AcceptedCurrent == Spec => []AcceptedIsCurrent
<1>1. Init => ValidInv
  BY DEF Init, Idle, ValidInv, KeysLast, EndedKeyed, Validated, Validating
<1>2. TypeInv /\ TypeInv' /\ ValidInv /\ [Next]_vars => ValidInv'
  BY ValidStep
<1>3. ValidInv => AcceptedIsCurrent
  BY DEF ValidInv, Validated, Validating, AcceptedIsCurrent
<1> QED
  BY <1>1, <1>2, <1>3, TypeAlways, PTL DEF Spec

-----------------------------------------------------------------------------
(* Rotation.                                                               *)

Gone == {"revoked", "deleted"}

(* A handler that began with a row already gone finds it gone.             *)
Spent(r) ==
    /\ req[r].pc = "select" /\ req[r].seen.ended =>
          req[r].row \in Rows /\ rows[req[r].row].state \in Gone
    /\ req[r].kind = "refresh" /\ req[r].pc \in Granted => ~ req[r].seen.ended

RedeemedDeleted == \A k \in redeemed : rows[k].state = "deleted"

SpentInv == RedeemedDeleted /\ \A r \in Requests : Spent(r)

(* A row that is gone stays gone, and deleted it stays deleted.            *)
RowsAge ==
    \A k \in Rows : /\ rows[k].state \in Gone => rows'[k].state \in Gone
                    /\ rows[k].state = "deleted" => rows'[k].state = "deleted"

LEMMA HandlerAges ==
  ASSUME TypeInv, RedeemedDeleted, NEW r \in Requests, HandlerStep(r)
  PROVE  RowsAge /\ RedeemedDeleted'
<1>0. TypeOK /\ Holds(r)
  BY DEF TypeInv
<1>1. CASE RefreshDelete(r)
  BY <1>0, <1>1 DEF RefreshDelete, Holds, TypeOK, Row, RowsAge, RedeemedDeleted, Gone
<1>2. ASSUME NEW k \in Rows, InsertRow(r, k)
      PROVE  RowsAge /\ RedeemedDeleted'
  BY <1>0, <1>2 DEF InsertRow, TypeOK, RowsAge, RedeemedDeleted, Gone
<1>3. CASE LogoutAllRevoke(r)
  BY <1>0, <1>3 DEF LogoutAllRevoke, TypeOK, Row, RowsAge, RedeemedDeleted, Gone
<1>4. CASE UNCHANGED <<rows, redeemed>>
  BY <1>4 DEF RowsAge, RedeemedDeleted
<1> QED
  BY <1>1, <1>2, <1>3, <1>4 DEF HandlerStep, SignIn, LogoutAllIncrement, Refresh, RefreshSelect,
     RefreshUser, Sign, Present, CheckVersion, CheckBlacklist, Serve, Logout, LogoutAllPanic, Fail

LEMMA HandlerSpent ==
  ASSUME TypeInv, RedeemedDeleted, NEW r \in Requests, Spent(r), HandlerStep(r)
  PROVE  Spent(r)'
<1>0. TypeOK /\ Holds(r) /\ req[r] \in Request
  BY DEF TypeInv, TypeOK
<1>1. ASSUME NEW p \in PCs \ {"select"}, Goto(r, p),
             p \in Granted => req[r].pc \in Granted
      PROVE  Spent(r)'
  BY <1>0, <1>1, GotoTyped DEF Spent
<1>2. CASE Answer(r)
  BY <1>0, <1>2, AnswerTyped DEF Spent, Idle, Granted
<1>3. ASSUME NEW u \in Users, SignIn(r, u) \/ LogoutAllIncrement(r, u)
      PROVE  Spent(r)'
  <2> DEFINE s == [Idle EXCEPT !.kind = "signin", !.pc = "sign", !.user = u, !.ver = version[u]]
             l == [Idle EXCEPT !.kind = "revoke_all", !.pc = "revoke", !.user = u]
  <2>1. req' = [req EXCEPT ![r] = s] \/ req' = [req EXCEPT ![r] = l]
    BY <1>3 DEF SignIn, LogoutAllIncrement, Revoking
  <2>2. /\ s.pc = "sign" /\ s.kind = "signin"
        /\ l.pc = "revoke" /\ l.kind = "revoke_all"
    BY DEF Idle
  <2> HIDE DEF s, l
  <2> QED
    BY <1>0, <2>1, <2>2 DEF TypeOK, Spent, Granted
<1>4. ASSUME NEW t \in issued \cup {None}, NEW k \in Rows \cup {None}, Refresh(r, t, k)
      PROVE  Spent(r)'
  <2> DEFINE e == k # None /\ (k \in redeemed \/ rows[k].state = "revoked")
             h == [Idle EXCEPT !.kind = "refresh", !.pc = "select", !.token = t, !.row = k,
                               !.seen.ended = e]
  <2>1. req' = [req EXCEPT ![r] = h] /\ UNCHANGED rows
    BY <1>4 DEF Refresh
  <2>2. e => k \in Rows /\ rows[k].state \in Gone
    BY DEF RedeemedDeleted, Gone
  <2> HIDE DEF e
  <2>3. h.pc = "select" /\ h.row = k /\ h.seen.ended = e
    BY DEF Idle
  <2> HIDE DEF h
  <2>4. req'[r] = h
    BY <1>0, <2>1 DEF TypeOK
  <2> QED
    BY <2>1, <2>2, <2>3, <2>4 DEF Spent, Granted
<1>5. CASE RefreshSelect(r)
  <2> DEFINE k == req[r].row
             h == [req[r] EXCEPT !.pc = "delete", !.user = rows[k].user]
  <2>1. CASE Usable(k)
    <3>1. req' = [req EXCEPT ![r] = h] /\ req[r].pc = "select"
      BY <1>5, <2>1 DEF RefreshSelect
    <3>2. ~ req[r].seen.ended
      BY <2>1, <3>1 DEF Usable, Spent, Gone
    <3>3. h.pc = "delete" /\ h.seen = req[r].seen
      BY <1>0 DEF Request
    <3> HIDE DEF h
    <3> QED
      BY <1>0, <3>1, <3>2, <3>3 DEF TypeOK, Spent
  <2> QED
    BY <1>2, <1>5, <2>1 DEF RefreshSelect
<1>6. CASE RefreshUser(r) \/ Sign(r)
  <2> DEFINE a == [user |-> req[r].user, ver |-> req[r].ver, iat |-> now]
             g == [req[r] EXCEPT !.pc = "sign", !.ver = version[req[r].user]]
             h == [req[r] EXCEPT !.pc = "insert", !.access = a]
  <2>1. req[r].pc \in Granted /\ (req' = [req EXCEPT ![r] = g] \/ req' = [req EXCEPT ![r] = h])
    BY <1>6 DEF RefreshUser, Sign, Granted
  <2>2. /\ g.kind = req[r].kind /\ g.seen = req[r].seen /\ g.pc = "sign"
        /\ h.kind = req[r].kind /\ h.seen = req[r].seen /\ h.pc = "insert"
    BY <1>0 DEF Request
  <2> HIDE DEF g, h
  <2> QED
    BY <1>0, <2>1, <2>2 DEF TypeOK, Spent
<1>7. CASE RefreshDelete(r)
  BY <1>1, <1>7 DEF RefreshDelete, PCs, Granted
<1>8. ASSUME NEW t \in issued, NEW c \in issued \cup {None},
             NEW kind \in {"api", "logout", "logout_all"}, Present(r, kind, t, c)
      PROVE  Spent(r)'
  <2> DEFINE h == [Idle EXCEPT !.kind = kind, !.pc = "version", !.user = t.user, !.token = t,
                               !.cookie = IF kind = "logout" THEN c ELSE None,
                               !.seen.ver = version[t.user], !.seen.ended = t \in ended]
  <2>1. req' = [req EXCEPT ![r] = h]
    BY <1>8 DEF Present
  <2>2. h.pc = "version"
    BY DEF Idle
  <2> HIDE DEF h
  <2> QED
    BY <1>0, <2>1, <2>2 DEF TypeOK, Spent, Granted
<1>9. CASE CheckVersion(r) \/ CheckBlacklist(r) \/ LogoutAllPanic(r)
  BY <1>1, <1>2, <1>9 DEF CheckVersion, CheckBlacklist, LogoutAllPanic, PCs, Granted
<1>10. CASE \/ \E k \in Rows : InsertRow(r, k)
            \/ Serve(r) \/ Logout(r) \/ LogoutAllRevoke(r) \/ Fail(r)
  BY <1>2, <1>10 DEF InsertRow, Serve, Logout, LogoutAllRevoke, Fail
<1> QED
  BY <1>3, <1>4, <1>5, <1>6, <1>7, <1>8, <1>9, <1>10 DEF HandlerStep

LEMMA SpentStep ==
  ASSUME TypeInv, ValidInv, SpentInv, [Next]_vars
  PROVE  SpentInv'
<1>1. CASE Tick \/ UNCHANGED vars
  BY <1>1 DEF Tick, vars, SpentInv, RedeemedDeleted, Spent
<1>2. ASSUME NEW r \in Requests, HandlerStep(r)
      PROVE  SpentInv'
  <2>1. RowsAge /\ RedeemedDeleted' /\ Spent(r)'
    BY <1>2, HandlerAges, HandlerSpent DEF SpentInv
  <2>2. \A q \in Requests : q # r => req'[q] = req[q]
    BY <1>2, HandlerGrows DEF ValidInv
  <2>3. \A q \in Requests : q # r => Spent(q)'
    BY <2>1, <2>2 DEF SpentInv, Spent, RowsAge
  <2> QED
    BY <2>1, <2>3 DEF SpentInv
<1> QED
  BY <1>1, <1>2, NextIsStep

(* No refresh is bought with a token that was rotated away or revoked      *)
(* before it began, whatever runs beside it.                               *)
THEOREM RotatedSpent == Spec => []RotatedIsSpent
<1>1. Init => ValidInv /\ SpentInv
  BY DEF Init, Idle, ValidInv, KeysLast, EndedKeyed, Validated, Validating, SpentInv, RedeemedDeleted,
     Spent, Granted
<1>2. TypeInv /\ TypeInv' /\ ValidInv /\ SpentInv /\ [Next]_vars => ValidInv' /\ SpentInv'
  BY ValidStep, SpentStep
<1>3. SpentInv => RotatedIsSpent
  BY DEF SpentInv, Spent, Granted, RotatedIsSpent
<1> QED
  BY <1>1, <1>2, <1>3, TypeAlways, PTL DEF Spec

-----------------------------------------------------------------------------
(* Logging out of all sessions.                                            *)

Grants(r, u) ==
    req[r].kind \in {"signin", "refresh"} /\ req[r].user = u /\ req[r].pc \in Granted

LiveOf(k, u) == rows[k].user = u /\ rows[k].state = "live"

(* No token is of a version that is still to come.                         *)
IssuedOld == \A t \in issued : t.ver <= version[t.user]

Minting(r) ==
    /\ req[r].pc \in Granted => req[r].kind \in {"signin", "refresh"}
    /\ req[r].pc = "sign" => req[r].ver <= version[req[r].user]
    /\ req[r].pc = "insert" => /\ req[r].access.user = req[r].user
                              /\ req[r].access.ver <= version[req[r].user]

(* Between the two statements of a quiet LogoutAll, and after them.        *)
Quieted(u) ==
    /\ quiet[u] \in {"closing", "closed"} =>
          /\ \A r \in Requests : ~ Grants(r, u)
          /\ \A t \in issued : t.user = u => t.ver < version[u]
    /\ quiet[u] = "closed" => \A k \in Rows : ~ LiveOf(k, u)

EndInv ==
    /\ IssuedOld
    /\ \A r \in Requests : Minting(r)
    /\ \A u \in Users : Quieted(u)

(* What another user's step, or a step that grants nothing, leaves.        *)
LEMMA QuietFrame ==
  ASSUME NEW u \in Users, Quieted(u), quiet'[u] = quiet[u], version'[u] = version[u],
         \A q \in Requests : Grants(q, u)' => Grants(q, u),
         \A t \in issued' \ issued : t.user # u,
         \A k \in Rows : LiveOf(k, u)' => LiveOf(k, u)
  PROVE  Quieted(u)'
<1>1. ASSUME quiet'[u] \in {"closing", "closed"}
      PROVE  \A r \in Requests : ~ Grants(r, u)'
  BY <1>1 DEF Quieted
<1>2. ASSUME quiet'[u] \in {"closing", "closed"}, NEW t \in issued', t.user = u
      PROVE  t.ver < version'[u]
  BY <1>2 DEF Quieted
<1>3. ASSUME quiet'[u] = "closed"
      PROVE  \A k \in Rows : ~ LiveOf(k, u)'
  BY <1>3 DEF Quieted
<1> QED
  BY <1>1, <1>2, <1>3 DEF Quieted

(* The other handlers' tokens grow old.                                    *)
LEMMA MintingFrame ==
  ASSUME TypeInv, TypeInv', NEW q \in Requests, Minting(q), Grows, UNCHANGED req[q]
  PROVE  Minting(q)'
<1>1. req[q].user \in Users =>
         /\ version[req[q].user] \in Nat /\ version'[req[q].user] \in Nat
         /\ version[req[q].user] <= version'[req[q].user]
  BY AuthAssumption DEF TypeInv, TypeOK, Grows
<1>2. /\ req[q].pc \in Granted => req[q].user \in Users
      /\ req[q].ver \in Nat
      /\ req[q].pc = "insert" => req[q].access.ver \in Nat
  BY AuthAssumption DEF TypeInv, TypeOK, Request, Holds, Token
<1> QED
  BY <1>1, <1>2 DEF Minting, Granted

(* The handler's own.                                                      *)
LEMMA HandlerMinting ==
  ASSUME TypeInv, NEW r \in Requests, Minting(r), IssuedOld, HandlerStep(r)
  PROVE  Minting(r)' /\ IssuedOld'
<1>0. /\ TypeOK /\ Holds(r) /\ req[r] \in Request
      /\ \A u \in Users : version[u] \in Nat
  BY AuthAssumption DEF TypeInv, TypeOK
<1>1. ASSUME UNCHANGED <<version, issued>>
      PROVE  IssuedOld'
  BY <1>1 DEF IssuedOld
<1>2. ASSUME Answer(r)
      PROVE  Minting(r)'
  BY <1>0, <1>2, AnswerTyped DEF Minting, Idle, Granted
<1>3. ASSUME NEW p \in PCs, Goto(r, p), p \notin Granted \/ (p = "user" /\ req[r].pc = "delete")
      PROVE  Minting(r)'
  BY <1>0, <1>3, GotoTyped DEF Minting, Granted
<1>4. ASSUME NEW u \in Users, SignIn(r, u)
      PROVE  Minting(r)' /\ IssuedOld'
  <2> DEFINE h == [Idle EXCEPT !.kind = "signin", !.pc = "sign", !.user = u, !.ver = version[u]]
  <2>1. req' = [req EXCEPT ![r] = h] /\ UNCHANGED <<version, issued>>
    BY <1>4 DEF SignIn
  <2>2. h.pc = "sign" /\ h.kind = "signin" /\ h.user = u /\ h.ver = version[u]
    BY DEF Idle
  <2> HIDE DEF h
  <2> QED
    BY <1>0, <1>1, <2>1, <2>2 DEF TypeOK, Minting
<1>5. ASSUME NEW u \in Users, LogoutAllIncrement(r, u)
      PROVE  Minting(r)' /\ IssuedOld'
  <2> DEFINE h == [Idle EXCEPT !.kind = "revoke_all", !.pc = "revoke", !.user = u]
  <2>1. req' = [req EXCEPT ![r] = h]
    BY <1>5 DEF LogoutAllIncrement, Revoking
  <2>2. h.pc = "revoke"
    BY DEF Idle
  <2> HIDE DEF h
  <2>3. Minting(r)'
    BY <1>0, <2>1, <2>2 DEF TypeOK, Minting, Granted
  <2>4. ASSUME NEW t \in issued
        PROVE  t.ver <= version'[t.user]
    <3>1. t.user \in Users /\ t.ver \in Nat /\ t.ver <= version[t.user]
      BY <1>0, AuthAssumption DEF TypeOK, Token, IssuedOld
    <3>2. version' = [version EXCEPT ![u] = @ + 1]
      BY <1>5 DEF LogoutAllIncrement
    <3> QED
      BY <1>0, <3>1, <3>2 DEF TypeOK
  <2> QED
    BY <1>5, <2>3, <2>4 DEF LogoutAllIncrement, IssuedOld
<1>6. ASSUME NEW t \in issued \cup {None}, NEW k \in Rows \cup {None}, Refresh(r, t, k)
      PROVE  Minting(r)' /\ IssuedOld'
  <2> DEFINE h == [Idle EXCEPT !.kind = "refresh", !.pc = "select", !.token = t, !.row = k,
                     !.seen.ended = k # None /\ (k \in redeemed \/ rows[k].state = "revoked")]
  <2>1. req' = [req EXCEPT ![r] = h] /\ UNCHANGED <<version, issued>>
    BY <1>6 DEF Refresh
  <2>2. h.pc = "select"
    BY DEF Idle
  <2> HIDE DEF h
  <2> QED
    BY <1>0, <1>1, <2>1, <2>2 DEF TypeOK, Minting, Granted
<1>7. CASE RefreshSelect(r)
  <2> DEFINE k == req[r].row
             h == [req[r] EXCEPT !.pc = "delete", !.user = rows[k].user]
  <2>1. CASE Usable(k)
    <3>1. req' = [req EXCEPT ![r] = h] /\ UNCHANGED <<version, issued>> /\ req[r].pc = "select"
      BY <1>7, <2>1 DEF RefreshSelect
    <3>2. h.pc = "delete" /\ h.kind = "refresh"
      BY <1>0, <3>1 DEF Request, Holds
    <3> HIDE DEF h
    <3> QED
      BY <1>0, <1>1, <3>1, <3>2 DEF TypeOK, Minting
  <2> QED
    BY <1>1, <1>2, <1>7, <2>1 DEF RefreshSelect
<1>8. CASE RefreshUser(r)
  <2> DEFINE h == [req[r] EXCEPT !.pc = "sign", !.ver = version[req[r].user]]
  <2>1. /\ req' = [req EXCEPT ![r] = h] /\ UNCHANGED <<version, issued>> /\ req[r].pc = "user"
    BY <1>8 DEF RefreshUser
  <2>2. /\ h.pc = "sign" /\ h.kind = req[r].kind /\ h.user = req[r].user
        /\ h.ver = version[req[r].user] /\ req[r].user \in Users
    BY <1>0, <2>1 DEF Request, Holds, Granted
  <2> HIDE DEF h
  <2> QED
    BY <1>0, <1>1, <2>1, <2>2 DEF TypeOK, Minting, Granted
<1>9. CASE Sign(r)
  <2> DEFINE a == [user |-> req[r].user, ver |-> req[r].ver, iat |-> now]
             h == [req[r] EXCEPT !.pc = "insert", !.access = a]
  <2>1. /\ req' = [req EXCEPT ![r] = h] /\ UNCHANGED <<version, issued>> /\ req[r].pc = "sign"
    BY <1>9 DEF Sign
  <2>2. /\ h.pc = "insert" /\ h.kind = req[r].kind /\ h.user = req[r].user
        /\ h.access.user = req[r].user /\ h.access.ver = req[r].ver
    BY <1>0 DEF Request
  <2> HIDE DEF h
  <2> QED
    BY <1>0, <1>1, <2>1, <2>2 DEF TypeOK, Minting, Granted
<1>10. ASSUME NEW k \in Rows, InsertRow(r, k)
       PROVE  Minting(r)' /\ IssuedOld'
  <2>1. /\ req[r].pc = "insert" /\ issued' \subseteq issued \cup {req[r].access}
        /\ Answer(r) /\ UNCHANGED version
    BY <1>10 DEF InsertRow
  <2> QED
    BY <1>2, <2>1 DEF Minting, IssuedOld
<1>11. ASSUME NEW t \in issued, NEW c \in issued \cup {None},
              NEW kind \in {"api", "logout", "logout_all"}, Present(r, kind, t, c)
       PROVE  Minting(r)' /\ IssuedOld'
  <2> DEFINE h == [Idle EXCEPT !.kind = kind, !.pc = "version", !.user = t.user, !.token = t,
                               !.cookie = IF kind = "logout" THEN c ELSE None,
                               !.seen.ver = version[t.user], !.seen.ended = t \in ended]
  <2>1. req' = [req EXCEPT ![r] = h] /\ UNCHANGED <<version, issued>>
    BY <1>11 DEF Present
  <2>2. h.pc = "version"
    BY DEF Idle
  <2> HIDE DEF h
  <2> QED
    BY <1>0, <1>1, <2>1, <2>2 DEF TypeOK, Minting, Granted
<1>12. CASE RefreshDelete(r) \/ CheckVersion(r) \/ CheckBlacklist(r) \/ LogoutAllPanic(r)
  <2>1. \/ Goto(r, "user") /\ req[r].pc = "delete"
        \/ Goto(r, "redis") \/ Goto(r, "accepted") \/ Goto(r, "aborted") \/ Answer(r)
    BY <1>12 DEF RefreshDelete, CheckVersion, CheckBlacklist, LogoutAllPanic
  <2>2. ASSUME Goto(r, "user"), req[r].pc = "delete"
        PROVE  Minting(r)'
    BY <1>3, <2>2 DEF PCs
  <2>3. ASSUME NEW p \in {"redis", "accepted", "aborted"}, Goto(r, p)
        PROVE  Minting(r)'
    BY <1>0, <2>3, GotoTyped DEF Minting, PCs, Granted
  <2>4. Minting(r)'
    BY <1>2, <2>1, <2>2, <2>3
  <2> QED
    BY <1>1, <1>12, <2>4 DEF RefreshDelete, CheckVersion, CheckBlacklist, LogoutAllPanic
<1>13. CASE Serve(r) \/ Logout(r) \/ LogoutAllRevoke(r) \/ Fail(r)
  BY <1>1, <1>2, <1>13 DEF Serve, Logout, LogoutAllRevoke, Fail
<1> QED
  BY <1>4, <1>5, <1>6, <1>7, <1>8, <1>9, <1>10, <1>11, <1>12, <1>13 DEF HandlerStep

(* Only a refresh that finds its row, and a sign-in, begin to grant, and   *)
(* they end the quiet.                                                     *)
LEMMA HandlerQuieted ==
  ASSUME TypeInv, EndInv, NEW r \in Requests, HandlerStep(r), NEW u \in Users,
         \A q \in Requests : q # r => req'[q] = req[q]
  PROVE  Quieted(u)'
<1>0. /\ TypeOK /\ Holds(r) /\ req[r] \in Request /\ Quieted(u) /\ Minting(r) /\ OwnedRows
      /\ \A v \in Users : version[v] \in Nat
  BY AuthAssumption DEF TypeInv, TypeOK, EndInv
<1>1. ASSUME Grants(r, u)' => Grants(r, u)
      PROVE  \A q \in Requests : Grants(q, u)' => Grants(q, u)
  BY <1>1 DEF Grants
<1>2. ASSUME Answer(r)
      PROVE  ~ Grants(r, u)'
  BY <1>0, <1>2, AnswerTyped DEF Grants, Idle, Granted
<1>3. ASSUME NEW p \in PCs, Goto(r, p), p \notin Granted \/ req[r].pc \in Granted
      PROVE  Grants(r, u)' => Grants(r, u)
  BY <1>0, <1>3, GotoTyped DEF Grants, Granted
<1>4. ASSUME NEW v \in Users, SignIn(r, v)
      PROVE  Quieted(u)'
  <2> DEFINE h == [Idle EXCEPT !.kind = "signin", !.pc = "sign", !.user = v, !.ver = version[v]]
  <2>1. /\ req' = [req EXCEPT ![r] = h] /\ UNCHANGED <<version, issued, rows>>
        /\ quiet' = [quiet EXCEPT ![v] = "no"]
    BY <1>4 DEF SignIn
  <2>2. h.user = v
    BY DEF Idle
  <2> HIDE DEF h
  <2>3. req'[r] = h
    BY <1>0, <2>1 DEF TypeOK
  <2>4. CASE v = u
    BY <1>0, <2>1, <2>4 DEF TypeOK, Quieted
  <2>5. CASE v # u
    <3>1. ~ Grants(r, u)' /\ quiet'[u] = quiet[u]
      BY <1>0, <2>1, <2>2, <2>3, <2>5 DEF Grants, TypeOK
    <3> QED
      BY <1>0, <1>1, <2>1, <3>1, QuietFrame DEF LiveOf
  <2> QED
    BY <2>4, <2>5
<1>5. ASSUME NEW v \in Users, LogoutAllIncrement(r, v)
      PROVE  Quieted(u)'
  <2> DEFINE h == [Idle EXCEPT !.kind = "revoke_all", !.pc = "revoke", !.user = v]
  <2>1. /\ req' = [req EXCEPT ![r] = h] /\ UNCHANGED <<issued, rows>>
        /\ version' = [version EXCEPT ![v] = @ + 1]
        /\ quiet' = [quiet EXCEPT ![v] = IF Granting(v) THEN "no" ELSE "closing"]
    BY <1>5 DEF LogoutAllIncrement, Revoking
  <2>2. h.pc = "revoke"
    BY DEF Idle
  <2> HIDE DEF h
  <2>3. req'[r] = h
    BY <1>0, <2>1 DEF TypeOK
  <2>4. ~ Grants(r, u)'
    BY <2>2, <2>3 DEF Grants, Granted
  <2>5. CASE v # u
    BY <1>0, <1>1, <2>1, <2>4, <2>5, QuietFrame DEF LiveOf, TypeOK
  <2>6. CASE v = u /\ Granting(v)
    BY <1>0, <2>1, <2>6 DEF TypeOK, Quieted
  <2>7. CASE v = u /\ ~ Granting(v)
    <3>1. quiet'[u] = "closing" /\ version'[u] = version[u] + 1
      BY <1>0, <2>1, <2>7 DEF TypeOK
    <3>2. \A q \in Requests : ~ Grants(q, u)
      BY <2>7 DEF Granting, Grants, Granted
    <3>3. \A q \in Requests : ~ Grants(q, u)'
      BY <1>1, <2>4, <3>2
    <3>4. \A t \in issued : t.user = u => t.ver < version'[u]
      <4> TAKE t \in issued
      <4>1. t.ver \in Nat /\ t.ver <= version[t.user]
        BY <1>0, AuthAssumption DEF TypeOK, Token, EndInv, IssuedOld
      <4> QED
        BY <1>0, <3>1, <4>1
    <3> QED
      BY <2>1, <3>1, <3>3, <3>4 DEF Quieted
  <2> QED
    BY <2>5, <2>6, <2>7
<1>6. ASSUME NEW t \in issued \cup {None}, NEW k \in Rows \cup {None}, Refresh(r, t, k)
      PROVE  Quieted(u)'
  <2> DEFINE h == [Idle EXCEPT !.kind = "refresh", !.pc = "select", !.token = t, !.row = k,
                     !.seen.ended = k # None /\ (k \in redeemed \/ rows[k].state = "revoked")]
  <2>1. req' = [req EXCEPT ![r] = h] /\ UNCHANGED <<version, issued, rows, quiet>>
    BY <1>6 DEF Refresh
  <2>2. h.pc = "select"
    BY DEF Idle
  <2> HIDE DEF h
  <2>3. ~ Grants(r, u)'
    BY <1>0, <2>1, <2>2 DEF TypeOK, Grants, Granted
  <2> QED
    BY <1>0, <1>1, <2>1, <2>3, QuietFrame DEF LiveOf
<1>7. CASE RefreshSelect(r)
  <2> DEFINE k == req[r].row
             v == rows[k].user
             h == [req[r] EXCEPT !.pc = "delete", !.user = v]
  <2>1. CASE Usable(k)
    <3>1. /\ req' = [req EXCEPT ![r] = h] /\ UNCHANGED <<version, issued, rows>>
          /\ quiet' = IF quiet[v] = "closing" THEN [quiet EXCEPT ![v] = "no"] ELSE quiet
      BY <1>7, <2>1 DEF RefreshSelect
    <3>2. k \in Rows /\ v \in Users /\ LiveOf(k, v)
      BY <1>0, <2>1 DEF Usable, OwnedRows, Request, LiveOf
    <3>3. quiet[v] # "closed"
      BY <3>2 DEF EndInv, Quieted
    <3>4. quiet'[v] = "no"
      BY <1>0, <3>1, <3>2, <3>3 DEF TypeOK
    <3>5. CASE v = u
      BY <3>4, <3>5 DEF Quieted
    <3>6. CASE v # u
      <4>1. h.user = v
        BY <1>0 DEF Request
      <4>2. ~ Grants(r, u)' /\ quiet'[u] = quiet[u]
        BY <1>0, <3>1, <3>2, <3>6, <4>1 DEF TypeOK, Grants
      <4> QED
        BY <1>0, <1>1, <3>1, <4>2, QuietFrame DEF LiveOf
    <3> QED
      BY <3>5, <3>6
  <2>2. CASE ~ Usable(k)
    <3>1. Answer(r) /\ UNCHANGED <<version, issued, rows, quiet>>
      BY <1>7, <2>2 DEF RefreshSelect
    <3> QED
      BY <1>0, <1>1, <1>2, <3>1, QuietFrame DEF LiveOf
  <2> QED
    BY <2>1, <2>2
<1>8. CASE RefreshDelete(r)
  <2>1. /\ Goto(r, "user") /\ req[r].pc = "delete" /\ UNCHANGED <<version, issued, quiet>>
        /\ rows' = [rows EXCEPT ![req[r].row].state = "deleted"]
    BY <1>8 DEF RefreshDelete
  <2>2. \A k \in Rows : LiveOf(k, u)' => LiveOf(k, u)
    BY <1>0, <2>1 DEF TypeOK, Row, LiveOf
  <2>3. Grants(r, u)' => Grants(r, u)
    BY <1>3, <2>1 DEF PCs, Granted
  <2> QED
    BY <1>0, <1>1, <2>1, <2>2, <2>3, QuietFrame
<1>9. CASE RefreshUser(r) \/ Sign(r)
  <2> DEFINE a == [user |-> req[r].user, ver |-> req[r].ver, iat |-> now]
             g == [req[r] EXCEPT !.pc = "sign", !.ver = version[req[r].user]]
             h == [req[r] EXCEPT !.pc = "insert", !.access = a]
  <2>1. /\ req' = [req EXCEPT ![r] = g] \/ req' = [req EXCEPT ![r] = h]
        /\ UNCHANGED <<version, issued, rows, quiet>> /\ req[r].pc \in Granted
    BY <1>9 DEF RefreshUser, Sign, Granted
  <2>2. /\ g.kind = req[r].kind /\ g.user = req[r].user
        /\ h.kind = req[r].kind /\ h.user = req[r].user
    BY <1>0 DEF Request
  <2> HIDE DEF g, h
  <2>3. Grants(r, u)' => Grants(r, u)
    BY <1>0, <2>1, <2>2 DEF TypeOK, Grants
  <2> QED
    BY <1>0, <1>1, <2>1, <2>3, QuietFrame DEF LiveOf
<1>10. ASSUME NEW k \in Rows, InsertRow(r, k)
       PROVE  Quieted(u)'
  <2>1. /\ req[r].pc = "insert" /\ issued' \subseteq issued \cup {req[r].access}
        /\ Answer(r) /\ UNCHANGED <<version, quiet>>
        /\ rows' = [rows EXCEPT ![k] = [state |-> "live", user |-> req[r].user,
                                        until |-> now + RefreshTTL]]
    BY <1>10 DEF InsertRow
  <2>2. CASE req[r].user = u
    <3>1. Grants(r, u)
      BY <1>0, <2>1, <2>2 DEF Grants, Minting, Granted
    <3>2. quiet[u] \notin {"closing", "closed"}
      BY <1>0, <3>1 DEF Quieted
    <3> QED
      BY <2>1, <3>2 DEF Quieted
  <2>3. CASE req[r].user # u
    <3>1. \A t \in issued' \ issued : t.user # u
      BY <1>0, <2>1, <2>3 DEF Minting
    <3>2. \A j \in Rows : LiveOf(j, u)' => LiveOf(j, u)
      BY <1>0, <2>1, <2>3 DEF TypeOK, LiveOf
    <3> QED
      BY <1>0, <1>1, <1>2, <2>1, <3>1, <3>2, QuietFrame
  <2> QED
    BY <2>2, <2>3
<1>11. ASSUME NEW t \in issued, NEW c \in issued \cup {None},
              NEW kind \in {"api", "logout", "logout_all"}, Present(r, kind, t, c)
       PROVE  Quieted(u)'
  <2> DEFINE h == [Idle EXCEPT !.kind = kind, !.pc = "version", !.user = t.user, !.token = t,
                               !.cookie = IF kind = "logout" THEN c ELSE None,
                               !.seen.ver = version[t.user], !.seen.ended = t \in ended]
  <2>1. req' = [req EXCEPT ![r] = h] /\ UNCHANGED <<version, issued, rows, quiet>>
    BY <1>11 DEF Present
  <2>2. h.pc = "version"
    BY DEF Idle
  <2> HIDE DEF h
  <2>3. ~ Grants(r, u)'
    BY <1>0, <2>1, <2>2 DEF TypeOK, Grants, Granted
  <2> QED
    BY <1>0, <1>1, <2>1, <2>3, QuietFrame DEF LiveOf
<1>12. CASE CheckVersion(r) \/ CheckBlacklist(r) \/ LogoutAllPanic(r) \/ Serve(r) \/ Logout(r) \/ Fail(r)
  <2>1. /\ Goto(r, "redis") \/ Goto(r, "accepted") \/ Goto(r, "aborted") \/ Answer(r)
        /\ UNCHANGED <<version, issued, rows, quiet>>
    BY <1>12 DEF CheckVersion, CheckBlacklist, LogoutAllPanic, Serve, Logout, Fail
  <2>2. Grants(r, u)' => Grants(r, u)
    BY <1>2, <1>3, <2>1 DEF PCs, Granted
  <2> QED
    BY <1>0, <1>1, <2>1, <2>2, QuietFrame DEF LiveOf
<1>13. CASE LogoutAllRevoke(r)
  <2> DEFINE v == req[r].user
  <2>1. /\ v \in Users /\ Answer(r) /\ UNCHANGED <<version, issued>>
        /\ rows' = [k \in Rows |-> IF rows[k].user = v /\ rows[k].state = "live"
                                   THEN [rows[k] EXCEPT !.state = "revoked"] ELSE rows[k]]
        /\ quiet' = [quiet EXCEPT ![v] = IF @ = "closing" THEN "closed" ELSE @]
    BY <1>0, <1>13 DEF LogoutAllRevoke, Holds
  <2>2. \A k \in Rows : (LiveOf(k, u)' => LiveOf(k, u)) /\ (v = u => ~ LiveOf(k, u)')
    BY <1>0, <2>1 DEF TypeOK, Row, LiveOf
  <2>3. CASE quiet'[u] = quiet[u]
    BY <1>0, <1>1, <1>2, <2>1, <2>2, <2>3, QuietFrame
  <2>4. CASE quiet'[u] # quiet[u]
    <3>1. v = u /\ quiet[u] = "closing"
      BY <1>0, <2>1, <2>4 DEF TypeOK
    <3>2. \A q \in Requests : ~ Grants(q, u)'
      BY <1>0, <1>1, <1>2, <2>1, <3>1 DEF Quieted
    <3> QED
      BY <1>0, <2>1, <2>2, <3>1, <3>2 DEF Quieted
  <2> QED
    BY <2>3, <2>4
<1> QED
  BY <1>4, <1>5, <1>6, <1>7, <1>8, <1>9, <1>10, <1>11, <1>12, <1>13 DEF HandlerStep

LEMMA EndStep ==
  ASSUME TypeInv, TypeInv', ValidInv, EndInv, [Next]_vars
  PROVE  EndInv'
<1>1. CASE Tick \/ UNCHANGED vars
  BY <1>1 DEF Tick, vars, EndInv, IssuedOld, Minting, Quieted, Grants, LiveOf
<1>2. ASSUME NEW r \in Requests, HandlerStep(r)
      PROVE  EndInv'
  <2>1. Grows /\ \A q \in Requests : q # r => req'[q] = req[q]
    BY <1>2, HandlerGrows DEF ValidInv
  <2>2. Minting(r)' /\ IssuedOld'
    BY <1>2, HandlerMinting DEF EndInv
  <2>3. \A q \in Requests : q # r => Minting(q)'
    BY <2>1, MintingFrame DEF EndInv
  <2>4. \A u \in Users : Quieted(u)'
    BY <1>2, <2>1, HandlerQuieted
  <2> QED
    BY <2>2, <2>3, <2>4 DEF EndInv
<1> QED
  BY <1>1, <1>2, NextIsStep

(* A logout from all sessions that nothing ran beside leaves no session    *)
(* until the next sign-in.                                                 *)
THEOREM LogoutAllEnded == Spec => []LogoutAllEnds
<1>1. Init => ValidInv /\ EndInv
  <2>1. Init => ValidInv /\ IssuedOld /\ \A r \in Requests : Minting(r)
    BY DEF Init, Idle, ValidInv, KeysLast, EndedKeyed, Validated, Validating, IssuedOld, Minting, Granted
  <2>2. Init => \A u \in Users : Quieted(u)
    BY DEF Init, Quieted
  <2> QED
    BY <2>1, <2>2 DEF EndInv
<1>2. TypeInv /\ TypeInv' /\ ValidInv /\ EndInv /\ [Next]_vars => ValidInv' /\ EndInv'
  BY ValidStep, EndStep
<1>3. TypeInv /\ EndInv => LogoutAllEnds
  <2> SUFFICES ASSUME TypeInv, EndInv, NEW u \in Users, quiet[u] = "closed"
               PROVE  /\ \A k \in Rows : ~ (rows[k].user = u /\ Usable(k))
                      /\ \A t \in issued : ~ (t.user = u /\ t.ver = version[u] /\ now < Exp(t))
    BY DEF LogoutAllEnds
  <2>1. /\ \A k \in Rows : ~ LiveOf(k, u)
        /\ \A t \in issued : t.user = u => t.ver < version[u]
    BY DEF EndInv, Quieted
  <2>2. version[u] \in Nat /\ \A t \in issued : t.ver \in Nat
    BY AuthAssumption DEF TypeInv, TypeOK, Token
  <2> QED
    BY <2>1, <2>2 DEF LiveOf, Usable
<1> QED
  BY <1>1, <1>2, <1>3, TypeAlways, PTL DEF Spec

=============================================================================
