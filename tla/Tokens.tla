-------------------------------- MODULE Tokens --------------------------------
(***************************************************************************)
(* Refresh tokens and links to reset a password (api/auth.py,              *)
(* services/auth/password_reset_service.py and the cleanup loop of         *)
(* main.py).  A refresh, a logout and a logout-all read the tokens that    *)
(* are active and revoke, later, the ones they read; a reset revokes with  *)
(* an UPDATE over the table as it is then.  The session does not flush     *)
(* before a query, so a new row is seen by nobody before its commit.       *)
(***************************************************************************)
EXTENDS Naturals, FiniteSets, Sequences

CONSTANTS Users,      \* accounts
          Workers,    \* threads serving requests that others interrupt
          RefreshLives, \* REFRESH_TOKEN_EXPIRE_DAYS, with and without remember_me
          LinkLife,   \* PASSWORD_RESET_TOKEN_EXPIRE_MINUTES
          Retention,  \* PASSWORD_RESET_USED_TOKEN_RETENTION_DAYS
          MaxTime,    \* bound: the clock
          MaxTokens,  \* bound: rows of refresh_tokens
          MaxLinks,   \* bound: rows of password_reset_tokens
          None        \* SQL NULL, no row

ASSUME TokensAssumption ==
    /\ RefreshLives \cup {LinkLife} \subseteq Nat \ {0}
    /\ {Retention, MaxTime, MaxTokens, MaxLinks} \subseteq Nat
    /\ None \notin Nat

VARIABLES refresh,  \* refresh_tokens: row t is refresh[t]
          links,    \* password_reset_tokens: links[k], None once deleted
          now,      \* the clock
          req,      \* req[w] : what thread w has read and will write, or None
          ended,    \* the logins whose session was ended
          last,     \* last[u] : the link mailed last and not spent, or None
          raced     \* users for whom an overtaken request has written

tokenVars == <<refresh, links, now, req, ended, last, raced>>

---------------------------------------------------------------------------
Tokens == DOMAIN refresh
Links  == {k \in DOMAIN links : links[k] # None}

\* A login is named by the first token it was given.
RefreshToken == [user : Users, life : RefreshLives, expires_at : Nat, revoked : BOOLEAN,
                 login : 1..MaxTokens]

PasswordResetToken == [user : Users, expires_at : Nat, used_at : Nat \cup {None}]

\* NULL is none of the rows that stand for something.
ASSUME NullAssumption ==
    None \notin PasswordResetToken \cup [link : Nat, expires_at : Nat]

\* A row counts as expired at its last instant.
is_expired(row) == row.expires_at <= now

\* A token of that age still decodes: the claim "exp" is cut to the second.
Decodes(t) == now <= refresh[t].expires_at

Active(u)   == {t \in Tokens : refresh[t].user = u /\ ~refresh[t].revoked}
Unused(u)   == {k \in Links : links[k].user = u /\ links[k].used_at = None}
LoginsOf(T) == {refresh[t].login : t \in T}

---------------------------------------------------------------------------
(* What a request has read when it has passed its checks.                  *)

Request(op, u, rows, life) ==
    [op |-> op, user |-> u, rows |-> rows, life |-> life, fresh |-> TRUE]

Login(u) == {Request("login", u, {}, n) : n \in RefreshLives}

Refresh(t) ==
    IF refresh[t].revoked \/ ~Decodes(t) THEN {}
    ELSE IF is_expired(refresh[t]) THEN {Request("expire", refresh[t].user, {t}, None)}
    ELSE {Request("refresh", refresh[t].user, {t}, refresh[t].life)}

Logout(t) ==
    IF refresh[t].revoked \/ ~Decodes(t) THEN {}
    ELSE {Request("logout", refresh[t].user, {t}, None)}

LogoutAll(u) == {Request("logout", u, Active(u), None)}

\* The UPDATE of prepare_password_reset: its rows are those of this moment.
ForgotPassword(u) == {Request("forgot", u, Unused(u), None)}

ResetPassword(k) ==
    IF links[k].used_at # None \/ is_expired(links[k]) THEN {}
    ELSE {Request("reset", links[k].user, {k}, None)}

Accepted == (UNION {Login(u) \cup LogoutAll(u) \cup ForgotPassword(u) : u \in Users})
       \cup (UNION {Refresh(t) \cup Logout(t) : t \in Tokens})
       \cup (UNION {ResetPassword(k) : k \in Links})

---------------------------------------------------------------------------
(* The writes, each in one transaction.                                    *)

\* Mutant: the token presented stays good.
KeepRevoking(T) == refresh

Revoking(T) == [t \in Tokens |-> [refresh[t] EXCEPT !.revoked = @ \/ t \in T]]

NewToken(r, login) ==
    [user |-> r.user, life |-> r.life, expires_at |-> now + r.life,
     revoked |-> FALSE, login |-> login]

\* replaced_by_jti stays NULL: the query for the new row finds nothing yet.
IssueTokens(r) ==
    /\ r.op \in {"login", "refresh"}
    /\ Len(refresh) < MaxTokens
    /\ LET login == IF r.op = "login" THEN Len(refresh) + 1
                    ELSE CHOOSE l \in LoginsOf(r.rows) : TRUE
       IN  refresh' = Append(Revoking(r.rows), NewToken(r, login))
    /\ UNCHANGED <<links, ended, last>>

Revoke(r) ==
    /\ r.op \in {"expire", "logout"}
    /\ refresh' = Revoking(r.rows)
    /\ ended' = (IF r.op = "logout" THEN ended \cup LoginsOf(r.rows) ELSE ended)
    /\ UNCHANGED <<links, last>>

Using(K) == [k \in DOMAIN links |-> IF k \in K /\ k \in Links
                                    THEN [links[k] EXCEPT !.used_at = now]
                                    ELSE links[k]]

IssueLink(r) ==
    /\ r.op = "forgot"
    /\ Len(links) < MaxLinks
    /\ links' = Append(Using(r.rows \cap Unused(r.user)),
                       [user |-> r.user, expires_at |-> now + LinkLife, used_at |-> None])
    /\ last' = [last EXCEPT ![r.user] = [link |-> Len(links) + 1,
                                         expires_at |-> now + LinkLife]]
    /\ UNCHANGED <<refresh, ended>>

\* The row of the link must still be there when its used_at is written.
Reset(r) ==
    /\ r.op = "reset"
    /\ r.rows \subseteq Links
    /\ links' = Using(r.rows \cup Unused(r.user))
    /\ refresh' = Revoking(Active(r.user))
    /\ last' = [last EXCEPT ![r.user] = None]
    /\ ended' = ended \cup {refresh[t].login : t \in {x \in Tokens : refresh[x].user = r.user}}

\* A reset writes over whatever was written meanwhile.
Apply(r) ==
    /\ IssueTokens(r) \/ Revoke(r) \/ IssueLink(r) \/ Reset(r)
    /\ raced' = IF r.op = "reset" THEN raced \ {r.user}
                ELSE IF r.fresh \/ r.op \in {"login", "expire"} THEN raced
                ELSE raced \cup {r.user}

\* What the requests in flight have read of this user may hold no longer.
Overtaken(w, u) == [x \in Workers |->
                      IF x = w \/ req[x] = None THEN None
                      ELSE [req[x] EXCEPT !.fresh = @ /\ req[x].user # u]]

---------------------------------------------------------------------------
TokensInit == /\ refresh = <<>>
              /\ links = <<>>
              /\ now = 0
              /\ req = [w \in Workers |-> None]
              /\ ended = {}
              /\ last = [u \in Users |-> None]
              /\ raced = {}

Load(w) == /\ req[w] = None
           /\ \E r \in Accepted : req' = [req EXCEPT ![w] = r]
           /\ UNCHANGED <<refresh, links, now, ended, last, raced>>

Commit(w) == /\ req[w] # None
             /\ Apply(req[w])
             /\ req' = Overtaken(w, req[w].user)
             /\ UNCHANGED now

\* The request fails, or the process stops: nothing was committed.
Fail(w) == /\ req[w] # None
           /\ req' = [req EXCEPT ![w] = None]
           /\ UNCHANGED <<refresh, links, now, ended, last, raced>>

\* A request that no other one interrupts.
Serve == \E r \in Accepted : /\ Apply(r)
                             /\ req' = Overtaken(None, r.user)
                             /\ UNCHANGED now

\* Mutant: used_at, NULL while the link is not used, is compared alone.
StaleByAge(k) == \/ is_expired(links[k])
                 \/ links[k].expires_at + Retention <= now + LinkLife

\* Written for subtraction on naturals: used_at <= now - Retention.
Stale(k) == \/ is_expired(links[k])
            \/ /\ links[k].used_at # None
               /\ links[k].used_at + Retention <= now

CleanupPasswordResetTokens ==
    /\ \E k \in Links : Stale(k)
    /\ links' = [k \in DOMAIN links |-> IF k \in Links /\ Stale(k) THEN None ELSE links[k]]
    /\ UNCHANGED <<refresh, now, req, ended, last, raced>>

Tick == /\ now < MaxTime
        /\ now' = now + 1
        /\ UNCHANGED <<refresh, links, req, ended, last, raced>>

TokensNext == \/ Serve
              \/ CleanupPasswordResetTokens
              \/ Tick
              \/ \E w \in Workers : Load(w) \/ Commit(w) \/ Fail(w)

TokensSpec == TokensInit /\ [][TokensNext]_tokenVars

---------------------------------------------------------------------------
(* Properties. *)

\* A login has one token that can be refreshed, however often it was
\* refreshed, and none once it was logged out, logged out everywhere or its
\* password was reset; except for a user for whom a request has written what
\* another one had overtaken, and that only until the next reset.
OneTokenPerSession ==
    \A s, t \in Tokens :
        (/\ ~refresh[s].revoked /\ ~refresh[t].revoked
         /\ refresh[s].user \notin raced
         /\ refresh[s].login = refresh[t].login)
        => s = t /\ refresh[s].login \notin ended

\* The link that works is the one mailed last: it works until it is used or
\* expires, a cleanup never takes it away, and no other link works; except
\* where two requests for a link overlapped, and that until the next reset.
LastLinkWorks ==
    \A u \in Users \ raced :
        {k \in Unused(u) : ~is_expired(links[k])}
            = IF last[u] = None \/ is_expired(last[u]) THEN {} ELSE {last[u].link}
=============================================================================
