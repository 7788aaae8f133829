---------------------------- MODULE TokensProofs ----------------------------
(***************************************************************************)
(* Unless a request was overtaken by another one of the same user, a login *)
(* has at most one refresh token and none after it was ended, and the      *)
(* reset link that works is the one mailed last, for any number of users,  *)
(* threads, tokens and links.                                              *)
(***************************************************************************)
EXTENDS Tokens, TLAPS, SequenceTheorems

\* The tokens of a login belong to one user.
TypeInv ==
    /\ now \in Nat
    /\ refresh \in Seq(RefreshToken)
    /\ ended \subseteq Tokens
    /\ \A t \in Tokens : /\ refresh[t].login \in Tokens
                         /\ refresh[refresh[t].login].user = refresh[t].user

Requests == [op : {"login", "refresh", "expire", "logout", "forgot", "reset"},
             user : Users, rows : SUBSET Nat, life : RefreshLives \cup {None},
             fresh : BOOLEAN]

\* What a request has read, and what still holds of it when no request of the
\* same user has committed since: the tokens it is about are not revoked.
Sound(r) ==
    /\ r \in Requests
    /\ r.op \in {"login", "refresh"} => r.life \in RefreshLives
    /\ r.op = "login" => r.rows = {}
    /\ r.op = "refresh" => \E t : r.rows = {t}
    /\ r.op \in {"refresh", "expire", "logout"} =>
         /\ r.rows \subseteq Tokens
         /\ \A t \in r.rows : refresh[t].user = r.user
    /\ r.op \in {"refresh", "logout"} /\ r.fresh =>
         \A t \in r.rows : ~refresh[t].revoked

LinksType == links \in Seq(PasswordResetToken \cup {None})

IInv == /\ TypeInv
        /\ LinksType
        /\ OneTokenPerSession
        /\ req \in [Workers -> Requests \cup {None}]
        /\ \A w \in Workers : req[w] # None => Sound(req[w])

---------------------------------------------------------------------------
(* The table of tokens. *)

LEMMA TableType ==
    ASSUME TypeInv
    PROVE  /\ Len(refresh) \in Nat
           /\ Tokens = 1..Len(refresh)
           /\ \A t \in Tokens : refresh[t] \in RefreshToken
BY DEF TypeInv, Tokens

LEMMA RevokingType ==
    ASSUME TypeInv, NEW T
    PROVE  /\ Revoking(T) \in Seq(RefreshToken)
           /\ Len(Revoking(T)) = Len(refresh)
           /\ \A t \in Tokens :
                /\ Revoking(T)[t].user = refresh[t].user
                /\ Revoking(T)[t].login = refresh[t].login
                /\ Revoking(T)[t].revoked = (refresh[t].revoked \/ t \in T)
<1>1. \A t \in Tokens : [refresh[t] EXCEPT !.revoked = @ \/ t \in T] \in RefreshToken
  BY TableType DEF RefreshToken
<1>2. Revoking(T) \in [1..Len(refresh) -> RefreshToken]
  BY <1>1, TableType DEF Revoking
<1>3. Revoking(T) \in Seq(RefreshToken)
  BY <1>2, TableType, SeqDef
<1>4. Len(Revoking(T)) = Len(refresh)
  BY <1>2, <1>3, TableType, LenProperties
<1>5. \A t \in Tokens :
        /\ Revoking(T)[t].user = refresh[t].user
        /\ Revoking(T)[t].login = refresh[t].login
        /\ Revoking(T)[t].revoked = (refresh[t].revoked \/ t \in T)
  BY TableType DEF Revoking, RefreshToken
<1> QED BY <1>3, <1>4, <1>5

LEMMA AppendedType ==
    ASSUME TypeInv, NEW T, NEW x \in RefreshToken,
           refresh' = Append(Revoking(T), x)
    PROVE  /\ refresh' \in Seq(RefreshToken)
           /\ Len(refresh) + 1 \notin Tokens
           /\ Tokens' = Tokens \cup {Len(refresh) + 1}
           /\ refresh'[Len(refresh) + 1] = x
           /\ \A t \in Tokens :
                /\ refresh'[t].user = refresh[t].user
                /\ refresh'[t].login = refresh[t].login
                /\ refresh'[t].revoked = (refresh[t].revoked \/ t \in T)
<1> DEFINE R == Revoking(T)
<1>1. /\ R \in Seq(RefreshToken) /\ Len(R) = Len(refresh)
      /\ \A t \in Tokens :
           /\ R[t].user = refresh[t].user
           /\ R[t].login = refresh[t].login
           /\ R[t].revoked = (refresh[t].revoked \/ t \in T)
  BY RevokingType
<1> HIDE DEF R
<1>2. /\ Append(R, x) \in Seq(RefreshToken)
      /\ Len(Append(R, x)) = Len(R) + 1
      /\ Append(R, x)[Len(R) + 1] = x
      /\ \A t \in 1..Len(R) : Append(R, x)[t] = R[t]
  BY <1>1
<1>3. refresh' = Append(R, x)
  BY DEF R
<1>4. Tokens' = 1..(Len(refresh) + 1)
  BY <1>1, <1>2, <1>3 DEF Tokens
<1>5. Len(refresh) \in Nat /\ Tokens = 1..Len(refresh)
  BY TableType
<1>6. Tokens' = Tokens \cup {Len(refresh) + 1} /\ Len(refresh) + 1 \notin Tokens
  BY <1>4, <1>5
<1> QED BY <1>1, <1>2, <1>3, <1>5, <1>6

LEMMA RevokedType ==
    ASSUME TypeInv, NEW T, refresh' = Revoking(T)
    PROVE  /\ refresh' \in Seq(RefreshToken)
           /\ Tokens' = Tokens
           /\ \A t \in Tokens :
                /\ refresh'[t].user = refresh[t].user
                /\ refresh'[t].login = refresh[t].login
                /\ refresh'[t].revoked = (refresh[t].revoked \/ t \in T)
BY RevokingType, TableType DEF Tokens

LEMMA SameUser ==
    ASSUME TypeInv, NEW s \in Tokens, NEW t \in Tokens,
           refresh[s].login = refresh[t].login
    PROVE  refresh[s].user = refresh[t].user
BY DEF TypeInv

LEMMA OneToken ==
    ASSUME OneTokenPerSession, NEW s \in Tokens, NEW t \in Tokens,
           ~refresh[s].revoked, ~refresh[t].revoked,
           refresh[s].user \notin raced, refresh[s].login = refresh[t].login
    PROVE  s = t /\ refresh[s].login \notin ended
BY DEF OneTokenPerSession

---------------------------------------------------------------------------
(* The writes. *)

\* What a write leaves of the tokens that were there.
Kept(u) == /\ Tokens \subseteq Tokens'
           /\ \A t \in Tokens :
                /\ refresh'[t].user = refresh[t].user
                /\ refresh[t].user # u => refresh'[t].revoked = refresh[t].revoked

\* What an insertion into the table must keep.
LEMMA GrownType ==
    ASSUME TypeInv, now' = now, ended' = ended, NEW n, n \notin Tokens,
           refresh' \in Seq(RefreshToken), Tokens' = Tokens \cup {n},
           \A t \in Tokens : /\ refresh'[t].user = refresh[t].user
                             /\ refresh'[t].login = refresh[t].login,
           refresh'[n].login \in Tokens',
           refresh'[refresh'[n].login].user = refresh'[n].user
    PROVE  TypeInv'
<1>1. ended' \subseteq Tokens'
  BY DEF TypeInv
<1>2. ASSUME NEW t \in Tokens'
      PROVE  /\ refresh'[t].login \in Tokens'
             /\ refresh'[refresh'[t].login].user = refresh'[t].user
  <2>1. CASE t = n
    BY <2>1
  <2>2. CASE t \in Tokens
    <3>1. refresh[t].login \in Tokens /\ refresh[refresh[t].login].user = refresh[t].user
      BY <2>2 DEF TypeInv
    <3> QED BY <2>2, <3>1
  <2> QED BY <1>2, <2>1, <2>2
<1> QED BY <1>1, <1>2 DEF TypeInv

LEMMA NewTokenType ==
    ASSUME TypeInv, NEW r, r.user \in Users, r.life \in RefreshLives,
           NEW l \in 1..MaxTokens
    PROVE  /\ NewToken(r, l) \in RefreshToken
           /\ NewToken(r, l).login = l
           /\ NewToken(r, l).user = r.user
           /\ NewToken(r, l).revoked = FALSE
<1>1. now \in Nat
  BY DEF TypeInv
<1>2. r.life \in Nat
  BY TokensAssumption
<1>3. now + r.life \in Nat
  BY <1>1, <1>2
<1> QED BY <1>3 DEF NewToken, RefreshToken

LEMMA LoginWrites ==
    ASSUME TypeInv, OneTokenPerSession, now' = now, NEW r, Sound(r), Apply(r),
           r.op = "login"
    PROVE  TypeInv' /\ OneTokenPerSession' /\ Kept(r.user)
<1> DEFINE n == Len(refresh) + 1
           x == NewToken(r, n)
<1>1. IssueTokens(r) /\ raced' = raced
  BY DEF Apply, Revoke, IssueLink, Reset
<1>2. /\ refresh' = Append(Revoking({}), x)
      /\ Len(refresh) < MaxTokens
      /\ ended' = ended
  BY <1>1 DEF IssueTokens, Sound, Requests
<1>3. /\ x \in RefreshToken /\ x.login = n /\ x.user = r.user
  <2>1. MaxTokens \in Nat /\ Len(refresh) \in Nat
    BY TableType, TokensAssumption
  <2>2. n \in 1..MaxTokens
    BY <1>2, <2>1
  <2>3. r.user \in Users /\ r.life \in RefreshLives
    BY DEF Sound, Requests
  <2> HIDE DEF n
  <2> QED BY <2>2, <2>3, NewTokenType
<1> HIDE DEF x
<1>4. /\ refresh' \in Seq(RefreshToken) /\ n \notin Tokens
      /\ Tokens' = Tokens \cup {n} /\ refresh'[n] = x
      /\ \A t \in Tokens :
           /\ refresh'[t].user = refresh[t].user
           /\ refresh'[t].login = refresh[t].login
           /\ refresh'[t].revoked = refresh[t].revoked
  <2>1. \A t \in Tokens : refresh[t].revoked \in BOOLEAN
    BY TableType DEF RefreshToken
  <2>2. /\ refresh' \in Seq(RefreshToken) /\ n \notin Tokens
        /\ Tokens' = Tokens \cup {n} /\ refresh'[n] = x
        /\ \A t \in Tokens :
             /\ refresh'[t].user = refresh[t].user
             /\ refresh'[t].login = refresh[t].login
             /\ refresh'[t].revoked = (refresh[t].revoked \/ t \in {})
    BY <1>2, <1>3, AppendedType
  <2> HIDE DEF n
  <2> QED BY <2>1, <2>2
<1> HIDE DEF n
<1>5. TypeInv'
  BY <1>2, <1>3, <1>4, GrownType
<1>6. ASSUME NEW s \in Tokens', NEW t \in Tokens',
             ~refresh'[s].revoked, ~refresh'[t].revoked,
             refresh'[s].user \notin raced', refresh'[s].login = refresh'[t].login
      PROVE  s = t /\ refresh'[s].login \notin ended'
  <2>1. \A k \in Tokens : refresh'[k].login # n
    BY <1>4 DEF TypeInv
  <2>2. CASE s \in Tokens /\ t \in Tokens
    <3>1. ~refresh[s].revoked /\ ~refresh[t].revoked
      BY <1>4, <1>6, <2>2
    <3>2. /\ refresh[s].user \notin raced
          /\ refresh[s].login = refresh[t].login
      BY <1>1, <1>4, <1>6, <2>2
    <3>3. s = t /\ refresh[s].login \notin ended
      BY <2>2, <3>1, <3>2, OneToken
    <3> QED BY <1>2, <1>4, <2>2, <3>3
  <2>3. CASE s = n \/ t = n
    <3>1. s = n /\ t = n
      BY <1>3, <1>4, <1>6, <2>1, <2>3
    <3>2. n \notin ended
      BY <1>4 DEF TypeInv
    <3> QED BY <1>2, <1>3, <1>4, <3>1, <3>2
  <2> QED BY <1>4, <1>6, <2>2, <2>3
<1> QED BY <1>4, <1>5, <1>6 DEF Kept, OneTokenPerSession

LEMMA RefreshWrites ==
    ASSUME TypeInv, OneTokenPerSession, now' = now, NEW r, Sound(r), Apply(r),
           r.op = "refresh"
    PROVE  TypeInv' /\ OneTokenPerSession' /\ Kept(r.user)
<1>1. PICK t \in Tokens : r.rows = {t} /\ refresh[t].user = r.user
  BY DEF Sound
<1> DEFINE n == Len(refresh) + 1
           l == refresh[t].login
           x == NewToken(r, l)
<1>2. /\ IssueTokens(r)
      /\ raced' = (IF r.fresh THEN raced ELSE raced \cup {r.user})
  BY DEF Apply, Revoke, IssueLink, Reset
<1>3. refresh' = Append(Revoking({t}), x) /\ ended' = ended
  <2>1. LoginsOf({t}) = {l}
    BY DEF LoginsOf
  <2>2. (CHOOSE k \in LoginsOf(r.rows) : TRUE) = l
    BY <1>1, <2>1
  <2> HIDE DEF l
  <2> QED BY <1>1, <1>2, <2>2 DEF IssueTokens
<1>4. /\ x \in RefreshToken /\ x.login = l /\ x.user = r.user
      /\ l \in Tokens /\ refresh[l].user = r.user
  <2>1. l \in 1..MaxTokens
    BY <1>1, TableType DEF RefreshToken
  <2>2. l \in Tokens /\ refresh[l].user = r.user
    BY <1>1 DEF TypeInv
  <2>3. r.user \in Users /\ r.life \in RefreshLives
    BY DEF Sound, Requests
  <2> HIDE DEF l
  <2> QED BY <2>1, <2>2, <2>3, NewTokenType
<1> HIDE DEF x
<1>5. /\ refresh' \in Seq(RefreshToken) /\ n \notin Tokens
      /\ Tokens' = Tokens \cup {n} /\ refresh'[n] = x
      /\ \A s \in Tokens :
           /\ refresh'[s].user = refresh[s].user
           /\ refresh'[s].login = refresh[s].login
           /\ refresh'[s].revoked = (refresh[s].revoked \/ s \in {t})
  BY <1>3, <1>4, AppendedType
<1>6. \A s \in Tokens : refresh[s].revoked \in BOOLEAN
  BY TableType DEF RefreshToken
<1> HIDE DEF n
<1>7. TypeInv'
  <2>1. refresh'[n].login \in Tokens' /\ refresh'[refresh'[n].login].user = refresh'[n].user
    BY <1>4, <1>5
  <2> QED BY <1>3, <1>5, <2>1, GrownType
<1>8. Kept(r.user)
  BY <1>1, <1>5, <1>6 DEF Kept
<1>9. \A s \in Tokens : refresh[s].login = l => refresh[s].user = r.user
  BY <1>1, SameUser
<1> HIDE DEF l
<1>10. ASSUME NEW s \in Tokens', NEW q \in Tokens',
             ~refresh'[s].revoked, ~refresh'[q].revoked,
             refresh'[s].user \notin raced', refresh'[s].login = refresh'[q].login
       PROVE  s = q /\ refresh'[s].login \notin ended'
  <2>1. raced \subseteq raced'
    BY <1>2
  <2>2. CASE s \in Tokens /\ q \in Tokens
    <3>1. ~refresh[s].revoked /\ ~refresh[q].revoked
      BY <1>5, <1>6, <1>10, <2>2
    <3>2. refresh[s].user \notin raced /\ refresh[s].login = refresh[q].login
      BY <1>5, <1>10, <2>1, <2>2
    <3>3. s = q /\ refresh[s].login \notin ended
      BY <2>2, <3>1, <3>2, OneToken
    <3> QED BY <1>3, <1>5, <2>2, <3>3
  <2>3. CASE s = n \/ q = n
    <3>1. refresh'[s].login = l /\ refresh'[s].user = r.user
      BY <1>4, <1>5, <1>9, <1>10, <2>3
    <3>2. r.fresh /\ r.user \notin raced
      BY <1>2, <1>10, <3>1
    <3>3. ~refresh[t].revoked
      BY <1>1, <3>2 DEF Sound
    <3>4. refresh[t].login = l
      BY DEF l
    <3>5. l \notin ended
      BY <1>1, <3>2, <3>3, <3>4, OneToken
    <3>6. ASSUME NEW k \in Tokens, ~refresh'[k].revoked PROVE refresh'[k].login # l
      <4>1. ~refresh[k].revoked /\ k # t
        BY <1>5, <1>6, <3>6
      <4> QED BY <1>1, <1>5, <3>2, <3>3, <3>4, <4>1, OneToken
    <3> QED BY <1>3, <1>5, <1>10, <2>3, <3>1, <3>5, <3>6
  <2> QED BY <1>5, <1>10, <2>2, <2>3
<1> QED BY <1>7, <1>8, <1>10 DEF OneTokenPerSession

LEMMA RevokeWrites ==
    ASSUME TypeInv, OneTokenPerSession, now' = now, NEW r, Sound(r), Apply(r),
           r.op \in {"expire", "logout"}
    PROVE  TypeInv' /\ OneTokenPerSession' /\ Kept(r.user)
<1>1. /\ r.rows \subseteq Tokens
      /\ \A t \in r.rows : refresh[t].user = r.user
      /\ r.op = "logout" /\ r.fresh => \A t \in r.rows : ~refresh[t].revoked
  BY DEF Sound
<1>2. /\ Revoke(r)
      /\ raced' = (IF r.fresh \/ r.op = "expire" THEN raced ELSE raced \cup {r.user})
  BY DEF Apply, IssueTokens, IssueLink, Reset
<1>3. /\ refresh' = Revoking(r.rows)
      /\ ended' = (IF r.op = "logout" THEN ended \cup LoginsOf(r.rows) ELSE ended)
  BY <1>2 DEF Revoke
<1>4. /\ refresh' \in Seq(RefreshToken)
      /\ Tokens' = Tokens
      /\ \A t \in Tokens :
           /\ refresh'[t].user = refresh[t].user
           /\ refresh'[t].login = refresh[t].login
           /\ refresh'[t].revoked = (refresh[t].revoked \/ t \in r.rows)
  BY <1>3, RevokedType
<1>5. \A t \in Tokens : refresh[t].revoked \in BOOLEAN
  BY TableType DEF RefreshToken
<1>6. TypeInv'
  <2>1. ended' \subseteq Tokens'
    BY <1>1, <1>3, <1>4 DEF TypeInv, LoginsOf
  <2> QED BY <1>4, <2>1 DEF TypeInv
<1>7. Kept(r.user)
  BY <1>1, <1>4, <1>5 DEF Kept
<1>8. ASSUME NEW s \in Tokens', NEW q \in Tokens',
             ~refresh'[s].revoked, ~refresh'[q].revoked,
             refresh'[s].user \notin raced', refresh'[s].login = refresh'[q].login
      PROVE  s = q /\ refresh'[s].login \notin ended'
  <2>1. s \in Tokens /\ q \in Tokens
    BY <1>4
  <2>2. /\ ~refresh[s].revoked /\ s \notin r.rows
        /\ ~refresh[q].revoked
    BY <1>4, <1>5, <1>8, <2>1
  <2>3. refresh[s].user \notin raced /\ refresh[s].login = refresh[q].login
    BY <1>2, <1>4, <1>8, <2>1
  <2>4. s = q /\ refresh[s].login \notin ended
    BY <2>1, <2>2, <2>3, OneToken
  <2>5. ASSUME r.op = "logout", NEW k \in r.rows, refresh[k].login = refresh[s].login
        PROVE  FALSE
    <3>1. refresh[s].user = r.user
      BY <1>1, <2>1, <2>5, SameUser
    <3>2. r.fresh
      BY <1>2, <1>4, <1>8, <2>1, <2>5, <3>1
    <3>3. ~refresh[k].revoked
      BY <1>1, <2>5, <3>2
    <3>4. k = s
      BY <1>1, <2>1, <2>2, <2>3, <2>5, <3>3, OneToken
    <3> QED BY <2>2, <3>4
  <2>6. refresh[s].login \notin ended'
    BY <1>3, <2>4, <2>5 DEF LoginsOf
  <2> QED BY <1>4, <2>1, <2>4, <2>6
<1> QED BY <1>6, <1>7, <1>8 DEF OneTokenPerSession

LEMMA LinkWrites ==
    ASSUME TypeInv, OneTokenPerSession, now' = now, NEW r, Apply(r), r.op = "forgot"
    PROVE  TypeInv' /\ OneTokenPerSession' /\ Kept(r.user)
<1>1. IssueLink(r) /\ raced \subseteq raced'
  BY DEF Apply, IssueTokens, Revoke, Reset
<1>2. refresh' = refresh /\ ended' = ended
  BY <1>1 DEF IssueLink
<1>3. TypeInv'
  BY <1>2 DEF TypeInv, Tokens
<1>4. OneTokenPerSession'
  BY <1>1, <1>2 DEF OneTokenPerSession, Tokens
<1> QED BY <1>2, <1>3, <1>4 DEF Kept, Tokens

\* A reset needs nothing of what it has read: its UPDATE sees every token.
LEMMA ResetWrites ==
    ASSUME TypeInv, OneTokenPerSession, now' = now, NEW r, Apply(r), r.op = "reset"
    PROVE  TypeInv' /\ OneTokenPerSession' /\ Kept(r.user)
<1>1. Reset(r) /\ raced' = raced \ {r.user}
  BY DEF Apply, IssueTokens, Revoke, IssueLink
<1>2. /\ refresh' = Revoking(Active(r.user))
      /\ ended' = ended \cup
                   {refresh[t].login : t \in {x \in Tokens : refresh[x].user = r.user}}
  BY <1>1 DEF Reset
<1>3. /\ refresh' \in Seq(RefreshToken)
      /\ Tokens' = Tokens
      /\ \A t \in Tokens :
           /\ refresh'[t].user = refresh[t].user
           /\ refresh'[t].login = refresh[t].login
           /\ refresh'[t].revoked = (refresh[t].revoked \/ t \in Active(r.user))
  BY <1>2, RevokedType
<1>4. \A t \in Tokens : refresh[t].revoked \in BOOLEAN
  BY TableType DEF RefreshToken
<1>5. TypeInv'
  <2>1. ended' \subseteq Tokens'
    BY <1>2, <1>3 DEF TypeInv
  <2> QED BY <1>3, <2>1 DEF TypeInv
<1>6. Kept(r.user)
  BY <1>3, <1>4 DEF Kept, Active
<1>7. ASSUME NEW s \in Tokens', NEW q \in Tokens',
             ~refresh'[s].revoked, ~refresh'[q].revoked,
             refresh'[s].user \notin raced', refresh'[s].login = refresh'[q].login
      PROVE  s = q /\ refresh'[s].login \notin ended'
  <2>1. s \in Tokens /\ q \in Tokens
    BY <1>3
  <2>2. ~refresh[s].revoked /\ ~refresh[q].revoked /\ s \notin Active(r.user)
    BY <1>3, <1>4, <1>7, <2>1
  <2>3. refresh[s].user # r.user
    BY <2>1, <2>2 DEF Active
  <2>4. refresh[s].user \notin raced /\ refresh[s].login = refresh[q].login
    BY <1>1, <1>3, <1>7, <2>1, <2>3
  <2>5. s = q /\ refresh[s].login \notin ended
    BY <2>1, <2>2, <2>4, OneToken
  <2>6. \A k \in Tokens : refresh[k].user = r.user => refresh[k].login # refresh[s].login
    BY <2>1, <2>3, SameUser
  <2> QED BY <1>2, <1>3, <2>1, <2>5, <2>6
<1> QED BY <1>5, <1>6, <1>7 DEF OneTokenPerSession

LEMMA Writes ==
    ASSUME TypeInv, OneTokenPerSession, now' = now, NEW r, Sound(r), Apply(r)
    PROVE  TypeInv' /\ OneTokenPerSession' /\ Kept(r.user)
<1>1. r.op \in {"login", "refresh", "expire", "logout", "forgot", "reset"}
  BY DEF Sound, Requests
<1> QED BY <1>1, LoginWrites, RefreshWrites, RevokeWrites, LinkWrites, ResetWrites

---------------------------------------------------------------------------
(* The requests in flight. *)

\* A request another one has overtaken is not fresh, unless they are about
\* different users, whose tokens have nothing to do with each other.
LEMMA OthersSound ==
    ASSUME NEW u, Kept(u), NEW q, Sound(q),
           NEW b \in BOOLEAN, b => q.fresh /\ q.user # u
    PROVE  Sound([q EXCEPT !.fresh = b])'
<1> DEFINE y == [q EXCEPT !.fresh = b]
<1>1. q \in Requests
  BY DEF Sound
<1>2. /\ y \in Requests
      /\ y.op = q.op /\ y.user = q.user /\ y.rows = q.rows /\ y.life = q.life
      /\ y.fresh => q.fresh /\ q.user # u
  BY <1>1 DEF Requests
<1> HIDE DEF y
<1>3. y.op \in {"refresh", "expire", "logout"} =>
        /\ y.rows \subseteq Tokens /\ y.rows \subseteq Tokens'
        /\ \A t \in y.rows : refresh[t].user = y.user /\ refresh'[t].user = y.user
  BY <1>2 DEF Sound, Kept
<1>4. y.op \in {"refresh", "logout"} /\ y.fresh => \A t \in y.rows : ~refresh'[t].revoked
  BY <1>2, <1>3 DEF Sound, Kept
<1> QED BY <1>2, <1>3, <1>4 DEF Sound, y

LEMMA RequestType ==
    ASSUME NEW op \in {"login", "refresh", "expire", "logout", "forgot", "reset"},
           NEW u \in Users, NEW rows \in SUBSET Nat, NEW life \in RefreshLives \cup {None}
    PROVE  /\ Request(op, u, rows, life) \in Requests
           /\ Request(op, u, rows, life).op = op
           /\ Request(op, u, rows, life).user = u
           /\ Request(op, u, rows, life).rows = rows
           /\ Request(op, u, rows, life).life = life
BY DEF Request, Requests

\* What passes its checks is sound.
LEMMA AcceptedSound ==
    ASSUME TypeInv, LinksType, NEW r \in Accepted
    PROVE  Sound(r)
<1>1. Tokens \subseteq Nat /\ Links \subseteq Nat
  BY TableType DEF Links, LinksType
<1>2. \A t \in Tokens : refresh[t].user \in Users /\ refresh[t].life \in RefreshLives
  BY TableType DEF RefreshToken
<1>3. ASSUME NEW u \in Users, r \in Login(u) PROVE Sound(r)
  <2>1. PICK life \in RefreshLives : r = Request("login", u, {}, life)
    BY <1>3 DEF Login
  <2>2. /\ r \in Requests /\ r.op = "login" /\ r.rows = {} /\ r.life = life
    BY <2>1, RequestType
  <2> QED BY <2>2 DEF Sound
<1>4. ASSUME NEW u \in Users, r \in LogoutAll(u) PROVE Sound(r)
  <2>1. r = Request("logout", u, Active(u), None) /\ Active(u) \subseteq Tokens
    BY <1>4 DEF LogoutAll, Active
  <2>2. Active(u) \in SUBSET Nat
    BY <1>1, <2>1
  <2>3. /\ r \in Requests /\ r.op = "logout" /\ r.rows = Active(u) /\ r.user = u
    BY <2>1, <2>2, RequestType
  <2> QED BY <2>1, <2>3 DEF Sound, Active
<1>5. ASSUME NEW u \in Users, r \in ForgotPassword(u) PROVE Sound(r)
  <2>1. r = Request("forgot", u, Unused(u), None) /\ Unused(u) \in SUBSET Nat
    BY <1>1, <1>5 DEF ForgotPassword, Unused
  <2>2. r \in Requests /\ r.op = "forgot"
    BY <2>1, RequestType
  <2> QED BY <2>2 DEF Sound
<1>6. ASSUME NEW t \in Tokens, r \in Refresh(t) \cup Logout(t) PROVE Sound(r)
  <2>1. /\ ~refresh[t].revoked
        /\ \/ r = Request("expire", refresh[t].user, {t}, None)
           \/ r = Request("refresh", refresh[t].user, {t}, refresh[t].life)
           \/ r = Request("logout", refresh[t].user, {t}, None)
    BY <1>6 DEF Refresh, Logout
  <2>2. {t} \in SUBSET Nat /\ refresh[t].user \in Users /\ refresh[t].life \in RefreshLives
    BY <1>1, <1>2, <1>6
  <2>3. /\ r \in Requests /\ r.rows = {t} /\ r.user = refresh[t].user
        /\ r.op \in {"expire", "refresh", "logout"}
        /\ r.op = "refresh" => r.life = refresh[t].life
    BY <2>1, <2>2, RequestType
  <2> QED BY <1>6, <2>1, <2>2, <2>3 DEF Sound
<1>7. ASSUME NEW k \in Links, r \in ResetPassword(k) PROVE Sound(r)
  <2>1. links[k].user \in Users
    BY <1>7 DEF Links, LinksType, PasswordResetToken
  <2>2. r = Request("reset", links[k].user, {k}, None) /\ {k} \in SUBSET Nat
    BY <1>1, <1>7 DEF ResetPassword
  <2>3. r \in Requests /\ r.op = "reset"
    BY <2>1, <2>2, RequestType
  <2> QED BY <2>3 DEF Sound
<1> QED BY <1>3, <1>4, <1>5, <1>6, <1>7 DEF Accepted

---------------------------------------------------------------------------
(* The steps. *)

LEMMA InitIInv == TokensInit => IInv
<1> SUFFICES ASSUME TokensInit PROVE IInv
  OBVIOUS
<1>1. Tokens = {} /\ refresh \in Seq(RefreshToken)
  BY DEF TokensInit, Tokens
<1>2. LinksType
  BY DEF TokensInit, LinksType
<1> QED BY <1>1, <1>2 DEF TokensInit, IInv, TypeInv, OneTokenPerSession

LEMMA LinksKept ==
    ASSUME TypeInv, LinksType, NEW r, Sound(r), Apply(r)
    PROVE  LinksType'
<1> DEFINE Row == PasswordResetToken \cup {None}
<1>1. ASSUME NEW K PROVE Using(K) \in Seq(Row) /\ Len(Using(K)) = Len(links)
  <2>1. DOMAIN links = 1..Len(links) /\ Len(links) \in Nat
    BY DEF LinksType
  <2>2. ASSUME NEW k \in Links PROVE [links[k] EXCEPT !.used_at = now] \in Row
    BY <2>2 DEF Links, LinksType, PasswordResetToken, TypeInv
  <2>3. \A k \in DOMAIN links : links[k] \in Row
    BY DEF LinksType
  <2>4. Using(K) \in [1..Len(links) -> Row]
    BY <2>1, <2>2, <2>3 DEF Using
  <2> QED BY <2>1, <2>4, SeqDef, LenProperties
<1> HIDE DEF Row
<1>2. CASE IssueLink(r)
  <2>1. [user |-> r.user, expires_at |-> now + LinkLife, used_at |-> None] \in Row
    BY TokensAssumption DEF Sound, Requests, TypeInv, PasswordResetToken, Row
  <2>2. links' \in Seq(Row)
    BY <1>1, <1>2, <2>1 DEF IssueLink
  <2> QED BY <2>2 DEF LinksType, Row
<1>3. CASE Reset(r)
  BY <1>1, <1>3 DEF Reset, LinksType, Row
<1>4. CASE IssueTokens(r) \/ Revoke(r)
  BY <1>4 DEF IssueTokens, Revoke, LinksType
<1> QED BY <1>2, <1>3, <1>4 DEF Apply

LEMMA WriteIInv ==
    ASSUME IInv, NEW r, Sound(r), Apply(r), now' = now, NEW w, req' = Overtaken(w, r.user)
    PROVE  IInv'
<1>1. TypeInv' /\ OneTokenPerSession' /\ Kept(r.user) /\ LinksType'
  BY Writes, LinksKept DEF IInv
<1>2. ASSUME NEW x \in Workers, req'[x] # None
      PROVE  /\ Sound(req[x])
             /\ \E b \in BOOLEAN : /\ b => req[x].fresh /\ req[x].user # r.user
                                  /\ req'[x] = [req[x] EXCEPT !.fresh = b]
  <2>1. Sound(req[x]) /\ req'[x] = [req[x] EXCEPT !.fresh = @ /\ req[x].user # r.user]
    BY <1>2 DEF Overtaken, IInv
  <2> QED BY <2>1
<1>3. ASSUME NEW x \in Workers, req'[x] # None PROVE Sound(req[x])'
  <2>1. PICK b \in BOOLEAN : /\ b => req[x].fresh /\ req[x].user # r.user
                             /\ req'[x] = [req[x] EXCEPT !.fresh = b]
    BY <1>2, <1>3
  <2>2. ASSUME NEW q, NEW y, q = req[x], y = [q EXCEPT !.fresh = b] PROVE Sound(y)'
    BY <1>1, <1>2, <1>3, <2>1, <2>2, OthersSound
  <2> QED BY <2>1, <2>2
<1>4. ASSUME NEW x \in Workers PROVE req'[x] \in Requests \cup {None}
  BY <1>3, <1>4 DEF Sound, Requests
<1>5. req' \in [Workers -> Requests \cup {None}]
  BY <1>4 DEF Overtaken
<1> QED BY <1>1, <1>3, <1>5 DEF IInv, Requests

LEMMA StepIInv == IInv /\ [TokensNext]_tokenVars => IInv'
<1> SUFFICES ASSUME IInv, [TokensNext]_tokenVars PROVE IInv'
  OBVIOUS
<1>1. ASSUME refresh' = refresh, ended' = ended, raced' = raced, now' \in Nat, LinksType',
             NEW w, NEW r, r = None \/ r \in Accepted,
             req' = req \/ req' = [req EXCEPT ![w] = r]
      PROVE  IInv'
  <2>1. ASSUME NEW x, Sound(x) PROVE Sound(x)'
    BY <1>1, <2>1 DEF Sound, Requests, Tokens
  <2>2. r # None => Sound(r)
    BY <1>1, AcceptedSound DEF IInv
  <2>3. req' \in [Workers -> Requests \cup {None}]
    BY <1>1, <2>2 DEF IInv, Sound
  <2>4. \A x \in Workers : req'[x] # None => Sound(req'[x])
    BY <1>1, <2>2 DEF IInv
  <2>5. \A x \in Workers : req'[x] # None => Sound(req[x])'
    BY <2>1, <2>4
  <2>6. TypeInv' /\ OneTokenPerSession'
    BY <1>1 DEF IInv, TypeInv, OneTokenPerSession, Tokens
  <2> QED BY <1>1, <2>3, <2>5, <2>6 DEF IInv, Requests
<1>2. ASSUME Serve PROVE IInv'
  BY <1>2, AcceptedSound, WriteIInv DEF Serve, IInv
<1>3. ASSUME NEW w \in Workers, Commit(w) PROVE IInv'
  <2>1. Sound(req[w])
    BY <1>3 DEF Commit, IInv
  <2> QED BY <1>3, <2>1, WriteIInv DEF Commit
<1>4. ASSUME NEW w \in Workers, Load(w) \/ Fail(w) PROVE IInv'
  <2>1. now' \in Nat /\ LinksType'
    BY <1>4 DEF Load, Fail, IInv, TypeInv, LinksType
  <2> QED BY <1>1, <1>4, <2>1 DEF Load, Fail
<1>5. ASSUME CleanupPasswordResetTokens PROVE IInv'
  <2>1. LinksType'
    <3>1. DOMAIN links = 1..Len(links) /\ Len(links) \in Nat
      BY DEF IInv, LinksType
    <3>2. \A k \in DOMAIN links : links[k] \in PasswordResetToken \cup {None}
      BY DEF IInv, LinksType
    <3>3. links' \in [1..Len(links) -> PasswordResetToken \cup {None}]
      BY <1>5, <3>1, <3>2 DEF CleanupPasswordResetTokens
    <3> QED BY <3>1, <3>3, SeqDef DEF LinksType
  <2> QED BY <1>1, <1>5, <2>1 DEF CleanupPasswordResetTokens, IInv, TypeInv
<1>6. ASSUME Tick \/ UNCHANGED tokenVars PROVE IInv'
  <2>1. now' \in Nat /\ LinksType'
    BY <1>6 DEF Tick, tokenVars, IInv, TypeInv, LinksType
  <2> QED BY <1>1, <1>6, <2>1 DEF Tick, tokenVars
<1> QED BY <1>2, <1>3, <1>4, <1>5, <1>6 DEF TokensNext

\* Refresh tokens: a login has one token that can be refreshed and none after
\* it was ended, unless requests of that user overlapped, for any number of
\* users, requests and tokens.
THEOREM OneTokenALogin == TokensSpec => []OneTokenPerSession
<1>1. IInv => OneTokenPerSession
  BY DEF IInv
<1> QED BY <1>1, InitIInv, StepIInv, PTL DEF TokensSpec

---------------------------------------------------------------------------
(* The links to reset a password. *)

\* The unused links of a user that have not expired are the one mailed last,
\* and that one is unused until it is spent: a cleanup takes it only when it
\* has expired.
LinksInv ==
    \A u \in Users \ raced :
        /\ \A k \in Unused(u) :
             is_expired(links[k]) \/ (last[u] # None /\ k = last[u].link)
        /\ last[u] # None =>
             /\ last[u].link \in DOMAIN links
             /\ last[u].link \in Links
                  => links[last[u].link].expires_at = last[u].expires_at
             /\ last[u].link \in Unused(u) \/ is_expired(last[u])

\* A fresh request for a link has read all the links it will mark; the link
\* of a reset, if it is still there, belongs to the user of the request.
LinkSound(r) ==
    /\ (r.op = "forgot" /\ r.fresh) => Unused(r.user) \subseteq r.rows
    /\ r.op = "reset" => \A k \in r.rows : /\ k \in DOMAIN links
                                           /\ k \in Links => links[k].user = r.user

LastType == last \in [Users -> [link : Nat, expires_at : Nat] \cup {None}]

LInv == /\ IInv
        /\ LastType
        /\ LinksInv
        /\ \A w \in Workers : req[w] # None => LinkSound(req[w])

LEMMA LinkRows ==
    ASSUME LinksType
    PROVE  /\ DOMAIN links = 1..Len(links) /\ Len(links) \in Nat
           /\ \A k \in Links : /\ k \in DOMAIN links
                               /\ links[k] \in PasswordResetToken
BY DEF LinksType, Links

LEMMA UsingEffect ==
    ASSUME TypeInv, LinksType, NEW K
    PROVE  /\ Using(K) \in Seq(PasswordResetToken \cup {None})
           /\ Len(Using(K)) = Len(links)
           /\ \A k \in DOMAIN links :
                /\ k \notin Links => Using(K)[k] = None
                /\ k \in Links =>
                     /\ Using(K)[k] # None
                     /\ Using(K)[k].user = links[k].user
                     /\ Using(K)[k].expires_at = links[k].expires_at
                     /\ Using(K)[k].used_at = (IF k \in K THEN now ELSE links[k].used_at)
<1> DEFINE Row == PasswordResetToken \cup {None}
<1>1. DOMAIN links = 1..Len(links) /\ Len(links) \in Nat
  BY LinkRows
<1>2. ASSUME NEW k \in Links
      PROVE  /\ [links[k] EXCEPT !.used_at = now] \in PasswordResetToken
             /\ [links[k] EXCEPT !.used_at = now].user = links[k].user
             /\ [links[k] EXCEPT !.used_at = now].expires_at = links[k].expires_at
             /\ [links[k] EXCEPT !.used_at = now].used_at = now
  BY <1>2, LinkRows DEF PasswordResetToken, TypeInv
<1>3. \A k \in DOMAIN links :
        /\ k \notin Links => Using(K)[k] = None
        /\ (k \in Links /\ k \notin K) => Using(K)[k] = links[k]
        /\ (k \in Links /\ k \in K) => Using(K)[k] = [links[k] EXCEPT !.used_at = now]
  BY DEF Using, Links
<1>4. \A k \in DOMAIN links : Using(K)[k] \in Row
  BY <1>2, <1>3, LinkRows
<1>5. Using(K) \in [1..Len(links) -> Row]
  BY <1>1, <1>4 DEF Using
<1>6. Using(K) \in Seq(Row) /\ Len(Using(K)) = Len(links)
  BY <1>1, <1>5, SeqDef, LenProperties
<1>7. ASSUME NEW k \in Links
      PROVE  /\ Using(K)[k] # None
             /\ Using(K)[k].user = links[k].user
             /\ Using(K)[k].expires_at = links[k].expires_at
             /\ Using(K)[k].used_at = (IF k \in K THEN now ELSE links[k].used_at)
  BY <1>2, <1>3, LinkRows, NullAssumption
<1> QED BY <1>3, <1>6, <1>7

\* What a write leaves of the links that were there.
LinksLeft(v) ==
    /\ \A k \in DOMAIN links :
         /\ k \in DOMAIN links'
         /\ k \in Links' => k \in Links /\ links'[k].user = links[k].user
    /\ \A u \in Users \ {v} : Unused(u)' \subseteq Unused(u)

\* Links that are there afterwards as they were, or used.
Marked(K) ==
    \A k \in DOMAIN links :
        /\ k \in DOMAIN links'
        /\ k \in Links' <=> k \in Links
        /\ k \in Links => /\ links'[k].user = links[k].user
                          /\ links'[k].expires_at = links[k].expires_at
                          /\ links'[k].used_at = (IF k \in K THEN now
                                                             ELSE links[k].used_at)

LEMMA MarkedUnused ==
    ASSUME TypeInv, NEW K, Marked(K), NEW u, NEW k \in DOMAIN links
    PROVE  k \in Unused(u)' <=> k \in Unused(u) \ K
<1>1. now # None
  BY TokensAssumption DEF TypeInv
<1> QED BY <1>1 DEF Marked, Unused, Links

\* A link is mailed: the request's rows are used, a new one is not.
LEMMA MailEffect ==
    ASSUME TypeInv, LinksType, NEW r, Sound(r), IssueLink(r)
    PROVE  /\ Marked(r.rows \cap Unused(r.user))
           /\ Len(links) + 1 \notin DOMAIN links
           /\ DOMAIN links' = DOMAIN links \cup {Len(links) + 1}
           /\ Len(links) + 1 \in Links'
           /\ links'[Len(links) + 1].user = r.user
           /\ links'[Len(links) + 1].expires_at = now + LinkLife
           /\ links'[Len(links) + 1].used_at = None
<1> DEFINE L == Using(r.rows \cap Unused(r.user))
           row == [user |-> r.user, expires_at |-> now + LinkLife, used_at |-> None]
           K == r.rows \cap Unused(r.user)
<1>1. /\ L \in Seq(PasswordResetToken \cup {None})
      /\ Len(L) = Len(links)
      /\ \A k \in DOMAIN links :
           /\ k \notin Links => L[k] = None
           /\ k \in Links =>
                /\ L[k] # None
                /\ L[k].user = links[k].user
                /\ L[k].expires_at = links[k].expires_at
                /\ L[k].used_at = (IF k \in K THEN now ELSE links[k].used_at)
  BY UsingEffect
<1>2. row \in PasswordResetToken /\ row # None
  BY TokensAssumption, NullAssumption DEF Sound, Requests, TypeInv, PasswordResetToken
<1>3. row.user = r.user /\ row.expires_at = now + LinkLife /\ row.used_at = None
  OBVIOUS
<1>4. links' = Append(L, row)
  BY DEF IssueLink
<1> HIDE DEF L, row, K
<1>5. DOMAIN links = 1..Len(links) /\ Len(links) \in Nat
  BY LinkRows
<1>6. /\ DOMAIN links' = 1..(Len(links) + 1)
      /\ links'[Len(links) + 1] = row
      /\ \A k \in 1..Len(links) : links'[k] = L[k]
  BY <1>1, <1>2, <1>4, <1>5
<1>7. /\ Len(links) + 1 \notin DOMAIN links
      /\ DOMAIN links' = DOMAIN links \cup {Len(links) + 1}
  BY <1>5, <1>6
<1>8. Marked(K)
  BY <1>1, <1>5, <1>6, <1>7 DEF Marked, Links
<1>9. Len(links) + 1 \in Links'
  BY <1>2, <1>6, <1>7 DEF Links
<1> QED BY <1>3, <1>6, <1>7, <1>8, <1>9 DEF K

LEMMA ResetEffect ==
    ASSUME TypeInv, LinksType, NEW r, Reset(r)
    PROVE  /\ Marked(r.rows \cup Unused(r.user))
           /\ DOMAIN links' = DOMAIN links
<1> DEFINE K == r.rows \cup Unused(r.user)
<1>1. links' = Using(K)
  BY DEF Reset
<1> HIDE DEF K
<1>2. /\ links' \in Seq(PasswordResetToken \cup {None})
      /\ Len(links') = Len(links)
      /\ \A k \in DOMAIN links :
           /\ k \notin Links => links'[k] = None
           /\ k \in Links =>
                /\ links'[k] # None
                /\ links'[k].user = links[k].user
                /\ links'[k].expires_at = links[k].expires_at
                /\ links'[k].used_at = (IF k \in K THEN now ELSE links[k].used_at)
  BY <1>1, UsingEffect
<1>3. DOMAIN links' = DOMAIN links
  BY <1>2, LinkRows
<1>4. Marked(K)
  BY <1>2, <1>3 DEF Marked, Links
<1> QED BY <1>3, <1>4 DEF K

\* The writes.
LEMMA LinksWritten ==
    ASSUME IInv, LastType, LinksInv, NEW r, Sound(r), LinkSound(r), Apply(r), now' = now
    PROVE  LastType' /\ LinksInv' /\ LinksLeft(r.user)
<1>1. TypeInv /\ LinksType /\ now \in Nat /\ r \in Requests
  BY DEF IInv, TypeInv, Sound
<1>2. CASE IssueTokens(r) \/ Revoke(r)
  <2>1. links' = links /\ last' = last /\ raced \subseteq raced'
    BY <1>2 DEF IssueTokens, Revoke, Apply
  <2>2. LinksInv'
    BY <1>1, <2>1 DEF LinksInv, Unused, Links, is_expired
  <2>3. LinksLeft(r.user) /\ LastType'
    BY <2>1 DEF LinksLeft, Unused, Links, LastType
  <2> QED BY <2>2, <2>3
<1>3. CASE IssueLink(r)
  <2> DEFINE n == Len(links) + 1
             K == r.rows \cap Unused(r.user)
             mailed == [link |-> Len(links) + 1, expires_at |-> now + LinkLife]
  <2>1. /\ Marked(K) /\ n \notin DOMAIN links
        /\ DOMAIN links' = DOMAIN links \cup {n}
        /\ n \in Links' /\ links'[n].user = r.user
        /\ links'[n].expires_at = now + LinkLife /\ links'[n].used_at = None
    BY <1>1, <1>3, MailEffect
  <2>2. mailed \in [link : Nat, expires_at : Nat] /\ mailed # None
    BY <1>1, LinkRows, TokensAssumption, NullAssumption
  <2>3. mailed.link = n /\ mailed.expires_at = now + LinkLife
    OBVIOUS
  <2>4. last' = [last EXCEPT ![r.user] = mailed] /\ r.op = "forgot"
    BY <1>3 DEF IssueLink
  <2>5. raced' = (IF r.fresh THEN raced ELSE raced \cup {r.user})
    BY <2>4 DEF Apply
  <2> HIDE DEF n, K, mailed
  <2>6. r.user \in Users /\ LastType'
    BY <1>1, <2>2, <2>4 DEF Requests, LastType
  <2>7. \A u \in Users : \A k \in DOMAIN links :
          k \in Unused(u)' <=> k \in Unused(u) \ K
    BY <1>1, <2>1, MarkedUnused
  <2>8. /\ \A u \in Users \ {r.user} : n \notin Unused(u)'
        /\ n \in Unused(r.user)'
    BY <2>1 DEF Unused
  <2>9. \A u \in Users : /\ Unused(u)' \subseteq DOMAIN links \cup {n}
                         /\ Unused(u) \subseteq Links /\ Links \subseteq DOMAIN links
    BY <2>1 DEF Unused, Links
  <2>10. ASSUME NEW u \in Users \ {r.user}
         PROVE  Unused(u)' = Unused(u)
    <3>1. Unused(u) \cap K = {} /\ n \notin Unused(u)'
      BY <2>8 DEF K, Unused
    <3>2. Unused(u)' \subseteq DOMAIN links /\ Unused(u) \subseteq DOMAIN links
      BY <2>9, <3>1
    <3> QED BY <2>7, <3>1, <3>2
  <2>11. LinksLeft(r.user)
    BY <2>1, <2>10 DEF LinksLeft, Marked
  <2>12. ASSUME NEW u \in Users \ raced', u # r.user
         PROVE  /\ \A k \in Unused(u)' : \/ is_expired(links[k])'
                                         \/ last'[u] # None /\ k = last'[u].link
                /\ last'[u] # None =>
                     /\ last'[u].link \in DOMAIN links'
                     /\ last'[u].link \in Links'
                          => links'[last'[u].link].expires_at = last'[u].expires_at
                     /\ last'[u].link \in Unused(u)' \/ last'[u].expires_at <= now'
    <3>1. u \notin raced /\ last'[u] = last[u]
      BY <2>4, <2>5, <2>12 DEF LastType
    <3>2. \A k \in Unused(u) : k \in DOMAIN links /\ k \in Links
      BY <2>9
    <3>3. \A k \in Unused(u) : links'[k].expires_at = links[k].expires_at
      BY <2>1, <3>2 DEF Marked
    <3>4. \A k \in DOMAIN links : k \in Links' =>
            k \in Links /\ links'[k].expires_at = links[k].expires_at
      BY <2>1 DEF Marked
    <3> QED BY <2>1, <2>10, <2>12, <3>1, <3>3, <3>4 DEF LinksInv, is_expired
  <2>13. ASSUME r.user \notin raced'
         PROVE  /\ Unused(r.user)' = {n}
                /\ last'[r.user] = mailed
    <3>1. r.fresh
      BY <2>5, <2>13
    <3>2. Unused(r.user) \subseteq K
      BY <2>4, <3>1 DEF LinkSound, K
    <3>3. last'[r.user] = mailed
      BY <2>4, <2>6 DEF LastType
    <3> QED BY <2>6, <2>7, <2>8, <2>9, <3>2, <3>3
  <2>14. ASSUME r.user \notin raced'
         PROVE  /\ \A k \in Unused(r.user)' : k = last'[r.user].link
                /\ last'[r.user] # None
                /\ last'[r.user].link \in DOMAIN links'
                /\ links'[last'[r.user].link].expires_at = last'[r.user].expires_at
                /\ last'[r.user].link \in Unused(r.user)'
    BY <2>1, <2>2, <2>3, <2>13, <2>14
  <2>15. LinksInv'
    BY <2>12, <2>14 DEF LinksInv, is_expired
  <2> QED BY <2>6, <2>11, <2>15
<1>4. CASE Reset(r)
  <2> DEFINE K == r.rows \cup Unused(r.user)
  <2>1. Marked(K) /\ DOMAIN links' = DOMAIN links
    BY <1>1, <1>4, ResetEffect
  <2>2. last' = [last EXCEPT ![r.user] = None] /\ r.op = "reset"
    BY <1>4 DEF Reset
  <2>3. raced' = raced \ {r.user}
    BY <2>2 DEF Apply
  <2>4. r.user \in Users /\ LastType'
    BY <1>1, <2>2 DEF Requests, LastType
  <2>5. \A k \in r.rows : k \in Links => links[k].user = r.user
    BY <2>2 DEF LinkSound
  <2> HIDE DEF K
  <2>6. \A u \in Users : \A k \in DOMAIN links :
          k \in Unused(u)' <=> k \in Unused(u) \ K
    BY <1>1, <2>1, MarkedUnused
  <2>7. \A u \in Users : /\ Unused(u)' \subseteq DOMAIN links
                         /\ Unused(u) \subseteq Links /\ Links \subseteq DOMAIN links
    BY <2>1 DEF Unused, Links
  <2>8. ASSUME NEW u \in Users \ {r.user}
        PROVE  Unused(u)' = Unused(u)
    <3>1. Unused(u) \cap K = {}
      BY <2>5 DEF K, Unused
    <3> QED BY <2>6, <2>7, <3>1
  <2>9. Unused(r.user)' = {}
    BY <2>4, <2>6, <2>7 DEF K
  <2>10. LinksLeft(r.user)
    BY <2>1, <2>8 DEF LinksLeft, Marked
  <2>11. ASSUME NEW u \in Users \ raced', u # r.user
         PROVE  /\ \A k \in Unused(u)' : \/ is_expired(links[k])'
                                         \/ last'[u] # None /\ k = last'[u].link
                /\ last'[u] # None =>
                     /\ last'[u].link \in DOMAIN links'
                     /\ last'[u].link \in Links'
                          => links'[last'[u].link].expires_at = last'[u].expires_at
                     /\ last'[u].link \in Unused(u)' \/ last'[u].expires_at <= now'
    <3>1. u \notin raced /\ last'[u] = last[u]
      BY <2>2, <2>3, <2>11 DEF LastType
    <3>2. \A k \in Unused(u) : links'[k].expires_at = links[k].expires_at
      BY <2>1, <2>7 DEF Marked
    <3>3. \A k \in DOMAIN links : k \in Links' =>
            k \in Links /\ links'[k].expires_at = links[k].expires_at
      BY <2>1 DEF Marked
    <3> QED BY <2>1, <2>8, <2>11, <3>1, <3>2, <3>3 DEF LinksInv, is_expired
  <2>12. last'[r.user] = None
    BY <2>2, <2>4 DEF LastType
  <2>13. LinksInv'
    BY <2>9, <2>11, <2>12 DEF LinksInv, is_expired
  <2> QED BY <2>4, <2>10, <2>13
<1> QED BY <1>2, <1>3, <1>4 DEF Apply

\* The cleanup takes an unused link only when it has expired.
LEMMA CleanupKeepsLinks ==
    ASSUME IInv, LastType, LinksInv, CleanupPasswordResetTokens
    PROVE  LastType' /\ LinksInv' /\ \A v : LinksLeft(v)
<1>1. /\ last' = last /\ raced' = raced /\ now' = now /\ now \in Nat
      /\ DOMAIN links' = DOMAIN links
      /\ \A k \in DOMAIN links :
           links'[k] = IF k \in Links /\ Stale(k) THEN None ELSE links[k]
  BY DEF CleanupPasswordResetTokens, IInv, TypeInv
<1>2. LastType'
  BY <1>1 DEF LastType
<1>3. \A k \in DOMAIN links :
        k \in Links' => k \in Links /\ ~Stale(k) /\ links'[k] = links[k]
  BY <1>1 DEF Links
<1>4. \A k \in Links : ~Stale(k) => k \in Links' /\ links'[k] = links[k]
  BY <1>1 DEF Links
<1>5. \A u : /\ Unused(u)' \subseteq Unused(u)
             /\ \A k \in Unused(u) : ~is_expired(links[k]) => k \in Unused(u)'
             /\ \A k \in Unused(u)' : links'[k] = links[k]
  <2>1. \A u : \A k \in Unused(u)' : k \in DOMAIN links /\ k \in Links'
    BY <1>1 DEF Unused, Links
  <2>2. \A u : \A k \in Unused(u) : Stale(k) => is_expired(links[k])
    BY DEF Stale, Unused
  <2>3. \A u : \A k \in Unused(u) : k \in Links
    BY DEF Unused
  <2> QED BY <1>3, <1>4, <2>1, <2>2, <2>3 DEF Unused
<1>6. \A v : LinksLeft(v)
  BY <1>1, <1>3, <1>5 DEF LinksLeft
<1>7. ASSUME NEW u \in Users \ raced'
      PROVE  /\ \A k \in Unused(u)' :
                  links'[k].expires_at <= now' \/ (last'[u] # None /\ k = last'[u].link)
             /\ last'[u] # None =>
                  /\ last'[u].link \in DOMAIN links'
                  /\ last'[u].link \in Links'
                       => links'[last'[u].link].expires_at = last'[u].expires_at
                  /\ last'[u].link \in Unused(u)' \/ last'[u].expires_at <= now'
  <2>1. u \in Users \ raced
    BY <1>1, <1>7
  <2>2. /\ \A k \in Unused(u) :
             is_expired(links[k]) \/ (last[u] # None /\ k = last[u].link)
        /\ last[u] # None =>
             /\ last[u].link \in DOMAIN links
             /\ last[u].link \in Links
                  => links[last[u].link].expires_at = last[u].expires_at
             /\ last[u].link \in Unused(u) \/ is_expired(last[u])
    BY <2>1 DEF LinksInv
  <2>3. ASSUME last[u] # None, last[u].link \notin Unused(u)'
        PROVE  last[u].expires_at <= now
    <3>1. CASE last[u].link \in Unused(u)
      <4>1. is_expired(links[last[u].link]) /\ last[u].link \in Links
        BY <1>5, <2>3, <3>1 DEF Unused
      <4> QED BY <2>2, <2>3, <4>1 DEF is_expired
    <3> QED BY <2>2, <2>3, <3>1 DEF is_expired
  <2> QED BY <1>1, <1>3, <1>5, <2>2, <2>3 DEF is_expired
<1>8. LinksInv'
  BY <1>7 DEF LinksInv, is_expired
<1> QED BY <1>2, <1>6, <1>8

\* Everything else leaves the links alone, and time goes on.
LEMMA TimeKeepsLinks ==
    ASSUME IInv, LastType, LinksInv, UNCHANGED <<links, last, raced>>,
           now' \in Nat, now <= now'
    PROVE  LastType' /\ LinksInv' /\ \A v : LinksLeft(v)
<1>1. LastType' /\ \A v : LinksLeft(v)
  BY DEF LastType, LinksLeft, Unused, Links
<1>2. ASSUME NEW n \in Nat, n <= now PROVE n <= now'
  BY <1>2 DEF IInv, TypeInv
<1>3. \A u : Unused(u)' = Unused(u) /\ Links' = Links
  BY DEF Unused, Links
<1>4. \A u \in Users : \A k \in Unused(u) : links[k].expires_at \in Nat
  BY LinkRows DEF IInv, Unused, PasswordResetToken
<1>5. \A u \in Users : last[u] # None => last[u].expires_at \in Nat
  BY DEF LastType
<1> QED BY <1>1, <1>2, <1>3, <1>4, <1>5 DEF LinksInv, is_expired

\* A request that is not overtaken still knows all unused links of its user.
LEMMA LinkSoundStays ==
    ASSUME NEW v, LinksLeft(v), NEW q, LinkSound(q), q \in Requests,
           NEW b \in BOOLEAN, b => q.fresh /\ q.user # v
    PROVE  LinkSound([q EXCEPT !.fresh = b])'
<1> DEFINE y == [q EXCEPT !.fresh = b]
<1>1. /\ y.op = q.op /\ y.user = q.user /\ y.rows = q.rows
      /\ y.fresh => q.fresh /\ q.user # v
      /\ q.user \in Users
  BY DEF Requests
<1> HIDE DEF y
<1>2. ASSUME y.op = "forgot", y.fresh PROVE Unused(y.user)' \subseteq y.rows
  <2>1. Unused(q.user) \subseteq q.rows /\ q.user \in Users \ {v}
    BY <1>1, <1>2 DEF LinkSound
  <2>2. Unused(q.user)' \subseteq Unused(q.user)
    BY <2>1 DEF LinksLeft
  <2> QED BY <1>1, <2>1, <2>2
<1>3. ASSUME y.op = "reset", NEW k \in y.rows
      PROVE  /\ k \in DOMAIN links'
             /\ k \in Links' => links'[k].user = y.user
  BY <1>1, <1>3 DEF LinkSound, LinksLeft
<1>4. LinkSound(y)'
  BY <1>2, <1>3 DEF LinkSound
<1> QED BY <1>4 DEF y

LEMMA LinkSoundSame ==
    ASSUME \A v : LinksLeft(v), NEW q, LinkSound(q), q \in Requests
    PROVE  LinkSound(q)'
<1>1. PICK v : v # q.user
  <2>1. \E v : v # q.user
    <3>1. q.user # {q.user} \/ q.user # {}
      OBVIOUS
    <3> QED BY <3>1
  <2> QED BY <2>1
<1>2. q.user \in Users \ {v} /\ LinksLeft(v)
  BY <1>1 DEF Requests
<1> QED BY <1>2 DEF LinkSound, LinksLeft

LEMMA AcceptedLinkSound ==
    ASSUME TypeInv, LinksType, NEW r \in Accepted
    PROVE  LinkSound(r)
<1>1. CASE r.op = "forgot"
  <2>1. PICK u \in Users : r \in ForgotPassword(u)
    BY <1>1 DEF Accepted, Login, LogoutAll, Refresh, Logout, ResetPassword, Request
  <2>2. r = Request("forgot", u, Unused(u), None)
    BY <2>1 DEF ForgotPassword
  <2>3. r.user = u /\ r.rows = Unused(u)
    BY <2>2 DEF Request
  <2> QED BY <1>1, <2>3 DEF LinkSound
<1>2. CASE r.op = "reset"
  <2>1. PICK k \in Links : r \in ResetPassword(k)
    BY <1>2 DEF Accepted, Login, LogoutAll, Refresh, Logout, ForgotPassword, Request
  <2>2. r = Request("reset", links[k].user, {k}, None)
    BY <2>1 DEF ResetPassword
  <2>3. r.user = links[k].user /\ r.rows = {k}
    BY <2>2 DEF Request
  <2>4. k \in DOMAIN links
    BY DEF Links
  <2> QED BY <1>2, <2>3, <2>4 DEF LinkSound
<1> QED BY <1>1, <1>2 DEF LinkSound

LEMMA WriteLInv ==
    ASSUME LInv, NEW r, Sound(r), LinkSound(r), Apply(r), now' = now,
           NEW w, req' = Overtaken(w, r.user)
    PROVE  LInv'
<1>1. IInv'
  BY WriteIInv DEF LInv
<1>2. LastType' /\ LinksInv' /\ LinksLeft(r.user)
  BY LinksWritten DEF LInv
<1>3. ASSUME NEW x \in Workers, req'[x] # None PROVE LinkSound(req[x])'
  <2>1. /\ req[x] # None /\ LinkSound(req[x]) /\ req[x] \in Requests
        /\ req'[x] = [req[x] EXCEPT !.fresh = @ /\ req[x].user # r.user]
    BY <1>3 DEF Overtaken, LInv, IInv
  <2>2. PICK b \in BOOLEAN : /\ b => req[x].fresh /\ req[x].user # r.user
                             /\ req'[x] = [req[x] EXCEPT !.fresh = b]
    BY <2>1
  <2>3. ASSUME NEW q, NEW y, q = req[x], y = [q EXCEPT !.fresh = b]
        PROVE  LinkSound(y)'
    BY <1>2, <2>1, <2>2, <2>3, LinkSoundStays
  <2> QED BY <2>2, <2>3
<1> QED BY <1>1, <1>2, <1>3 DEF LInv

LEMMA StepLInv == LInv /\ [TokensNext]_tokenVars => LInv'
<1> SUFFICES ASSUME LInv, [TokensNext]_tokenVars PROVE LInv'
  OBVIOUS
<1>1. IInv' /\ IInv /\ LastType /\ LinksInv /\ TypeInv /\ LinksType
  BY StepIInv DEF LInv, IInv
<1>2. ASSUME LastType', LinksInv', \A v : LinksLeft(v),
             NEW w, NEW r, r = None \/ r \in Accepted,
             req' = req \/ req' = [req EXCEPT ![w] = r]
      PROVE  LInv'
  <2>1. r # None => LinkSound(r) /\ r \in Requests
    BY <1>1, <1>2, AcceptedLinkSound, AcceptedSound DEF Sound
  <2>2. \A x \in Workers : req'[x] # None => LinkSound(req'[x]) /\ req'[x] \in Requests
    BY <1>2, <2>1 DEF LInv, IInv
  <2>3. ASSUME NEW x, LinkSound(x), x \in Requests PROVE LinkSound(x)'
    BY <1>2, <2>3, LinkSoundSame
  <2>4. \A x \in Workers : req'[x] # None => LinkSound(req[x])'
    BY <2>2, <2>3
  <2> QED BY <1>1, <1>2, <2>4 DEF LInv
<1>3. ASSUME Serve PROVE LInv'
  BY <1>1, <1>3, AcceptedSound, AcceptedLinkSound, WriteLInv DEF Serve
<1>4. ASSUME NEW w \in Workers, Commit(w) PROVE LInv'
  <2>1. Sound(req[w]) /\ LinkSound(req[w])
    BY <1>4 DEF Commit, LInv, IInv
  <2> QED BY <1>4, <2>1, WriteLInv DEF Commit
<1>5. ASSUME NEW w \in Workers, Load(w) \/ Fail(w) PROVE LInv'
  <2>1. UNCHANGED <<links, last, raced>> /\ now' = now /\ now \in Nat
    BY <1>1, <1>5 DEF Load, Fail, TypeInv
  <2>2. LastType' /\ LinksInv' /\ \A v : LinksLeft(v)
    BY <1>1, <2>1, TimeKeepsLinks
  <2> QED BY <1>2, <1>5, <2>2 DEF Load, Fail
<1>6. ASSUME CleanupPasswordResetTokens PROVE LInv'
  <2>1. LastType' /\ LinksInv' /\ \A v : LinksLeft(v)
    BY <1>1, <1>6, CleanupKeepsLinks
  <2> QED BY <1>2, <1>6, <2>1 DEF CleanupPasswordResetTokens
<1>7. ASSUME Tick \/ UNCHANGED tokenVars PROVE LInv'
  <2>1. UNCHANGED <<links, last, raced>> /\ now' \in Nat /\ now <= now' /\ req' = req
    BY <1>1, <1>7 DEF Tick, tokenVars, TypeInv
  <2>2. LastType' /\ LinksInv' /\ \A v : LinksLeft(v)
    BY <1>1, <2>1, TimeKeepsLinks
  <2> QED BY <1>2, <2>1, <2>2
<1> QED BY <1>3, <1>4, <1>5, <1>6, <1>7 DEF TokensNext

(***************************************************************************)
(* The link that works is the one mailed last, until it is used or expires, *)
(* and no other link works, unless requests of that user overlapped: a      *)
(* fresh request for a link has read every link it must mark, and the       *)
(* cleanup looks at the expiry of an unused link, not at its age.           *)
(***************************************************************************)
THEOREM OnlyTheLastLinkWorks == TokensSpec => []LastLinkWorks
<1>1. TokensInit => LInv
  <2> SUFFICES ASSUME TokensInit PROVE LInv
    OBVIOUS
  <2>1. Links = {} /\ \A u : Unused(u) = {}
    BY DEF TokensInit, Links, Unused
  <2> QED BY <2>1, InitIInv DEF TokensInit, LInv, LastType, LinksInv
<1>2. LInv => LastLinkWorks
  <2> SUFFICES ASSUME LInv, NEW u \in Users \ raced
               PROVE  {k \in Unused(u) : ~is_expired(links[k])}
                        = IF last[u] = None \/ is_expired(last[u]) THEN {}
                                                                 ELSE {last[u].link}
    BY DEF LastLinkWorks
  <2>1. /\ \A k \in Unused(u) :
             is_expired(links[k]) \/ (last[u] # None /\ k = last[u].link)
        /\ last[u] # None =>
             /\ last[u].link \in Links
                  => links[last[u].link].expires_at = last[u].expires_at
             /\ last[u].link \in Unused(u) \/ is_expired(last[u])
    BY DEF LInv, LinksInv
  <2>2. Unused(u) \subseteq Links
    BY DEF Unused
  <2> QED BY <2>1, <2>2 DEF is_expired
<1> QED BY <1>1, <1>2, StepLInv, PTL DEF TokensSpec
===========================================================================
