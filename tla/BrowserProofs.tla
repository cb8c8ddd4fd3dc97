---------------------------- MODULE BrowserProofs ----------------------------
(* Proofs of the safety properties of Browser and Sessions, for any constants. *)
EXTENDS Browser, SequenceTheorems, FiniteSetTheorems, TLAPS

(***************************************************************************)
(* The inductive invariant.                                                *)
(***************************************************************************)

\* A request returns a new refresh token: what login and refresh end with.
Result(r) == srv[r].op \in {"login", "refresh"} /\ srv[r].at \in {"session", "ok"}

\* Steps belong to the handler of the operation, and the tokens they use exist.
Shaped(r) ==
  /\ srv[r].at \in {"find", "reuse", "rotate"} => srv[r].op = "refresh"
  /\ srv[r].at = "create" => srv[r].op \in {"login", "refresh"}
  /\ srv[r].at = "session" => srv[r].op = "login"
  /\ srv[r].at \in {"auth", "blacklist", "revoke"} => srv[r].op \in {"api", "logout"}
  /\ srv[r].op = "login" => srv[r].at # "refused"
  /\ srv[r].op = "refresh" /\ srv[r].at \in {"find", "reuse", "rotate", "create"} => srv[r].tok \in Pair
  /\ Result(r) \/ srv[r].at = "blacklist" => srv[r].tok \in Pair

RequestsShaped == \A r \in Req : Shaped(r)

\* A family is named after its first token.
FamiliesOlder == \A t \in Pair : tokens[t].family <= t

StoreKnown == store.refresh \in 0..Len(tokens)

\* What a page waits for and what the server does for it go together.
CallsShaped ==
  \A c \in Req :
    /\ call[c].at = "sent" => srv[c].op = call[c].kind
    /\ call[c].at = "refreshing" => srv[c].op = "refresh"
    /\ call[c].at = "sharing" => srv[c].at \in Final
    /\ call[c].at \in {"refreshing", "sharing"} => call[c].kind # "login"

\* The refresh of a page is one of its calls, and is what its calls wait for.
RefreshShared ==
  /\ \A t \in Tab : refreshing[t] # NoReq =>
       refreshing[t] \in Calls(t) /\ call[refreshing[t]].at = "refreshing"
  /\ \A c \in Req : call[c].at \in {"refreshing", "sharing"} => refreshing[TabOf[c]] # NoReq
  /\ \A c \in Req : call[c].at = "refreshing" => refreshing[TabOf[c]] = c

\* After a clean sign-out there is no token to refresh with, and no refresh.
SignedOutClean ==
  signedOut = "clean" =>
    /\ store = [token |-> 0, refresh |-> 0]
    /\ \A c \in Req : call[c].at # "refreshing"

\* A token that counts in OneLiveToken, and a request that has rotated such a
\* token and will create the next one of its family.
Valid(t) == ~tokens[t].revoked /\ ~tokens[t].late
Family(r) == tokens[srv[r].tok].family
Creating(r) ==
  srv[r].op = "refresh" /\ srv[r].at = "create" /\ ~srv[r].late /\ ~tokens[srv[r].tok].late

\* A family has one of both at most, and none when it is dead.  A request
\* about to rotate a token finds it valid, or knows that it is late.
OneHolder ==
  /\ \A t, u \in Pair : Valid(t) /\ Valid(u) /\ tokens[t].family = tokens[u].family => t = u
  /\ \A r, q \in Req : Creating(r) /\ Creating(q) /\ Family(r) = Family(q) => r = q
  /\ \A t \in Pair, r \in Req : Valid(t) /\ Creating(r) => tokens[t].family # Family(r)
  /\ \A t \in Pair : Valid(t) => tokens[t].family \notin dead
  /\ \A r \in Req : Creating(r) => Family(r) \notin dead
  /\ \A r \in Req : srv[r].at = "rotate" /\ ~srv[r].late => srv[r].tok \in Live

\* A token that was returned and not stored yet is nobody else's.
ResultsDistinct ==
  \A r \in Req : Result(r) =>
    /\ srv[r].tok # store.refresh
    /\ \A q \in Req : srv[q].at \in {"find", "rotate"} => srv[q].tok # srv[r].tok
    /\ \A q \in Req : q # r /\ Result(q) => srv[q].tok # srv[r].tok

\* A refresh with this token rotates it, or finds its family revoked already.
Good(t) == t \in Live \/ tokens[t].family \in dead

\* While no refresh was duplicated or abandoned: there is one at a time, the
\* page hears of it, and every token it may start from or return is good.
Unraced ==
  /\ \A t, u \in Tab : refreshing[t] # NoReq /\ refreshing[u] # NoReq => t = u
  /\ \A r \in Req : srv[r].op = "refresh" /\ srv[r].at \notin Final => call[r].at = "refreshing"
  /\ \A r \in Req : srv[r].at = "find" => Good(srv[r].tok)
  /\ \A r \in Req : srv[r].at = "reuse" => tokens[srv[r].tok].family \in dead
  /\ \A r \in Req : Result(r) => Good(srv[r].tok)
  /\ store.refresh # 0 /\ (\A t \in Tab : refreshing[t] = NoReq) => Good(store.refresh)
  /\ ~reused

Inv ==
  /\ TypeOK /\ RequestsShaped /\ FamiliesOlder /\ StoreKnown /\ CallsShaped /\ RefreshShared
  /\ SignedOutClean /\ OneHolder /\ ResultsDistinct
  /\ ~raced => Unraced
-----------------------------------------------------------------------------
(***************************************************************************)
(* What the steps of the server do to its requests and tokens.             *)
(***************************************************************************)
TokenRow == [family : 1..MaxTokens, revoked : BOOLEAN, late : BOOLEAN]
At == Final \cup {"auth", "blacklist", "revoke", "find", "reuse", "rotate", "create", "session"}

\* Request r goes on at a, and the requests of R learn that they are late.
Moves(r, a, R) ==
  /\ srv' \in [Req -> RequestType]
  /\ \A q \in Req : /\ srv'[q].op = srv[q].op
                    /\ srv'[q].tok = srv[q].tok
                    /\ srv'[q].at = IF q = r THEN a ELSE srv[q].at
                    /\ srv'[q].late <=> srv[q].late \/ q \in R

\* The tokens of S are revoked, and nothing else happens to the table.
Revokes(S) ==
  /\ tokens' \in Seq(TokenRow)
  /\ Len(tokens') = Len(tokens)
  /\ \A t \in Pair : /\ tokens'[t].family = tokens[t].family
                     /\ tokens'[t].late <=> tokens[t].late
                     /\ tokens'[t].revoked <=> tokens[t].revoked \/ t \in S

\* What Advance does.
LEMMA AdvanceMoves ==
  ASSUME srv \in [Req -> RequestType], NEW r \in Req, NEW a \in At, Advance(r, a)
  PROVE  Moves(r, a, {})
<1> DEFINE s == [srv[r] EXCEPT !.at = a]
<1>1. srv' = [srv EXCEPT ![r] = s]
  BY DEF Advance
<1>2. /\ s \in RequestType
      /\ s.op = srv[r].op /\ s.tok = srv[r].tok /\ s.at = a /\ s.late = srv[r].late
  BY DEF RequestType, At
<1> HIDE DEF s
<1>3. srv' \in [Req -> RequestType]
  BY <1>1, <1>2
<1>4. srv'[r] = s /\ \A q \in Req \ {r} : srv'[q] = srv[q]
  BY <1>1
<1> QED
  BY <1>2, <1>3, <1>4 DEF Moves

\* What MarkLate does after such a step.
LEMMA MarkLateMoves ==
  ASSUME srv \in [Req -> RequestType], NEW r \in Req, NEW a \in At, NEW R,
         srv' = MarkLate(R, [srv EXCEPT ![r].at = a])
  PROVE  Moves(r, a, R)
<1>1. PICK s : s = [srv EXCEPT ![r].at = a]
  OBVIOUS
<1>2. PICK e : e = [srv[r] EXCEPT !.at = a]
  OBVIOUS
<1>3. s = [srv EXCEPT ![r] = e]
  BY <1>1, <1>2
<1>4. /\ e \in RequestType
      /\ e.op = srv[r].op /\ e.tok = srv[r].tok /\ e.at = a /\ e.late = srv[r].late
  BY <1>2 DEF RequestType, At
<1>5. s \in [Req -> RequestType]
  BY <1>3, <1>4
<1>6. s[r] = e /\ \A q \in Req \ {r} : s[q] = srv[q]
  BY <1>3
<1>7. srv' = [q \in Req |-> IF q \in R THEN [s[q] EXCEPT !.late = TRUE] ELSE s[q]]
  BY <1>1 DEF MarkLate
<1>8. \A q \in Req : [s[q] EXCEPT !.late = TRUE] \in RequestType
  BY <1>5 DEF RequestType
<1>9. srv' \in [Req -> RequestType]
  BY <1>5, <1>7, <1>8
<1>10. \A q \in Req : /\ srv'[q].op = s[q].op /\ srv'[q].tok = s[q].tok /\ srv'[q].at = s[q].at
                      /\ srv'[q].late <=> s[q].late \/ q \in R
  <2> TAKE q \in Req
  <2>1. CASE q \in R
    <3>1. PICK v \in RequestType : v = s[q]
      BY <1>5
    <3>2. srv'[q] = [v EXCEPT !.late = TRUE]
      BY <1>7, <2>1, <3>1
    <3> QED
      BY <2>1, <3>1, <3>2 DEF RequestType
  <2>2. CASE q \notin R
    BY <1>5, <1>7, <2>2
  <2> QED
    BY <2>1, <2>2
<1>11. \A q \in Req : /\ s[q].op = srv[q].op /\ s[q].tok = srv[q].tok /\ s[q].late = srv[q].late
                      /\ s[q].at = IF q = r THEN a ELSE srv[q].at
  BY <1>4, <1>6
<1> QED
  BY <1>9, <1>10, <1>11 DEF Moves

\* What RevokeWhere does, and what it does when nothing is chosen.
LEMMA RevokeWhereRevokes ==
  ASSUME tokens \in Seq(TokenRow), NEW S, tokens' = RevokeWhere(S)
  PROVE  Revokes(S)
<1>1. \A t \in Pair : tokens[t] \in TokenRow
  BY ElementOfSeq DEF Pair
<1>2. \A t \in Pair : [tokens[t] EXCEPT !.revoked = TRUE] \in TokenRow
  BY <1>1 DEF TokenRow
<1>3. tokens' = [t \in 1..Len(tokens) |->
                   IF t \in S THEN [tokens[t] EXCEPT !.revoked = TRUE] ELSE tokens[t]]
  BY DEF RevokeWhere, Pair
<1>4. Len(tokens) \in Nat
  BY LenProperties
<1>5. tokens' \in [1..Len(tokens) -> TokenRow]
  BY <1>1, <1>2, <1>3 DEF Pair
<1>6. tokens' \in Seq(TokenRow)
  BY <1>4, <1>5, SeqDef
<1>7. Len(tokens') = Len(tokens)
  BY <1>4, <1>5, <1>6, LenProperties
<1>8. \A t \in Pair : /\ tokens'[t].family = tokens[t].family
                      /\ tokens'[t].late <=> tokens[t].late
                      /\ tokens'[t].revoked <=> tokens[t].revoked \/ t \in S
  <2> TAKE t \in Pair
  <2>1. CASE t \in S
    BY <1>1, <1>3, <2>1 DEF Pair, TokenRow
  <2>2. CASE t \notin S
    BY <1>3, <2>2 DEF Pair
  <2> QED
    BY <2>1, <2>2
<1> QED
  BY <1>6, <1>7, <1>8 DEF Revokes

\* A step that leaves the table alone revokes nothing.
LEMMA UnchangedRevokes ==
  ASSUME tokens \in Seq(TokenRow), UNCHANGED tokens
  PROVE  Revokes({})
  BY DEF Revokes

-----------------------------------------------------------------------------
(***************************************************************************)
(* The steps of the server that create no token.                           *)
(***************************************************************************)

\* The handlers' order of steps: where request r may go on.
Follows(r, a) ==
  \/ srv[r].at \notin Final /\ a = "failed"
  \/ srv[r].at \in {"auth", "reuse"} /\ a = "refused"
  \/ srv[r].at = "auth" /\ a = "ok"
  \/ srv[r].at = "auth" /\ a = "blacklist" /\ srv[r].tok \in Pair
  \/ srv[r].at = "blacklist" /\ a = "revoke"
  \/ srv[r].at = "revoke" /\ a = "ok"
  \/ srv[r].at = "find" /\ a \in {"rotate", "reuse"}
  \/ srv[r].at = "rotate" /\ a = "create"
  \/ srv[r].at = "session" /\ a = "ok"

\* What these steps leave alone: the tabs, and the shape of everything else.
LEMMA MovesKeepShape ==
  ASSUME Inv, NEW r \in Req, NEW a \in At, NEW R, NEW S,
         Moves(r, a, R), Revokes(S), Follows(r, a), UNCHANGED tabVars,
         blacklist' \subseteq Pair, expired' \subseteq Pair, dead' \subseteq Families,
         reused' \in BOOLEAN, faults' \in 0..MaxFaults
  PROVE  /\ TypeOK' /\ RequestsShaped' /\ FamiliesOlder' /\ StoreKnown'
         /\ CallsShaped' /\ RefreshShared' /\ SignedOutClean'
<1> USE DEF Inv
<1>1. Pair' = Pair
  BY DEF Pair, Revokes
<1>2. Families' = Families
  BY <1>1 DEF Families, Revokes
<1>3. TypeOK'
  BY <1>1, <1>2 DEF TypeOK, SessionsTypeOK, tabVars, Revokes, Moves, TokenRow
<1>4. RequestsShaped'
  <2> SUFFICES ASSUME NEW q \in Req
               PROVE  Shaped(q)'
    BY DEF RequestsShaped
  <2>1. CASE q # r
    BY <1>1, <2>1 DEF Moves, RequestsShaped, Shaped, Result
  <2>2. CASE q = r
    <3>1. srv'[q].op = srv[q].op /\ srv'[q].tok = srv[q].tok /\ srv'[q].at = a
      BY <2>2 DEF Moves
    <3>2. CASE srv[r].at \notin Final /\ a = "failed"
      BY <1>1, <3>1, <3>2 DEF Shaped, Result
    <3>3. CASE srv[r].at \in {"auth", "reuse"} /\ a = "refused"
      BY <1>1, <2>2, <3>1, <3>3 DEF RequestsShaped, Shaped, Result
    <3>4. CASE srv[r].at = "auth" /\ a \in {"ok", "blacklist"}
      BY <1>1, <2>2, <3>1, <3>4 DEF RequestsShaped, Shaped, Result, Follows
    <3>5. CASE srv[r].at \in {"blacklist", "revoke"}
      BY <1>1, <2>2, <3>1, <3>5 DEF RequestsShaped, Shaped, Result, Follows
    <3>6. CASE srv[r].at \in {"find", "rotate"}
      BY <1>1, <2>2, <3>1, <3>6 DEF RequestsShaped, Shaped, Result, Follows
    <3>7. CASE srv[r].at = "session" /\ a = "ok"
      BY <1>1, <2>2, <3>1, <3>7 DEF RequestsShaped, Shaped, Result
    <3> QED
      BY <3>2, <3>3, <3>4, <3>5, <3>6, <3>7 DEF Follows
  <2> QED
    BY <2>1, <2>2
<1>5. FamiliesOlder'
  BY <1>1 DEF FamiliesOlder, Revokes
<1>6. StoreKnown'
  BY DEF StoreKnown, Revokes, tabVars
<1>7. CallsShaped'
  BY DEF CallsShaped, Moves, Follows, Final, tabVars
<1>8. RefreshShared' /\ SignedOutClean'
  BY DEF RefreshShared, SignedOutClean, tabVars, Calls
<1> QED
  BY <1>3, <1>4, <1>5, <1>6, <1>7, <1>8

\* No token is returned that was not returned before, and no token is presented.
LEMMA MovesKeepResults ==
  ASSUME Inv, NEW r \in Req, NEW a \in At, NEW R,
         Moves(r, a, R), Follows(r, a), UNCHANGED tabVars
  PROVE  ResultsDistinct'
<1> USE DEF Inv
<1>1. \A q \in Req : Result(q)' => Result(q) /\ srv'[q].tok = srv[q].tok
  BY DEF Result, Moves, Follows, Final, RequestsShaped, Shaped
<1>2. \A q \in Req : srv'[q].at \in {"find", "rotate"} => srv[q].at \in {"find", "rotate"}
  BY DEF Moves, Follows, Final
<1>3. \A q \in Req : srv'[q].tok = srv[q].tok
  BY DEF Moves
<1> QED
  BY <1>1, <1>2, <1>3 DEF ResultsDistinct, tabVars

\* When no token is revoked, the holders are the same or fewer.
LEMMA MovesKeepHolder ==
  ASSUME Inv, NEW r \in Req, NEW a \in At,
         Moves(r, a, {}), Revokes({}), Follows(r, a), UNCHANGED dead,
         a # "create", a = "rotate" => srv[r].tok \in Live
  PROVE  OneHolder'
<1> USE DEF Inv
<1>1. Pair' = Pair /\ \A t \in Pair : /\ Valid(t)' <=> Valid(t)
                                      /\ tokens'[t].family = tokens[t].family
                                      /\ t \in Live' <=> t \in Live
  BY DEF Pair, Revokes, Valid, Live
<1>2. \A q \in Req : Creating(q)' => Creating(q) /\ Family(q)' = Family(q)
  BY DEF Creating, Family, Moves, Revokes, RequestsShaped, Shaped
<1>3. \A q \in Req : srv'[q].at = "rotate" /\ ~srv'[q].late => srv'[q].tok \in Live'
  BY <1>1 DEF Moves, OneHolder, Live
<1> QED
  BY <1>1, <1>2, <1>3 DEF OneHolder

\* While no refresh was duplicated or abandoned, the refresh in progress is the
\* only one, and its page hears of it.
LEMMA OneRefreshAtATime ==
  ASSUME Inv, ~raced, NEW r \in Req, srv[r].op = "refresh", srv[r].at \notin Final
  PROVE  /\ refreshing[TabOf[r]] = r
         /\ \A q \in Req : srv[q].op = "refresh" /\ srv[q].at \notin Final => q = r
<1>1. \A q \in Req : srv[q].op = "refresh" /\ srv[q].at \notin Final => refreshing[TabOf[q]] = q
  BY DEF Inv, Unraced, RefreshShared
<1>2. \A q \in Req : TabOf[q] \in Tab /\ q # NoReq
  BY BrowserAssumption
<1> QED
  BY <1>1, <1>2 DEF Inv, Unraced

\* When no token turns bad but the one that is being rotated, every refresh
\* still starts from a good token.
LEMMA MovesKeepUnraced ==
  ASSUME Inv, ~raced, NEW r \in Req, NEW a \in At, NEW R, NEW S,
         Moves(r, a, R), Revokes(S), Follows(r, a), UNCHANGED tabVars,
         a = "reuse" => srv[r].tok \notin Live,
         dead \subseteq dead', ~reused',
         \A t \in Pair : Good(t) /\ ~(srv[r].at = "rotate" /\ t = srv[r].tok) => Good(t)'
  PROVE  Unraced'
<1> USE DEF Inv
<1>1. \A q \in Req : /\ srv'[q].op = srv[q].op /\ srv'[q].tok = srv[q].tok
                     /\ srv'[q].at \notin Final => srv[q].at \notin Final
                     /\ srv'[q].at = "find" => srv[q].at = "find" /\ q # r
                     /\ srv'[q].at = "reuse" => srv[q].at = "reuse" \/ (q = r /\ a = "reuse")
                     /\ Result(q)' => Result(q)
  BY DEF Moves, Follows, Final, Result, RequestsShaped, Shaped
<1>2. \A t \in Pair : tokens'[t].family = tokens[t].family
  BY DEF Revokes
<1>3. srv[r].at = "rotate" =>
        /\ refreshing[TabOf[r]] # NoReq /\ TabOf[r] \in Tab
        /\ \A q \in Req : srv[q].at = "find" => q = r
  BY OneRefreshAtATime, BrowserAssumption DEF RequestsShaped, Shaped, Final
<1>4. \A q \in Req : srv'[q].at = "find" => Good(srv[q].tok)'
  <2> SUFFICES ASSUME NEW q \in Req, srv'[q].at = "find"
               PROVE  Good(srv[q].tok)'
    OBVIOUS
  <2>1. srv[q].tok \in Pair /\ Good(srv[q].tok) /\ srv[r].at # "rotate"
    BY <1>1, <1>3 DEF Unraced, RequestsShaped, Shaped
  <2>2. PICK x : x = srv[q].tok
    OBVIOUS
  <2>3. Good(x)'
    BY <2>1, <2>2
  <2>4. srv'[q].tok = x
    BY <1>1, <2>2
  <2> QED
    BY <2>3, <2>4 DEF Good
<1>5. \A q \in Req : srv'[q].at = "reuse" => tokens'[srv'[q].tok].family \in dead'
  BY <1>1, <1>2 DEF Unraced, RequestsShaped, Shaped, Good, Follows
<1>6. \A q \in Req : Result(q)' => Good(srv[q].tok)'
  <2> SUFFICES ASSUME NEW q \in Req, Result(q)'
               PROVE  Good(srv[q].tok)'
    OBVIOUS
  <2>1. srv[q].tok \in Pair /\ Good(srv[q].tok) /\ (srv[r].at = "rotate" => srv[q].tok # srv[r].tok)
    BY <1>1 DEF Unraced, RequestsShaped, Shaped, ResultsDistinct
  <2>2. PICK x : x = srv[q].tok
    OBVIOUS
  <2>3. Good(x)'
    BY <2>1, <2>2
  <2>4. srv'[q].tok = x
    BY <1>1, <2>2
  <2> QED
    BY <2>3, <2>4 DEF Good
<1>7. store.refresh # 0 /\ (\A t \in Tab : refreshing[t] = NoReq) => Good(store.refresh)'
  <2> SUFFICES ASSUME store.refresh # 0, \A t \in Tab : refreshing[t] = NoReq
               PROVE  Good(store.refresh)'
    OBVIOUS
  <2>1. store.refresh \in Pair
    BY LenProperties DEF StoreKnown, Pair, TypeOK, SessionsTypeOK
  <2>2. Good(store.refresh) /\ srv[r].at # "rotate"
    BY <1>3 DEF Unraced
  <2>3. PICK x : x = store.refresh
    OBVIOUS
  <2>4. Good(x)'
    BY <2>1, <2>2, <2>3
  <2> QED
    BY <2>3, <2>4 DEF tabVars, Good
<1>8. /\ \A t, u \in Tab : refreshing'[t] # NoReq /\ refreshing'[u] # NoReq => t = u
      /\ \A q \in Req : srv'[q].op = "refresh" /\ srv'[q].at \notin Final
                         => call'[q].at = "refreshing"
  BY <1>1 DEF Unraced, tabVars
<1>9. store'.refresh # 0 /\ (\A t \in Tab : refreshing'[t] = NoReq) => Good(store.refresh)'
  BY <1>7 DEF tabVars
<1> QED
  BY <1>4, <1>5, <1>6, <1>8, <1>9 DEF Unraced

\* A step that only advances its request and leaves the tokens alone.
LEMMA QuietStep ==
  ASSUME Inv, NEW r \in Req, NEW a \in At, Advance(r, a), Follows(r, a),
         UNCHANGED <<tokens, dead, reused, expired, tabVars>>,
         a # "create", a = "rotate" => srv[r].tok \in Live, a = "reuse" => srv[r].tok \notin Live,
         blacklist' \subseteq Pair, faults' \in 0..MaxFaults
  PROVE  Inv'
<1> USE DEF Inv
<1>1. Moves(r, a, {})
  BY AdvanceMoves DEF TypeOK, SessionsTypeOK
<1>2. Revokes({})
  BY UnchangedRevokes DEF TypeOK, SessionsTypeOK, TokenRow
<1>3. /\ TypeOK' /\ RequestsShaped' /\ FamiliesOlder' /\ StoreKnown'
      /\ CallsShaped' /\ RefreshShared' /\ SignedOutClean'
  BY <1>1, <1>2, MovesKeepShape DEF TypeOK, SessionsTypeOK
<1>4. ResultsDistinct'
  BY <1>1, MovesKeepResults
<1>5. OneHolder'
  BY <1>1, <1>2, MovesKeepHolder
<1>6. \A t \in Pair : Good(t) => Good(t)'
  BY DEF Good, Live, Pair
<1>7. ASSUME ~raced PROVE Unraced'
  <2>1. ~reused'
    BY <1>7 DEF Unraced
  <2> QED
    BY <1>1, <1>2, <1>6, <1>7, <2>1, MovesKeepUnraced
<1>8. raced' = raced
  BY DEF tabVars
<1> QED
  BY <1>3, <1>4, <1>5, <1>7, <1>8

\* authenticate, the first call of logout, findUnique, the sessions row, and
\* every call that fails.
LEMMA QuietActions ==
  ASSUME Inv, NEW r \in Req, UNCHANGED tabVars,
         \/ Authenticate(r) \/ LogoutBlacklist(r) \/ RefreshFind(r)
         \/ CreateSession(r) \/ CallFails(r)
  PROVE  Inv'
<1>1. CASE Authenticate(r)
  <2> DEFINE a == IF ~Accepted(srv[r].tok) THEN "refused"
                  ELSE IF srv[r].op = "logout" THEN "blacklist" ELSE "ok"
  <2>1. a \in At /\ Advance(r, a) /\ Follows(r, a) /\ a \in {"refused", "blacklist", "ok"}
    BY <1>1 DEF Authenticate, Follows, At, Final, Accepted
  <2>2. UNCHANGED <<tokens, blacklist, expired, dead, reused, faults>>
    BY <1>1 DEF Authenticate
  <2>3. blacklist' \subseteq Pair /\ faults' \in 0..MaxFaults
    BY <2>2 DEF Inv, TypeOK, SessionsTypeOK
  <2> HIDE DEF a
  <2> QED
    BY <2>1, <2>2, <2>3, QuietStep
<1>2. CASE LogoutBlacklist(r)
  <2>1. Advance(r, "revoke") /\ Follows(r, "revoke") /\ "revoke" \in At
    BY <1>2 DEF LogoutBlacklist, Follows, At
  <2>2. UNCHANGED <<tokens, expired, dead, reused, faults>>
    BY <1>2 DEF LogoutBlacklist
  <2>3. blacklist' \subseteq Pair /\ faults' \in 0..MaxFaults
    BY <1>2 DEF LogoutBlacklist, Inv, TypeOK, SessionsTypeOK, RequestsShaped, Shaped
  <2> QED
    BY <2>1, <2>2, <2>3, QuietStep
<1>3. CASE RefreshFind(r)
  <2> DEFINE a == IF srv[r].tok \in Live THEN "rotate" ELSE "reuse"
  <2>1. /\ a \in At /\ Advance(r, a) /\ Follows(r, a) /\ a \in {"rotate", "reuse"}
        /\ a = "rotate" => srv[r].tok \in Live
        /\ a = "reuse" => srv[r].tok \notin Live
    BY <1>3 DEF RefreshFind, Follows, At
  <2>2. UNCHANGED <<tokens, blacklist, expired, dead, reused, faults>>
    BY <1>3 DEF RefreshFind
  <2>3. blacklist' \subseteq Pair /\ faults' \in 0..MaxFaults
    BY <2>2 DEF Inv, TypeOK, SessionsTypeOK
  <2> HIDE DEF a
  <2> QED
    BY <2>1, <2>2, <2>3, QuietStep
<1>4. CASE CreateSession(r)
  <2>1. Advance(r, "ok") /\ Follows(r, "ok") /\ "ok" \in At
    BY <1>4 DEF CreateSession, Follows, At, Final
  <2>2. UNCHANGED <<tokens, blacklist, expired, dead, reused, faults>>
    BY <1>4 DEF CreateSession
  <2>3. blacklist' \subseteq Pair /\ faults' \in 0..MaxFaults
    BY <2>2 DEF Inv, TypeOK, SessionsTypeOK
  <2> QED
    BY <2>1, <2>2, <2>3, QuietStep
<1>5. CASE CallFails(r)
  <2> DEFINE a == IF srv[r].at = "auth" THEN "refused" ELSE "failed"
  <2>1. a \in At /\ Advance(r, a) /\ Follows(r, a) /\ a \in {"refused", "failed"}
    BY <1>5 DEF CallFails, Follows, At, Final
  <2>2. UNCHANGED <<tokens, blacklist, expired, dead, reused>>
    BY <1>5 DEF CallFails
  <2>3. blacklist' \subseteq Pair
    BY <2>2 DEF Inv, TypeOK, SessionsTypeOK
  <2>4. faults' \in 0..MaxFaults
    BY <1>5, SessionsAssumption DEF CallFails, Inv, TypeOK, SessionsTypeOK
  <2> HIDE DEF a
  <2> QED
    BY <2>1, <2>2, <2>3, <2>4, QuietStep
<1> QED
  BY <1>1, <1>2, <1>3, <1>4, <1>5

\* An access token expires.
LEMMA ExpireKeepsInv ==
  ASSUME Inv, Expire
  PROVE  Inv'
<1>1. /\ UNCHANGED <<tokens, blacklist, srv, dead, reused, faults, tabVars>>
      /\ expired' \subseteq Pair
  BY DEF Expire, ExpireAccess, Inv, TypeOK, SessionsTypeOK
<1>2. TypeOK'
  BY <1>1 DEF Inv, TypeOK, SessionsTypeOK, Pair, Families, tabVars
<1>3. /\ RequestsShaped' /\ FamiliesOlder' /\ StoreKnown' /\ CallsShaped'
      /\ RefreshShared' /\ SignedOutClean'
  BY <1>1 DEF Inv, RequestsShaped, Shaped, Result, FamiliesOlder, StoreKnown, CallsShaped,
              RefreshShared, SignedOutClean, Pair, Calls, tabVars
<1>4. OneHolder' /\ ResultsDistinct'
  BY <1>1 DEF Inv, OneHolder, Valid, Creating, Family, Live, ResultsDistinct, Result, Pair, tabVars
<1>5. raced' = raced /\ (Unraced => Unraced')
  BY <1>1 DEF Unraced, Good, Live, Result, Pair, tabVars
<1> QED
  BY <1>2, <1>3, <1>4, <1>5 DEF Inv

\* logout revokes every token: no family has a holder any more.
LEMMA LogoutRevokeKeepsInv ==
  ASSUME Inv, NEW r \in Req, LogoutRevoke(r), UNCHANGED tabVars
  PROVE  Inv'
<1> USE DEF Inv
<1> DEFINE R == Rotating(Families)
<1>1. Moves(r, "ok", R)
  BY MarkLateMoves DEF LogoutRevoke, TypeOK, SessionsTypeOK, At, Final
<1>2. Revokes(Live) /\ Follows(r, "ok") /\ "ok" \in At
  BY RevokeWhereRevokes DEF LogoutRevoke, TypeOK, SessionsTypeOK, TokenRow, Follows, At, Final
<1>3. /\ TypeOK' /\ RequestsShaped' /\ FamiliesOlder' /\ StoreKnown'
      /\ CallsShaped' /\ RefreshShared' /\ SignedOutClean'
  <2> HIDE DEF R
  <2>1. /\ blacklist' \subseteq Pair /\ expired' \subseteq Pair /\ dead' \subseteq Families
        /\ reused' \in BOOLEAN /\ faults' \in 0..MaxFaults
    BY DEF LogoutRevoke, TypeOK, SessionsTypeOK
  <2> QED
    BY <1>1, <1>2, <2>1, MovesKeepShape
<1>4. ResultsDistinct'
  BY <1>1, <1>2, MovesKeepResults
<1>5. OneHolder'
  <2>1. Pair' = Pair /\ \A t \in Pair : tokens'[t].revoked
    BY <1>2 DEF Revokes, Pair, Live
  <2>2. \A q \in Req : srv'[q].at = "create" /\ srv'[q].op = "refresh" => srv'[q].late
    BY <1>1 DEF Moves, Rotating, RequestsShaped, Shaped, Families
  <2>3. \A q \in Req : srv'[q].at = "rotate" => srv'[q].late
    BY <1>1 DEF Moves, Rotating, RequestsShaped, Shaped, Families
  <2> QED
    BY <2>1, <2>2, <2>3 DEF OneHolder, Valid, Creating
<1>6. ASSUME ~raced PROVE Unraced'
  <2>1. dead \subseteq dead' /\ ~reused'
    BY <1>6 DEF LogoutRevoke, Unraced
  <2>2. \A t \in Pair : Good(t)'
    BY <1>2 DEF Good, Revokes, Families, LogoutRevoke
  <2> HIDE DEF R
  <2> QED
    BY <1>1, <1>2, <1>6, <2>1, <2>2, MovesKeepUnraced
<1>7. raced' = raced
  BY DEF tabVars
<1> QED
  BY <1>3, <1>4, <1>5, <1>6, <1>7

\* A detected reuse revokes a family, and leaves the others as they are.
LEMMA RefreshReuseKeepsInv ==
  ASSUME Inv, NEW r \in Req, RefreshReuse(r), UNCHANGED tabVars
  PROVE  Inv'
<1> USE DEF Inv
<1>1. PICK f : f = tokens[srv[r].tok].family
  OBVIOUS
<1>2. /\ srv[r].at = "reuse" /\ srv[r].tok \in Pair /\ f \in Families
      /\ tokens' = RevokeWhere(Members(f))
      /\ dead' = dead \cup {f}
      /\ reused' = (reused \/ f \notin dead)
      /\ srv' = MarkLate(Rotating({f}), [srv EXCEPT ![r].at = "refused"])
      /\ UNCHANGED <<blacklist, expired, faults>>
  BY <1>1 DEF RefreshReuse, RequestsShaped, Shaped, Families
<1> DEFINE R == Rotating({f})
           S == Members(f)
<1>3. Moves(r, "refused", R)
  BY <1>2, MarkLateMoves DEF TypeOK, SessionsTypeOK, At, Final
<1>4. Revokes(S) /\ Follows(r, "refused") /\ "refused" \in At
  BY <1>2, RevokeWhereRevokes DEF TypeOK, SessionsTypeOK, TokenRow, Follows, At, Final
<1>5. /\ TypeOK' /\ RequestsShaped' /\ FamiliesOlder' /\ StoreKnown'
      /\ CallsShaped' /\ RefreshShared' /\ SignedOutClean'
  <2> HIDE DEF R, S
  <2>1. /\ blacklist' \subseteq Pair /\ expired' \subseteq Pair /\ dead' \subseteq Families
        /\ reused' \in BOOLEAN /\ faults' \in 0..MaxFaults
    BY <1>2 DEF TypeOK, SessionsTypeOK
  <2> QED
    BY <1>3, <1>4, <2>1, MovesKeepShape
<1>6. ResultsDistinct'
  BY <1>3, <1>4, MovesKeepResults
<1>7. OneHolder'
  <2>1. /\ Pair' = Pair
        /\ \A t \in Pair : /\ tokens'[t].family = tokens[t].family
                           /\ Valid(t)' <=> Valid(t) /\ tokens[t].family # f
                           /\ t \in Live' <=> t \in Live /\ tokens[t].family # f
    BY <1>4 DEF Revokes, Pair, Members, Valid, Live
  <2>2. \A q \in Req : srv'[q].at = srv[q].at \/ srv'[q].at = "refused"
    BY <1>3 DEF Moves
  <2>3. \A q \in Req : srv[q].tok \in Pair /\ srv[q].op = "refresh"
                         /\ srv[q].at \in {"rotate", "create"} /\ Family(q) = f => srv'[q].late
    BY <1>3 DEF Moves, Rotating, Family
  <2>4. \A q \in Req : Creating(q)' => Creating(q) /\ Family(q)' = Family(q) /\ Family(q) # f
    BY <1>3, <1>4, <2>2, <2>3 DEF Creating, Family, Moves, Revokes, RequestsShaped, Shaped
  <2>5. \A q \in Req : srv'[q].at = "rotate" /\ ~srv'[q].late => srv'[q].tok \in Live'
    BY <1>3, <2>1, <2>2, <2>3 DEF Moves, OneHolder, RequestsShaped, Shaped, Family, Live
  <2>6. \A t, u \in Pair : Valid(t)' /\ Valid(u)' /\ tokens'[t].family = tokens'[u].family => t = u
    BY <2>1 DEF OneHolder
  <2>7. \A q, p \in Req : Creating(q)' /\ Creating(p)' /\ Family(q)' = Family(p)' => q = p
    BY <2>4 DEF OneHolder
  <2>8. \A t \in Pair, q \in Req : Valid(t)' /\ Creating(q)' => tokens'[t].family # Family(q)'
    BY <2>1, <2>4 DEF OneHolder
  <2>9. /\ \A t \in Pair : Valid(t)' => tokens'[t].family \notin dead'
        /\ \A q \in Req : Creating(q)' => Family(q)' \notin dead'
    BY <1>2, <2>1, <2>4 DEF OneHolder
  <2> QED
    BY <2>1, <2>5, <2>6, <2>7, <2>8, <2>9 DEF OneHolder
<1>8. ASSUME ~raced PROVE Unraced'
  <2>1. dead \subseteq dead' /\ ~reused'
    BY <1>1, <1>2, <1>8 DEF Unraced
  <2>2. \A t \in Pair : Good(t) => Good(t)'
    BY <1>2, <1>4 DEF Good, Revokes, Members, Live, Pair
  <2> HIDE DEF R, S
  <2> QED
    BY <1>3, <1>4, <1>8, <2>1, <2>2, MovesKeepUnraced
<1>9. raced' = raced
  BY DEF tabVars
<1> QED
  BY <1>5, <1>6, <1>7, <1>8, <1>9

\* The rotation takes the token of the request: if it counted, the request
\* now stands for its family.
LEMMA RefreshRotateKeepsInv ==
  ASSUME Inv, NEW r \in Req, RefreshRotate(r), UNCHANGED tabVars
  PROVE  Inv'
<1> USE DEF Inv
<1>1. PICK x : x = srv[r].tok
  OBVIOUS
<1>2. /\ srv[r].at = "rotate" /\ srv[r].op = "refresh" /\ x \in Pair
      /\ tokens' = RevokeWhere({x})
      /\ UNCHANGED <<blacklist, expired, dead, reused, faults>>
  BY <1>1 DEF RefreshRotate, RequestsShaped, Shaped
<1>3. PICK R : R = {q \in Req \ {r} : srv[q].at = "rotate" /\ srv[q].tok = x}
  OBVIOUS
<1>4. srv' = MarkLate(R, [srv EXCEPT ![r].at = "create"])
  BY <1>1, <1>3 DEF RefreshRotate
<1>5. Moves(r, "create", R)
  BY <1>4, MarkLateMoves DEF TypeOK, SessionsTypeOK, At, Final
<1>6. Revokes({x}) /\ Follows(r, "create") /\ "create" \in At
  BY <1>2, RevokeWhereRevokes DEF TypeOK, SessionsTypeOK, TokenRow, Follows, At, Final
<1>7. /\ TypeOK' /\ RequestsShaped' /\ FamiliesOlder' /\ StoreKnown'
      /\ CallsShaped' /\ RefreshShared' /\ SignedOutClean'
  BY <1>2, <1>5, <1>6, MovesKeepShape DEF TypeOK, SessionsTypeOK
<1>8. ResultsDistinct'
  BY <1>5, <1>6, MovesKeepResults
<1>9. OneHolder'
  <2>1. /\ Pair' = Pair
        /\ \A t \in Pair : /\ tokens'[t].family = tokens[t].family
                           /\ Valid(t)' <=> Valid(t) /\ t # x
                           /\ t \in Live' <=> t \in Live /\ t # x
    BY <1>6 DEF Revokes, Pair, Valid, Live
  <2>2. \A q \in Req : /\ srv'[q].tok = srv[q].tok /\ srv'[q].op = srv[q].op
                       /\ q # r => srv'[q].at = srv[q].at
                       /\ srv[q].late => srv'[q].late
    BY <1>5 DEF Moves
  <2>3. \A q \in Req \ {r} : Creating(q)' => Creating(q) /\ Family(q)' = Family(q)
    BY <1>6, <2>2 DEF Creating, Family, Revokes, RequestsShaped, Shaped
  <2>4. Creating(r)' => Valid(x) /\ Family(r)' = tokens[x].family
    <3>1. ~srv'[r].late => x \in Live
      BY <1>1, <1>2, <2>2 DEF OneHolder
    <3>2. ~tokens'[srv'[r].tok].late => ~tokens[x].late
      BY <1>1, <1>2, <1>6, <2>2 DEF Revokes
    <3>3. tokens'[srv'[r].tok].family = tokens[x].family
      BY <1>1, <1>2, <1>6, <2>2 DEF Revokes
    <3> QED
      BY <3>1, <3>2, <3>3 DEF Creating, Valid, Live, Family
  <2>5. \A q \in Req : srv'[q].at = "rotate" => q # r
    BY <1>5 DEF Moves
  <2>6. \A q \in Req : srv'[q].at = "rotate" /\ ~srv'[q].late => srv'[q].tok \in Live'
    <3>1. \A q \in Req \ {r} : srv[q].at = "rotate" /\ srv[q].tok = x => srv'[q].late
      BY <1>3, <1>5 DEF Moves
    <3>2. \A q \in Req \ {r} : srv'[q].at = "rotate" /\ ~srv'[q].late =>
            srv'[q].tok \in Pair /\ srv'[q].tok \in Live /\ srv'[q].tok # x
      BY <2>2, <3>1 DEF OneHolder, Live
    <3> QED
      BY <2>1, <2>5, <3>2
  <2>7. \A t \in Pair : Valid(t)' /\ Creating(r)' => tokens'[t].family # Family(r)'
    BY <1>2, <2>1, <2>4 DEF OneHolder
  <2>8. \A q \in Req \ {r} : Creating(q)' /\ Creating(r)' => Family(q)' # Family(r)'
    BY <1>2, <2>3, <2>4 DEF OneHolder
  <2>9. Creating(r)' => Family(r)' \notin dead'
    BY <1>2, <2>4 DEF OneHolder
  <2>10. \A q, p \in Req : Creating(q)' /\ Creating(p)' /\ Family(q)' = Family(p)' => q = p
    BY <2>3, <2>8 DEF OneHolder
  <2>11. \A t \in Pair, q \in Req : Valid(t)' /\ Creating(q)' => tokens'[t].family # Family(q)'
    BY <2>1, <2>3, <2>7 DEF OneHolder
  <2>12. \A q \in Req : Creating(q)' => Family(q)' \notin dead'
    BY <1>2, <2>3, <2>9 DEF OneHolder
  <2>13. /\ \A t, u \in Pair : Valid(t)' /\ Valid(u)' /\ tokens'[t].family = tokens'[u].family => t = u
         /\ \A t \in Pair : Valid(t)' => tokens'[t].family \notin dead'
    BY <1>2, <2>1 DEF OneHolder
  <2> QED
    BY <2>1, <2>6, <2>10, <2>11, <2>12, <2>13 DEF OneHolder
<1>10. ASSUME ~raced PROVE Unraced'
  <2>1. dead \subseteq dead' /\ ~reused'
    BY <1>2, <1>10 DEF Unraced
  <2>2. \A t \in Pair : Good(t) /\ t # x => Good(t)'
    BY <1>2, <1>6 DEF Good, Revokes, Live, Pair
  <2> QED
    BY <1>1, <1>2, <1>5, <1>6, <1>10, <2>1, <2>2, MovesKeepUnraced
<1>11. raced' = raced
  BY DEF tabVars
<1> QED
  BY <1>7, <1>8, <1>9, <1>10, <1>11

-----------------------------------------------------------------------------
(***************************************************************************)
(* The step that creates a token.                                          *)
(***************************************************************************)

\* The new row of the table, of a new family after a login, and the answer.
Created(r, n, p) ==
  /\ srv[r].at = "create" /\ srv[r].op \in {"login", "refresh"}
  /\ n = Len(tokens) + 1 /\ n \in 1..MaxTokens /\ n \notin Pair
  /\ p \in TokenRow /\ ~p.revoked
  /\ srv[r].op = "login" => p.family = n
  /\ srv[r].op = "refresh" =>
       /\ srv[r].tok \in Pair
       /\ p.family = tokens[srv[r].tok].family
       /\ p.late <=> srv[r].late \/ tokens[srv[r].tok].late
  /\ tokens' \in Seq(TokenRow) /\ Len(tokens') = n /\ Pair' = Pair \cup {n}
  /\ tokens'[n] = p /\ \A t \in Pair : tokens'[t] = tokens[t]
  /\ srv' \in [Req -> RequestType]
  /\ \A q \in Req \ {r} : srv'[q] = srv[q]
  /\ srv'[r].op = srv[r].op /\ srv'[r].tok = n
  /\ srv'[r].at = IF srv[r].op = "login" THEN "session" ELSE "ok"
  /\ UNCHANGED <<blacklist, expired, dead, reused, faults>>

\* What GenerateTokenPair does.
LEMMA GenerateTokenPairCreates ==
  ASSUME Inv, NEW r \in Req, GenerateTokenPair(r)
  PROVE  \E n, p : Created(r, n, p)
<1>1. PICK n : n = Len(tokens) + 1
  OBVIOUS
<1>2. PICK p : p = NewPair(r)
  OBVIOUS
<1>3. PICK a : a = IF srv[r].op = "login" THEN "session" ELSE "ok"
  OBVIOUS
<1>4. /\ srv[r].at = "create" /\ srv[r].op \in {"login", "refresh"}
      /\ Len(tokens) < MaxTokens /\ MaxTokens \in Nat
      /\ tokens' = Append(tokens, p)
      /\ srv' = [srv EXCEPT ![r].at = a, ![r].tok = n]
      /\ UNCHANGED <<blacklist, expired, dead, reused, faults>>
      /\ srv[r].op = "refresh" => srv[r].tok \in Pair
  BY <1>1, <1>2, <1>3, SessionsAssumption DEF GenerateTokenPair, Inv, RequestsShaped, Shaped
<1>5. tokens \in Seq(TokenRow) /\ Len(tokens) \in Nat
  BY LenProperties DEF Inv, TypeOK, SessionsTypeOK, TokenRow
<1>6. n \in 1..MaxTokens /\ n \notin Pair
  BY <1>1, <1>4, <1>5 DEF Pair
<1>7. \A t \in Pair : tokens[t] \in TokenRow
  BY <1>5, ElementOfSeq DEF Pair
<1>8. /\ p \in TokenRow /\ ~p.revoked
      /\ srv[r].op = "login" => p.family = n
      /\ srv[r].op = "refresh" =>
           /\ p.family = tokens[srv[r].tok].family
           /\ p.late <=> srv[r].late \/ tokens[srv[r].tok].late
  <2>1. CASE srv[r].op = "login"
    BY <1>1, <1>2, <1>6, <2>1 DEF NewPair, TokenRow
  <2>2. CASE srv[r].op = "refresh"
    <3>1. tokens[srv[r].tok] \in TokenRow /\ srv[r].late \in BOOLEAN
      BY <1>4, <1>7, <2>2 DEF Inv, TypeOK, SessionsTypeOK, RequestType
    <3>2. p = [family |-> tokens[srv[r].tok].family, revoked |-> FALSE,
               late |-> srv[r].late \/ tokens[srv[r].tok].late]
      BY <1>2, <2>2 DEF NewPair
    <3> QED
      BY <2>2, <3>1, <3>2 DEF TokenRow
  <2> QED
    BY <1>4, <2>1, <2>2
<1>9. /\ tokens' \in Seq(TokenRow) /\ Len(tokens') = n
      /\ tokens'[n] = p /\ \A t \in Pair : tokens'[t] = tokens[t]
  BY <1>1, <1>4, <1>5, <1>8, AppendProperties DEF Pair
<1>10. Pair' = Pair \cup {n}
  BY <1>1, <1>5, <1>9 DEF Pair
<1>11. PICK e : e = [srv[r] EXCEPT !.at = a, !.tok = n]
  OBVIOUS
<1>12. srv' = [srv EXCEPT ![r] = e]
  BY <1>4, <1>11
<1>13. srv[r] \in RequestType /\ srv \in [Req -> RequestType]
  BY DEF Inv, TypeOK, SessionsTypeOK
<1>14. /\ e \in RequestType
       /\ e.op = srv[r].op /\ e.tok = n /\ e.at = a
  <2>1. a \in At
    BY <1>3 DEF At, Final
  <2>2. n \in 0..MaxTokens
    BY <1>4, <1>6
  <2> QED
    BY <1>11, <1>13, <2>1, <2>2 DEF RequestType, At
<1>15. srv' \in [Req -> RequestType] /\ srv'[r] = e /\ \A q \in Req \ {r} : srv'[q] = srv[q]
  BY <1>12, <1>13, <1>14
<1>16. Created(r, n, p)
  BY <1>1, <1>3, <1>4, <1>6, <1>8, <1>9, <1>10, <1>14, <1>15 DEF Created
<1> QED
  BY <1>16

\* The new token is younger than everything that is stored or presented, and
\* a refresh hands its place in the family on to it.
LEMMA GenerateTokenPairKeepsInv ==
  ASSUME Inv, NEW r \in Req, GenerateTokenPair(r), UNCHANGED tabVars
  PROVE  Inv'
<1> USE DEF Inv
<1>1. PICK n, p : Created(r, n, p)
  BY GenerateTokenPairCreates
<1>2. /\ Pair' = Pair \cup {n} /\ n \notin Pair /\ n # 0
      /\ \A t \in Pair : tokens'[t] = tokens[t]
      /\ tokens'[n] = p /\ ~p.revoked
      /\ \A q \in Req \ {r} : srv'[q] = srv[q]
      /\ srv'[r].tok = n /\ srv'[r].op = srv[r].op /\ srv'[r].at \in {"session", "ok"}
      /\ dead' = dead /\ reused' = reused
  BY <1>1, SessionsAssumption DEF Created
<1>3. TypeOK'
  <2>1. Families \subseteq Families'
    BY <1>2 DEF Families
  <2>2. SessionsTypeOK'
    BY <1>1, <1>2, <2>1, SessionsAssumption DEF TypeOK, SessionsTypeOK, Created, TokenRow
  <2> QED
    BY <2>2 DEF TypeOK, tabVars
<1>4. RequestsShaped'
  BY <1>1, <1>2 DEF RequestsShaped, Shaped, Result, Created, Final
<1>5. FamiliesOlder'
  <2>1. Len(tokens) \in Nat /\ \A t \in Pair : tokens[t].family \in Nat
    <3>1. tokens \in Seq(TokenRow)
      BY DEF TypeOK, SessionsTypeOK, TokenRow
    <3>2. Len(tokens) \in Nat /\ \A t \in Pair : tokens[t] \in TokenRow
      BY <3>1, LenProperties, ElementOfSeq DEF Pair
    <3> QED
      BY <3>2 DEF TokenRow
  <2>2. p.family <= n
    BY <1>1, <2>1 DEF Created, FamiliesOlder, Pair
  <2> QED
    BY <1>2, <2>2 DEF FamiliesOlder
<1>6. StoreKnown' /\ n # store.refresh
  BY <1>1, LenProperties DEF StoreKnown, Created, tabVars, TypeOK, SessionsTypeOK
<1>7. CallsShaped'
  BY <1>1, <1>2 DEF CallsShaped, Created, Final, tabVars
<1>8. RefreshShared' /\ SignedOutClean'
  BY DEF RefreshShared, SignedOutClean, tabVars, Calls
<1>9. ResultsDistinct'
  <2>1. Result(r)' /\ \A q \in Req \ {r} : Result(q)' <=> Result(q)
    BY <1>1, <1>2 DEF Result, Created
  <2>2. \A q \in Req \ {r} : Result(q) \/ srv[q].at \in {"find", "rotate"} => srv[q].tok # n
    BY <1>2 DEF RequestsShaped, Shaped
  <2> QED
    BY <1>2, <1>6, <2>1, <2>2 DEF ResultsDistinct, tabVars
<1>10. OneHolder'
  <2>1. \A t \in Pair : (Valid(t)' <=> Valid(t)) /\ (t \in Live' <=> t \in Live)
    BY <1>2 DEF Valid, Live
  <2>2. \A q \in Req : Creating(q)' => Creating(q) /\ Family(q)' = Family(q) /\ q # r
    BY <1>2 DEF Creating, Family, RequestsShaped, Shaped
  <2>3. \A q \in Req : Creating(q) => Family(q) \in Families
    BY DEF Creating, Family, Families, RequestsShaped, Shaped
  <2>4. CASE srv[r].op = "login"
    <3>1. \A t \in Pair : tokens[t].family # n
      <4>1. Len(tokens) \in Nat /\ n = Len(tokens) + 1
        BY <1>1, LenProperties DEF Created, TypeOK, SessionsTypeOK
      <4>2. tokens \in Seq(TokenRow)
        BY DEF TypeOK, SessionsTypeOK, TokenRow
      <4>3. \A t \in Pair : tokens[t] \in TokenRow
        BY <4>2, ElementOfSeq DEF Pair
      <4>4. \A t \in Pair : tokens[t].family \in Nat /\ tokens[t].family <= t
        BY <4>3 DEF FamiliesOlder, TokenRow
      <4> HIDE DEF Inv
      <4> QED
        BY <4>1, <4>4 DEF Pair
    <3>2. n \notin dead /\ p.family = n
      <4>1. n \notin Families
        BY <3>1 DEF Families
      <4> QED
        BY <1>1, <2>4, <4>1 DEF TypeOK, SessionsTypeOK, Created
    <3>3. \A q \in Req : Creating(q)' => Family(q)' # n /\ Family(q)' \notin dead'
      BY <1>2, <2>2, <2>3, <3>1 DEF Families, OneHolder
    <3>4. \A q, s \in Req : Creating(q)' /\ Creating(s)' /\ Family(q)' = Family(s)' => q = s
      BY <2>2 DEF OneHolder
    <3>5. \A t, u \in Pair' : Valid(t)' /\ Valid(u)' /\ tokens'[t].family = tokens'[u].family => t = u
      BY <1>2, <2>1, <3>1, <3>2 DEF OneHolder
    <3>6. \A t \in Pair', q \in Req : Valid(t)' /\ Creating(q)' => tokens'[t].family # Family(q)'
      BY <1>2, <2>1, <2>2, <3>2, <3>3 DEF OneHolder
    <3>7. \A t \in Pair' : Valid(t)' => tokens'[t].family \notin dead'
      BY <1>2, <2>1, <3>2 DEF OneHolder
    <3>8. \A q \in Req : srv'[q].at = "rotate" /\ ~srv'[q].late => srv'[q].tok \in Live'
      BY <1>2, <2>1 DEF OneHolder, Live
    <3> QED
      BY <3>3, <3>4, <3>5, <3>6, <3>7, <3>8 DEF OneHolder
  <2>5. CASE srv[r].op = "refresh"
    <3>1. Valid(n)' => Creating(r) /\ p.family = Family(r)
      BY <1>1, <1>2, <2>5 DEF Valid, Creating, Family, Created
    <3>2. \A q, s \in Req : Creating(q)' /\ Creating(s)' /\ Family(q)' = Family(s)' => q = s
      BY <2>2 DEF OneHolder
    <3>3. \A t, u \in Pair' : Valid(t)' /\ Valid(u)' /\ tokens'[t].family = tokens'[u].family => t = u
      BY <1>2, <2>1, <3>1 DEF OneHolder
    <3>4. \A t \in Pair', q \in Req : Valid(t)' /\ Creating(q)' => tokens'[t].family # Family(q)'
      BY <1>2, <2>1, <2>2, <3>1 DEF OneHolder
    <3>5. \A t \in Pair' : Valid(t)' => tokens'[t].family \notin dead'
      BY <1>2, <2>1, <3>1 DEF OneHolder
    <3>6. \A q \in Req : Creating(q)' => Family(q)' \notin dead'
      BY <1>2, <2>2 DEF OneHolder
    <3>7. \A q \in Req : srv'[q].at = "rotate" /\ ~srv'[q].late => srv'[q].tok \in Live'
      BY <1>2, <2>1 DEF OneHolder, Live
    <3> QED
      BY <3>2, <3>3, <3>4, <3>5, <3>6, <3>7 DEF OneHolder
  <2> QED
    BY <1>1, <2>4, <2>5 DEF Created
<1>11. ASSUME ~raced PROVE Unraced'
  <2>1. \A t \in Pair : Good(t) => Good(t)'
    BY <1>2 DEF Good, Live
  <2>2. Good(n)'
    BY <1>2 DEF Good, Live
  <2>3. \A q \in Req \ {r} : Good(srv[q].tok) /\ srv[q].tok \in Pair => Good(srv[q].tok)'
    <3> SUFFICES ASSUME NEW q \in Req \ {r}, Good(srv[q].tok), srv[q].tok \in Pair
                 PROVE  Good(srv[q].tok)'
      OBVIOUS
    <3>1. PICK x : x = srv[q].tok
      OBVIOUS
    <3>2. Good(x)' /\ srv'[q].tok = x
      BY <1>2, <2>1, <3>1
    <3> QED
      BY <3>2 DEF Good
  <2>4. Good(srv[r].tok)'
    BY <1>2, <2>2 DEF Good
  <2>5. \A q \in Req : /\ srv'[q].at = "find" => Good(srv[q].tok)'
                       /\ Result(q)' => Good(srv[q].tok)'
    BY <1>2, <1>11, <2>3, <2>4 DEF Unraced, RequestsShaped, Shaped, Result
  <2>6. \A q \in Req : srv'[q].at = "reuse" => tokens'[srv'[q].tok].family \in dead'
    BY <1>2, <1>11 DEF Unraced, RequestsShaped, Shaped
  <2>7. store'.refresh # 0 /\ (\A t \in Tab : refreshing'[t] = NoReq) => Good(store.refresh)'
    <3> SUFFICES ASSUME store'.refresh # 0, \A t \in Tab : refreshing'[t] = NoReq
                 PROVE  Good(store.refresh)'
      OBVIOUS
    <3>1. PICK x : x = store.refresh
      OBVIOUS
    <3>2. x \in Pair /\ Good(x)
      BY <1>11, <3>1, LenProperties DEF StoreKnown, Pair, TypeOK, SessionsTypeOK, Unraced, tabVars
    <3>3. Good(x)' /\ store'.refresh = x
      BY <2>1, <3>1, <3>2 DEF tabVars
    <3> QED
      BY <3>3 DEF Good
  <2>8. /\ \A t, u \in Tab : refreshing'[t] # NoReq /\ refreshing'[u] # NoReq => t = u
        /\ ~reused'
    BY <1>2, <1>11 DEF Unraced, tabVars
  <2>9. \A q \in Req : srv'[q].op = "refresh" /\ srv'[q].at \notin Final => call'[q].at = "refreshing"
    BY <1>1, <1>2, <1>11 DEF Unraced, tabVars, Created, Final
  <2> QED
    BY <2>5, <2>6, <2>7, <2>8, <2>9 DEF Unraced
<1>12. raced' = raced
  BY DEF tabVars
<1> QED
  BY <1>3, <1>4, <1>5, <1>6, <1>7, <1>8, <1>9, <1>10, <1>11, <1>12

-----------------------------------------------------------------------------
(***************************************************************************)
(* What the steps of the browser do to the server's requests.              *)
(***************************************************************************)

CallType == [kind : {"api", "logout", "login"}, retry : BOOLEAN,
             at : {"idle", "sent", "refreshing", "sharing"}]

\* The part of TypeOK about the tabs.
TabTypes ==
  /\ page \in [Tab -> {"login", "app", "leaving"}]
  /\ cached \in [Tab -> 0..MaxTokens]
  /\ refreshing \in [Tab -> Req \cup {NoReq}]
  /\ store \in [token : 0..MaxTokens, refresh : 0..MaxTokens]
  /\ call \in [Req -> CallType]
  /\ raced \in BOOLEAN
  /\ clicks \in 0..MaxClicks
  /\ signedOut \in {"no", "clean", "raced"}

\* A slot is given back, or used for a new request.
Starts(e) ==
  \/ e.op \in {"api", "logout"} /\ e.at \in {"auth", "ok"}
  \/ e.op = "login" /\ e.at = "create"
  \/ e.op = "refresh" /\ e.at = "find" /\ e.tok = store.refresh /\ store.refresh # 0

\* Finished requests make place for new ones; the tokens stay as they are.
ClientEffect ==
  /\ UNCHANGED <<tokens, blacklist, expired, dead, reused>>
  /\ faults' \in 0..MaxFaults
  /\ srv' \in [Req -> RequestType]
  /\ \A q \in Req : srv'[q] = srv[q] \/ (srv[q].at \in Final /\ Starts(srv'[q]))

\* The store is left alone, cleared, or given what a request returned.
StoreEffect ==
  \/ /\ store' = store
     /\ ~raced' /\ (\A t \in Tab : refreshing'[t] = NoReq) => \A t \in Tab : refreshing[t] = NoReq
  \/ store' = [token |-> 0, refresh |-> 0]
  \/ \E c \in Req : /\ Result(c) /\ ~Result(c)'
                    /\ store' = [token |-> srv[c].tok, refresh |-> srv[c].tok]

\* While nothing raced there is one refresh, and its page waits for it.
RefreshEffect ==
  /\ raced => raced'
  /\ ~raced' =>
       /\ \A q \in Req : srv'[q] # srv[q] /\ srv'[q].at = "find" =>
            \A t \in Tab : refreshing[t] = NoReq
       /\ \A t, u \in Tab : refreshing'[t] # NoReq /\ refreshing'[u] # NoReq => t = u
       /\ \A q \in Req : srv'[q].op = "refresh" /\ srv'[q].at \notin Final
                         => call'[q].at = "refreshing"

\* The fields of a new request.
LEMMA RequestTyped ==
  ASSUME NEW op \in {"api", "logout", "refresh", "login"}, NEW at \in At, NEW tok \in 0..MaxTokens
  PROVE  /\ Request(op, at, tok) \in RequestType
         /\ Request(op, at, tok).op = op /\ Request(op, at, tok).at = at
         /\ Request(op, at, tok).tok = tok
  BY DEF Request, RequestType, At

\* Steps with these effects keep what the invariant says of the server.
LEMMA ClientKeepsServer ==
  ASSUME Inv, ClientEffect
  PROVE  SessionsTypeOK' /\ RequestsShaped' /\ FamiliesOlder' /\ OneHolder'
<1> USE DEF Inv
<1>1. Pair' = Pair /\ Live' = Live /\ Families' = Families
  BY DEF ClientEffect, Pair, Live, Families
<1>2. SessionsTypeOK'
  BY <1>1 DEF TypeOK, SessionsTypeOK, ClientEffect
<1>3. store.refresh # 0 => store.refresh \in Pair
  BY LenProperties DEF StoreKnown, Pair, TypeOK, SessionsTypeOK
<1>4. RequestsShaped'
  <2> SUFFICES ASSUME NEW q \in Req
               PROVE  Shaped(q)'
    BY DEF RequestsShaped
  <2>1. CASE srv'[q] = srv[q]
    BY <1>1, <2>1 DEF RequestsShaped, Shaped, Result
  <2>2. CASE Starts(srv'[q])
    BY <1>1, <1>3, <2>2 DEF Starts, Shaped, Result
  <2> QED
    BY <2>1, <2>2 DEF ClientEffect
<1>5. FamiliesOlder'
  BY <1>1 DEF FamiliesOlder, ClientEffect
<1>6. OneHolder'
  <2>1. \A t \in Pair : Valid(t)' <=> Valid(t)
    BY DEF Valid, ClientEffect
  <2>2. \A q \in Req : Creating(q)' => Creating(q) /\ Family(q)' = Family(q)
    BY DEF Creating, Family, ClientEffect, Starts
  <2>3. \A q \in Req : srv'[q].at = "rotate" => srv'[q] = srv[q]
    BY DEF ClientEffect, Starts
  <2>4. tokens' = tokens /\ dead' = dead
    BY DEF ClientEffect
  <2> QED
    BY <1>1, <2>1, <2>2, <2>3, <2>4 DEF OneHolder
<1> QED
  BY <1>2, <1>4, <1>5, <1>6

\* What the store is given was returned to nobody else.
LEMMA ClientKeepsResults ==
  ASSUME Inv, ClientEffect, StoreEffect
  PROVE  StoreKnown' /\ ResultsDistinct'
<1> USE DEF Inv
<1>1. \A q \in Req : Result(q)' => Result(q) /\ srv'[q] = srv[q]
  BY DEF ClientEffect, Starts, Result
<1>2. \A q \in Req : Result(q) => srv[q].tok \in Pair /\ srv[q].tok # 0
  BY DEF RequestsShaped, Shaped, Pair
<1>3. \A q \in Req : srv'[q].at \in {"find", "rotate"} => srv'[q] = srv[q] \/ srv'[q].tok = store.refresh
  BY DEF ClientEffect, Starts
<1>4. /\ Len(tokens) \in Nat /\ tokens' = tokens
      /\ store'.refresh \in {store.refresh, 0} \cup {srv[c].tok : c \in {d \in Req : Result(d) /\ ~Result(d)'}}
  BY LenProperties DEF TypeOK, SessionsTypeOK, ClientEffect, StoreEffect
<1>5. StoreKnown'
  BY <1>2, <1>4 DEF StoreKnown, Pair
<1>6. \A q \in Req : Result(q)' => srv'[q].tok # store'.refresh
  BY <1>1, <1>2, <1>4 DEF ResultsDistinct
<1>7. ResultsDistinct'
  BY <1>1, <1>3, <1>6 DEF ResultsDistinct
<1> QED
  BY <1>5, <1>7

\* While nothing raced, what the pages do keeps every token good.
LEMMA ClientKeepsUnraced ==
  ASSUME Inv, ClientEffect, StoreEffect, RefreshEffect
  PROVE  (~raced => Unraced)'
<1> USE DEF Inv
<1> SUFFICES ASSUME ~raced'
             PROVE  Unraced'
  OBVIOUS
<1>1. Unraced /\ tokens' = tokens /\ dead' = dead /\ ~reused'
  BY DEF RefreshEffect, Unraced, ClientEffect
<1>2. \A t : Good(t)' <=> Good(t)
  BY <1>1 DEF Good, Live, Pair
<1>3. \A q \in Req : srv'[q].at = "find" => Good(srv'[q].tok)
  BY <1>1 DEF ClientEffect, Starts, RefreshEffect, Unraced
<1>4. \A q \in Req : srv'[q].at = "reuse" => tokens'[srv'[q].tok].family \in dead'
  BY <1>1 DEF ClientEffect, Starts, Unraced
<1>5. \A q \in Req : Result(q)' => Good(srv'[q].tok)
  BY <1>1 DEF ClientEffect, Starts, Unraced, Result
<1>6. store'.refresh # 0 /\ (\A t \in Tab : refreshing'[t] = NoReq) => Good(store'.refresh)
  BY <1>1 DEF StoreEffect, Unraced
<1>7. \A t : Good(t) = (t \in Live' \/ tokens'[t].family \in dead')
  BY <1>1 DEF Good, Live, Pair
<1> QED
  BY <1>1, <1>3, <1>4, <1>5, <1>6, <1>7 DEF Unraced, RefreshEffect, Good

\* A step of the browser keeps the invariant when it has these effects and
\* keeps what the invariant says of the tabs.
LEMMA ClientKeepsInv ==
  ASSUME Inv, ClientEffect, StoreEffect, RefreshEffect,
         TabTypes', CallsShaped', RefreshShared', SignedOutClean'
  PROVE  Inv'
<1>1. TypeOK'
  BY ClientKeepsServer DEF TypeOK, TabTypes, CallType
<1> QED
  BY <1>1, ClientKeepsServer, ClientKeepsResults, ClientKeepsUnraced DEF Inv

\* What the types say of the tabs, and of a request that is answered.
LEMMA TabFacts ==
  ASSUME Inv
  PROVE  /\ TabTypes
         /\ srv \in [Req -> RequestType]
         /\ Idle \in RequestType /\ Starts(Idle) /\ Idle.op = "api" /\ Idle.at = "ok"
         /\ \A c \in Req : TabOf[c] \in Tab /\ c # NoReq /\ srv[c].tok \in 0..MaxTokens
         /\ 0 \in 0..MaxTokens
         /\ faults \in 0..MaxFaults
         /\ NoCall \in CallType
         /\ NoCall.at = "idle" /\ NoCall.kind = "api"
<1>1. 0 \in 0..MaxTokens
  BY SessionsAssumption
<1>2. Idle \in RequestType /\ Starts(Idle) /\ Idle.op = "api" /\ Idle.at = "ok"
  BY <1>1, RequestTyped DEF Idle, Starts, At, Final
<1>3. TabTypes /\ srv \in [Req -> RequestType] /\ faults \in 0..MaxFaults
  BY DEF Inv, TypeOK, SessionsTypeOK, TabTypes, CallType
<1>4. \A c \in Req : TabOf[c] \in Tab /\ c # NoReq /\ srv[c].tok \in 0..MaxTokens
  BY <1>3, BrowserAssumption DEF RequestType
<1> QED
  BY <1>1, <1>2, <1>3, <1>4 DEF NoCall, CallType

\* The cached token and the stored one have their types.
LEMMA TokenTyped ==
  ASSUME TabTypes, NEW t \in Tab
  PROVE  Token(t) \in 0..MaxTokens
  BY DEF Token, TabTypes

\* request: a finished slot sends a call with the page's token.
LEMMA SendKeepsInv ==
  ASSUME Inv, NEW c \in Req, NEW kind \in {"api", "logout"}, Send(c, kind)
  PROVE  Inv'
<1>1. PICK t : t = TabOf[c]
  OBVIOUS
<1>2. PICK e : e = Request(kind, "auth", Token(t))
  OBVIOUS
<1>3. PICK k : k = [kind |-> kind, at |-> "sent", retry |-> FALSE]
  OBVIOUS
<1>4. /\ call[c].at = "idle" /\ srv[c].at \in Final
      /\ clicks < MaxClicks /\ clicks' = clicks + 1
      /\ cached' = [cached EXCEPT ![t] = Token(t)]
      /\ call' = [call EXCEPT ![c] = k]
      /\ srv' = [srv EXCEPT ![c] = e]
      /\ UNCHANGED <<tokens, blacklist, expired, dead, reused, faults,
                     page, refreshing, store, raced, signedOut>>
  BY <1>1, <1>2, <1>3 DEF Send, Free, Click
<1>5. TabTypes /\ t \in Tab /\ Token(t) \in 0..MaxTokens
  BY <1>1, TabFacts, TokenTyped
<1>6. e \in RequestType /\ e.op = kind /\ e.at = "auth"
  BY <1>2, <1>5, RequestTyped DEF At
<1>7. /\ srv' \in [Req -> RequestType]
      /\ srv'[c] = e /\ \A q \in Req \ {c} : srv'[q] = srv[q]
  BY <1>4, <1>6, TabFacts
<1>8. ClientEffect
  BY <1>4, <1>6, <1>7, TabFacts DEF ClientEffect, Starts
<1>9. StoreEffect
  BY <1>4 DEF StoreEffect
<1>10. /\ k \in CallType
       /\ k.kind = kind /\ k.at = "sent"
  BY <1>3 DEF CallType
<1>11. call'[c] = k /\ \A q \in Req \ {c} : call'[q] = call[q]
  BY <1>4, <1>5, <1>10 DEF TabTypes
<1>12. TabTypes'
  <2>1. /\ cached' \in [Tab -> 0..MaxTokens]
        /\ clicks' \in 0..MaxClicks
    BY <1>4, <1>5, BrowserAssumption DEF TabTypes
  <2>2. call' \in [Req -> CallType]
    BY <1>4, <1>5, <1>10 DEF TabTypes
  <2> QED
    BY <1>4, <1>5, <2>1, <2>2 DEF TabTypes
<1>13. CallsShaped'
  BY <1>4, <1>6, <1>7, <1>10, <1>11 DEF Inv, CallsShaped
<1>14. RefreshShared'
  BY <1>4, <1>10, <1>11 DEF Inv, RefreshShared, Calls
<1>15. SignedOutClean'
  BY <1>4, <1>10, <1>11 DEF Inv, SignedOutClean
<1>16. RefreshEffect
  BY <1>4, <1>6, <1>7, <1>11 DEF Inv, RefreshEffect, Unraced
<1> QED
  BY <1>8, <1>9, <1>12, <1>13, <1>14, <1>15, <1>16, ClientKeepsInv

\* The login form sends its only call.
LEMMA SendLoginKeepsInv ==
  ASSUME Inv, NEW c \in Req, SendLogin(c)
  PROVE  Inv'
<1>1. PICK e : e = Request("login", "create", 0)
  OBVIOUS
<1>2. PICK k : k = [kind |-> "login", at |-> "sent", retry |-> FALSE]
  OBVIOUS
<1>3. /\ call[c].at = "idle" /\ srv[c].at \in Final
      /\ clicks < MaxClicks /\ clicks' = clicks + 1
      /\ call' = [call EXCEPT ![c] = k]
      /\ srv' = [srv EXCEPT ![c] = e]
      /\ UNCHANGED <<tokens, blacklist, expired, dead, reused, faults,
                     page, cached, refreshing, store, raced, signedOut>>
  BY <1>1, <1>2 DEF SendLogin, Free, Click
<1>4. TabTypes /\ 0 \in 0..MaxTokens
  BY TabFacts
<1>5. e \in RequestType /\ e.op = "login" /\ e.at = "create"
  BY <1>1, <1>4, RequestTyped DEF At
<1>6. /\ srv' \in [Req -> RequestType]
      /\ srv'[c] = e /\ \A q \in Req \ {c} : srv'[q] = srv[q]
  BY <1>3, <1>5, TabFacts
<1>7. ClientEffect
  BY <1>3, <1>5, <1>6, TabFacts DEF ClientEffect, Starts
<1>8. StoreEffect
  BY <1>3 DEF StoreEffect
<1>9. /\ k \in CallType
      /\ k.kind = "login" /\ k.at = "sent"
  BY <1>2 DEF CallType
<1>10. call'[c] = k /\ \A q \in Req \ {c} : call'[q] = call[q]
  BY <1>3, <1>4, <1>9 DEF TabTypes
<1>11. TabTypes'
  <2>1. clicks' \in 0..MaxClicks
    BY <1>3, <1>4, BrowserAssumption DEF TabTypes
  <2>2. call' \in [Req -> CallType]
    BY <1>3, <1>4, <1>9 DEF TabTypes
  <2> QED
    BY <1>3, <1>4, <2>1, <2>2 DEF TabTypes
<1>12. CallsShaped'
  BY <1>3, <1>5, <1>6, <1>9, <1>10 DEF Inv, CallsShaped
<1>13. RefreshShared'
  BY <1>3, <1>9, <1>10 DEF Inv, RefreshShared, Calls
<1>14. SignedOutClean'
  BY <1>3, <1>9, <1>10 DEF Inv, SignedOutClean
<1>15. RefreshEffect
  BY <1>3, <1>5, <1>6, <1>10 DEF Inv, RefreshEffect, Unraced
<1> QED
  BY <1>7, <1>8, <1>11, <1>12, <1>13, <1>14, <1>15, ClientKeepsInv

\* The calls of E are over, the others go on.
Over(E) ==
  /\ call' \in [Req -> CallType]
  /\ \A d \in Req : IF d \in E THEN call'[d].at = "idle" ELSE call'[d] = call[d]

\* What the page keeps after it cleared the tokens, or went on.
LeavesTypes ==
  /\ page' \in [Tab -> {"login", "app", "leaving"}]
  /\ cached' \in [Tab -> 0..MaxTokens]
  /\ store' \in [token : 0..MaxTokens, refresh : 0..MaxTokens]
  /\ signedOut' \in {"no", "clean", "raced"}

\* What clearing the tokens and leaving the page does.
LEMMA ClearAndLeaveEffect ==
  ASSUME Inv, NEW t \in Tab, NEW E, ClearAndLeave(t, E)
  PROVE  /\ Over(E) /\ LeavesTypes
         /\ store' = [token |-> 0, refresh |-> 0]
         /\ signedOut' = "clean" => \A d \in Req \ E : call[d].at # "refreshing"
<1>1. TabTypes /\ NoCall \in CallType /\ NoCall.at = "idle" /\ 0 \in 0..MaxTokens
  BY TabFacts DEF CallType
<1>2. call \in [Req -> CallType] /\ call' = [c \in Req |-> IF c \in E THEN NoCall ELSE call[c]]
  BY <1>1 DEF ClearAndLeave, TabTypes, CallType
<1>3. Over(E)
  <2>1. call' \in [Req -> CallType]
    BY <1>1, <1>2
  <2> QED
    BY <1>1, <1>2, <2>1 DEF Over
<1>4. store' = [token |-> 0, refresh |-> 0]
  BY DEF ClearAndLeave, Cleared
<1>5. LeavesTypes
  BY <1>1, <1>4 DEF LeavesTypes, ClearAndLeave, TabTypes
<1>6. signedOut' = "clean" => StoresLater(E) = {}
  BY DEF ClearAndLeave
<1> QED
  BY <1>3, <1>4, <1>5, <1>6 DEF StoresLater

\* The same for the end of a call, which clears only for a logout.
LEMMA CallEndsEffect ==
  ASSUME Inv, NEW c \in Req, CallEnds(c)
  PROVE  /\ Over({c}) /\ LeavesTypes
         /\ UNCHANGED refreshing
         /\ UNCHANGED store \/ store' = [token |-> 0, refresh |-> 0]
         /\ signedOut' = "clean" =>
              /\ store' = [token |-> 0, refresh |-> 0]
              /\ \A d \in Req \ {c} : call[d].at # "refreshing"
<1>1. CASE call[c].kind = "logout"
  <2>1. TabOf[c] \in Tab /\ ClearAndLeave(TabOf[c], {c}) /\ UNCHANGED refreshing
    BY <1>1, TabFacts DEF CallEnds
  <2> QED
    BY <2>1, ClearAndLeaveEffect
<1>2. CASE call[c].kind # "logout"
  <2>1. call' = [call EXCEPT ![c] = NoCall] /\ UNCHANGED <<page, cached, refreshing, store, signedOut>>
    BY <1>2 DEF CallEnds
  <2>2. TabTypes /\ NoCall \in CallType /\ NoCall.at = "idle"
    BY TabFacts DEF CallType
  <2>3. call \in [Req -> CallType]
    BY <2>2 DEF TabTypes, CallType
  <2>4. Over({c})
    BY <2>1, <2>2, <2>3 DEF Over
  <2>5. LeavesTypes
    BY <2>1, <2>2 DEF LeavesTypes, TabTypes
  <2> QED
    BY <2>1, <2>4, <2>5 DEF Inv, SignedOutClean
<1> QED
  BY <1>1, <1>2

\* After a call that waited for no refresh, the tabs are as they should be.
LEMMA OverKeepsTabs ==
  ASSUME Inv, NEW c \in Req, call[c].at = "sent", CallEnds(c),
         UNCHANGED <<clicks, raced>>,
         \A q \in Req : \/ q = c
                        \/ /\ srv'[q].op = srv[q].op
                           /\ srv[q].at \in Final => srv'[q].at \in Final
  PROVE  TabTypes' /\ CallsShaped' /\ RefreshShared' /\ SignedOutClean'
<1>1. /\ Over({c}) /\ LeavesTypes
      /\ UNCHANGED refreshing
      /\ UNCHANGED store \/ store' = [token |-> 0, refresh |-> 0]
      /\ signedOut' = "clean" =>
           /\ store' = [token |-> 0, refresh |-> 0]
           /\ \A d \in Req \ {c} : call[d].at # "refreshing"
  BY CallEndsEffect
<1>2. TabTypes'
  BY <1>1, TabFacts DEF TabTypes, Over, CallType, LeavesTypes
<1>3. CallsShaped'
  BY <1>1 DEF Inv, CallsShaped, Over
<1>4. RefreshShared'
  BY <1>1 DEF Inv, RefreshShared, Over, Calls
<1>5. SignedOutClean'
  BY <1>1 DEF SignedOutClean, Over
<1> QED
  BY <1>2, <1>3, <1>4, <1>5

\* When one slot is given back, the server's side is as it should be.
LEMMA IdleEffect ==
  ASSUME Inv, NEW c \in Req, srv[c].at \in Final, srv' = [srv EXCEPT ![c] = Idle],
         UNCHANGED <<tokens, blacklist, expired, dead, reused, faults>>
  PROVE  /\ ClientEffect
         /\ srv'[c] = Idle /\ srv'[c].at \in Final /\ srv'[c].op = "api" /\ srv'[c].at = "ok"
         /\ \A q \in Req \ {c} : srv'[q] = srv[q]
<1>1. srv' \in [Req -> RequestType] /\ srv'[c] = Idle /\ \A q \in Req \ {c} : srv'[q] = srv[q]
  BY TabFacts
<1> QED
  BY <1>1, TabFacts DEF ClientEffect, Final

\* A call is answered for good.
LEMMA AnsweredKeepsInv ==
  ASSUME Inv, NEW c \in Req, Answered(c)
  PROVE  Inv'
<1>1. /\ call[c].at = "sent" /\ srv[c].at \in Final /\ CallEnds(c)
      /\ srv' = [srv EXCEPT ![c] = Idle]
      /\ UNCHANGED <<tokens, blacklist, expired, dead, reused, faults, clicks, raced>>
  BY DEF Answered, Final
<1>2. /\ ClientEffect
      /\ srv'[c] = Idle /\ srv'[c].at = "ok" /\ srv'[c].op = "api"
      /\ \A q \in Req \ {c} : srv'[q] = srv[q]
  BY <1>1, IdleEffect
<1>3. /\ Over({c}) /\ UNCHANGED refreshing
      /\ UNCHANGED store \/ store' = [token |-> 0, refresh |-> 0]
  BY <1>1, CallEndsEffect
<1>4. StoreEffect
  BY <1>3 DEF StoreEffect
<1>5. RefreshEffect
  BY <1>1, <1>2, <1>3 DEF Inv, Unraced, RefreshEffect, Over
<1>6. TabTypes' /\ CallsShaped' /\ RefreshShared' /\ SignedOutClean'
  BY <1>1, <1>2, OverKeepsTabs
<1> QED
  BY <1>2, <1>4, <1>5, <1>6, ClientKeepsInv

\* A login stores the pair it was given.
LEMMA LoggedInKeepsInv ==
  ASSUME Inv, NEW c \in Req, LoggedIn(c)
  PROVE  Inv'
<1>1. PICK n : n = srv[c].tok
  OBVIOUS
<1>2. PICK t : t = TabOf[c]
  OBVIOUS
<1>3. /\ call[c].at = "sent" /\ call[c].kind = "login" /\ srv[c].at = "ok"
      /\ store' = [token |-> n, refresh |-> n]
      /\ cached' = [cached EXCEPT ![t] = n]
      /\ page' = [page EXCEPT ![t] = "leaving"]
      /\ call' = [call EXCEPT ![c] = NoCall]
      /\ srv' = [srv EXCEPT ![c] = Idle]
      /\ signedOut' = "no"
      /\ UNCHANGED <<tokens, blacklist, expired, dead, reused, faults, clicks, refreshing, raced>>
  BY <1>1, <1>2 DEF LoggedIn, StorePair
<1>4. TabTypes /\ t \in Tab /\ n \in 0..MaxTokens /\ NoCall \in CallType /\ NoCall.at = "idle"
  BY <1>1, <1>2, TabFacts DEF CallType
<1>5. /\ ClientEffect
      /\ srv'[c] = Idle /\ srv'[c].at = "ok" /\ srv'[c].op = "api"
      /\ \A q \in Req \ {c} : srv'[q] = srv[q]
  BY <1>3, IdleEffect DEF Final
<1>6. StoreEffect
  <2>1. Result(c) /\ ~Result(c)'
    BY <1>3, <1>5 DEF Result, Inv, CallsShaped
  <2> QED
    BY <1>1, <1>3, <2>1 DEF StoreEffect
<1>7. call' \in [Req -> CallType] /\ call'[c].at = "idle" /\ \A d \in Req \ {c} : call'[d] = call[d]
  BY <1>3, <1>4 DEF TabTypes, CallType
<1>8. TabTypes'
  BY <1>3, <1>4, <1>7 DEF TabTypes, CallType
<1>9. CallsShaped' /\ RefreshShared' /\ SignedOutClean'
  BY <1>3, <1>5, <1>7 DEF Inv, CallsShaped, RefreshShared, SignedOutClean, Calls
<1>10. RefreshEffect
  BY <1>3, <1>5, <1>7 DEF Inv, Unraced, RefreshEffect
<1> QED
  BY <1>5, <1>6, <1>8, <1>9, <1>10, ClientKeepsInv

\* A first 401: the page's refresh is shared, there is none to be had, or the
\* call starts it.
LEMMA TryRefreshKeepsInv ==
  ASSUME Inv, NEW c \in Req, TryRefresh(c)
  PROVE  Inv'
<1>1. PICK t : t = TabOf[c]
  OBVIOUS
<1>2. /\ call[c].at = "sent" /\ srv[c].at = "refused" /\ srv[c].at \in Final /\ ~call[c].retry
      /\ UNCHANGED <<tokens, blacklist, expired, dead, reused, faults, clicks>>
  BY DEF TryRefresh, Final
<1>3. TabTypes /\ t \in Tab /\ c # NoReq /\ call[c] \in CallType
  BY <1>1, TabFacts DEF TabTypes, CallType
<1>4. call[c].kind # "login"
  BY <1>2 DEF Inv, CallsShaped, RequestsShaped, Shaped
<1>5. CASE refreshing[t] # NoReq
  <2>1. PICK k : k = [call[c] EXCEPT !.at = "sharing"]
    OBVIOUS
  <2>2. /\ call' = [call EXCEPT ![c] = k]
        /\ srv' = [srv EXCEPT ![c] = Idle]
        /\ UNCHANGED <<page, cached, refreshing, store, raced, signedOut>>
    BY <1>1, <1>5, <2>1 DEF TryRefresh, SharesRefresh
  <2>3. k \in CallType /\ k.at = "sharing" /\ k.kind = call[c].kind
    BY <1>3, <2>1 DEF CallType
  <2>4. call' \in [Req -> CallType] /\ call'[c] = k /\ \A d \in Req \ {c} : call'[d] = call[d]
    BY <1>3, <2>2, <2>3 DEF TabTypes, CallType
  <2>5. /\ ClientEffect
        /\ srv'[c] = Idle /\ srv'[c].at \in Final /\ srv'[c].at = "ok" /\ srv'[c].op = "api"
        /\ \A q \in Req \ {c} : srv'[q] = srv[q]
    BY <1>2, <2>2, IdleEffect
  <2>6. StoreEffect
    BY <2>2 DEF StoreEffect
  <2>7. RefreshEffect
    BY <1>2, <2>2, <2>4, <2>5 DEF Inv, Unraced, RefreshEffect
  <2>8. TabTypes'
    BY <1>2, <1>3, <2>2, <2>4 DEF TabTypes, CallType
  <2>9. CallsShaped' /\ SignedOutClean'
    BY <1>4, <2>2, <2>3, <2>4, <2>5 DEF Inv, CallsShaped, SignedOutClean
  <2>10. RefreshShared'
    BY <1>1, <1>2, <1>5, <2>2, <2>3, <2>4 DEF Inv, RefreshShared, Calls
  <2> QED
    BY <2>5, <2>6, <2>7, <2>8, <2>9, <2>10, ClientKeepsInv
<1>6. CASE refreshing[t] = NoReq /\ store.refresh = 0
  <2>1. /\ ClearAndLeave(t, {c})
        /\ srv' = [srv EXCEPT ![c] = Idle]
        /\ UNCHANGED <<refreshing, raced>>
    BY <1>1, <1>6 DEF TryRefresh, SharesRefresh
  <2>2. /\ Over({c}) /\ LeavesTypes
        /\ store' = [token |-> 0, refresh |-> 0]
        /\ signedOut' = "clean" => \A d \in Req \ {c} : call[d].at # "refreshing"
    BY <1>3, <2>1, ClearAndLeaveEffect
  <2>3. /\ ClientEffect
        /\ srv'[c] = Idle /\ srv'[c].at = "ok" /\ srv'[c].op = "api"
        /\ \A q \in Req \ {c} : srv'[q] = srv[q]
    BY <1>2, <2>1, IdleEffect
  <2>4. StoreEffect
    BY <2>2 DEF StoreEffect
  <2>5. RefreshEffect
    BY <1>2, <2>1, <2>2, <2>3 DEF Inv, Unraced, RefreshEffect, Over
  <2>6. TabTypes'
    BY <1>2, <1>3, <2>1, <2>2 DEF TabTypes, CallType, Over, LeavesTypes
  <2>7. CallsShaped' /\ SignedOutClean'
    BY <2>2, <2>3 DEF Inv, CallsShaped, SignedOutClean, Over
  <2>8. RefreshShared'
    BY <1>2, <2>1, <2>2 DEF Inv, RefreshShared, Calls, Over
  <2> QED
    BY <2>3, <2>4, <2>5, <2>6, <2>7, <2>8, ClientKeepsInv
<1>7. CASE refreshing[t] = NoReq /\ store.refresh # 0
  <2>1. PICK k : k = [call[c] EXCEPT !.at = "refreshing"]
    OBVIOUS
  <2>2. PICK e : e = Request("refresh", "find", store.refresh)
    OBVIOUS
  <2>3. /\ call' = [call EXCEPT ![c] = k]
        /\ refreshing' = [refreshing EXCEPT ![t] = c]
        /\ srv' = [srv EXCEPT ![c] = e]
        /\ raced' = (raced \/ RefreshingElsewhere(t))
        /\ UNCHANGED <<page, cached, store, signedOut>>
    BY <1>1, <1>7, <2>1, <2>2 DEF TryRefresh, SharesRefresh
  <2>4. k \in CallType /\ k.at = "refreshing" /\ k.kind = call[c].kind
    BY <1>3, <2>1 DEF CallType
  <2>5. call' \in [Req -> CallType] /\ call'[c] = k /\ \A d \in Req \ {c} : call'[d] = call[d]
    BY <1>3, <2>3, <2>4 DEF TabTypes, CallType
  <2>6. /\ e \in RequestType /\ e.op = "refresh" /\ e.at = "find" /\ e.tok = store.refresh
    <3>1. store.refresh \in 0..MaxTokens /\ "find" \in At
      BY <1>3 DEF At, TabTypes
    <3> QED
      BY <2>2, <3>1, RequestTyped
  <2>7. /\ srv' \in [Req -> RequestType]
        /\ srv'[c] = e /\ \A q \in Req \ {c} : srv'[q] = srv[q]
    BY <2>3, <2>6, TabFacts
  <2>8. ClientEffect
    BY <1>2, <1>7, <2>6, <2>7, TabFacts DEF ClientEffect, Starts
  <2>9. /\ refreshing' \in [Tab -> Req \cup {NoReq}]
        /\ refreshing'[t] = c /\ \A u \in Tab \ {t} : refreshing'[u] = refreshing[u]
    BY <1>3, <2>3 DEF TabTypes
  <2>10. StoreEffect
    BY <1>3, <2>3, <2>9 DEF StoreEffect
  <2>11. RefreshEffect
    <3>1. raced => raced'
      BY <2>3
    <3>2. ASSUME ~raced'
          PROVE  \A u \in Tab : refreshing[u] = NoReq
      BY <1>7, <2>3, <3>2 DEF RefreshingElsewhere
    <3>3. ASSUME ~raced'
          PROVE  \A q \in Req : srv'[q].op = "refresh" /\ srv'[q].at \notin Final
                                => call'[q].at = "refreshing"
      BY <2>3, <2>4, <2>5, <2>7, <3>3 DEF Inv, Unraced
    <3>4. ASSUME ~raced'
          PROVE  \A u, v \in Tab : refreshing'[u] # NoReq /\ refreshing'[v] # NoReq => u = v
      BY <2>9, <3>2, <3>4
    <3> QED
      BY <3>1, <3>2, <3>3, <3>4 DEF RefreshEffect
  <2>12. TabTypes'
    BY <1>2, <1>3, <2>3, <2>5, <2>9 DEF TabTypes, CallType
  <2>13. CallsShaped'
    BY <1>4, <2>3, <2>4, <2>5, <2>6, <2>7 DEF Inv, CallsShaped
  <2>14. SignedOutClean'
    BY <1>7, <2>3 DEF Inv, SignedOutClean
  <2>15. RefreshShared'
    <3>1. \A d \in Calls(t) : call[d].at \notin {"refreshing", "sharing"}
      BY <1>7 DEF Inv, RefreshShared, Calls
    <3>2. Calls(t)' = Calls(t) /\ c \in Calls(t) /\ \A d \in Req : TabOf[d] \in Tab
      BY <1>1, TabFacts DEF Calls
    <3> QED
      BY <1>1, <1>2, <1>3, <2>4, <2>5, <2>9, <3>1, <3>2 DEF Inv, RefreshShared, Calls
  <2> QED
    BY <2>8, <2>10, <2>11, <2>12, <2>13, <2>14, <2>15, ClientKeepsInv
<1> QED
  BY <1>5, <1>6, <1>7

\* The refresh of a page succeeded: the pair is stored, and every call that
\* waited for it, which is finished for the server, is repeated.
LEMMA RefreshDoneKeepsInv ==
  ASSUME Inv, NEW c \in Req, RefreshDone(c)
  PROVE  Inv'
<1>1. PICK n : n = srv[c].tok
  OBVIOUS
<1>2. PICK t : t = TabOf[c]
  OBVIOUS
<1>3. PICK W : W = Waiting(t)
  OBVIOUS
<1>4. /\ call[c].at = "refreshing" /\ srv[c].at = "ok"
      /\ store' = [token |-> n, refresh |-> n]
      /\ cached' = [cached EXCEPT ![t] = n]
      /\ refreshing' = [refreshing EXCEPT ![t] = NoReq]
      /\ call' = [d \in Req |-> IF d \in W THEN [call[d] EXCEPT !.at = "sent", !.retry = TRUE]
                                ELSE call[d]]
      /\ srv' = [d \in Req |-> IF d \in W THEN Request(call[d].kind, "auth", n) ELSE srv[d]]
      /\ UNCHANGED <<tokens, blacklist, expired, dead, reused, faults, clicks, page, raced, signedOut>>
  BY <1>1, <1>2, <1>3 DEF RefreshDone, StorePair, Resumed
<1>5. /\ TabTypes /\ t \in Tab /\ n \in 0..MaxTokens
      /\ \A d \in Req : call[d] \in CallType
      /\ \A d \in Req : TabOf[d] \in Tab
  BY <1>1, <1>2, TabFacts DEF TabTypes, CallType
<1>6. \A d \in Req : d \in W <=> TabOf[d] = t /\ call[d].at \in {"refreshing", "sharing"}
  BY <1>3 DEF Waiting, Calls
<1>7. c \in W /\ refreshing[t] = c /\ c # NoReq
  BY <1>2, <1>4, <1>6, TabFacts DEF Inv, RefreshShared
<1>8. \A d \in W : d \in Req /\ call[d].kind \in {"api", "logout"} /\ srv[d].at \in Final
  <2> SUFFICES ASSUME NEW d \in W
               PROVE  d \in Req /\ call[d].kind \in {"api", "logout"} /\ srv[d].at \in Final
    OBVIOUS
  <2>1. d \in Req /\ TabOf[d] = t /\ call[d].at \in {"refreshing", "sharing"}
    BY <1>3 DEF Waiting, Calls
  <2>2. call[d].kind \in {"api", "logout"}
    BY <1>5, <2>1 DEF CallType, Inv, CallsShaped
  <2>3. call[d].at = "refreshing" => d = c
    BY <1>7, <2>1 DEF Inv, RefreshShared
  <2>4. srv[d].at \in Final
    BY <1>4, <2>1, <2>3 DEF Inv, CallsShaped, Final
  <2> QED
    BY <2>1, <2>2, <2>4
<1>9. \A d \in W : /\ srv'[d] \in RequestType
                   /\ srv'[d].op = call[d].kind /\ srv'[d].at = "auth"
  <2> SUFFICES ASSUME NEW d \in W
               PROVE  /\ srv'[d] \in RequestType
                      /\ srv'[d].op = call[d].kind /\ srv'[d].at = "auth"
    OBVIOUS
  <2>1. PICK k : k = call[d].kind
    OBVIOUS
  <2>2. srv'[d] = Request(k, "auth", n)
    BY <1>4, <1>8, <2>1
  <2>3. k \in {"api", "logout", "refresh", "login"} /\ "auth" \in At
    BY <1>8, <2>1 DEF At
  <2> QED
    BY <1>5, <2>1, <2>2, <2>3, RequestTyped
<1>10. \A d \in Req \ W : srv'[d] = srv[d]
  BY <1>4
<1>11. srv' \in [Req -> RequestType]
  <2>1. \A d \in Req : srv'[d] \in RequestType
    BY <1>9, <1>10, TabFacts
  <2>2. srv' = [d \in Req |-> srv'[d]]
    BY <1>4
  <2> QED
    BY <2>1, <2>2
<1>12. ClientEffect
  BY <1>4, <1>8, <1>9, <1>10, <1>11, TabFacts DEF ClientEffect, Starts
<1>13. StoreEffect
  <2>1. Result(c) /\ ~Result(c)'
    BY <1>4, <1>7, <1>9 DEF Result, Inv, CallsShaped
  <2> QED
    BY <1>1, <1>4, <2>1 DEF StoreEffect
<1>14. \A d \in W : call'[d] \in CallType /\ call'[d].at = "sent" /\ call'[d].kind = call[d].kind
  <2> SUFFICES ASSUME NEW d \in W
               PROVE  call'[d] \in CallType /\ call'[d].at = "sent" /\ call'[d].kind = call[d].kind
    OBVIOUS
  <2>1. PICK k : k = [call[d] EXCEPT !.at = "sent", !.retry = TRUE]
    OBVIOUS
  <2>2. call'[d] = k
    BY <1>4, <1>8, <2>1
  <2>3. call[d] \in CallType
    BY <1>5, <1>8
  <2>4. k \in CallType /\ k.at = "sent" /\ k.kind = call[d].kind
    BY <2>1, <2>3 DEF CallType
  <2> QED
    BY <2>2, <2>4
<1>15. \A d \in Req \ W : call'[d] = call[d]
  BY <1>4
<1>16. call' \in [Req -> CallType]
  <2>1. \A d \in Req : call'[d] \in CallType
    BY <1>5, <1>14, <1>15
  <2>2. call' = [d \in Req |-> call'[d]]
    BY <1>4
  <2> QED
    BY <2>1, <2>2
<1>17. /\ refreshing' \in [Tab -> Req \cup {NoReq}]
       /\ refreshing'[t] = NoReq /\ \A u \in Tab \ {t} : refreshing'[u] = refreshing[u]
  BY <1>4, <1>5 DEF TabTypes
<1>18. TabTypes'
  <2>1. cached' \in [Tab -> 0..MaxTokens] /\ store' \in [token : 0..MaxTokens, refresh : 0..MaxTokens]
    BY <1>4, <1>5 DEF TabTypes
  <2> QED
    BY <1>4, <1>5, <1>16, <1>17, <2>1 DEF TabTypes, CallType
<1>19. CallsShaped'
  BY <1>8, <1>9, <1>10, <1>14, <1>15 DEF Inv, CallsShaped
<1>20. RefreshShared'
  <2>1. \A d \in Req : call'[d].at \in {"refreshing", "sharing"} =>
          call'[d] = call[d] /\ TabOf[d] # t /\ TabOf[d] \in Tab
    BY <1>5, <1>6, <1>14, <1>15
  <2>2. \A u \in Tab \ {t} : refreshing[u] # NoReq => refreshing[u] \notin W
    BY <1>6 DEF Inv, RefreshShared, Calls
  <2> QED
    BY <1>15, <1>17, <2>1, <2>2 DEF Inv, RefreshShared, Calls
<1>21. SignedOutClean'
  BY <1>4 DEF Inv, SignedOutClean
<1>22. RefreshEffect
  <2>1. \A q \in Req : srv'[q].op = "refresh" /\ srv'[q].at \notin Final =>
          q \notin W /\ srv'[q] = srv[q] /\ call'[q] = call[q]
    BY <1>8, <1>9, <1>10, <1>15
  <2>2. \A q \in Req : srv'[q] # srv[q] => srv'[q].at # "find"
    BY <1>9, <1>10
  <2>3. raced' = raced
    BY <1>4
  <2> QED
    BY <1>17, <2>1, <2>2, <2>3 DEF RefreshEffect, Inv, Unraced
<1> QED
  BY <1>12, <1>13, <1>18, <1>19, <1>20, <1>21, <1>22, ClientKeepsInv

\* A page whose refresh ended badly, or was lost, gives up all its waiting
\* calls; nobody waits for it any more.
LEMMA WaitingOver ==
  ASSUME Inv, NEW c \in Req, call[c].at = "refreshing",
         ClearAndLeave(TabOf[c], Waiting(TabOf[c])),
         refreshing' = [refreshing EXCEPT ![TabOf[c]] = NoReq],
         UNCHANGED clicks, raced' \in BOOLEAN,
         \A q \in Req : srv'[q] = srv[q] \/ q = c
  PROVE  /\ TabTypes' /\ CallsShaped' /\ RefreshShared' /\ SignedOutClean' /\ StoreEffect
         /\ call'[c].at = "idle"
         /\ \A q \in Req : call'[q].at = "idle" \/ call'[q] = call[q]
         /\ refreshing[TabOf[c]] = c
         /\ refreshing'[TabOf[c]] = NoReq
         /\ \A u \in Tab \ {TabOf[c]} : refreshing'[u] = refreshing[u]
<1>1. PICK t : t = TabOf[c]
  OBVIOUS
<1>2. PICK W : W = Waiting(t)
  OBVIOUS
<1>3. TabTypes /\ t \in Tab /\ \A d \in Req : TabOf[d] \in Tab /\ d # NoReq
  BY <1>1, TabFacts
<1>4. /\ Over(W) /\ LeavesTypes
      /\ store' = [token |-> 0, refresh |-> 0]
      /\ signedOut' = "clean" => \A d \in Req \ W : call[d].at # "refreshing"
  BY <1>1, <1>2, <1>3, ClearAndLeaveEffect
<1>5. \A d \in Req : d \in W <=> TabOf[d] = t /\ call[d].at \in {"refreshing", "sharing"}
  BY <1>2 DEF Waiting, Calls
<1>6. /\ \A d \in W : d \in Req /\ call'[d].at = "idle"
      /\ \A d \in Req \ W : call'[d] = call[d]
  BY <1>2, <1>4 DEF Over, Waiting, Calls
<1>7. /\ refreshing' \in [Tab -> Req \cup {NoReq}]
      /\ refreshing'[t] = NoReq /\ \A u \in Tab \ {t} : refreshing'[u] = refreshing[u]
  BY <1>1, <1>3 DEF TabTypes
<1>8. c \in W /\ refreshing[t] = c
  BY <1>1, <1>5 DEF Inv, RefreshShared
<1>9. StoreEffect
  BY <1>4 DEF StoreEffect
<1>10. TabTypes'
  BY <1>3, <1>4, <1>7 DEF TabTypes, LeavesTypes, Over, CallType
<1>11. CallsShaped'
  BY <1>6, <1>8 DEF Inv, CallsShaped
<1>12. RefreshShared'
  <2>1. \A d \in Req : call'[d].at \in {"refreshing", "sharing"} =>
          call'[d] = call[d] /\ TabOf[d] # t /\ TabOf[d] \in Tab
    BY <1>3, <1>5, <1>6
  <2>2. \A u \in Tab \ {t} : refreshing[u] # NoReq => refreshing[u] \notin W
    BY <1>5 DEF Inv, RefreshShared, Calls
  <2> QED
    BY <1>6, <1>7, <2>1, <2>2 DEF Inv, RefreshShared, Calls
<1>13. SignedOutClean'
  BY <1>4, <1>6 DEF SignedOutClean
<1> QED
  BY <1>1, <1>6, <1>7, <1>8, <1>9, <1>10, <1>11, <1>12, <1>13

\* The refresh is refused or fails: the page signs out.
LEMMA RefreshFailedKeepsInv ==
  ASSUME Inv, NEW c \in Req, RefreshFailed(c)
  PROVE  Inv'
<1>1. /\ call[c].at = "refreshing" /\ srv[c].at \in Final
      /\ ClearAndLeave(TabOf[c], Waiting(TabOf[c]))
      /\ refreshing' = [refreshing EXCEPT ![TabOf[c]] = NoReq]
      /\ srv' = [srv EXCEPT ![c] = Idle]
      /\ UNCHANGED <<tokens, blacklist, expired, dead, reused, faults, clicks, raced>>
  BY DEF RefreshFailed, Resumed, Final
<1>2. /\ ClientEffect
      /\ srv'[c] = Idle /\ srv'[c].at = "ok" /\ srv'[c].op = "api"
      /\ \A q \in Req \ {c} : srv'[q] = srv[q]
  BY <1>1, IdleEffect
<1>3. raced' \in BOOLEAN /\ TabOf[c] \in Tab
  BY <1>1, TabFacts DEF TabTypes
<1>4. \A q \in Req : srv'[q] = srv[q] \/ q = c
  BY <1>2
<1>5. /\ TabTypes' /\ CallsShaped' /\ RefreshShared' /\ SignedOutClean' /\ StoreEffect
      /\ call'[c].at = "idle"
      /\ \A q \in Req : call'[q].at = "idle" \/ call'[q] = call[q]
      /\ refreshing[TabOf[c]] = c
      /\ refreshing'[TabOf[c]] = NoReq
      /\ \A u \in Tab \ {TabOf[c]} : refreshing'[u] = refreshing[u]
  BY <1>1, <1>3, <1>4, WaitingOver
<1>6. RefreshEffect
  <2>1. raced' = raced /\ c # NoReq
    BY <1>1, TabFacts
  <2>2. \A q \in Req : srv'[q] # srv[q] => srv'[q].at # "find"
    BY <1>2
  <2>3. ~raced => \A u \in Tab : refreshing'[u] = NoReq
    BY <1>3, <1>5, <2>1 DEF Inv, Unraced
  <2>4. ~raced => \A q \in Req : srv'[q].op = "refresh" /\ srv'[q].at \notin Final => FALSE
    <3> SUFFICES ASSUME ~raced, NEW q \in Req, srv'[q].op = "refresh", srv'[q].at \notin Final
                 PROVE  FALSE
      OBVIOUS
    <3>1. q # c /\ srv'[q] = srv[q]
      BY <1>2
    <3>2. call[q].at = "refreshing" /\ refreshing[TabOf[q]] = q /\ q # NoReq /\ TabOf[q] \in Tab
      BY <3>1, TabFacts DEF Inv, Unraced, RefreshShared
    <3> QED
      BY <1>3, <1>5, <2>1, <3>1, <3>2 DEF Inv, Unraced
  <2> QED
    BY <2>1, <2>2, <2>3, <2>4 DEF RefreshEffect
<1> QED
  BY <1>2, <1>5, <1>6, ClientKeepsInv

\* The network loses an answer; a lost refresh counts as raced.
LEMMA AnswerLostKeepsInv ==
  ASSUME Inv, NEW c \in Req, AnswerLost(c)
  PROVE  Inv'
<1>1. faults' \in 0..MaxFaults
  BY TabFacts, SessionsAssumption DEF AnswerLost
<1>2. UNCHANGED <<tokens, blacklist, expired, srv, dead, reused, clicks>>
  BY DEF AnswerLost
<1>3. ClientEffect
  BY <1>1, <1>2, TabFacts DEF ClientEffect
<1>4. CASE call[c].at = "sent" /\ CallEnds(c) /\ UNCHANGED raced
  <2>1. TabTypes' /\ CallsShaped' /\ RefreshShared' /\ SignedOutClean'
    BY <1>2, <1>4, OverKeepsTabs
  <2>2. /\ Over({c}) /\ UNCHANGED refreshing
        /\ UNCHANGED store \/ store' = [token |-> 0, refresh |-> 0]
    BY <1>4, CallEndsEffect
  <2>3. StoreEffect
    BY <2>2 DEF StoreEffect
  <2>4. ~raced => \A q \in Req : srv[q].op = "refresh" /\ srv[q].at \notin Final => q # c
    BY <1>4 DEF Inv, Unraced
  <2>5. RefreshEffect
    BY <1>2, <1>4, <2>2, <2>4 DEF Inv, Unraced, RefreshEffect, Over
  <2> QED
    BY <1>3, <2>1, <2>3, <2>5, ClientKeepsInv
<1>5. CASE /\ call[c].at = "refreshing"
           /\ ClearAndLeave(TabOf[c], Waiting(TabOf[c]))
           /\ refreshing' = [refreshing EXCEPT ![TabOf[c]] = NoReq]
           /\ raced' = TRUE
  <2>1. TabTypes' /\ CallsShaped' /\ RefreshShared' /\ SignedOutClean' /\ StoreEffect
    BY <1>2, <1>5, WaitingOver
  <2>2. RefreshEffect
    BY <1>5 DEF RefreshEffect
  <2> QED
    BY <1>3, <2>1, <2>2, ClientKeepsInv
<1> QED
  BY <1>4, <1>5 DEF AnswerLost, Resumed

\* A page is loaded: nobody hears its old calls.
LEMMA LoadKeepsInv ==
  ASSUME Inv, NEW t \in Tab, Load(t)
  PROVE  Inv'
<1>1. /\ page' = [page EXCEPT ![t] = IF store.token = 0 THEN "login" ELSE "app"]
      /\ cached' = [cached EXCEPT ![t] = 0]
      /\ refreshing' = [refreshing EXCEPT ![t] = NoReq]
      /\ call' = [c \in Req |-> IF TabOf[c] = t THEN NoCall ELSE call[c]]
      /\ raced' = (raced \/ refreshing[t] # NoReq)
      /\ UNCHANGED <<sessionVars, store, signedOut>>
  BY DEF Load
<1>2. clicks' \in 0..MaxClicks
  BY TabFacts, BrowserAssumption DEF Load, Click, TabTypes
<1>3. TabTypes /\ NoCall \in CallType /\ NoCall.at = "idle" /\ 0 \in 0..MaxTokens
  BY TabFacts DEF CallType
<1>4. call' \in [Req -> CallType]
  BY <1>1, <1>3 DEF TabTypes, CallType
<1>5. \A c \in Req : IF TabOf[c] = t THEN call'[c].at = "idle" ELSE call'[c] = call[c]
  BY <1>1, <1>3
<1>6. /\ refreshing' \in [Tab -> Req \cup {NoReq}]
      /\ refreshing'[t] = NoReq /\ \A u \in Tab \ {t} : refreshing'[u] = refreshing[u]
  BY <1>1, <1>3 DEF TabTypes
<1>7. TabTypes'
  BY <1>1, <1>2, <1>3, <1>4, <1>6 DEF TabTypes, CallType
<1>8. ClientEffect
  BY <1>1, TabFacts DEF ClientEffect, sessionVars
<1>9. StoreEffect
  BY <1>1, <1>6 DEF StoreEffect
<1>10. CallsShaped'
  BY <1>1, <1>5 DEF Inv, CallsShaped, sessionVars
<1>11. RefreshShared'
  <2>1. \A c \in Req : TabOf[c] \in Tab
    BY TabFacts
  <2>2. \A u \in Tab : \A c \in Calls(u) : c \in Req /\ TabOf[c] = u
    BY DEF Calls
  <2>3. \A u \in Tab \ {t} : refreshing[u] # NoReq =>
          refreshing[u] \in Calls(u) /\ call'[refreshing[u]].at = "refreshing"
    BY <1>5, <2>2 DEF Inv, RefreshShared
  <2> QED
    BY <1>5, <1>6, <2>1, <2>3 DEF Inv, RefreshShared, Calls
<1>12. SignedOutClean'
  BY <1>1, <1>5 DEF Inv, SignedOutClean
<1>13. RefreshEffect
  <2>1. raced => raced'
    BY <1>1
  <2>2. srv' = srv
    BY <1>1 DEF sessionVars
  <2>3. ASSUME ~raced'
        PROVE  /\ ~raced /\ \A u \in Tab : refreshing'[u] = refreshing[u]
               /\ \A q \in Req : call[q].at = "refreshing" => call'[q] = call[q]
    <3>1. ~raced /\ refreshing[t] = NoReq
      BY <1>1, <2>3
    <3>2. \A q \in Req : call[q].at = "refreshing" => TabOf[q] # t
      BY <3>1, TabFacts DEF Inv, RefreshShared
    <3> QED
      BY <1>5, <1>6, <3>1, <3>2
  <2> QED
    BY <2>1, <2>2, <2>3 DEF RefreshEffect, Inv, Unraced
<1> QED
  BY <1>7, <1>8, <1>9, <1>10, <1>11, <1>12, <1>13, ClientKeepsInv

-----------------------------------------------------------------------------
(***************************************************************************)
(* The invariant holds, and what follows from it.                          *)
(***************************************************************************)

\* At first nobody is logged in and nothing is asked.
LEMMA InitInv ==
  ASSUME Init
  PROVE  Inv
<1> USE SessionsAssumption, BrowserAssumption DEF Init, SessionsInit
<1>1. tokens \in Seq(TokenRow) /\ Len(tokens) = 0 /\ Pair = {} /\ Families = {}
  BY EmptySeq DEF Pair, Families
<1>2. /\ Idle \in RequestType /\ Idle.op = "api" /\ Idle.at = "ok"
      /\ NoCall \in CallType /\ NoCall.at = "idle"
  BY RequestTyped DEF Idle, At, Final, NoCall, CallType
<1>3. \A r \in Req : srv[r].op = "api" /\ srv[r].at = "ok" /\ call[r].at = "idle"
  BY <1>2
<1>4. TypeOK
  <2>1. srv \in [Req -> RequestType] /\ call \in [Req -> CallType]
    BY <1>2
  <2>2. 0 \in 0..MaxTokens /\ 0 \in 0..MaxFaults /\ 0 \in 0..MaxClicks /\ 0 <= MaxTokens
    OBVIOUS
  <2>3. store \in [token : 0..MaxTokens, refresh : 0..MaxTokens]
    BY <2>2
  <2>4. SessionsTypeOK
    BY <1>1, <2>1, <2>2 DEF SessionsTypeOK, TokenRow
  <2> QED
    BY <2>1, <2>2, <2>3, <2>4 DEF TypeOK, CallType
<1>5. RequestsShaped /\ FamiliesOlder /\ StoreKnown /\ CallsShaped
  BY <1>1, <1>3 DEF RequestsShaped, Shaped, Result, FamiliesOlder, StoreKnown, CallsShaped
<1>6. RefreshShared /\ SignedOutClean
  BY <1>3 DEF RefreshShared, SignedOutClean
<1>7. OneHolder /\ ResultsDistinct
  BY <1>1, <1>3 DEF OneHolder, Creating, ResultsDistinct, Result
<1>8. Unraced
  BY <1>3 DEF Unraced, Result, Final
<1> QED
  BY <1>4, <1>5, <1>6, <1>7, <1>8 DEF Inv

\* Every step of the browser and of the server keeps the invariant.
LEMMA NextInv ==
  ASSUME Inv, [Next]_vars
  PROVE  Inv'
<1>1. ASSUME NEW c \in Req, NEW kind \in {"api", "logout"}, Send(c, kind)
      PROVE  Inv'
  BY <1>1, SendKeepsInv
<1>2. ASSUME NEW c \in Req, \/ SendLogin(c) \/ Answered(c) \/ LoggedIn(c) \/ TryRefresh(c)
                            \/ RefreshDone(c) \/ RefreshFailed(c) \/ AnswerLost(c)
      PROVE  Inv'
  BY <1>2, SendLoginKeepsInv, AnsweredKeepsInv, LoggedInKeepsInv, TryRefreshKeepsInv,
     RefreshDoneKeepsInv, RefreshFailedKeepsInv, AnswerLostKeepsInv
<1>3. ASSUME NEW c \in Req, Server(c)
      PROVE  Inv'
  BY <1>3, QuietActions, LogoutRevokeKeepsInv, RefreshReuseKeepsInv, RefreshRotateKeepsInv,
     GenerateTokenPairKeepsInv DEF Server, ServerStep
<1>4. ASSUME NEW t \in Tab, Load(t)
      PROVE  Inv'
  BY <1>4, LoadKeepsInv
<1>5. CASE Expire
  BY <1>5, ExpireKeepsInv
<1>6. CASE UNCHANGED vars
  <2>1. UNCHANGED <<tokens, blacklist, expired, srv, dead, reused, faults, page, cached,
                    refreshing, store, call, clicks, raced, signedOut>>
    BY <1>6 DEF vars, sessionVars, tabVars
  <2>2. TypeOK'
    BY <2>1 DEF Inv, TypeOK, SessionsTypeOK, Pair, Families
  <2>3. /\ RequestsShaped' /\ FamiliesOlder' /\ StoreKnown' /\ CallsShaped'
        /\ RefreshShared' /\ SignedOutClean'
    BY <2>1 DEF Inv, RequestsShaped, Shaped, Result, FamiliesOlder, StoreKnown, CallsShaped,
                RefreshShared, SignedOutClean, Pair, Calls
  <2>4. OneHolder' /\ ResultsDistinct'
    BY <2>1 DEF Inv, OneHolder, Valid, Creating, Family, Live, ResultsDistinct, Result, Pair
  <2>5. (~raced => Unraced)'
    BY <2>1 DEF Inv, Unraced, Good, Live, Result, Pair
  <2> QED
    BY <2>2, <2>3, <2>4, <2>5 DEF Inv
<1> QED
  BY <1>1, <1>2, <1>3, <1>4, <1>5, <1>6 DEF Next

\* The invariant holds in every state, whatever the numbers of tabs, requests,
\* tokens, clicks and faults.
THEOREM Invariance == Spec => []Inv
<1>1. Init => Inv
  BY InitInv
<1>2. Inv /\ [Next]_vars => Inv'
  BY NextInv
<1> QED
  BY <1>1, <1>2, PTL DEF Spec

\* Every variable of the tabs and of the server keeps its type.
THEOREM TypeCorrect == Spec => []TypeOK
<1>1. Inv => TypeOK
  BY DEF Inv
<1> QED
  BY <1>1, Invariance, PTL

\* What counts in OneLiveToken is the tokens that OneHolder speaks of: at most
\* one per family, and none of a dead one.
LEMMA OneHolderGivesOneLiveToken ==
  ASSUME Inv
  PROVE  OneLiveToken
<1> SUFFICES ASSUME NEW f \in Families
             PROVE  Cardinality({t \in Members(f) \cap Live : ~tokens[t].late})
                      <= IF f \in dead THEN 0 ELSE 1
  BY DEF OneLiveToken
<1>1. PICK V : V = {t \in Members(f) \cap Live : ~tokens[t].late}
  OBVIOUS
<1>2. \A t \in V : t \in Pair /\ Valid(t) /\ tokens[t].family = f
  BY <1>1 DEF Members, Live, Valid
<1>3. CASE V = {}
  BY <1>1, <1>3, FS_EmptySet
<1>4. CASE V # {}
  <2>1. PICK t : t \in V
    BY <1>4
  <2>2. V = {t}
    BY <1>2, <2>1 DEF Inv, OneHolder
  <2>3. f \notin dead
    BY <1>2, <2>1 DEF Inv, OneHolder
  <2>4. Cardinality(V) = 1
    BY <2>2, FS_Singleton
  <2> QED
    BY <1>1, <2>3, <2>4
<1> QED
  BY <1>3, <1>4

\* A family of refresh tokens never has two valid tokens, and a revoked one has
\* none, but for the tokens of refreshes that were overtaken between the check
\* and the writes of refreshTokens (auth.service.ts:108-128).
THEOREM OneLiveTokenCorrect == Spec => []OneLiveToken
<1>1. Inv => OneLiveToken
  BY OneHolderGivesOneLiveToken
<1> QED
  BY <1>1, Invariance, PTL

\* No page makes the server revoke a living family by itself: only two tabs
\* that refresh at once, or a page left or cut off while it refreshes, can
\* (api.js:31-61, auth.service.ts:108-118).
THEOREM NoReuseByAccidentCorrect == Spec => []NoReuseByAccident
<1>1. Inv => NoReuseByAccident
  BY DEF Inv, Unraced, NoReuseByAccident, TypeOK
<1> QED
  BY <1>1, Invariance, PTL

\* Cleared tokens stay cleared until the next login, when no refresh or login
\* was in progress (api.js:22-29, auth.js).
THEOREM LogoutSticksCorrect == Spec => []LogoutSticks
<1>1. Inv => LogoutSticks
  BY DEF Inv, SignedOutClean, LogoutSticks
<1> QED
  BY <1>1, Invariance, PTL

\* Every call that waits for a refresh waits for one that is in progress
\* (api.js:48-61).
THEOREM SharedRefreshIsRunningCorrect == Spec => []SharedRefreshIsRunning
<1>1. Inv => SharedRefreshIsRunning
  <2> SUFFICES ASSUME Inv, NEW t \in Tab, NEW d \in Waiting(t)
               PROVE  refreshing[t] \in Waiting(t) /\ call[refreshing[t]].at = "refreshing"
    BY DEF SharedRefreshIsRunning
  <2>1. d \in Req /\ TabOf[d] = t /\ call[d].at \in {"refreshing", "sharing"}
    BY DEF Waiting, Calls
  <2>2. refreshing[t] \in Calls(t) /\ call[refreshing[t]].at = "refreshing"
    BY <2>1 DEF Inv, RefreshShared
  <2> QED
    BY <2>2 DEF Waiting
<1> QED
  BY <1>1, Invariance, PTL
=============================================================================
