------------------------------ MODULE Sessions ------------------------------
(***************************************************************************)
(* Refresh-token families, the access-token blacklist and the requests     *)
(* that use them: src/src/services/auth.service.ts and                     *)
(* src/src/middleware/auth.ts, for the sessions of one user.               *)
(*                                                                         *)
(* A token pair is a number, in the order of creation: pair n is the       *)
(* access token n and the refresh token n.  Each Prisma or Redis call of a *)
(* handler is a step; several requests are in progress at once.            *)
(***************************************************************************)
EXTENDS Naturals, Sequences, FiniteSets

CONSTANTS Req,        \* the request slots
          MaxTokens,  \* bound: token pairs ever created
          MaxFaults   \* bound: failed database or Redis calls, lost answers

ASSUME SessionsAssumption == MaxTokens \in Nat /\ MaxFaults \in Nat

VARIABLES tokens,     \* the refresh_tokens table: family, revokedAt # null
          blacklist,  \* access tokens with a blacklist: key in Redis
          expired,    \* access tokens past JWT_EXPIRES_IN
          srv,        \* per request: operation, next step, token, see below
          dead,       \* history: families revoked as a whole
          reused,     \* history: a living family was revoked for a reuse
          faults      \* faults so far

sessionVars == <<tokens, blacklist, expired, srv, dead, reused, faults>>

Final == {"ok", "refused", "failed"}

\* tok is the token presented, and after "ok" of a login or refresh the one
\* returned.  late (history): what the request read about its family was
\* changed by another request before this one acted on it.
Request(op, at, tok) == [op |-> op, at |-> at, tok |-> tok, late |-> FALSE]
Idle == Request("api", "ok", 0)
Advance(r, at) == srv' = [srv EXCEPT ![r].at = at]

Pair == 1..Len(tokens)

\* Mutant of RevokeWhere: updateMany forgets the rows it should change.
RevokeNothing(S) == tokens

\* Mutant of RevokeWhere: the rows are deleted.
DeleteWhere(S) == [t \in Pair \ S |-> tokens[t]]

RevokeWhere(S) ==
  [t \in Pair |-> IF t \in S THEN [tokens[t] EXCEPT !.revoked = TRUE] ELSE tokens[t]]

Members(f) == {t \in Pair : tokens[t].family = f}
Live == {t \in Pair : ~tokens[t].revoked}
Families == {tokens[t].family : t \in Pair}

\* Requests that found a token of F valid and have not finished rotating it.
Rotating(F) ==
  {r \in Req : /\ srv[r].op = "refresh"
               /\ srv[r].at \in {"rotate", "create"}
               /\ tokens[srv[r].tok].family \in F}
MarkLate(R, s) == [q \in Req |-> IF q \in R THEN [s[q] EXCEPT !.late = TRUE] ELSE s[q]]

Accepted(a) == a \in Pair \ (expired \cup blacklist)

\* authenticate: the signature, the expiry, then the blacklist.
Authenticate(r) ==
  /\ srv[r].at = "auth"
  /\ Advance(r, IF ~Accepted(srv[r].tok) THEN "refused"
                ELSE IF srv[r].op = "logout" THEN "blacklist" ELSE "ok")
  /\ UNCHANGED <<tokens, blacklist, expired, dead, reused, faults>>

\* logout, first call: the presented access token is refused from now on.
LogoutBlacklist(r) ==
  /\ srv[r].at = "blacklist"
  /\ blacklist' = blacklist \cup {srv[r].tok}
  /\ Advance(r, "revoke")
  /\ UNCHANGED <<tokens, expired, dead, reused, faults>>

\* logout, second call: every refresh token of the user.
LogoutRevoke(r) ==
  /\ srv[r].at = "revoke"
  /\ tokens' = RevokeWhere(Live)
  /\ dead' = dead \cup Families
  /\ srv' = MarkLate(Rotating(Families), [srv EXCEPT ![r].at = "ok"])
  /\ UNCHANGED <<blacklist, expired, reused, faults>>

\* refreshTokens: findUnique decides between rotation and reuse.
RefreshFind(r) ==
  /\ srv[r].at = "find"
  /\ Advance(r, IF srv[r].tok \in Live THEN "rotate" ELSE "reuse")
  /\ UNCHANGED <<tokens, blacklist, expired, dead, reused, faults>>

RefreshReuse(r) ==
  LET f == tokens[srv[r].tok].family IN
  /\ srv[r].at = "reuse"
  /\ tokens' = RevokeWhere(Members(f))
  /\ dead' = dead \cup {f}
  /\ reused' = (reused \/ f \notin dead)
  /\ srv' = MarkLate(Rotating({f}), [srv EXCEPT ![r].at = "refused"])
  /\ UNCHANGED <<blacklist, expired, faults>>

RefreshRotate(r) ==
  /\ srv[r].at = "rotate"
  /\ tokens' = RevokeWhere({srv[r].tok})
  /\ srv' = MarkLate({q \in Req \ {r} : srv[q].at = "rotate" /\ srv[q].tok = srv[r].tok},
                     [srv EXCEPT ![r].at = "create"])
  /\ UNCHANGED <<blacklist, expired, dead, reused, faults>>

\* generateTokenPair: a refresh stays in its family, a login starts one.
NewPair(r) ==
  IF srv[r].op = "login"
  THEN [family |-> Len(tokens) + 1, revoked |-> FALSE, late |-> FALSE]
  ELSE [family |-> tokens[srv[r].tok].family, revoked |-> FALSE,
        late |-> srv[r].late \/ tokens[srv[r].tok].late]

GenerateTokenPair(r) ==
  /\ srv[r].at = "create"
  /\ Len(tokens) < MaxTokens
  /\ tokens' = Append(tokens, NewPair(r))
  /\ srv' = [srv EXCEPT ![r].at = IF srv[r].op = "login" THEN "session" ELSE "ok",
                        ![r].tok = Len(tokens) + 1]
  /\ UNCHANGED <<blacklist, expired, dead, reused, faults>>

\* login writes a sessions row, which nothing reads, before it answers.
CreateSession(r) ==
  /\ srv[r].at = "session"
  /\ Advance(r, "ok")
  /\ UNCHANGED <<tokens, blacklist, expired, dead, reused, faults>>

\* A database or Redis call rejects.  authenticate turns every error into a
\* 401; the other handlers end in a 500 with what they had already written.
CallFails(r) ==
  /\ srv[r].at \notin Final
  /\ faults < MaxFaults
  /\ faults' = faults + 1
  /\ Advance(r, IF srv[r].at = "auth" THEN "refused" ELSE "failed")
  /\ UNCHANGED <<tokens, blacklist, expired, dead, reused>>

\* Fifteen minutes pass for an access token.
ExpireAccess(a) ==
  /\ a \in Pair \ expired
  /\ expired' = expired \cup {a}
  /\ UNCHANGED <<tokens, blacklist, srv, dead, reused, faults>>

ServerStep(r) ==
  \/ Authenticate(r)
  \/ LogoutBlacklist(r)
  \/ LogoutRevoke(r)
  \/ RefreshFind(r)
  \/ RefreshReuse(r)
  \/ RefreshRotate(r)
  \/ GenerateTokenPair(r)
  \/ CreateSession(r)
  \/ CallFails(r)

SessionsInit ==
  /\ tokens = <<>>
  /\ blacklist = {}
  /\ expired = {}
  /\ srv = [r \in Req |-> Idle]
  /\ dead = {}
  /\ reused = FALSE
  /\ faults = 0

-----------------------------------------------------------------------------
RequestType ==
  [op : {"api", "logout", "refresh", "login"},
   at : Final \cup {"auth", "blacklist", "revoke", "find", "reuse", "rotate",
                    "create", "session"},
   tok : 0..MaxTokens, late : BOOLEAN]

SessionsTypeOK ==
  /\ tokens \in Seq([family : 1..MaxTokens, revoked : BOOLEAN, late : BOOLEAN])
  /\ Len(tokens) <= MaxTokens
  /\ blacklist \subseteq Pair
  /\ expired \subseteq Pair
  /\ srv \in [Req -> RequestType]
  /\ dead \subseteq Families
  /\ reused \in BOOLEAN
  /\ faults \in 0..MaxFaults

\* A family has at most one valid refresh token, and none once a logout or a
\* detected reuse revoked it, except for tokens of refreshes that had found
\* their token valid before another request rotated or revoked it: the check
\* and the writes of refreshTokens are not one transaction
\* (auth.service.ts:108-128).
OneLiveToken ==
  \A f \in Families :
    Cardinality({t \in Members(f) \cap Live : ~tokens[t].late})
      <= IF f \in dead THEN 0 ELSE 1
=============================================================================
