---------------------------- MODULE AccountsProofs ----------------------------
(* Proofs of the safety properties of Accounts, for any constants.            *)
EXTENDS Accounts, SequenceTheorems, FiniteSetTheorems, TLAPS

(***************************************************************************)
(* The inductive invariant.                                                *)
(***************************************************************************)

RequestSet == [at : Steps, pass : 0..MaxPasswords, tok : Nat, seen : Nat]
Token == [used : BOOLEAN, writes : Nat]

\* A request presents a reset token only while it resets, and one there is.
TokensKnown ==
  \A r \in Req :
    /\ req[r].at \in {"reset", "write", "mark"} => req[r].tok \in 0..Len(resets)
    /\ req[r].at \in {"reset", "mark"} => req[r].tok # 0
    /\ req[r].at = "change" => req[r].tok = 0

\* Requests that will count a wrong password and not lock the account.
Counting == {r \in Req : req[r].at = "count" /\ ~WillLock(req[r].seen)}

\* While nothing locked the account, the requests that will still count are
\* part of the bound: each read a count below the limit.
CountBound ==
  lock = "null" => failed + Cardinality(Counting) <= (MaxFailed - 1) + (Cardinality(Req) - 1)

\* The requests about to write a password for a token, or to mark it used.
Writing(t) == {r \in Req : req[r].at = "write" /\ req[r].tok = t}
Marking(t) == {r \in Req : req[r].at = "mark" /\ req[r].tok = t}

\* Each write of an unused token has its mark still to come, or a failed one;
\* a used token has no writes left but those of the requests that had found it.
WriteBound ==
  \A t \in DOMAIN resets :
    /\ ~resets[t].used => resets[t].writes <= Cardinality(Marking(t)) + faults
    /\ resets[t].used =>
         resets[t].writes + Cardinality(Writing(t)) <= Cardinality(Req) + faults

Inv == TypeOK /\ TokensKnown /\ CountBound /\ WriteBound

(***************************************************************************)
(* Requests, and how many of them there are.                               *)
(***************************************************************************)

\* Two sets of requests that differ in one request at most.
LEMMA Counts ==
  ASSUME NEW S, S \subseteq Req, NEW T, T \subseteq Req, NEW r \in Req, S \ {r} = T \ {r}
  PROVE  /\ Cardinality(S) \in Nat /\ Cardinality(T) \in Nat /\ Cardinality(Req) \in Nat
         /\ Cardinality(T) <= Cardinality(Req)
         /\ r \notin T => Cardinality(T) <= Cardinality(Req) - 1
         /\ r \in T /\ r \notin S => Cardinality(T) = Cardinality(S) + 1
         /\ r \in S /\ r \notin T => Cardinality(T) = Cardinality(S) - 1
         /\ (r \in S <=> r \in T) => Cardinality(T) = Cardinality(S)
<1>1. IsFiniteSet(Req) /\ IsFiniteSet(S) /\ IsFiniteSet(T)
  BY AccountsAssumption, FS_Subset
<1>2. /\ Cardinality(S) \in Nat /\ Cardinality(T) \in Nat /\ Cardinality(Req) \in Nat
      /\ Cardinality(T) <= Cardinality(Req)
  BY <1>1, FS_CardinalityType, FS_Subset
<1>3. r \notin T => Cardinality(T) <= Cardinality(Req) - 1
  <2> SUFFICES ASSUME r \notin T PROVE Cardinality(T) <= Cardinality(Req) - 1
    OBVIOUS
  <2>1. T \subseteq Req \ {r} /\ IsFiniteSet(Req \ {r})
        /\ Cardinality(Req \ {r}) = Cardinality(Req) - 1
    BY <1>1, FS_RemoveElement
  <2> QED BY <2>1, FS_Subset
<1>4. /\ Cardinality(S \ {r}) = IF r \in S THEN Cardinality(S) - 1 ELSE Cardinality(S)
      /\ Cardinality(T \ {r}) = IF r \in T THEN Cardinality(T) - 1 ELSE Cardinality(T)
  BY <1>1, FS_RemoveElement
<1>5. Cardinality(S \ {r}) = Cardinality(T \ {r})
  OBVIOUS
<1>6. /\ r \in T /\ r \notin S => Cardinality(T) = Cardinality(S) + 1
      /\ r \in S /\ r \notin T => Cardinality(T) = Cardinality(S) - 1
  BY <1>2, <1>4, <1>5
<1>7. ASSUME r \in S <=> r \in T PROVE Cardinality(T) = Cardinality(S)
  BY <1>7
<1> QED BY <1>2, <1>3, <1>6, <1>7

OnlyMoves(r) == \A q \in Req : q # r => req'[q] = req[q]

\* A step of one request changes the counts by that request.
LEMMA CountMoves ==
  ASSUME TypeOK, NEW r \in Req, OnlyMoves(r), NEW t
  PROVE  /\ Counting \subseteq Req /\ Counting' \subseteq Req
         /\ Counting \ {r} = Counting' \ {r}
         /\ Writing(t) \subseteq Req /\ Writing(t)' \subseteq Req
         /\ Writing(t) \ {r} = Writing(t)' \ {r}
         /\ Marking(t) \subseteq Req /\ Marking(t)' \subseteq Req
         /\ Marking(t) \ {r} = Marking(t)' \ {r}
  BY DEF OnlyMoves, Counting, Writing, Marking

\* A request that moves on keeps what it presented and read.
LEMMA GotoFacts ==
  ASSUME TypeOK, NEW r \in Req, NEW at \in Steps, Goto(r, at)
  PROVE  /\ req' \in [Req -> RequestSet] /\ OnlyMoves(r)
         /\ req'[r].at = at /\ req'[r].tok = req[r].tok /\ req'[r].seen = req[r].seen
<1>1. req[r] \in RequestSet /\ req \in [Req -> RequestSet]
  BY DEF TypeOK, RequestSet
<1>2. [req[r] EXCEPT !.at = at] \in RequestSet
  BY <1>1 DEF RequestSet
<1>3. req' = [req EXCEPT ![r] = [req[r] EXCEPT !.at = at]]
  BY <1>1 DEF Goto
<1>4. req' \in [Req -> RequestSet] /\ req'[r] = [req[r] EXCEPT !.at = at]
  BY <1>1, <1>2, <1>3
<1> QED BY <1>1, <1>3, <1>4 DEF OnlyMoves, RequestSet

\* A request arrives on a free slot.
LEMMA ArriveFacts ==
  ASSUME TypeOK, NEW r \in Req, NEW at \in Steps, NEW pass \in 0..MaxPasswords, NEW tok \in Nat,
         Arrive(r, at, pass, tok)
  PROVE  /\ req' \in [Req -> RequestSet] /\ OnlyMoves(r)
         /\ req[r].at = "done" /\ req'[r].at = at /\ req'[r].tok = tok
         /\ UNCHANGED account
<1> DEFINE new == [at |-> at, pass |-> pass, tok |-> tok, seen |-> 0]
<1>1. new \in RequestSet /\ req \in [Req -> RequestSet]
  BY DEF TypeOK, RequestSet
<1>2. req' = [req EXCEPT ![r] = new] /\ req[r].at = "done" /\ UNCHANGED account
  BY DEF Arrive
<1>3. req' \in [Req -> RequestSet] /\ req'[r] = new
  BY <1>1, <1>2
<1> QED BY <1>1, <1>2, <1>3 DEF OnlyMoves

\* The same of a login, which also remembers the count.
LEMMA LoginFindFacts ==
  ASSUME TypeOK, NEW r \in Req, LoginFind(r)
  PROVE  /\ req' \in [Req -> RequestSet] /\ OnlyMoves(r)
         /\ req[r].at = "login" /\ req'[r].at \in {"done", "clear", "count"}
         /\ req'[r].tok = req[r].tok /\ req'[r].seen = failed
         /\ UNCHANGED account
<1>1. req[r] \in RequestSet /\ req \in [Req -> RequestSet] /\ failed \in Nat
  BY DEF TypeOK, RequestSet
<1>2. PICK at \in {"done", "clear", "count"} :
        req' = [req EXCEPT ![r].at = at, ![r].seen = failed]
  BY DEF LoginFind
<1>3. req' = [req EXCEPT ![r] = [req[r] EXCEPT !.at = at, !.seen = failed]]
  BY <1>1, <1>2
<1>4. [req[r] EXCEPT !.at = at, !.seen = failed] \in RequestSet
  BY <1>1 DEF RequestSet, Steps
<1>5. /\ req' \in [Req -> RequestSet]
      /\ req'[r] = [req[r] EXCEPT !.at = at, !.seen = failed]
  BY <1>1, <1>3, <1>4
<1> QED BY <1>1, <1>3, <1>5 DEF OnlyMoves, RequestSet, LoginFind
(***************************************************************************)
(* The reset tokens.                                                       *)
(***************************************************************************)

\* A write or a mark changes one token.
LEMMA TokenFacts ==
  ASSUME TypeOK, NEW t \in 1..Len(resets), NEW token \in Token,
         resets' = [resets EXCEPT ![t] = token]
  PROVE  /\ resets' \in Seq(Token) /\ Len(resets') = Len(resets)
         /\ DOMAIN resets' = DOMAIN resets
         /\ resets'[t] = token /\ \A u \in DOMAIN resets : u # t => resets'[u] = resets[u]
<1>1. resets \in Seq(Token)
  BY DEF TypeOK, Token
<1> QED BY <1>1, ExceptSeq, LenProperties

\* Tokens are what they are declared to be.
LEMMA TokenTypes ==
  ASSUME TypeOK
  PROVE  /\ Len(resets) \in Nat /\ DOMAIN resets = 1..Len(resets)
         /\ \A t \in DOMAIN resets :
              /\ resets[t] \in Token /\ resets[t].used \in BOOLEAN /\ resets[t].writes \in Nat
<1>1. resets \in Seq(Token)
  BY DEF TypeOK, Token
<1>2. Len(resets) \in Nat /\ DOMAIN resets = 1..Len(resets)
  BY <1>1, LenProperties
<1>3. \A t \in DOMAIN resets : resets[t] \in Token
  BY <1>1, <1>2, ElementOfSeq
<1> QED BY <1>2, <1>3 DEF Token

\* What one write to a token, or its mark, makes of it.
LEMMA TokenWritten ==
  ASSUME TypeOK, NEW t \in DOMAIN resets
  PROVE  /\ [resets[t] EXCEPT !.writes = resets[t].writes + 1] \in Token
         /\ [resets[t] EXCEPT !.writes = resets[t].writes + 1].used = resets[t].used
         /\ [resets[t] EXCEPT !.writes = resets[t].writes + 1].writes = resets[t].writes + 1
         /\ [resets[t] EXCEPT !.used = TRUE] \in Token
         /\ [resets[t] EXCEPT !.used = TRUE].used
         /\ [resets[t] EXCEPT !.used = TRUE].writes = resets[t].writes
<1>1. resets[t] \in Token /\ resets[t].writes + 1 \in Nat
  BY TokenTypes
<1>2. /\ \A k \in Token, n \in Nat : [k EXCEPT !.writes = n] \in Token
      /\ \A k \in Token : [k EXCEPT !.used = TRUE] \in Token
  BY DEF Token
<1>3. /\ [resets[t] EXCEPT !.writes = resets[t].writes + 1].writes = resets[t].writes + 1
      /\ [resets[t] EXCEPT !.used = TRUE].writes = resets[t].writes
  BY <1>1 DEF Token
<1>4. [resets[t] EXCEPT !.used = TRUE].used
  BY <1>1 DEF Token
<1>5. [resets[t] EXCEPT !.writes = resets[t].writes + 1].used = resets[t].used
  BY <1>1 DEF Token
<1> QED BY <1>1, <1>2, <1>3, <1>4, <1>5

\* A new token.
LEMMA AppendFacts ==
  ASSUME TypeOK, resets' = Append(resets, [used |-> FALSE, writes |-> 0])
  PROVE  /\ resets' \in Seq(Token) /\ Len(resets') = Len(resets) + 1
         /\ DOMAIN resets' = 1..Len(resets) + 1
         /\ resets'[Len(resets) + 1] = [used |-> FALSE, writes |-> 0]
         /\ \A t \in DOMAIN resets : resets'[t] = resets[t]
<1>1. resets \in Seq(Token) /\ [used |-> FALSE, writes |-> 0] \in Token
  BY DEF TypeOK, Token
<1> QED BY <1>1, LenProperties

(***************************************************************************)
(* What a step has to respect to keep each part of the invariant.          *)
(***************************************************************************)

\* The counter is safe while no request starts to count.
LEMMA CountKept ==
  ASSUME Inv, NEW r \in Req, OnlyMoves(r), UNCHANGED <<failed, lock>>,
         r \in Counting' => r \in Counting
  PROVE  CountBound'
<1>1. Cardinality(Counting') <= Cardinality(Counting)
      /\ Cardinality(Counting') \in Nat /\ Cardinality(Counting) \in Nat /\ Cardinality(Req) \in Nat
  BY Counts, CountMoves DEF Inv
<1>2. failed \in Nat /\ MaxFailed \in Nat
  BY AccountsAssumption DEF Inv, TypeOK
<1> QED BY <1>1, <1>2 DEF Inv, CountBound

\* The tokens are safe while marks are missed only by a fault, and nobody
\* finds a used token.
LEMMA WritesKept ==
  ASSUME Inv, NEW r \in Req, OnlyMoves(r), UNCHANGED resets, faults' \in Nat, faults' >= faults,
         \A t \in DOMAIN resets :
           /\ r \in Marking(t) /\ r \notin Marking(t)' => faults' = faults + 1
           /\ r \in Writing(t)' /\ r \notin Writing(t) => ~resets[t].used
  PROVE  WriteBound'
<1> SUFFICES ASSUME NEW t \in DOMAIN resets
             PROVE  /\ ~resets[t].used => resets[t].writes <= Cardinality(Marking(t)') + faults'
                    /\ resets[t].used =>
                         resets[t].writes + Cardinality(Writing(t)') <= Cardinality(Req) + faults'
  BY DEF WriteBound
<1>1. resets[t].writes \in Nat /\ faults \in Nat
  BY TokenTypes DEF Inv, TypeOK
<1>2. ASSUME ~resets[t].used
      PROVE  resets[t].writes <= Cardinality(Marking(t)') + faults'
  <2>1. resets[t].writes <= Cardinality(Marking(t)) + faults
    BY <1>2 DEF Inv, WriteBound
  <2>2. /\ Cardinality(Marking(t)) \in Nat /\ Cardinality(Marking(t)') \in Nat
        /\ \/ Cardinality(Marking(t)') >= Cardinality(Marking(t))
           \/ /\ Cardinality(Marking(t)') = Cardinality(Marking(t)) - 1
              /\ faults' = faults + 1
    BY Counts, CountMoves DEF Inv
  <2> QED BY <1>1, <2>1, <2>2
<1>3. ASSUME resets[t].used
      PROVE  resets[t].writes + Cardinality(Writing(t)') <= Cardinality(Req) + faults'
  <2>1. resets[t].writes + Cardinality(Writing(t)) <= Cardinality(Req) + faults
    BY <1>3 DEF Inv, WriteBound
  <2>2. /\ Cardinality(Writing(t)) \in Nat /\ Cardinality(Writing(t)') \in Nat
        /\ Cardinality(Writing(t)') <= Cardinality(Writing(t)) /\ Cardinality(Req) \in Nat
    BY <1>3, Counts, CountMoves DEF Inv
  <2> QED BY <1>1, <2>1, <2>2
<1> QED BY <1>2, <1>3

\* A request that presents no token, or arrives with one, is in no count.
LEMMA TokensKept ==
  ASSUME Inv, NEW r \in Req, OnlyMoves(r), Len(resets') \in Nat, Len(resets') >= Len(resets),
         \/ req'[r].at \notin {"reset", "write", "mark", "change"}
         \/ /\ req'[r].tok \in 0..Len(resets)
            /\ req'[r].at \in {"reset", "mark"} => req'[r].tok # 0
            /\ req'[r].at = "change" => req'[r].tok = 0
  PROVE  TokensKnown'
  BY TokenTypes DEF Inv, TokensKnown, OnlyMoves
(***************************************************************************)
(* Every step keeps the invariant.                                         *)
(***************************************************************************)

\* The bounds of the attempts are positive and finite.
LEMMA Positive == MaxFailed >= 1 /\ Cardinality(Req) >= 1 /\ Cardinality(Req) \in Nat
  BY AccountsAssumption, FS_CardinalityType, FS_EmptySet

\* A request arrives: it is in none of the counts.
LEMMA RequestPreserves ==
  ASSUME Inv, NEW r \in Req, Request(r)
  PROVE  Inv'
<1>1. PICK at \in {"register", "forgot", "login", "change", "reset"}, pass \in 0..MaxPasswords,
           tok \in Nat :
        /\ Arrive(r, at, pass, tok)
        /\ IF at = "reset" THEN tok \in DOMAIN resets ELSE tok = 0
  <2>1. pw \in 0..MaxPasswords /\ 0 \in 0..MaxPasswords
    BY AccountsAssumption DEF Inv, TypeOK
  <2>2. CASE \E at \in {"register", "forgot"} : Arrive(r, at, 0, 0)
    BY <2>1, <2>2
  <2>3. CASE \E at \in {"login", "change"}, p \in {0, pw} : Arrive(r, at, p, 0)
    BY <2>1, <2>3
  <2>4. CASE \E t \in DOMAIN resets : Arrive(r, "reset", 0, t)
    BY <2>1, <2>4, TokenTypes DEF Inv
  <2> QED BY <2>2, <2>3, <2>4 DEF Request
<1>2. /\ req' \in [Req -> RequestSet] /\ OnlyMoves(r)
      /\ req[r].at = "done" /\ req'[r].at = at /\ req'[r].tok = tok
      /\ UNCHANGED account
  BY <1>1, ArriveFacts DEF Inv, Steps
<1>3. TypeOK'
  BY <1>2 DEF Inv, TypeOK, account, RequestSet
<1>4. TokensKnown'
  BY <1>1, <1>2, TokensKept, TokenTypes DEF Inv, account
<1>5. CountBound'
  BY <1>2, CountKept DEF account, Counting
<1>6. WriteBound'
  <2>1. faults' \in Nat /\ faults' >= faults /\ UNCHANGED resets
    BY <1>2 DEF account, Inv, TypeOK
  <2>2. \A t \in DOMAIN resets : r \notin Marking(t) /\ r \notin Writing(t)'
    BY <1>2 DEF Marking, Writing
  <2> QED BY <1>2, <2>1, <2>2, WritesKept
<1> QED BY <1>3, <1>4, <1>5, <1>6 DEF Inv

\* Registrations, and the checks of a login, a change or a reset: the counter
\* and the tokens stay, and nobody finds a used token.
Checks(r) == RegisterFind(r) \/ RegisterInsert(r) \/ ChangeFind(r) \/ ResetFind(r)

\* They change nothing that the invariant speaks of but where the request is.
LEMMA ChecksPreserves ==
  ASSUME Inv, NEW r \in Req, Checks(r)
  PROVE  Inv'
<1>1. PICK at \in {"insert", "done", "write"} :
        /\ Goto(r, at)
        /\ at = "write" => /\ req[r].at \in {"change", "reset"}
                           /\ req[r].at = "reset" => Usable(req[r].tok)
  BY DEF Checks, RegisterFind, RegisterInsert, ChangeFind, ResetFind
<1>2. /\ req' \in [Req -> RequestSet] /\ OnlyMoves(r)
      /\ req'[r].at = at /\ req'[r].tok = req[r].tok
  BY <1>1, GotoFacts DEF Inv, Steps
<1>3. /\ UNCHANGED <<failed, lock, resets, faults>>
      /\ req[r].at \in {"register", "insert", "change", "reset"}
  BY DEF Checks, RegisterFind, RegisterInsert, ChangeFind, ResetFind, account
<1>4. TypeOK'
  <2>1. rows \in 0..1 /\ pw \in 0..MaxPasswords /\ 1 \in 0..MaxPasswords
    BY AccountsAssumption DEF Inv, TypeOK
  <2>2. \/ UNCHANGED <<rows, pw>>
        \/ ~EmailTaken /\ rows' = rows + 1 /\ pw' = 1
    BY DEF Checks, RegisterFind, RegisterInsert, ChangeFind, ResetFind, account
  <2>3. rows' \in 0..1 /\ pw' \in 0..MaxPasswords
    BY <2>1, <2>2 DEF EmailTaken
  <2> QED BY <1>2, <1>3, <2>3 DEF Inv, TypeOK, RequestSet
<1>5. TokensKnown'
  <2>1. at = "write" => req[r].tok \in 0..Len(resets)
    BY <1>1 DEF Inv, TokensKnown
  <2> QED BY <1>2, <1>3, <2>1, TokensKept, TokenTypes DEF Inv
<1>6. CountBound'
  BY <1>2, <1>3, CountKept DEF Counting
<1>7. WriteBound'
  <2>1. faults' \in Nat /\ faults' >= faults
    BY <1>3 DEF Inv, TypeOK
  <2>2. \A t \in DOMAIN resets :
           r \notin Marking(t) /\ (r \in Writing(t)' => ~resets[t].used)
    BY <1>1, <1>2, <1>3, TokenTypes DEF Marking, Writing, Usable, Inv, TokensKnown
  <2> QED BY <1>2, <1>3, <2>1, <2>2, WritesKept
<1> QED BY <1>4, <1>5, <1>6, <1>7 DEF Inv
\* A login leaves the tokens alone.
LEMMA LoginTokens ==
  ASSUME Inv, NEW r \in Req, OnlyMoves(r), UNCHANGED <<resets, faults>>,
         req[r].at \in {"login", "count", "clear"}, req'[r].at \in {"done", "count", "clear"}
  PROVE  TokensKnown' /\ WriteBound'
<1>1. TokensKnown'
  BY TokensKept, TokenTypes DEF Inv
<1>2. faults' \in Nat /\ faults' >= faults
  BY DEF Inv, TypeOK
<1>3. \A t \in DOMAIN resets : r \notin Marking(t) /\ r \notin Writing(t)'
  BY DEF Marking, Writing
<1> QED BY <1>1, <1>2, <1>3, WritesKept

\* A request that found a count below the limit may still raise it.
LEMMA LoginFindPreserves ==
  ASSUME Inv, NEW r \in Req, LoginFind(r)
  PROVE  Inv'
<1>1. /\ req' \in [Req -> RequestSet] /\ OnlyMoves(r)
      /\ req[r].at = "login" /\ req'[r].at \in {"done", "clear", "count"}
      /\ req'[r].seen = failed
      /\ UNCHANGED account
  BY LoginFindFacts DEF Inv
<1>2. TypeOK'
  BY <1>1 DEF Inv, TypeOK, account, RequestSet
<1>3. TokensKnown' /\ WriteBound'
  BY <1>1, LoginTokens DEF account
<1>4. CountBound'
  <2>1. CASE r \in Counting'
    <3>1. failed + 1 < MaxFailed /\ failed \in Nat /\ MaxFailed \in Nat
      BY <1>1, <2>1, AccountsAssumption DEF Counting, WillLock, Inv, TypeOK
    <3>2. /\ Cardinality(Counting') <= Cardinality(Req)
          /\ Cardinality(Counting') \in Nat /\ Cardinality(Req) \in Nat
      BY <1>1, Counts, CountMoves DEF Inv
    <3> QED BY <1>1, <3>1, <3>2 DEF CountBound, account
  <2>2. CASE r \notin Counting'
    BY <1>1, <2>2, CountKept DEF account
  <2> QED BY <2>1, <2>2
<1> QED BY <1>2, <1>3, <1>4 DEF Inv

\* A failed attempt that is being written moves from Counting to the row.
LEMMA LoginCountPreserves ==
  ASSUME Inv, NEW r \in Req, LoginCount(r)
  PROVE  Inv'
<1>1. /\ req' \in [Req -> RequestSet] /\ OnlyMoves(r)
      /\ req[r].at = "count" /\ req'[r].at = "done"
      /\ failed' = failed + 1
      /\ lock' = IF WillLock(req[r].seen) THEN "future" ELSE lock
      /\ UNCHANGED <<rows, pw, resets, faults>>
  BY GotoFacts DEF Inv, LoginCount, Steps
<1>2. TypeOK'
  BY <1>1 DEF Inv, TypeOK, RequestSet
<1>3. TokensKnown' /\ WriteBound'
  BY <1>1, LoginTokens
<1>4. CountBound'
  <2> SUFFICES ASSUME lock' = "null"
               PROVE  failed' + Cardinality(Counting')
                        <= (MaxFailed - 1) + (Cardinality(Req) - 1)
    BY DEF CountBound
  <2>1. lock = "null" /\ r \in Counting /\ r \notin Counting'
    BY <1>1 DEF Counting
  <2>2. /\ Cardinality(Counting') = Cardinality(Counting) - 1
        /\ Cardinality(Counting) \in Nat
    BY <1>1, <2>1, Counts, CountMoves DEF Inv
  <2> QED BY <1>1, <2>1, <2>2, Positive, AccountsAssumption DEF Inv, CountBound, TypeOK
<1> QED BY <1>2, <1>3, <1>4 DEF Inv

\* After a success at most the other requests count.
LEMMA LoginClearPreserves ==
  ASSUME Inv, NEW r \in Req, LoginClear(r)
  PROVE  Inv'
<1>1. /\ req' \in [Req -> RequestSet] /\ OnlyMoves(r)
      /\ req[r].at = "clear" /\ req'[r].at = "done"
      /\ failed' = 0 /\ lock' = "null"
      /\ UNCHANGED <<rows, pw, resets, faults>>
  BY GotoFacts DEF Inv, LoginClear, Steps
<1>2. TypeOK'
  BY <1>1 DEF Inv, TypeOK, RequestSet
<1>3. TokensKnown' /\ WriteBound'
  BY <1>1, LoginTokens
<1>4. CountBound'
  <2>1. r \notin Counting'
    BY <1>1 DEF Counting
  <2>2. /\ Cardinality(Counting') <= Cardinality(Req) - 1
        /\ Cardinality(Counting') \in Nat
    BY <1>1, <2>1, Counts, CountMoves DEF Inv
  <2> QED BY <1>1, <2>2, Positive, AccountsAssumption DEF CountBound
<1> QED BY <1>2, <1>3, <1>4 DEF Inv

\* A new token has not been written with.
LEMMA ForgotCreatePreserves ==
  ASSUME Inv, NEW r \in Req, ForgotCreate(r)
  PROVE  Inv'
<1>1. /\ req' \in [Req -> RequestSet] /\ OnlyMoves(r)
      /\ req[r].at = "forgot" /\ req'[r].at = "done"
      /\ UNCHANGED <<rows, failed, lock, pw, faults>>
      /\ UNCHANGED resets \/ resets' = Append(resets, [used |-> FALSE, writes |-> 0])
  BY GotoFacts DEF Inv, ForgotCreate, Steps
<1>2. /\ resets' \in Seq(Token) /\ Len(resets') \in Nat /\ Len(resets') >= Len(resets)
  BY <1>1, AppendFacts, TokenTypes DEF Inv, TypeOK, Token
<1>3. TypeOK'
  BY <1>1, <1>2 DEF Inv, TypeOK, RequestSet, Token
<1>4. TokensKnown'
  BY <1>1, <1>2, TokensKept
<1>5. CountBound'
  BY <1>1, CountKept DEF Counting
<1>6. WriteBound'
  <2>1. faults' = faults /\ faults \in Nat
    BY <1>1 DEF Inv, TypeOK
  <2>2. CASE UNCHANGED resets
    <3>1. \A t \in DOMAIN resets : r \notin Marking(t) /\ r \notin Writing(t)'
      BY <1>1 DEF Marking, Writing
    <3> QED BY <1>1, <2>1, <2>2, <3>1, WritesKept
  <2>3. CASE resets' = Append(resets, [used |-> FALSE, writes |-> 0])
    <3> SUFFICES ASSUME NEW t \in DOMAIN resets'
                 PROVE  /\ ~resets'[t].used => resets'[t].writes <= Cardinality(Marking(t)') + faults'
                        /\ resets'[t].used =>
                             resets'[t].writes + Cardinality(Writing(t)') <= Cardinality(Req) + faults'
      BY DEF WriteBound
    <3>1. Marking(t)' = Marking(t) /\ Writing(t)' = Writing(t)
      BY <1>1 DEF OnlyMoves, Marking, Writing
    <3>2. CASE t \in DOMAIN resets
      BY <2>1, <2>3, <3>1, <3>2, AppendFacts DEF Inv, WriteBound
    <3>3. CASE t = Len(resets) + 1
      BY <1>1, <2>1, <2>3, <3>3, AppendFacts, Counts, CountMoves DEF Inv
    <3> QED BY <2>3, <3>2, <3>3, AppendFacts, TokenTypes DEF Inv
  <2> QED BY <1>1, <2>2, <2>3
<1> QED BY <1>3, <1>4, <1>5, <1>6 DEF Inv

\* A password is written; of a reset, the mark is still to come.
LEMMA WritePasswordPreserves ==
  ASSUME Inv, NEW r \in Req, WritePassword(r)
  PROVE  Inv'
<1>1. PICK at \in {"done", "mark"} :
        /\ Goto(r, at)
        /\ at = IF req[r].tok = 0 THEN "done" ELSE "mark"
  BY DEF WritePassword
<1>2. /\ req' \in [Req -> RequestSet] /\ OnlyMoves(r)
      /\ req[r].at = "write" /\ req'[r].at = at /\ req'[r].tok = req[r].tok
      /\ UNCHANGED <<rows, failed, lock, faults>>
      /\ pw' = pw + 1 /\ pw < MaxPasswords
  BY <1>1, GotoFacts DEF Inv, WritePassword, Steps
<1>3. req[r].tok \in 0..Len(resets)
  BY <1>2 DEF Inv, TokensKnown
<1>4. CountBound'
  BY <1>1, <1>2, CountKept DEF Counting
<1>5. faults' = faults /\ faults \in Nat
  BY <1>2 DEF Inv, TypeOK
<1>6. CASE req[r].tok = 0
  <2>1. UNCHANGED resets
    BY <1>6 DEF WritePassword
  <2>2. TypeOK'
    BY <1>2, <2>1, AccountsAssumption DEF Inv, TypeOK, RequestSet
  <2>3. TokensKnown'
    BY <1>1, <1>2, <1>6, <2>1, TokensKept, TokenTypes DEF Inv
  <2>4. \A t \in DOMAIN resets : r \notin Marking(t) /\ r \notin Writing(t)'
    BY <1>1, <1>2, <1>6 DEF Marking, Writing
  <2>5. WriteBound'
    BY <1>2, <1>5, <2>1, <2>4, WritesKept
  <2> QED BY <1>4, <2>2, <2>3, <2>5 DEF Inv
<1>7. CASE req[r].tok # 0
  <2>1. PICK k \in 1..Len(resets) : k = req[r].tok
    BY <1>3, <1>7, TokenTypes DEF Inv
  <2>2. resets' = [resets EXCEPT ![k] = [resets[k] EXCEPT !.writes = resets[k].writes + 1]]
    BY <1>7, <2>1 DEF WritePassword
  <2>3. /\ resets' \in Seq(Token) /\ Len(resets') = Len(resets)
        /\ DOMAIN resets' = DOMAIN resets
        /\ resets'[k].used = resets[k].used /\ resets'[k].writes = resets[k].writes + 1
        /\ \A u \in DOMAIN resets : u # k => resets'[u] = resets[u]
    BY <2>2, TokenWritten, TokenFacts, TokenTypes DEF Inv
  <2>4. TypeOK'
    BY <1>2, <2>3, AccountsAssumption DEF Inv, TypeOK, RequestSet, Token
  <2>5. TokensKnown'
    BY <1>1, <1>2, <1>3, <1>7, <2>3, TokensKept, TokenTypes DEF Inv
  <2>6. WriteBound'
    <3> SUFFICES ASSUME NEW t \in DOMAIN resets
                 PROVE  /\ ~resets'[t].used => resets'[t].writes <= Cardinality(Marking(t)') + faults
                        /\ resets'[t].used =>
                             resets'[t].writes + Cardinality(Writing(t)') <= Cardinality(Req) + faults
      BY <1>5, <2>3 DEF WriteBound
    <3>1. resets[t].writes \in Nat
      BY TokenTypes DEF Inv
    <3>2. CASE t = k
      <4>1. /\ r \notin Marking(t) /\ r \in Marking(t)'
            /\ r \in Writing(t) /\ r \notin Writing(t)'
        BY <1>1, <1>2, <1>7, <2>1, <3>2 DEF Marking, Writing
      <4>2. /\ Cardinality(Marking(t)) \in Nat /\ Cardinality(Writing(t)) \in Nat
            /\ Cardinality(Marking(t)') = Cardinality(Marking(t)) + 1
            /\ Cardinality(Writing(t)') = Cardinality(Writing(t)) - 1
        BY <1>2, <4>1, Counts, CountMoves DEF Inv
      <4>3. resets'[t].writes = resets[t].writes + 1 /\ (resets'[t].used <=> resets[t].used)
        BY <2>3, <3>2
      <4>4. ASSUME ~resets[t].used
            PROVE  resets'[t].writes <= Cardinality(Marking(t)') + faults
        <5>1. resets[t].writes <= Cardinality(Marking(t)) + faults /\ faults \in Nat
          BY <4>4 DEF Inv, TypeOK, WriteBound
        <5> QED BY <3>1, <4>2, <4>3, <5>1
      <4>5. ASSUME resets[t].used
            PROVE  resets'[t].writes + Cardinality(Writing(t)') <= Cardinality(Req) + faults
        <5>1. resets[t].writes + Cardinality(Writing(t)) <= Cardinality(Req) + faults
          BY <4>5 DEF Inv, WriteBound
        <5>2. resets'[t].writes + Cardinality(Writing(t)')
                = resets[t].writes + Cardinality(Writing(t))
          BY <3>1, <4>2, <4>3
        <5> QED BY <5>1, <5>2
      <4> QED BY <4>3, <4>4, <4>5
    <3>3. CASE t # k
      <4>1. Marking(t)' = Marking(t) /\ Writing(t)' = Writing(t)
        BY <1>2, <2>1, <3>3 DEF OnlyMoves, Marking, Writing
      <4> QED BY <2>3, <3>3, <4>1 DEF Inv, WriteBound
    <3> QED BY <3>2, <3>3
  <2> QED BY <1>4, <2>4, <2>5, <2>6 DEF Inv
<1> QED BY <1>6, <1>7

\* The mark ends the writes not yet begun: what is left of them are the other
\* requests that found the token.
LEMMA ResetMarkPreserves ==
  ASSUME Inv, NEW r \in Req, ResetMark(r)
  PROVE  Inv'
<1>1. /\ req' \in [Req -> RequestSet] /\ OnlyMoves(r)
      /\ req[r].at = "mark" /\ req'[r].at = "done"
      /\ UNCHANGED <<rows, failed, lock, pw, faults>>
  BY GotoFacts DEF Inv, ResetMark, Steps
<1>2. PICK k \in 1..Len(resets) : k = req[r].tok
  BY <1>1, TokenTypes DEF Inv, TokensKnown
<1>3. resets' = [resets EXCEPT ![k] = [resets[k] EXCEPT !.used = TRUE]]
  BY <1>2 DEF ResetMark
<1>4. /\ resets' \in Seq(Token) /\ Len(resets') = Len(resets)
      /\ DOMAIN resets' = DOMAIN resets
      /\ resets'[k].used /\ resets'[k].writes = resets[k].writes
      /\ \A u \in DOMAIN resets : u # k => resets'[u] = resets[u]
  BY <1>3, TokenWritten, TokenFacts, TokenTypes DEF Inv
<1>5. TypeOK'
  BY <1>1, <1>4 DEF Inv, TypeOK, RequestSet, Token
<1>6. TokensKnown'
  BY <1>1, <1>4, TokensKept, TokenTypes DEF Inv
<1>7. CountBound'
  BY <1>1, CountKept DEF Counting
<1>8. WriteBound'
  <2> SUFFICES ASSUME NEW t \in DOMAIN resets
               PROVE  /\ ~resets'[t].used => resets'[t].writes <= Cardinality(Marking(t)') + faults
                      /\ resets'[t].used =>
                           resets'[t].writes + Cardinality(Writing(t)') <= Cardinality(Req) + faults
    BY <1>1, <1>4 DEF WriteBound
  <2>1. /\ resets[t].writes \in Nat /\ faults \in Nat
    BY TokenTypes DEF Inv, TypeOK
  <2>2. CASE t = k
    <3>1. Writing(t)' = Writing(t) /\ r \in Marking(t)
      BY <1>1, <1>2, <2>2 DEF OnlyMoves, Writing, Marking
    <3>2. Cardinality(Marking(t)) + Cardinality(Writing(t)) <= Cardinality(Req)
      <4>1. /\ Marking(t) \subseteq Req /\ Writing(t) \subseteq Req
            /\ Marking(t) \cap Writing(t) = {} /\ IsFiniteSet(Req)
        BY AccountsAssumption DEF Marking, Writing
      <4>2. /\ IsFiniteSet(Marking(t)) /\ IsFiniteSet(Writing(t))
            /\ Cardinality(Marking(t) \cup Writing(t)) <= Cardinality(Req)
        BY <4>1, FS_Subset
      <4>3. Cardinality(Marking(t) \cup Writing(t)) =
              Cardinality(Marking(t)) + Cardinality(Writing(t)) - Cardinality(Marking(t) \cap Writing(t))
        BY <4>2, FS_Union
      <4>4. Cardinality(Marking(t) \cap Writing(t)) = 0
        BY <4>1, FS_EmptySet
      <4>5. Cardinality(Marking(t)) \in Nat /\ Cardinality(Writing(t)) \in Nat
        BY <4>2, FS_CardinalityType
      <4> QED BY <4>2, <4>3, <4>4, <4>5
    <3>3. Cardinality(Marking(t)) \in Nat /\ Cardinality(Writing(t)) \in Nat
      BY <1>1, Counts, CountMoves DEF Inv
    <3>4. ~resets[t].used => resets[t].writes <= Cardinality(Marking(t)) + faults
      BY DEF Inv, WriteBound
    <3>5. CASE resets[t].used
      BY <1>4, <2>1, <2>2, <3>1, <3>2, <3>3, <3>5, Positive DEF Inv, WriteBound
    <3>6. CASE ~resets[t].used
      BY <1>4, <2>1, <2>2, <3>1, <3>2, <3>3, <3>4, <3>6, Positive
    <3> QED BY <3>5, <3>6
  <2>3. CASE t # k
    <3>1. Marking(t)' = Marking(t) /\ Writing(t)' = Writing(t)
      BY <1>1, <1>2, <2>3 DEF OnlyMoves, Marking, Writing
    <3> QED BY <1>4, <2>3, <3>1 DEF Inv, WriteBound
  <2> QED BY <2>2, <2>3
<1> QED BY <1>5, <1>6, <1>7, <1>8 DEF Inv

\* A rejected call may be the one that had marked a token.
LEMMA CallFailsPreserves ==
  ASSUME Inv, NEW r \in Req, CallFails(r)
  PROVE  Inv'
<1>1. /\ req' \in [Req -> RequestSet] /\ OnlyMoves(r)
      /\ req'[r].at = "done"
      /\ faults' = faults + 1 /\ faults < MaxFaults
      /\ UNCHANGED <<rows, failed, lock, pw, resets>>
  BY GotoFacts DEF Inv, CallFails, Steps
<1>2. TypeOK'
  BY <1>1, AccountsAssumption DEF Inv, TypeOK, RequestSet
<1>3. TokensKnown'
  BY <1>1, TokensKept, TokenTypes DEF Inv
<1>4. CountBound'
  BY <1>1, CountKept DEF Counting
<1>5. WriteBound'
  <2>1. faults' \in Nat /\ faults' >= faults
    BY <1>1 DEF Inv, TypeOK
  <2>2. \A t \in DOMAIN resets : r \notin Writing(t)'
    BY <1>1 DEF Writing
  <2> QED BY <1>1, <2>1, <2>2, WritesKept
<1> QED BY <1>2, <1>3, <1>4, <1>5 DEF Inv

\* Nothing but the lock changes when it ends.
LEMMA LockEndsPreserves ==
  ASSUME Inv, LockEnds \/ UNCHANGED vars
  PROVE  Inv'
<1>1. /\ UNCHANGED <<rows, failed, pw, resets, req, faults>>
      /\ lock' \in {lock, "past"}
  BY DEF LockEnds, vars
<1> QED
  BY <1>1 DEF Inv, TypeOK, TokensKnown, CountBound, Counting, WriteBound, Writing, Marking

\* At first there is no account, no token and no request.
LEMMA InitInv == Init => Inv
<1> SUFFICES ASSUME Init PROVE Inv
  OBVIOUS
<1>1. TypeOK
  BY AccountsAssumption DEF Init, TypeOK, Idle, Steps
<1>2. TokensKnown /\ WriteBound
  BY DEF Init, TokensKnown, WriteBound, Idle
<1>3. CountBound
  <2>1. Counting = {}
    BY DEF Init, Counting, Idle
  <2> QED BY <2>1, FS_EmptySet, Positive, AccountsAssumption DEF Init, CountBound
<1> QED BY <1>1, <1>2, <1>3 DEF Inv

\* Every step keeps the invariant.
LEMMA InvPreserved == Inv /\ [Next]_vars => Inv'
  BY RequestPreserves, ChecksPreserves, LoginFindPreserves, LoginCountPreserves,
     LoginClearPreserves, ForgotCreatePreserves, WritePasswordPreserves, ResetMarkPreserves,
     CallFailsPreserves, LockEndsPreserves DEF Next, Handle, Checks

\* The inductive invariant holds in every state.
LEMMA Invariance == Spec => []Inv
  BY InitInv, InvPreserved, PTL DEF Spec

(***************************************************************************)
(* The properties the runs check.                                          *)
(***************************************************************************)

\* Every variable has a value of its kind, and there is one account per e-mail
\* address.
THEOREM TypeCorrect == Spec => []TypeOK
<1>1. Inv => TypeOK
  BY DEF Inv
<1> QED BY <1>1, Invariance, PTL

\* However many requests run at once, an account is locked before the counter
\* passes the limit by more than the requests beside the one that reaches it.
THEOREM LockoutBoundCorrect == Spec => []LockoutBound
<1>1. Inv => LockoutBound
  <2> SUFFICES ASSUME Inv, lock = "null"
               PROVE  failed <= (MaxFailed - 1) + (Cardinality(Req) - 1)
    BY DEF LockoutBound
  <2>1. Cardinality(Counting) \in Nat
    BY AccountsAssumption, FS_Subset, FS_CardinalityType DEF Counting
  <2> QED BY <2>1, Positive, AccountsAssumption DEF Inv, CountBound, TypeOK
<1> QED BY <1>1, Invariance, PTL

\* A reset token sets the password at most once for each request in progress
\* with it and each failed mark.
THEOREM ResetBoundCorrect == Spec => []ResetBound
<1>1. Inv => ResetBound
  <2> SUFFICES ASSUME Inv, NEW t \in DOMAIN resets
               PROVE  resets[t].writes <= Cardinality(Req) + faults
    BY DEF ResetBound
  <2>1. /\ Cardinality(Writing(t)) \in Nat /\ Cardinality(Marking(t)) \in Nat
        /\ Cardinality(Marking(t)) <= Cardinality(Req)
    BY AccountsAssumption, FS_Subset, FS_CardinalityType DEF Writing, Marking
  <2>2. resets[t].writes \in Nat /\ resets[t].used \in BOOLEAN /\ faults \in Nat
    BY TokenTypes DEF Inv, TypeOK
  <2> QED BY <2>1, <2>2, Positive DEF Inv, WriteBound
<1> QED BY <1>1, Invariance, PTL
=============================================================================
