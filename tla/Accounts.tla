------------------------------ MODULE Accounts ------------------------------
(***************************************************************************)
(* One e-mail address and its account: registration, the failed-login      *)
(* counter and lock, and the two ways to a new password                    *)
(* (src/src/services/auth.service.ts, src/src/repositories/                *)
(* user.repository.ts).  Each handler reads the row, decides, and writes   *)
(* in later calls, while other requests do the same.                       *)
(*                                                                         *)
(* A password is a number: the n-th the account has had, 0 a wrong guess.  *)
(***************************************************************************)
EXTENDS Naturals, Sequences, FiniteSets

CONSTANTS Req,          \* request slots
          MaxFailed,    \* MAX_FAILED_ATTEMPTS
          MaxPasswords, \* bound: passwords the account ever has
          MaxResets,    \* bound: reset tokens ever issued
          MaxFaults     \* bound: database calls that reject

ASSUME AccountsAssumption ==
  /\ IsFiniteSet(Req) /\ Req # {}
  /\ MaxFailed \in Nat \ {0}
  /\ MaxPasswords \in Nat \ {0} /\ MaxResets \in Nat /\ MaxFaults \in Nat

VARIABLES rows,    \* users rows with this e-mail address
          failed,  \* failedLoginCount
          lock,    \* lockedUntil: null, in the future, in the past
          pw,      \* the password behind passwordHash
          resets,  \* per reset token: usedAt set, and (history) its writes
          req,     \* per request: next step, what it presented and read
          faults

vars == <<rows, failed, lock, pw, resets, req, faults>>
account == <<rows, failed, lock, pw, resets, faults>>

\* tok is the reset token presented; seen the failedLoginCount that was read.
Idle == [at |-> "done", pass |-> 0, tok |-> 0, seen |-> 0]
Goto(r, at) == req' = [req EXCEPT ![r].at = at]

\* A request arrives: the first step of each handler and what it presents.
Arrive(r, at, pass, tok) ==
  /\ req[r].at = "done"
  /\ req' = [req EXCEPT ![r] = [at |-> at, pass |-> pass, tok |-> tok, seen |-> 0]]
  /\ UNCHANGED account

\* register: findByEmail, then create under the unique e-mail column.
RegisterFind(r) ==
  /\ req[r].at = "register"
  /\ Goto(r, IF rows = 0 THEN "insert" ELSE "done")
  /\ UNCHANGED account

\* Mutant of EmailTaken: no unique constraint.
NeverTaken == FALSE

EmailTaken == rows > 0

RegisterInsert(r) ==
  /\ req[r].at = "insert"
  /\ IF EmailTaken
     THEN UNCHANGED <<rows, pw>>
     ELSE rows' = rows + 1 /\ pw' = 1
  /\ Goto(r, "done")
  /\ UNCHANGED <<failed, lock, resets, faults>>

\* login: no account or a lock ends it; the password decides what is written.
LoginFind(r) ==
  /\ req[r].at = "login"
  /\ req' = [req EXCEPT ![r].at = IF rows = 0 \/ lock = "future" THEN "done"
                                 ELSE IF req[r].pass = pw THEN "clear" ELSE "count",
                        ![r].seen = failed]
  /\ UNCHANGED account

\* Mutant of WillLock: the attempt that reaches the limit is not counted.
WillLockLate(seen) == seen >= MaxFailed

WillLock(seen) == seen + 1 >= MaxFailed

\* incrementFailedLogin: the column is incremented, the lock is decided by
\* the count the request read.
LoginCount(r) ==
  /\ req[r].at = "count"
  /\ failed < MaxFailed + Cardinality(Req)   \* bound: more tell nothing new
  /\ failed' = failed + 1
  /\ lock' = IF WillLock(req[r].seen) THEN "future" ELSE lock
  /\ Goto(r, "done")
  /\ UNCHANGED <<rows, pw, resets, faults>>

\* resetFailedLogin; the token pair and the session row are in Sessions.
LoginClear(r) ==
  /\ req[r].at = "clear"
  /\ failed' = 0
  /\ lock' = "null"
  /\ Goto(r, "done")
  /\ UNCHANGED <<rows, pw, resets, faults>>

\* Fifteen minutes pass.
LockEnds ==
  /\ lock = "future"
  /\ lock' = "past"
  /\ UNCHANGED <<rows, failed, pw, resets, req, faults>>

\* changePassword: the current password is verified against the row read.
ChangeFind(r) ==
  /\ req[r].at = "change"
  /\ Goto(r, IF rows > 0 /\ req[r].pass = pw THEN "write" ELSE "done")
  /\ UNCHANGED account

\* forgotPassword: each request issues one more token, the older stay valid.
ForgotCreate(r) ==
  /\ req[r].at = "forgot"
  /\ IF rows = 0
     THEN UNCHANGED resets
     ELSE /\ Len(resets) < MaxResets
          /\ resets' = Append(resets, [used |-> FALSE, writes |-> 0])
  /\ Goto(r, "done")
  /\ UNCHANGED <<rows, failed, lock, pw, faults>>

\* Mutant of Usable: the lookup does not ask for usedAt: null.
AnyToken(t) == t \in DOMAIN resets

Usable(t) == t \in DOMAIN resets /\ ~resets[t].used

\* resetPassword: the token is looked up, and the hour it lives is not over.
ResetFind(r) ==
  /\ req[r].at = "reset"
  /\ \/ Usable(req[r].tok) /\ Goto(r, "write")
     \/ Goto(r, "done")
  /\ UNCHANGED account

\* userRepo.update with the new hash, for changePassword and resetPassword.
WritePassword(r) ==
  /\ req[r].at = "write"
  /\ pw < MaxPasswords
  /\ pw' = pw + 1
  /\ resets' = IF req[r].tok = 0 THEN resets
               ELSE [resets EXCEPT ![req[r].tok].writes = @ + 1]
  /\ Goto(r, IF req[r].tok = 0 THEN "done" ELSE "mark")
  /\ UNCHANGED <<rows, failed, lock, faults>>

\* The token is marked used after the password was written.
ResetMark(r) ==
  /\ req[r].at = "mark"
  /\ resets' = [resets EXCEPT ![req[r].tok].used = TRUE]
  /\ Goto(r, "done")
  /\ UNCHANGED <<rows, failed, lock, pw, faults>>

\* A database call rejects: the request ends, what it wrote stays.
CallFails(r) ==
  /\ req[r].at # "done"
  /\ faults < MaxFaults
  /\ faults' = faults + 1
  /\ Goto(r, "done")
  /\ UNCHANGED <<rows, failed, lock, pw, resets>>

Init ==
  /\ rows = 0 /\ failed = 0 /\ lock = "null" /\ pw = 0
  /\ resets = <<>>
  /\ req = [r \in Req |-> Idle]
  /\ faults = 0

Request(r) ==
  \/ \E at \in {"register", "forgot"} : Arrive(r, at, 0, 0)
  \/ \E at \in {"login", "change"}, p \in {0, pw} : Arrive(r, at, p, 0)
  \/ \E t \in DOMAIN resets : Arrive(r, "reset", 0, t)

Handle(r) ==
  \/ RegisterFind(r) \/ RegisterInsert(r)
  \/ LoginFind(r) \/ LoginCount(r) \/ LoginClear(r)
  \/ ChangeFind(r) \/ ForgotCreate(r)
  \/ ResetFind(r) \/ WritePassword(r) \/ ResetMark(r)
  \/ CallFails(r)

Next == LockEnds \/ \E r \in Req : Request(r) \/ Handle(r)

Spec == Init /\ [][Next]_vars
-----------------------------------------------------------------------------
Steps == {"done", "register", "insert", "login", "count", "clear", "change",
          "forgot", "reset", "write", "mark"}

\* The unique column keeps one account per e-mail address through every
\* interleaving of registrations that found none (auth.service.ts:45-56).
TypeOK ==
  /\ rows \in 0..1
  /\ failed \in Nat
  /\ lock \in {"null", "future", "past"}
  /\ pw \in 0..MaxPasswords
  /\ resets \in Seq([used : BOOLEAN, writes : Nat])
  /\ req \in [Req -> [at : Steps, pass : 0..MaxPasswords, tok : Nat, seen : Nat]]
  /\ faults \in 0..MaxFaults

\* The lock comes after five wrong passwords (user.repository.ts:52-63), or
\* later by as many as there are concurrent requests: each of them may have
\* read a count below the limit before the others raised it.
LockoutBound ==
  lock = "null" => failed <= (MaxFailed - 1) + (Cardinality(Req) - 1)

\* A reset token sets the password once, or once for every request that was
\* in progress with it and every failed update of usedAt: it is marked used
\* in a call of its own after the write (auth.service.ts:171-189).
ResetBound ==
  \A t \in DOMAIN resets : resets[t].writes <= Cardinality(Req) + faults
=============================================================================
