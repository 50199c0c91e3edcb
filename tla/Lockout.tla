------------------------------ MODULE Lockout -------------------------------
(***************************************************************************)
(* How many passwords and codes somebody may try: the counters of          *)
(* rateLimit.js, used by the sign-in (routes/unifiedLogin.js,              *)
(* loginHelpers.js, and the logins of auth.js and platformAuth.js, which   *)
(* do the same), and what the owner is told (lockoutNotice.js).            *)
(*                                                                         *)
(* One account.  A counter is a row of rate_limits that its window ends;   *)
(* to count is to raise the row that is live, or else to write a new one.  *)
(* When a window ends is left open.                                        *)
(***************************************************************************)
EXTENDS Integers, FiniteSets

CONSTANTS
  Request,      \* requests in flight
  MaxPerEmail,  \* LOGIN_MAX_PER_EMAIL
  MaxPerIp,     \* LOGIN_MAX_PER_IP
  MaxCodes,     \* codes an admin may try
  Threshold,    \* FAILED_LOGIN_THRESHOLD
  MaxAttempts   \* bound: requests sent

Assumptions ==
  /\ IsFiniteSet(Request)
  /\ {MaxPerEmail, MaxPerIp, MaxCodes, Threshold} \subseteq Nat \ {0}
  /\ MaxAttempts \in Nat

Key == {"login-id", "login-ip", "mfa"}

VARIABLES
  count,     \* per key, its row; 0 if there is none or its window is over
  alive,     \* per key, whether there is a row whose window is not over
  admin,     \* the account
  request,   \* what each request is doing
  sent,      \* requests so far
  let,       \* history: per key, tries let through since it was without a row
  wrong,     \* history: tries of the address found wrong since its row began
  told,      \* history: notices of a lock since the row of the e-mail began
  raced,     \* history: per key, a row was written over a live one, or while the try
             \* that locked the one before was in flight
  astray     \* history: the address's window ended, or a try failed, in flight

vars == <<count, alive, admin, request, sent, let, wrong, told, raced, astray>>

Limit == [k \in Key |->
  CASE k = "login-id" -> MaxPerEmail [] k = "login-ip" -> MaxPerIp [] k = "mfa" -> MaxCodes]

Waiting == [pc |-> "idle", right |-> FALSE, blocked |-> FALSE, lockedNow |-> FALSE,
            failures |-> 0, alerted |-> FALSE]

Goto(r, pc) == request' = [request EXCEPT ![r].pc = pc]
Done(r) == request' = [request EXCEPT ![r] = Waiting]

\* Tries of this address that nobody has judged yet.
Judging == {r \in Request :
  request[r].pc \in {"check", "store", "welcome", "forgive", "give back"}}

-----------------------------------------------------------------------------
(* Counting.                                                                 *)

\* The key a request is about to count, and where it goes from there.
Counting == [email |-> "login-id", ip |-> "login-ip", code |-> "mfa"]
Beginning == [emailRow |-> "login-id", ipRow |-> "login-ip", codeRow |-> "mfa"]

Row(pc) == CASE pc = "email" -> "emailRow" [] pc = "ip" -> "ipRow" [] pc = "code" -> "codeRow"

\* After a count of n for the key: an attempt is blocked by either count.
Counted(r, k, n) ==
  LET blocked == request[r].blocked \/ n > Limit[k]
  IN /\ request' = [request EXCEPT ![r] =
          IF k # "login-id" /\ blocked THEN Waiting
          ELSE [request[r] EXCEPT
                  !.pc = CASE k = "login-id" -> "ip" [] k = "login-ip" -> "check"
                           [] k = "mfa" -> "try",
                  !.blocked = blocked,
                  !.lockedNow = @ \/ (k = "login-id" /\ n = Limit[k])]]
     /\ wrong' = (IF k = "login-ip" /\ n = 1 THEN 0 ELSE wrong)
                 + (IF k = "login-ip" /\ blocked THEN 1 ELSE 0)
     /\ let' = [let EXCEPT ![k] = @ + (IF n > Limit[k] THEN 0 ELSE 1)]

CountReadBefore(k) == 1   \* mutant: what was there is not counted on

CountAfter(k) == count[k] + 1

\* findOneAndUpdate with $inc; or nothing is live.
Count(r) ==
  /\ request[r].pc \in DOMAIN Counting
  /\ LET k == Counting[request[r].pc]
     IN IF alive[k]
        THEN count' = [count EXCEPT ![k] = CountAfter(k)] /\ Counted(r, k, CountAfter(k))
        ELSE Goto(r, Row(request[r].pc)) /\ UNCHANGED <<count, let, wrong>>
  /\ UNCHANGED <<alive, admin, sent, told, raced, astray>>

\* replaceOne with upsert.
BeginRow(r) ==
  /\ request[r].pc \in DOMAIN Beginning
  /\ LET k == Beginning[request[r].pc]
     IN /\ count' = [count EXCEPT ![k] = 1] /\ alive' = [alive EXCEPT ![k] = TRUE]
        /\ Counted(r, k, 1)
        /\ raced' = [raced EXCEPT ![k] =
             alive[k] \/ (k = "login-id" /\ \E q \in Request : request[q].lockedNow)]
        /\ told' = IF k = "login-id" THEN 0 ELSE told
        /\ astray' = IF k = "login-ip" THEN alive[k] \/ Judging # {} ELSE astray
  /\ UNCHANGED <<admin, sent>>

NoRow(k) ==
  /\ count' = [count EXCEPT ![k] = 0] /\ alive' = [alive EXCEPT ![k] = FALSE]
  /\ let' = [let EXCEPT ![k] = 0]

-----------------------------------------------------------------------------
(* Signing in.                                                               *)

\* POST /login.
Submit(r, right) ==
  /\ request[r].pc = "idle" /\ sent < MaxAttempts /\ sent' = sent + 1
  /\ request' = [request EXCEPT ![r] = [Waiting EXCEPT !.pc = "email", !.right = right]]
  /\ UNCHANGED <<count, alive, admin, let, wrong, told, raced, astray>>

\* verifyCompanyAdmin: the account as it is now, and the password.  A right one of a
\* suspended account is an error, which gives nothing back.
Check(r) ==
  /\ request[r].pc = "check"
  /\ IF request[r].right /\ admin.suspended
     THEN Done(r) /\ wrong' = wrong + 1 /\ astray' = TRUE
     ELSE /\ request' = [request EXCEPT ![r].pc = IF request[r].right THEN "welcome" ELSE "store",
                            ![r].failures = admin.failures + 1,
                            ![r].alerted = admin.alerted]
          /\ UNCHANGED <<wrong, astray>>
  /\ UNCHANGED <<count, alive, admin, sent, let, told, raced>>

\* failed_logins as it was read with this one more; the alert, unless one went out
\* lately; the notice of a lock.
Store(r) ==
  /\ request[r].pc = "store"
  /\ LET alert == request[r].failures >= Threshold /\ ~request[r].alerted
     IN admin' = [admin EXCEPT !.failures = request[r].failures, !.alerted = @ \/ alert]
  /\ told' = told + (IF request[r].lockedNow THEN 1 ELSE 0)
  /\ Done(r) /\ wrong' = wrong + 1
  /\ UNCHANGED <<count, alive, sent, let, raced, astray>>

\* A sign-in from an address the account has not used before is an alert too.
Welcome(r, elsewhere) ==
  /\ request[r].pc = "welcome" /\ Goto(r, "forgive")
  /\ LET alert == elsewhere /\ ~request[r].alerted
     IN admin' = [admin EXCEPT !.failures = 0, !.alerted = @ \/ alert]
  /\ UNCHANGED <<count, alive, sent, let, wrong, told, raced, astray>>

\* loginSucceeded: the e-mail's row goes, the address gets its try back.
Forgive(r) ==
  /\ request[r].pc = "forgive" /\ NoRow("login-id") /\ Goto(r, "give back")
  /\ UNCHANGED <<admin, sent, wrong, told, raced, astray>>

KeepTry(n) == n   \* mutant: a right password counts against the address

Returned(n) == IF n > 0 THEN n - 1 ELSE n

GiveBack(r) ==
  /\ request[r].pc = "give back"
  /\ count' = [count EXCEPT !["login-ip"] = Returned(@)]
  /\ Done(r)
  /\ UNCHANGED <<alive, admin, sent, let, wrong, told, raced, astray>>

\* POST /mfa/verify-login, with the token of a right password.
Code(r, right) ==
  /\ request[r].pc = "idle" /\ admin.mfa /\ sent < MaxAttempts /\ sent' = sent + 1
  /\ request' = [request EXCEPT ![r] = [Waiting EXCEPT !.pc = "code", !.right = right]]
  /\ UNCHANGED <<count, alive, admin, let, wrong, told, raced, astray>>

Try(r) ==
  /\ request[r].pc = "try" /\ Done(r)
  /\ IF request[r].right THEN NoRow("mfa") ELSE UNCHANGED <<count, alive, let>>
  /\ UNCHANGED <<admin, sent, wrong, told, raced, astray>>

-----------------------------------------------------------------------------
\* The database fails under a request.
Fail(r) ==
  /\ request[r].pc # "idle" /\ Done(r) /\ astray' = TRUE
  /\ UNCHANGED <<count, alive, admin, sent, let, wrong, told, raced>>

\* The platform's unlock button.
Unlock ==
  /\ alive["login-id"] /\ NoRow("login-id")
  /\ UNCHANGED <<admin, request, sent, wrong, told, raced, astray>>

\* A window ends; the row is deleted some time later, which changes nothing.
Expire(k) ==
  /\ alive[k] /\ NoRow(k)
  /\ UNCHANGED <<admin, request, sent, wrong, told, raced, astray>>

\* A quarter of an hour passes, or the half hour without another alert.
Cooled ==
  /\ \/ admin.failures > 0 /\ admin' = [admin EXCEPT !.failures = 0]
     \/ admin.alerted /\ admin' = [admin EXCEPT !.alerted = FALSE]
  /\ UNCHANGED <<count, alive, request, sent, let, wrong, told, raced, astray>>

Init ==
  /\ count = [k \in Key |-> 0] /\ alive = [k \in Key |-> FALSE]
  /\ admin \in [suspended : BOOLEAN, mfa : BOOLEAN, failures : {0}, alerted : {FALSE}]
  /\ request = [r \in Request |-> Waiting] /\ sent = 0
  /\ let = [k \in Key |-> 0] /\ wrong = 0 /\ told = 0
  /\ raced = [k \in Key |-> FALSE] /\ astray = FALSE

Next ==
  \/ \E r \in Request :
       \/ \E right \in BOOLEAN : Submit(r, right) \/ Code(r, right)
       \/ Count(r) \/ BeginRow(r) \/ Check(r) \/ Store(r)
       \/ \E elsewhere \in BOOLEAN : Welcome(r, elsewhere)
       \/ Forgive(r) \/ GiveBack(r) \/ Try(r) \/ Fail(r)
  \/ \E k \in Key : Expire(k)
  \/ Unlock \/ Cooled

Spec == Init /\ [][Next]_vars

-----------------------------------------------------------------------------
(* Shapes of the counters and of what each request has read.                 *)
TypeOK ==
  /\ \A k \in Key : count[k] \in Nat /\ alive[k] \in BOOLEAN
  /\ admin.failures \in 0..MaxAttempts /\ told \in Nat
  /\ \A r \in Request :
       request[r].pc \in DOMAIN Counting \cup DOMAIN Beginning \cup
         {"idle", "check", "try", "store", "welcome", "forgive", "give back"}

(* However many tries come at once, no more than the limit are let through   *)
(* on one row, unless one found none and wrote over what others had begun.   *)
TriesAreLimited ==
  \A k \in {"login-id", "mfa"} : ~raced[k] => let[k] <= Limit[k]

(* The owner is told once of a lock.                                         *)
ToldOnce == ~raced["login-id"] => told <= 1

(* An address is charged with what was wrong and what is still in flight:    *)
(* right passwords, however many, do not keep a whole office out.            *)
OnlyWrongOnesCount ==
  alive["login-ip"] /\ ~astray =>
    count["login-ip"] = wrong + Cardinality(Judging)
=============================================================================
