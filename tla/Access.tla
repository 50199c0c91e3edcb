------------------------------- MODULE Access -------------------------------
(***************************************************************************)
(* One team member's way in: the invitation (routes/acceptInvite.js,       *)
(* team.js), the password and the authenticator (auth.js, loginHelpers.js, *)
(* mfa.js), the sessions these open and what ends them (sessionRevocation. *)
(* js, routes/platform.js).  platformAuth.js repeats auth.js for platform  *)
(* admins, who are never invited or suspended.                             *)
(*                                                                         *)
(* Passwords and authenticator secrets are numbers, new ones the next;     *)
(* time is in seconds, as in a token's iat.  bcrypt and the database take  *)
(* time: between what a request reads and what it writes others come.  A   *)
(* request refused on what it read changes nothing and is left out.        *)
(***************************************************************************)
EXTENDS Integers, FiniteSets

CONSTANTS
  Request,      \* requests in flight
  MaxPasswords, \* bound: passwords ever set
  MaxSecrets,   \* bound: authenticator secrets ever made
  MaxTime       \* bound: seconds

Assumptions == MaxPasswords \in Nat /\ MaxSecrets \in Nat /\ MaxTime \in Nat

VARIABLES
  admin,     \* the row of admins
  business,  \* its business's status
  now,
  request,   \* requests in flight
  sessions,  \* session tokens: issued when, on which password
  pendings,  \* mfa_pending tokens, by the password they were issued on
  made,      \* passwords and secrets made
  held,      \* secrets in the member's authenticator app
  proved,    \* history: secrets a code of which was checked
  changedAt, \* history: when the password was last written
  accepted,  \* history: acceptances written
  atOnce,    \* history: two acceptances were in flight at a time
  overtook,  \* history: an acceptance wrote over a password already set
  crossing,  \* history: the member was suspended while an acceptance was in flight
  restored   \* history: an acceptance made a suspended member active

vars == <<admin, business, now, request, sessions, pendings, made, held, proved,
          changedAt, accepted, atOnce, overtook, crossing, restored>>

suspensions == <<crossing, restored>>

history == <<changedAt, accepted, atOnce, overtook, suspensions>>

Admin ==
  [status : {"invited", "active", "suspended"}, password : 0..MaxPasswords,
   validAfter : 0..MaxTime, mfa : BOOLEAN, secret : 0..MaxSecrets, pending : 0..MaxSecrets]

Kind == {"none", "login", "change", "accept", "enroll", "confirm", "disable"}

\* What it read, as far as what it writes depends on it.
RequestState ==
  [kind : Kind, mfa : BOOLEAN, password : 0..MaxPasswords, pending : 0..MaxSecrets]

Invited == [status |-> "invited", password |-> 0, validAfter |-> 0, mfa |-> FALSE,
            secret |-> 0, pending |-> 0]

Idle == [kind |-> "none", mfa |-> FALSE, password |-> 0, pending |-> 0]

-----------------------------------------------------------------------------
(* Sessions.                                                               *)

\* tokenRevoked compares whole seconds.
Revoked(token) == token.iat < admin.validAfter

\* resolveSessionFromToken, on every request.
Works(token) == business # "suspended" /\ admin.status # "suspended" /\ ~Revoked(token)

SignedIn == \E token \in sessions : Works(token)

Opens(password) == sessions' = sessions \cup {[iat |-> now, password |-> password]}

-----------------------------------------------------------------------------
(* Requests read the row first.                                            *)

Starts(r) ==
  /\ request[r].kind = "none"
  /\ UNCHANGED <<admin, business, now, sessions, pendings, made, held, proved, changedAt,
                 accepted, overtook, suspensions>>

Ends(r) == request' = [request EXCEPT ![r] = Idle]

AnyStatus == TRUE  \* mutant: the link works until it expires
\* loadInvite
Open == admin.status = "invited"

\* verifyCompanyAdmin: bcrypt.compare with the hash that was read, the status too.
\* Before the invitation is accepted there is no password.
StartLogin(r) ==
  /\ admin.password # 0 /\ admin.status # "suspended"
  /\ request' = [request EXCEPT ![r] =
       [kind |-> "login", mfa |-> admin.mfa, password |-> admin.password, pending |-> 0]]
  /\ Starts(r) /\ UNCHANGED atOnce

StartAccept(r) ==
  /\ Open /\ request' = [request EXCEPT ![r].kind = "accept"]
  /\ atOnce' = (atOnce \/ \E q \in Request : request[q].kind = "accept")
  /\ Starts(r)

\* PATCH /password, POST /mfa/disable, and POST /mfa/enroll, which asks for the
\* password only where an authenticator is on: the password is the one that was read.
StartSignedIn(r, kind) ==
  /\ SignedIn /\ request' = [request EXCEPT ![r].kind = kind]
  /\ Starts(r) /\ UNCHANGED atOnce

\* POST /mfa/enroll/confirm checks a code of the secret it read.
StartConfirm(r) ==
  /\ SignedIn /\ admin.pending \in held
  /\ request' = [request EXCEPT ![r].kind = "confirm", ![r].pending = admin.pending]
  /\ Starts(r) /\ UNCHANGED atOnce

-----------------------------------------------------------------------------
(* And then they write.                                                    *)

\* The business's status is read after the member's row.  With an authenticator no
\* session is opened yet.
FinishLogin(r) ==
  /\ request[r].kind = "login"
  /\ IF business = "suspended" THEN UNCHANGED <<sessions, pendings>>
     ELSE IF request[r].mfa
          THEN pendings' = pendings \cup {request[r].password} /\ UNCHANGED sessions
          ELSE Opens(request[r].password) /\ UNCHANGED pendings
  /\ Ends(r)
  /\ UNCHANGED <<admin, business, now, made, held, proved, history>>

\* POST /mfa/verify-login looks at the authenticator as it is now, and at nothing
\* else.  The limit on tries is left out.
VerifyLogin(p) ==
  /\ p \in pendings /\ admin.mfa /\ admin.secret \in held
  /\ Opens(p) /\ pendings' = pendings \ {p}
  /\ UNCHANGED <<admin, business, now, request, made, held, proved, history>>

\* Its five minutes are over.
PendingEnds(p) ==
  /\ p \in pendings /\ pendings' = pendings \ {p}
  /\ UNCHANGED <<admin, business, now, request, sessions, made, held, proved, history>>

KeepSessions(password) == [admin EXCEPT !.password = password]  \* mutant: tokens_valid_after is not set
\* "Every older token stops working."
NewPassword(password) == [admin EXCEPT !.password = password, !.validAfter = now]

FinishChange(r) ==
  /\ request[r].kind = "change"
  /\ made.password < MaxPasswords
  /\ made' = [made EXCEPT !.password = @ + 1]
  /\ admin' = NewPassword(made'.password)
  /\ Opens(made'.password) /\ changedAt' = now
  /\ Ends(r)
  /\ UNCHANGED <<business, now, pendings, held, proved, accepted, atOnce, overtook, suspensions>>

\* platform.js: a reset needs no old password.
Reset ==
  /\ made.password < MaxPasswords
  /\ made' = [made EXCEPT !.password = @ + 1]
  /\ admin' = NewPassword(made'.password) /\ changedAt' = now
  /\ UNCHANGED <<business, now, request, sessions, pendings, held, proved, accepted, atOnce,
                 overtook, suspensions>>

\* The update goes by _id alone: the row is active from here on, whatever has become of
\* it since it was read, a suspension too.
FinishAccept(r) ==
  /\ request[r].kind = "accept" /\ made.password < MaxPasswords
  /\ made' = [made EXCEPT !.password = @ + 1]
  /\ admin' = [admin EXCEPT !.password = made'.password, !.status = "active"]
  /\ Opens(made'.password)
  /\ accepted' = accepted + 1 /\ changedAt' = now
  /\ overtook' = (overtook \/ admin.password # 0)
  /\ restored' = (restored \/ admin.status = "suspended")
  /\ Ends(r)
  /\ UNCHANGED <<business, now, pendings, held, proved, atOnce, crossing>>

\* A new secret waits until a code proves that the member has it; the answer with
\* the secret may be lost.
FinishEnroll(r) ==
  /\ request[r].kind = "enroll"
  /\ made.secret < MaxSecrets
  /\ made' = [made EXCEPT !.secret = @ + 1]
  /\ admin' = [admin EXCEPT !.pending = made'.secret]
  /\ \E answered \in BOOLEAN :
       held' = IF answered THEN held \cup {made'.secret} ELSE held
  /\ Ends(r)
  /\ UNCHANGED <<business, now, sessions, pendings, proved, history>>

PendingNow(r) == admin.pending  \* mutant: what is pending at the write
PendingRead(r) == request[r].pending

\* The code was of the secret that was read.
FinishConfirm(r) ==
  /\ request[r].kind = "confirm"
  /\ proved' = proved \cup {request[r].pending}
  /\ admin' = [admin EXCEPT !.mfa = TRUE, !.secret = PendingRead(r), !.pending = 0]
  /\ Ends(r)
  /\ UNCHANGED <<business, now, sessions, pendings, made, held, history>>

FinishDisable(r) ==
  /\ request[r].kind = "disable"
  /\ admin' = [admin EXCEPT !.mfa = FALSE, !.secret = 0, !.pending = 0]
  /\ Ends(r)
  /\ UNCHANGED <<business, now, sessions, pendings, made, held, proved, history>>

-----------------------------------------------------------------------------
(* The owner, the platform, time.                                          *)

\* PATCH /team-members/:id, on an invited member too.
SetStatus(status) ==
  /\ admin' = [admin EXCEPT !.status = status]
  /\ crossing' = (\/ crossing
                  \/ status = "suspended" /\ \E r \in Request : request[r].kind = "accept")
  /\ UNCHANGED <<business, now, request, sessions, pendings, made, held, proved, changedAt,
                 accepted, atOnce, overtook, restored>>

SetBusiness(status) ==
  /\ business' = status
  /\ UNCHANGED <<admin, now, request, sessions, pendings, made, held, proved, history>>

Tick ==
  /\ now < MaxTime /\ now' = now + 1
  /\ UNCHANGED <<admin, business, request, sessions, pendings, made, held, proved, history>>

Init ==
  /\ admin = Invited /\ business = "active" /\ now = 0
  /\ request = [r \in Request |-> Idle]
  /\ sessions = {} /\ pendings = {}
  /\ made = [password |-> 0, secret |-> 0]
  /\ held = {} /\ proved = {} /\ changedAt = 0 /\ accepted = 0
  /\ atOnce = FALSE /\ overtook = FALSE /\ crossing = FALSE /\ restored = FALSE

Next ==
  \/ \E r \in Request, kind \in {"change", "enroll", "disable"} : StartSignedIn(r, kind)
  \/ \E r \in Request :
       \/ StartLogin(r) \/ StartConfirm(r) \/ StartAccept(r) \/ FinishAccept(r) \/ FinishLogin(r) \/ FinishChange(r)
       \/ FinishEnroll(r) \/ FinishConfirm(r) \/ FinishDisable(r)
  \/ \E p \in pendings : VerifyLogin(p) \/ PendingEnds(p)
  \/ Reset \/ Tick
  \/ \E s \in {"active", "suspended"} : SetStatus(s) \/ SetBusiness(s)

Spec == Init /\ [][Next]_vars

-----------------------------------------------------------------------------
(* Shapes of the row and of the requests.                                   *)
TypeOK ==
  /\ admin \in Admin /\ business \in {"active", "suspended"}
  /\ request \in [Request -> RequestState]
  /\ sessions \subseteq [iat : 0..MaxTime, password : 1..MaxPasswords]
  /\ pendings \subseteq 1..MaxPasswords

(* A new password, however it came, ends the sessions of the one before: what *)
(* still works was issued in that second or later (a login that was in flight *)
(* with the old password), unless an acceptance wrote over a password that a  *)
(* reset or another acceptance had set: it alone revokes nothing.             *)
OldSessionsEnd ==
  \A token \in sessions :
    Works(token) /\ token.password # admin.password => token.iat >= changedAt \/ overtook

(* An invitation is taken once, unless a second acceptance had read the row   *)
(* before the first wrote it; and an acceptance makes a suspended member       *)
(* active again only where the member was suspended while an acceptance was in *)
(* flight (acceptInvite.js:40-47 goes by _id alone): the link of somebody      *)
(* suspended opens nothing any more.                                           *)
InviteTakenOnce == (accepted > 1 => atOnce) /\ (restored => crossing)

(* An authenticator that is asked for is one a code of which was checked: the *)
(* member is never locked out by a secret that never reached them.            *)
ProvedAuthenticator == admin.mfa => admin.secret \in proved
=============================================================================
