------------------------------- MODULE Codes -------------------------------
(***************************************************************************)
(* One-time codes for one person (verification.js), as three doors use     *)
(* them: the customer's sign-in by code or by link (routes/customerPortal. *)
(* js), the code before a web booking (services/phoneCode.js), the owner's *)
(* verification of e-mail and phone (routes/onboarding.js, signup.js).     *)
(*                                                                         *)
(* A code is a number that grows, its hash compares equal to itself only.  *)
(* Several requests to send and to check are in flight at a time.          *)
(***************************************************************************)
EXTENDS Integers, Sequences, FiniteSets

CONSTANTS
  Door,        \* the doors looked at: \subseteq {"portal", "booking", "onboarding"}
  Sender,      \* requests for a code in flight
  Checker,     \* requests to check one in flight
  MaxCodes,    \* bound: codes ever made
  MAX_ATTEMPTS

Assumptions ==
  /\ Door \subseteq {"portal", "booking", "onboarding"}
  /\ IsFiniteSet(Checker) /\ MaxCodes \in Nat /\ MAX_ATTEMPTS \in Nat

VARIABLES
  door,      \* the door of this behaviour
  row,       \* the row with the hash, or the fields on the admin
  made,      \* codes made
  sender, checker,
  inbox,     \* codes in the order they reached the person
  compared,  \* history: comparisons with a code's hash, typed and by link
  used,      \* history: what a code has opened
  atOnce,    \* history: codes that were being checked twice at a time
  crossed    \* history: codes whose sending crossed another sending or a check

vars == <<door, row, made, sender, checker, inbox, compared, used, atOnce, crossed>>

Code == 1..MaxCodes
Via  == {"typed", "link"}

Row == [code : 0..MaxCodes, tries : [Via -> Nat], fresh : BOOLEAN, expired : BOOLEAN,
        link : BOOLEAN]

\* No row, or a row without a code.
NoCode == [code |-> 0, tries |-> [v \in Via |-> 0], fresh |-> FALSE, expired |-> FALSE,
           link |-> FALSE]

NewRow(c, byEmail) == [NoCode EXCEPT !.code = c, !.fresh = TRUE, !.link = byEmail]

Resting == [pc |-> "idle", code |-> 0, typed |-> 0, via |-> "typed"]

Quiet == /\ \A s \in Sender : sender[s].pc = "idle"
         /\ \A c \in Checker : checker[c].pc = "idle"

\* The codes on their way to the row and to the person.
Sending == {sender[s].code : s \in {t \in Sender : sender[t].pc # "idle"}}

-----------------------------------------------------------------------------
(* Sending.                                                                *)

\* The look for a code less than a minute old.  Sign-up sends without looking.
\* The portal has answered already, whoever it is.
Look(s) ==
  /\ sender[s].pc = "idle" /\ made < MaxCodes
  /\ ~(row.code # 0 /\ row.fresh)
  /\ made' = made + 1
  /\ \E byEmail \in (IF door = "portal" THEN BOOLEAN ELSE {FALSE}) :
       sender' = [sender EXCEPT ![s] =
         [pc |-> "write", code |-> made', via |-> IF byEmail THEN "link" ELSE "typed"]]
  /\ crossed' = IF Quiet THEN crossed ELSE crossed \cup Sending \cup {made'}
  /\ UNCHANGED <<door, row, checker, inbox, compared, used, atOnce>>

KeepTries(c, byEmail) ==  \* mutant: the tries of the code before are kept
  [NewRow(c, byEmail) EXCEPT !.tries = row.tries]
Replacement(c, byEmail) == NewRow(c, byEmail)

Write(s) ==
  /\ sender[s].pc = "write"
  /\ row' = Replacement(sender[s].code, sender[s].via = "link")
  /\ sender' = [sender EXCEPT ![s].pc = "send"]
  /\ UNCHANGED <<door, made, checker, inbox, compared, used, atOnce, crossed>>

\* The provider may refuse it; a stop of the server loses it.
Send(s) ==
  /\ sender[s].pc = "send"
  /\ \E delivered \in BOOLEAN :
       inbox' = IF delivered THEN Append(inbox, sender[s].code) ELSE inbox
  /\ sender' = [sender EXCEPT ![s] = [pc |-> "idle", code |-> 0, via |-> "typed"]]
  /\ UNCHANGED <<door, row, made, checker, compared, used, atOnce, crossed>>

\* A minute passes; ten minutes pass.
Cool   == row.fresh /\ row' = [row EXCEPT !.fresh = FALSE]
Expire == row.code # 0 /\ ~row.expired /\ row' = [row EXCEPT !.expired = TRUE, !.fresh = FALSE]

Time ==
  /\ Cool \/ Expire
  /\ UNCHANGED <<door, made, sender, checker, inbox, compared, used, atOnce, crossed>>

-----------------------------------------------------------------------------
(* Checking.                                                               *)

Others(c, k) == {d \in Checker \ {c} : checker[d].pc # "idle" /\ checker[d].code = k}

CountReadBefore(v) == row.tries[v]  \* mutant: the count a read before gave
\* The row's count after this try, of typed codes and of links apart.
Tries(v) == row.tries[v] + 1

\* findOneAndUpdate counts the try and answers with the row.  A code that is not
\* there is compared with nothing.
Count(c, typed, v) ==
  /\ checker[c].pc = "idle"
  /\ row.code # 0 /\ row.tries[v] <= MAX_ATTEMPTS
  /\ v = "link" => row.link
  /\ row' = [row EXCEPT !.tries[v] = Tries(v)]
  /\ IF Tries(v) > MAX_ATTEMPTS \/ row.expired
     THEN UNCHANGED <<checker, atOnce>>
     ELSE /\ checker' = [checker EXCEPT ![c] =
                [pc |-> "compare", code |-> row.code, typed |-> typed, via |-> v]]
          /\ atOnce' = IF Others(c, row.code) # {} THEN atOnce \cup {row.code} ELSE atOnce
  /\ crossed' = crossed \cup Sending
  /\ UNCHANGED <<door, made, sender, inbox, compared, used>>

\* bcrypt takes its time; it compares with the hash of the row that was counted.
Compare(c) ==
  /\ checker[c].pc = "compare"
  /\ compared' = [compared EXCEPT ![checker[c].code][checker[c].via] = @ + 1]
  /\ checker' = [checker EXCEPT ![c] =
       IF @.typed = @.code THEN [@ EXCEPT !.pc = "use"] ELSE Resting]
  /\ UNCHANGED <<door, row, made, sender, inbox, used, atOnce, crossed>>

LeaveRow == row  \* mutant: the row stays until it expires
\* deleteOne by the person, or $unset of the fields: whichever code is there now.
WithoutCode == NoCode

\* The portal deletes the row, then signs the session; the owner is verified and
\* the fields go in one write.
Use(c) ==
  /\ checker[c].pc = "use" /\ door # "booking"
  /\ row' = WithoutCode
  /\ used' = [used EXCEPT ![checker[c].code] = @ + 1]
  /\ checker' = [checker EXCEPT ![c] = Resting]
  /\ UNCHANGED <<door, made, sender, inbox, compared, atOnce, crossed>>

\* A web booking is made first; on a clash the code is kept for another time.
Book(c) ==
  /\ checker[c].pc = "use" /\ door = "booking"
  /\ \/ /\ used' = [used EXCEPT ![checker[c].code] = @ + 1]
        /\ checker' = [checker EXCEPT ![c].pc = "consume"]
     \/ UNCHANGED used /\ checker' = [checker EXCEPT ![c] = Resting]
  /\ UNCHANGED <<door, row, made, sender, inbox, compared, atOnce, crossed>>

\* consumePhoneCode.  If the server stops before it, the code stays.
Consume(c) ==
  /\ checker[c].pc = "consume"
  /\ row' = WithoutCode
  /\ checker' = [checker EXCEPT ![c] = Resting]
  /\ UNCHANGED <<door, made, sender, inbox, compared, used, atOnce, crossed>>

Init ==
  /\ door \in Door
  /\ row = NoCode /\ made = 0
  /\ sender = [s \in Sender |-> [pc |-> "idle", code |-> 0, via |-> "typed"]]
  /\ checker = [c \in Checker |-> Resting]
  /\ inbox = <<>>
  /\ compared = [k \in Code |-> [v \in Via |-> 0]]
  /\ used = [k \in Code |-> 0]
  /\ atOnce = {} /\ crossed = {}

Next ==
  \/ Time
  \/ \E s \in Sender : Look(s) \/ Write(s) \/ Send(s)
  \/ \E c \in Checker : Compare(c) \/ Use(c) \/ Book(c) \/ Consume(c)
  \/ \E c \in Checker, v \in Via, typed \in {0} \cup {inbox[i] : i \in DOMAIN inbox} :
       Count(c, typed, v)

Spec == Init /\ [][Next]_vars

-----------------------------------------------------------------------------
(* Shapes of the row and of the requests.                                   *)
TypeOK ==
  /\ row \in Row
  /\ \A s \in Sender : sender[s].pc \in {"idle", "write", "send"} /\ sender[s].code <= made
  /\ \A c \in Checker : /\ checker[c].pc \in {"idle", "compare", "use", "consume"}
                        /\ checker[c].code <= made /\ checker[c].via \in Via
  /\ \A i \in DOMAIN inbox : inbox[i] \in 1..made

(* "Count the attempt first, atomically, so parallel guesses can't exceed the *)
(* limit": however the checks and new codes cross, a code is compared with at *)
(* most MAX_ATTEMPTS typed codes and as many links.                           *)
GuessesLimited == \A k \in Code, v \in Via : compared[k][v] <= MAX_ATTEMPTS

(* A code opens one thing, unless two checks of it were under way at a time.  *)
UsedOnceUnlessAtOnce == \A k \in Code : used[k] > 1 => k \in atOnce

(* The newest code a person got works, with all its tries, once nothing is in *)
(* flight, unless it was used or has expired, or its sending crossed another  *)
(* sending or a check: those may put an older code over it, or delete it.     *)
NewestCodeWorks ==
  \A k \in Code :
    /\ Quiet /\ inbox # <<>> /\ inbox[Len(inbox)] = k
    /\ k = made /\ used[k] = 0 /\ k \notin crossed
    => /\ row.code = k
       /\ ~row.expired => \A v \in Via :
            compared[k][v] = IF row.tries[v] <= MAX_ATTEMPTS THEN row.tries[v] ELSE MAX_ATTEMPTS
=============================================================================
