----------------------------- MODULE Exceptions -----------------------------
(***************************************************************************)
(* What needs a person's attention (routes/exceptions.js and its page).    *)
(* The problems of one booking - its text, its e-mail, its calendar event  *)
(* - are read off the booking's own fields, which notifications/notify.js, *)
(* the calendar's worker and Twilio's receipts (webhooks/twilio.js) write; *)
(* the queue only adds a mark, resolved, to each.  A customer's request to *)
(* be deleted (routes/customerPortal.js) is a row of its own.              *)
(***************************************************************************)
EXTENDS Naturals, FiniteSets

CONSTANTS
  Sender,  \* runs of sendBookingConfirmation: of the booking, then of each retry
  Asker,   \* POST /me/delete-request, and the row each may insert
  NoText   \* no message sid

Assumptions == NoText \notin Sender

VARIABLES
  sms, email,  \* confirmation_sms_*, confirmation_email_*
  sync,        \* sync_status
  marked,      \* the problems whose exceptions.<type>.resolved_at is set
  optedOut,    \* the customer's answer about texts
  work,        \* of each run: where it is, and the updates it has gathered
  told,        \* what Twilio said of each run's text
  ask,         \* of each request to be deleted: where it is, and its row's status
  twice        \* history: requests looked at once, or a resolved one was reopened

booking == <<sms, email, sync, marked>>

vars == <<booking, optedOut, work, told, ask, twice>>

Problem == {"calendar_sync", "sms_delivery", "email_delivery"}

Untried == [status |-> "none", error |-> FALSE, sid |-> NoText]

Fails == [status |-> "failed", error |-> TRUE, sid |-> NoText]
NoProvider == [Fails EXCEPT !.status = "not_configured"]

-----------------------------------------------------------------------------
(* The lists: listExceptions, normalizeNested                                *)

Failing ==
  {p \in Problem : \/ p = "calendar_sync" /\ sync = "failed"
                   \/ p = "sms_delivery" /\ sms.error
                   \/ p = "email_delivery" /\ email.error}

Open == Failing \ marked
Resolved == Failing \cap marked

-----------------------------------------------------------------------------
(* sendBookingConfirmation: one run for the booking, one for each retry      *)

Started == {s \in Sender : work[s].pc # "idle"}

\* createBooking starts the first; a retry takes a problem of the open list.
Send(s) ==
  /\ work[s].pc = "idle"
  /\ Started = {} \/ Open \cap {"sms_delivery", "email_delivery"} # {}
  /\ work' = [work EXCEPT ![s].pc = "text"]
  /\ UNCHANGED <<booking, optedOut, told, ask, twice>>

Held == [status |-> "opted_out", error |-> FALSE, sid |-> NoText]

\* getConsent, then sendSms: held back, a failure, no provider, or a sid.
ForgottenFailure(s) ==  \* mutant: a failure of the provider leaves no error
  IF optedOut THEN {Held}
  ELSE {[Fails EXCEPT !.error = FALSE], [status |-> "sent", error |-> FALSE, sid |-> s]}

AfterText(s) ==
  IF optedOut THEN {Held}
  ELSE {Fails, NoProvider, [status |-> "sent", error |-> FALSE, sid |-> s]}

SendText(s) ==
  /\ work[s].pc = "text"
  /\ \E u \in AfterText(s) : work' = [work EXCEPT ![s] = [pc |-> "email", sms |-> u]]
  /\ UNCHANGED <<booking, optedOut, told, ask, twice>>

\* The e-mail is answered, and the one updateOne writes what was gathered: an opted-out
\* customer's old error and a failure's old sid stay.
SendEmail(s) ==
  /\ work[s].pc = "email"
  /\ LET u == work[s].sms IN
       sms' = [status |-> u.status,
               error  |-> IF u.status = "opted_out" THEN sms.error ELSE u.error,
               sid    |-> IF u.status \in {"opted_out", "failed"} THEN sms.sid ELSE u.sid]
  /\ email' \in {[status |-> "sent", error |-> FALSE], [status |-> "failed", error |-> TRUE],
                [email EXCEPT !.status = "opted_out"], [status |-> "no_contact", error |-> FALSE]}
  /\ work' = [work EXCEPT ![s].pc = "done"]
  /\ UNCHANGED <<sync, marked, optedOut, told, ask, twice>>

\* The server stops with the updates in hand.
Stop(s) ==
  /\ work[s].pc \in {"text", "email"} /\ work' = [work EXCEPT ![s].pc = "done"]
  /\ UNCHANGED <<booking, optedOut, told, ask, twice>>

\* sms-status: matched by the sid the booking has now; only the status is set.
Receipt(s) ==
  /\ work[s].pc \in {"email", "done"} /\ work[s].sms.sid = s /\ told[s] = "nothing"
  /\ \E answer \in {"delivered", "undelivered"} :
       /\ told' = [told EXCEPT ![s] = answer]
       /\ sms' = IF sms.sid = s THEN [sms EXCEPT !.status = answer] ELSE sms
  /\ UNCHANGED <<email, sync, marked, optedOut, work, ask, twice>>

AnswerTexts ==  \* STOP, START
  /\ optedOut' = ~optedOut
  /\ UNCHANGED <<booking, work, told, ask, twice>>

-----------------------------------------------------------------------------
(* The calendar's worker, as the queue sees it, and its retry                *)

Sync ==
  /\ sync = "pending" /\ sync' \in {"synced", "failed"}
  /\ UNCHANGED <<sms, email, marked, optedOut, work, told, ask, twice>>

\* Retry, or a change of the appointment.
SyncAgain ==
  /\ sync # "pending" /\ sync' = "pending"
  /\ UNCHANGED <<sms, email, marked, optedOut, work, told, ask, twice>>

-----------------------------------------------------------------------------
(* PATCH /exceptions/:type/:id                                               *)

Resolve(p) ==
  /\ p \in Open /\ marked' = marked \cup {p}
  /\ UNCHANGED <<sms, email, sync, optedOut, work, told, ask, twice>>

Reopen(p) ==
  /\ p \in Resolved /\ marked' = marked \ {p}
  /\ UNCHANGED <<sms, email, sync, optedOut, work, told, ask, twice>>

-----------------------------------------------------------------------------
(* POST /me/delete-request, and staff who work on the row                    *)

Pending == {a \in Asker : ask[a] = "pending"}

NobodyWaits == FALSE  \* mutant: inserts whatever is pending
SomeoneWaits == Pending # {}

Look(a) ==
  /\ ask[a] = "none"
  /\ ask' = [ask EXCEPT ![a] = IF SomeoneWaits THEN "refused" ELSE "looked"]
  /\ twice' = (twice \/ (~SomeoneWaits /\ \E b \in Asker : ask[b] = "looked"))
  /\ UNCHANGED <<booking, optedOut, work, told>>

Insert(a) ==
  /\ ask[a] = "looked" /\ ask' = [ask EXCEPT ![a] = "pending"]
  /\ UNCHANGED <<booking, optedOut, work, told, twice>>

Answer(a) ==
  /\ \/ ask[a] = "pending" /\ ask' = [ask EXCEPT ![a] = "resolved"] /\ UNCHANGED twice
     \/ ask[a] = "resolved" /\ ask' = [ask EXCEPT ![a] = "pending"] /\ twice' = TRUE
  /\ UNCHANGED <<booking, optedOut, work, told>>

-----------------------------------------------------------------------------
Init ==
  /\ sms = Untried /\ email = [status |-> "none", error |-> FALSE]
  /\ sync = "pending" /\ marked = {} /\ optedOut = FALSE
  /\ work = [s \in Sender |-> [pc |-> "idle", sms |-> Untried]]
  /\ told = [s \in Sender |-> "nothing"]
  /\ ask = [a \in Asker |-> "none"] /\ twice = FALSE

Next ==
  \/ \E s \in Sender : Send(s) \/ SendText(s) \/ SendEmail(s) \/ Stop(s) \/ Receipt(s)
  \/ AnswerTexts \/ Sync \/ SyncAgain
  \/ \E p \in Problem : Resolve(p) \/ Reopen(p)
  \/ \E a \in Asker : Look(a) \/ Insert(a) \/ Answer(a)

Spec == Init /\ [][Next]_vars

-----------------------------------------------------------------------------
(* Shapes of the booking's fields, the runs and the requests.                *)
TypeOK ==
  /\ sms \in [status : {"none", "sent", "failed", "not_configured", "opted_out", "delivered",
                        "undelivered"},
              error : BOOLEAN, sid : Sender \cup {NoText}]
  /\ email \in [status : {"none", "sent", "failed", "opted_out", "no_contact"}, error : BOOLEAN]
  /\ sync \in {"pending", "synced", "failed"} /\ marked \subseteq Problem
  /\ optedOut \in BOOLEAN /\ twice \in BOOLEAN
  /\ work \in [Sender -> [pc : {"idle", "text", "email", "done"},
                          sms : [status : {"none", "sent", "failed", "not_configured", "opted_out"},
                                 error : BOOLEAN, sid : Sender \cup {NoText}]]]
  /\ told \in [Sender -> {"nothing", "delivered", "undelivered"}]
  /\ ask \in [Asker -> {"none", "looked", "refused", "pending", "resolved"}]

(* A text that did not go out is in the queue until one did: once a run has   *)
(* written, either the booking carries a sid Twilio gave, or its text is in   *)
(* one of the two lists, or it was held back by the customer's own answer.    *)
UnsentIsListed ==
  sms.status \notin {"none", "opted_out"} /\ sms.sid = NoText
    => "sms_delivery" \in Open \cup Resolved

(* "One pending request in the owner's Exceptions queue", unless two were     *)
(* sent at the same time or staff reopened an old one.                        *)
OneDeleteRequest == twice \/ Cardinality(Pending) <= 1

(* "Undelivered confirmations show up in the Exceptions queue": a text Twilio *)
(* could not deliver, whose sid the booking has.  It does not: the receipt    *)
(* sets the status and the lists look at the error.                           *)
UndeliveredShows ==
  sms.sid # NoText /\ sms.status = "undelivered" => "sms_delivery" \in Open \cup Resolved
=============================================================================
