------------------------------ MODULE Account ------------------------------
(***************************************************************************)
(* One account after its sign-up, in the hands of four: the owner closes   *)
(* and reopens it and buys its phone number (routes/settings.js, phone-    *)
(* Number.js; DeleteAccountSection.jsx, PhoneNumberSection.jsx), billing   *)
(* suspends it and lets it go (services/billingService.js), the platform   *)
(* suspends, reactivates and removes it (routes/platform.js; platform/     *)
(* companies/[id]/page.jsx), customers leave rows in it.  auth.js lets no  *)
(* request of a suspended account in, but looks only once, at its start.   *)
(***************************************************************************)
EXTENDS Integers, FiniteSets

CONSTANTS
  Request,    \* the owner's requests and the customers', in flight
  Collection, \* collections whose rows belong to the account
  MaxNumbers  \* bound: phone numbers bought

Assumptions == MaxNumbers \in Nat /\ "businesses" \notin Collection

VARIABLES
  exists,    \* the row of businesses
  status, reason,
  closed,    \* deleted_at
  number,    \* phone_number
  rows,      \* collections that hold rows of the account
  request,
  removal,   \* DELETE /businesses/:id: what it has still to delete
  seen,      \* the status the owner's page and the platform's page were loaded with
  bought,    \* numbers the platform pays for
  charge,    \* a payment is on its way
  held,      \* history: a person at the platform suspended it and has not let it go
  overtaken, \* history: that hold met a request in flight, or billing put its own over it
  mishap,    \* history: two purchases at a time, or a stop after one
  late       \* history: a row was being written while a removal ran

account == <<exists, status, reason, closed, number>>

history == <<held, overtaken, mishap, late>>

vars == <<account, rows, request, removal, seen, bought, charge, history>>

Status == {"active", "suspended", "deleted"}

NoReason == "none"

Kind == {"none", "close", "restore", "find number", "buy number", "store number", "insert"}

Goto(r, pc) == request' = [request EXCEPT ![r] = pc]

-----------------------------------------------------------------------------
(* Requests of the owner, and rows that customers leave.                   *)

AnyAccount == exists  \* mutant: a suspended account is let in
\* resolveSessionFromToken; the owner's row must be there.
LetIn == exists /\ status # "suspended" /\ "admins" \in rows

\* One of the two buttons, as the page was loaded; the API does not look again.
Presses(r, kind) ==
  /\ LetIn /\ request[r] = "none"
  /\ kind = IF seen.owner = "deleted" THEN "restore" ELSE "close"
  /\ Goto(r, kind)
  /\ UNCHANGED <<account, rows, removal, seen, bought, charge, history>>

Close(r) ==
  /\ request[r] = "close" /\ exists
  /\ status' = "deleted" /\ closed' = TRUE
  /\ Goto(r, "none")
  /\ UNCHANGED <<exists, reason, number, rows, removal, seen, bought, charge, held,
                 overtaken, mishap, late>>

\* Whatever the status was, and without a look at who suspended it.
Restore(r) ==
  /\ request[r] = "restore" /\ exists
  /\ status' = "active" /\ closed' = FALSE
  /\ Goto(r, "none")
  /\ UNCHANGED <<exists, reason, number, rows, removal, seen, bought, charge, held,
                 overtaken, mishap, late>>

AnyNumber == TRUE  \* mutant: an account may buy another
NoNumber == number = 0

\* POST /phone-number/provision: a number is looked for, bought, and kept.
AskNumber(r) ==
  /\ LetIn /\ NoNumber /\ request[r] = "none"
  /\ Goto(r, "find number")
  /\ mishap' = (mishap \/ \E q \in Request :
                  request[q] \in {"find number", "buy number", "store number"})
  /\ UNCHANGED <<account, rows, removal, seen, bought, charge, held, overtaken, late>>

BuyNumber(r) ==
  /\ request[r] = "find number" /\ bought < MaxNumbers
  /\ bought' = bought + 1 /\ Goto(r, "store number")
  /\ UNCHANGED <<account, rows, removal, seen, charge, history>>

StoreNumber(r) ==
  /\ request[r] = "store number"
  /\ number' = IF exists THEN bought ELSE number
  /\ Goto(r, "none")
  /\ UNCHANGED <<exists, status, reason, closed, rows, removal, seen, bought, charge, history>>

\* A request ends without its write: it was refused, the server stopped.
Abandon(r) ==
  /\ request[r] # "none" /\ Goto(r, "none")
  /\ mishap' = (mishap \/ request[r] = "store number")
  /\ UNCHANGED <<account, rows, removal, seen, bought, charge, held, overtaken, late>>

\* A booking page, a call or the dashboard found the account, and writes a row later.
StartInsert(r) ==
  /\ exists /\ status = "active" /\ request[r] = "none" /\ Goto(r, "insert")
  /\ late' = (late \/ removal # {})
  /\ UNCHANGED <<account, rows, removal, seen, bought, charge, held, overtaken, mishap>>

Insert(r, c) ==
  /\ request[r] = "insert" /\ c # "admins" /\ rows' = rows \cup {c} /\ Goto(r, "none")
  /\ UNCHANGED <<account, removal, seen, bought, charge, history>>

-----------------------------------------------------------------------------
(* Billing.                                                                *)

\* closeBillingPeriod, an account that is closed included.  The charge may settle
\* later.
Suspend ==
  /\ exists /\ status' = "suspended" /\ reason' = "billing"
  /\ charge' = TRUE
  /\ overtaken' = (overtaken \/ held)
  /\ UNCHANGED <<exists, closed, number, rows, request, removal, seen, bought, held, mishap, late>>

AnyHold == status = "suspended"  \* mutant: whoever suspended it
BillingHold == status = "suspended" /\ reason = "billing"

\* The payment comes in: clearBillingHold.
Paid ==
  /\ charge /\ charge' = FALSE
  /\ status' = IF exists /\ BillingHold THEN "active" ELSE status
  /\ reason' = IF exists /\ BillingHold THEN NoReason ELSE reason
  /\ UNCHANGED <<exists, closed, number, rows, request, removal, seen, bought, history>>

-----------------------------------------------------------------------------
(* The platform.                                                           *)

\* A page is loaded.
Load(who) ==
  /\ exists /\ who = "owner" => LetIn
  /\ seen' = [seen EXCEPT ![who] = status]
  /\ UNCHANGED <<account, rows, request, removal, bought, charge, history>>

\* toggleStatus: the opposite of what the page was loaded with.
Toggle ==
  /\ exists
  /\ status' = IF seen.platform = "suspended" THEN "active" ELSE "suspended"
  /\ reason' = NoReason
  /\ held' = (status' = "suspended")
  /\ overtaken' = (\E r \in Request : request[r] \in {"close", "restore"})
  /\ UNCHANGED <<exists, closed, number, rows, request, removal, seen, bought, charge, mishap, late>>

\* DELETE /businesses/:id
StartRemoval ==
  /\ exists /\ removal = {}
  /\ removal' = Collection \cup {"businesses"}
  /\ late' = (late \/ \E r \in Request : request[r] = "insert")
  /\ UNCHANGED <<account, rows, request, seen, bought, charge, held, overtaken, mishap>>

\* A collection that fails leaves the account for another try.
RemoveRows(c) ==
  /\ c \in removal \ {"businesses"}
  /\ \/ rows' = rows \ {c} /\ removal' = removal \ {c}
     \/ rows' = rows /\ removal' = removal \ {c, "businesses"}
  /\ UNCHANGED <<account, request, seen, bought, charge, history>>

AnyTime == TRUE  \* mutant: the account goes while its rows are being deleted
RowsDone == removal = {"businesses"}

RemoveAccount ==
  /\ "businesses" \in removal /\ RowsDone
  /\ exists' = FALSE /\ removal' = removal \ {"businesses"}
  /\ UNCHANGED <<status, reason, closed, number, rows, request, seen, bought, charge, history>>

Init ==
  /\ exists = TRUE /\ status = "active" /\ reason = NoReason /\ closed = FALSE /\ number = 0
  /\ rows = Collection
  /\ request = [r \in Request |-> "none"]
  /\ removal = {} /\ seen = [who \in {"owner", "platform"} |-> "active"]
  /\ bought = 0 /\ charge = FALSE
  /\ held = FALSE /\ overtaken = FALSE /\ mishap = FALSE /\ late = FALSE

Next ==
  \/ \E r \in Request :
       \/ \E kind \in {"close", "restore"} : Presses(r, kind)
       \/ Close(r) \/ Restore(r)
       \/ AskNumber(r) \/ BuyNumber(r) \/ StoreNumber(r) \/ Abandon(r)
       \/ StartInsert(r)
       \/ \E c \in Collection : Insert(r, c)
  \/ Suspend \/ Paid
  \/ \E who \in {"owner", "platform"} : Load(who)
  \/ Toggle \/ StartRemoval \/ RemoveAccount
  \/ \E c \in Collection : RemoveRows(c)

Spec == Init /\ [][Next]_vars

-----------------------------------------------------------------------------
(* Shapes of the row, the requests and the removal.                          *)
TypeOK ==
  /\ exists \in BOOLEAN /\ status \in Status /\ reason \in {NoReason, "billing"}
  /\ closed \in BOOLEAN /\ number \in 0..MaxNumbers /\ bought \in 0..MaxNumbers
  /\ rows \subseteq Collection /\ removal \subseteq Collection \cup {"businesses"}
  /\ request \in [Request -> Kind] /\ seen \in [{"owner", "platform"} -> Status]

(* A suspension by a person at the platform stands until a person lifts it:   *)
(* no payment, no closing and reopening ends it, unless billing had put its   *)
(* own over it or the owner's request was let in before it.                   *)
HoldStands == exists /\ held /\ ~overtaken => status = "suspended"

(* The platform pays for one number, the one callers reach, unless it was     *)
(* bought twice at once or the server stopped before it was stored.           *)
NumberPaidOnce ==
  ~mishap =>
    /\ bought <= 1
    /\ exists /\ bought = 1 => number = 1 \/ \E r \in Request : request[r] = "store number"

(* "A partial failure just leaves rows for a re-run": when the account is     *)
(* gone, nothing of it is left that no re-run could find, unless a row was    *)
(* being written meanwhile.                                                   *)
NothingLeft == ~exists /\ ~late => rows = {}
=============================================================================
