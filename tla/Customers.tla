----------------------------- MODULE Customers -----------------------------
(***************************************************************************)
(* The customer records of one business (services/customerService.js) and  *)
(* who writes them: bookings and calls, STOP and START texts               *)
(* (webhooks/twilio.js), the booking page's boxes (routes/                 *)
(* publicBooking.js), the customer's own page (routes/customerPortal.js),  *)
(* the staff's form and merges (routes/customers.js, the dashboard's       *)
(* customer page).                                                         *)
(*                                                                         *)
(* A record is found by its phone or by its id; after a merge a phone can  *)
(* get a new record.  Of a record, only the consent to texts is kept.      *)
(***************************************************************************)
EXTENDS Integers, FiniteSets

CONSTANTS
  Phone,       \* normalized phone numbers
  Booking,     \* bookings
  Handler,     \* requests in flight
  NoPhone,     \* a booking that is not made yet
  NoRecord,    \* no customer under a phone
  MaxRecords   \* bound: ids newId() gives to records

Assumptions ==
  /\ NoPhone \notin Phone /\ MaxRecords \in Nat
  /\ NoRecord \notin [id : 1..MaxRecords, smsOptIn : BOOLEAN]

VARIABLES
  records,   \* the customers collection, by phone (unique)
  ids,       \* ids given to records so far
  phone,     \* the phone each booking carries
  pending,   \* bookings whose upsertCustomer has not run, with their phone
  handler,   \* requests in flight
  stopped,   \* history: phones whose last word was "no texts"
  gone,      \* history: phones whose record a merge has deleted
  crossed,   \* history: phones that said so while another write was on its way
  stray      \* history: bookings made during a merge, or whose upsert was lost

vars == <<records, ids, phone, pending, handler, stopped, gone, crossed, stray>>

Record == [id : 1..MaxRecords, smsOptIn : BOOLEAN]

HandlerState ==
  [pc : {"idle", "sms", "web", "form", "moved", "written", "read"},
   into : Phone \cup {NoPhone}, from : Phone \cup {NoPhone},
   intoId : 0..MaxRecords, fromId : 0..MaxRecords, optIn : BOOLEAN]

Idle ==
  [pc |-> "idle", into |-> NoPhone, from |-> NoPhone, intoId |-> 0, fromId |-> 0,
   optIn |-> TRUE]

Exists(p) == records[p] # NoRecord

\* The record is still the one a handler has the id of.
IsRecord(p, id) == Exists(p) /\ records[p].id = id

Merging(h) == handler[h].pc \in {"read", "moved", "written"}

\* Handlers, other than h, that may yet write or delete the record of p.
Underway(h, p) ==
  {g \in Handler \ {h} : handler[g].pc # "idle" /\ p \in {handler[g].into, handler[g].from}}

\* p says whether it wants texts, through the handler h.
Says(h, p, wanted) ==
  /\ stopped' = IF wanted THEN stopped \ {p} ELSE stopped \cup {p}
  /\ crossed' = IF Underway(h, p) # {} THEN crossed \cup {p} ELSE crossed \ {p}

-----------------------------------------------------------------------------
(* Single writes.                                                          *)

UpsertAnew(p) ==  \* mutant: the upsert sets the defaults on a record that exists
  [records EXCEPT ![p] = [id |-> IF Exists(p) THEN records[p].id ELSE ids + 1,
                          smsOptIn |-> TRUE]]
\* upsertCustomer's findOneAndUpdate: defaults only for a new record.
Upsert(p) ==
  [records EXCEPT ![p] = IF Exists(p) THEN @ ELSE [id |-> ids + 1, smsOptIn |-> TRUE]]

IdsAfter(p) == IF Exists(p) THEN ids ELSE ids + 1

CanUpsert(p) == Exists(p) \/ ids < MaxRecords

\* A call comes in, or the file the staff import names the phone.
Known(p) ==
  /\ CanUpsert(p)
  /\ records' = Upsert(p) /\ ids' = IdsAfter(p)
  /\ UNCHANGED <<phone, pending, handler, stopped, gone, crossed, stray>>

\* createBooking commits, and sets upsertCustomer going.
Book(b, p) ==
  /\ phone[b] = NoPhone
  /\ phone' = [phone EXCEPT ![b] = p]
  /\ pending' = pending \cup {<<b, p>>}
  /\ stray' = IF \E h \in Handler : Merging(h) /\ handler[h].from = p
              THEN stray \cup {b} ELSE stray
  /\ UNCHANGED <<records, ids, handler, stopped, gone, crossed>>

\* upsertCustomer with the phone the booking was made with: a booking that a
\* merge has moved meanwhile still brings its first phone back.
UpsertBooked(b, p) ==
  /\ <<b, p>> \in pending /\ CanUpsert(p)
  /\ records' = Upsert(p) /\ ids' = IdsAfter(p)
  /\ pending' = pending \ {<<b, p>>}
  /\ UNCHANGED <<phone, handler, stopped, gone, crossed, stray>>

LoseUpsert(b, p) ==
  /\ <<b, p>> \in pending
  /\ pending' = pending \ {<<b, p>>}
  /\ stray' = stray \cup {b}
  /\ UNCHANGED <<records, ids, phone, handler, stopped, gone, crossed>>

\* PATCH /customer/me, by id, from a session that has just read the record.
PortalSet(p, v) ==
  /\ Exists(p)
  /\ records' = [records EXCEPT ![p].smsOptIn = v]
  /\ \E h \in Handler : handler[h].pc = "idle" /\ Says(h, p, v)
  /\ UNCHANGED <<ids, phone, pending, handler, gone, stray>>

-----------------------------------------------------------------------------
(* STOP, START, and the booking page's boxes: upsert, then update.         *)

SmsReply(h, p, v) ==
  /\ handler[h].pc = "idle" /\ CanUpsert(p)
  /\ records' = Upsert(p) /\ ids' = IdsAfter(p)
  /\ handler' = [handler EXCEPT ![h] = [Idle EXCEPT !.pc = "sms", !.into = p, !.optIn = v]]
  /\ UNCHANGED <<phone, pending, stopped, gone, crossed, stray>>

\* setSmsOptIn updates by phone: whatever record the phone has now, if any.
SetSmsOptIn(h) ==
  LET p == handler[h].into
  IN /\ handler[h].pc = "sms"
     /\ records' = IF Exists(p) THEN [records EXCEPT ![p].smsOptIn = handler[h].optIn]
                   ELSE records
     /\ handler' = [handler EXCEPT ![h] = Idle]
     /\ Says(h, p, handler[h].optIn)
     /\ UNCHANGED <<ids, phone, pending, gone, stray>>

WebBooking(h, p, ticked) ==
  /\ handler[h].pc = "idle" /\ CanUpsert(p)
  /\ records' = Upsert(p) /\ ids' = IdsAfter(p)
  /\ handler' = [handler EXCEPT ![h] =
       [Idle EXCEPT !.pc = "web", !.into = p, !.intoId = Upsert(p)[p].id, !.optIn = ticked]]
  /\ UNCHANGED <<phone, pending, stopped, gone, crossed, stray>>

ConsentOfTick(old, ticked) == ticked  \* mutant: the box is stored as it is
\* A ticked box never re-enables an existing STOP.
ConsentAfterTick(old, ticked) == old /\ ticked

\* recordWebConsent updates by id.
RecordWebConsent(h) ==
  LET p == handler[h].into
  IN /\ handler[h].pc = "web"
     /\ records' = IF IsRecord(p, handler[h].intoId)
                   THEN [records EXCEPT ![p].smsOptIn = ConsentAfterTick(@, handler[h].optIn)]
                   ELSE records
     /\ handler' = [handler EXCEPT ![h] = Idle]
     /\ IF handler[h].optIn THEN UNCHANGED <<stopped, crossed>> ELSE Says(h, p, FALSE)
     /\ UNCHANGED <<ids, phone, pending, gone, stray>>

-----------------------------------------------------------------------------
(* The staff's form: a copy of the record, saved whole.                    *)

OpenForm(h, p) ==
  /\ handler[h].pc = "idle" /\ Exists(p)
  /\ handler' = [handler EXCEPT ![h] =
       [Idle EXCEPT !.pc = "form", !.into = p, !.intoId = records[p].id,
                    !.optIn = records[p].smsOptIn]]
  /\ UNCHANGED <<records, ids, phone, pending, stopped, gone, crossed, stray>>

\* updateCustomer.  A box the staff have changed speaks for the customer.
SaveForm(h, v) ==
  LET p == handler[h].into
  IN /\ handler[h].pc = "form"
     /\ records' = IF IsRecord(p, handler[h].intoId) THEN [records EXCEPT ![p].smsOptIn = v]
                   ELSE records
     /\ handler' = [handler EXCEPT ![h] = Idle]
     /\ IF v = handler[h].optIn THEN UNCHANGED <<stopped, crossed>> ELSE Says(h, p, v)
     /\ UNCHANGED <<ids, phone, pending, gone, stray>>

-----------------------------------------------------------------------------
(* mergeCustomers: one read, then four writes without a transaction.       *)

EitherConsent(a, b) == a \/ b  \* mutant: the most permissive answer
\* The most restrictive answer of the two.
MergedConsent(a, b) == a /\ b

MergeRead(h, f, i) ==
  /\ handler[h].pc = "idle" /\ f # i /\ Exists(f) /\ Exists(i)
  /\ handler' = [handler EXCEPT ![h] =
       [pc |-> "read", into |-> i, from |-> f, intoId |-> records[i].id,
        fromId |-> records[f].id,
        optIn |-> MergedConsent(records[i].smsOptIn, records[f].smsOptIn)]]
  /\ UNCHANGED <<records, ids, phone, pending, stopped, gone, crossed, stray>>

MoveNone(f, i) == phone  \* mutant: the bookings stay behind
\* updateMany of the bookings (and the call logs).
MovedTo(f, i) == [b \in Booking |-> IF phone[b] = f THEN i ELSE phone[b]]

MergeMove(h) ==
  /\ handler[h].pc = "read"
  /\ phone' = MovedTo(handler[h].from, handler[h].into)
  /\ handler' = [handler EXCEPT ![h].pc = "moved"]
  /\ stray' = IF \/ ~IsRecord(handler[h].into, handler[h].intoId)
                 \/ \E g \in Handler \ {h} : Merging(g) /\ handler[g].from = handler[h].into
              THEN stray \cup {b \in Booking : phone[b] = handler[h].from} ELSE stray
  /\ UNCHANGED <<records, ids, pending, stopped, gone, crossed>>

MergeWrite(h) ==
  LET i == handler[h].into
  IN /\ handler[h].pc = "moved"
     /\ records' = IF IsRecord(i, handler[h].intoId)
                   THEN [records EXCEPT ![i].smsOptIn = handler[h].optIn] ELSE records
     /\ handler' = [handler EXCEPT ![h].pc = "written"]
     /\ UNCHANGED <<ids, phone, pending, stopped, gone, crossed, stray>>

MergeDelete(h) ==
  LET f == handler[h].from
  IN /\ handler[h].pc = "written"
     /\ records' = IF IsRecord(f, handler[h].fromId) THEN [records EXCEPT ![f] = NoRecord]
                   ELSE records
     /\ gone' = gone \cup {f}
     /\ handler' = [handler EXCEPT ![h] = Idle]
     /\ UNCHANGED <<ids, phone, pending, stopped, crossed, stray>>

\* The process stops, or the page is closed.
Die(h) ==
  /\ handler[h].pc # "idle"
  /\ handler' = [handler EXCEPT ![h] = Idle]
  /\ UNCHANGED <<records, ids, phone, pending, stopped, gone, crossed, stray>>

-----------------------------------------------------------------------------
Init ==
  /\ records = [p \in Phone |-> NoRecord] /\ ids = 0
  /\ phone = [b \in Booking |-> NoPhone] /\ pending = {}
  /\ handler = [h \in Handler |-> Idle]
  /\ stopped = {} /\ gone = {} /\ crossed = {} /\ stray = {}

Next ==
  \/ \E p \in Phone : Known(p)
  \/ \E b \in Booking, p \in Phone : Book(b, p) \/ UpsertBooked(b, p) \/ LoseUpsert(b, p)
  \/ \E p \in Phone, v \in BOOLEAN : PortalSet(p, v)
  \/ \E h \in Handler, p \in Phone, v \in BOOLEAN : SmsReply(h, p, v) \/ WebBooking(h, p, v)
  \/ \E h \in Handler, p \in Phone : OpenForm(h, p)
  \/ \E h \in Handler, v \in BOOLEAN : SaveForm(h, v)
  \/ \E h \in Handler, f, i \in Phone : MergeRead(h, f, i)
  \/ \E h \in Handler : \/ SetSmsOptIn(h) \/ RecordWebConsent(h) \/ MergeMove(h)
                        \/ MergeWrite(h) \/ MergeDelete(h) \/ Die(h)

Spec == Init /\ [][Next]_vars

-----------------------------------------------------------------------------
(* Shapes of records, bookings and handlers; ids are given once.           *)
TypeOK ==
  /\ records \in [Phone -> Record \cup {NoRecord}]
  /\ ids \in 0..MaxRecords
  /\ \A p, q \in Phone : Exists(p) /\ IsRecord(q, records[p].id) => p = q
  /\ phone \in [Booking -> Phone \cup {NoPhone}] /\ pending \subseteq Booking \X Phone
  /\ handler \in [Handler -> HandlerState]

(* Who said STOP (by text, on the booking page, on their own page) stays     *)
(* opted out until they say otherwise, through bookings, forms and merges:   *)
(* unless a form, a merge or a START was on its way when they said it, or a  *)
(* merge has deleted their record.                                           *)
StopStays ==
  \A p \in stopped \ (crossed \cup gone) : Exists(p) => ~records[p].smsOptIn

(* Every booking has a customer record, however records are merged: unless   *)
(* it was made while its customer was being merged, or merges crossed.       *)
BookingsHaveRecords ==
  \A b \in Booking \ stray :
    phone[b] # NoPhone => Exists(phone[b]) \/ \E p \in Phone : <<b, p>> \in pending
=============================================================================
