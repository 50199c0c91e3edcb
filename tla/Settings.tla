------------------------------ MODULE Settings ------------------------------
(***************************************************************************)
(* The settings page of the dashboard and the routes behind it: every      *)
(* section of the page loads its part of the business document, lets a     *)
(* member change it, and sends all of it back.  There is no version in     *)
(* what is sent, so a form loaded before somebody else's save puts the     *)
(* older values back.  Business hours can be saved before they are loaded. *)
(*                                                                         *)
(* One value stands for what a section holds: the booking window of the    *)
(* profile (the retention days are converted the same way), the week of    *)
(* opening hours, the list of holidays, the list of departments and the    *)
(* place of the listing.                                                   *)
(***************************************************************************)
EXTENDS Integers

CONSTANTS
  Tab,        \* the browser tabs in which the page is open
  Number,     \* the values a member types
  Undialable, \* the one of them that is no phone number of a known country
  Null,       \* nothing stored: no limit, closed all week, an empty list
  Empty,      \* a number field a member has cleared
  Unseen,     \* the form was never filled with what is stored
  MaxEdits    \* how often somebody types

Assumptions ==
  /\ Number \subseteq Nat \ {0}
  /\ Undialable \in Number
  /\ Null # Empty /\ Null # Unseen /\ Empty # Unseen
  /\ {Null, Empty, Unseen} \cap (Number \cup {0}) = {}
  /\ MaxEdits \in Nat

VARIABLES
  store,   \* the business document, section by section
  point,   \* where the directory's map puts it: the place it was located for
  tab,     \* the page in every tab
  typings, \* how often somebody typed
  kept,    \* what was last saved by somebody who had typed it
  crossed  \* the sections in which a save put back what it had not seen change

vars == <<store, point, tab, typings, kept, crossed>>

Section == {"profile", "hours", "holidays", "departments", "listing"}
Value == Number \cup {Null, 0}

Request == [value : Value, touched : BOOLEAN, base : Value \cup {Unseen}, point : Value]

NoRequest == [value |-> Null, touched |-> FALSE, base |-> Unseen, point |-> Null]

TabState ==
  [on : Section,
   phase : {"away", "loading", "open", "saving", "located", "saved", "refused"},
   form : Value \cup {Empty}, base : Value \cup {Unseen}, touched : BOOLEAN,
   sent : Request]

Away ==
  [on |-> "profile", phase |-> "away", form |-> Null, base |-> Unseen,
   touched |-> FALSE, sent |-> NoRequest]

TypeOK ==
  /\ store \in [Section -> Value]
  /\ point \in Value
  /\ tab \in [Tab -> TabState]
  /\ typings \in 0..MaxEdits
  /\ kept \in [Section -> Value]
  /\ crossed \subseteq Section

Init ==
  /\ store = [s \in Section |-> Null]
  /\ point = Null
  /\ tab = [w \in Tab |-> Away]
  /\ typings = 0
  /\ kept = store
  /\ crossed = {}

-----------------------------------------------------------------------------
(* In the browser.                                                          *)

\* Only the opening hours are shown, as a closed week, before they are loaded.
FirstForm(s) ==
  [Away EXCEPT !.on = s, !.phase = IF s = "hours" THEN "open" ELSE "loading"]

Open(w, s) ==
  /\ tab[w].phase = "away"
  /\ tab' = [tab EXCEPT ![w] = FirstForm(s)]
  /\ UNCHANGED <<store, point, typings, kept, crossed>>

Leave(w) ==
  /\ tab[w].phase \in {"loading", "open"}
  /\ tab' = [tab EXCEPT ![w] = Away]
  /\ UNCHANGED <<store, point, typings, kept, crossed>>

\* The answer to a GET fills the form of a section s.
Fill(w, s, value) ==
  /\ tab[w].on = s
  /\ tab' = [tab EXCEPT ![w] = [@ EXCEPT !.phase = "open", !.form = value,
                                         !.base = store[s], !.touched = FALSE]]
  /\ UNCHANGED <<store, point, typings, kept, crossed>>

LoadProfile(w) == tab[w].phase = "loading" /\ Fill(w, "profile", store["profile"])
LoadHolidays(w) == tab[w].phase = "loading" /\ Fill(w, "holidays", store["holidays"])
LoadDepartments(w) ==
  tab[w].phase = "loading" /\ Fill(w, "departments", store["departments"])
LoadListing(w) == tab[w].phase = "loading" /\ Fill(w, "listing", store["listing"])

\* The days that are stored replace the rows of the week, typed or not; the
\* others stay as they are.
LoadHours(w) ==
  /\ tab[w].phase = "open"
  /\ tab[w].base = Unseen
  /\ IF store["hours"] # Null
     THEN Fill(w, "hours", store["hours"])
     ELSE /\ tab[w].on = "hours"
          /\ tab' = [tab EXCEPT ![w].base = Null]
          /\ UNCHANGED <<store, point, typings, kept, crossed>>

\* A section of which the load failed says so; only the hours stay usable.
Type(w, s, value) ==
  /\ tab[w].on = s
  /\ tab[w].phase \in {"open", "saving", "located"}
  /\ tab[w].form # value
  /\ typings < MaxEdits
  /\ typings' = typings + 1
  /\ tab' = [tab EXCEPT ![w] = [@ EXCEPT !.form = value, !.touched = TRUE]]
  /\ UNCHANGED <<store, point, kept, crossed>>

TypeProfile(w) == \E v \in Number \cup {Empty} : Type(w, "profile", v)
TypeHours(w) == \E v \in Number \cup {Null} : Type(w, "hours", v)
TypeHolidays(w) == \E v \in Number \cup {Null} : Type(w, "holidays", v)
TypeDepartments(w) == \E v \in Number \cup {Null} : Type(w, "departments", v)
TypeListing(w) == \E v \in Number \cup {Null} : Type(w, "listing", v)

\* The save button, which is disabled while a save is under way.
Save(w, s, value) ==
  /\ tab[w].on = s
  /\ tab[w].phase = "open"
  /\ tab' = [tab EXCEPT ![w] =
               [@ EXCEPT !.phase = "saving", !.touched = FALSE,
                         !.sent = [value |-> value, touched |-> tab[w].touched,
                                   base |-> tab[w].base, point |-> Null]]]
  /\ UNCHANGED <<store, point, typings, kept, crossed>>

\* A cleared number field is sent as null, one that was loaded as null as 0.
AsNumber(form) == IF form = Empty THEN Null ELSE IF form = Null THEN 0 ELSE form

SaveProfile(w) == Save(w, "profile", AsNumber(tab[w].form))
SaveHours(w) == Save(w, "hours", tab[w].form)
SaveHolidays(w) == Save(w, "holidays", tab[w].form)
SaveDepartments(w) == Save(w, "departments", tab[w].form)
SaveListing(w) == Save(w, "listing", tab[w].form)

-----------------------------------------------------------------------------
(* At the server: one $set of the fields that were sent.                    *)

AnyNumber(value) == TRUE  \* mutant: the check of PATCH /business is gone
PositiveOrNull(value) == value = Null \/ value > 0

Dialable(value) == value # Undialable

\* mutant: a field that is not sent is stored as not set.
EveryField(s, value) ==
  [t \in Section |-> IF t = s THEN value ELSE IF t = "profile" THEN Null ELSE store[t]]

\* What the document holds when `value` is saved in a section.
Stored(s, value) == [store EXCEPT ![s] = value]

Refuse(w) ==
  /\ tab' = [tab EXCEPT ![w].phase = "refused"]
  /\ UNCHANGED <<store, point, typings, kept, crossed>>

\* `kept` and `crossed` follow whose values these are.
Put(w, s) ==
  LET r == tab[w].sent
      stale == r.base # store[s] /\ r.value # store[s]
  IN /\ store' = Stored(s, r.value)
     /\ kept' = IF r.touched THEN [kept EXCEPT ![s] = r.value] ELSE kept
     /\ crossed' = IF r.touched THEN crossed \ {s}
                   ELSE IF stale THEN crossed \cup {s} ELSE crossed
     /\ tab' = [tab EXCEPT ![w].phase = "saved"]
     /\ UNCHANGED typings

Arrived(w, s) == tab[w].on = s /\ tab[w].phase = "saving"

PatchBusiness(w) ==
  /\ Arrived(w, "profile")
  /\ IF PositiveOrNull(tab[w].sent.value) THEN Put(w, "profile") /\ UNCHANGED point
                                          ELSE Refuse(w)

PutHours(w) == Arrived(w, "hours") /\ Put(w, "hours") /\ UNCHANGED point

PutHolidays(w) == Arrived(w, "holidays") /\ Put(w, "holidays") /\ UNCHANGED point

PutDepartments(w) ==
  /\ Arrived(w, "departments")
  /\ IF Dialable(tab[w].sent.value) THEN Put(w, "departments") /\ UNCHANGED point
                                    ELSE Refuse(w)

\* The place is looked up before anything is stored; nothing may be found.
Geocode(w) ==
  /\ Arrived(w, "listing")
  /\ \E found \in {tab[w].sent.value, Null} :
       tab' = [tab EXCEPT ![w] = [@ EXCEPT !.phase = "located", !.sent.point = found]]
  /\ UNCHANGED <<store, point, typings, kept, crossed>>

\* mutant: what is not found leaves the point where it was.
PointKept(r) == IF r.point = Null THEN point ELSE r.point

PointOf(r) == r.point

\* One write for the place and its point, or none when the slug is taken.
PutListing(w) ==
  /\ tab[w].on = "listing"
  /\ tab[w].phase = "located"
  /\ \/ Put(w, "listing") /\ point' = PointOf(tab[w].sent)
     \/ Refuse(w)

-----------------------------------------------------------------------------
(* The answer, in the browser again.                                        *)

\* What was typed since stays; a refused form is still to be saved.
Again(t) == [t EXCEPT !.phase = "open", !.touched = t.touched \/ t.sent.touched,
                      !.sent = NoRequest]

Refused(w) ==
  /\ tab[w].phase = "refused"
  /\ tab' = [tab EXCEPT ![w] = Again(@)]
  /\ UNCHANGED <<store, point, typings, kept, crossed>>

\* The answer, or the request, is lost: the section shows the error.
Failed(w) ==
  /\ tab[w].phase \in {"saving", "saved"}
  /\ tab' = [tab EXCEPT ![w] = Again(@)]
  /\ UNCHANGED <<store, point, typings, kept, crossed>>

Answered(w, s, after) ==
  /\ tab[w].on = s
  /\ tab[w].phase = "saved"
  /\ tab' = [tab EXCEPT ![w] = after]
  /\ UNCHANGED <<store, point, typings, kept, crossed>>

\* The form stays as it is, ...
Toasted(w) == [tab[w] EXCEPT !.phase = "open", !.base = tab[w].sent.value,
                             !.sent = NoRequest]
ProfileSaved(w) == Answered(w, "profile", Toasted(w))
HoursSaved(w) == Answered(w, "hours", Toasted(w))

\* ... or is what was stored, whatever was typed since, ...
Cleaned(w) == [Toasted(w) EXCEPT !.form = tab[w].sent.value, !.touched = FALSE]
HolidaysSaved(w) == Answered(w, "holidays", Cleaned(w))
DepartmentsSaved(w) == Answered(w, "departments", Cleaned(w))

\* ... or is loaded again.
ListingSaved(w) == Answered(w, "listing", FirstForm("listing"))

Next ==
  \E w \in Tab :
    \/ \E s \in Section : Open(w, s)
    \/ Leave(w)
    \/ LoadProfile(w) \/ LoadHours(w) \/ LoadHolidays(w) \/ LoadDepartments(w)
    \/ LoadListing(w)
    \/ TypeProfile(w) \/ TypeHours(w) \/ TypeHolidays(w) \/ TypeDepartments(w)
    \/ TypeListing(w)
    \/ SaveProfile(w) \/ SaveHours(w) \/ SaveHolidays(w) \/ SaveDepartments(w)
    \/ SaveListing(w)
    \/ PatchBusiness(w) \/ PutHours(w) \/ PutHolidays(w) \/ PutDepartments(w)
    \/ Geocode(w) \/ PutListing(w)
    \/ Refused(w) \/ Failed(w)
    \/ ProfileSaved(w) \/ HoursSaved(w) \/ HolidaysSaved(w) \/ DepartmentsSaved(w)
    \/ ListingSaved(w)

Spec == Init /\ [][Next]_vars

-----------------------------------------------------------------------------
(* What somebody typed and saved stands until somebody saves something      *)
(* else, whatever the other sections save meanwhile; an untouched form puts *)
(* other values in its place only when they changed after it was loaded, or *)
(* when it never was (the one $set per route, BusinessHoursSection.jsx:10). *)
EditsStand == \A s \in Section : store[s] = kept[s] \/ s \in crossed

(* The point on the directory's map is the point of the place beside it,    *)
(* however long the look-up took (PUT /business/listing).                   *)
PinIsOfThePlace == point = Null \/ point = store["listing"]

(* A profile nobody was asked to correct can be saved: a blank booking      *)
(* window means no limit (the label in BusinessProfileSection.jsx:100).     *)
BlankMeansNoLimit ==
  \A w \in Tab : tab[w].on = "profile" /\ tab[w].phase = "refused"
                   => tab[w].form \notin {Null, Empty}
=============================================================================
