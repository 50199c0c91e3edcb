------------------------------- MODULE Pages --------------------------------
(***************************************************************************)
(* The pages of the dashboard that load a list: the session kept in the    *)
(* browser and shared by its tabs, the check before a page is shown, the   *)
(* hook every page loads through (only the newest request counts), the     *)
(* answers that end a session, and the customers page, whose "show more"   *)
(* does not go through that hook.                                          *)
(*                                                                         *)
(* An answer may be late by any time: between a request and its answer the *)
(* search may change, the tab may move on, and the password may change.    *)
(***************************************************************************)
EXTENDS Integers, FiniteSets

CONSTANTS
  Tab,          \* the tabs of one browser
  Search,       \* what can be searched for
  MaxSessions,  \* how often a session is issued
  MaxLoads,     \* how often one page loads its list
  MaxCalls      \* how many requests are under way at once

Assumptions ==
  /\ Tab # {}
  /\ Search # {}
  /\ MaxSessions \in Nat \ {0}
  /\ MaxLoads \in Nat \ {0}
  /\ MaxCalls \in Nat \ {0}

VARIABLES
  token,     \* the session in localStorage, 0 when there is none
  issued,    \* the sessions issued: 1..issued
  since,     \* the server accepts the sessions since this one
  tab,       \* what each tab shows
  calls,     \* the requests that are not answered yet, in the browser's eyes
  ended,     \* the last session that an answer ended, 0 if none
  bystander  \* that answer was to a request of another session

vars == <<token, issued, since, tab, calls, ended, bystander>>

Listing == {"calls", "customers", "bookings"}
Place == Listing \cup {"login", "checking", "settings"}
Kind == {"me", "list", "more", "export", "password", "gone"}
Answer == {"none", "ok", "session", "refused", "failed"}

TabState ==
  [at : Place, wants : Listing \cup {"settings"}, query : Search, latest : 0..MaxLoads,
   rows : SUBSET Search, loading : BOOLEAN, error : BOOLEAN, more : BOOLEAN,
   mixed : BOOLEAN]

Call ==
  [tab : Tab, kind : Kind, n : 0..MaxLoads, query : Search, as : 0..MaxSessions,
   answer : Answer, session : 0..MaxSessions]

FirstSearch == CHOOSE q \in Search : TRUE

Shut(at, wants) ==
  [at |-> at, wants |-> wants, query |-> FirstSearch, latest |-> 0, rows |-> {},
   loading |-> FALSE, error |-> FALSE, more |-> FALSE, mixed |-> FALSE]

TypeOK ==
  /\ token \in 0..MaxSessions
  /\ issued \in 0..MaxSessions
  /\ since \in 1..(MaxSessions + 1)
  /\ tab \in [Tab -> TabState]
  /\ calls \subseteq Call
  /\ ended \in 0..MaxSessions
  /\ bystander \in BOOLEAN

Init ==
  /\ token = 0 /\ issued = 0 /\ since = 1
  /\ tab = [w \in Tab |-> Shut("login", "calls")]
  /\ calls = {}
  /\ ended = 0 /\ bystander = FALSE

Ask(w, kind, n, query) ==
  [tab |-> w, kind |-> kind, n |-> n, query |-> query, as |-> token,
   answer |-> "none", session |-> 0]

\* The requests of a component that is no longer shown still get answers.
Orphans(w) ==
  {IF c.tab = w THEN [c EXCEPT !.kind = "gone", !.n = 0, !.query = FirstSearch] ELSE c :
     c \in calls}

Room == Cardinality(calls) < MaxCalls

Session == <<token, issued, since, ended, bystander>>

-----------------------------------------------------------------------------
(* The session.                                                             *)

\* POST /login and storeTokenForRole; a second factor is part of it.
SignIn(w) ==
  /\ tab[w].at = "login"
  /\ issued < MaxSessions
  /\ issued' = issued + 1
  /\ token' = issued + 1
  /\ tab' = [tab EXCEPT ![w] = Shut("login", "calls")]
  /\ UNCHANGED <<since, calls, ended, bystander>>

\* A page is opened: without a session that is the way back to the login page,
\* with one the server is asked whether it still stands.
OpenPage(w, page) ==
  /\ Room
  /\ IF token = 0
     THEN tab' = [tab EXCEPT ![w] = Shut("login", "calls")] /\ UNCHANGED calls
     ELSE /\ tab' = [tab EXCEPT ![w] = Shut("checking", page)]
          /\ calls' = Orphans(w) \cup {Ask(w, "me", 0, FirstSearch)}
  /\ UNCHANGED Session

LogOut(w) ==
  /\ tab[w].at \in Listing \cup {"settings"}
  /\ token' = 0
  /\ tab' = [tab EXCEPT ![w] = Shut("login", "calls")]
  /\ calls' = Orphans(w)
  /\ UNCHANGED <<issued, since, ended, bystander>>

\* The password is changed somewhere else, or a member is suspended.
EndedElsewhere ==
  /\ since <= issued
  /\ since' = issued + 1
  /\ UNCHANGED <<token, issued, tab, calls, ended, bystander>>

-----------------------------------------------------------------------------
(* The hook: useApi.                                                        *)

Begin(w, query) ==
  /\ Room /\ tab[w].latest < MaxLoads
  /\ tab' = [tab EXCEPT ![w].query = query, ![w].latest = @ + 1,
                        ![w].loading = TRUE, ![w].error = FALSE]
  /\ calls' = calls \cup {Ask(w, "list", tab[w].latest + 1, query)}
  /\ UNCHANGED Session

\* Calls: the Filter button applies the fields, changed or not.
FilterCalls(w, q) == tab[w].at = "calls" /\ Begin(w, q)

\* Customers: the same search again is a reload.
SearchCustomers(w, q) == tab[w].at = "customers" /\ Begin(w, q)

\* Bookings: typing, after a pause, and the status reload when they differ.
SearchBookings(w, q) == tab[w].at = "bookings" /\ q # tab[w].query /\ Begin(w, q)

\* ... and a booking saved in the modal reloads them, as does "try again".
SavedBooking(w) == tab[w].at = "bookings" /\ Begin(w, tab[w].query)

Anything(c) == TRUE  \* mutant: an answer counts, however old its request
Current(c) == c.n = tab[c.tab].latest

Listed(c) ==
  IF ~Current(c) THEN tab
  ELSE [tab EXCEPT ![c.tab] =
          IF c.answer = "ok"
          THEN [@ EXCEPT !.rows = {c.query}, !.loading = FALSE, !.mixed = FALSE]
          ELSE [@ EXCEPT !.error = TRUE, !.loading = FALSE]]

-----------------------------------------------------------------------------
(* What does not go through the hook.                                       *)

\* The next rows of the search, when all that were fetched are shown.
ShowMore(w) ==
  /\ tab[w].at = "customers"
  /\ Room /\ ~tab[w].loading /\ tab[w].rows # {} /\ ~tab[w].more
  /\ tab' = [tab EXCEPT ![w].more = TRUE]
  /\ calls' = calls \cup {Ask(w, "more", 0, tab[w].query)}
  /\ UNCHANGED Session

\* They are added to the rows there are by now, of whatever search.
MoreListed(c) ==
  [tab EXCEPT ![c.tab] =
     IF c.answer = "ok"
     THEN [tab[c.tab] EXCEPT !.more = FALSE, !.rows = @ \cup {c.query},
             !.mixed = @ \/ c.query # tab[c.tab].query \/ tab[c.tab].loading]
     ELSE [@ EXCEPT !.more = FALSE]]

ExportCsv(w) ==
  /\ tab[w].at = "customers"
  /\ Room
  /\ calls' = calls \cup {Ask(w, "export", 0, FirstSearch)}
  /\ UNCHANGED <<Session, tab>>

\* One at a time, the button is disabled meanwhile.
ChangePassword(w) ==
  /\ tab[w].at = "settings"
  /\ Room /\ \A c \in calls : ~(c.tab = w /\ c.kind = "password")
  /\ calls' = calls \cup {Ask(w, "password", 0, FirstSearch)}
  /\ UNCHANGED <<Session, tab>>

-----------------------------------------------------------------------------
(* The server: sessions that were ended get 401 with the code 'session'.    *)

Accepted(c) == c.as >= since

Replaced(c, answer, session) ==
  calls' = (calls \ {c}) \cup {[c EXCEPT !.answer = answer, !.session = session]}

NewPassword(c) ==
  /\ issued < MaxSessions
  /\ issued' = issued + 1
  /\ since' = issued + 1
  /\ Replaced(c, "ok", issued + 1)
  /\ UNCHANGED <<token, tab, ended, bystander>>

Serve(c) ==
  /\ c.answer = "none"
  /\ \/ ~Accepted(c) /\ Replaced(c, "session", 0) /\ UNCHANGED <<Session, tab>>
     \/ /\ Accepted(c) /\ c.kind # "password"
        /\ Replaced(c, "ok", 0) /\ UNCHANGED <<Session, tab>>
     \/ Accepted(c) /\ c.kind = "password" /\ NewPassword(c)
     \* the current password is wrong: a 401 without that code
     \/ /\ Accepted(c) /\ c.kind = "password"
        /\ Replaced(c, "refused", 0) /\ UNCHANGED <<Session, tab>>

\* No answer in 30 seconds (120 for an export), or an error; what was asked may
\* have been done.
TimeOut(c) ==
  /\ c.answer \in {"none", "ok"}
  /\ Replaced(c, "failed", 0)
  /\ UNCHANGED <<Session, tab>>

-----------------------------------------------------------------------------
(* The answer arrives.                                                      *)

AnyRefusal(c) == c.answer \in {"session", "refused"} /\ token # 0  \* mutant: every 401
SessionEnded(c) == c.answer = "session" /\ token # 0

\* Forget the session and load the login page, which ends what the tab awaits.
EndSession(c) ==
  /\ SessionEnded(c)
  /\ token' = 0
  /\ ended' = token
  /\ bystander' = (c.as # token)
  /\ tab' = [tab EXCEPT ![c.tab] = Shut("login", "calls")]
  /\ calls' = {d \in calls : d.tab # c.tab}
  /\ UNCHANGED <<issued, since>>

Arrived(c) == c.answer # "none" /\ ~SessionEnded(c) /\ calls' = calls \ {c}

\* The page is shown, also when the check failed for another reason than 401.
Checked(c) ==
  /\ c.kind = "me" /\ Arrived(c)
  /\ LET w == c.tab
         page == tab[w].wants
     IN IF c.answer = "session"
        THEN tab' = [tab EXCEPT ![w] = Shut("login", "calls")]
        ELSE tab' = [tab EXCEPT ![w] = Shut(page, page)]
  /\ UNCHANGED Session

\* A list is loaded as soon as its page is shown.
FirstLoad(w) ==
  /\ tab[w].at \in Listing /\ tab[w].latest = 0
  /\ Begin(w, tab[w].query)

ListArrives(c) == c.kind = "list" /\ Arrived(c) /\ tab' = Listed(c) /\ UNCHANGED Session

MoreArrives(c) ==
  c.kind = "more" /\ Arrived(c) /\ tab' = MoreListed(c) /\ UNCHANGED Session

\* A downloaded file, or the answer to something no longer shown.
OtherArrives(c) ==
  c.kind \in {"export", "gone"} /\ Arrived(c) /\ UNCHANGED <<Session, tab>>

\* The fresh session takes the place of the one that was ended.
PasswordChanged(c) ==
  /\ c.kind = "password" /\ Arrived(c)
  /\ token' = IF c.answer = "ok" THEN c.session ELSE token
  /\ UNCHANGED <<issued, since, ended, bystander, tab>>

Next ==
  \/ \E w \in Tab :
       \/ SignIn(w) \/ LogOut(w) \/ FirstLoad(w)
       \/ \E page \in Listing \cup {"settings"} : OpenPage(w, page)
       \/ \E q \in Search : FilterCalls(w, q) \/ SearchCustomers(w, q) \/ SearchBookings(w, q)
       \/ SavedBooking(w) \/ ShowMore(w) \/ ExportCsv(w) \/ ChangePassword(w)
  \/ \E c \in calls :
       \/ Serve(c) \/ TimeOut(c) \/ EndSession(c) \/ Checked(c)
       \/ ListArrives(c) \/ MoreArrives(c) \/ OtherArrives(c) \/ PasswordChanged(c)
  \/ EndedElsewhere

Spec == Init /\ [][Next]_vars

-----------------------------------------------------------------------------
(* Rows on a page are rows of the search above them, whichever order the    *)
(* answers came in, unless more of an earlier search was added              *)
(* (useApi.js:16-23, customers/page.jsx:40).                                *)
RowsOfTheSearch ==
  \A w \in Tab : ~tab[w].loading /\ ~tab[w].error /\ ~tab[w].mixed
                   => tab[w].rows \subseteq {tab[w].query}

(* A page that says it is loading has its newest request under way: it does *)
(* not say so for ever (useApi.js:21-23, the timeout of lib/api.js).        *)
LoadingIsReal ==
  \A w \in Tab : tab[w].loading =>
    \E c \in calls : c.tab = w /\ c.kind = "list" /\ c.n = tab[w].latest

(* An answer signs out only who the server no longer accepts, a wrong       *)
(* password does not; except that the answer to a request of an ended       *)
(* session signs out the session that took its place (lib/api.js:47).       *)
OnlyDeadSessionsEnd == ended = 0 \/ ended < since \/ bystander
=============================================================================
