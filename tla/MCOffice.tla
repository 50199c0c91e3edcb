------------------------------- MODULE MCOffice -------------------------------
(***************************************************************************)
(* What happens on the business's and the platform's side, part by part: a *)
(* member's way in (entering), a new account (signing), its end (closing), *)
(* services, staff and time off (stocking), what the voice agent knows     *)
(* (teaching), the counters of wrong passwords (guarding), the demo        *)
(* businesses (showing), the settings page (setting), the pages that list  *)
(* things, with the session they share (browsing), the setup guide         *)
(* (starting), and the calendar (minding).                                 *)
(***************************************************************************)
EXTENDS Integers, FiniteSets, TLC

CONSTANTS
  Actor, Attempt, Thing, Anyone, Unseen, None,
  MaxPasswords, MaxSecrets, MaxTime,           \* entering
  MaxSlug,                                     \* signing
  Owned, MaxNumbers,                      \* closing
  Service, Staff, Time, Instant, Booking,      \* stocking, and minding's bookings
  MaxEdits, MaxVersions,                       \* teaching, and setting's edits
  MaxPerEmail, MaxPerIp, MaxCodes, Threshold, MaxAttempts,  \* guarding
  MaxRuns,                                     \* showing
  Number, Undialable,                          \* setting
  Window, MaxSessions, MaxLoads, MaxRequests,  \* browsing, and starting's loads
  Channel, MaxTestCalls, MaxCalls,             \* starting, and minding's calls
  Slot, Day, DayLength                         \* minding

VARIABLES
  part,
  admin, business, now, request, sessions, pendings, made, app, proved,
  changedAt, accepted, atOnce, overtook, crossing, restored,
  slug, owner, rest, attempt, answer, cut,
  exists, status, reason, closed, number, rows, visit, removal, seen, bought,
  charge, held, overtaken, mishap, late,
  clock, services, staff, off, book, work, raced,
  draft, live, versions, form, publishing, edits, published,
  count, alive, account, trying, sent, let, wrong, told, doubled, astray,
  demo, begun, run, mixed, emptied,
  store, point, tab, typings, kept, missed,
  token, issued, since, screen, calls, ended, bystander,
  done, tries, rang, page, steps, behind, deleted, missing, uncounted,
  diary, shown, stale, fetch, drops, dialog, lists, saves

entering ==
  <<admin, business, now, request, sessions, pendings, made, app, proved,
    changedAt, accepted, atOnce, overtook, crossing, restored>>
signing == <<slug, owner, rest, attempt, answer, cut>>
closing ==
  <<exists, status, reason, closed, number, rows, visit, removal, seen, bought,
    charge, held, overtaken, mishap, late>>
stocking == <<clock, services, staff, off, book, work, raced>>
teaching == <<draft, live, versions, form, publishing, edits, published>>
guarding ==
  <<count, alive, account, trying, sent, let, wrong, told, doubled, astray>>
showing == <<demo, begun, run, mixed, emptied>>
setting == <<store, point, tab, typings, kept, missed>>
browsing == <<token, issued, since, screen, calls, ended, bystander>>
starting == <<done, tries, rang, page, steps, behind, deleted, missing, uncounted>>
minding == <<diary, shown, stale, fetch, drops, dialog, lists, saves>>

everything ==
  <<part, entering, signing, closing, stocking, teaching, guarding, showing,
    setting, browsing, starting, minding>>

M == INSTANCE Access WITH Request <- Actor, held <- app

N == INSTANCE SignUp WITH Email <- Thing, NoEmail <- None

A == INSTANCE Account WITH Request <- Actor, Collection <- Owned, request <- visit

C == INSTANCE Catalog WITH Handler <- Actor, now <- clock

K == INSTANCE Knowledge WITH
  Request <- Actor, work <- publishing, crossed <- published

L == INSTANCE Lockout WITH
  Request <- Actor, admin <- account, request <- trying, raced <- doubled

D == INSTANCE Demo WITH
  Process <- Actor, Real <- Anyone, Nobody <- None, rows <- demo, crossed <- mixed

S == INSTANCE Settings WITH Tab <- Actor, Null <- None, Empty <- Anyone, crossed <- missed

P == INSTANCE Pages WITH
  Tab <- Window, Search <- Thing, MaxCalls <- MaxRequests, tab <- screen

O == INSTANCE Onboarding WITH calls <- steps, late <- deleted

B == INSTANCE Desk WITH
  Time <- Slot, DayOf <- [t \in Slot |-> t \div DayLength], NoTime <- None,
  Gone <- Unseen, NoDay <- None, Nobody <- Anyone, behind <- stale, form <- dialog

ASSUME Sane ==
  /\ M!Assumptions /\ N!Assumptions /\ A!Assumptions /\ C!Assumptions
  /\ K!Assumptions /\ L!Assumptions /\ D!Assumptions /\ S!Assumptions
  /\ P!Assumptions /\ O!Assumptions /\ B!Assumptions

\* A part that is not looked at.
NoEntering ==
  /\ admin = None /\ business = None /\ now = None /\ request = None
  /\ sessions = None /\ pendings = None /\ made = None /\ app = None
  /\ proved = None /\ changedAt = None /\ accepted = None /\ atOnce = None
  /\ overtook = None /\ crossing = None /\ restored = None
NoSigning ==
  /\ slug = None /\ owner = None /\ rest = None /\ attempt = None
  /\ answer = None /\ cut = None
NoClosing ==
  /\ exists = None /\ status = None /\ reason = None /\ closed = None
  /\ number = None /\ rows = None /\ visit = None /\ removal = None
  /\ seen = None /\ bought = None /\ charge = None /\ held = None
  /\ overtaken = None /\ mishap = None /\ late = None
NoStocking ==
  /\ clock = None /\ services = None /\ staff = None /\ off = None
  /\ book = None /\ work = None /\ raced = None
NoTeaching ==
  /\ draft = None /\ live = None /\ versions = None /\ form = None
  /\ publishing = None /\ edits = None /\ published = None
NoGuarding ==
  /\ count = None /\ alive = None /\ account = None /\ trying = None
  /\ sent = None /\ let = None /\ wrong = None /\ told = None /\ doubled = None
  /\ astray = None
NoShowing ==
  /\ demo = None /\ begun = None /\ run = None /\ mixed = None /\ emptied = None
NoSetting ==
  /\ store = None /\ point = None /\ tab = None /\ typings = None /\ kept = None
  /\ missed = None
NoBrowsing ==
  /\ token = None /\ issued = None /\ since = None /\ screen = None
  /\ calls = None /\ ended = None /\ bystander = None
NoStarting ==
  /\ done = None /\ tries = None /\ rang = None /\ page = None /\ steps = None
  /\ behind = None /\ deleted = None /\ missing = None /\ uncounted = None
NoMinding ==
  /\ diary = None /\ shown = None /\ stale = None /\ fetch = None /\ drops = None
  /\ dialog = None /\ lists = None /\ saves = None

Init ==
  /\ part \in
      {"entering", "signing", "closing", "stocking", "teaching", "guarding",
       "showing", "setting", "browsing", "starting", "minding"}
  /\ IF part = "entering" THEN M!Init ELSE NoEntering
  /\ IF part = "signing" THEN N!Init ELSE NoSigning
  /\ IF part = "closing" THEN A!Init ELSE NoClosing
  /\ IF part = "stocking" THEN C!Init ELSE NoStocking
  /\ IF part = "teaching" THEN K!Init ELSE NoTeaching
  /\ IF part = "guarding" THEN L!Init ELSE NoGuarding
  /\ IF part = "showing" THEN D!Init ELSE NoShowing
  /\ IF part = "setting" THEN S!Init ELSE NoSetting
  /\ IF part = "browsing" THEN P!Init ELSE NoBrowsing
  /\ IF part = "starting" THEN O!Init ELSE NoStarting
  /\ IF part = "minding" THEN B!Init ELSE NoMinding

Next ==
  /\ UNCHANGED part
  /\ IF part = "entering" THEN M!Next ELSE UNCHANGED entering
  /\ IF part = "signing" THEN N!Next ELSE UNCHANGED signing
  /\ IF part = "closing" THEN A!Next ELSE UNCHANGED closing
  /\ IF part = "stocking" THEN C!Next ELSE UNCHANGED stocking
  /\ IF part = "teaching" THEN K!Next ELSE UNCHANGED teaching
  /\ IF part = "guarding" THEN L!Next ELSE UNCHANGED guarding
  /\ IF part = "showing" THEN D!Next ELSE UNCHANGED showing
  /\ IF part = "setting" THEN S!Next ELSE UNCHANGED setting
  /\ IF part = "browsing" THEN P!Next ELSE UNCHANGED browsing
  /\ IF part = "starting" THEN O!Next ELSE UNCHANGED starting
  /\ IF part = "minding" THEN B!Next ELSE UNCHANGED minding

Spec == Init /\ [][Next]_everything

Symmetric == UNION {Permutations(set) : set \in {Actor, Thing}}

\* What still matters: sessions that are not revoked, secrets that may still be asked for
\* and the histories that no exemption has settled; of an account that is gone what is
\* left of it, of a hold whether it must stand, of the pages which button they show; of
\* the test calls what the promise compares.
Asked == {admin.secret, admin.pending} \cup {request[r].pending : r \in Actor}

Entered ==
  <<admin, business, now, request, {s \in sessions : s.iat >= admin.validAfter}, pendings,
    made, app \cap Asked, proved \cap Asked, IF overtook THEN None ELSE changedAt,
    IF atOnce THEN None ELSE accepted, IF crossing THEN None ELSE restored>>

Closing ==
  <<exists, visit, removal, bought, mishap, late,
    IF late THEN rows \cap {"admins"} ELSE rows,
    IF exists
    THEN <<status, reason, number, charge, held /\ ~overtaken,
           seen.owner = "deleted", seen.platform = "suspended">>
    ELSE <<>>>>

Started ==
  <<done, tries, rang - uncounted, rang > 0, page, steps, behind, deleted,
    IF deleted THEN {} ELSE missing>>

Matters ==
  CASE part = "entering" -> Entered
    [] part = "closing" -> Closing
    [] part = "starting" -> Started
    [] OTHER -> everything

-----------------------------------------------------------------------------
(* The shapes of every part.                                                 *)
Types ==
  /\ part = "entering" => M!TypeOK
  /\ part = "signing" => N!TypeOK
  /\ part = "closing" => A!TypeOK
  /\ part = "stocking" => C!TypeOK
  /\ part = "teaching" => K!TypeOK
  /\ part = "guarding" => L!TypeOK
  /\ part = "showing" => D!TypeOK
  /\ part = "setting" => S!TypeOK
  /\ part = "browsing" => P!TypeOK
  /\ part = "starting" => O!TypeOK
  /\ part = "minding" => B!TypeOK

(* Access' promises: a new password ends the sessions before it, an invite   *)
(* is taken once and undoes no suspension but one it crossed, and an         *)
(* authenticator is one its owner has shown.                                 *)
(* Lockout's: no more tries than the limit, one notice of a lock, and only   *)
(* what was wrong is held against an address.  Pages': a list is what was    *)
(* searched for, a list that is awaited is under way, and only a session     *)
(* that is over is ended in the browser.                                     *)
AccessHolds ==
  /\ part = "entering" => M!OldSessionsEnd /\ M!InviteTakenOnce /\ M!ProvedAuthenticator
  /\ part = "guarding" => L!TriesAreLimited /\ L!ToldOnce /\ L!OnlyWrongOnesCount
  /\ part = "browsing" => P!RowsOfTheSearch /\ P!LoadingIsReal /\ P!OnlyDeadSessionsEnd

(* SignUp's, Account's and Demo's promises: an account is whole or not       *)
(* there, the platform's hold stands, a number is paid for once, of a        *)
(* deleted account nothing is left, and a made-up one never costs a real one *)
(* a row and can be found and removed again.  Onboarding's: a business that  *)
(* is live was ready, the guide shows what is stored, and test calls are     *)
(* few.                                                                      *)
AccountsHold ==
  /\ part = "signing" => N!WholeAccounts
  /\ part = "closing" => A!HoldStands /\ A!NumberPaidOnce /\ A!NothingLeft
  /\ part = "showing" => D!Reachable /\ D!RemovedIsGone /\ D!RealStays
  /\ part = "starting" => O!LiveWasReady /\ O!StatusIsStored /\ O!TestCallsAreFew

(* Catalog's promises: whoever is booked exists, and is not away, unless two *)
(* requests crossed.  Desk's: the calendar draws bookings where they are     *)
(* stored, and what the form sends is a time of the day it shows.            *)
CatalogHolds ==
  /\ part = "stocking" => C!NobodyOrphaned /\ C!NobodyAway
  /\ part = "minding" => B!ShownIsStored /\ B!PickedAsChosen

(* Knowledge's promise: what calls use can be gone back to.  Settings': what *)
(* somebody typed and saved stands, and the map's point is of the place      *)
(* beside it.                                                                *)
KnowledgeHolds ==
  /\ part = "teaching" => K!LiveIsRecorded
  /\ part = "setting" => S!EditsStand /\ S!PinIsOfThePlace

(* The promise beside the booking window, "days, blank = no limit"           *)
(* (BusinessProfileSection.jsx:100), which the form does not keep.           *)
BlankMeansNoLimit == part = "setting" => S!BlankMeansNoLimit
===============================================================================
