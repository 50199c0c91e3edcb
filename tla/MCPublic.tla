------------------------------ MODULE MCPublic ------------------------------
(***************************************************************************)
(* What a customer meets on the web, part by part: a visit to the booking  *)
(* page where people and places differ (wide), where days differ (days),   *)
(* where it is sent again and again (deep); one-time codes (codes); the    *)
(* two pages on which an appointment is changed (portal); the directory of *)
(* businesses (directory).                                                 *)
(***************************************************************************)
EXTENDS Integers, Sequences, FiniteSets, TLC

CONSTANTS
  Actor,  \* requests in flight, and filters of the directory
  Other,  \* requests in flight
  Anyone, Rival, None,
  MaxCodes, MAX_ATTEMPTS,                                      \* of the codes
  Slot, Day, DayLength, Instant, CUTOFF, MaxCalls, MaxMoves,   \* of the portal
  MaxAsks                                                      \* of the directory

VARIABLES
  part,
  page, calls, posts, consent, diary, dropped,
  door, row, made, sender, checker, inbox, compared, used, atOnce, crossed,
  now, booking, open, taken, expires, session, screen, lists, request, asked, moves, wrong,
  shop, memory, change, searches, listing

visit == <<page, calls, posts, consent, diary, dropped>>
codes == <<door, row, made, sender, checker, inbox, compared, used, atOnce, crossed>>
portal == <<now, booking, open, taken, expires, session, screen, lists, request, asked, moves,
  wrong>>
directory == <<shop, memory, change, searches, listing>>

everything == <<part, visit, codes, portal, directory>>

People == {"ann", "bob"}
Skills == People \X {"cut"}

Wide == INSTANCE BookPage WITH
  Service <- {"cut"}, Staff <- People, Location <- {"north", "south"}, Date <- {"mon"},
  Today <- "mon", Offers <- Skills,
  WorksAt <- {<<"ann", "north">>, <<"bob", "north">>, <<"bob", "south">>},
  MaxCalls <- 2, MaxPosts <- 1, MaxRivals <- 1, Any <- Anyone

Days == INSTANCE BookPage WITH
  Service <- {"cut"}, Staff <- People, Location <- {"north"}, Date <- {"mon", "tue"},
  Today <- "mon", Offers <- Skills, WorksAt <- People \X {"north"},
  MaxCalls <- 1, MaxPosts <- 2, MaxRivals <- 1, Any <- Anyone

Deep == INSTANCE BookPage WITH
  Service <- {"cut"}, Staff <- People, Location <- {"north"}, Date <- {"mon"},
  Today <- "mon", Offers <- Skills, WorksAt <- People \X {"north"},
  MaxCalls <- 1, MaxPosts <- 3, MaxRivals <- 0, Any <- Anyone

K == INSTANCE Codes WITH
  Door <- {"portal", "booking", "onboarding"}, Sender <- Actor, Checker <- Other

\* The runs have two starts, one at the first instant's cut-off and one on the next day.
P == INSTANCE Portal WITH
  DayOf <- [t \in Slot \cup Instant |-> t \div DayLength], Request <- Actor,
  page <- screen, calls <- lists

D == INSTANCE Directory WITH
  Server <- {"blue", "green"}, Search <- Actor, Change <- Other, Nothing <- None, calls <- searches, page <- listing

ASSUME Sane ==
  /\ Wide!Assumptions /\ Days!Assumptions /\ Deep!Assumptions /\ K!Assumptions
  /\ P!Assumptions /\ D!Assumptions

\* A part that is not looked at.
NoVisit ==
  /\ page = None /\ calls = None /\ posts = None /\ consent = None /\ diary = None
  /\ dropped = None
NoCodes ==
  /\ door = None /\ row = None /\ made = None /\ sender = None /\ checker = None
  /\ inbox = None /\ compared = None /\ used = None /\ atOnce = None /\ crossed = None
NoPortal ==
  /\ now = None /\ booking = None /\ open = None /\ taken = None /\ expires = None
  /\ session = None /\ screen = None /\ lists = None /\ request = None /\ asked = None
  /\ moves = None /\ wrong = None
NoDirectory ==
  /\ shop = None /\ memory = None /\ change = None /\ searches = None /\ listing = None

InVisit == part \in {"wide", "days", "deep"}

Init ==
  \/ InVisit /\ Deep!Init /\ NoCodes /\ NoPortal /\ NoDirectory
  \/ part = "codes" /\ K!Init /\ NoVisit /\ NoPortal /\ NoDirectory
  \/ part = "portal" /\ P!Init /\ NoVisit /\ NoCodes /\ NoDirectory
  \/ part = "directory" /\ D!Init /\ NoVisit /\ NoCodes /\ NoPortal

Next ==
  /\ UNCHANGED part
  /\ \/ part = "wide" /\ Wide!Next /\ UNCHANGED <<codes, portal, directory>>
     \/ part = "days" /\ Days!Next /\ UNCHANGED <<codes, portal, directory>>
     \/ part = "deep" /\ Deep!Next /\ UNCHANGED <<codes, portal, directory>>
     \/ part = "codes" /\ K!Next /\ UNCHANGED <<visit, portal, directory>>
     \/ part = "portal" /\ P!Next /\ UNCHANGED <<visit, codes, directory>>
     \/ part = "directory" /\ D!Next /\ UNCHANGED <<visit, codes, portal>>

Spec == Init /\ [][Next]_everything

Symmetric == Permutations(Actor) \cup Permutations(Other)

-----------------------------------------------------------------------------
\* What still matters: of a visit, nothing of a booking that is settled but its key, and
\* nothing of a page that shows its result but its key; of the pages of an appointment,
\* the slots while they are looked at.
Settled(i) == ~posts[i].open /\ posts[i].pc = "done"

Looked(d) ==
  IF screen[d].mode = "done" \/ (d = "portal" /\ screen[d].mode # "reschedule")
  THEN [screen[d] EXCEPT !.slots = None, !.slot = None, !.late = FALSE]
  ELSE screen[d]

Matters ==
  CASE InVisit ->
         <<part,
           IF page.result THEN [Deep!FreshPage("mon") EXCEPT !.result = TRUE, !.key = page.key]
           ELSE page,
           IF page.result THEN {} ELSE calls,
           [i \in DOMAIN posts |-> IF Settled(i) THEN <<posts[i].key>> ELSE posts[i]],
           consent, diary, dropped>>
    [] part = "portal" ->
         <<now, booking, open, taken, expires, session, Looked("portal"), Looked("link"), lists,
           request, asked, moves, wrong>>
    [] OTHER -> everything

-----------------------------------------------------------------------------
(* The shapes of every part.                                                 *)
Types ==
  /\ part = "wide" => Wide!TypeOK
  /\ part = "days" => Days!TypeOK
  /\ part = "deep" => Deep!TypeOK
  /\ part = "codes" => K!TypeOK
  /\ part = "portal" => P!TypeOK
  /\ part = "directory" => D!TypeOK

(* BookPage's promise about who serves, at two locations.                    *)
DoneByWhoDoesIt == part = "wide" => Wide!DoneByWhoDoesIt

(* BookPage's promise about second bookings, over days and over retries.     *)
BookedOnceUnlessGivenUp ==
  /\ part = "days" => Days!BookedOnceUnlessGivenUp
  /\ part = "deep" => Deep!BookedOnceUnlessGivenUp

(* BookPage's promise about consent, in every visit.                         *)
ConsentedBeforeBooking == InVisit => Deep!ConsentedBeforeBooking

(* Codes' promises at each of the three doors: wrong guesses are limited, a  *)
(* code works for one request unless two are checked at once, and the newest *)
(* one that arrived works while nothing else is going on.                    *)
CodesHold ==
  part = "codes" => K!GuessesLimited /\ K!UsedOnceUnlessAtOnce /\ K!NewestCodeWorks

(* Portal's promise: no change but one a check has allowed.                  *)
ChangesAreAllowed == part = "portal" => P!ChangesAreAllowed

(* Directory's promises: what is remembered is what is listed, and a page    *)
(* that has settled shows what was asked for last.                           *)
DirectoryHolds == part = "directory" => D!MemoryIsCurrent /\ D!SettledShowsAsked
=============================================================================
