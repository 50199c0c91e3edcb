----------------------------- MODULE Directory -----------------------------
(***************************************************************************)
(* The public directory: who is listed (services/listingService.js, routes *)
(* /publicBooking.js), the short memory in front of it (services/directory-*)
(* Cache.js, cleared by app.js), and one visitor's search (dashboard/app/  *)
(* find/page.jsx with lib/useApi.js).                                      *)
(*                                                                         *)
(* One business answers every search; a search is the filter the memory    *)
(* keeps its answers by.  Every server process has a memory of its own.    *)
(* The two reads of a load, the write of a change and the end of its       *)
(* request come in any order.                                              *)
(***************************************************************************)
EXTENDS Integers, FiniteSets

CONSTANTS
  Server,   \* server processes
  Search,   \* filters a visitor may choose
  Change,   \* requests through the API that change what is listed, in flight
  Nothing,  \* no answer kept, none shown, no request
  MaxAsks   \* bound: searches of the visit

VARIABLES
  shop,    \* the business, as far as it decides whether it is listed
  memory,  \* directoryCache of each process
  change,  \* the process of each change through the API: written, not yet answered
  calls,   \* the visitor's searches on their way
  page     \* the state hooks of FindPage and useApi

vars == <<shop, memory, change, calls, page>>

Shop == [listed : BOOLEAN, hidden : BOOLEAN, active : BOOLEAN, services : BOOLEAN]

\* History: crossed when a change came that this memory is not cleared for.
Entry == [shows : BOOLEAN, crossed : BOOLEAN]

Call ==
  [mine : 1..MaxAsks, asked : Search, at : Server,
   pc : {"sent", "businesses", "services", "answer"}, shows : BOOLEAN,
   crossed : BOOLEAN]

PageState ==
  [typed : Search, asked : Search, latest : 0..MaxAsks, loading : BOOLEAN, failed : BOOLEAN,
   data : [asked : Search, shows : BOOLEAN] \cup {Nothing}]

Assumptions ==
  /\ MaxAsks \in Nat
  /\ Nothing \notin Server \cup Entry \cup [asked : Search, shows : BOOLEAN]

-----------------------------------------------------------------------------
\* The query of loadLiveBusinesses, and isListingEligible.  Hours and the booking page
\* are like services: the owner's.
Found == shop.listed /\ ~shop.hidden /\ shop.active

Listed == Found /\ shop.services

\* History: whatever is written crosses the loads that have begun to read.
Cross(c) == [c EXCEPT !.crossed = @ \/ c.pc \in {"services"}]

Missed(answers) ==
  [q \in Search |->
     IF answers[q] = Nothing THEN Nothing ELSE [answers[q] EXCEPT !.crossed = TRUE]]

KeepMemory(v) == memory[v]  \* mutant: the end of a request clears nothing
Cleared(v) == [q \in Search |-> Nothing]

\* PUT /business/listing, PATCH /businesses/:id/listing and /status, the services, by
\* the process v; no other process is told.
Write(x, v) ==
  /\ change[x] = Nothing
  /\ shop' \in Shop \ {shop}
  /\ change' = [change EXCEPT ![x] = v]
  /\ memory' = [u \in Server |-> IF u = v THEN memory[u] ELSE Missed(memory[u])]
  /\ calls' = {Cross(c) : c \in calls}
  /\ UNCHANGED page

\* res.on('finish') with a status below 400.
Finish(x) ==
  /\ change[x] # Nothing
  /\ memory' = [memory EXCEPT ![change[x]] = Cleared(change[x])]
  /\ change' = [change EXCEPT ![x] = Nothing]
  /\ UNCHANGED <<shop, calls, page>>

\* What the request does after the write fails, or the caller hangs up before the answer.
FinishBadly(x) ==
  /\ change[x] # Nothing
  /\ memory' = [memory EXCEPT ![change[x]] = Missed(memory[change[x]])]
  /\ change' = [change EXCEPT ![x] = Nothing]
  /\ UNCHANGED <<shop, calls, page>>

\* Billing's sweep and webhook write past the API: the memory only runs out.
WriteElsewhere ==
  /\ shop' = [shop EXCEPT !.active = ~@]
  /\ memory' = [v \in Server |-> Missed(memory[v])]
  /\ calls' = {Cross(c) : c \in calls}
  /\ UNCHANGED <<change, page>>

\* The time limit, or two hundred other searches, or a restart.
Forget(v, q) ==
  /\ memory[v][q] # Nothing /\ memory' = [memory EXCEPT ![v][q] = Nothing]
  /\ UNCHANGED <<shop, change, calls, page>>

-----------------------------------------------------------------------------
(* A search.                                                               *)

Type(q) ==
  /\ page.typed # q /\ page' = [page EXCEPT !.typed = q]
  /\ UNCHANGED <<shop, memory, change, calls>>

\* What is typed is asked after a pause, and useApi loads: its newest request counts.
Ask(v) ==
  /\ page.latest < MaxAsks
  /\ page.latest = 0 \/ page.typed # page.asked
  /\ page' = [page EXCEPT !.asked = page.typed, !.latest = @ + 1, !.loading = TRUE,
                          !.failed = FALSE]
  /\ calls' = calls \cup {[mine |-> page.latest + 1, asked |-> page.typed, at |-> v,
                           pc |-> "sent", shows |-> FALSE, crossed |-> FALSE]}
  /\ UNCHANGED <<shop, memory, change>>

Becomes(c, d) == calls' = (calls \ {c}) \cup {d}

\* GET /public/directory, from the memory of its process when it can.
Arrive(c) ==
  /\ c \in calls /\ c.pc = "sent"
  /\ LET hit == memory[c.at][c.asked]
     IN Becomes(c, IF hit = Nothing THEN [c EXCEPT !.pc = "businesses"]
                   ELSE [c EXCEPT !.pc = "answer", !.shows = hit.shows])
  /\ UNCHANGED <<shop, memory, change, page>>

ReadBusinesses(c) ==
  /\ c \in calls /\ c.pc = "businesses"
  /\ Becomes(c, [c EXCEPT !.pc = "services", !.shows = Found])
  /\ UNCHANGED <<shop, memory, change, page>>

\* The services are read second; the answer is kept.
ReadServices(c) ==
  /\ c \in calls /\ c.pc = "services"
  /\ LET shows == c.shows /\ shop.services
     IN /\ memory' = [memory EXCEPT ![c.at][c.asked] =
                         [shows |-> shows, crossed |-> c.crossed]]
        /\ Becomes(c, [c EXCEPT !.pc = "answer", !.shows = shows])
  /\ UNCHANGED <<shop, change, page>>

AnyAnswer(c) == TRUE  \* mutant: whichever answer comes is shown
Current(c) == c.mine = page.latest

Answer(c) ==
  /\ c \in calls /\ c.pc = "answer"
  /\ page' = IF Current(c)
             THEN [page EXCEPT !.data = [asked |-> c.asked, shows |-> c.shows], !.loading = FALSE]
             ELSE page
  /\ calls' = calls \ {c}
  /\ UNCHANGED <<shop, memory, change>>

\* Too many requests, a failing database, no network; old results are not shown then.
Fail(c) ==
  /\ c \in calls
  /\ page' = IF Current(c) THEN [page EXCEPT !.failed = TRUE, !.loading = FALSE] ELSE page
  /\ calls' = calls \ {c}
  /\ UNCHANGED <<shop, memory, change>>

Init ==
  /\ shop = [listed |-> TRUE, hidden |-> FALSE, active |-> TRUE, services |-> TRUE]
  /\ memory = [v \in Server |-> [q \in Search |-> Nothing]]
  /\ change = [x \in Change |-> Nothing]
  /\ calls = {}
  /\ \E q \in Search : page = [typed |-> q, asked |-> q, latest |-> 0, loading |-> TRUE,
                               failed |-> FALSE, data |-> Nothing]

Next ==
  \/ \E x \in Change : Finish(x) \/ FinishBadly(x)
  \/ \E x \in Change, v \in Server : Write(x, v)
  \/ \E v \in Server : Ask(v)
  \/ \E v \in Server, q \in Search : Forget(v, q)
  \/ \E q \in Search : Type(q)
  \/ WriteElsewhere
  \/ \E c \in calls :
       Arrive(c) \/ ReadBusinesses(c) \/ ReadServices(c) \/ Answer(c) \/ Fail(c)

Spec == Init /\ [][Next]_vars

-----------------------------------------------------------------------------
(* Shapes of the business, the memory and the page.                          *)
TypeOK ==
  /\ shop \in Shop
  /\ memory \in [Server -> [Search -> Entry \cup {Nothing}]]
  /\ change \in [Change -> Server \cup {Nothing}]
  /\ calls \subseteq Call
  /\ page \in PageState

(* "Any change made through the API clears it at once" (directoryCache.js:3): *)
(* in the process that served the change, once it is answered.  What a        *)
(* process remembers is what the database says, but for a change of its own   *)
(* that is not answered yet and for what it was not cleared for: a write that *)
(* crossed its load, a change that another process served or that ended in an *)
(* error, what billing wrote past the API.  Those run out.                    *)
MemoryIsCurrent ==
  \A v \in Server, q \in Search :
    memory[v][q] # Nothing =>
      \/ memory[v][q].shows = Listed \/ memory[v][q].crossed
      \/ \E x \in Change : change[x] = v

(* "Only the newest request counts": when nothing is loading, the results are *)
(* the answer to the search the page shows, whatever order answers came in.   *)
SettledShowsAsked ==
  ~page.loading /\ ~page.failed => page.data # Nothing /\ page.data.asked = page.asked
=============================================================================
