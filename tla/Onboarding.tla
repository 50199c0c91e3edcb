----------------------------- MODULE Onboarding -----------------------------
(***************************************************************************)
(* The setup guide: what an owner has to do before the business goes live, *)
(* as the page shows it and as the routes behind it check it.  The page    *)
(* knows what is done from a status that it loads again after every step   *)
(* that succeeds; services and the phone number are added on other pages.  *)
(* One-time codes themselves are in Codes.                                 *)
(***************************************************************************)
EXTENDS Integers, FiniteSets

CONSTANTS
  Channel,       \* what a code is sent by: the phone, and email
  MaxTestCalls,  \* test calls a day (5 in the code)
  MaxCalls,      \* bound: requests under way at once
  MaxLoads       \* bound: how often the status is loaded

Assumptions ==
  /\ "phone" \in Channel /\ Channel \subseteq {"email", "phone"}
  /\ MaxTestCalls \in Nat \ {0} /\ MaxCalls \in Nat /\ MaxLoads \in Nat \ {0}

VARIABLES
  done,     \* the steps that are done, in the database
  tries,    \* the day's row of rate_limits: test calls counted, 0 without a row
  rang,     \* test calls that rang today
  page,     \* what the page shows
  calls,    \* the requests under way
  behind,   \* history: something changed that the page has not asked for
  late,     \* history: a service was deleted while somebody was going live
  missing,  \* history: what was missing when the business went live
  uncounted \* history: test calls counted in rows that another first one wrote over

vars == <<done, tries, rang, page, calls, behind, late, missing, uncounted>>

Elsewhere == {"services", "phone_number"}
Required == Channel \cup Elsewhere \cup {"test_call"}
Step == Required \cup {"ai_voice", "go_live"}

PageState ==
  [status : SUBSET Step, loaded : BOOLEAN, boxes : SUBSET Channel, latest : 0..MaxLoads]

Kind == {"status", "send", "confirm", "ai_voice", "test_call", "go_live"}

\* A test call is of this page, or of another tab or member: "elsewhere".
Call ==
  [kind : Kind, of : Channel \cup {"none", "elsewhere"}, n : 0..MaxLoads, seen : SUBSET Step,
   state : {"asked", "first", "checked", "ringing", "ok", "refused", "failed"}]

TypeOK ==
  /\ done \subseteq Step
  /\ tries \in 0..(MaxTestCalls + 1)
  /\ rang \in Nat
  /\ page \in PageState
  /\ calls \subseteq Call
  /\ behind \in BOOLEAN /\ late \in BOOLEAN
  /\ missing \subseteq Step /\ uncounted \in Nat

Init ==
  /\ done = {} /\ tries = 0 /\ rang = 0
  /\ page = [status |-> {}, loaded |-> FALSE, boxes |-> {}, latest |-> 0]
  /\ calls = {}
  /\ behind = TRUE /\ late = FALSE
  /\ missing = {} /\ uncounted = 0

-----------------------------------------------------------------------------
(* The page.                                                                *)

Room == Cardinality(calls) < MaxCalls

Ask(kind, of, n) == [kind |-> kind, of |-> of, n |-> n, seen |-> {}, state |-> "asked"]

counters == <<tries, rang, uncounted>>

Server == <<done, counters, behind, late, missing>>

Press(kind, of) ==
  /\ page.loaded /\ Room
  /\ calls' = calls \cup {Ask(kind, of, 0)}
  /\ UNCHANGED <<Server, page>>

Here(c) == c.of # "elsewhere"

\* The button of a step is disabled while it is being done; other tabs have their own.
Alone(kind) == \A c \in calls : Here(c) => c.kind # kind

SendCode(ch) == ch \notin page.status /\ Press("send", ch)
Confirm(ch) == ch \in page.boxes /\ ch \notin page.status /\ Press("confirm", ch)
SetVoice == Alone("ai_voice") /\ Press("ai_voice", "none")
TriggerTestCall == Alone("test_call") /\ Press("test_call", "none")
\* Bound: one at a time from the other tabs and members.
OtherTestCall ==
  /\ Room /\ \A c \in calls : Here(c)
  /\ calls' = calls \cup {Ask("test_call", "elsewhere", 0)}
  /\ UNCHANGED <<Server, page>>

GoLive == Alone("go_live") /\ Required \subseteq page.status /\ Press("go_live", "none")

\* On opening the page, by "try again", and after every step that succeeds.
Load == Ask("status", "none", page.latest + 1)

OpenPage ==
  /\ page.latest < MaxLoads /\ ~page.loaded /\ Room
  /\ calls' = calls \cup {Load}
  /\ page' = [page EXCEPT !.latest = @ + 1]
  /\ UNCHANGED Server

Newest(c) == c.n = page.latest

OlderToo(c) == TRUE  \* mutant: an answer counts, however old its request
Current(c) == Newest(c)

StatusArrives(c) ==
  /\ c.kind = "status" /\ c.state = "ok"
  /\ calls' = calls \ {c}
  /\ page' = IF Current(c) THEN [page EXCEPT !.status = c.seen, !.loaded = TRUE] ELSE page
  /\ UNCHANGED Server

\* The status of before stays on the page, and nothing says so.
StatusFails(c) ==
  /\ c.kind = "status" /\ c.state = "failed"
  /\ calls' = calls \ {c}
  /\ behind' = (behind \/ Newest(c))
  /\ UNCHANGED <<done, counters, late, missing, page>>

\* A code that was not delivered gets no box.
CodeSent(c) ==
  /\ c.kind = "send" /\ c.state = "ok"
  /\ \E delivered \in BOOLEAN :
       page' = IF delivered THEN [page EXCEPT !.boxes = @ \cup {c.of}] ELSE page
  /\ calls' = calls \ {c}
  /\ UNCHANGED Server

StepDone(c) ==
  /\ Here(c) /\ c.kind \notin {"status", "send"} /\ c.state = "ok"
  /\ page.latest < MaxLoads
  /\ calls' = (calls \ {c}) \cup {Load}
  /\ page' = [page EXCEPT !.latest = @ + 1,
                          !.boxes = IF c.kind = "confirm" THEN @ \ {c.of} ELSE @]
  /\ UNCHANGED Server

\* An error is shown.  When only the answer was lost, the step may be done.
StepFailed(c) ==
  /\ Here(c) /\ c.kind # "status"
  /\ c.state \in {"refused", "failed"}
  /\ calls' = calls \ {c}
  /\ behind' = (behind \/ c.state = "failed")
  /\ UNCHANGED <<done, counters, late, missing, page>>

OtherEnds(c) ==
  /\ ~Here(c) /\ c.state \in {"ok", "refused", "failed"}
  /\ calls' = calls \ {c}
  /\ UNCHANGED <<Server, page>>

-----------------------------------------------------------------------------
(* The routes.                                                              *)

Becomes(c, state) == calls' = (calls \ {c}) \cup {[c EXCEPT !.state = state]}

AnswerLost(c) ==
  /\ c.state \in {"asked", "ok"}
  /\ Becomes(c, "failed")
  /\ UNCHANGED <<Server, page>>

Status(c) ==
  /\ c.kind = "status" /\ c.state = "asked"
  /\ calls' = (calls \ {c}) \cup {[c EXCEPT !.state = "ok", !.seen = done]}
  /\ behind' = (behind /\ ~Newest(c))
  /\ UNCHANGED <<done, counters, late, missing, page>>

\* A code less than a minute ago, or nothing to send it to.
ServeSend(c) ==
  /\ c.kind = "send" /\ c.state = "asked"
  /\ \E answer \in {"ok", "refused"} : Becomes(c, answer)
  /\ UNCHANGED <<Server, page>>

ServeConfirm(c) ==
  /\ c.kind = "confirm" /\ c.state = "asked"
  /\ \/ Becomes(c, "ok") /\ done' = done \cup {c.of}
     \/ Becomes(c, "refused") /\ UNCHANGED done
  /\ UNCHANGED <<counters, behind, late, missing, page>>

ServeVoice(c) ==
  /\ c.kind = "ai_voice" /\ c.state = "asked"
  /\ done' = done \cup {"ai_voice"}
  /\ Becomes(c, "ok")
  /\ UNCHANGED <<counters, behind, late, missing, page>>

OneMore(n) ==  \* mutant: the call after the last one too
  IF n <= MaxTestCalls + 1 /\ "phone_number" \in done THEN "checked" ELSE "refused"
\* With a number to ring from; the call has been counted before that is known.
Rings(n) == IF n <= MaxTestCalls /\ "phone_number" \in done THEN "checked" ELSE "refused"

\* Only the own, verified phone, which is another one for another member.  The call is
\* counted in the row of today, if there is one (bound: as far as one too many).
CountTestCall(c) ==
  /\ c.kind = "test_call" /\ c.state = "asked"
  /\ \/ (Here(c) => "phone" \notin done) /\ Becomes(c, "refused") /\ UNCHANGED tries
     \/ /\ Here(c) => "phone" \in done
        /\ IF tries = 0
           THEN Becomes(c, "first") /\ UNCHANGED tries
           ELSE /\ tries' = IF tries <= MaxTestCalls THEN tries + 1 ELSE tries
                /\ Becomes(c, Rings(tries + 1))
  /\ UNCHANGED <<done, rang, uncounted, behind, late, missing, page>>

\* Without one a row is written, over whatever is there by now.
FirstTestCall(c) ==
  /\ c.kind = "test_call" /\ c.state = "first"
  /\ tries' = 1 /\ uncounted' = uncounted + tries
  /\ Becomes(c, Rings(1))
  /\ UNCHANGED <<done, rang, behind, late, missing, page>>

RingTestCall(c) ==
  /\ c.kind = "test_call" /\ c.state = "checked"
  /\ \/ rang' = rang + 1 /\ Becomes(c, "ringing")
     \/ Becomes(c, "refused") /\ UNCHANGED rang
  /\ UNCHANGED <<done, tries, uncounted, behind, late, missing, page>>

StoreTestCall(c) ==
  /\ c.kind = "test_call" /\ c.state = "ringing"
  /\ done' = done \cup {"test_call"}
  /\ behind' = (behind \/ ~Here(c))
  /\ Becomes(c, "ok")
  /\ UNCHANGED <<counters, late, missing, page>>

\* The server stops in between, or the write fails: the phone rang, the step is open.
StoreFails(c) ==
  /\ c.state \in {"first", "checked", "ringing"}
  /\ Becomes(c, "failed")
  /\ UNCHANGED <<Server, page>>

Ready == Required \subseteq done

CheckLive(c) ==
  /\ c.kind = "go_live" /\ c.state = "asked"
  /\ Becomes(c, IF Ready THEN "checked" ELSE "refused")
  /\ UNCHANGED <<Server, page>>

StoreLive(c) ==
  /\ c.kind = "go_live" /\ c.state = "checked"
  /\ done' = done \cup {"go_live"}
  /\ missing' = Required \ done
  /\ Becomes(c, "ok")
  /\ UNCHANGED <<counters, behind, late, page>>

\* On the pages of the services and of the number.
DoneElsewhere(step) ==
  /\ step \notin done
  /\ done' = done \cup {step}
  /\ behind' = TRUE
  /\ UNCHANGED <<counters, late, missing, page, calls>>

DeleteServices ==
  /\ "services" \in done
  /\ done' = done \ {"services"}
  /\ behind' = TRUE
  /\ late' = (late \/ \E c \in calls : c.kind = "go_live" /\ c.state = "checked")
  /\ UNCHANGED <<counters, missing, page, calls>>

Next ==
  \/ OpenPage \/ SetVoice \/ TriggerTestCall \/ OtherTestCall \/ GoLive
  \/ \E ch \in Channel : SendCode(ch) \/ Confirm(ch)
  \/ \E step \in Elsewhere : DoneElsewhere(step)
  \/ DeleteServices
  \/ \E c \in calls :
       \/ StatusArrives(c) \/ StatusFails(c) \/ CodeSent(c) \/ StepDone(c) \/ StepFailed(c)
       \/ OtherEnds(c)
       \/ AnswerLost(c)
       \/ Status(c) \/ ServeSend(c) \/ ServeConfirm(c) \/ ServeVoice(c)
       \/ CountTestCall(c) \/ FirstTestCall(c) \/ RingTestCall(c) \/ StoreTestCall(c) \/ StoreFails(c)
       \/ CheckLive(c) \/ StoreLive(c)

Spec == Init /\ [][Next]_vars

-----------------------------------------------------------------------------
(* A business went live with everything that is required, unless a service  *)
(* was deleted between the check and the write (onboarding.js:203-206).     *)
LiveWasReady == missing = {} \/ late

(* The guide shows what is stored once nothing is under way, unless it was  *)
(* done on another page or an answer was lost: answers that overtake each   *)
(* other do not matter (onboarding/page.jsx:66, useApi.js:16).              *)
StatusIsStored == page.loaded /\ calls = {} /\ ~behind => page.status = done

(* No more test calls ring in a day than are allowed and were counted in a    *)
(* row that another first one wrote over (rateLimit.js:15-18), and a test call *)
(* that counts as made did ring (onboarding.js:177-186).                       *)
TestCallsAreFew ==
  rang <= MaxTestCalls + uncounted /\ ("test_call" \in done => rang > 0)
=============================================================================
