---------------------------- MODULE ContactProofs ----------------------------
(***************************************************************************)
(* The promises of what a business says to its customers and its owner,    *)
(* for any bookings, phones, workers, requests, entries and months and any *)
(* bounds; the reminders are those of MCContact, one customer's two-hour   *)
(* marks and review texts.  A behaviour stays in its part, and each part   *)
(* has an inductive invariant of its own.                                  *)
(***************************************************************************)
EXTENDS MCContact, FiniteSetTheorems, TLAPS

-----------------------------------------------------------------------------
(* The recordings.                                                         *)

\* A row is only of a call whose recording was announced, and while Twilio keeps the
\* recording the row is there; what a sweep has listed is old.
SweepInv ==
  /\ A!TypeOK
  /\ \A c \in Thing :
       /\ row[c] => posted[c]
       /\ posted[c] /\ audio[c] => row[c]
       /\ posted[c] /\ age[c] = "kept" => audio[c] /\ row[c]
       /\ c \in sweep.todo \cup sweep.gone => age[c] = "old" /\ posted[c]
       /\ c \in sweep.gone => ~audio[c]
  /\ ~sweep.on => sweep.todo = {}

LEMMA SweepStarts == A!Init => SweepInv
BY DEF A!Init, SweepInv, A!TypeOK, A!NoSweep

LEMMA SweepMoves == SweepInv /\ A!Next => SweepInv'
<1> SUFFICES ASSUME SweepInv, A!Next PROVE SweepInv'  OBVIOUS
<1> USE DEF SweepInv, A!TypeOK
<1>1. CASE A!StartSweep
  BY <1>1 DEF A!StartSweep, A!Old
<1>2. CASE A!Forget
  <2>1. sweep' = [on |-> FALSE, todo |-> {}, gone |-> {}]
    BY <1>2 DEF A!Forget, A!NoSweep
  <2>2. A!TypeOK'
    BY <1>2, <2>1 DEF A!Forget, A!Old
  <2> QED  BY <1>2, <2>1, <2>2 DEF A!Forget
<1>3. CASE A!Stop
  BY <1>3 DEF A!Stop, A!NoSweep
<1>4. ASSUME NEW c \in Thing, A!Callback(c) PROVE SweepInv'
  BY <1>4 DEF A!Callback
<1>5. ASSUME NEW c \in Thing, A!Record(c) PROVE SweepInv'
  BY <1>5 DEF A!Record
<1>6. ASSUME NEW c \in Thing, A!Ages(c) PROVE SweepInv'
  BY <1>6 DEF A!Ages
<1>7. ASSUME NEW c \in Thing, A!AskTwilio(c) PROVE SweepInv'
  <2>1. PICK heard \in BOOLEAN, does \in BOOLEAN :
          /\ audio' = IF does THEN [audio EXCEPT ![c] = FALSE] ELSE audio
          /\ sweep' = [sweep EXCEPT !.todo = @ \ {c},
                                    !.gone = IF A!CountsAsGone(heard, audio'[c])
                                             THEN @ \cup {c} ELSE @]
    BY <1>7 DEF A!AskTwilio
  <2>2. /\ sweep'.todo = sweep.todo \ {c} /\ sweep'.on = sweep.on
        /\ sweep'.gone \in {sweep.gone, sweep.gone \cup {c}}
        /\ sweep' \in [on : BOOLEAN, todo : SUBSET Thing, gone : SUBSET Thing]
        /\ audio'[c] => sweep'.gone = sweep.gone
    BY <2>1 DEF A!CountsAsGone
  <2>3. /\ audio' \in [Thing -> BOOLEAN] /\ audio'[c] => audio[c]
        /\ \A d \in Thing \ {c} : audio'[d] = audio[d]
    BY <2>1
  <2> QED  BY <1>7, <2>2, <2>3 DEF A!AskTwilio
<1> QED  BY <1>1, <1>2, <1>3, <1>4, <1>5, <1>6, <1>7 DEF A!Next

LEMMA SweepStands == SweepInv /\ UNCHANGED sweeping => SweepInv'
BY DEF SweepInv, A!TypeOK, sweeping

LEMMA SweepPromises == SweepInv => A!AudioIsFindable
BY DEF SweepInv, A!TypeOK, A!AudioIsFindable

-----------------------------------------------------------------------------
(* The queue of what went wrong.                                           *)

\* What a sender has in hand once its text was tried.
TextOf(s) == {Q!Held, Q!Fails, Q!NoProvider, [status |-> "sent", error |-> FALSE, sid |-> s]}

\* A text without a sid that was not held back is an error, and two requests to be
\* deleted are there only when they crossed or a resolved one was reopened.
QueueInv ==
  /\ Q!TypeOK
  /\ sms.status \notin {"none", "opted_out"} /\ sms.sid = None => sms.error
  /\ \A s \in Actor : work[s].pc = "email" => work[s].sms \in TextOf(s)
  /\ \/ twice
     \/ \A a, b \in Thing :
          ask[a] \in {"looked", "pending"} /\ ask[b] \in {"looked", "pending"} => a = b

LEMMA QueueStarts == Q!Init => QueueInv
<1> SUFFICES ASSUME Q!Init PROVE QueueInv  OBVIOUS
<1>1. /\ sms = [status |-> "none", error |-> FALSE, sid |-> None]
      /\ work = [s \in Actor |-> [pc |-> "idle",
                   sms |-> [status |-> "none", error |-> FALSE, sid |-> None]]]
  BY DEF Q!Init, Q!Untried
<1>2. Q!TypeOK
  <2>1. sms \in [status : {"none", "sent", "failed", "not_configured", "opted_out",
                         "delivered", "undelivered"},
                error : BOOLEAN, sid : Actor \cup {None}]
    BY <1>1
  <2> DEFINE blank == [status |-> "none", error |-> FALSE, sid |-> None]
             Sms == [status : {"none", "sent", "failed", "not_configured", "opted_out"},
                     error : BOOLEAN, sid : Actor \cup {None}]
  <2>2. blank \in Sms
    OBVIOUS
  <2>3. work = [s \in Actor |-> [pc |-> "idle", sms |-> blank]]
    BY <1>1
  <2> HIDE DEF blank, Sms
  <2>4. work \in [Actor -> [pc : {"idle", "text", "email", "done"}, sms : Sms]]
    BY <2>2, <2>3
  <2> USE DEF Sms
  <2>5. email \in [status : {"none", "sent", "failed", "opted_out", "no_contact"},
                  error : BOOLEAN]
    BY DEF Q!Init
  <2> QED  BY <2>1, <2>4, <2>5 DEF Q!Init, Q!TypeOK
<1> QED  BY <1>1, <1>2 DEF Q!Init, QueueInv

Message(s) ==
  [status : {"none", "sent", "failed", "not_configured", "opted_out"}, error : BOOLEAN,
   sid : Actor \cup {None}]

LEMMA TextFields ==
  ASSUME NEW s \in Actor, s # None, NEW u \in TextOf(s)
  PROVE  /\ u \in Message(s) /\ u.status # "none"
         /\ u.sid = None /\ u.status # "opted_out" => u.error
         /\ u.status = "sent" => u.sid = s
         /\ u.status # "sent" => u.sid = None
<1>1. CASE u = Q!Held
  BY <1>1 DEF Message, Q!Held
<1>2. CASE u = Q!Fails
  BY <1>2 DEF Message, Q!Fails
<1>3. CASE u = Q!NoProvider
  <2>1. u = [status |-> "not_configured", error |-> TRUE, sid |-> None]
    BY <1>3 DEF Q!NoProvider, Q!Fails
  <2> QED  BY <2>1 DEF Message
<1>4. CASE u = [status |-> "sent", error |-> FALSE, sid |-> s]
  <2>1. u \in Message(s)
    BY <1>4 DEF Message
  <2>2. u.status = "sent" /\ u.sid = s
    BY <1>4
  <2> QED  BY <2>1, <2>2
<1> QED  BY <1>1, <1>2, <1>3, <1>4 DEF TextOf

LEMMA QueueMoves == QueueInv /\ Q!Assumptions /\ Q!Next => QueueInv'
<1> SUFFICES ASSUME QueueInv, Q!Assumptions, Q!Next PROVE QueueInv'  OBVIOUS
<1> USE DEF QueueInv, Q!TypeOK, Q!booking
<1>1. ASSUME NEW s \in Actor, Q!Send(s) PROVE QueueInv'
  <2>1. work' = [work EXCEPT ![s].pc = "text"]
    BY <1>1 DEF Q!Send
  <2>2. work' \in [Actor -> [pc : {"idle", "text", "email", "done"}, sms : Message(s)]]
    BY <2>1 DEF Message
  <2>3. \A r \in Actor : work'[r].pc = "email" => work'[r] = work[r]
    BY <2>1
  <2> QED  BY <1>1, <2>2, <2>3 DEF Q!Send, Message
<1>2. ASSUME NEW s \in Actor, Q!SendText(s) PROVE QueueInv'
  <2>1. PICK u \in Q!AfterText(s) : work' = [work EXCEPT ![s] = [pc |-> "email", sms |-> u]]
    BY <1>2 DEF Q!SendText
  <2>2. u \in TextOf(s)
    BY DEF Q!AfterText, TextOf
  <2>3. u \in Message(s)
    BY <2>2, TextFields DEF Q!Assumptions
  <2>4. work' \in [Actor -> [pc : {"idle", "text", "email", "done"}, sms : Message(s)]]
    BY <2>1, <2>3 DEF Message
  <2>5. /\ work'[s].sms = u
        /\ \A r \in Actor \ {s} : work'[r] = work[r]
    BY <2>1
  <2> QED  BY <1>2, <2>2, <2>4, <2>5 DEF Q!SendText, Message
<1>3. ASSUME NEW s \in Actor, Q!SendEmail(s) PROVE QueueInv'
  <2> DEFINE u == work[s].sms
  <2>1. u \in TextOf(s)
    BY <1>3 DEF Q!SendEmail
  <2>2. /\ u \in Message(s) /\ u.status # "none"
        /\ u.sid = None /\ u.status # "opted_out" => u.error
        /\ u.status = "sent" => u.sid = s
        /\ u.status # "sent" => u.sid = None
    BY <2>1, TextFields DEF Q!Assumptions
  <2>3. /\ sms' = [status |-> u.status,
                   error  |-> IF u.status = "opted_out" THEN sms.error ELSE u.error,
                   sid    |-> IF u.status \in {"opted_out", "failed"} THEN sms.sid ELSE u.sid]
        /\ work' = [work EXCEPT ![s].pc = "done"]
    BY <1>3 DEF Q!SendEmail
  <2> HIDE DEF u
  <2>4. /\ sms' \in [status : {"none", "sent", "failed", "not_configured", "opted_out",
                               "delivered", "undelivered"},
                     error : BOOLEAN, sid : Actor \cup {None}]
        /\ sms'.status \notin {"none", "opted_out"} /\ sms'.sid = None => sms'.error
    BY <2>2, <2>3 DEF Message
  <2>5. email' \in [status : {"none", "sent", "failed", "opted_out", "no_contact"},
                    error : BOOLEAN]
    <3>1. CASE email' = [email EXCEPT !.status = "opted_out"]
      BY <3>1
    <3>2. CASE email' = [status |-> "sent", error |-> FALSE]
      BY <3>2
    <3>3. CASE email' = [status |-> "failed", error |-> TRUE]
      BY <3>3
    <3>4. CASE email' = [status |-> "no_contact", error |-> FALSE]
      BY <3>4
    <3> QED  BY <1>3, <3>1, <3>2, <3>3, <3>4 DEF Q!SendEmail
  <2>6. /\ work' \in [Actor -> [pc : {"idle", "text", "email", "done"}, sms : Message(s)]]
        /\ \A r \in Actor : work'[r].pc = "email" => work'[r] = work[r]
    BY <2>3 DEF Message
  <2> QED  BY <1>3, <2>4, <2>5, <2>6 DEF Q!SendEmail, Message
<1>4. ASSUME NEW s \in Actor, Q!Stop(s) PROVE QueueInv'
  <2>1. work' = [work EXCEPT ![s].pc = "done"]
    BY <1>4 DEF Q!Stop
  <2>2. work' \in [Actor -> [pc : {"idle", "text", "email", "done"}, sms : Message(s)]]
    BY <2>1 DEF Message
  <2>3. \A r \in Actor : work'[r].pc = "email" => work'[r] = work[r]
    BY <2>1
  <2> QED  BY <1>4, <2>2, <2>3 DEF Q!Stop, Message
<1>5. ASSUME NEW s \in Actor, Q!Receipt(s) PROVE QueueInv'
  <2>1. PICK answer \in {"delivered", "undelivered"} :
          /\ told' = [told EXCEPT ![s] = answer]
          /\ sms' = IF sms.sid = s THEN [sms EXCEPT !.status = answer] ELSE sms
    BY <1>5 DEF Q!Receipt
  <2>2. s # None
    BY DEF Q!Assumptions
  <2>3. /\ sms' \in [status : {"none", "sent", "failed", "not_configured", "opted_out",
                               "delivered", "undelivered"},
                     error : BOOLEAN, sid : Actor \cup {None}]
        /\ sms'.sid = sms.sid /\ sms'.error = sms.error
        /\ sms'.sid = None => sms' = sms
    BY <2>1, <2>2
  <2> QED  BY <1>5, <2>1, <2>3 DEF Q!Receipt
<1>6. CASE Q!AnswerTexts
  BY <1>6 DEF Q!AnswerTexts
<1>7. CASE Q!Sync \/ Q!SyncAgain
  BY <1>7 DEF Q!Sync, Q!SyncAgain
<1>8. ASSUME NEW p \in Q!Problem, Q!Resolve(p) \/ Q!Reopen(p) PROVE QueueInv'
  BY <1>8 DEF Q!Resolve, Q!Reopen
<1>9. ASSUME NEW a \in Thing, Q!Look(a) PROVE QueueInv'
  <2>1. /\ ask' = [ask EXCEPT ![a] = IF Q!SomeoneWaits THEN "refused" ELSE "looked"]
        /\ twice' = (twice \/ (~Q!SomeoneWaits /\ \E b \in Thing : ask[b] = "looked"))
        /\ UNCHANGED <<sms, email, sync, marked, optedOut, work, told>>
    BY <1>9 DEF Q!Look
  <2>2. Q!SomeoneWaits <=> \E b \in Thing : ask[b] = "pending"
    BY DEF Q!SomeoneWaits, Q!Pending
  <2>3. ask' \in [Thing -> {"none", "looked", "refused", "pending", "resolved"}]
    BY <2>1
  <2>4. \/ twice'
        \/ \A c, d \in Thing :
             ask'[c] \in {"looked", "pending"} /\ ask'[d] \in {"looked", "pending"} => c = d
    <3>1. CASE Q!SomeoneWaits
      BY <2>1, <3>1
    <3>2. CASE ~Q!SomeoneWaits
      BY <2>1, <2>2, <3>2
    <3> QED  BY <3>1, <3>2
  <2>5. twice' \in BOOLEAN
    BY <2>1
  <2> QED  BY <2>1, <2>3, <2>4, <2>5
<1>10. ASSUME NEW a \in Thing, Q!Insert(a) PROVE QueueInv'
  BY <1>10 DEF Q!Insert
<1>11. ASSUME NEW a \in Thing, Q!Answer(a) PROVE QueueInv'
  <2>1. UNCHANGED <<sms, email, sync, marked, optedOut, work, told>>
    BY <1>11 DEF Q!Answer
  <2>2. CASE ask[a] = "pending" /\ ask' = [ask EXCEPT ![a] = "resolved"] /\ UNCHANGED twice
    BY <2>1, <2>2
  <2>3. CASE ask[a] = "resolved" /\ ask' = [ask EXCEPT ![a] = "pending"] /\ twice' = TRUE
    BY <2>1, <2>3
  <2> QED  BY <1>11, <2>2, <2>3 DEF Q!Answer
<1> QED
  BY <1>1, <1>2, <1>3, <1>4, <1>5, <1>6, <1>7, <1>8, <1>9, <1>10, <1>11 DEF Q!Next

LEMMA QueueStands == QueueInv /\ UNCHANGED queueing => QueueInv'
BY DEF QueueInv, Q!TypeOK, queueing

LEMMA QueuePromises == QueueInv => Q!UnsentIsListed /\ Q!OneDeleteRequest
<1> SUFFICES ASSUME QueueInv PROVE Q!UnsentIsListed /\ Q!OneDeleteRequest  OBVIOUS
<1>1. Q!UnsentIsListed
  BY DEF QueueInv, Q!TypeOK, Q!UnsentIsListed, Q!Open, Q!Resolved, Q!Failing, Q!Problem
<1>2. ASSUME ~twice PROVE Q!Cardinality(Q!Pending) <= 1
  <2>1. \A a, b \in Q!Pending : a = b
    BY <1>2 DEF QueueInv, Q!Pending
  <2>2. CASE Q!Pending = {}
    <3>1. Cardinality(Q!Pending) = 0
      BY <2>2, FS_EmptySet
    <3> QED  BY <3>1 DEF Q!Cardinality, Cardinality
  <2>3. ASSUME NEW a \in Q!Pending PROVE Q!Cardinality(Q!Pending) <= 1
    <3>1. Q!Pending = {a}
      BY <2>1
    <3>2. Cardinality({a}) = 1
      BY FS_Singleton
    <3>3. Q!Cardinality({a}) = Cardinality({a})
      BY DEF Q!Cardinality, Cardinality
    <3> QED  BY <3>1, <3>2, <3>3
  <2> QED  BY <2>2, <2>3
<1> QED  BY <1>1, <1>2 DEF Q!OneDeleteRequest

-----------------------------------------------------------------------------
(* The monthly report.                                                     *)

Reporting(p) == working[p].of = "report" /\ working[p].pc # "idle"
Claimed(p) == working[p].of = "report" /\ working[p].pc \in {"count", "send"}

\* The figures a process has read, unless the diary changed since.
Figures(p) ==
  ~working[p].got.crossed =>
    /\ working[p].whole => working[p].got.visits = M!Cardinality(M!OfMonth(working[p].for))
    /\ working[p].parts =>
         /\ working[p].got.noShows = M!Cardinality(M!NoShows(working[p].for))
         /\ working[p].got.ai = M!Cardinality(M!ByAgent(working[p].for))

\* What a process knows of the month it reports.
InTime(p) ==
  /\ working[p].pc \in {"claim", "send"} => working[p].of = "report"
  /\ Reporting(p) => month >= 2 /\ working[p].for = month - 1
  /\ Claimed(p) => sentFor = month - 1 /\ mails[month - 1] = 0
  /\ \A q \in Actor : Claimed(p) /\ Claimed(q) => p = q

ReportInv ==
  /\ M!TypeOK
  /\ month >= 1 /\ sentFor < month
  /\ early => month >= 2
  /\ \A p \in Actor : InTime(p) /\ Figures(p)
  /\ \A m \in M!Month : mails[m] <= 1 /\ (m >= month => mails[m] = 0)
  /\ sentFor # month - 1 => mails[month - 1] = 0
  /\ M!ClaimsAreSettled

-----------------------------------------------------------------------------
\* Counting.

LEMMA MonthsCounted ==
  ASSUME M!Assumptions, NEW m
  PROVE  /\ M!Cardinality(Visit) \in Nat
         /\ M!Cardinality(M!OfMonth(m)) \in M!Count
         /\ M!Cardinality(M!NoShows(m)) \in M!Count
         /\ M!Cardinality(M!ByAgent(m)) \in M!Count
         /\ M!Cardinality(M!NoShows(m)) <= M!Cardinality(M!OfMonth(m))
         /\ M!Cardinality(M!ByAgent(m)) <= M!Cardinality(M!OfMonth(m))
<1>1. \A S : M!Cardinality(S) = Cardinality(S)
  BY DEF M!Cardinality, Cardinality
<1>2. IsFiniteSet(Visit)
  BY DEF M!Assumptions, M!IsFiniteSet, IsFiniteSet
<1>3. /\ M!OfMonth(m) \subseteq Visit /\ M!NoShows(m) \subseteq M!OfMonth(m)
      /\ M!ByAgent(m) \subseteq M!OfMonth(m)
  BY DEF M!OfMonth, M!NoShows, M!ByAgent
<1>4. /\ IsFiniteSet(M!OfMonth(m)) /\ Cardinality(M!OfMonth(m)) <= Cardinality(Visit)
  BY <1>2, <1>3, FS_Subset
<1>5. /\ IsFiniteSet(M!NoShows(m)) /\ Cardinality(M!NoShows(m)) <= Cardinality(M!OfMonth(m))
  BY <1>3, <1>4, FS_Subset
<1>6. /\ IsFiniteSet(M!ByAgent(m)) /\ Cardinality(M!ByAgent(m)) <= Cardinality(M!OfMonth(m))
  BY <1>3, <1>4, FS_Subset
<1>7. /\ Cardinality(Visit) \in Nat /\ Cardinality(M!OfMonth(m)) \in Nat
      /\ Cardinality(M!NoShows(m)) \in Nat /\ Cardinality(M!ByAgent(m)) \in Nat
  BY <1>2, <1>4, <1>5, <1>6, FS_CardinalityType
<1> QED  BY <1>1, <1>4, <1>5, <1>6, <1>7 DEF M!Count

LEMMA ReportStarts == M!Assumptions /\ M!Init => ReportInv
<1> SUFFICES ASSUME M!Assumptions, M!Init PROVE ReportInv  OBVIOUS
<1>1. working = [p \in Actor |->
        [pc |-> "idle", of |-> "report", for |-> 0, whole |-> FALSE, parts |-> FALSE,
         got |-> [visits |-> 0, noShows |-> 0, ai |-> 0, crossed |-> FALSE]]]
  BY DEF M!Init, M!Idle, M!Nothing
<1>2. MaxMonth \in Nat /\ MaxMonth >= 1 /\ MaxEvents \in Nat
  BY DEF M!Assumptions
<1>3. 0 \in M!Count
  <2>1. M!Cardinality(Visit) \in Nat
    BY MonthsCounted
  <2> QED  BY <2>1 DEF M!Count
<1>4. M!TypeOK
  <2>1. [visits |-> 0, noShows |-> 0, ai |-> 0, crossed |-> FALSE] \in M!Shown
    BY <1>3 DEF M!Shown
  <2>2. \A g \in M!Shown :
          [pc |-> "idle", of |-> "report", for |-> 0, whole |-> FALSE, parts |-> FALSE,
           got |-> g] \in M!WorkState
    BY <1>2 DEF M!WorkState, M!Month
  <2>3. working \in [Actor -> M!WorkState]
    BY <1>1, <2>1, <2>2
  <2>4. M!NoDoc \in M!Doc
    BY <1>2 DEF M!NoDoc, M!Doc, M!Month
  <2>5. books \in [Visit -> M!Doc]
    BY <2>4 DEF M!Init
  <2>6. mails \in [M!Month -> 0..2]
    BY DEF M!Init
  <2>7. month \in M!Month /\ sentFor \in M!Month /\ events \in 0..MaxEvents
    BY <1>2 DEF M!Init, M!Month
  <2>8. /\ early \in BOOLEAN /\ enabled \in BOOLEAN /\ rang \subseteq M!Month
        /\ quiet \subseteq M!Month /\ mishap \subseteq M!Month
    BY DEF M!Init
  <2> QED  BY <2>3, <2>5, <2>6, <2>7, <2>8 DEF M!TypeOK
<1>5. \A p \in Actor : InTime(p) /\ Figures(p)
  BY <1>1 DEF InTime, Figures, Reporting, Claimed
<1> QED
  BY <1>2, <1>4, <1>5 DEF M!Init, ReportInv, M!ClaimsAreSettled, M!Month

-----------------------------------------------------------------------------
\* The work of one process.

LEMMA WorkFields ==
  ASSUME M!TypeOK, NEW p \in Actor
  PROVE  /\ working \in [Actor -> M!WorkState] /\ working[p] \in M!WorkState
         /\ working[p].pc \in {"idle", "claim", "count", "send"}
         /\ working[p].of \in {"report", "answer"} /\ working[p].for \in M!Month
         /\ working[p].whole \in BOOLEAN /\ working[p].parts \in BOOLEAN
         /\ working[p].got \in M!Shown
<1>1. working \in [Actor -> M!WorkState] /\ working[p] \in M!WorkState
  BY DEF M!TypeOK
<1> QED  BY <1>1 DEF M!WorkState

LEMMA Resting ==
  ASSUME M!Assumptions
  PROVE  /\ M!Idle \in M!WorkState
         /\ M!Idle.pc = "idle" /\ M!Idle.of = "report" /\ M!Idle.for = 0
         /\ ~M!Idle.whole /\ ~M!Idle.parts
<1>1. M!Idle = [pc |-> "idle", of |-> "report", for |-> 0, whole |-> FALSE, parts |-> FALSE,
                got |-> [visits |-> 0, noShows |-> 0, ai |-> 0, crossed |-> FALSE]]
  BY DEF M!Idle, M!Nothing
<1>2. 0 \in M!Count
  <2>1. M!Cardinality(Visit) \in Nat
    BY MonthsCounted
  <2> QED  BY <2>1 DEF M!Count
<1>3. [visits |-> 0, noShows |-> 0, ai |-> 0, crossed |-> FALSE] \in M!Shown
  BY <1>2 DEF M!Shown
<1>4. \A g \in M!Shown :
        [pc |-> "idle", of |-> "report", for |-> 0, whole |-> FALSE, parts |-> FALSE,
         got |-> g] \in M!WorkState
  BY DEF M!WorkState, M!Month, M!Assumptions
<1> QED  BY <1>1, <1>3, <1>4

LEMMA FiguresStand ==
  ASSUME NEW p \in Actor, Figures(p), UNCHANGED books, working'[p] = working[p]
  PROVE  Figures(p)'
BY DEF Figures, M!OfMonth, M!NoShows, M!ByAgent

LEMMA FiguresCarried ==
  ASSUME NEW p \in Actor, Figures(p), UNCHANGED books, NEW new, working'[p] = new,
         new.for = working[p].for, new.got = working[p].got,
         new.whole = working[p].whole, new.parts = working[p].parts
  PROVE  Figures(p)'
<1>1. \A m : /\ M!OfMonth(m)' = M!OfMonth(m) /\ M!NoShows(m)' = M!NoShows(m)
            /\ M!ByAgent(m)' = M!ByAgent(m)
  BY DEF M!OfMonth, M!NoShows, M!ByAgent
<1> QED  BY <1>1 DEF Figures, M!OfMonth, M!NoShows, M!ByAgent

LEMMA NothingRead ==
  ASSUME NEW p \in Actor, ~working'[p].whole, ~working'[p].parts
  PROVE  Figures(p)'
BY DEF Figures

\* A process gives up what it does, or ends it.
LEMMA LaidDown ==
  ASSUME M!Assumptions, M!TypeOK, \A q \in Actor : Figures(q), UNCHANGED books,
         NEW p \in Actor, working' = [working EXCEPT ![p] = M!Idle]
  PROVE  /\ working' \in [Actor -> M!WorkState]
         /\ \A q \in Actor : Figures(q)'
         /\ working'[p].pc = "idle" /\ working'[p].of = "report"
         /\ \A q \in Actor \ {p} : working'[q] = working[q]
<1>1. /\ working' \in [Actor -> M!WorkState] /\ working'[p] = M!Idle
      /\ \A q \in Actor \ {p} : working'[q] = working[q]
  BY WorkFields, Resting
<1>2. Figures(p)'
  BY <1>1, Resting, NothingRead
<1>3. ASSUME NEW q \in Actor \ {p} PROVE Figures(q)'
  BY <1>1, FiguresStand
<1> QED  BY <1>1, <1>2, <1>3, Resting

-----------------------------------------------------------------------------
\* The ledger: what was claimed and what went out.

\* Nobody lays a claim or settles one.
LEMMA NoClaimMoves ==
  ASSUME ReportInv, M!TypeOK', \A q \in Actor : Figures(q)',
         UNCHANGED <<month, sentFor, mails, quiet, mishap>>, early' => month >= 2,
         \A q \in Actor :
           \/ /\ working'[q].pc = working[q].pc /\ working'[q].of = working[q].of
              /\ working'[q].for = working[q].for
           \/ /\ ~Claimed(q) /\ ~Reporting(q)' /\ working'[q].pc \in {"idle", "count"}
           \/ /\ ~Claimed(q) /\ working'[q].pc = "claim" /\ working'[q].of = "report"
              /\ working'[q].for = month - 1 /\ month >= 2
  PROVE  ReportInv'
<1>1. \A q \in Actor : Claimed(q)' <=> Claimed(q)
  BY DEF Claimed, Reporting
<1>2. ASSUME NEW q \in Actor PROVE InTime(q)'
  <2>1. /\ working'[q].pc \in {"claim", "send"} => working'[q].of = "report"
        /\ Reporting(q)' => month >= 2 /\ working'[q].for = month - 1
    BY DEF ReportInv, InTime, Reporting
  <2>2. Claimed(q)' => sentFor = month - 1 /\ mails[month - 1] = 0
    BY <1>1 DEF ReportInv, InTime
  <2>3. \A r \in Actor : Claimed(q)' /\ Claimed(r)' => q = r
    BY <1>1 DEF ReportInv, InTime
  <2> QED  BY <2>1, <2>2, <2>3 DEF InTime
<1>3. M!ClaimsAreSettled'
  <2>1. ASSUME NEW q \in Actor, Claimed(q), working[q].for = sentFor
        PROVE  Claimed(q)' /\ working'[q].for = sentFor
    BY <1>1, <2>1 DEF Claimed
  <2> QED  BY <2>1 DEF ReportInv, M!ClaimsAreSettled, Claimed
<1> QED  BY <1>2, <1>3 DEF ReportInv

\* The process that has the claim ends.
LEMMA ClaimEnds ==
  ASSUME ReportInv, M!TypeOK', \A q \in Actor : Figures(q)', UNCHANGED <<month, early>>,
         NEW p \in Actor, Claimed(p),
         working'[p].pc = "idle", \A q \in Actor \ {p} : working'[q] = working[q],
         \/ sentFor' = 0 /\ UNCHANGED mails
         \/ UNCHANGED <<sentFor, mails>> /\ sentFor \in quiet' \cup mishap'
         \/ UNCHANGED sentFor /\ mails' = [mails EXCEPT ![sentFor] = 1]
  PROVE  ReportInv'
<1>1. /\ month \in M!Month /\ sentFor \in M!Month /\ mails \in [M!Month -> 0..2]
      /\ month >= 2 /\ sentFor = month - 1 /\ mails[sentFor] = 0
      /\ sentFor # 0
  BY DEF ReportInv, InTime, M!TypeOK, M!Month, Claimed, Reporting
<1>2. \A q \in Actor : ~Claimed(q)'
  <2>1. \A q \in Actor \ {p} : ~Claimed(q)
    BY DEF ReportInv, InTime
  <2>2. ~Claimed(p)'
    BY DEF Claimed
  <2> QED  BY <2>1, <2>2 DEF Claimed
<1>3. \A q \in Actor : InTime(q)'
  BY <1>2 DEF ReportInv, InTime, Reporting
<1>4. /\ sentFor' < month
      /\ \A m \in M!Month : mails'[m] <= 1 /\ (m >= month => mails'[m] = 0)
      /\ sentFor' # month - 1 => mails'[month - 1] = 0
      /\ sentFor' # 0 => mails'[sentFor'] = 1 \/ sentFor' \in quiet' \cup mishap'
  <2>1. \A m \in M!Month : m \in Int /\ mails[m] <= 1 /\ (m >= month => mails[m] = 0)
    BY DEF ReportInv, M!Month
  <2>2. month \in Int /\ sentFor < month
    BY <1>1 DEF M!Month
  <2>3. CASE sentFor' = 0 /\ UNCHANGED mails
    BY <1>1, <2>1, <2>2, <2>3
  <2>4. CASE UNCHANGED <<sentFor, mails>> /\ sentFor \in quiet' \cup mishap'
    BY <1>1, <2>1, <2>2, <2>4
  <2>5. CASE UNCHANGED sentFor /\ mails' = [mails EXCEPT ![sentFor] = 1]
    <3>1. mails'[sentFor] = 1 /\ \A m \in M!Month \ {sentFor} : mails'[m] = mails[m]
      BY <1>1, <2>5
    <3> QED  BY <1>1, <2>1, <2>2, <2>5, <3>1
  <2> QED  BY <2>3, <2>4, <2>5
<1> QED  BY <1>1, <1>3, <1>4 DEF ReportInv, M!ClaimsAreSettled

-----------------------------------------------------------------------------
\* The actions.

LEMMA DiaryMoves ==
  ASSUME ReportInv, M!Assumptions, NEW b \in Visit, NEW doc \in M!Doc, M!Change(b, doc)
  PROVE  ReportInv'
<1>1. /\ events < MaxEvents /\ events' = events + 1
      /\ books' = [books EXCEPT ![b] = doc]
      /\ working' = [p \in Actor |->
             IF working[p].whole \/ working[p].parts
             THEN [working[p] EXCEPT !.got.crossed = TRUE] ELSE working[p]]
      /\ UNCHANGED <<rang, sentFor, mails, quiet, mishap, month, early, enabled>>
  BY DEF M!Change, M!Crossing, M!Ledger, M!Time
<1>2. ASSUME NEW p \in Actor
      PROVE  /\ working'[p] \in M!WorkState
             /\ working'[p].pc = working[p].pc /\ working'[p].of = working[p].of
             /\ working'[p].for = working[p].for
             /\ Figures(p)'
  <2>1. CASE working[p].whole \/ working[p].parts
    <3> DEFINE new == [working[p].got EXCEPT !.crossed = TRUE]
    <3>1. new \in M!Shown /\ new.crossed
      BY WorkFields DEF ReportInv, M!Shown
    <3>2. working'[p] = [working[p] EXCEPT !.got = new]
      BY <1>1, <2>1
    <3> HIDE DEF new
    <3>3. working'[p] \in M!WorkState /\ working'[p].got = new
      BY <3>1, <3>2, WorkFields DEF ReportInv, M!WorkState
    <3>4. /\ working'[p].pc = working[p].pc /\ working'[p].of = working[p].of
          /\ working'[p].for = working[p].for
      BY <3>2, WorkFields DEF ReportInv, M!WorkState
    <3> QED  BY <3>1, <3>3, <3>4 DEF Figures
  <2>2. CASE ~(working[p].whole \/ working[p].parts)
    <3>1. working'[p] = working[p]
      BY <1>1, <2>2
    <3> QED  BY <2>2, <3>1, WorkFields DEF ReportInv, Figures
  <2> QED  BY <2>1, <2>2
<1>3. M!TypeOK'
  <2>1. working' \in [Actor -> M!WorkState]
    BY <1>1, <1>2
  <2>2. books' \in [Visit -> M!Doc]
    BY <1>1 DEF ReportInv, M!TypeOK
  <2>3. events' \in 0..MaxEvents
    BY <1>1 DEF ReportInv, M!TypeOK, M!Assumptions
  <2> QED  BY <1>1, <2>1, <2>2, <2>3 DEF ReportInv, M!TypeOK
<1> QED  BY <1>1, <1>2, <1>3, NoClaimMoves DEF ReportInv

LEMMA MadeDocs ==
  ASSUME ReportInv, M!Assumptions, NEW b \in Visit
  PROVE  /\ \A via \in {"call", "dashboard"} :
              [status |-> "confirmed", month |-> month, no_show |-> FALSE, via |-> via]
                \in M!Doc
         /\ \A flag \in BOOLEAN : [books[b] EXCEPT !.no_show = flag] \in M!Doc
         /\ [books[b] EXCEPT !.status = "cancelled"] \in M!Doc
BY DEF ReportInv, M!TypeOK, M!Doc

LEMMA TimeMoves ==
  ASSUME ReportInv, M!Assumptions, M!Call \/ M!LateInMonth \/ M!Switch \/ M!NextMonth
  PROVE  ReportInv'
<1>1. UNCHANGED <<books, working, sentFor, mails, quiet, mishap, events>>
  BY DEF M!Call, M!LateInMonth, M!Switch, M!NextMonth, M!Ledger, M!Time, M!Diary
<1>2. \A q \in Actor : Figures(q)'
  BY <1>1, FiguresStand DEF ReportInv
<1>3. M!TypeOK'
  <2>1. /\ rang' \subseteq M!Month /\ month' \in M!Month
        /\ early' \in BOOLEAN /\ enabled' \in BOOLEAN
    <3>1. CASE M!Call
      BY <3>1 DEF ReportInv, M!TypeOK, M!Call, M!Time
    <3>2. CASE M!LateInMonth \/ M!Switch
      BY <3>2 DEF ReportInv, M!TypeOK, M!LateInMonth, M!Switch, M!Diary
    <3>3. CASE M!NextMonth
      BY <3>3 DEF ReportInv, M!TypeOK, M!NextMonth, M!Diary, M!Month, M!Assumptions
    <3> QED  BY <3>1, <3>2, <3>3
  <2> QED  BY <1>1, <2>1 DEF ReportInv, M!TypeOK
<1>4. CASE M!Call \/ M!LateInMonth \/ M!Switch
  <2>1. UNCHANGED month /\ (early' => month >= 2)
    BY <1>4 DEF ReportInv, M!Call, M!LateInMonth, M!Switch, M!Ledger, M!Time, M!Diary
  <2> QED  BY <1>1, <1>2, <1>3, <2>1, NoClaimMoves
<1>5. CASE M!NextMonth
  <2>1. /\ month' = month + 1 /\ month \in 0..MaxMonth /\ MaxMonth \in Nat
        /\ \A p \in Actor : ~Reporting(p)
        /\ month < MaxMonth
    BY <1>5 DEF M!NextMonth, Reporting, ReportInv, M!TypeOK, M!Month, M!Assumptions
  <2>2. \A p \in Actor : ~Claimed(p)
    BY <2>1 DEF Reporting, Claimed
  <2>3. \A p \in Actor : InTime(p)'
    BY <1>1, <2>1, <2>2 DEF ReportInv, InTime, Reporting, Claimed
  <2>4. M!ClaimsAreSettled'
    BY <1>1, <2>2 DEF ReportInv, M!ClaimsAreSettled, Claimed
  <2>5. \A m \in M!Month : mails[m] <= 1 /\ (m >= month + 1 => mails[m] = 0)
    BY <2>1 DEF ReportInv, M!Month
  <2>6. sentFor < month' /\ month' >= 2 /\ mails[month' - 1] = 0
    BY <2>1 DEF ReportInv, M!TypeOK, M!Month
  <2> QED  BY <1>1, <1>2, <1>3, <2>1, <2>3, <2>4, <2>5, <2>6 DEF ReportInv
<1> QED  BY <1>4, <1>5

\* A process has read one of its figures.
LEMMA OneFigureMore ==
  ASSUME ReportInv, M!Assumptions, NEW p \in Actor, NEW new \in M!WorkState,
         UNCHANGED <<books, rang, events, sentFor, mails, quiet, mishap, month, early, enabled>>,
         working' = [working EXCEPT ![p] = new],
         new.pc = working[p].pc, new.of = working[p].of, new.for = working[p].for,
         new.got.crossed = working[p].got.crossed,
         ~new.got.crossed =>
           /\ new.whole => new.got.visits = M!Cardinality(M!OfMonth(new.for))
           /\ new.parts => /\ new.got.noShows = M!Cardinality(M!NoShows(new.for))
                           /\ new.got.ai = M!Cardinality(M!ByAgent(new.for))
  PROVE  ReportInv'
<1>1. /\ working' \in [Actor -> M!WorkState] /\ working'[p] = new
      /\ \A q \in Actor \ {p} : working'[q] = working[q]
  BY DEF ReportInv, M!TypeOK
<1>2. M!TypeOK'
  BY <1>1 DEF ReportInv, M!TypeOK
<1>3. Figures(p)'
  BY <1>1 DEF Figures, M!OfMonth, M!NoShows, M!ByAgent
<1>4. ASSUME NEW q \in Actor \ {p} PROVE Figures(q)'
  BY <1>1, FiguresStand DEF ReportInv
<1>5. \A q \in Actor :
        /\ working'[q].pc = working[q].pc /\ working'[q].of = working[q].of
        /\ working'[q].for = working[q].for
  BY <1>1
<1> QED  BY <1>2, <1>3, <1>4, <1>5, NoClaimMoves DEF ReportInv

LEMMA FiguresRead ==
  ASSUME ReportInv, M!Assumptions, NEW p \in Actor, M!CountVisits(p) \/ M!CountParts(p)
  PROVE  ReportInv'
<1>1. UNCHANGED <<books, rang, events, sentFor, mails, quiet, mishap, month, early, enabled>>
  BY DEF M!CountVisits, M!CountParts, M!Diary, M!Ledger, M!Time
<1> DEFINE m == working[p].for
           visits == M!Cardinality(M!OfMonth(m))
           noShows == M!Cardinality(M!NoShows(m))
           ai == M!Cardinality(M!ByAgent(m))
<1>2. visits \in M!Count /\ noShows \in M!Count /\ ai \in M!Count
  BY MonthsCounted
<1>3. /\ working[p].got \in M!Shown /\ working[p] \in M!WorkState
      /\ working \in [Actor -> M!WorkState] /\ Figures(p)
  BY WorkFields DEF ReportInv
<1>4. CASE M!CountVisits(p)
  <2> DEFINE got == [working[p].got EXCEPT !.visits = visits]
             new == [working[p] EXCEPT !.whole = TRUE, !.got = got]
  <2>1. working' = [working EXCEPT ![p] = new]
    BY <1>3, <1>4 DEF M!CountVisits
  <2> HIDE DEF visits
  <2>2. /\ got \in M!Shown /\ got.visits = visits /\ got.crossed = working[p].got.crossed
        /\ got.noShows = working[p].got.noShows /\ got.ai = working[p].got.ai
    BY <1>2, <1>3 DEF M!Shown
  <2> HIDE DEF got
  <2>3. /\ new \in M!WorkState /\ new.got = got
        /\ new.pc = working[p].pc /\ new.of = working[p].of /\ new.for = working[p].for
        /\ new.parts = working[p].parts
    BY <1>3, <2>2 DEF M!WorkState
  <2> HIDE DEF new
  <2>4. ~new.got.crossed =>
           /\ new.whole => new.got.visits = M!Cardinality(M!OfMonth(new.for))
           /\ new.parts => /\ new.got.noShows = M!Cardinality(M!NoShows(new.for))
                           /\ new.got.ai = M!Cardinality(M!ByAgent(new.for))
    BY <1>3, <2>2, <2>3 DEF Figures, visits
  <2> QED  BY <1>1, <2>1, <2>2, <2>3, <2>4, OneFigureMore
<1>5. CASE M!CountParts(p)
  <2> DEFINE got == [working[p].got EXCEPT !.noShows = noShows, !.ai = ai]
             new == [working[p] EXCEPT !.parts = TRUE, !.got = got]
  <2>1. working' = [working EXCEPT ![p] = new]
    BY <1>3, <1>5 DEF M!CountParts
  <2> HIDE DEF noShows, ai
  <2>2. /\ got \in M!Shown /\ got.visits = working[p].got.visits
        /\ got.crossed = working[p].got.crossed
        /\ got.noShows = noShows /\ got.ai = ai
    BY <1>2, <1>3 DEF M!Shown
  <2> HIDE DEF got
  <2>3. /\ new \in M!WorkState /\ new.got = got
        /\ new.pc = working[p].pc /\ new.of = working[p].of /\ new.for = working[p].for
        /\ new.whole = working[p].whole
    BY <1>3, <2>2 DEF M!WorkState
  <2> HIDE DEF new
  <2>4. ~new.got.crossed =>
           /\ new.whole => new.got.visits = M!Cardinality(M!OfMonth(new.for))
           /\ new.parts => /\ new.got.noShows = M!Cardinality(M!NoShows(new.for))
                           /\ new.got.ai = M!Cardinality(M!ByAgent(new.for))
    BY <1>3, <2>2, <2>3 DEF Figures, noShows, ai
  <2> QED  BY <1>1, <2>1, <2>2, <2>3, <2>4, OneFigureMore
<1> QED  BY <1>4, <1>5

\* A process starts: nothing is read yet.
LEMMA WorkBegins ==
  ASSUME ReportInv, M!Assumptions, NEW p \in Actor, M!GetAnalytics(p) \/ M!Sweep(p)
  PROVE  ReportInv'
<1>1. UNCHANGED <<books, rang, events, sentFor, mails, quiet, mishap, month, early, enabled>>
  BY DEF M!GetAnalytics, M!Sweep, M!Diary, M!Ledger, M!Time
<1>2. /\ working \in [Actor -> M!WorkState] /\ working[p].pc = "idle" /\ ~Claimed(p)
      /\ month \in M!Month /\ month - 1 \in M!Month
  BY DEF M!GetAnalytics, M!Sweep, Claimed, ReportInv, M!TypeOK, M!Month, M!Assumptions
<1>3. M!Idle \in M!WorkState /\ ~M!Idle.whole /\ ~M!Idle.parts /\ M!Idle.of = "report"
  BY Resting
<1>4. PICK new \in M!WorkState :
        /\ working' = [working EXCEPT ![p] = new]
        /\ ~new.whole /\ ~new.parts
        /\ \/ new.pc = "count" /\ new.of = "answer"
           \/ /\ new.pc = "claim" /\ new.of = "report" /\ new.for = month - 1
              /\ month >= 2
  <2>1. CASE M!GetAnalytics(p)
    <3> DEFINE new == [M!Idle EXCEPT !.pc = "count", !.of = "answer", !.for = month]
    <3>1. working' = [working EXCEPT ![p] = new]
      BY <2>1 DEF M!GetAnalytics
    <3>2. /\ new \in M!WorkState /\ ~new.whole /\ ~new.parts
          /\ new.pc = "count" /\ new.of = "answer"
      BY <1>2, <1>3 DEF M!WorkState
    <3> QED  BY <3>1, <3>2
  <2>2. CASE M!Sweep(p)
    <3> DEFINE new == [M!Idle EXCEPT !.pc = "claim", !.for = month - 1]
    <3>1. working' = [working EXCEPT ![p] = new] /\ early
      BY <2>2 DEF M!Sweep
    <3>2. /\ new \in M!WorkState /\ ~new.whole /\ ~new.parts
          /\ new.pc = "claim" /\ new.of = "report" /\ new.for = month - 1
      BY <1>2, <1>3 DEF M!WorkState
    <3>3. month >= 2
      BY <3>1 DEF ReportInv
    <3> QED  BY <3>1, <3>2, <3>3
  <2> QED  BY <2>1, <2>2
<1>5. /\ working' \in [Actor -> M!WorkState] /\ working'[p] = new
      /\ \A q \in Actor \ {p} : working'[q] = working[q]
  BY <1>2, <1>4
<1>6. M!TypeOK'
  BY <1>1, <1>5 DEF ReportInv, M!TypeOK
<1>7. Figures(p)'
  BY <1>4, <1>5, NothingRead
<1>8. ASSUME NEW q \in Actor \ {p} PROVE Figures(q)'
  BY <1>1, <1>5, FiguresStand DEF ReportInv
<1>9. \A q \in Actor :
        \/ /\ working'[q].pc = working[q].pc /\ working'[q].of = working[q].of
           /\ working'[q].for = working[q].for
        \/ /\ ~Claimed(q) /\ ~Reporting(q)' /\ working'[q].pc \in {"idle", "count"}
        \/ /\ ~Claimed(q) /\ working'[q].pc = "claim" /\ working'[q].of = "report"
           /\ working'[q].for = month - 1 /\ month >= 2
  BY <1>2, <1>4, <1>5 DEF Reporting
<1> QED  BY <1>1, <1>6, <1>7, <1>8, <1>9, NoClaimMoves DEF ReportInv

\* A process that has not claimed ends.
LEMMA UnclaimedEnds ==
  ASSUME ReportInv, M!Assumptions, NEW p \in Actor, ~Claimed(p),
         working' = [working EXCEPT ![p] = M!Idle],
         UNCHANGED <<books, rang, events, sentFor, mails, quiet, mishap, month, early, enabled>>
  PROVE  ReportInv'
<1>1. /\ working' \in [Actor -> M!WorkState] /\ \A q \in Actor : Figures(q)'
      /\ working'[p].pc = "idle" /\ \A q \in Actor \ {p} : working'[q] = working[q]
  BY LaidDown DEF ReportInv
<1>2. M!TypeOK'
  BY <1>1 DEF ReportInv, M!TypeOK
<1>3. \A q \in Actor :
        \/ /\ working'[q].pc = working[q].pc /\ working'[q].of = working[q].of
           /\ working'[q].for = working[q].for
        \/ /\ ~Claimed(q) /\ ~Reporting(q)' /\ working'[q].pc \in {"idle", "count"}
  BY <1>1 DEF Reporting
<1> QED  BY <1>1, <1>2, <1>3, NoClaimMoves DEF ReportInv

LEMMA ClaimMoves ==
  ASSUME ReportInv, M!Assumptions, NEW p \in Actor, M!Claim(p)
  PROVE  ReportInv'
<1>1. /\ UNCHANGED <<books, rang, events, mails, quiet, mishap, month, early, enabled>>
      /\ working[p].pc = "claim" /\ ~Claimed(p)
  BY DEF M!Claim, M!Diary, M!Time, Claimed
<1>2. CASE ~M!Claimable(p)
  BY <1>1, <1>2, UnclaimedEnds DEF M!Claim
<1>3. CASE M!Claimable(p)
  <2>1. /\ working[p] \in M!WorkState /\ working[p].of = "report" /\ working[p].for = month - 1
        /\ month >= 2 /\ month \in M!Month /\ working \in [Actor -> M!WorkState]
    BY <1>1, WorkFields DEF ReportInv, InTime, Reporting, M!TypeOK
  <2>2. /\ sentFor # month - 1 /\ sentFor' = month - 1
        /\ working' = [working EXCEPT ![p].pc = "count"]
    BY <1>3, <2>1 DEF M!Claim, M!Claimable
  <2> DEFINE new == [working[p] EXCEPT !.pc = "count"]
  <2>3. /\ working' = [working EXCEPT ![p] = new]
        /\ new \in M!WorkState /\ new.pc = "count" /\ new.of = "report" /\ new.for = month - 1
        /\ new.whole = working[p].whole /\ new.parts = working[p].parts
        /\ new.got = working[p].got
    BY <2>1, <2>2 DEF M!WorkState
  <2> HIDE DEF new
  <2>4. /\ working' \in [Actor -> M!WorkState] /\ working'[p] = new
        /\ \A q \in Actor \ {p} : working'[q] = working[q]
    BY <2>1, <2>3
  <2>5. M!TypeOK'
    BY <1>1, <2>1, <2>2, <2>4 DEF ReportInv, M!TypeOK, M!Month, M!Assumptions
  <2>6. Figures(p)'
    BY <1>1, <2>1, <2>3, <2>4, FiguresCarried DEF ReportInv
  <2>7. ASSUME NEW q \in Actor \ {p} PROVE Figures(q)'
    BY <1>1, <2>4, FiguresStand DEF ReportInv
  <2>8. /\ \A q \in Actor : ~Claimed(q)
        /\ \A q \in Actor : Claimed(q)' => q = p
        /\ mails[month - 1] = 0
    <3>1. \A q \in Actor : ~Claimed(q)
      BY <2>2 DEF ReportInv, InTime
    <3>2. \A q \in Actor \ {p} : ~Claimed(q)'
      BY <2>4, <3>1 DEF Claimed
    <3> QED  BY <2>2, <3>1, <3>2 DEF ReportInv
  <2>9. \A q \in Actor : InTime(q)'
    BY <1>1, <2>1, <2>2, <2>3, <2>4, <2>8 DEF ReportInv, InTime, Reporting, Claimed
  <2>10. M!ClaimsAreSettled'
    BY <2>2, <2>3, <2>4 DEF M!ClaimsAreSettled
  <2> QED
    BY <1>1, <2>1, <2>2, <2>5, <2>6, <2>7, <2>9, <2>10 DEF ReportInv, M!Month
<1> QED  BY <1>2, <1>3

LEMMA BuiltMoves ==
  ASSUME ReportInv, M!Assumptions, NEW p \in Actor, M!Built(p)
  PROVE  ReportInv'
<1>1. /\ UNCHANGED <<books, rang, events, sentFor, mails, mishap, month, early, enabled>>
      /\ working[p].pc = "count" /\ working[p].of = "report" /\ Claimed(p)
  BY DEF M!Built, M!Counted, M!Diary, M!Time, Claimed
<1>2. /\ working[p] \in M!WorkState /\ working \in [Actor -> M!WorkState]
      /\ working[p].for = month - 1 /\ sentFor = month - 1 /\ month - 1 \in M!Month
  BY <1>1, WorkFields DEF ReportInv, InTime, Reporting, M!TypeOK
<1>3. CASE M!Silent(p)
  <2>1. quiet' = quiet \cup {sentFor} /\ working' = [working EXCEPT ![p] = M!Idle]
    BY <1>2, <1>3 DEF M!Built
  <2>2. /\ working' \in [Actor -> M!WorkState] /\ \A q \in Actor : Figures(q)'
        /\ working'[p].pc = "idle" /\ \A q \in Actor \ {p} : working'[q] = working[q]
    BY <1>1, <2>1, LaidDown DEF ReportInv
  <2>3. M!TypeOK'
    BY <1>1, <1>2, <2>1, <2>2 DEF ReportInv, M!TypeOK
  <2> QED  BY <1>1, <2>1, <2>2, <2>3, ClaimEnds DEF ReportInv
<1>4. CASE ~M!Silent(p)
  <2>1. working' = [working EXCEPT ![p].pc = "send"] /\ UNCHANGED quiet
    BY <1>4 DEF M!Built
  <2> DEFINE new == [working[p] EXCEPT !.pc = "send"]
  <2>2. /\ working' = [working EXCEPT ![p] = new]
        /\ new \in M!WorkState /\ new.pc = "send" /\ new.of = "report"
        /\ new.for = working[p].for
        /\ new.whole = working[p].whole /\ new.parts = working[p].parts
        /\ new.got = working[p].got
    BY <1>1, <1>2, <2>1 DEF M!WorkState
  <2> HIDE DEF new
  <2>3. /\ working' \in [Actor -> M!WorkState] /\ working'[p] = new
        /\ \A q \in Actor \ {p} : working'[q] = working[q]
    BY <1>2, <2>2
  <2>4. M!TypeOK'
    BY <1>1, <2>1, <2>3 DEF ReportInv, M!TypeOK
  <2>5. Figures(p)'
    BY <1>1, <2>2, <2>3, FiguresCarried DEF ReportInv
  <2>6. ASSUME NEW q \in Actor \ {p} PROVE Figures(q)'
    BY <1>1, <2>3, FiguresStand DEF ReportInv
  <2>7. /\ \A q \in Actor : Claimed(q)' <=> Claimed(q)
        /\ \A q \in Actor : Reporting(q)' <=> Reporting(q)
        /\ \A q \in Actor : working'[q].for = working[q].for
    BY <1>1, <2>2, <2>3 DEF Claimed, Reporting
  <2>8. ASSUME NEW q \in Actor PROVE InTime(q)'
    <3>1. working'[q].pc \in {"claim", "send"} => working'[q].of = "report"
      BY <2>2, <2>3 DEF ReportInv, InTime
    <3> QED  BY <1>1, <2>7, <3>1 DEF ReportInv, InTime
  <2>9. M!ClaimsAreSettled'
    BY <1>1, <1>2, <2>2, <2>3 DEF M!ClaimsAreSettled
  <2> QED  BY <1>1, <2>4, <2>5, <2>6, <2>8, <2>9 DEF ReportInv
<1> QED  BY <1>3, <1>4

\* The claim is given back, the report is sent or refused, the server stops.
LEMMA WorkEnds ==
  ASSUME ReportInv, M!Assumptions, NEW p \in Actor,
         M!Answer(p) \/ M!Fail(p) \/ M!Send(p) \/ M!Crash(p)
  PROVE  ReportInv'
<1>1. /\ UNCHANGED <<books, rang, events, quiet, month, early, enabled>>
      /\ working' = [working EXCEPT ![p] = M!Idle]
  BY DEF M!Answer, M!Fail, M!Send, M!Crash, M!Diary, M!Time, M!Ledger
<1>2. /\ working' \in [Actor -> M!WorkState] /\ \A q \in Actor : Figures(q)'
      /\ working'[p].pc = "idle" /\ \A q \in Actor \ {p} : working'[q] = working[q]
  BY <1>1, LaidDown DEF ReportInv
<1>3. CASE ~Claimed(p)
  <2>1. ~M!Fail(p) /\ ~M!Send(p)
    BY <1>3 DEF M!Fail, M!Send, Claimed, ReportInv, InTime
  <2>2. working[p].pc \in {"idle", "claim", "count", "send"}
    BY WorkFields DEF ReportInv
  <2>3. UNCHANGED <<sentFor, mails, mishap>>
    BY <1>3, <2>1, <2>2 DEF M!Answer, M!Crash, M!Ledger, Claimed, ReportInv
  <2> QED  BY <1>1, <1>3, <2>3, UnclaimedEnds
<1>4. CASE Claimed(p)
  <2>1. /\ working[p].for = sentFor /\ sentFor \in M!Month /\ mails[sentFor] = 0
        /\ mails \in [M!Month -> 0..2] /\ 0 \in M!Month
    BY <1>4 DEF ReportInv, InTime, Claimed, Reporting, M!TypeOK, M!Month, M!Assumptions
  <2>2. \/ sentFor' = 0 /\ UNCHANGED <<mails, mishap>>
        \/ UNCHANGED <<sentFor, mails>> /\ mishap' = mishap \cup {sentFor}
        \/ UNCHANGED <<sentFor, mishap>> /\ mails' = [mails EXCEPT ![sentFor] = 1]
    <3>1. CASE M!Answer(p)
      BY <1>4, <3>1 DEF M!Answer, Claimed
    <3>2. CASE M!Fail(p)
      BY <2>1, <3>2 DEF M!Fail, M!GiveBack
    <3>3. CASE M!Send(p)
      BY <2>1, <3>3 DEF M!Send
    <3>4. CASE M!Crash(p)
      BY <1>4, <2>1, <3>4 DEF M!Crash, Claimed
    <3> QED  BY <3>1, <3>2, <3>3, <3>4
  <2>3. M!TypeOK'
    <3>1. /\ sentFor' \in M!Month /\ mails' \in [M!Month -> 0..2]
          /\ mishap' \subseteq M!Month
      BY <2>1, <2>2 DEF ReportInv, M!TypeOK
    <3> QED  BY <1>1, <1>2, <3>1 DEF ReportInv, M!TypeOK
  <2> QED  BY <1>1, <1>2, <1>4, <2>2, <2>3, ClaimEnds
<1> QED  BY <1>3, <1>4

LEMMA ReportMoves == ReportInv /\ M!Assumptions /\ M!Next => ReportInv'
<1> SUFFICES ASSUME ReportInv, M!Assumptions, M!Next PROVE ReportInv'  OBVIOUS
<1>1. ASSUME NEW b \in Visit, NEW via \in {"call", "dashboard"}, M!Book(b, via)
      PROVE  ReportInv'
  BY <1>1, MadeDocs, DiaryMoves DEF M!Book
<1>2. ASSUME NEW b \in Visit, NEW flag \in BOOLEAN, M!SetNoShow(b, flag) PROVE ReportInv'
  BY <1>2, MadeDocs, DiaryMoves DEF M!SetNoShow
<1>3. ASSUME NEW b \in Visit, M!Cancel(b) PROVE ReportInv'
  BY <1>3, MadeDocs, DiaryMoves DEF M!Cancel
<1> QED
  BY <1>1, <1>2, <1>3, TimeMoves, FiguresRead, WorkBegins, ClaimMoves, BuiltMoves, WorkEnds
  DEF M!Next

LEMMA ReportStands == ReportInv /\ UNCHANGED reporting => ReportInv'
<1> SUFFICES ASSUME ReportInv, UNCHANGED reporting PROVE ReportInv'  OBVIOUS
<1>1. UNCHANGED <<month, early, enabled, sentFor, books, rang, working, mails, quiet, mishap,
                  events>>
  BY DEF reporting
<1>2. M!TypeOK'
  BY <1>1 DEF ReportInv, M!TypeOK
<1>3. \A q \in Actor : Figures(q)'
  BY <1>1, FiguresStand DEF ReportInv
<1> QED  BY <1>1, <1>2, <1>3, NoClaimMoves DEF ReportInv

LEMMA ReportPromises ==
  ReportInv /\ M!Assumptions => M!ReportedOnce /\ M!ClaimsAreSettled /\ M!RatesAreRates
<1> SUFFICES ASSUME ReportInv, M!Assumptions
             PROVE  M!ReportedOnce /\ M!ClaimsAreSettled /\ M!RatesAreRates
  OBVIOUS
<1>1. M!ReportedOnce /\ M!ClaimsAreSettled
  BY DEF ReportInv, M!ReportedOnce
<1>2. ASSUME NEW p \in Actor, M!Counted(p), ~working[p].got.crossed
      PROVE  /\ working[p].got.noShows <= working[p].got.visits
             /\ working[p].got.ai <= working[p].got.visits
  <2>1. /\ working[p].got.visits = M!Cardinality(M!OfMonth(working[p].for))
        /\ working[p].got.noShows = M!Cardinality(M!NoShows(working[p].for))
        /\ working[p].got.ai = M!Cardinality(M!ByAgent(working[p].for))
    BY <1>2 DEF ReportInv, Figures, M!Counted
  <2> QED  BY <2>1, MonthsCounted
<1> QED  BY <1>1, <1>2 DEF M!RatesAreRates

-----------------------------------------------------------------------------
(* The customers' records.                                                 *)

\* Who said no, and nothing crossed it.
Silenced == stopped \ (crossed \cup gone)

RecordsOK ==
  /\ records \in [Thing -> C!Record \cup {None}] /\ ids \in 0..MaxRecords
  /\ \A p, q \in Thing : C!Exists(p) /\ C!IsRecord(q, records[p].id) => p = q
  /\ \A p \in Thing : C!Exists(p) => records[p].id <= ids

\* What a request has read is so, or the record is gone.
HandlerKnows(h) ==
  handler[h].pc # "idle" =>
    /\ handler[h].into \in Thing
    /\ handler[h].into \in gone
       \/ IF handler[h].pc = "sms" THEN C!Exists(handler[h].into)
          ELSE C!IsRecord(handler[h].into, handler[h].intoId)
    /\ handler[h].pc \in {"form", "read", "moved"} /\ handler[h].into \in Silenced
         => ~handler[h].optIn
    /\ C!Merging(h) => handler[h].from \in Thing /\ handler[h].from # handler[h].into
    /\ handler[h].pc \in {"moved", "written"} =>
         \A b \in Visit \ stray : phone[b] # handler[h].from

Answered(p) == p \in Thing /\ C!Exists(p) /\ ~records[p].smsOptIn

Kept(b) == phone[b] # None => C!Exists(phone[b]) \/ <<b, phone[b]>> \in pending

KeepInv ==
  /\ RecordsOK
  /\ phone \in [Visit -> Thing \cup {None}] /\ pending \subseteq Visit \X Thing
  /\ handler \in [Actor -> C!HandlerState]
  /\ \A p \in Silenced : Answered(p)
  /\ \A b \in Visit \ stray : Kept(b)
  /\ \A h \in Actor : HandlerKnows(h)

-----------------------------------------------------------------------------
LEMMA RecordFields ==
  ASSUME RecordsOK, C!Assumptions, NEW p \in Thing
  PROVE  /\ records[p] \in C!Record \cup {None}
         /\ C!Exists(p) => /\ records[p] \in C!Record
                           /\ records[p].id \in 1..MaxRecords /\ records[p].smsOptIn \in BOOLEAN
         /\ records[p] \in C!Record => C!Exists(p)
BY DEF RecordsOK, C!Record, C!Exists, C!Assumptions

LEMMA HandlerFields ==
  ASSUME KeepInv, NEW h \in Actor
  PROVE  /\ handler[h] \in C!HandlerState
         /\ handler[h].pc \in {"idle", "sms", "web", "form", "moved", "written", "read"}
         /\ handler[h].into \in Thing \cup {None} /\ handler[h].from \in Thing \cup {None}
         /\ handler[h].intoId \in 0..MaxRecords /\ handler[h].fromId \in 0..MaxRecords
         /\ handler[h].optIn \in BOOLEAN
BY DEF KeepInv, C!HandlerState

LEMMA IdleHandler ==
  ASSUME C!Assumptions
  PROVE  C!Idle \in C!HandlerState /\ C!Idle.pc = "idle"
BY DEF C!Idle, C!HandlerState, C!Assumptions

\* upsertCustomer keeps every record, and there is one afterwards.
LEMMA Upserted ==
  ASSUME RecordsOK, C!Assumptions, NEW p \in Thing, C!CanUpsert(p),
         records' = C!Upsert(p), ids' = C!IdsAfter(p)
  PROVE  /\ RecordsOK'
         /\ C!Exists(p)' /\ C!Upsert(p)[p] = records'[p]
         /\ records'[p].id \in 1..MaxRecords
         /\ \A q \in Thing : C!Exists(q) => records'[q] = records[q]
         /\ \A q \in Thing : C!Exists(q) => C!Exists(q)'
<1>1. CASE C!Exists(p)
  <2>1. records' = records /\ ids' = ids
    BY <1>1 DEF C!Upsert, C!IdsAfter, RecordsOK
  <2> QED  BY <1>1, <2>1, RecordFields DEF RecordsOK, C!Exists, C!IsRecord, C!Upsert
<1>2. CASE ~C!Exists(p)
  <2> DEFINE new == [id |-> ids + 1, smsOptIn |-> TRUE]
  <2>1. /\ ids \in Nat /\ ids < MaxRecords /\ MaxRecords \in Nat /\ ids' = ids + 1
        /\ records' = [records EXCEPT ![p] = new]
    BY <1>2 DEF C!CanUpsert, C!Upsert, C!IdsAfter, RecordsOK, C!Assumptions
  <2>2. new \in C!Record /\ new # None /\ new.id = ids + 1
    <3>1. ids + 1 \in 1..MaxRecords
      BY <2>1
    <3>2. new \in C!Record /\ new.id = ids + 1
      BY <3>1 DEF C!Record
    <3> HIDE DEF new
    <3> QED  BY <3>2 DEF C!Record, C!Assumptions
  <2> HIDE DEF new
  <2>3. /\ records' \in [Thing -> C!Record \cup {None}] /\ records'[p] = new
        /\ \A q \in Thing \ {p} : records'[q] = records[q]
    BY <2>1, <2>2 DEF RecordsOK
  <2>4. ASSUME NEW q \in Thing, C!Exists(q)
        PROVE  /\ q # p /\ records'[q] = records[q] /\ C!Exists(q)'
               /\ records[q].id \in 1..ids
    BY <1>2, <2>1, <2>3, <2>4, RecordFields DEF RecordsOK, C!Exists
  <2>5. ASSUME NEW q \in Thing, C!Exists(q)'
        PROVE  q = p \/ (q # p /\ C!Exists(q) /\ records'[q] = records[q])
    BY <2>3, <2>5 DEF C!Exists
  <2>6. ASSUME NEW q \in Thing, NEW r \in Thing, C!Exists(q)', C!Exists(r)',
               records'[q].id = records'[r].id
        PROVE  q = r
    <3>1. CASE q = p \/ r = p
      BY <2>1, <2>2, <2>3, <2>4, <2>5, <2>6, <3>1
    <3>2. CASE q # p /\ r # p
      BY <2>5, <2>6, <3>2 DEF RecordsOK, C!IsRecord
    <3> QED  BY <3>1, <3>2
  <2>7. ASSUME NEW q \in Thing, C!Exists(q)' PROVE records'[q].id <= ids'
    BY <2>1, <2>2, <2>3, <2>4, <2>5, <2>7
  <2>8. C!Exists(p)' /\ C!Upsert(p)[p] = records'[p] /\ records'[p].id \in 1..MaxRecords
    <3>1. C!Upsert(p)[p] = records'[p]
      OBVIOUS
    <3>2. C!Exists(p)' /\ records'[p].id \in 1..MaxRecords
      BY <2>1, <2>2, <2>3 DEF C!Exists
    <3> QED  BY <3>1, <3>2
  <2>9. RecordsOK'
    <3>1. ids' \in 0..MaxRecords
      BY <2>1
    <3>2. \A q, r \in Thing : C!Exists(q)' /\ C!IsRecord(r, records[q].id)' => q = r
      BY <2>6 DEF C!IsRecord, C!Exists
    <3> QED  BY <2>3, <2>7, <3>1, <3>2 DEF RecordsOK
  <2> QED  BY <2>4, <2>8, <2>9
<1> QED  BY <1>1, <1>2

\* A record's answer is set.
LEMMA AnswerSet ==
  ASSUME RecordsOK, C!Assumptions, NEW p \in Thing, C!Exists(p), NEW v \in BOOLEAN,
         records' = [records EXCEPT ![p].smsOptIn = v], UNCHANGED ids
  PROVE  /\ RecordsOK'
         /\ C!Exists(p)' /\ records'[p].smsOptIn = v /\ records'[p].id = records[p].id
         /\ \A q \in Thing \ {p} : records'[q] = records[q]
<1> DEFINE new == [records[p] EXCEPT !.smsOptIn = v]
<1>1. /\ new \in C!Record /\ new # None /\ new.id = records[p].id /\ new.smsOptIn = v
  BY RecordFields DEF C!Record, C!Assumptions
<1>2. records' = [records EXCEPT ![p] = new]
  BY DEF RecordsOK
<1> HIDE DEF new
<1>3. /\ records' \in [Thing -> C!Record \cup {None}] /\ records'[p] = new
      /\ \A q \in Thing \ {p} : records'[q] = records[q]
  BY <1>1, <1>2 DEF RecordsOK
<1>4. \A q \in Thing : (C!Exists(q)' <=> C!Exists(q)) /\ (C!Exists(q) => records'[q].id = records[q].id)
  BY <1>1, <1>3 DEF C!Exists
<1>5. RecordsOK'
  <2>1. \A q, r \in Thing : C!Exists(q)' /\ C!IsRecord(r, records[q].id)' => q = r
    BY <1>4 DEF RecordsOK, C!IsRecord, C!Exists
  <2> QED  BY <1>3, <1>4, <2>1 DEF RecordsOK
<1> QED  BY <1>1, <1>3, <1>4, <1>5

-----------------------------------------------------------------------------
\* What a request knows survives the others.
LEMMA StillKnows ==
  ASSUME NEW h \in Actor, HandlerKnows(h), handler'[h] = handler[h],
         handler[h].into \in Thing =>
           LET i == handler[h].into IN
           /\ i \in gone => i \in gone'
           /\ C!Exists(i) => i \in gone' \/ (C!Exists(i)' /\ records'[i].id = records[i].id)
           /\ i \in Silenced' => i \in Silenced,
         handler[h].pc \in {"moved", "written"} =>
           \A b \in Visit \ stray' :
             b \notin stray /\ (phone'[b] = phone[b] \/ phone'[b] # handler[h].from)
  PROVE  HandlerKnows(h)'
<1> SUFFICES ASSUME handler[h].pc # "idle" PROVE HandlerKnows(h)'
  BY DEF HandlerKnows
<1> DEFINE i == handler[h].into
<1>1. i \in Thing
  BY DEF HandlerKnows
<1>2. \/ i \in gone'
      \/ IF handler[h].pc = "sms" THEN C!Exists(i)' ELSE C!IsRecord(i, handler[h].intoId)'
  BY <1>1 DEF HandlerKnows, C!IsRecord, C!Exists
<1>3. handler[h].pc \in {"form", "read", "moved"} /\ i \in Silenced' => ~handler[h].optIn
  BY <1>1 DEF HandlerKnows
<1>4. C!Merging(h)' <=> C!Merging(h)
  BY DEF C!Merging
<1>5. handler[h].pc \in {"moved", "written"} =>
        \A b \in Visit \ stray' : phone'[b] # handler[h].from
  BY DEF HandlerKnows
<1> QED  BY <1>1, <1>2, <1>3, <1>4, <1>5 DEF HandlerKnows, C!IsRecord, C!Exists

LEMMA KnowsNothing ==
  ASSUME NEW h \in Actor, handler'[h].pc = "idle" PROVE HandlerKnows(h)'
BY DEF HandlerKnows

\* Somebody says something.
LEMMA Said ==
  ASSUME NEW h, NEW p, NEW v \in BOOLEAN, C!Says(h, p, v), UNCHANGED gone
  PROVE  /\ \A q : q # p => (q \in Silenced' <=> q \in Silenced)
         /\ p \in Silenced' => ~v /\ C!Underway(h, p) = {} /\ p \notin gone
BY DEF C!Says, Silenced

\* Who said no is still heard when records are only kept.
LEMMA StillSilenced ==
  ASSUME NEW p \in Thing, p \in Silenced => Answered(p), p \in Silenced' => p \in Silenced,
         C!Exists(p) => records'[p] = records[p]
  PROVE  p \in Silenced' => Answered(p)'
BY DEF Answered, C!Exists

LEMMA Quiet ==
  ASSUME UNCHANGED <<stopped, crossed, gone>> PROVE Silenced' = Silenced
BY DEF Silenced

\* A write that only keeps records: upserts, and what touches none.
LEMMA RecordsKept ==
  ASSUME KeepInv, RecordsOK', UNCHANGED <<stopped, crossed, gone>>,
         \A q \in Thing : C!Exists(q) => C!Exists(q)' /\ records'[q] = records[q]
  PROVE  /\ \A p \in Silenced' : Answered(p)'
         /\ Silenced' = Silenced
         /\ \A h \in Actor :
              handler'[h] = handler[h] /\ UNCHANGED <<phone, stray>> => HandlerKnows(h)'
         /\ \A b \in Visit : Kept(b) /\ phone'[b] = phone[b] /\ pending \subseteq pending'
              /\ phone[b] \in Thing \cup {None} => Kept(b)'
<1>1. Silenced' = Silenced
  BY Quiet
<1>2. \A p \in Silenced' : Answered(p)'
  BY <1>1, StillSilenced DEF KeepInv, Answered
<1>3. ASSUME NEW h \in Actor, handler'[h] = handler[h], UNCHANGED <<phone, stray>>
      PROVE  HandlerKnows(h)'
  BY <1>1, <1>3, StillKnows DEF KeepInv
<1>4. ASSUME NEW b \in Visit, Kept(b), phone'[b] = phone[b], pending \subseteq pending',
             phone[b] \in Thing \cup {None}
      PROVE  Kept(b)'
  <2>1. phone[b] = None \/ <<b, phone[b]>> \in pending
        \/ (phone[b] \in Thing /\ C!Exists(phone[b]))
    BY <1>4 DEF Kept
  <2> QED  BY <1>4, <2>1 DEF Kept, C!Exists
<1> QED  BY <1>1, <1>2, <1>3, <1>4

-----------------------------------------------------------------------------
\* The actions.

LEMMA UpsertsKeep ==
  ASSUME KeepInv, C!Assumptions, NEW p \in Thing,
         \/ C!Known(p) \/ \E b \in Visit : C!UpsertBooked(b, p)
  PROVE  KeepInv'
<1>1. /\ C!CanUpsert(p) /\ records' = C!Upsert(p) /\ ids' = C!IdsAfter(p)
      /\ UNCHANGED <<phone, handler, stopped, gone, crossed, stray>>
      /\ pending' \subseteq pending
  BY DEF C!Known, C!UpsertBooked
<1>2. /\ RecordsOK' /\ C!Exists(p)'
      /\ \A q \in Thing : C!Exists(q) => C!Exists(q)' /\ records'[q] = records[q]
  BY <1>1, Upserted DEF KeepInv
<1>3. /\ \A q \in Silenced' : Answered(q)'
      /\ \A h \in Actor : HandlerKnows(h)'
  BY <1>1, <1>2, RecordsKept
<1>4. ASSUME NEW b \in Visit \ stray PROVE Kept(b)'
  <2>1. phone[b] \in Thing \cup {None} /\ Kept(b)
    BY DEF KeepInv
  <2>2. phone[b] = p \/ (<<b, phone[b]>> \in pending => <<b, phone[b]>> \in pending')
    BY DEF C!Known, C!UpsertBooked
  <2> QED  BY <1>1, <1>2, <2>1, <2>2 DEF Kept
<1> QED  BY <1>1, <1>2, <1>3, <1>4 DEF KeepInv

LEMMA BookKeeps ==
  ASSUME KeepInv, C!Assumptions, NEW b \in Visit, NEW p \in Thing, C!Book(b, p)
  PROVE  KeepInv'
<1>1. /\ phone[b] = None /\ phone' = [phone EXCEPT ![b] = p]
      /\ pending' = pending \cup {<<b, p>>}
      /\ stray' = IF \E h \in Actor : C!Merging(h) /\ handler[h].from = p
                  THEN stray \cup {b} ELSE stray
      /\ UNCHANGED <<records, ids, handler, stopped, gone, crossed>>
  BY DEF C!Book
<1>2. /\ phone' \in [Visit -> Thing \cup {None}] /\ phone'[b] = p
      /\ \A c \in Visit \ {b} : phone'[c] = phone[c]
  BY <1>1 DEF KeepInv
<1>3. RecordsOK'
  BY <1>1 DEF KeepInv, RecordsOK, C!Exists, C!IsRecord
<1>4. ASSUME NEW q \in Silenced' PROVE Answered(q)'
  BY <1>1, Quiet DEF KeepInv, Answered, C!Exists
<1>5. ASSUME NEW c \in Visit \ stray' PROVE Kept(c)'
  <2>1. CASE c = b
    BY <1>1, <1>2, <2>1 DEF Kept
  <2>2. CASE c # b
    BY <1>1, <1>2, <2>2 DEF KeepInv, Kept, C!Exists
  <2> QED  BY <2>1, <2>2
<1>6. ASSUME NEW h \in Actor PROVE HandlerKnows(h)'
  <2>1. ASSUME handler[h].pc \in {"moved", "written"}, NEW c \in Visit \ stray'
        PROVE  c \notin stray /\ (phone'[c] = phone[c] \/ phone'[c] # handler[h].from)
    <3>1. C!Merging(h)
      BY <2>1 DEF C!Merging
    <3> QED  BY <1>1, <1>2, <2>1, <3>1
  <2> QED  BY <1>1, <2>1, Quiet, StillKnows DEF KeepInv, C!Exists
<1> QED  BY <1>1, <1>2, <1>3, <1>4, <1>5, <1>6 DEF KeepInv

LEMMA LossKeeps ==
  ASSUME KeepInv, C!Assumptions, NEW b \in Visit, NEW p \in Thing, C!LoseUpsert(b, p)
  PROVE  KeepInv'
<1>1. /\ pending' = pending \ {<<b, p>>} /\ stray' = stray \cup {b}
      /\ UNCHANGED <<records, ids, phone, handler, stopped, gone, crossed>>
  BY DEF C!LoseUpsert
<1>2. RecordsOK'
  BY <1>1 DEF KeepInv, RecordsOK, C!Exists, C!IsRecord
<1>3. ASSUME NEW q \in Silenced' PROVE Answered(q)'
  BY <1>1, Quiet DEF KeepInv, Answered, C!Exists
<1>4. ASSUME NEW c \in Visit \ stray' PROVE Kept(c)'
  BY <1>1 DEF KeepInv, Kept, C!Exists
<1>5. ASSUME NEW h \in Actor PROVE HandlerKnows(h)'
  BY <1>1, Quiet, StillKnows DEF KeepInv, C!Exists
<1> QED  BY <1>1, <1>2, <1>3, <1>4, <1>5 DEF KeepInv

\* A record's answer is set, or there is none any more, and its customer may have said so.
LEMMA AnswerKeeps ==
  ASSUME KeepInv, C!Assumptions, NEW h \in Actor, NEW p \in Thing, NEW v \in BOOLEAN,
         UNCHANGED <<ids, phone, pending, gone, stray>>,
         \/ C!Exists(p) /\ records' = [records EXCEPT ![p].smsOptIn = v]
         \/ p \in gone /\ UNCHANGED records,
         \/ C!Says(h, p, v)
         \/ UNCHANGED <<stopped, crossed>> /\ (p \in Silenced => ~v),
         handler' \in [Actor -> C!HandlerState],
         \A g \in Actor \ {h} : handler'[g] = handler[g],
         \/ handler'[h].pc = "idle"
         \/ HandlerKnows(h)'
  PROVE  KeepInv'
<1>1. /\ RecordsOK'
      /\ \A q \in Thing : C!Exists(q) => C!Exists(q)' /\ records'[q].id = records[q].id
      /\ \A q \in Thing \ {p} : records'[q] = records[q]
  <2>1. CASE C!Exists(p) /\ records' = [records EXCEPT ![p].smsOptIn = v]
    BY <2>1, AnswerSet DEF KeepInv, C!Exists
  <2>2. CASE UNCHANGED records
    BY <2>2 DEF KeepInv, RecordsOK, C!Exists, C!IsRecord
  <2> QED  BY <2>1, <2>2
<1>2. /\ \A q : q # p => (q \in Silenced' <=> q \in Silenced)
      /\ p \in Silenced' => ~v /\ p \notin gone
      /\ p \in Silenced' => p \in Silenced \/ C!Underway(h, p) = {}
  <2>1. CASE C!Says(h, p, v)
    BY <2>1, Said
  <2>2. CASE UNCHANGED <<stopped, crossed>> /\ (p \in Silenced => ~v)
    BY <2>2, Quiet DEF Silenced
  <2> QED  BY <2>1, <2>2
<1>3. ASSUME NEW q \in Silenced' PROVE Answered(q)'
  <2>1. CASE q = p
    <3>1. C!Exists(p) /\ records' = [records EXCEPT ![p].smsOptIn = v] /\ ~v
      BY <1>2, <1>3, <2>1
    <3> QED  BY <2>1, <3>1, AnswerSet DEF Answered, KeepInv
  <2>2. CASE q # p
    BY <1>1, <1>2, <1>3, <2>2 DEF Answered, KeepInv, C!Exists
  <2> QED  BY <2>1, <2>2
<1>4. ASSUME NEW b \in Visit \ stray PROVE Kept(b)'
  <2>1. phone[b] \in Thing \cup {None} /\ Kept(b)
    BY DEF KeepInv
  <2> QED  BY <1>1, <2>1 DEF Kept
<1>5. ASSUME NEW g \in Actor \ {h} PROVE HandlerKnows(g)'
  <2>1. CASE handler[g].pc = "idle"
    BY <2>1 DEF HandlerKnows
  <2>2. CASE handler[g].pc # "idle"
    <3>1. handler[g].into = p => p \notin Silenced' \/ p \in Silenced
      BY <1>2, <2>2 DEF C!Underway
    <3> QED  BY <1>1, <1>2, <3>1, StillKnows DEF KeepInv
  <2> QED  BY <2>1, <2>2
<1>6. HandlerKnows(h)'
  BY KnowsNothing
<1> QED  BY <1>1, <1>3, <1>4, <1>5, <1>6 DEF KeepInv

LEMMA PortalKeeps ==
  ASSUME KeepInv, C!Assumptions, NEW p \in Thing, NEW v \in BOOLEAN, C!PortalSet(p, v)
  PROVE  KeepInv'
<1>1. PICK h \in Actor : handler[h].pc = "idle" /\ C!Says(h, p, v)
  BY DEF C!PortalSet
<1>2. /\ C!Exists(p) /\ records' = [records EXCEPT ![p].smsOptIn = v]
      /\ UNCHANGED <<ids, phone, pending, handler, gone, stray>>
  BY DEF C!PortalSet
<1>3. handler' \in [Actor -> C!HandlerState] /\ handler'[h].pc = "idle"
  BY <1>1, <1>2 DEF KeepInv
<1> QED  BY <1>1, <1>2, <1>3, AnswerKeeps

\* A handler is done.
LEMMA HandlerDone ==
  ASSUME KeepInv, C!Assumptions, NEW h \in Actor, handler' = [handler EXCEPT ![h] = C!Idle]
  PROVE  /\ handler' \in [Actor -> C!HandlerState] /\ handler'[h].pc = "idle"
         /\ \A g \in Actor \ {h} : handler'[g] = handler[g]
BY IdleHandler DEF KeepInv

LEMMA WordKeeps ==
  ASSUME KeepInv, C!Assumptions, NEW h \in Actor,
         \/ C!SetSmsOptIn(h) \/ C!RecordWebConsent(h)
         \/ \E v \in BOOLEAN : C!SaveForm(h, v)
  PROVE  KeepInv'
<1> DEFINE p == handler[h].into
           old == records[p].smsOptIn
<1>1. /\ handler' = [handler EXCEPT ![h] = C!Idle]
      /\ UNCHANGED <<ids, phone, pending, gone, stray>>
      /\ handler[h].pc \in {"sms", "web", "form"}
  BY DEF C!SetSmsOptIn, C!RecordWebConsent, C!SaveForm
<1>2. /\ p \in Thing /\ handler[h].optIn \in BOOLEAN
      /\ p \in gone \/ IF handler[h].pc = "sms" THEN C!Exists(p)
                       ELSE C!IsRecord(p, handler[h].intoId)
      /\ handler[h].pc = "form" /\ p \in Silenced => ~handler[h].optIn
  BY <1>1, HandlerFields DEF KeepInv, HandlerKnows
<1>3. /\ handler' \in [Actor -> C!HandlerState] /\ handler'[h].pc = "idle"
      /\ \A g \in Actor \ {h} : handler'[g] = handler[g]
  BY <1>1, HandlerDone
<1>4. PICK v \in BOOLEAN :
        /\ \/ C!Exists(p) /\ records' = [records EXCEPT ![p].smsOptIn = v]
           \/ p \in gone /\ UNCHANGED records
        /\ \/ C!Says(h, p, v)
           \/ UNCHANGED <<stopped, crossed>> /\ (p \in Silenced => ~v)
  <2>1. CASE C!SetSmsOptIn(h)
    <3>1. /\ records' = IF C!Exists(p) THEN [records EXCEPT ![p].smsOptIn = handler[h].optIn]
                        ELSE records
          /\ C!Says(h, p, handler[h].optIn) /\ handler[h].pc = "sms"
      BY <2>1 DEF C!SetSmsOptIn
    <3> QED  BY <1>2, <3>1
  <2>2. CASE C!RecordWebConsent(h)
    <3> DEFINE v == old /\ handler[h].optIn
    <3>1. /\ records' = IF C!IsRecord(p, handler[h].intoId)
                        THEN [records EXCEPT ![p].smsOptIn = @ /\ handler[h].optIn]
                        ELSE records
          /\ IF handler[h].optIn THEN UNCHANGED <<stopped, crossed>> ELSE C!Says(h, p, FALSE)
          /\ handler[h].pc = "web"
      BY <2>2 DEF C!RecordWebConsent, C!ConsentAfterTick
    <3>2. C!IsRecord(p, handler[h].intoId) => C!Exists(p)
      BY DEF C!IsRecord
    <3>3. p \in Silenced => ~old
      BY DEF KeepInv, Answered
    <3>4. \/ C!Exists(p) /\ records' = [records EXCEPT ![p].smsOptIn = v]
          \/ p \in gone /\ UNCHANGED records
      <4>1. [records EXCEPT ![p].smsOptIn = @ /\ handler[h].optIn]
              = [records EXCEPT ![p].smsOptIn = v]
        BY <1>2 DEF KeepInv, RecordsOK
      <4> QED  BY <1>2, <3>1, <3>2, <4>1
    <3>5. \/ C!Says(h, p, v)
          \/ UNCHANGED <<stopped, crossed>> /\ (p \in Silenced => ~v)
      <4>1. CASE handler[h].optIn
        BY <3>1, <3>3, <4>1
      <4>2. CASE ~handler[h].optIn
        <5>1. v = FALSE
          BY <4>2
        <5>2. C!Says(h, p, FALSE)
          BY <3>1, <4>2
        <5> QED  BY <5>1, <5>2
      <4> QED  BY <4>1, <4>2
    <3>6. v \in BOOLEAN
      OBVIOUS
    <3> QED  BY <3>4, <3>5, <3>6
  <2>3. ASSUME NEW v \in BOOLEAN, C!SaveForm(h, v)
        PROVE  /\ \/ C!Exists(p) /\ records' = [records EXCEPT ![p].smsOptIn = v]
                  \/ p \in gone /\ UNCHANGED records
               /\ \/ C!Says(h, p, v)
                  \/ UNCHANGED <<stopped, crossed>> /\ (p \in Silenced => ~v)
    BY <1>2, <2>3 DEF C!SaveForm, C!IsRecord
  <2> QED  BY <2>1, <2>2, <2>3
<1> HIDE DEF p
<1> QED  BY <1>1, <1>2, <1>3, <1>4, AnswerKeeps

\* A request starts, with what it has read or written.
LEMMA RequestKeeps ==
  ASSUME KeepInv, C!Assumptions, NEW h \in Actor, NEW new \in C!HandlerState,
         handler' = [handler EXCEPT ![h] = new],
         UNCHANGED <<phone, pending, stopped, gone, crossed, stray>>,
         RecordsOK',
         \A q \in Thing : C!Exists(q) => C!Exists(q)' /\ records'[q] = records[q],
         HandlerKnows(h)'
  PROVE  KeepInv'
<1>1. /\ handler' \in [Actor -> C!HandlerState]
      /\ \A g \in Actor \ {h} : handler'[g] = handler[g]
  BY DEF KeepInv
<1>2. /\ \A q \in Silenced' : Answered(q)'
      /\ \A g \in Actor : handler'[g] = handler[g] => HandlerKnows(g)'
  BY RecordsKept
<1>3. ASSUME NEW b \in Visit \ stray PROVE Kept(b)'
  <2>1. phone[b] \in Thing \cup {None} /\ Kept(b)
    BY DEF KeepInv
  <2> QED  BY <2>1 DEF Kept
<1> QED  BY <1>1, <1>2, <1>3 DEF KeepInv

LEMMA UpsertRequestKeeps ==
  ASSUME KeepInv, C!Assumptions, NEW h \in Actor, NEW p \in Thing, NEW v \in BOOLEAN,
         C!SmsReply(h, p, v) \/ C!WebBooking(h, p, v)
  PROVE  KeepInv'
<1>1. /\ C!CanUpsert(p) /\ records' = C!Upsert(p) /\ ids' = C!IdsAfter(p)
      /\ UNCHANGED <<phone, pending, stopped, gone, crossed, stray>>
  BY DEF C!SmsReply, C!WebBooking
<1>2. /\ RecordsOK' /\ C!Exists(p)' /\ C!Upsert(p)[p] = records'[p]
      /\ records'[p].id \in 1..MaxRecords
      /\ \A q \in Thing : C!Exists(q) => C!Exists(q)' /\ records'[q] = records[q]
  BY <1>1, Upserted DEF KeepInv
<1>3. PICK new \in C!HandlerState :
        /\ handler' = [handler EXCEPT ![h] = new]
        /\ new.into = p /\ new.pc \in {"sms", "web"}
        /\ new.pc = "web" => new.intoId = records'[p].id
  <2>1. CASE C!SmsReply(h, p, v)
    <3> DEFINE new == [C!Idle EXCEPT !.pc = "sms", !.into = p, !.optIn = v]
    <3>1. handler' = [handler EXCEPT ![h] = new]
      BY <2>1 DEF C!SmsReply
    <3>2. new \in C!HandlerState /\ new.into = p /\ new.pc = "sms"
      BY IdleHandler DEF C!HandlerState
    <3> QED  BY <3>1, <3>2
  <2>2. CASE C!WebBooking(h, p, v)
    <3> DEFINE id == records'[p].id
               new == [C!Idle EXCEPT !.pc = "web", !.into = p, !.intoId = id, !.optIn = v]
    <3>1. handler' = [handler EXCEPT ![h] = new]
      BY <1>2, <2>2 DEF C!WebBooking
    <3>2. id \in 0..MaxRecords
      BY <1>2
    <3> HIDE DEF id
    <3>3. new \in C!HandlerState /\ new.into = p /\ new.pc = "web" /\ new.intoId = id
      BY <3>2, IdleHandler DEF C!HandlerState
    <3> QED  BY <3>1, <3>3 DEF id
  <2> QED  BY <2>1, <2>2
<1>4. handler'[h] = new
  BY <1>3 DEF KeepInv
<1>5. HandlerKnows(h)'
  BY <1>2, <1>3, <1>4 DEF HandlerKnows, C!IsRecord, C!Exists, C!Merging
<1> QED  BY <1>1, <1>2, <1>3, <1>5, RequestKeeps

LEMMA ReadKeeps ==
  ASSUME KeepInv, C!Assumptions, NEW h \in Actor, NEW f \in Thing, NEW i \in Thing,
         C!OpenForm(h, i) \/ C!MergeRead(h, f, i)
  PROVE  KeepInv'
<1>1. /\ UNCHANGED <<records, ids, phone, pending, stopped, gone, crossed, stray>>
      /\ C!Exists(i)
  BY DEF C!OpenForm, C!MergeRead
<1>2. /\ records[i].id \in 0..MaxRecords /\ records[i].smsOptIn \in BOOLEAN
      /\ i \in Silenced => ~records[i].smsOptIn
  BY <1>1, RecordFields DEF KeepInv, C!Assumptions, Answered
<1>3. PICK new \in C!HandlerState :
        /\ handler' = [handler EXCEPT ![h] = new]
        /\ new.pc \in {"form", "read"} /\ new.into = i /\ new.intoId = records[i].id
        /\ i \in Silenced => ~new.optIn
        /\ new.pc = "read" => new.from = f /\ f # i
  <2>1. CASE C!OpenForm(h, i)
    <3> DEFINE id == records[i].id
               optIn == records[i].smsOptIn
               new == [C!Idle EXCEPT !.pc = "form", !.into = i, !.intoId = id, !.optIn = optIn]
    <3>1. handler' = [handler EXCEPT ![h] = new]
      BY <2>1 DEF C!OpenForm
    <3>2. id \in 0..MaxRecords /\ optIn \in BOOLEAN
      BY <1>2
    <3> HIDE DEF id, optIn
    <3>3. /\ new \in C!HandlerState /\ new.into = i /\ new.pc = "form" /\ new.intoId = id
          /\ new.optIn = optIn
      BY <3>2, IdleHandler DEF C!HandlerState
    <3> QED  BY <1>2, <3>1, <3>3 DEF id, optIn
  <2>2. CASE C!MergeRead(h, f, i)
    <3> DEFINE id == records[i].id
               fromId == records[f].id
               optIn == records[i].smsOptIn /\ records[f].smsOptIn
               new == [pc |-> "read", into |-> i, from |-> f, intoId |-> id,
                       fromId |-> fromId, optIn |-> optIn]
    <3>1. handler' = [handler EXCEPT ![h] = new] /\ f # i /\ C!Exists(f)
      BY <2>2 DEF C!MergeRead, C!MergedConsent
    <3>2. id \in 0..MaxRecords /\ fromId \in 0..MaxRecords /\ optIn \in BOOLEAN
      BY <1>2, <3>1, RecordFields DEF KeepInv, C!Assumptions
    <3>3. i \in Silenced => ~optIn
      BY <1>2
    <3> HIDE DEF id, fromId, optIn
    <3>4. /\ new \in C!HandlerState /\ new.into = i /\ new.pc = "read" /\ new.intoId = id
          /\ new.optIn = optIn /\ new.from = f
      BY <3>2 DEF C!HandlerState
    <3> QED  BY <3>1, <3>3, <3>4 DEF id
  <2> QED  BY <2>1, <2>2
<1>4. handler'[h] = new
  BY <1>3 DEF KeepInv
<1>5. Silenced' = Silenced
  BY <1>1, Quiet
<1>6. HandlerKnows(h)'
  BY <1>1, <1>3, <1>4, <1>5 DEF HandlerKnows, C!IsRecord, C!Exists, C!Merging
<1>7. RecordsOK' /\ \A q \in Thing : C!Exists(q) => C!Exists(q)' /\ records'[q] = records[q]
  BY <1>1 DEF KeepInv, RecordsOK, C!Exists, C!IsRecord
<1> QED  BY <1>1, <1>3, <1>6, <1>7, RequestKeeps

LEMMA MergeMoveKeeps ==
  ASSUME KeepInv, C!Assumptions, NEW h \in Actor, C!MergeMove(h)
  PROVE  KeepInv'
<1> DEFINE f == handler[h].from
           i == handler[h].into
           new == [handler[h] EXCEPT !.pc = "moved"]
<1>1. /\ handler[h].pc = "read" /\ C!Merging(h)
      /\ handler' = [handler EXCEPT ![h] = new]
      /\ UNCHANGED <<records, ids, pending, stopped, gone, crossed>>
  BY DEF C!MergeMove, C!Merging
<1>2. /\ i \in Thing /\ f \in Thing /\ f # i
      /\ i \in gone \/ C!IsRecord(i, handler[h].intoId)
      /\ i \in Silenced => ~handler[h].optIn
  BY <1>1 DEF KeepInv, HandlerKnows
<1>3. /\ new \in C!HandlerState /\ new.pc = "moved" /\ new.into = i /\ new.from = f
      /\ new.intoId = handler[h].intoId /\ new.optIn = handler[h].optIn
  BY HandlerFields DEF C!HandlerState
<1>4. /\ handler' \in [Actor -> C!HandlerState] /\ handler'[h] = new
      /\ \A g \in Actor \ {h} : handler'[g] = handler[g]
  BY <1>1, <1>3 DEF KeepInv
<1>5. phone' = [b \in Visit |-> IF phone[b] = f THEN i ELSE phone[b]]
  BY DEF C!MergeMove, C!MovedTo
<1>6. /\ stray \subseteq stray'
      /\ \A b \in Visit \ stray' :
           phone[b] = f => /\ C!IsRecord(i, handler[h].intoId)
                           /\ \A g \in Actor \ {h} : C!Merging(g) => handler[g].from # i
  <2>1. stray' = IF \/ ~C!IsRecord(i, handler[h].intoId)
                    \/ \E g \in Actor \ {h} : C!Merging(g) /\ handler[g].from = i
                 THEN stray \cup {b \in Visit : phone[b] = f} ELSE stray
    BY DEF C!MergeMove
  <2> QED  BY <2>1
<1> HIDE DEF new, f, i
<1>7. phone' \in [Visit -> Thing \cup {None}]
  BY <1>2, <1>5 DEF KeepInv
<1>8. Silenced' = Silenced
  BY <1>1, Quiet
<1>9. RecordsOK'
  BY <1>1 DEF KeepInv, RecordsOK, C!Exists, C!IsRecord
<1>10. ASSUME NEW q \in Silenced' PROVE Answered(q)'
  BY <1>1, <1>8 DEF KeepInv, Answered, C!Exists
<1>11. ASSUME NEW b \in Visit \ stray' PROVE Kept(b)'
  <2>1. CASE phone[b] = f
    BY <1>1, <1>5, <1>6, <2>1 DEF Kept, C!IsRecord, C!Exists
  <2>2. CASE phone[b] # f
    BY <1>1, <1>5, <1>6, <2>2 DEF KeepInv, Kept, C!Exists
  <2> QED  BY <2>1, <2>2
<1>12. ASSUME NEW g \in Actor \ {h} PROVE HandlerKnows(g)'
  <2>1. ASSUME handler[g].pc \in {"moved", "written"}, NEW b \in Visit \ stray'
        PROVE  b \notin stray /\ (phone'[b] = phone[b] \/ phone'[b] # handler[g].from)
    <3>1. C!Merging(g)
      BY <2>1 DEF C!Merging
    <3> QED  BY <1>5, <1>6, <3>1
  <2> QED  BY <1>1, <1>4, <1>8, <2>1, StillKnows DEF KeepInv, C!Exists
<1>13. HandlerKnows(h)'
  <2>1. \A b \in Visit \ stray' : phone'[b] # f
    BY <1>2, <1>5
  <2> QED  BY <1>1, <1>2, <1>3, <1>4, <1>8, <2>1 DEF HandlerKnows, C!IsRecord, C!Exists, C!Merging
<1> QED  BY <1>1, <1>4, <1>7, <1>9, <1>10, <1>11, <1>12, <1>13 DEF KeepInv

LEMMA MergeWriteKeeps ==
  ASSUME KeepInv, C!Assumptions, NEW h \in Actor, C!MergeWrite(h)
  PROVE  KeepInv'
<1>1. handler[h].pc = "moved"
  BY DEF C!MergeWrite
<1>2. PICK i \in Thing : i = handler[h].into
  BY <1>1 DEF KeepInv, HandlerKnows
<1>3. PICK id \in 0..MaxRecords, v \in BOOLEAN, f \in Thing :
        id = handler[h].intoId /\ v = handler[h].optIn /\ f = handler[h].from
  BY <1>1, HandlerFields DEF KeepInv, HandlerKnows, C!Merging
<1>4. /\ f # i /\ (i \in gone \/ C!IsRecord(i, id)) /\ (i \in Silenced => ~v)
      /\ \A b \in Visit \ stray : phone[b] # f
  BY <1>1, <1>2, <1>3 DEF KeepInv, HandlerKnows, C!Merging
<1> DEFINE new == [handler[h] EXCEPT !.pc = "written"]
<1>5. /\ handler' = [handler EXCEPT ![h] = new]
      /\ records' = IF C!IsRecord(i, id) THEN [records EXCEPT ![i].smsOptIn = v] ELSE records
      /\ UNCHANGED <<ids, phone, pending, stopped, gone, crossed, stray>>
  BY <1>2, <1>3 DEF C!MergeWrite
<1>6. /\ new \in C!HandlerState /\ new.pc = "written" /\ new.into = i
      /\ new.from = f /\ new.intoId = id
  BY <1>2, <1>3, HandlerFields DEF C!HandlerState
<1>7. /\ handler' \in [Actor -> C!HandlerState] /\ handler'[h] = new
      /\ \A g \in Actor \ {h} : handler'[g] = handler[g]
  BY <1>5, <1>6 DEF KeepInv
<1> HIDE DEF new
<1>8. i \in gone \/ C!IsRecord(i, id)'
  <2>1. CASE C!IsRecord(i, id)
    <3>1. C!Exists(i) /\ records' = [records EXCEPT ![i].smsOptIn = v] /\ records[i].id = id
      BY <1>5, <2>1 DEF C!IsRecord
    <3>2. C!Exists(i)' /\ records'[i].id = records[i].id
      BY <1>5, <3>1, AnswerSet DEF KeepInv
    <3> QED  BY <3>1, <3>2 DEF C!IsRecord
  <2> QED  BY <1>4, <2>1
<1>9. HandlerKnows(h)'
  BY <1>4, <1>5, <1>6, <1>7, <1>8 DEF HandlerKnows, C!Merging, C!IsRecord, C!Exists
<1>10. \/ C!Exists(i) /\ records' = [records EXCEPT ![i].smsOptIn = v]
       \/ i \in gone /\ UNCHANGED records
  BY <1>4, <1>5 DEF C!IsRecord
<1> QED  BY <1>4, <1>5, <1>7, <1>9, <1>10, AnswerKeeps

LEMMA MergeDeleteKeeps ==
  ASSUME KeepInv, C!Assumptions, NEW h \in Actor, C!MergeDelete(h)
  PROVE  KeepInv'
<1> DEFINE f == handler[h].from
<1>1. /\ handler[h].pc = "written" /\ handler' = [handler EXCEPT ![h] = C!Idle]
      /\ gone' = gone \cup {f}
      /\ records' = IF C!IsRecord(f, handler[h].fromId) THEN [records EXCEPT ![f] = None]
                    ELSE records
      /\ UNCHANGED <<ids, phone, pending, stopped, crossed, stray>>
  BY DEF C!MergeDelete
<1>2. f \in Thing /\ \A b \in Visit \ stray : phone[b] # f
  BY <1>1 DEF KeepInv, HandlerKnows, C!Merging
<1>3. /\ handler' \in [Actor -> C!HandlerState] /\ handler'[h].pc = "idle"
      /\ \A g \in Actor \ {h} : handler'[g] = handler[g]
  BY <1>1, HandlerDone
<1> HIDE DEF f
<1>4. /\ records' \in [Thing -> C!Record \cup {None}]
      /\ \A q \in Thing \ {f} : records'[q] = records[q]
      /\ records'[f] = None \/ records'[f] = records[f]
  BY <1>1, <1>2 DEF KeepInv, RecordsOK
<1>5. RecordsOK'
  <2>1. \A q \in Thing : C!Exists(q)' => C!Exists(q) /\ records'[q] = records[q]
    BY <1>4 DEF C!Exists
  <2>2. \A q, r \in Thing : C!Exists(q)' /\ C!IsRecord(r, records[q].id)' => q = r
    BY <2>1 DEF KeepInv, RecordsOK, C!IsRecord, C!Exists
  <2> QED  BY <1>1, <1>4, <2>1, <2>2 DEF KeepInv, RecordsOK
<1>6. Silenced' \subseteq Silenced \ {f}
  BY <1>1 DEF Silenced
<1>7. ASSUME NEW q \in Silenced' PROVE Answered(q)'
  BY <1>4, <1>6 DEF KeepInv, Answered, C!Exists
<1>8. ASSUME NEW b \in Visit \ stray' PROVE Kept(b)'
  BY <1>1, <1>2, <1>4 DEF KeepInv, Kept, C!Exists
<1>9. ASSUME NEW g \in Actor \ {h} PROVE HandlerKnows(g)'
  BY <1>1, <1>3, <1>4, <1>6, StillKnows DEF KeepInv, C!Exists
<1>10. HandlerKnows(h)'
  BY <1>3, KnowsNothing
<1> QED  BY <1>1, <1>3, <1>5, <1>7, <1>8, <1>9, <1>10 DEF KeepInv

LEMMA DeathKeeps ==
  ASSUME KeepInv, C!Assumptions, NEW h \in Actor, C!Die(h)
  PROVE  KeepInv'
<1>1. /\ handler' = [handler EXCEPT ![h] = C!Idle]
      /\ UNCHANGED <<records, ids, phone, pending, stopped, gone, crossed, stray>>
  BY DEF C!Die
<1>2. RecordsOK' /\ \A q \in Thing : C!Exists(q) => C!Exists(q)' /\ records'[q] = records[q]
  BY <1>1 DEF KeepInv, RecordsOK, C!Exists, C!IsRecord
<1>3. HandlerKnows(h)'
  BY <1>1, HandlerDone, KnowsNothing
<1> QED  BY <1>1, <1>2, <1>3, IdleHandler, RequestKeeps

LEMMA KeepStarts == C!Assumptions /\ C!Init => KeepInv
<1> SUFFICES ASSUME C!Assumptions, C!Init PROVE KeepInv  OBVIOUS
<1>1. RecordsOK
  BY DEF C!Init, C!Assumptions, RecordsOK, C!Exists
<1>2. handler \in [Actor -> C!HandlerState] /\ \A h \in Actor : HandlerKnows(h)
  BY IdleHandler DEF C!Init, HandlerKnows
<1> QED  BY <1>1, <1>2 DEF C!Init, KeepInv, Silenced, Kept

LEMMA KeepMoves == KeepInv /\ C!Assumptions /\ C!Next => KeepInv'
BY UpsertsKeep, BookKeeps, LossKeeps, PortalKeeps, WordKeeps, UpsertRequestKeeps, ReadKeeps,
   MergeMoveKeeps, MergeWriteKeeps, MergeDeleteKeeps, DeathKeeps DEF C!Next

LEMMA KeepStands == KeepInv /\ UNCHANGED keeping => KeepInv'
<1> SUFFICES ASSUME KeepInv, UNCHANGED keeping PROVE KeepInv'  OBVIOUS
<1>1. UNCHANGED <<records, ids, phone, pending, handler, stopped, gone, crossed, stray>>
  BY DEF keeping
<1> QED
  BY <1>1 DEF KeepInv, RecordsOK, Silenced, Answered, Kept, HandlerKnows, C!Exists,
     C!IsRecord, C!Merging

LEMMA KeepPromises == KeepInv => C!TypeOK /\ C!StopStays /\ C!BookingsHaveRecords
<1> SUFFICES ASSUME KeepInv PROVE C!TypeOK /\ C!StopStays /\ C!BookingsHaveRecords  OBVIOUS
<1>1. C!TypeOK
  BY DEF KeepInv, RecordsOK, C!TypeOK
<1>2. C!StopStays
  BY DEF KeepInv, Silenced, Answered, C!StopStays
<1>3. C!BookingsHaveRecords
  BY DEF KeepInv, Kept, C!BookingsHaveRecords
<1> QED  BY <1>1, <1>2, <1>3

-----------------------------------------------------------------------------
(* The waiting list.                                                       *)

Inserting == {j \in Actor : joiner[j].pc = "insert"}
InsertingOf(p) == {j \in Inserting : joiner[j].phone = p}
WaitingOf(p) == {e \in W!Waiting : entries[e].phone = p}

\* Everybody who came before e, and is listed before it, is settled.
Passed(e) == \A f \in W!Waiting : entries[f].created < entries[e].created => f > e

Telling(n) == notifier[n].pc = "send"

\* The line a notifier goes through is the front of the waiting line.
LineHolds(n) ==
  LET line == notifier[n].line IN
  notifier[n].pc \in {"free", "claim", "send"} =>
    /\ \A i \in DOMAIN line : line[i] \in DOMAIN entries
    /\ \A i \in DOMAIN line, f \in W!Waiting :
         entries[f].created < entries[line[i]].created /\ f < line[i]
           => \E j \in 1..(i - 1) : line[j] = f
    /\ Telling(n) => line[1] \notin W!Waiting /\ texts[line[1]] = 0 /\ Passed(line[1])

TextsHold ==
  /\ texts \in [W!EntryId -> 0..1]
  /\ \A e \in W!EntryId :
       texts[e] > 0 => e \in DOMAIN entries /\ e \notin W!Waiting /\ Passed(e)

EachOnce(p) ==
  W!Cardinality(WaitingOf(p)) + W!Cardinality(InsertingOf(p)) <= W!Cardinality(Actor)

WaitInv ==
  /\ W!TypeOK
  /\ tickets = Len(entries) + W!Cardinality(Inserting) /\ tickets <= MaxEntries
  /\ \A j \in Inserting : joiner[j].phone \in Thing
  /\ \A n \in Actor : LineHolds(n)
  /\ \A m, n \in Actor :
       Telling(m) /\ Telling(n) /\ notifier[m].line[1] = notifier[n].line[1] => m = n
  /\ TextsHold
  /\ \A p \in Thing : EachOnce(p)

-----------------------------------------------------------------------------
\* Counting.

LEMMA Counted == \A S : W!Cardinality(S) = Cardinality(S)
BY DEF W!Cardinality, Cardinality

LEMMA FiniteActors ==
  ASSUME W!Assumptions
  PROVE  IsFiniteSet(Actor) /\ W!Cardinality(Actor) \in Nat
<1>1. IsFiniteSet(Actor)
  BY DEF W!Assumptions, W!IsFiniteSet, IsFiniteSet
<1> QED  BY <1>1, Counted, FS_CardinalityType

LEMMA Smaller ==
  ASSUME NEW S, IsFiniteSet(S), NEW T, T \subseteq S
  PROVE  /\ IsFiniteSet(T) /\ W!Cardinality(T) \in Nat /\ W!Cardinality(S) \in Nat
         /\ W!Cardinality(T) <= W!Cardinality(S)
BY Counted, FS_Subset, FS_CardinalityType

LEMMA OneMore ==
  ASSUME NEW S, IsFiniteSet(S), NEW x, x \notin S
  PROVE  /\ IsFiniteSet(S \cup {x}) /\ W!Cardinality(S) \in Nat
         /\ W!Cardinality(S \cup {x}) = W!Cardinality(S) + 1
BY Counted, FS_AddElement, FS_CardinalityType

LEMMA OneLess ==
  ASSUME NEW S, IsFiniteSet(S), NEW x \in S
  PROVE  /\ IsFiniteSet(S \ {x}) /\ W!Cardinality(S) \in Nat /\ W!Cardinality(S \ {x}) \in Nat
         /\ W!Cardinality(S \ {x}) = W!Cardinality(S) - 1
<1>1. IsFiniteSet(S \ {x}) /\ Cardinality(S \ {x}) = Cardinality(S) - 1
  BY FS_RemoveElement
<1> QED  BY <1>1, Counted, FS_CardinalityType

LEMMA SameLength == ASSUME NEW a \in Nat, NEW b \in Nat, 1..a = 1..b PROVE a = b
<1>1. ASSUME a < b PROVE FALSE
  <2>1. b \in 1..b /\ b \notin 1..a
    BY <1>1
  <2> QED  BY <2>1
<1>2. ASSUME b < a PROVE FALSE
  <2>1. a \in 1..a /\ a \notin 1..b
    BY <1>2
  <2> QED  BY <2>1
<1> QED  BY <1>1, <1>2

-----------------------------------------------------------------------------
\* The list.

LEMMA EntryFields ==
  ASSUME W!TypeOK
  PROVE  /\ Len(entries) \in Nat /\ DOMAIN entries = 1..Len(entries)
         /\ \A e \in DOMAIN entries :
              /\ entries[e] \in W!EntryDoc /\ entries[e].phone \in Thing
              /\ entries[e].created \in Nat /\ e \in Nat
              /\ entries[e].status \in {"waiting", "notified", "booked", "removed"}
         /\ \A e \in W!Waiting : e \in DOMAIN entries
<1>1. /\ Len(entries) \in Nat /\ DOMAIN entries = 1..Len(entries)
      /\ \A e \in DOMAIN entries : entries[e] \in W!EntryDoc
  BY DEF W!TypeOK
<1> QED  BY <1>1 DEF W!EntryDoc, W!Waiting

LEMMA FiniteWaiting ==
  ASSUME W!TypeOK
  PROVE  IsFiniteSet(W!Waiting) /\ \A p : IsFiniteSet(WaitingOf(p))
<1>1. W!Waiting \subseteq 1..Len(entries) /\ IsFiniteSet(1..Len(entries))
  BY EntryFields, FS_Interval
<1>2. IsFiniteSet(W!Waiting)
  BY <1>1, FS_Subset
<1>3. ASSUME NEW p PROVE IsFiniteSet(WaitingOf(p))
  <2>1. WaitingOf(p) \subseteq W!Waiting
    BY DEF WaitingOf
  <2> QED  BY <1>2, <2>1, FS_Subset
<1> QED  BY <1>2, <1>3

LEMMA LineFields ==
  ASSUME W!TypeOK, NEW n \in Actor
  PROVE  /\ notifier[n].pc \in {"idle", "begin", "free", "claim", "send"}
         /\ notifier[n].line \in Seq(W!EntryId)
         /\ DOMAIN notifier[n].line = 1..Len(notifier[n].line)
         /\ Len(notifier[n].line) \in Nat
         /\ notifier[n].pc \in {"free", "claim", "send"} =>
              /\ 1 \in DOMAIN notifier[n].line /\ notifier[n].line[1] \in W!EntryId
              /\ W!Head1(n) = notifier[n].line[1]
<1>1. /\ notifier[n].pc \in {"idle", "begin", "free", "claim", "send"}
      /\ notifier[n].line \in Seq(W!EntryId)
      /\ notifier[n].pc \in {"free", "claim", "send"} => notifier[n].line # <<>>
  BY DEF W!TypeOK, W!NotifierState
<1> DEFINE line == notifier[n].line
<1> HIDE DEF line
<1>2. line \in Seq(W!EntryId) => /\ DOMAIN line = 1..Len(line) /\ Len(line) \in Nat
                                 /\ line # <<>> => /\ 1 \in DOMAIN line /\ line[1] \in W!EntryId
                                                   /\ Head(line) = line[1]
  OBVIOUS
<1> QED  BY <1>1, <1>2 DEF line, W!Head1

\* Entries are added behind the others and only ever leave the line.
Settling ==
  /\ \A e \in DOMAIN entries :
       /\ e \in DOMAIN entries' /\ entries'[e].created = entries[e].created
       /\ e \in W!Waiting' => e \in W!Waiting
  /\ \A e \in W!Waiting' : e \in Nat /\ (e \in DOMAIN entries \/ \A d \in DOMAIN entries : e > d)

LEMMA PassedStands ==
  ASSUME Settling, NEW e \in DOMAIN entries, Passed(e) PROVE Passed(e)'
BY DEF Settling, Passed

LEMMA LineStands ==
  ASSUME W!TypeOK, Settling, NEW n \in Actor, LineHolds(n), notifier'[n] = notifier[n],
         Telling(n) => texts'[notifier[n].line[1]] = texts[notifier[n].line[1]]
  PROVE  LineHolds(n)'
<1> DEFINE line == notifier[n].line
<1> SUFFICES ASSUME notifier[n].pc \in {"free", "claim", "send"} PROVE LineHolds(n)'
  BY DEF LineHolds
<1>1. /\ \A i \in DOMAIN line : line[i] \in DOMAIN entries /\ line[i] \in DOMAIN entries'
      /\ 1 \in DOMAIN line
  BY LineFields DEF LineHolds, Settling
<1>2. ASSUME NEW i \in DOMAIN line, NEW f \in W!Waiting',
             entries'[f].created < entries'[line[i]].created, f < line[i]
      PROVE  \E j \in 1..(i - 1) : line[j] = f
  <2>1. f \in DOMAIN entries
    <3>1. ASSUME f > line[i] PROVE FALSE
      <4>1. line[i] \in Nat
        BY <1>1, EntryFields
      <4>2. f \in Nat
        BY DEF Settling
      <4> QED  BY <1>2, <3>1, <4>1, <4>2
    <3> QED  BY <1>1, <3>1 DEF Settling
  <2> QED  BY <1>1, <1>2, <2>1 DEF Settling, LineHolds
<1>3. Telling(n) => line[1] \notin W!Waiting' /\ texts'[line[1]] = 0 /\ Passed(line[1])'
  <2>1. ASSUME Telling(n) PROVE Passed(line[1])'
    <3>1. PICK e \in DOMAIN entries : e = line[1]
      BY <1>1
    <3>2. Passed(e)'
      BY <2>1, <3>1, PassedStands DEF LineHolds
    <3> QED  BY <3>1, <3>2 DEF Passed
  <2> QED  BY <1>1, <2>1 DEF LineHolds, Settling
<1> QED  BY <1>1, <1>2, <1>3 DEF LineHolds, Telling

LEMMA TextsStand ==
  ASSUME W!TypeOK, Settling, TextsHold, UNCHANGED texts PROVE TextsHold'
<1>1. ASSUME NEW e \in W!EntryId, texts[e] > 0
      PROVE  e \in DOMAIN entries' /\ e \notin W!Waiting' /\ Passed(e)'
  <2>1. e \in DOMAIN entries /\ e \notin W!Waiting /\ Passed(e)
    BY <1>1 DEF TextsHold
  <2>2. Passed(e)'
    BY <2>1, PassedStands
  <2> QED  BY <2>1, <2>2 DEF Settling
<1> QED  BY <1>1 DEF TextsHold

\* Nothing joins; some who waited may be settled.
LEMMA OnlySettled ==
  ASSUME WaitInv, W!Assumptions, W!TypeOK', UNCHANGED <<joiner, tickets>>,
         DOMAIN entries' = DOMAIN entries,
         \A e \in DOMAIN entries :
           /\ entries'[e].created = entries[e].created /\ entries'[e].phone = entries[e].phone
           /\ entries'[e].status = "waiting" => entries[e].status = "waiting"
  PROVE  /\ Settling
         /\ Len(entries') = Len(entries)
         /\ \A p \in Thing : EachOnce(p)'
<1>1. Settling
  <2>1. \A e \in W!Waiting' : e \in DOMAIN entries /\ e \in W!Waiting /\ e \in Nat
    BY EntryFields DEF W!Waiting, WaitInv
  <2> QED  BY <2>1 DEF Settling
<1>2. Len(entries') = Len(entries)
  <2>1. /\ DOMAIN entries' = 1..Len(entries') /\ Len(entries') \in Nat
        /\ DOMAIN entries = 1..Len(entries) /\ Len(entries) \in Nat
    BY DEF WaitInv, W!TypeOK
  <2> QED  BY <2>1, SameLength
<1>3. ASSUME NEW p \in Thing PROVE EachOnce(p)'
  <2>1. WaitingOf(p)' \subseteq WaitingOf(p)
    BY DEF WaitingOf, W!Waiting
  <2>2. IsFiniteSet(WaitingOf(p))
    BY FiniteWaiting DEF WaitInv
  <2>3. /\ W!Cardinality(WaitingOf(p)') <= W!Cardinality(WaitingOf(p))
        /\ W!Cardinality(WaitingOf(p)') \in Nat /\ W!Cardinality(WaitingOf(p)) \in Nat
    BY <2>1, <2>2, Smaller
  <2>4. InsertingOf(p)' = InsertingOf(p)
    BY DEF InsertingOf, Inserting
  <2>5. W!Cardinality(InsertingOf(p)) \in Nat /\ W!Cardinality(Actor) \in Nat
    BY FiniteActors, Smaller DEF InsertingOf, Inserting
  <2>6. EachOnce(p)
    BY DEF WaitInv
  <2> QED  BY <2>3, <2>4, <2>5, <2>6 DEF EachOnce
<1> QED  BY <1>1, <1>2, <1>3

-----------------------------------------------------------------------------
\* The actions.

LEMMA JoinerFields ==
  ASSUME W!TypeOK, NEW j \in Actor
  PROVE  /\ joiner \in [Actor -> W!JoinerState]
         /\ joiner[j].pc \in {"idle", "insert"} /\ joiner[j].staff \in Person \cup {Anyone}
         /\ joiner[j].created \in Nat
BY DEF W!TypeOK, W!JoinerState

LEMMA NobodyTold ==
  ASSUME WaitInv, Settling, UNCHANGED <<notifier, texts>>
  PROVE  /\ \A n \in Actor : LineHolds(n)'
         /\ \A m, n \in Actor :
              Telling(m)' /\ Telling(n)' /\ notifier'[m].line[1] = notifier'[n].line[1] => m = n
         /\ TextsHold'
<1>1. \A n \in Actor : LineHolds(n)'
  BY LineStands DEF WaitInv
<1>2. TextsHold'
  BY TextsStand DEF WaitInv
<1> QED  BY <1>1, <1>2 DEF WaitInv, Telling

LEMMA LookKeeps ==
  ASSUME WaitInv, W!Assumptions, NEW j \in Actor, NEW p \in Thing, NEW s \in Person,
         W!JoinLook(j, p, s)
  PROVE  WaitInv'
<1>1. /\ joiner[j].pc = "idle" /\ tickets < MaxEntries /\ tickets' = tickets + 1
      /\ \A e \in W!Waiting : entries[e].phone # p
      /\ joiner' = [joiner EXCEPT ![j] =
           [pc |-> "insert", phone |-> p, staff |-> s, created |-> tickets + 1]]
      /\ UNCHANGED <<entries, visit, notifier, marks, texts>>
  BY DEF W!JoinLook, W!Listed
<1>2. tickets \in Nat /\ IsFiniteSet(Inserting) /\ IsFiniteSet(Actor) /\ j \notin Inserting
  <2>1. /\ IsFiniteSet(Inserting) /\ W!Cardinality(Inserting) \in Nat /\ IsFiniteSet(Actor)
    BY FiniteActors, Smaller DEF Inserting
  <2> QED  BY <1>1, <2>1, EntryFields DEF WaitInv, Inserting
<1>3. /\ joiner' \in [Actor -> W!JoinerState]
      /\ joiner'[j].pc = "insert" /\ joiner'[j].phone = p
      /\ \A i \in Actor \ {j} : joiner'[i] = joiner[i]
  <2> DEFINE new == [pc |-> "insert", phone |-> p, staff |-> s, created |-> tickets + 1]
  <2>1. new \in W!JoinerState /\ new.pc = "insert" /\ new.phone = p
    BY <1>2 DEF W!JoinerState, W!Assumptions
  <2>2. joiner' = [joiner EXCEPT ![j] = new]
    BY <1>1
  <2> HIDE DEF new
  <2> QED  BY <2>1, <2>2, JoinerFields DEF WaitInv
<1>4. W!TypeOK'
  BY <1>1, <1>3 DEF WaitInv, W!TypeOK
<1>5. Settling
  BY <1>1, EntryFields DEF Settling, WaitInv, W!Waiting
<1>6. Inserting' = Inserting \cup {j} /\ \A i \in Inserting' : joiner'[i].phone \in Thing
  BY <1>1, <1>3 DEF Inserting, WaitInv
<1>7. tickets' = Len(entries') + W!Cardinality(Inserting') /\ tickets' <= MaxEntries
  <2>1. W!Cardinality(Inserting') = W!Cardinality(Inserting) + 1 /\ W!Cardinality(Inserting) \in Nat
    BY <1>2, <1>6, OneMore
  <2>2. tickets = Len(entries) + W!Cardinality(Inserting) /\ Len(entries) \in Nat /\ MaxEntries \in Nat
    BY EntryFields DEF WaitInv, W!Assumptions
  <2> QED  BY <1>1, <2>1, <2>2
<1>8. ASSUME NEW q \in Thing PROVE EachOnce(q)'
  <2>1. WaitingOf(q)' = WaitingOf(q)
    BY <1>1 DEF WaitingOf, W!Waiting
  <2>2. CASE q = p
    <3>1. WaitingOf(q) = {}
      BY <1>1, <2>2 DEF WaitingOf
    <3>2. W!Cardinality(WaitingOf(q)) = 0
      BY <3>1, Counted, FS_EmptySet
    <3>3. /\ InsertingOf(q)' \subseteq Actor
      BY DEF InsertingOf, Inserting
    <3>4. /\ W!Cardinality(InsertingOf(q)') \in Nat /\ W!Cardinality(Actor) \in Nat
          /\ W!Cardinality(InsertingOf(q)') <= W!Cardinality(Actor)
      BY <1>2, <3>3, Smaller
    <3> QED  BY <2>1, <3>2, <3>4 DEF EachOnce
  <2>3. CASE q # p
    <3>1. InsertingOf(q)' = InsertingOf(q)
      BY <1>2, <1>3, <1>6, <2>3 DEF InsertingOf, Inserting
    <3> QED  BY <2>1, <3>1 DEF EachOnce, WaitInv
  <2> QED  BY <2>2, <2>3
<1> QED  BY <1>1, <1>4, <1>5, <1>6, <1>7, <1>8, NobodyTold DEF WaitInv

LEMMA InsertKeeps ==
  ASSUME WaitInv, W!Assumptions, NEW j \in Actor, W!JoinInsert(j)
  PROVE  WaitInv'
<1> DEFINE new == [phone |-> joiner[j].phone, staff |-> joiner[j].staff,
                   created |-> joiner[j].created, status |-> "waiting"]
           last == Len(entries) + 1
<1>1. /\ joiner[j].pc = "insert" /\ entries' = Append(entries, new)
      /\ joiner' = [joiner EXCEPT ![j] = W!NotJoining]
      /\ UNCHANGED <<tickets, visit, notifier, marks, texts>>
  BY DEF W!JoinInsert
<1>2. /\ j \in Inserting /\ new \in W!EntryDoc /\ new.phone = joiner[j].phone
      /\ new.status = "waiting"
  BY <1>1, JoinerFields DEF WaitInv, Inserting, W!EntryDoc
<1> HIDE DEF new
<1>3. /\ IsFiniteSet(Inserting) /\ IsFiniteSet(Actor)
      /\ \A q : IsFiniteSet(InsertingOf(q))
  BY FiniteActors, Smaller DEF Inserting, InsertingOf
<1>4. /\ W!NotJoining \in W!JoinerState /\ W!NotJoining.pc = "idle"
  BY DEF W!NotJoining, W!JoinerState
<1>5. /\ joiner' \in [Actor -> W!JoinerState] /\ joiner'[j].pc = "idle"
      /\ \A i \in Actor \ {j} : joiner'[i] = joiner[i]
  BY <1>1, <1>4, JoinerFields DEF WaitInv
<1>6. /\ Inserting' = Inserting \ {j} /\ \A i \in Inserting' : joiner'[i].phone \in Thing
  BY <1>5 DEF Inserting, WaitInv
<1>7. /\ entries \in Seq(W!EntryDoc) /\ Len(entries) \in Nat /\ DOMAIN entries = 1..Len(entries)
  BY EntryFields DEF WaitInv, W!TypeOK
<1>8. /\ entries' \in Seq(W!EntryDoc) /\ Len(entries') = last /\ DOMAIN entries' = 1..last
      /\ entries'[last] = new /\ \A e \in DOMAIN entries : entries'[e] = entries[e]
  BY <1>1, <1>2, <1>7
<1>9. tickets' = Len(entries') + W!Cardinality(Inserting') /\ Len(entries') <= MaxEntries
  <2>1. /\ W!Cardinality(Inserting') = W!Cardinality(Inserting) - 1
        /\ W!Cardinality(Inserting) \in Nat /\ W!Cardinality(Inserting') \in Nat
    BY <1>2, <1>3, <1>6, OneLess
  <2>2. tickets = Len(entries) + W!Cardinality(Inserting) /\ tickets <= MaxEntries /\ MaxEntries \in Nat
    BY DEF WaitInv, W!Assumptions
  <2> QED  BY <1>1, <1>7, <1>8, <2>1, <2>2
<1>10. W!TypeOK'
  BY <1>1, <1>5, <1>8, <1>9 DEF WaitInv, W!TypeOK
<1>11. W!Waiting' = W!Waiting \cup {last} /\ last \notin DOMAIN entries
  BY <1>2, <1>7, <1>8 DEF W!Waiting
<1>12. Settling
  <2>1. \A e \in DOMAIN entries : e \in DOMAIN entries' /\ entries'[e].created = entries[e].created
    BY <1>7, <1>8
  <2>2. \A e \in DOMAIN entries : last > e /\ e \in Nat
    BY <1>7
  <2>3. last \in Nat
    BY <1>7
  <2> HIDE DEF last
  <2> QED  BY <1>11, <2>1, <2>2, <2>3, EntryFields DEF Settling, WaitInv
<1>13. ASSUME NEW q \in Thing PROVE EachOnce(q)'
  <2>0. EachOnce(q) /\ IsFiniteSet(WaitingOf(q)) /\ last \notin WaitingOf(q)
    BY <1>11, FiniteWaiting DEF WaitInv, WaitingOf, W!Waiting
  <2>1. CASE q = joiner[j].phone
    <3>1. WaitingOf(q)' = WaitingOf(q) \cup {last}
      BY <1>2, <1>8, <1>11, <2>1, EntryFields DEF WaitingOf, WaitInv
    <3>2. InsertingOf(q)' = InsertingOf(q) \ {j} /\ j \in InsertingOf(q)
      BY <1>2, <1>5, <1>6, <2>1 DEF InsertingOf, Inserting
    <3>3. /\ W!Cardinality(WaitingOf(q)') = W!Cardinality(WaitingOf(q)) + 1
          /\ W!Cardinality(WaitingOf(q)) \in Nat
      BY <2>0, <3>1, OneMore
    <3>4. /\ W!Cardinality(InsertingOf(q)') = W!Cardinality(InsertingOf(q)) - 1
          /\ W!Cardinality(InsertingOf(q)) \in Nat
      BY <1>3, <3>2, OneLess
    <3> QED  BY <2>0, <3>3, <3>4, FiniteActors DEF EachOnce
  <2>2. CASE q # joiner[j].phone
    <3>1. WaitingOf(q)' = WaitingOf(q)
      BY <1>2, <1>8, <1>11, <2>2, EntryFields DEF WaitingOf, WaitInv
    <3>2. InsertingOf(q)' = InsertingOf(q)
      BY <1>5, <1>6, <2>2 DEF InsertingOf, Inserting
    <3> QED  BY <2>0, <3>1, <3>2 DEF EachOnce
  <2> QED  BY <2>1, <2>2
<1>14. tickets' <= MaxEntries
  BY <1>1 DEF WaitInv
<1> QED  BY <1>1, <1>6, <1>9, <1>10, <1>12, <1>13, <1>14, NobodyTold DEF WaitInv

LEMMA SettleKeeps ==
  ASSUME WaitInv, W!Assumptions,
         \/ \E e \in DOMAIN entries : W!RemoveEntry(e)
         \/ \E p \in Thing : W!MarkBooked(p)
  PROVE  WaitInv'
<1>1. UNCHANGED <<tickets, visit, joiner, notifier, texts>> /\ marks' \subseteq marks
  BY DEF W!RemoveEntry, W!MarkBooked
<1>2. /\ entries' \in Seq(W!EntryDoc) /\ DOMAIN entries' = DOMAIN entries
      /\ \A d \in DOMAIN entries :
           /\ entries'[d].created = entries[d].created /\ entries'[d].phone = entries[d].phone
           /\ entries'[d].status = "waiting" => entries[d].status = "waiting"
  <2> DEFINE Settled(d) == {entries[d], [entries[d] EXCEPT !.status = "removed"],
                            [entries[d] EXCEPT !.status = "booked"]}
  <2>1. ASSUME NEW d \in DOMAIN entries, NEW x \in Settled(d)
        PROVE  /\ x \in W!EntryDoc /\ x.created = entries[d].created
               /\ x.phone = entries[d].phone
               /\ x.status = "waiting" => entries[d].status = "waiting"
    BY <2>1, EntryFields DEF WaitInv, W!EntryDoc
  <2>2. /\ DOMAIN entries' = DOMAIN entries
        /\ entries' = [d \in 1..Len(entries) |-> entries'[d]]
        /\ \A d \in DOMAIN entries : entries'[d] \in Settled(d)
    <3>1. ASSUME NEW e \in DOMAIN entries, W!RemoveEntry(e)
          PROVE  /\ DOMAIN entries' = DOMAIN entries
                 /\ entries' = [d \in 1..Len(entries) |-> entries'[d]]
                 /\ \A d \in DOMAIN entries : entries'[d] \in Settled(d)
      BY <3>1, EntryFields DEF W!RemoveEntry, WaitInv
    <3>2. ASSUME NEW p \in Thing, W!MarkBooked(p)
          PROVE  /\ DOMAIN entries' = DOMAIN entries
                 /\ entries' = [d \in 1..Len(entries) |-> entries'[d]]
                 /\ \A d \in DOMAIN entries : entries'[d] \in Settled(d)
      BY <3>2, EntryFields DEF W!MarkBooked, WaitInv
    <3> QED  BY <3>1, <3>2
  <2> HIDE DEF Settled
  <2>3. entries' \in Seq(W!EntryDoc)
    <3>1. \A d \in 1..Len(entries) : entries'[d] \in W!EntryDoc
      BY <2>1, <2>2, EntryFields DEF WaitInv
    <3>2. entries' \in [1..Len(entries) -> W!EntryDoc]
      BY <2>2, <3>1
    <3> QED  BY <3>2, EntryFields DEF WaitInv
  <2> QED  BY <2>1, <2>2, <2>3
<1>3. Len(entries') = Len(entries)
  <2>1. /\ DOMAIN entries' = 1..Len(entries') /\ Len(entries') \in Nat
        /\ DOMAIN entries = 1..Len(entries) /\ Len(entries) \in Nat
    BY <1>2 DEF WaitInv, W!TypeOK
  <2> QED  BY <1>2, <2>1, SameLength
<1>4. W!TypeOK'
  BY <1>1, <1>2, <1>3 DEF WaitInv, W!TypeOK
<1>5. Settling /\ \A p \in Thing : EachOnce(p)'
  BY <1>1, <1>2, <1>4, OnlySettled
<1>6. Inserting' = Inserting
  BY <1>1 DEF Inserting
<1> QED  BY <1>1, <1>3, <1>4, <1>5, <1>6, NobodyTold DEF WaitInv

\* Nothing of the list changes, or a notifier's step does not touch it.
LEMMA NoneSettled ==
  ASSUME WaitInv, UNCHANGED entries PROVE Settling
BY EntryFields DEF Settling, WaitInv, W!Waiting

\* One notifier moves.
LEMMA NotifierKeeps ==
  ASSUME WaitInv, W!Assumptions, Settling, UNCHANGED <<tickets, joiner, marks>>,
         entries' \in Seq(W!EntryDoc), Len(entries') = Len(entries),
         \A p \in Thing : EachOnce(p)',
         NEW n \in Actor, NEW new \in W!NotifierState,
         new.pc \in {"free", "claim", "send"} => new.line # <<>>,
         notifier' = [notifier EXCEPT ![n] = new],
         LineHolds(n)', TextsHold',
         \A m \in Actor \ {n} : Telling(m) =>
           /\ texts'[notifier[m].line[1]] = texts[notifier[m].line[1]]
           /\ new.pc = "send" => new.line[1] # notifier[m].line[1]
  PROVE  WaitInv'
<1>1. /\ notifier' \in [Actor -> W!NotifierState] /\ notifier'[n] = new
      /\ \A m \in Actor \ {n} : notifier'[m] = notifier[m]
  BY DEF WaitInv, W!TypeOK
<1>2. W!TypeOK'
  <2>1. \A m \in Actor : notifier'[m].pc \in {"free", "claim", "send"} => notifier'[m].line # <<>>
    BY <1>1 DEF WaitInv, W!TypeOK
  <2> QED  BY <1>1, <2>1 DEF WaitInv, W!TypeOK
<1>3. \A m \in Actor : LineHolds(m)'
  BY <1>1, LineStands DEF WaitInv
<1>4. \A m, k \in Actor :
        Telling(m)' /\ Telling(k)' /\ notifier'[m].line[1] = notifier'[k].line[1] => m = k
  BY <1>1 DEF WaitInv, Telling
<1>5. Inserting' = Inserting
  BY DEF Inserting
<1> QED  BY <1>2, <1>3, <1>4, <1>5 DEF WaitInv

\* A notifier moves, and nothing else.
LEMMA NotifierOnly ==
  ASSUME WaitInv, W!Assumptions, UNCHANGED <<tickets, joiner, marks, entries, texts>>,
         NEW n \in Actor, NEW new \in W!NotifierState,
         new.pc \in {"free", "claim"} => new.line # <<>>, new.pc # "send",
         notifier' = [notifier EXCEPT ![n] = new], LineHolds(n)'
  PROVE  WaitInv'
<1>1. Settling
  BY NoneSettled
<1>2. TextsHold'
  BY <1>1, TextsStand DEF WaitInv
<1>3. ASSUME NEW p \in Thing PROVE EachOnce(p)'
  BY DEF WaitInv, EachOnce, WaitingOf, W!Waiting, InsertingOf, Inserting
<1>4. entries' \in Seq(W!EntryDoc) /\ Len(entries') = Len(entries)
  BY DEF WaitInv, W!TypeOK
<1> QED  BY <1>1, <1>2, <1>3, <1>4, NotifierKeeps

LEMMA DoneHolds ==
  /\ W!Done \in W!NotifierState /\ W!Done.pc = "idle"
  /\ \A n \in Actor : notifier'[n].pc \in {"idle", "begin"} => LineHolds(n)'
<1>1. W!Done \in W!NotifierState /\ W!Done.pc = "idle"
  BY DEF W!Done, W!NotifierState
<1> QED  BY <1>1 DEF LineHolds

LEMMA BookingKeeps ==
  ASSUME WaitInv, W!Assumptions,
         \/ \E p \in Thing, s \in Person : W!Book(p, s)
         \/ \E s \in Person : W!Cancel(s)
         \/ W!LoseTask
  PROVE  WaitInv'
<1>1. /\ UNCHANGED <<tickets, joiner, entries, texts>> /\ marks' \subseteq Thing
      /\ \/ UNCHANGED notifier
         \/ /\ UNCHANGED marks
            /\ \E n \in Actor :
                 \/ notifier[n].pc = "idle" /\ notifier' = [notifier EXCEPT ![n].pc = "begin"]
                 \/ notifier' = [notifier EXCEPT ![n] = W!Done]
  BY DEF W!Book, W!Cancel, W!LoseTask, WaitInv, W!TypeOK
<1>2. CASE UNCHANGED notifier
  <2>1. Settling
    BY <1>1, NoneSettled
  <2>2. \A p \in Thing : EachOnce(p)'
    BY <1>1 DEF WaitInv, EachOnce, WaitingOf, W!Waiting, InsertingOf, Inserting
  <2>3. W!TypeOK' /\ Inserting' = Inserting
    BY <1>1, <1>2 DEF WaitInv, W!TypeOK, Inserting
  <2> QED  BY <1>1, <1>2, <2>1, <2>2, <2>3, NobodyTold DEF WaitInv
<1>3. CASE /\ UNCHANGED marks
           /\ \E n \in Actor :
                \/ notifier[n].pc = "idle" /\ notifier' = [notifier EXCEPT ![n].pc = "begin"]
                \/ notifier' = [notifier EXCEPT ![n] = W!Done]
  <2>1. PICK n \in Actor, new \in W!NotifierState :
          notifier' = [notifier EXCEPT ![n] = new] /\ new.pc \in {"idle", "begin"}
    <3>1. \A n \in Actor : [notifier[n] EXCEPT !.pc = "begin"] \in W!NotifierState
      BY DEF WaitInv, W!TypeOK, W!NotifierState
    <3>2. PICK n \in Actor :
            \/ notifier[n].pc = "idle" /\ notifier' = [notifier EXCEPT ![n].pc = "begin"]
            \/ notifier' = [notifier EXCEPT ![n] = W!Done]
      BY <1>3
    <3>3. CASE notifier' = [notifier EXCEPT ![n].pc = "begin"]
      <4> DEFINE new == [notifier[n] EXCEPT !.pc = "begin"]
      <4>1. new \in W!NotifierState /\ new.pc = "begin"
        BY <3>1 DEF WaitInv, W!TypeOK, W!NotifierState
      <4>2. notifier' = [notifier EXCEPT ![n] = new]
        BY <3>3
      <4> QED  BY <4>1, <4>2
    <3>4. CASE notifier' = [notifier EXCEPT ![n] = W!Done]
      BY <3>4, DoneHolds
    <3> QED  BY <3>2, <3>3, <3>4
  <2>2. notifier'[n] = new
    BY <2>1 DEF WaitInv, W!TypeOK
  <2> QED  BY <1>1, <1>3, <2>1, <2>2, DoneHolds, NotifierOnly
<1> QED  BY <1>1, <1>2, <1>3

LEMMA RestOfLine ==
  ASSUME NEW S, NEW line \in Seq(S), Len(line) > 1
  PROVE  /\ Tail(line) \in Seq(S) /\ DOMAIN Tail(line) = 1..(Len(line) - 1)
         /\ Tail(line) # <<>>
         /\ \A i \in 1..(Len(line) - 1) : Tail(line)[i] = line[i + 1]
<1>1. Tail(line) \in Seq(S) /\ Len(Tail(line)) = Len(line) - 1 /\ Len(line) \in Nat
  OBVIOUS
<1>2. DOMAIN Tail(line) = 1..(Len(line) - 1)
  BY <1>1
<1>3. Tail(line) # <<>>
  <2>1. Len(<<>>) = 0 /\ Len(Tail(line)) # 0
    BY <1>1
  <2> QED  BY <2>1
<1>4. \A i \in 1..(Len(line) - 1) : Tail(line)[i] = line[i + 1]
  BY <1>1
<1> QED  BY <1>1, <1>2, <1>3, <1>4

\* The loop goes on behind an entry that waits no more.
LEMMA OnwardHolds ==
  ASSUME WaitInv, Settling, NEW n \in Actor, notifier[n].pc \in {"claim", "send"},
         notifier'[n] = W!NextEntry(n), notifier[n].line[1] \notin W!Waiting'
  PROVE  /\ W!NextEntry(n) \in W!NotifierState /\ W!NextEntry(n).pc \in {"idle", "free"}
         /\ W!NextEntry(n).pc = "free" => W!NextEntry(n).line # <<>>
         /\ LineHolds(n)'
<1> DEFINE line == notifier[n].line
<1>1. /\ line \in Seq(W!EntryId) /\ DOMAIN line = 1..Len(line) /\ Len(line) \in Nat
      /\ 1 \in DOMAIN line
  BY LineFields DEF WaitInv
<1>2. CASE Len(line) <= 1
  BY <1>2, DoneHolds DEF W!NextEntry
<1>3. CASE Len(line) > 1
  <2> DEFINE rest == Tail(line)
             new == [pc |-> "free", line |-> rest]
  <2>1. W!NextEntry(n) = new
    BY <1>1, <1>3 DEF W!NextEntry
  <2> HIDE DEF line
  <2>2. /\ rest \in Seq(W!EntryId) /\ DOMAIN rest = 1..(Len(line) - 1) /\ rest # <<>>
        /\ \A i \in 1..(Len(line) - 1) : rest[i] = line[i + 1]
    BY <1>1, <1>3, RestOfLine
  <2> HIDE DEF rest
  <2>3. new \in W!NotifierState /\ new.pc = "free" /\ new.line = rest
    BY <2>2 DEF W!NotifierState
  <2> HIDE DEF new
  <2>4. ASSUME NEW i \in DOMAIN line
        PROVE  /\ line[i] \in DOMAIN entries /\ line[i] \in DOMAIN entries'
               /\ entries'[line[i]].created = entries[line[i]].created
    BY <2>4 DEF line, WaitInv, LineHolds, Settling
  <2>5. ASSUME NEW i \in DOMAIN line, NEW f \in W!Waiting',
               entries'[f].created < entries'[line[i]].created, f < line[i]
        PROVE  \E j \in 1..(i - 1) : line[j] = f
    <3>1. line[i] \in Nat /\ f \in Nat
      BY <2>4, EntryFields DEF WaitInv, Settling
    <3>2. f \in DOMAIN entries
      <4>1. ASSUME f > line[i] PROVE FALSE
        BY <2>5, <3>1, <4>1
      <4> QED  BY <2>4, <4>1 DEF Settling
    <3> QED  BY <2>4, <2>5, <3>2 DEF line, WaitInv, LineHolds, Settling
  <2>6. ASSUME NEW i \in DOMAIN rest PROVE rest[i] \in DOMAIN entries'
    <3>1. i + 1 \in DOMAIN line /\ rest[i] = line[i + 1]
      BY <1>1, <2>2
    <3> QED  BY <2>4, <3>1
  <2>7. ASSUME NEW i \in DOMAIN rest, NEW f \in W!Waiting',
               entries'[f].created < entries'[rest[i]].created, f < rest[i]
        PROVE  \E j \in 1..(i - 1) : rest[j] = f
    <3>1. i + 1 \in DOMAIN line /\ rest[i] = line[i + 1] /\ i \in 1..(Len(line) - 1)
      BY <1>1, <2>2
    <3>2. PICK j \in 1..((i + 1) - 1) : line[j] = f
      BY <2>5, <2>7, <3>1
    <3>3. j # 1
      BY <2>7, <3>2 DEF line
    <3>4. j - 1 \in 1..(i - 1) /\ j - 1 \in 1..(Len(line) - 1) /\ (j - 1) + 1 = j
      BY <1>1, <3>1, <3>2, <3>3
    <3>5. rest[j - 1] = f
      BY <2>2, <3>2, <3>4
    <3> QED  BY <3>4, <3>5
  <2>8. LineHolds(n)'
    BY <2>1, <2>3, <2>6, <2>7 DEF LineHolds, Telling
  <2> QED  BY <2>1, <2>2, <2>3, <2>8
<1> QED  BY <1>1, <1>2, <1>3

LEMMA BeginKeeps ==
  ASSUME WaitInv, W!Assumptions, NEW n \in Actor, W!Begin(n)
  PROVE  WaitInv'
<1>1. PICK mayText \in BOOLEAN, line \in W!FirstInLine :
        notifier' = [notifier EXCEPT ![n] =
          IF ~mayText \/ W!Waiting = {} THEN W!Done ELSE [pc |-> "free", line |-> line]]
  BY DEF W!Begin
<1>2. UNCHANGED <<entries, tickets, visit, joiner, marks, texts>>
  BY DEF W!Begin
<1>3. CASE ~mayText \/ W!Waiting = {}
  <2>1. notifier' = [notifier EXCEPT ![n] = W!Done] /\ notifier'[n] = W!Done
    BY <1>1, <1>3 DEF WaitInv, W!TypeOK
  <2> QED  BY <1>2, <2>1, DoneHolds, NotifierOnly
<1>4. CASE ~(~mayText \/ W!Waiting = {})
  <2> DEFINE new == [pc |-> "free", line |-> line]
             few == IF W!Cardinality(W!Waiting) < MaxTexts THEN W!Cardinality(W!Waiting)
                    ELSE MaxTexts
  <2>1. few \in Nat /\ few >= 1
    <3>1. PICK e \in W!Waiting : TRUE
      BY <1>4
    <3>2. W!Cardinality(W!Waiting) \in Nat /\ W!Cardinality(W!Waiting \ {e}) \in Nat
          /\ W!Cardinality(W!Waiting \ {e}) = W!Cardinality(W!Waiting) - 1
      BY FiniteWaiting, OneLess DEF WaitInv
    <3> QED  BY <3>2 DEF W!Assumptions
  <2>2. /\ line \in [1..few -> W!Waiting]
        /\ \A i \in 1..few : \A e \in W!Waiting :
             entries[e].created < entries[line[i]].created => \E j \in 1..(i - 1) : line[j] = e
    BY DEF W!FirstInLine, W!InLine
  <2> HIDE DEF few
  <2>3. \A e \in W!Waiting : e \in DOMAIN entries /\ e \in W!EntryId
    BY EntryFields DEF WaitInv, W!TypeOK, W!EntryId, W!Assumptions
  <2>4. line \in Seq(W!EntryId) /\ line # <<>> /\ DOMAIN line = 1..few
    <3>1. line \in [1..few -> W!EntryId]
      BY <2>2, <2>3
    <3>2. line \in Seq(W!EntryId)
      BY <2>1, <3>1
    <3>3. DOMAIN line = 1..few
      BY <2>2
    <3>4. line # <<>>
      <4>1. DOMAIN <<>> = {} /\ 1 \in DOMAIN line
        BY <2>1, <3>3
      <4> QED  BY <4>1
    <3> QED  BY <3>2, <3>3, <3>4
  <2>5. new \in W!NotifierState /\ new.pc = "free" /\ new.line = line
    BY <2>4 DEF W!NotifierState
  <2>6. notifier' = [notifier EXCEPT ![n] = new]
    BY <1>1, <1>4
  <2> HIDE DEF new
  <2>7. notifier'[n] = new
    BY <2>6 DEF WaitInv, W!TypeOK
  <2>8. LineHolds(n)'
    <3>1. \A i \in DOMAIN line : line[i] \in DOMAIN entries
      BY <2>2, <2>3, <2>4
    <3>2. W!Waiting' = W!Waiting
      BY <1>2 DEF W!Waiting
    <3> QED  BY <1>2, <2>2, <2>4, <2>5, <2>7, <3>1, <3>2 DEF LineHolds, Telling
  <2> QED  BY <1>2, <2>4, <2>5, <2>6, <2>8, NotifierOnly
<1> QED  BY <1>3, <1>4

LEMMA CheckKeeps ==
  ASSUME WaitInv, W!Assumptions, NEW n \in Actor, W!CheckFree(n)
  PROVE  WaitInv'
<1>1. /\ UNCHANGED <<entries, tickets, visit, joiner, marks, texts>>
      /\ notifier[n].pc = "free"
      /\ \/ notifier' = [notifier EXCEPT ![n] = W!Done]
         \/ notifier' = [notifier EXCEPT ![n] = [notifier[n] EXCEPT !.pc = "claim"]]
  BY DEF W!CheckFree, WaitInv, W!TypeOK
<1>2. CASE notifier' = [notifier EXCEPT ![n] = W!Done]
  <2>1. notifier'[n] = W!Done
    BY <1>2 DEF WaitInv, W!TypeOK
  <2> QED  BY <1>1, <1>2, <2>1, DoneHolds, NotifierOnly
<1>3. CASE notifier' = [notifier EXCEPT ![n] = [notifier[n] EXCEPT !.pc = "claim"]]
  <2> DEFINE new == [notifier[n] EXCEPT !.pc = "claim"]
  <2>1. /\ new \in W!NotifierState /\ new.pc = "claim" /\ new.line = notifier[n].line
        /\ new.line # <<>>
    BY <1>1 DEF WaitInv, W!TypeOK, W!NotifierState
  <2>2. notifier'[n] = new
    BY <1>3 DEF WaitInv, W!TypeOK
  <2> HIDE DEF new
  <2>3. LineHolds(n)'
    <3>1. W!Waiting' = W!Waiting
      BY <1>1 DEF W!Waiting
    <3> QED  BY <1>1, <2>1, <2>2, <3>1 DEF WaitInv, LineHolds, Telling
  <2> QED  BY <1>1, <1>3, <2>1, <2>3, NotifierOnly DEF new
<1> QED  BY <1>1, <1>2, <1>3

LEMMA ClaimKeeps ==
  ASSUME WaitInv, W!Assumptions, NEW n \in Actor, W!Claim(n)
  PROVE  WaitInv'
<1> DEFINE line == notifier[n].line
<1>1. /\ UNCHANGED <<tickets, visit, joiner, marks, texts>> /\ notifier[n].pc = "claim"
  BY DEF W!Claim
<1>2. PICK e \in W!EntryId : e = line[1] /\ W!Head1(n) = e
  BY <1>1, LineFields DEF WaitInv
<1>3. e \in DOMAIN entries /\ 1 \in DOMAIN line
  BY <1>1, <1>2, LineFields DEF WaitInv, LineHolds
<1>4. CASE ~W!Claimable(e)
  <2>1. notifier' = [notifier EXCEPT ![n] = W!NextEntry(n)] /\ UNCHANGED entries
    BY <1>2, <1>4 DEF W!Claim
  <2>2. notifier'[n] = W!NextEntry(n)
    BY <2>1 DEF WaitInv, W!TypeOK
  <2>3. e \notin W!Waiting'
    BY <1>4, <2>1 DEF W!Claimable, W!Waiting
  <2>4. Settling
    BY <2>1, NoneSettled
  <2>5. /\ W!NextEntry(n) \in W!NotifierState /\ W!NextEntry(n).pc \in {"idle", "free"}
        /\ W!NextEntry(n).pc = "free" => W!NextEntry(n).line # <<>>
        /\ LineHolds(n)'
    BY <1>1, <1>2, <2>2, <2>3, <2>4, OnwardHolds
  <2> QED  BY <1>1, <2>1, <2>5, NotifierOnly
<1>5. CASE W!Claimable(e)
  <2> DEFINE new == [notifier[n] EXCEPT !.pc = "send"]
             tells == [entries[e] EXCEPT !.status = "notified"]
  <2>1. /\ entries' = [entries EXCEPT ![e] = tells]
        /\ notifier' = [notifier EXCEPT ![n] = new]
    BY <1>2, <1>5 DEF W!Claim
  <2>2. /\ tells \in W!EntryDoc /\ tells.status = "notified"
        /\ tells.created = entries[e].created /\ tells.phone = entries[e].phone
    BY <1>3, EntryFields DEF WaitInv, W!EntryDoc
  <2>3. /\ new \in W!NotifierState /\ new.pc = "send" /\ new.line = line /\ new.line # <<>>
    BY <1>1 DEF WaitInv, W!TypeOK, W!NotifierState
  <2> HIDE DEF new, tells
  <2>4. /\ entries \in Seq(W!EntryDoc) /\ DOMAIN entries = 1..Len(entries)
        /\ Len(entries) \in Nat
    BY EntryFields DEF WaitInv, W!TypeOK
  <2>5. /\ entries' \in Seq(W!EntryDoc) /\ Len(entries') = Len(entries)
        /\ DOMAIN entries' = DOMAIN entries /\ entries'[e] = tells
        /\ \A d \in DOMAIN entries \ {e} : entries'[d] = entries[d]
    BY <1>3, <2>1, <2>2, <2>4
  <2>6. /\ notifier' \in [Actor -> W!NotifierState] /\ notifier'[n] = new
        /\ \A m \in Actor \ {n} : notifier'[m] = notifier[m]
    BY <2>1, <2>3 DEF WaitInv, W!TypeOK
  <2>7. W!TypeOK'
    <3>1. \A m \in Actor : notifier'[m].pc \in {"free", "claim", "send"} => notifier'[m].line # <<>>
      BY <2>3, <2>6 DEF WaitInv, W!TypeOK
    <3> QED  BY <1>1, <2>5, <2>6, <3>1 DEF WaitInv, W!TypeOK
  <2>8. \A d \in DOMAIN entries :
          /\ entries'[d].created = entries[d].created /\ entries'[d].phone = entries[d].phone
          /\ entries'[d].status = "waiting" => entries[d].status = "waiting"
    BY <2>2, <2>5
  <2>9. Settling /\ \A p \in Thing : EachOnce(p)'
    BY <1>1, <2>5, <2>7, <2>8, OnlySettled
  <2>10. e \in W!Waiting /\ e \notin W!Waiting'
    BY <1>3, <1>5, <2>2, <2>5 DEF W!Claimable, W!Waiting
  <2>11. TextsHold' /\ texts[e] = 0
    <3>1. TextsHold'
      BY <1>1, <2>9, TextsStand DEF WaitInv
    <3>2. texts[e] \in 0..1 /\ ~(texts[e] > 0)
      BY <1>2, <2>10 DEF WaitInv, TextsHold
    <3> QED  BY <3>1, <3>2
  <2>12. ASSUME NEW i \in DOMAIN line, NEW f \in W!Waiting',
                entries'[f].created < entries'[line[i]].created, f < line[i]
         PROVE  \E j \in 1..(i - 1) : line[j] = f
    <3>1. f \in W!Waiting /\ f \in DOMAIN entries /\ line[i] \in DOMAIN entries
      BY <1>1, <2>5, <2>12, <2>9, EntryFields DEF WaitInv, LineHolds, Settling, W!Waiting
    <3> QED  BY <1>1, <2>8, <2>12, <3>1 DEF WaitInv, LineHolds
  <2>13. Passed(e)'
    <3>1. ASSUME NEW f \in W!Waiting', entries'[f].created < entries'[e].created
          PROVE  f > e
      <4>1. f \in Nat /\ e \in Nat /\ f # e
        BY <1>3, <2>9, <2>10, EntryFields DEF Settling, WaitInv
      <4>2. ~(f < e)
        BY <1>2, <1>3, <2>12, <3>1
      <4> QED  BY <4>1, <4>2
    <3> QED  BY <3>1 DEF Passed
  <2>14. LineHolds(n)'
    <3>1. \A i \in DOMAIN line : line[i] \in DOMAIN entries'
      BY <1>1, <2>5 DEF WaitInv, LineHolds
    <3>2. \A f \in W!Waiting' : entries'[f].created < entries'[e].created => f > e
      BY <2>13 DEF Passed
    <3>3. texts'[e] = 0
      BY <1>1, <2>11
    <3> QED
      BY <1>2, <2>3, <2>6, <2>10, <2>12, <3>1, <3>2, <3>3 DEF LineHolds, Telling, Passed
  <2>15. \A m \in Actor \ {n} : Telling(m) => new.line[1] # notifier[m].line[1]
    BY <1>2, <2>3, <2>10 DEF WaitInv, LineHolds, Telling
  <2>16. new.pc \in {"free", "claim", "send"} => new.line # <<>>
    BY <2>3
  <2> QED
    BY <1>1, <2>1, <2>3, <2>5, <2>9, <2>11, <2>14, <2>15, <2>16, NotifierKeeps
<1> QED  BY <1>4, <1>5

LEMMA SendKeeps ==
  ASSUME WaitInv, W!Assumptions, NEW n \in Actor, W!Send(n)
  PROVE  WaitInv'
<1> DEFINE line == notifier[n].line
<1>1. /\ UNCHANGED <<entries, tickets, visit, joiner, marks>> /\ notifier[n].pc = "send"
      /\ Telling(n) /\ notifier' = [notifier EXCEPT ![n] = W!NextEntry(n)]
  BY DEF W!Send, Telling
<1>2. PICK e \in W!EntryId : e = line[1] /\ W!Head1(n) = e
  BY <1>1, LineFields DEF WaitInv
<1>3. /\ e \in DOMAIN entries /\ e \notin W!Waiting /\ texts[e] = 0 /\ Passed(e)
  <2>1. 1 \in DOMAIN line
    BY <1>1, LineFields DEF WaitInv
  <2>2. Passed(line[1])
    BY <1>1 DEF WaitInv, LineHolds
  <2> QED  BY <1>1, <1>2, <2>1, <2>2 DEF WaitInv, LineHolds, Passed
<1>4. texts' = [texts EXCEPT ![e] = 1] \/ texts' = texts
  BY <1>2, <1>3 DEF W!Send, WaitInv, TextsHold
<1>5. Settling
  BY <1>1, NoneSettled
<1>6. notifier'[n] = W!NextEntry(n)
  BY <1>1 DEF WaitInv, W!TypeOK
<1>7. W!Waiting' = W!Waiting
  BY <1>1 DEF W!Waiting
<1>8. /\ W!NextEntry(n) \in W!NotifierState /\ W!NextEntry(n).pc \in {"idle", "free"}
      /\ W!NextEntry(n).pc = "free" => W!NextEntry(n).line # <<>>
      /\ LineHolds(n)'
  BY <1>1, <1>2, <1>3, <1>5, <1>6, <1>7, OnwardHolds
<1>9. Passed(e)'
  BY <1>3, <1>5, PassedStands
<1>10. TextsHold'
  <2>1. CASE texts' = texts
    BY <1>5, <2>1, TextsStand DEF WaitInv
  <2>2. CASE texts' = [texts EXCEPT ![e] = 1]
    <3>1. /\ texts' \in [W!EntryId -> 0..1]
          /\ \A d \in W!EntryId \ {e} : texts'[d] = texts[d]
      BY <2>2 DEF WaitInv, TextsHold
    <3>2. ASSUME NEW d \in W!EntryId, texts'[d] > 0
          PROVE  d \in DOMAIN entries' /\ d \notin W!Waiting' /\ Passed(d)'
      <4>1. CASE d = e
        BY <1>1, <1>3, <1>7, <1>9, <4>1 DEF Passed
      <4>2. CASE d # e
        <5>1. d \in DOMAIN entries /\ d \notin W!Waiting /\ Passed(d)
          BY <3>1, <3>2, <4>2 DEF WaitInv, TextsHold
        <5>2. Passed(d)'
          BY <1>5, <5>1, PassedStands
        <5> QED  BY <1>1, <1>7, <5>1, <5>2
      <4> QED  BY <4>1, <4>2
    <3> QED  BY <3>1, <3>2 DEF TextsHold
  <2> QED  BY <1>4, <2>1, <2>2
<1>11. ASSUME NEW p \in Thing PROVE EachOnce(p)'
  BY <1>1 DEF WaitInv, EachOnce, WaitingOf, W!Waiting, InsertingOf, Inserting
<1>12. entries' \in Seq(W!EntryDoc) /\ Len(entries') = Len(entries)
  BY <1>1 DEF WaitInv, W!TypeOK
<1>13. ASSUME NEW m \in Actor \ {n}, Telling(m)
       PROVE  texts'[notifier[m].line[1]] = texts[notifier[m].line[1]]
  <2>1. notifier[m].line[1] # e /\ notifier[m].line[1] \in W!EntryId
    BY <1>1, <1>2, <1>13, LineFields DEF WaitInv, Telling
  <2> QED  BY <1>4, <2>1 DEF WaitInv, TextsHold
<1> QED
  BY <1>1, <1>5, <1>8, <1>10, <1>11, <1>12, <1>13, NotifierKeeps

LEMMA WaitStarts == W!Assumptions /\ W!Init => WaitInv
<1> SUFFICES ASSUME W!Assumptions, W!Init PROVE WaitInv  OBVIOUS
<1>1. /\ W!Done \in W!NotifierState /\ W!Done.pc = "idle"
      /\ W!NotJoining \in W!JoinerState /\ W!NotJoining.pc = "idle"
  BY DEF W!Done, W!NotifierState, W!NotJoining, W!JoinerState
<1>2. /\ entries = <<>> /\ Len(entries) = 0 /\ DOMAIN entries = {}
      /\ entries \in Seq(W!EntryDoc) /\ W!Waiting = {} /\ Inserting = {}
      /\ tickets = 0 /\ MaxEntries \in Nat
  BY <1>1 DEF W!Init, W!Waiting, Inserting, W!Assumptions
<1>3. W!Cardinality({}) = 0
  BY Counted, FS_EmptySet
<1>4. W!TypeOK
  BY <1>1, <1>2 DEF W!Init, W!TypeOK
<1>5. ASSUME NEW p \in Thing PROVE EachOnce(p)
  <2>1. WaitingOf(p) = {} /\ InsertingOf(p) = {}
    BY <1>2 DEF WaitingOf, InsertingOf
  <2> QED  BY <1>3, <2>1, FiniteActors DEF EachOnce
<1>6. \A n \in Actor : LineHolds(n) /\ ~Telling(n)
  BY <1>1 DEF W!Init, LineHolds, Telling
<1>7. TextsHold
  BY DEF W!Init, TextsHold
<1> QED  BY <1>2, <1>3, <1>4, <1>5, <1>6, <1>7 DEF WaitInv

LEMMA WaitMoves == WaitInv /\ W!Assumptions /\ W!Next => WaitInv'
<1> SUFFICES ASSUME WaitInv, W!Assumptions, W!Next PROVE WaitInv'  OBVIOUS
<1> QED
  BY LookKeeps, InsertKeeps, SettleKeeps, BookingKeeps, BeginKeeps, CheckKeeps, ClaimKeeps,
     SendKeeps DEF W!Next

LEMMA WaitStands == WaitInv /\ UNCHANGED waiting => WaitInv'
<1> SUFFICES ASSUME WaitInv, UNCHANGED waiting PROVE WaitInv'  OBVIOUS
<1>1. UNCHANGED <<entries, tickets, visit, joiner, notifier, marks, texts>>
  BY DEF waiting
<1>2. Settling
  BY <1>1, NoneSettled
<1>3. \A p \in Thing : EachOnce(p)'
  BY <1>1 DEF WaitInv, EachOnce, WaitingOf, W!Waiting, InsertingOf, Inserting
<1>4. W!TypeOK' /\ Inserting' = Inserting
  BY <1>1 DEF WaitInv, W!TypeOK, Inserting
<1> QED  BY <1>1, <1>2, <1>3, <1>4, NobodyTold DEF WaitInv

LEMMA WaitPromises ==
  WaitInv /\ W!Assumptions => W!TextedOnce /\ W!LineIsKept /\ W!OneEntryPerJoin
<1> SUFFICES ASSUME WaitInv, W!Assumptions
             PROVE  W!TextedOnce /\ W!LineIsKept /\ W!OneEntryPerJoin
  OBVIOUS
<1>1. W!TextedOnce
  BY DEF WaitInv, TextsHold, W!TextedOnce
<1>2. W!LineIsKept
  <2>1. \A e \in DOMAIN entries : e \in W!EntryId
    BY EntryFields DEF WaitInv, W!TypeOK, W!EntryId, W!Assumptions
  <2> QED  BY <2>1 DEF WaitInv, TextsHold, W!LineIsKept, Passed, W!Waiting
<1>3. W!OneEntryPerJoin
  <2>1. ASSUME NEW p \in Thing PROVE W!Cardinality(WaitingOf(p)) <= W!Cardinality(Actor)
    <3>1. IsFiniteSet(Actor) /\ W!Cardinality(Actor) \in Nat /\ InsertingOf(p) \subseteq Actor
      BY FiniteActors DEF InsertingOf, Inserting
    <3>2. W!Cardinality(InsertingOf(p)) \in Nat
      BY <3>1, Smaller
    <3>3. W!Cardinality(WaitingOf(p)) \in Nat
      BY FiniteWaiting, Smaller DEF WaitInv
    <3> QED  BY <3>1, <3>2, <3>3 DEF WaitInv, EachOnce
  <2> QED  BY <2>1 DEF W!OneEntryPerJoin, WaitingOf
<1> QED  BY <1>1, <1>2, <1>3

-----------------------------------------------------------------------------
(* The reminders and the review texts.                                     *)

\* The workers that are about to remind of a booking, those that are about to send a text
\* they may send, and whether one is at the review texts.
Texting(b) ==
  {w \in Actor : worker[w].pc \in {"consent", "send"} /\ worker[w].job = "2h" /\ worker[w].at = b}
Speaking == {w \in Actor : worker[w].pc = "send" /\ worker[w].may}
Asking(w) == worker[w].pc # "idle" /\ worker[w].job = "review"

Reminded(b) == IF bookings[b].reminded["2h"] THEN 1 ELSE 0

\* A text that is sent or on its way has its mark, or a mark that was taken away.
Marked(b) == sent[b]["2h"] + R!Cardinality(Texting(b)) <= resets[b]["2h"] + Reminded(b)

\* Every worker sends at most one text after a STOP, and one for each consent unread.
Heeded ==
  IF customers["ann"].smsOptIn THEN late["ann"] = 0
  ELSE late["ann"] + R!Cardinality(Speaking) <= R!Cardinality(Actor) + unread["ann"]

\* One worker at a time asks, once, and writes down when.
AsksAlone == ~together => \A v, w \in Actor : Asking(v) /\ Asking(w) => v = w
AsksOnce ==
  ~together /\ mishaps = 0 =>
    /\ reviews["ann"] <= 1
    /\ reviews["ann"] = 1 =>
         customers["ann"].lastAsked # None
           \/ \E w \in Actor : Asking(w) /\ worker[w].pc = "store"
    /\ \A w \in Actor : Asking(w) /\ worker[w].pc = "send" => reviews["ann"] = 0

Tallies ==
  /\ sent \in [Thing -> [{"2h"} -> Nat]] /\ resets \in [Thing -> [{"2h"} -> Nat]]
  /\ reviews \in [{"ann"} -> Nat] /\ late \in [{"ann"} -> Nat]
  /\ unread \in [{"ann"} -> Nat]
  /\ mishaps \in Nat /\ together \in BOOLEAN

RemindInv ==
  /\ R!TypeOK /\ Tallies
  /\ \A w \in Actor : worker[w].pc = "giveBack" => worker[w].job = "2h"
  /\ \A b \in Thing : Marked(b)
  /\ Heeded /\ AsksAlone /\ AsksOnce

LEMMA Workers == W!Assumptions => IsFiniteSet(Actor)
BY DEF W!Assumptions, W!IsFiniteSet, IsFiniteSet

LEMMA Heads == ASSUME NEW S PROVE R!Cardinality(S) = Cardinality(S)
BY DEF R!Cardinality, Cardinality

LEMMA Fewer ==
  ASSUME W!Assumptions, NEW S, S \subseteq Actor, NEW T, T \subseteq S
  PROVE  /\ R!Cardinality(T) \in Nat /\ R!Cardinality(S) \in Nat
         /\ R!Cardinality(T) <= R!Cardinality(S)
<1>1. IsFiniteSet(S)
  BY Workers, FS_Subset
<1> QED  BY <1>1, Heads, FS_Subset, FS_CardinalityType

LEMMA OneIn ==
  ASSUME W!Assumptions, NEW S, S \subseteq Actor, NEW x, x \notin S
  PROVE  R!Cardinality(S) \in Nat /\ R!Cardinality(S \cup {x}) = R!Cardinality(S) + 1
<1>1. IsFiniteSet(S)
  BY Workers, FS_Subset
<1> QED  BY <1>1, Heads, FS_AddElement, FS_CardinalityType

LEMMA OneOut ==
  ASSUME W!Assumptions, NEW S, S \subseteq Actor, NEW x \in S
  PROVE  /\ R!Cardinality(S) \in Nat /\ R!Cardinality(S \ {x}) \in Nat
         /\ R!Cardinality(S \ {x}) = R!Cardinality(S) - 1
<1>1. IsFiniteSet(S)
  BY Workers, FS_Subset
<1>2. IsFiniteSet(S \ {x}) /\ Cardinality(S \ {x}) = Cardinality(S) - 1
  BY <1>1, FS_RemoveElement
<1> QED  BY <1>1, <1>2, Heads, FS_CardinalityType

LEMMA Wordless == R!Cardinality({}) = 0
BY Heads, FS_EmptySet

LEMMA RestingWorker ==
  /\ R!Resting \in R!WorkerState
  /\ R!Resting.pc = "idle" /\ R!Resting.job = "2h" /\ R!Resting.at = None
  /\ R!Resting.may = FALSE
<1> DEFINE i == CHOOSE i \in Instants : TRUE
<1>1. i \in Instants
  BY DEF Instants
<1>2. R!Resting = [pc |-> "idle", job |-> "2h", todo |-> {}, at |-> None,
                   began |-> i, may |-> FALSE]
  BY DEF R!Resting, R!FirstJob
<1> HIDE DEF i
<1> QED  BY <1>1, <1>2 DEF R!WorkerState, R!Job

LEMMA WorkerFields ==
  ASSUME R!TypeOK, NEW w \in Actor
  PROVE  /\ worker \in [Actor -> R!WorkerState]
         /\ worker[w].job \in {"2h", "review"} /\ worker[w].todo \in SUBSET Thing
         /\ worker[w].at \in Thing \cup {None} /\ worker[w].began \in Instants
         /\ worker[w].may \in BOOLEAN
         /\ worker[w].pc \in {"idle", "next", "consent", "send", "store", "giveBack"}
         /\ worker[w].pc \in {"consent", "send", "store", "giveBack"} => worker[w].at \in Thing
BY DEF R!TypeOK, R!WorkerState, R!Job

LEMMA DocFields ==
  ASSUME R!TypeOK
  PROVE  /\ \A b \in Thing : /\ bookings[b].reminded \in [{"2h"} -> BOOLEAN]
                             /\ bookings[b].reminded["2h"] \in BOOLEAN
         /\ customers["ann"].smsOptIn \in BOOLEAN
         /\ customers["ann"].lastAsked \in Instants \cup {None}
BY DEF R!TypeOK, R!BookingDoc, R!CustomerDoc

LEMMA TallyFields ==
  ASSUME Tallies
  PROVE  /\ \A b \in Thing : sent[b]["2h"] \in Nat /\ resets[b]["2h"] \in Nat
         /\ reviews["ann"] \in Nat /\ late["ann"] \in Nat /\ unread["ann"] \in Nat
BY DEF Tallies

\* A step of one worker, and where it gets.
Becomes(w, pc, job, at) ==
  /\ worker' \in [Actor -> R!WorkerState]
  /\ worker'[w].pc = pc /\ worker'[w].job = job /\ worker'[w].at = at
  /\ \A v \in Actor \ {w} : worker'[v] = worker[v]

LEMMA FallsSilent ==
  ASSUME NEW w \in Actor, NEW pc, NEW job, NEW at, Becomes(w, pc, job, at),
         pc \notin {"consent", "send"}
  PROVE  /\ \A b \in Thing : Texting(b)' = Texting(b) \ {w}
         /\ Speaking' = Speaking \ {w}
BY DEF Becomes, Texting, Speaking

\* The marks, while nothing is sent and none is taken away.
LEMMA MarkedStill ==
  ASSUME RemindInv, W!Assumptions, NEW b \in Thing, Texting(b)' \subseteq Texting(b),
         sent'[b]["2h"] = sent[b]["2h"], resets'[b]["2h"] = resets[b]["2h"],
         bookings[b].reminded["2h"] => bookings'[b].reminded["2h"]
  PROVE  Marked(b)'
<1> DEFINE S == Texting(b)'
<1>1. Texting(b) \subseteq Actor
  BY DEF Texting
<1>2. /\ R!Cardinality(S) \in Nat /\ R!Cardinality(Texting(b)) \in Nat
      /\ R!Cardinality(S) <= R!Cardinality(Texting(b))
  BY <1>1, Fewer
<1>3. Marked(b) /\ sent[b]["2h"] \in Nat /\ resets[b]["2h"] \in Nat
  BY TallyFields DEF RemindInv
<1>4. Reminded(b) \in Nat /\ Reminded(b)' \in Nat /\ Reminded(b) <= Reminded(b)'
  BY DEF Reminded
<1> QED  BY <1>2, <1>3, <1>4 DEF Marked

\* The STOPs, while nothing is sent.
LEMMA HeededStill ==
  ASSUME RemindInv, W!Assumptions, ~customers["ann"].smsOptIn => Speaking' \subseteq Speaking,
         late'["ann"] = late["ann"], unread'["ann"] = unread["ann"],
         customers'["ann"].smsOptIn = customers["ann"].smsOptIn
  PROVE  Heeded'
<1> DEFINE S == Speaking'
<1>1. CASE customers["ann"].smsOptIn
  BY <1>1 DEF RemindInv, Heeded
<1>2. CASE ~customers["ann"].smsOptIn
  <2>1. Speaking \subseteq Actor
    BY DEF Speaking
  <2>2. /\ R!Cardinality(S) \in Nat /\ R!Cardinality(Speaking) \in Nat
        /\ R!Cardinality(S) <= R!Cardinality(Speaking) /\ R!Cardinality(Actor) \in Nat
    BY <1>2, <2>1, Fewer
  <2>3. late["ann"] \in Nat /\ unread["ann"] \in Nat /\ Heeded
    BY TallyFields DEF RemindInv
  <2> QED  BY <1>2, <2>2, <2>3 DEF Heeded
<1> QED  BY <1>1, <1>2

\* A worker's step that sends nothing and writes no document.
LEMMA InwardStep ==
  ASSUME RemindInv, W!Assumptions, R!Assumptions, NEW w \in Actor, NEW pc, NEW job, NEW at,
         Becomes(w, pc, job, at), pc \notin {"consent", "send"},
         pc = "giveBack" => job = "2h", pc \in {"giveBack", "store"} => at \in Thing,
         UNCHANGED <<now, bookings, customers, sent, resets, reviews, late, unread>>,
         mishaps' = mishaps \/ mishaps' = mishaps + 1,
         together' \in BOOLEAN, together => together',
         ~together' /\ pc # "idle" /\ job = "review" =>
           \A v \in Actor \ {w} : ~Asking(v),
         mishaps' = mishaps /\ Asking(w) => worker[w].pc # "store"
  PROVE  RemindInv'
<1>1. R!TypeOK'
  <2>1. \A v \in Actor :
          worker'[v].pc \in {"consent", "send", "store", "giveBack"} => worker'[v].at # None
    BY DEF RemindInv, R!TypeOK, R!Assumptions, Becomes
  <2> QED  BY <2>1 DEF RemindInv, R!TypeOK, Becomes
<1>2. Tallies'
  BY DEF RemindInv, Tallies
<1>3. (\A v \in Actor : worker[v].pc = "giveBack" => worker[v].job = "2h")'
  BY DEF RemindInv, Becomes
<1>4. ASSUME NEW b \in Thing PROVE Marked(b)'
  BY FallsSilent, MarkedStill
<1>5. Heeded'
  BY FallsSilent, HeededStill
<1>6. \A v \in Actor \ {w} : Asking(v)' <=> Asking(v)
  BY DEF Becomes, Asking
<1>7. Asking(w)' <=> pc # "idle" /\ job = "review"
  BY DEF Becomes, Asking
<1>8. AsksAlone'
  BY <1>6, <1>7 DEF RemindInv, AsksAlone
<1>9. AsksOnce'
  <2> SUFFICES ASSUME ~together', mishaps' = 0 PROVE AsksOnce'
    BY DEF AsksOnce
  <2>1. ~together /\ mishaps = 0 /\ mishaps' = mishaps
    BY DEF RemindInv, Tallies
  <2>2. \A v \in Actor : Asking(v)' /\ worker'[v].pc = "send" =>
          Asking(v) /\ worker[v].pc = "send"
    BY <1>6 DEF Becomes
  <2>3. \A v \in Actor : Asking(v) /\ worker[v].pc = "store" =>
          Asking(v)' /\ worker'[v].pc = "store"
    BY <1>6, <2>1 DEF Becomes
  <2> QED  BY <2>1, <2>2, <2>3 DEF RemindInv, AsksOnce
<1> QED  BY <1>1, <1>2, <1>3, <1>4, <1>5, <1>8, <1>9 DEF RemindInv

LEMMA Reads ==
  ASSUME RemindInv, W!Assumptions, R!Assumptions, NEW w \in Actor, NEW job \in {"2h", "review"},
         R!Read(w, job), worker[w].pc # "store"
  PROVE  RemindInv'
<1> DEFINE x == [R!Resting EXCEPT !.pc = "next", !.job = job, !.todo = R!Batch(job),
                   !.began = IF job = "review" THEN now ELSE @]
<1>1. worker' = [worker EXCEPT ![w] = x]
  BY DEF R!Read
<1>2. R!Batch(job) \in SUBSET Thing /\ now \in Instants
  BY DEF R!Batch, RemindInv, R!TypeOK
<1>3. /\ x \in R!WorkerState
      /\ x.pc = "next" /\ x.job = job /\ x.at = None /\ x.may = FALSE
  BY <1>2, RestingWorker DEF R!WorkerState, R!Job
<1> HIDE DEF x
<1>4. Becomes(w, "next", job, None)
  BY <1>1, <1>3, WorkerFields DEF Becomes, RemindInv
<1>5. /\ together' = (together \/ (job = "review" /\ \E v \in Actor \ {w} : Asking(v)))
      /\ UNCHANGED <<now, bookings, customers, sent, resets, reviews, late, unread, mishaps>>
  BY DEF R!Read, Asking
<1>6. together' \in BOOLEAN
  BY <1>5 DEF RemindInv, Tallies
<1>7. ~together' /\ job = "review" => \A v \in Actor \ {w} : ~Asking(v)
  BY <1>5
<1>8. together => together'
  BY <1>5
<1> QED  BY <1>4, <1>5, <1>6, <1>7, <1>8, InwardStep

LEMMA Rests ==
  ASSUME RemindInv, W!Assumptions, R!Assumptions, NEW w \in Actor,
         worker' = [worker EXCEPT ![w] = R!Resting],
         UNCHANGED <<now, bookings, customers, sent, resets, reviews, late, unread, together>>,
         mishaps' = mishaps + 1 \/ (mishaps' = mishaps /\ worker[w].pc # "store")
  PROVE  RemindInv'
<1>1. Becomes(w, "idle", "2h", None)
  BY RestingWorker, WorkerFields DEF Becomes, RemindInv
<1>2. together' \in BOOLEAN /\ mishaps \in Nat
  BY DEF RemindInv, Tallies
<1>3. mishaps' = mishaps /\ Asking(w) => worker[w].pc # "store"
  BY <1>2
<1> QED  BY <1>1, <1>2, <1>3, InwardStep

LEMMA OnwardStep ==
  ASSUME R!TypeOK, NEW w \in Actor, worker' = R!Onward(w)
  PROVE  Becomes(w, "next", worker[w].job, None)
<1>1. worker' = [worker EXCEPT ![w].pc = "next", ![w].at = None, ![w].may = FALSE]
  BY DEF R!Onward
<1> DEFINE x == [worker[w] EXCEPT !.pc = "next", !.at = None, !.may = FALSE]
<1>2. /\ x \in R!WorkerState
      /\ x.pc = "next" /\ x.job = worker[w].job /\ x.at = None /\ x.may = FALSE
  BY WorkerFields DEF R!WorkerState, R!Job
<1>3. worker' = [worker EXCEPT ![w] = x]
  BY <1>1, WorkerFields
<1> HIDE DEF x
<1> QED  BY <1>2, <1>3, WorkerFields DEF Becomes

LEMMA Passes ==
  ASSUME RemindInv, W!Assumptions, R!Assumptions, NEW w \in Actor, NEW b \in Thing, R!Pass(w, b)
  PROVE  RemindInv'
<1>1. /\ worker' = [worker EXCEPT ![w].todo = @ \ {b}] /\ worker[w].pc = "next"
      /\ UNCHANGED <<now, bookings, customers, sent, resets, reviews, late, unread, mishaps, together>>
  BY DEF R!Pass, R!history
<1>2. Becomes(w, "next", worker[w].job, worker[w].at)
  BY <1>1, WorkerFields DEF Becomes, RemindInv, R!WorkerState, R!Job
<1>3. together' \in BOOLEAN
  BY <1>1 DEF RemindInv, Tallies
<1>4. ~together /\ worker[w].job = "review" => \A v \in Actor \ {w} : ~Asking(v)
  BY <1>1 DEF RemindInv, AsksAlone, Asking
<1> QED  BY <1>1, <1>2, <1>3, <1>4, InwardStep

LEMMA Fails ==
  ASSUME RemindInv, W!Assumptions, R!Assumptions, NEW w \in Actor, R!Fail(w)
  PROVE  RemindInv'
<1>1. /\ worker[w].pc \in {"consent", "send", "store"} /\ mishaps' = mishaps + 1
      /\ UNCHANGED <<now, bookings, customers, sent, resets, reviews, late, unread, together>>
  BY DEF R!Fail
<1>2. together' \in BOOLEAN /\ mishaps' # mishaps
  BY <1>1 DEF RemindInv, Tallies
<1>3. ~together /\ worker[w].job = "review" => \A v \in Actor \ {w} : ~Asking(v)
  BY <1>1 DEF RemindInv, AsksAlone, Asking
<1>4. CASE worker[w].job = "review"
  <2>1. worker' = R!Onward(w)
    BY <1>4 DEF R!Fail
  <2>2. Becomes(w, "next", worker[w].job, None)
    BY <2>1, OnwardStep DEF RemindInv
  <2> QED  BY <1>1, <1>2, <1>3, <2>2, InwardStep
<1>5. CASE worker[w].job # "review"
  <2>1. worker' = [worker EXCEPT ![w].pc = "giveBack", ![w].may = FALSE]
    BY <1>5 DEF R!Fail
  <2>2. worker[w].job = "2h" /\ worker[w].at \in Thing
    BY <1>1, <1>5, WorkerFields DEF RemindInv
  <2> DEFINE x == [worker[w] EXCEPT !.pc = "giveBack", !.may = FALSE]
  <2>3. /\ x \in R!WorkerState
        /\ x.pc = "giveBack" /\ x.job = "2h" /\ x.at = worker[w].at /\ x.may = FALSE
    BY <2>2, WorkerFields DEF RemindInv, R!WorkerState, R!Job
  <2>4. worker' = [worker EXCEPT ![w] = x]
    BY <2>1, WorkerFields DEF RemindInv
  <2> HIDE DEF x
  <2>5. Becomes(w, "giveBack", "2h", worker[w].at)
    BY <2>3, <2>4, WorkerFields DEF Becomes, RemindInv
  <2> QED  BY <1>1, <1>2, <2>2, <2>5, InwardStep
<1> QED  BY <1>4, <1>5

LEMMA Refuses ==
  ASSUME RemindInv, W!Assumptions, R!Assumptions, NEW w \in Actor, R!Refused(w)
  PROVE  RemindInv'
<1>1. /\ worker[w].pc = "send" /\ mishaps' = mishaps + 1
      /\ worker' = [worker EXCEPT ![w].pc = "store", ![w].may = FALSE]
      /\ UNCHANGED <<now, bookings, customers, sent, resets, reviews, late, unread, together>>
  BY DEF R!Refused
<1>2. together' \in BOOLEAN /\ mishaps' # mishaps
  BY <1>1 DEF RemindInv, Tallies
<1>3. ~together /\ worker[w].job = "review" => \A v \in Actor \ {w} : ~Asking(v)
  BY <1>1 DEF RemindInv, AsksAlone, Asking
<1>4. worker[w].at \in Thing
  BY <1>1, WorkerFields DEF RemindInv
<1> DEFINE x == [worker[w] EXCEPT !.pc = "store", !.may = FALSE]
<1>5. /\ x \in R!WorkerState
      /\ x.pc = "store" /\ x.job = worker[w].job /\ x.at = worker[w].at
  BY <1>4, WorkerFields DEF RemindInv, R!WorkerState, R!Job
<1>6. worker' = [worker EXCEPT ![w] = x]
  BY <1>1, WorkerFields DEF RemindInv
<1> HIDE DEF x
<1>7. Becomes(w, "store", worker[w].job, worker[w].at)
  BY <1>5, <1>6, WorkerFields DEF Becomes, RemindInv
<1> QED  BY <1>1, <1>2, <1>3, <1>4, <1>7, InwardStep

LEMMA NotGivenBack ==
  ASSUME RemindInv, W!Assumptions, R!Assumptions, NEW w \in Actor, R!NotGivenBack(w)
  PROVE  RemindInv'
<1>1. /\ worker[w].pc = "giveBack" /\ worker' = R!Onward(w)
      /\ UNCHANGED <<now, bookings, customers, sent, resets, reviews, late, unread, mishaps, together>>
  BY DEF R!NotGivenBack, R!history
<1>2. together' \in BOOLEAN /\ worker[w].job = "2h"
  BY <1>1 DEF RemindInv, Tallies
<1>3. Becomes(w, "next", worker[w].job, None)
  BY <1>1, OnwardStep DEF RemindInv
<1> QED  BY <1>1, <1>2, <1>3, InwardStep

LEMMA TypesAfter ==
  ASSUME RemindInv, R!Assumptions, NEW w \in Actor, NEW pc, NEW job, NEW at,
         Becomes(w, pc, job, at),
         pc \in {"consent", "send", "store", "giveBack"} => at \in Thing,
         now' \in Instants, bookings' \in [Thing -> R!BookingDoc],
         customers' \in [{"ann"} -> R!CustomerDoc]
  PROVE  R!TypeOK'
<1>1. \A v \in Actor :
        worker'[v].pc \in {"consent", "send", "store", "giveBack"} => worker'[v].at # None
  BY DEF RemindInv, R!TypeOK, R!Assumptions, Becomes
<1> QED  BY <1>1 DEF R!TypeOK, Becomes

\* The reviews, when none is sent and nobody begins.
LEMMA AskingStill ==
  ASSUME RemindInv, NEW w \in Actor, NEW pc, NEW job, NEW at, Becomes(w, pc, job, at),
         worker[w].pc # "idle", job = worker[w].job,
         UNCHANGED <<reviews, mishaps, together>>,
         customers'["ann"].lastAsked = customers["ann"].lastAsked,
         Asking(w) => worker[w].pc # "store",
         ~together /\ mishaps = 0 /\ Asking(w) /\ pc = "send" => reviews["ann"] = 0
  PROVE  AsksAlone' /\ AsksOnce'
<1>1. \A v \in Actor \ {w} : worker'[v] = worker[v]
  BY DEF Becomes
<1>2. \A v \in Actor : Asking(v)' => Asking(v)
  BY DEF Becomes, Asking
<1>3. AsksAlone'
  BY <1>2 DEF RemindInv, AsksAlone
<1>4. AsksOnce'
  <2> SUFFICES ASSUME ~together, mishaps = 0 PROVE AsksOnce'
    BY DEF AsksOnce
  <2>1. \A v \in Actor : Asking(v)' /\ worker'[v].pc = "send" => reviews["ann"] = 0
    BY <1>1, <1>2 DEF RemindInv, AsksOnce, Becomes
  <2>2. \A v \in Actor : Asking(v) /\ worker[v].pc = "store" =>
          Asking(v)' /\ worker'[v].pc = "store"
    BY <1>1 DEF Asking
  <2> QED  BY <2>1, <2>2 DEF RemindInv, AsksOnce
<1> QED  BY <1>3, <1>4

LEMMA Claims ==
  ASSUME RemindInv, W!Assumptions, R!Assumptions, NEW w \in Actor, NEW b \in Thing,
         R!Claim(w, b)
  PROVE  RemindInv'
<1>1. /\ worker[w].pc = "next" /\ R!Claimable(b, worker[w].job)
      /\ bookings' = IF worker[w].job = "review" THEN [bookings EXCEPT ![b].asked = TRUE]
                     ELSE [bookings EXCEPT ![b].reminded[worker[w].job] = TRUE]
      /\ worker' = [worker EXCEPT ![w].pc = "consent", ![w].todo = @ \ {b}, ![w].at = b]
      /\ UNCHANGED <<now, customers, sent, resets, reviews, late, unread, mishaps, together>>
  BY DEF R!Claim, R!history
<1>2. worker[w].job \in {"2h", "review"} /\ worker \in [Actor -> R!WorkerState]
  BY WorkerFields DEF RemindInv
<1>3. Becomes(w, "consent", worker[w].job, b)
  <2> DEFINE x == [worker[w] EXCEPT !.pc = "consent", !.todo = @ \ {b}, !.at = b]
  <2>1. x \in R!WorkerState /\ x.pc = "consent" /\ x.job = worker[w].job /\ x.at = b
    BY WorkerFields DEF RemindInv, R!WorkerState, R!Job
  <2>2. worker' = [worker EXCEPT ![w] = x]
    BY <1>1, <1>2
  <2> HIDE DEF x
  <2> QED  BY <1>2, <2>1, <2>2 DEF Becomes
<1>4. /\ bookings \in [Thing -> R!BookingDoc]
      /\ bookings[b] \in R!BookingDoc /\ bookings[b].reminded \in [{"2h"} -> BOOLEAN]
  BY DocFields DEF RemindInv, R!TypeOK
<1>5. /\ bookings' \in [Thing -> R!BookingDoc]
      /\ \A d \in Thing \ {b} : bookings'[d] = bookings[d]
      /\ worker[w].job = "review" => bookings'[b].reminded = bookings[b].reminded
      /\ worker[w].job = "2h" => bookings'[b].reminded["2h"]
  <2>1. CASE worker[w].job = "review"
    <3>1. bookings' = [bookings EXCEPT ![b].asked = TRUE]
      BY <1>1, <2>1
    <3> QED  BY <1>4, <2>1, <3>1 DEF R!BookingDoc
  <2>2. CASE worker[w].job = "2h"
    <3> DEFINE y == [bookings[b].reminded EXCEPT !["2h"] = TRUE]
    <3>1. bookings' = [bookings EXCEPT ![b].reminded = y]
      BY <1>1, <1>4, <2>2
    <3>2. y \in [{"2h"} -> BOOLEAN] /\ y["2h"]
      BY <1>4
    <3> HIDE DEF y
    <3> QED  BY <1>4, <2>2, <3>1, <3>2 DEF R!BookingDoc
  <2> QED  BY <1>2, <2>1, <2>2
<1>6. R!TypeOK'
  <2>1. /\ now' \in Instants /\ customers' \in [{"ann"} -> R!CustomerDoc]
    BY <1>1 DEF RemindInv, R!TypeOK
  <2> QED  BY <1>3, <1>5, <2>1, TypesAfter
<1>7. Tallies'
  BY <1>1 DEF RemindInv, Tallies
<1>8. (\A v \in Actor : worker[v].pc = "giveBack" => worker[v].job = "2h")'
  BY <1>3 DEF RemindInv, Becomes
<1>9. ASSUME NEW d \in Thing PROVE Marked(d)'
  <2>1. CASE d = b /\ worker[w].job = "2h"
    <3>1. Texting(b)' = Texting(b) \cup {w} /\ w \notin Texting(b) /\ Texting(b) \subseteq Actor
      BY <1>1, <1>3, <2>1 DEF Texting, Becomes
    <3>2. /\ R!Cardinality(Texting(b)) \in Nat
          /\ R!Cardinality(Texting(b)') = R!Cardinality(Texting(b)) + 1
      BY <3>1, OneIn
    <3>3. ~bookings[b].reminded["2h"] /\ bookings'[b].reminded["2h"]
      BY <1>1, <1>5, <2>1 DEF R!Claimable
    <3>4. Marked(b) /\ sent[b]["2h"] \in Nat /\ resets[b]["2h"] \in Nat
      BY TallyFields DEF RemindInv
    <3> QED  BY <1>1, <2>1, <3>2, <3>3, <3>4 DEF Marked, Reminded
  <2>2. CASE ~(d = b /\ worker[w].job = "2h")
    <3>1. Texting(d)' \subseteq Texting(d)
      BY <1>3, <2>2 DEF Texting, Becomes
    <3>2. bookings[d].reminded["2h"] => bookings'[d].reminded["2h"]
      BY <1>2, <1>5, <2>2
    <3> QED  BY <1>1, <3>1, <3>2, MarkedStill
  <2> QED  BY <2>1, <2>2
<1>10. Heeded'
  <2>1. Speaking' \subseteq Speaking
    BY <1>3 DEF Speaking, Becomes
  <2> QED  BY <1>1, <2>1, HeededStill
<1>11. AsksAlone' /\ AsksOnce'
  BY <1>1, <1>3, AskingStill
<1> QED  BY <1>6, <1>7, <1>8, <1>9, <1>10, <1>11 DEF RemindInv

LEMMA ReadsConsent ==
  ASSUME RemindInv, W!Assumptions, R!Assumptions, NEW w \in Actor, R!ReadConsent(w)
  PROVE  RemindInv'
<1> DEFINE may == customers["ann"].smsOptIn
                  /\ (worker[w].job = "review" => ~R!Recent("ann", worker[w].began))
<1>1. worker[w].at \in Thing /\ worker[w].pc = "consent"
  BY WorkerFields DEF RemindInv, R!ReadConsent
<1>2. /\ worker' = IF worker[w].job = "review" /\ ~may THEN R!Onward(w)
                   ELSE [worker EXCEPT ![w].may = may, ![w].pc = "send"]
      /\ UNCHANGED <<now, bookings, customers, sent, resets, reviews, late, unread, mishaps, together>>
  BY <1>1 DEF R!ReadConsent, R!Willing, R!history
<1>3. together' \in BOOLEAN
  BY <1>2 DEF RemindInv, Tallies
<1>4. CASE worker[w].job = "review" /\ ~may
  <2>1. Becomes(w, "next", worker[w].job, None)
    BY <1>2, <1>4, OnwardStep DEF RemindInv
  <2>2. ~together /\ worker[w].job = "review" => \A v \in Actor \ {w} : ~Asking(v)
    BY <1>1 DEF RemindInv, AsksAlone, Asking
  <2> QED  BY <1>1, <1>2, <1>3, <2>1, <2>2, InwardStep
<1>5. CASE ~(worker[w].job = "review" /\ ~may)
  <2> DEFINE x == [worker[w] EXCEPT !.may = may, !.pc = "send"]
  <2>1. worker[w] \in R!WorkerState /\ may \in BOOLEAN
    BY DocFields DEF RemindInv, R!TypeOK
  <2>2. may => customers["ann"].smsOptIn
    OBVIOUS
  <2>3. ~(worker[w].job = "review" /\ ~may)
    BY <1>5
  <2>4. worker[w].job = "review" /\ may => ~R!Recent("ann", worker[w].began)
    OBVIOUS
  <2>5. worker' = [worker EXCEPT ![w].may = may, ![w].pc = "send"]
    BY <1>2, <1>5
  <2> HIDE DEF may
  <2>6. /\ x \in R!WorkerState
        /\ x.pc = "send" /\ x.job = worker[w].job /\ x.at = worker[w].at
    BY <2>1 DEF R!WorkerState
  <2>7. x.may <=> may
    BY <2>1 DEF R!WorkerState
  <2>8. worker' = [worker EXCEPT ![w] = x]
    BY <2>5, WorkerFields DEF RemindInv
  <2> HIDE DEF x
  <2>9. Becomes(w, "send", worker[w].job, worker[w].at) /\ (worker'[w].may <=> may)
    BY <2>6, <2>7, <2>8, WorkerFields DEF RemindInv, Becomes
  <2>10. R!TypeOK'
    <3>1. /\ now' \in Instants /\ customers' \in [{"ann"} -> R!CustomerDoc]
          /\ bookings' \in [Thing -> R!BookingDoc]
      BY <1>2 DEF RemindInv, R!TypeOK
    <3> QED  BY <1>1, <2>9, <3>1, TypesAfter
  <2>11. Tallies'
    BY <1>2 DEF RemindInv, Tallies
  <2>12. (\A v \in Actor : worker[v].pc = "giveBack" => worker[v].job = "2h")'
    BY <2>9 DEF RemindInv, Becomes
  <2>13. ASSUME NEW d \in Thing PROVE Marked(d)'
    <3>1. Texting(d)' \subseteq Texting(d)
      BY <1>1, <2>9 DEF Texting, Becomes
    <3> QED  BY <1>2, <3>1, MarkedStill
  <2>14. Heeded'
    <3>1. ~customers["ann"].smsOptIn => Speaking' \subseteq Speaking
      BY <2>2, <2>9 DEF Speaking, Becomes
    <3> QED  BY <1>2, <3>1, HeededStill
  <2>15. ~together /\ mishaps = 0 /\ Asking(w) => reviews["ann"] = 0
    <3> SUFFICES ASSUME ~together, mishaps = 0, Asking(w) PROVE reviews["ann"] = 0
      OBVIOUS
    <3>1. ~R!Recent("ann", worker[w].began) /\ worker[w].began \in Instants
      BY <2>3, <2>4, WorkerFields DEF Asking, RemindInv
    <3>2. customers["ann"].lastAsked = None
      BY <3>1, DocFields DEF R!Recent, R!RepeatAfter, Instants, RemindInv
    <3>3. \A v \in Actor : Asking(v) => v = w
      BY DEF RemindInv, AsksAlone
    <3>4. reviews["ann"] # 1
      BY <1>1, <3>2, <3>3 DEF RemindInv, AsksOnce
    <3> QED  BY <3>4, TallyFields DEF RemindInv, AsksOnce
  <2>16. AsksAlone' /\ AsksOnce'
    BY <1>1, <1>2, <2>9, <2>15, AskingStill
  <2> QED  BY <2>10, <2>11, <2>12, <2>13, <2>14, <2>16 DEF RemindInv
<1> QED  BY <1>4, <1>5

LEMMA SendsUnread ==
  ASSUME RemindInv, W!Assumptions, R!Assumptions, NEW w \in Actor, R!ConsentUnread(w)
  PROVE  RemindInv'
<1> DEFINE may == worker[w].job = "review" => ~R!Recent("ann", worker[w].began)
<1>1. worker[w].at \in Thing /\ worker[w].pc = "consent"
  BY WorkerFields DEF RemindInv, R!ConsentUnread
<1>2. /\ worker' = IF may THEN [worker EXCEPT ![w].may = TRUE, ![w].pc = "send"]
                   ELSE R!Onward(w)
      /\ unread' = IF may THEN [unread EXCEPT !["ann"] = @ + 1] ELSE unread
      /\ mishaps' = mishaps + 1
      /\ UNCHANGED <<now, bookings, customers, sent, resets, reviews, late, together>>
  BY <1>1 DEF R!ConsentUnread
<1>3. together' \in BOOLEAN /\ mishaps' # mishaps /\ mishaps' # 0
  BY <1>2 DEF RemindInv, Tallies
<1>4. CASE ~may
  <2>1. worker' = R!Onward(w) /\ unread' = unread /\ worker[w].job = "review"
    BY <1>2, <1>4
  <2>2. Becomes(w, "next", worker[w].job, None)
    BY <2>1, OnwardStep DEF RemindInv
  <2>3. ~together => \A v \in Actor \ {w} : ~Asking(v)
    BY <1>1, <2>1 DEF RemindInv, AsksAlone, Asking
  <2> QED  BY <1>1, <1>2, <1>3, <2>1, <2>2, <2>3, InwardStep
<1>5. CASE may
  <2>1. /\ worker' = [worker EXCEPT ![w].may = TRUE, ![w].pc = "send"]
        /\ unread' = [unread EXCEPT !["ann"] = @ + 1]
    BY <1>2, <1>5
  <2> HIDE DEF may
  <2> DEFINE x == [worker[w] EXCEPT !.may = TRUE, !.pc = "send"]
  <2>2. worker[w] \in R!WorkerState
    BY DEF RemindInv, R!TypeOK
  <2>3. /\ x \in R!WorkerState
        /\ x.pc = "send" /\ x.job = worker[w].job /\ x.at = worker[w].at
    BY <2>2 DEF R!WorkerState
  <2>4. worker' = [worker EXCEPT ![w] = x]
    BY <2>1, WorkerFields DEF RemindInv
  <2> HIDE DEF x
  <2>5. Becomes(w, "send", worker[w].job, worker[w].at)
    BY <2>3, <2>4, WorkerFields DEF RemindInv, Becomes
  <2>6. unread' \in [{"ann"} -> Nat] /\ unread'["ann"] = unread["ann"] + 1
    BY <2>1 DEF RemindInv, Tallies
  <2>7. R!TypeOK'
    <3>1. /\ now' \in Instants /\ customers' \in [{"ann"} -> R!CustomerDoc]
          /\ bookings' \in [Thing -> R!BookingDoc]
      BY <1>2 DEF RemindInv, R!TypeOK
    <3> QED  BY <1>1, <2>5, <3>1, TypesAfter
  <2>8. Tallies'
    BY <1>2, <2>6 DEF RemindInv, Tallies
  <2>9. (\A v \in Actor : worker[v].pc = "giveBack" => worker[v].job = "2h")'
    BY <2>5 DEF RemindInv, Becomes
  <2>10. ASSUME NEW d \in Thing PROVE Marked(d)'
    <3>1. Texting(d)' \subseteq Texting(d)
      BY <1>1, <2>5 DEF Texting, Becomes
    <3> QED  BY <1>2, <3>1, MarkedStill
  <2>11. Heeded'
    <3>1. CASE customers["ann"].smsOptIn
      BY <1>2, <3>1 DEF RemindInv, Heeded
    <3>2. CASE ~customers["ann"].smsOptIn
      <4> DEFINE S == Speaking'
      <4>1. /\ Speaking \subseteq Actor /\ S \subseteq Actor /\ w \notin Speaking
            /\ S \subseteq Speaking \cup {w}
        BY <1>1, <2>5 DEF Speaking, Becomes
      <4>2. /\ R!Cardinality(Speaking) \in Nat
            /\ R!Cardinality(Speaking \cup {w}) = R!Cardinality(Speaking) + 1
        BY <4>1, OneIn
      <4>3. /\ R!Cardinality(S) \in Nat
            /\ R!Cardinality(S) <= R!Cardinality(Speaking \cup {w})
            /\ R!Cardinality(Actor) \in Nat
        BY <4>1, Fewer
      <4>4. Heeded /\ late["ann"] \in Nat /\ unread["ann"] \in Nat
        BY TallyFields DEF RemindInv
      <4> QED  BY <1>2, <2>6, <3>2, <4>2, <4>3, <4>4 DEF Heeded
    <3> QED  BY <3>1, <3>2
  <2>12. \A v \in Actor : Asking(v)' <=> Asking(v)
    BY <1>1, <2>5 DEF Becomes, Asking
  <2>13. AsksAlone'
    BY <1>2, <2>12 DEF RemindInv, AsksAlone
  <2>14. AsksOnce'
    BY <1>3 DEF AsksOnce
  <2> QED  BY <2>7, <2>8, <2>9, <2>10, <2>11, <2>13, <2>14 DEF RemindInv
<1> QED  BY <1>4, <1>5

LEMMA Sends ==
  ASSUME RemindInv, W!Assumptions, R!Assumptions, NEW w \in Actor, R!Send(w)
  PROVE  RemindInv'
<1> DEFINE b == worker[w].at
<1>1. /\ worker[w].pc = "send" /\ b \in Thing /\ worker[w].job \in {"2h", "review"}
      /\ worker[w].may \in BOOLEAN
  BY WorkerFields DEF RemindInv, R!Send
<1>2. /\ worker' = [worker EXCEPT ![w].pc = "store", ![w].may = FALSE]
      /\ sent' = IF worker[w].may /\ worker[w].job # "review"
                 THEN [sent EXCEPT ![b][worker[w].job] = @ + 1] ELSE sent
      /\ reviews' = IF worker[w].job = "review" THEN [reviews EXCEPT !["ann"] = @ + 1]
                    ELSE reviews
      /\ late' = IF worker[w].may /\ ~customers["ann"].smsOptIn
                 THEN [late EXCEPT !["ann"] = @ + 1] ELSE late
      /\ UNCHANGED <<now, bookings, customers, unread, resets, mishaps, together>>
  BY <1>1 DEF R!Send
<1>3. Becomes(w, "store", worker[w].job, b)
  <2> DEFINE x == [worker[w] EXCEPT !.pc = "store", !.may = FALSE]
  <2>1. x \in R!WorkerState /\ x.pc = "store" /\ x.job = worker[w].job /\ x.at = b
    BY WorkerFields DEF RemindInv, R!WorkerState
  <2>2. worker' = [worker EXCEPT ![w] = x]
    BY <1>2, WorkerFields DEF RemindInv
  <2> HIDE DEF x
  <2> QED  BY <2>1, <2>2, WorkerFields DEF RemindInv, Becomes
<1>4. R!TypeOK'
  <2>1. /\ now' \in Instants /\ customers' \in [{"ann"} -> R!CustomerDoc]
        /\ bookings' \in [Thing -> R!BookingDoc]
    BY <1>2 DEF RemindInv, R!TypeOK
  <2> QED  BY <1>1, <1>3, <2>1, TypesAfter
<1>5. Tallies
  BY DEF RemindInv
<1>6. /\ sent' \in [Thing -> [{"2h"} -> Nat]]
      /\ \A d \in Thing : sent'[d]["2h"] =
           IF d = b /\ worker[w].job = "2h" /\ worker[w].may THEN sent[d]["2h"] + 1
           ELSE sent[d]["2h"]
  <2>1. CASE worker[w].job = "2h" /\ worker[w].may
    <3> DEFINE y == [sent[b] EXCEPT !["2h"] = @ + 1]
    <3>1. y \in [{"2h"} -> Nat] /\ y["2h"] = sent[b]["2h"] + 1
      BY <1>1, <1>5 DEF Tallies
    <3>2. sent' = [sent EXCEPT ![b] = y]
      BY <1>1, <1>2, <1>5, <2>1 DEF Tallies
    <3> HIDE DEF y
    <3> QED  BY <1>1, <1>5, <2>1, <3>1, <3>2 DEF Tallies
  <2>2. CASE ~(worker[w].job = "2h" /\ worker[w].may)
    <3>1. sent' = sent
      BY <1>1, <1>2, <2>2
    <3> QED  BY <1>5, <2>2, <3>1 DEF Tallies
  <2> QED  BY <2>1, <2>2
<1>7. /\ late' \in [{"ann"} -> Nat] /\ reviews' \in [{"ann"} -> Nat]
      /\ late'["ann"] = IF worker[w].may /\ ~customers["ann"].smsOptIn
                        THEN late["ann"] + 1 ELSE late["ann"]
      /\ reviews'["ann"] = IF worker[w].job = "review" THEN reviews["ann"] + 1
                           ELSE reviews["ann"]
  BY <1>2, <1>5 DEF Tallies
<1>8. Tallies'
  BY <1>2, <1>5, <1>6, <1>7 DEF Tallies
<1>9. (\A v \in Actor : worker[v].pc = "giveBack" => worker[v].job = "2h")'
  BY <1>3 DEF RemindInv, Becomes
<1>10. /\ \A d \in Thing : Texting(d)' = Texting(d) \ {w}
       /\ Speaking' = Speaking \ {w}
  BY <1>3, FallsSilent
<1>11. ASSUME NEW d \in Thing PROVE Marked(d)'
  <2>1. CASE d = b /\ worker[w].job = "2h" /\ worker[w].may
    <3>1. w \in Texting(d) /\ Texting(d) \subseteq Actor
      BY <1>1, <2>1 DEF Texting
    <3>2. /\ R!Cardinality(Texting(d)) \in Nat
          /\ R!Cardinality(Texting(d) \ {w}) = R!Cardinality(Texting(d)) - 1
      BY <3>1, OneOut
    <3>3. R!Cardinality(Texting(d)') = R!Cardinality(Texting(d)) - 1
      BY <1>10, <3>2
    <3>4. /\ Marked(d) /\ sent[d]["2h"] \in Nat /\ resets[d]["2h"] \in Nat
          /\ Reminded(d) \in {0, 1} /\ Reminded(d)' = Reminded(d)
      BY <1>2, TallyFields DEF RemindInv, Reminded
    <3> QED  BY <1>2, <1>6, <2>1, <3>2, <3>3, <3>4 DEF Marked
  <2>2. CASE ~(d = b /\ worker[w].job = "2h" /\ worker[w].may)
    BY <1>2, <1>6, <1>10, <2>2, MarkedStill
  <2> QED  BY <2>1, <2>2
<1>12. Heeded'
  <2>1. CASE worker[w].may /\ ~customers["ann"].smsOptIn
    <3>1. w \in Speaking /\ Speaking \subseteq Actor
      BY <1>1, <2>1 DEF Speaking
    <3>2. /\ R!Cardinality(Speaking) \in Nat
          /\ R!Cardinality(Speaking \ {w}) = R!Cardinality(Speaking) - 1
      BY <3>1, OneOut
    <3>3. R!Cardinality(Actor) \in Nat
      BY Fewer
    <3>4. Heeded /\ late["ann"] \in Nat /\ unread["ann"] \in Nat /\ unread' = unread
      BY <1>2, TallyFields DEF RemindInv
    <3> QED  BY <1>2, <1>7, <1>10, <2>1, <3>2, <3>3, <3>4 DEF Heeded
  <2>2. CASE ~(worker[w].may /\ ~customers["ann"].smsOptIn)
    BY <1>2, <1>7, <1>10, <2>2, HeededStill
  <2> QED  BY <2>1, <2>2
<1>13. \A v \in Actor : Asking(v)' <=> Asking(v)
  BY <1>1, <1>3 DEF Becomes, Asking
<1>14. AsksAlone'
  BY <1>2, <1>13 DEF RemindInv, AsksAlone
<1>15. AsksOnce'
  <2> SUFFICES ASSUME ~together, mishaps = 0 PROVE AsksOnce'
    BY <1>2 DEF AsksOnce
  <2>1. \A v \in Actor \ {w} : worker'[v] = worker[v]
    BY <1>3 DEF Becomes
  <2>2. CASE worker[w].job = "review"
    <3>1. Asking(w) /\ reviews["ann"] = 0 /\ reviews'["ann"] = 1
      BY <1>1, <1>7, <2>2 DEF RemindInv, AsksOnce, Asking
    <3>2. \A v \in Actor : Asking(v) => v = w
      BY <3>1 DEF RemindInv, AsksAlone
    <3>3. Asking(w)' /\ worker'[w].pc = "store"
      BY <1>3, <1>13, <3>1 DEF Becomes
    <3> QED  BY <1>13, <3>1, <3>2, <3>3 DEF AsksOnce
  <2>3. CASE worker[w].job # "review"
    <3>1. ~Asking(w) /\ reviews'["ann"] = reviews["ann"]
      BY <1>7, <2>3 DEF Asking
    <3> QED  BY <1>2, <1>13, <2>1, <3>1 DEF RemindInv, AsksOnce
  <2> QED  BY <2>2, <2>3
<1> QED  BY <1>4, <1>8, <1>9, <1>11, <1>12, <1>14, <1>15 DEF RemindInv

LEMMA Stores ==
  ASSUME RemindInv, W!Assumptions, R!Assumptions, NEW w \in Actor, R!Store(w)
  PROVE  RemindInv'
<1> DEFINE b == worker[w].at
<1>1. /\ worker[w].pc = "store" /\ b \in Thing /\ worker[w].job \in {"2h", "review"}
      /\ worker[w].began \in Instants
  BY WorkerFields DEF RemindInv, R!Store
<1>2. /\ worker' = R!Onward(w)
      /\ worker[w].job = "review" =>
           /\ customers' = [customers EXCEPT !["ann"].lastAsked = worker[w].began]
           /\ UNCHANGED bookings
      /\ worker[w].job = "2h" =>
           /\ bookings' = [bookings EXCEPT ![b].reminded["2h"] = TRUE]
           /\ UNCHANGED customers
      /\ UNCHANGED <<now, sent, resets, reviews, late, unread, mishaps, together>>
  BY <1>1 DEF R!Store, R!history
<1>3. Becomes(w, "next", worker[w].job, None)
  BY <1>2, OnwardStep DEF RemindInv
<1>4. /\ bookings' \in [Thing -> R!BookingDoc]
      /\ \A d \in Thing : bookings[d].reminded["2h"] => bookings'[d].reminded["2h"]
  <2>1. CASE worker[w].job = "review"
    BY <1>2, <2>1 DEF RemindInv, R!TypeOK
  <2>2. CASE worker[w].job = "2h"
    <3> DEFINE y == [bookings[b].reminded EXCEPT !["2h"] = TRUE]
    <3>1. /\ bookings \in [Thing -> R!BookingDoc] /\ bookings[b] \in R!BookingDoc
          /\ bookings[b].reminded \in [{"2h"} -> BOOLEAN]
      BY <1>1, DocFields DEF RemindInv, R!TypeOK
    <3>2. bookings' = [bookings EXCEPT ![b].reminded = y]
      BY <1>2, <2>2, <3>1
    <3>3. y \in [{"2h"} -> BOOLEAN] /\ y["2h"]
      BY <3>1
    <3> HIDE DEF y
    <3> QED  BY <3>1, <3>2, <3>3 DEF R!BookingDoc
  <2> QED  BY <1>1, <2>1, <2>2
<1>5. /\ customers' \in [{"ann"} -> R!CustomerDoc]
      /\ customers'["ann"].smsOptIn = customers["ann"].smsOptIn
      /\ worker[w].job = "review" => customers'["ann"].lastAsked \in Instants
      /\ worker[w].job = "2h" => customers'["ann"] = customers["ann"]
  BY <1>1, <1>2 DEF RemindInv, R!TypeOK, R!CustomerDoc
<1>6. R!TypeOK'
  <2>1. now' \in Instants
    BY <1>2 DEF RemindInv, R!TypeOK
  <2> QED  BY <1>3, <1>4, <1>5, <2>1, TypesAfter
<1>7. Tallies'
  BY <1>2 DEF RemindInv, Tallies
<1>8. (\A v \in Actor : worker[v].pc = "giveBack" => worker[v].job = "2h")'
  BY <1>3 DEF RemindInv, Becomes
<1>9. ASSUME NEW d \in Thing PROVE Marked(d)'
  BY <1>2, <1>3, <1>4, FallsSilent, MarkedStill
<1>10. Heeded'
  BY <1>2, <1>3, <1>5, FallsSilent, HeededStill
<1>11. \A v \in Actor : Asking(v)' <=> Asking(v)
  BY <1>1, <1>3 DEF Becomes, Asking
<1>12. AsksAlone'
  BY <1>2, <1>11 DEF RemindInv, AsksAlone
<1>13. AsksOnce'
  <2>1. \A v \in Actor \ {w} : worker'[v] = worker[v]
    BY <1>3 DEF Becomes
  <2>2. worker'[w].pc = "next"
    BY <1>3 DEF Becomes
  <2>3. CASE worker[w].job = "review"
    <3>1. customers'["ann"].lastAsked # None
      BY <1>5, <2>3 DEF R!Assumptions, Instants
    <3> QED  BY <1>2, <1>11, <2>1, <2>2, <3>1 DEF RemindInv, AsksOnce
  <2>4. CASE worker[w].job = "2h"
    BY <1>2, <1>5, <1>11, <2>1, <2>2, <2>4 DEF RemindInv, AsksOnce, Asking
  <2> QED  BY <1>1, <2>3, <2>4
<1> QED  BY <1>6, <1>7, <1>8, <1>9, <1>10, <1>12, <1>13 DEF RemindInv

LEMMA GivesBack ==
  ASSUME RemindInv, W!Assumptions, R!Assumptions, NEW w \in Actor, R!GiveBack(w)
  PROVE  RemindInv'
<1> DEFINE b == worker[w].at
<1>1. worker[w].pc = "giveBack" /\ b \in Thing /\ worker[w].job = "2h"
  BY WorkerFields DEF RemindInv, R!GiveBack
<1>2. /\ worker' = R!Onward(w)
      /\ bookings' = [bookings EXCEPT ![b].reminded["2h"] = FALSE]
      /\ resets' = [resets EXCEPT ![b]["2h"] = @ + 1]
      /\ UNCHANGED <<now, customers, sent, reviews, late, unread, mishaps, together>>
  BY <1>1 DEF R!GiveBack
<1>3. Becomes(w, "next", worker[w].job, None)
  BY <1>2, OnwardStep DEF RemindInv
<1>4. /\ bookings' \in [Thing -> R!BookingDoc]
      /\ \A d \in Thing \ {b} : bookings'[d] = bookings[d]
  <2> DEFINE y == [bookings[b].reminded EXCEPT !["2h"] = FALSE]
  <2>1. /\ bookings \in [Thing -> R!BookingDoc] /\ bookings[b] \in R!BookingDoc
        /\ bookings[b].reminded \in [{"2h"} -> BOOLEAN]
    BY <1>1, DocFields DEF RemindInv, R!TypeOK
  <2>2. bookings' = [bookings EXCEPT ![b].reminded = y]
    BY <1>2, <2>1
  <2>3. y \in [{"2h"} -> BOOLEAN]
    BY <2>1
  <2> HIDE DEF y
  <2> QED  BY <1>1, <2>1, <2>2, <2>3 DEF R!BookingDoc
<1>5. /\ resets' \in [Thing -> [{"2h"} -> Nat]]
      /\ resets'[b]["2h"] = resets[b]["2h"] + 1
      /\ \A d \in Thing \ {b} : resets'[d] = resets[d]
  <2> DEFINE y == [resets[b] EXCEPT !["2h"] = @ + 1]
  <2>1. resets \in [Thing -> [{"2h"} -> Nat]] /\ resets[b] \in [{"2h"} -> Nat]
    BY <1>1 DEF RemindInv, Tallies
  <2>2. y \in [{"2h"} -> Nat] /\ y["2h"] = resets[b]["2h"] + 1
    BY <2>1
  <2>3. resets' = [resets EXCEPT ![b] = y]
    BY <1>1, <1>2, <2>1
  <2> HIDE DEF y
  <2> QED  BY <1>1, <2>1, <2>2, <2>3
<1>6. R!TypeOK'
  <2>1. now' \in Instants /\ customers' \in [{"ann"} -> R!CustomerDoc]
    BY <1>2 DEF RemindInv, R!TypeOK
  <2> QED  BY <1>3, <1>4, <2>1, TypesAfter
<1>7. Tallies'
  BY <1>2, <1>5 DEF RemindInv, Tallies
<1>8. (\A v \in Actor : worker[v].pc = "giveBack" => worker[v].job = "2h")'
  BY <1>3 DEF RemindInv, Becomes
<1>9. ASSUME NEW d \in Thing PROVE Marked(d)'
  <2>1. CASE d = b
    <3> DEFINE S == Texting(d)'
    <3>1. Texting(d)' = Texting(d) \ {w} /\ Texting(d) \subseteq Actor
      BY <1>3, FallsSilent DEF Texting
    <3>2. /\ R!Cardinality(S) \in Nat /\ R!Cardinality(Texting(d)) \in Nat
          /\ R!Cardinality(S) <= R!Cardinality(Texting(d))
      BY <3>1, Fewer
    <3>3. /\ Marked(d) /\ sent[d]["2h"] \in Nat /\ resets[d]["2h"] \in Nat
          /\ Reminded(d) \in {0, 1} /\ Reminded(d)' \in {0, 1}
      BY TallyFields DEF RemindInv, Reminded
    <3> QED  BY <1>2, <1>5, <2>1, <3>2, <3>3 DEF Marked
  <2>2. CASE d # b
    BY <1>2, <1>3, <1>4, <1>5, <2>2, FallsSilent, MarkedStill
  <2> QED  BY <2>1, <2>2
<1>10. Heeded'
  BY <1>2, <1>3, FallsSilent, HeededStill
<1>11. AsksAlone' /\ AsksOnce'
  BY <1>1, <1>2, <1>3, AskingStill
<1> QED  BY <1>6, <1>7, <1>8, <1>9, <1>10, <1>11 DEF RemindInv

\* The workers rest while the staff or a customer does something.
LEMMA Outside ==
  ASSUME RemindInv, W!Assumptions, UNCHANGED <<worker, sent, reviews, mishaps, together>>,
         now' \in Instants, bookings' \in [Thing -> R!BookingDoc],
         customers' \in [{"ann"} -> R!CustomerDoc], Tallies',
         customers'["ann"].lastAsked = customers["ann"].lastAsked,
         \A b \in Thing : Marked(b)', Heeded'
  PROVE  RemindInv'
<1>1. R!TypeOK'
  BY DEF RemindInv, R!TypeOK
<1>2. AsksAlone' /\ AsksOnce'
  BY DEF RemindInv, AsksAlone, AsksOnce, Asking
<1> QED  BY <1>1, <1>2 DEF RemindInv

LEMMA TextingStands ==
  ASSUME worker' = worker
  PROVE  (\A b \in Thing : Texting(b)' = Texting(b)) /\ Speaking' = Speaking
BY DEF Texting, Speaking

LEMMA BookingMoves ==
  ASSUME RemindInv, W!Assumptions, NEW b \in Thing, NEW s \in Starts, R!Move(b, s)
  PROVE  RemindInv'
<1> DEFINE none == [l \in {"2h"} |-> FALSE]
           more == [l \in {"2h"} |-> resets[b][l] + 1]
<1>1. /\ bookings' = [bookings EXCEPT ![b].start = s, ![b].reminded = none]
      /\ resets' = [resets EXCEPT ![b] = more]
      /\ UNCHANGED <<now, customers, worker, sent, reviews, late, unread, mishaps, together>>
  BY DEF R!Move, R!Unreminded
<1>2. none \in [{"2h"} -> BOOLEAN] /\ ~none["2h"]
  OBVIOUS
<1>3. more \in [{"2h"} -> Nat] /\ more["2h"] = resets[b]["2h"] + 1
  BY TallyFields DEF RemindInv
<1> HIDE DEF none, more
<1>4. bookings \in [Thing -> R!BookingDoc] /\ bookings[b] \in R!BookingDoc
  BY DEF RemindInv, R!TypeOK
<1>5. /\ bookings' \in [Thing -> R!BookingDoc]
      /\ \A d \in Thing \ {b} : bookings'[d] = bookings[d]
  <2> DEFINE y == [bookings[b] EXCEPT !.start = s, !.reminded = none]
  <2>1. bookings' = [bookings EXCEPT ![b] = y]
    BY <1>1, <1>4
  <2>2. y \in R!BookingDoc
    BY <1>2, <1>4 DEF R!BookingDoc
  <2> HIDE DEF y
  <2> QED  BY <1>4, <2>1, <2>2
<1>6. /\ resets \in [Thing -> [{"2h"} -> Nat]]
      /\ resets' \in [Thing -> [{"2h"} -> Nat]] /\ resets'[b]["2h"] = resets[b]["2h"] + 1
      /\ \A d \in Thing \ {b} : resets'[d] = resets[d]
  BY <1>1, <1>3 DEF RemindInv, Tallies
<1>7. Tallies'
  BY <1>1, <1>6 DEF RemindInv, Tallies
<1>8. (\A d \in Thing : Texting(d)' = Texting(d)) /\ Speaking' = Speaking
  BY <1>1, TextingStands
<1>9. ASSUME NEW d \in Thing PROVE Marked(d)'
  <2>1. CASE d = b
    <3>1. R!Cardinality(Texting(d)) \in Nat
      BY Fewer DEF Texting
    <3>2. /\ Marked(d) /\ sent[d]["2h"] \in Nat /\ resets[d]["2h"] \in Nat
          /\ Reminded(d) \in {0, 1} /\ Reminded(d)' \in {0, 1}
      BY TallyFields DEF RemindInv, Reminded
    <3> QED  BY <1>1, <1>6, <1>8, <2>1, <3>1, <3>2 DEF Marked
  <2>2. CASE d # b
    BY <1>1, <1>5, <1>6, <1>8, <2>2, MarkedStill
  <2> QED  BY <2>1, <2>2
<1>10. Heeded'
  BY <1>1, <1>8, HeededStill
<1>11. now' \in Instants /\ customers' \in [{"ann"} -> R!CustomerDoc]
  BY <1>1 DEF RemindInv, R!TypeOK
<1> QED  BY <1>1, <1>5, <1>7, <1>9, <1>10, <1>11, Outside

\* A booking changes in what no reminder looks at, or the clock goes on.
LEMMA Aside ==
  ASSUME RemindInv, W!Assumptions,
         UNCHANGED <<customers, worker, sent, resets, reviews, late, unread, mishaps, together>>,
         now' \in Instants, bookings' \in [Thing -> R!BookingDoc],
         \A b \in Thing : bookings'[b].reminded = bookings[b].reminded
  PROVE  RemindInv'
<1>1. (\A d \in Thing : Texting(d)' = Texting(d)) /\ Speaking' = Speaking
  BY TextingStands
<1>2. Tallies'
  BY DEF RemindInv, Tallies
<1>3. ASSUME NEW d \in Thing PROVE Marked(d)'
  BY <1>1, MarkedStill
<1>4. Heeded'
  BY <1>1, HeededStill
<1>5. customers' \in [{"ann"} -> R!CustomerDoc]
  BY DEF RemindInv, R!TypeOK
<1> QED  BY <1>2, <1>3, <1>4, <1>5, Outside

LEMMA WordSaid ==
  ASSUME RemindInv, W!Assumptions, NEW v \in BOOLEAN, R!SetSmsOptIn("ann", v)
  PROVE  RemindInv'
<1>1. /\ customers' = [customers EXCEPT !["ann"].smsOptIn = v]
      /\ late' = [late EXCEPT !["ann"] = 0] /\ unread' = [unread EXCEPT !["ann"] = 0]
      /\ UNCHANGED <<now, bookings, worker, sent, resets, reviews, mishaps, together>>
  BY DEF R!SetSmsOptIn
<1>2. /\ customers' \in [{"ann"} -> R!CustomerDoc]
      /\ customers'["ann"].lastAsked = customers["ann"].lastAsked
  BY <1>1 DEF RemindInv, R!TypeOK, R!CustomerDoc
<1>3. /\ late' \in [{"ann"} -> Nat] /\ late'["ann"] = 0
      /\ unread' \in [{"ann"} -> Nat] /\ unread'["ann"] = 0
  BY <1>1 DEF RemindInv, Tallies
<1>4. Tallies'
  BY <1>1, <1>3 DEF RemindInv, Tallies
<1>5. (\A d \in Thing : Texting(d)' = Texting(d)) /\ Speaking' = Speaking
  BY <1>1, TextingStands
<1>6. ASSUME NEW d \in Thing PROVE Marked(d)'
  BY <1>1, <1>5, MarkedStill
<1>7. Heeded'
  <2>1. /\ R!Cardinality(Speaking) \in Nat /\ R!Cardinality(Actor) \in Nat
        /\ R!Cardinality(Speaking) <= R!Cardinality(Actor)
    BY Fewer DEF Speaking
  <2> QED  BY <1>3, <1>5, <2>1 DEF Heeded
<1>8. now' \in Instants /\ bookings' \in [Thing -> R!BookingDoc]
  BY <1>1 DEF RemindInv, R!TypeOK
<1> QED  BY <1>1, <1>2, <1>4, <1>6, <1>7, <1>8, Outside

LEMMA RemindStarts == W!Assumptions /\ R!Assumptions /\ R!Init => RemindInv
<1> SUFFICES ASSUME W!Assumptions, R!Assumptions, R!Init PROVE RemindInv
  OBVIOUS
<1>1. \A w \in Actor : worker[w] = R!Resting
  BY DEF R!Init
<1>2. bookings \in [Thing -> R!BookingDoc]
  <2> DEFINE blank == [l \in {"2h"} |-> FALSE]
             New == {[status |-> "confirmed", start |-> s, noShow |-> FALSE,
                      reminded |-> blank, asked |-> FALSE] : s \in Starts}
  <2>1. blank \in [{"2h"} -> BOOLEAN]
    OBVIOUS
  <2>2. bookings \in [Thing -> New]
    BY DEF R!Init
  <2> HIDE DEF blank
  <2>3. New \subseteq R!BookingDoc
    <3> SUFFICES ASSUME NEW s \in Starts
                 PROVE  [status |-> "confirmed", start |-> s, noShow |-> FALSE,
                         reminded |-> blank, asked |-> FALSE] \in R!BookingDoc
      OBVIOUS
    <3> QED  BY <2>1 DEF R!BookingDoc
  <2> HIDE DEF New
  <2> QED  BY <2>2, <2>3
<1>3. /\ customers \in [{"ann"} -> R!CustomerDoc]
      /\ customers["ann"].smsOptIn /\ customers["ann"].lastAsked = None
  BY DEF R!Init, R!CustomerDoc
<1>4. R!TypeOK
  BY <1>1, <1>2, <1>3, RestingWorker DEF R!Init, R!TypeOK
<1>5. /\ \A b \in Thing : sent[b]["2h"] = 0 /\ resets[b]["2h"] = 0
      /\ reviews["ann"] = 0 /\ late["ann"] = 0 /\ unread["ann"] = 0
  BY DEF R!Init
<1>6. Tallies
  <2>1. sent \in [Thing -> [{"2h"} -> Nat]] /\ resets \in [Thing -> [{"2h"} -> Nat]]
    BY DEF R!Init
  <2>2. /\ reviews \in [{"ann"} -> Nat] /\ late \in [{"ann"} -> Nat]
        /\ unread \in [{"ann"} -> Nat]
    BY DEF R!Init
  <2> QED  BY <2>1, <2>2 DEF R!Init, Tallies
<1>7. ASSUME NEW b \in Thing PROVE Marked(b)
  <2>1. Texting(b) = {}
    BY <1>1, RestingWorker DEF Texting
  <2>2. R!Cardinality(Texting(b)) = 0
    BY <2>1, Wordless
  <2> QED  BY <1>5, <2>2 DEF Marked, Reminded
<1>8. \A w \in Actor : ~Asking(w) /\ worker[w].pc = "idle"
  BY <1>1, RestingWorker DEF Asking
<1> QED  BY <1>3, <1>4, <1>5, <1>6, <1>7, <1>8 DEF RemindInv, Heeded, AsksAlone, AsksOnce

LEMMA RemindMoves ==
  RemindInv /\ W!Assumptions /\ R!Assumptions /\ R!Next => RemindInv'
<1> SUFFICES ASSUME RemindInv, W!Assumptions, R!Assumptions, R!Next PROVE RemindInv'
  OBVIOUS
<1>1. ASSUME NEW w \in Actor, R!Work(w) PROVE RemindInv'
  <2>1. CASE R!Tick(w)
    <3>1. R!Read(w, "2h") /\ worker[w].pc # "store"
      BY <2>1 DEF R!Tick, R!FirstJob
    <3> QED  BY <3>1, Reads
  <2>2. CASE R!NextBatch(w)
    <3>1. R!Read(w, "review") /\ worker[w].pc # "store"
      BY <2>2, WorkerFields DEF R!NextBatch, R!JobAfter, RemindInv
    <3> QED  BY <3>1, Reads
  <2>3. CASE R!EndTick(w)
    BY <2>3, Rests DEF R!EndTick, R!history
  <2>4. CASE R!ReadConsent(w)
    BY <2>4, ReadsConsent
  <2>5. CASE R!Send(w)
    BY <2>5, Sends
  <2>6. CASE R!Store(w)
    BY <2>6, Stores
  <2>7. CASE R!Fail(w)
    BY <2>7, Fails
  <2>8. CASE R!GiveBack(w)
    BY <2>8, GivesBack
  <2>11. CASE R!ConsentUnread(w)
    BY <2>11, SendsUnread
  <2>12. CASE R!Refused(w)
    BY <2>12, Refuses
  <2>13. CASE R!NotGivenBack(w)
    BY <2>13, NotGivenBack
  <2>9. CASE R!Restart(w)
    BY <2>9, Rests DEF R!Restart
  <2>10. ASSUME NEW b \in Thing, R!Pass(w, b) \/ R!Claim(w, b) PROVE RemindInv'
    BY <2>10, Passes, Claims
  <2> QED  BY <1>1, <2>1, <2>2, <2>3, <2>4, <2>5, <2>6, <2>7, <2>8, <2>9, <2>10,
           <2>11, <2>12, <2>13 DEF R!Work
<1>2. ASSUME NEW b \in Thing, NEW s \in Starts, R!Move(b, s) PROVE RemindInv'
  BY <1>2, BookingMoves
<1>3. ASSUME NEW b \in Thing, NEW flag \in BOOLEAN, R!SetNoShow(b, flag) PROVE RemindInv'
  <2>1. /\ bookings' = [bookings EXCEPT ![b].noShow = flag]
        /\ UNCHANGED <<now, customers, worker, sent, resets, reviews, late, unread, mishaps, together>>
    BY <1>3 DEF R!SetNoShow, R!history
  <2>2. /\ bookings' \in [Thing -> R!BookingDoc] /\ now' \in Instants
        /\ \A d \in Thing : bookings'[d].reminded = bookings[d].reminded
    BY <2>1 DEF RemindInv, R!TypeOK, R!BookingDoc
  <2> QED  BY <2>1, <2>2, Aside
<1>4. ASSUME NEW b \in Thing, R!Cancel(b) PROVE RemindInv'
  <2>1. /\ bookings' = [bookings EXCEPT ![b].status = "cancelled"]
        /\ UNCHANGED <<now, customers, worker, sent, resets, reviews, late, unread, mishaps, together>>
    BY <1>4 DEF R!Cancel, R!history
  <2>2. /\ bookings' \in [Thing -> R!BookingDoc] /\ now' \in Instants
        /\ \A d \in Thing : bookings'[d].reminded = bookings[d].reminded
    BY <2>1 DEF RemindInv, R!TypeOK, R!BookingDoc
  <2> QED  BY <2>1, <2>2, Aside
<1>5. ASSUME NEW v \in BOOLEAN, R!SetSmsOptIn("ann", v) PROVE RemindInv'
  BY <1>5, WordSaid
<1>6. CASE R!TimePasses
  <2>1. /\ now' \in Instants
        /\ UNCHANGED <<bookings, customers, worker, sent, resets, reviews, late, unread, mishaps,
                       together>>
    BY <1>6 DEF R!TimePasses, R!history
  <2>2. bookings' \in [Thing -> R!BookingDoc]
    BY <2>1 DEF RemindInv, R!TypeOK
  <2> QED  BY <2>1, <2>2, Aside
<1> QED  BY <1>1, <1>2, <1>3, <1>4, <1>5, <1>6 DEF R!Next

LEMMA RemindStands == RemindInv /\ UNCHANGED reminding => RemindInv'
<1> SUFFICES ASSUME RemindInv, UNCHANGED reminding PROVE RemindInv'  OBVIOUS
<1>1. /\ (\A d \in Thing : Texting(d)' = Texting(d)) /\ Speaking' = Speaking
      /\ \A w \in Actor : Asking(w)' <=> Asking(w)
  BY TextingStands DEF reminding, Asking
<1>2. (\A b \in Thing : Marked(b)) /\ Heeded /\ AsksAlone /\ AsksOnce
  BY DEF RemindInv
<1>3. \A b \in Thing : Marked(b)'
  BY <1>1, <1>2 DEF Marked, Reminded, reminding
<1>4. Heeded' /\ AsksAlone' /\ AsksOnce'
  BY <1>1, <1>2 DEF Heeded, AsksAlone, AsksOnce, reminding
<1>5. R!TypeOK' /\ Tallies'
  BY DEF RemindInv, R!TypeOK, Tallies, reminding
<1> QED  BY <1>3, <1>4, <1>5 DEF RemindInv, reminding

LEMMA RemindPromises ==
  RemindInv /\ W!Assumptions =>
    R!TypeOK /\ R!RemindedOncePerMark /\ R!OneReviewPerPerson /\ R!StopIsHeard
<1> SUFFICES ASSUME RemindInv, W!Assumptions
             PROVE  /\ R!RemindedOncePerMark /\ R!OneReviewPerPerson /\ R!StopIsHeard
  BY DEF RemindInv
<1>1. ASSUME NEW b \in Thing PROVE sent[b]["2h"] <= 1 + resets[b]["2h"]
  <2>1. R!Cardinality(Texting(b)) \in Nat
    BY Fewer DEF Texting
  <2>2. /\ Marked(b) /\ sent[b]["2h"] \in Nat /\ resets[b]["2h"] \in Nat
        /\ Reminded(b) \in {0, 1}
    BY TallyFields DEF RemindInv, Reminded
  <2> QED  BY <2>1, <2>2 DEF Marked
<1>2. reviews["ann"] > 1 => together \/ mishaps > 0
  BY TallyFields DEF RemindInv, AsksOnce, Tallies
<1>3. late["ann"] <= R!Cardinality(Actor) + unread["ann"]
  <2>1. R!Cardinality(Speaking) \in Nat /\ R!Cardinality(Actor) \in Nat
    BY Fewer DEF Speaking
  <2>2. late["ann"] \in Nat /\ unread["ann"] \in Nat /\ Heeded
    BY TallyFields DEF RemindInv
  <2> QED  BY <2>1, <2>2 DEF Heeded
<1> QED  BY <1>1, <1>2, <1>3 DEF R!RemindedOncePerMark, R!OneReviewPerPerson, R!StopIsHeard

-----------------------------------------------------------------------------
(* The agent during a call.                                                *)

Ours(b) == diary[b] # None /\ diary[b].ours

\* A booking that is there, of the kind of the call.
OfKind(b) == diary[b] # None /\ diary[b].test = call.test

CallDoc ==
  [state : {"none", "open", "over"}, test : BOOLEAN, business : G!Settings,
   instruction : SUBSET {"closed", "departments", "cutoff"}, known : SUBSET BookingId]

ToolState ==
  [pc : {"idle", "tool", "book", "change", "reply"}, todo : Seq(G!Request), who : G!Who,
   answers : SUBSET G!Answer]

Shapes ==
  /\ clock \in 0..MaxTime /\ shop \in G!Settings
  /\ diary \in [BookingId -> G!BookingDoc \cup {None}]
  /\ call \in CallDoc /\ tools \in [Actor -> ToolState]
  /\ logged \in BookingId \cup {None} /\ unlogged \subseteq BookingId
  /\ lost \in BOOLEAN /\ asked \in 0..MaxMessages

\* An answer the model may be given.
AnswerIsSo(a) ==
  /\ \A b \in a.ids : OfKind(b)
  /\ a.ok /\ a.tool = "create_booking" => \E b \in a.ids : Ours(b) /\ diary[b].who = a.named
  /\ a.ok /\ a.tool = "transfer_to_human" /\ "departments" \in call.instruction =>
       a.by = "department"

\* A change is asked for of a booking the model was given.
MayBeAsked(r) ==
  r.tool \in {"reschedule_booking", "cancel_booking"} => r.id \in BookingId /\ OfKind(r.id)

MessageIsSo(h) ==
  /\ \A a \in tools[h].answers : AnswerIsSo(a)
  /\ \A i \in 1..Len(tools[h].todo) : MayBeAsked(tools[h].todo[i])
  /\ tools[h].pc \in {"tool", "book", "change"} => tools[h].todo # <<>>
  /\ tools[h].pc = "book" => tools[h].who = Head(tools[h].todo).named
  /\ call.state = "none" => tools[h].pc = "idle"
  /\ tools[h].pc = "idle" => tools[h].answers = {} /\ tools[h].todo = <<>>

BookingIsSo(b) ==
  /\ Ours(b) =>
       /\ diary[b].who = diary[b].named /\ diary[b].test = call.test /\ call.state # "none"
       /\ diary[b].confirmed => diary[b].key # None
  /\ diary[b] # None /\ diary[b].key # None => Ours(b) /\ diary[b].key.who = diary[b].who

OnePerKey ==
  \A b, c \in BookingId :
    G!Confirmed(b) /\ G!Confirmed(c) /\ diary[b].key # None /\ diary[b].key = diary[c].key => b = c

LogIsSo ==
  /\ \A b \in unlogged : Ours(b)
  /\ logged # None => Ours(logged)
  /\ (\E b \in BookingId : Ours(b)) => unlogged # {} \/ logged # None

CallIsSo ==
  /\ \A b \in call.known : OfKind(b)
  /\ call.state = "none" => call.known = {} /\ "departments" \notin call.instruction
  /\ call.state # "none" => ("departments" \in call.instruction <=> call.business.departments)

AgentInv ==
  /\ Shapes
  /\ \A h \in Actor : MessageIsSo(h)
  /\ \A b \in BookingId : BookingIsSo(b)
  /\ OnePerKey /\ LogIsSo /\ CallIsSo

LEMMA AgentPromises ==
  AgentInv =>
    /\ G!TypeOK /\ G!OneBookingPerWish /\ G!KindsApart /\ G!ToldWhatIsSo
    /\ G!DepartmentsAreFound
<1> SUFFICES ASSUME AgentInv
             PROVE  /\ G!TypeOK /\ G!OneBookingPerWish /\ G!KindsApart /\ G!ToldWhatIsSo
                    /\ G!DepartmentsAreFound
  OBVIOUS
<1>1. Shapes
  BY DEF AgentInv
<1>2. G!TypeOK
  <2>1. \A h \in Actor :
          /\ tools[h].pc \in {"idle", "tool", "book", "change", "reply"}
          /\ tools[h].who \in G!Who /\ tools[h].answers \subseteq G!Answer
    BY <1>1 DEF Shapes, ToolState
  <2>2. call.state \in {"none", "open", "over"} /\ call.business \in G!Settings
    BY <1>1 DEF Shapes, CallDoc
  <2> QED  BY <1>1, <2>1, <2>2 DEF G!TypeOK, Shapes
<1>3. ASSUME NEW a \in G!ToBeTold
      PROVE  AnswerIsSo(a) /\ a \in G!Answer
  BY <1>1 DEF G!ToBeTold, AgentInv, MessageIsSo, Shapes, ToolState
<1>4. G!OneBookingPerWish
  <2>1. ASSUME NEW b \in BookingId, Ours(b) PROVE diary[b].who = diary[b].named
    BY <2>1 DEF AgentInv, BookingIsSo
  <2>2. ASSUME NEW b \in BookingId, NEW c \in BookingId, G!Confirmed(b), G!Confirmed(c),
               diary[b].ours, diary[c].ours, diary[b].key = diary[c].key
        PROVE  b = c
    <3>1. diary[b].key # None
      BY <2>2 DEF AgentInv, BookingIsSo, Ours, G!Confirmed
    <3> QED  BY <2>2, <3>1 DEF AgentInv, OnePerKey
  <2> QED  BY <2>1, <2>2 DEF G!OneBookingPerWish, Ours
<1>5. G!KindsApart
  BY <1>3 DEF G!KindsApart, AnswerIsSo, OfKind
<1>6. G!ToldWhatIsSo
  <2>1. ASSUME NEW a \in G!ToBeTold, a.ok, a.tool = "create_booking"
        PROVE  \E b \in a.ids : diary[b] # None /\ diary[b].ours /\ diary[b].who = a.named
    BY <1>3, <2>1 DEF AnswerIsSo, Ours
  <2>2. ASSUME unlogged = {}, \E b \in BookingId : diary[b] # None /\ diary[b].ours
        PROVE  logged # None /\ diary[logged].ours
    BY <2>2 DEF AgentInv, LogIsSo, Ours
  <2> QED  BY <2>1, <2>2 DEF G!ToldWhatIsSo
<1>7. G!DepartmentsAreFound
  BY <1>3 DEF G!DepartmentsAreFound, AnswerIsSo
<1> QED  BY <1>2, <1>4, <1>5, <1>6, <1>7

LEMMA CallFields ==
  ASSUME Shapes
  PROVE  /\ call.state \in {"none", "open", "over"} /\ call.test \in BOOLEAN
         /\ call.business \in G!Settings /\ call.known \in SUBSET BookingId
         /\ call.instruction \in SUBSET {"closed", "departments", "cutoff"}
BY DEF Shapes, CallDoc

LEMMA ToolFields ==
  ASSUME Shapes, NEW h \in Actor
  PROVE  /\ tools \in [Actor -> ToolState] /\ tools[h] \in ToolState
         /\ tools[h].pc \in {"idle", "tool", "book", "change", "reply"}
         /\ tools[h].todo \in Seq(G!Request) /\ tools[h].who \in G!Who
         /\ tools[h].answers \in SUBSET G!Answer
BY DEF Shapes, ToolState

\* The front of a message.
LEMMA Fronts ==
  ASSUME NEW line \in Seq(G!Request), line # <<>>
  PROVE  /\ Head(line) \in G!Request /\ Head(line) = line[1] /\ 1 \in 1..Len(line)
         /\ Tail(line) \in Seq(G!Request)
         /\ \A i \in 1..Len(Tail(line)) :
              Tail(line)[i] = line[i + 1] /\ i + 1 \in 1..Len(line)
         /\ Len(line) # 1 => Tail(line) # <<>>
<1>1. Len(line) \in Nat /\ Len(line) # 0
  OBVIOUS
<1>2. Len(Tail(line)) = Len(line) - 1
  BY <1>1
<1> QED  BY <1>1, <1>2

LEMMA AskedFields ==
  ASSUME AgentInv, NEW h \in Actor, tools[h].pc \in {"tool", "book", "change"}
  PROVE  /\ tools[h].todo # <<>> /\ G!Asked(h) \in G!Request
         /\ G!Asked(h).tool \in G!Tool /\ G!Asked(h).named \in G!Who \cup {"stranger"}
         /\ G!Asked(h).start \in Hour /\ G!Asked(h).id \in BookingId \cup {None}
         /\ MayBeAsked(G!Asked(h))
         /\ tools[h].pc = "book" => tools[h].who = G!Asked(h).named
<1>1. Shapes /\ MessageIsSo(h)
  BY DEF AgentInv
<1>2. tools[h].todo # <<>> /\ tools[h].todo \in Seq(G!Request)
  BY <1>1, ToolFields DEF MessageIsSo
<1>3. /\ G!Asked(h) \in G!Request /\ G!Asked(h) = tools[h].todo[1]
      /\ 1 \in 1..Len(tools[h].todo)
  BY <1>2, Fronts DEF G!Asked
<1>4. MayBeAsked(G!Asked(h))
  BY <1>1, <1>3 DEF MessageIsSo
<1> QED  BY <1>1, <1>2, <1>3, <1>4 DEF G!Request, MessageIsSo, G!Asked

\* No booking goes away or changes its kind, its maker or whom it is with, and the call
\* goes by what it was told.
Grows ==
  /\ diary' \in [BookingId -> G!BookingDoc \cup {None}]
  /\ \A b \in BookingId : diary[b] # None =>
       /\ diary'[b] # None /\ diary'[b].test = diary[b].test
       /\ diary'[b].ours = diary[b].ours /\ diary'[b].who = diary[b].who
  /\ call'.test = call.test /\ call'.instruction = call.instruction

LEMMA GrowsStill ==
  ASSUME Shapes, diary' = diary, call' = call PROVE Grows
BY DEF Shapes, Grows

LEMMA StillSo ==
  ASSUME Shapes, Grows
  PROVE  /\ \A b \in BookingId : (OfKind(b) => OfKind(b)') /\ (Ours(b) => Ours(b)')
         /\ \A a \in G!Answer : AnswerIsSo(a) => AnswerIsSo(a)'
         /\ \A r \in G!Request : MayBeAsked(r) => MayBeAsked(r)'
<1>1. \A b \in BookingId : (OfKind(b) => OfKind(b)') /\ (Ours(b) => Ours(b)')
  BY DEF Grows, OfKind, Ours
<1>2. ASSUME NEW a \in G!Answer, AnswerIsSo(a) PROVE AnswerIsSo(a)'
  <2>1. a.ids \subseteq BookingId
    BY DEF G!Answer
  <2>2. \A b \in a.ids : Ours(b) => Ours(b)' /\ diary'[b].who = diary[b].who
    BY <1>1, <2>1 DEF Grows, Ours
  <2> QED  BY <1>1, <1>2, <2>1, <2>2 DEF AnswerIsSo, Grows
<1>3. ASSUME NEW r \in G!Request, MayBeAsked(r) PROVE MayBeAsked(r)'
  BY <1>1, <1>3 DEF MayBeAsked
<1> QED  BY <1>1, <1>2, <1>3

LEMMA MessageStands ==
  ASSUME AgentInv, Grows, NEW h \in Actor, tools'[h] = tools[h],
         call'.state = "none" => call.state = "none"
  PROVE  MessageIsSo(h)'
<1>1. Shapes /\ MessageIsSo(h)
  BY DEF AgentInv
<1>2. tools[h].answers \subseteq G!Answer /\ tools[h].todo \in Seq(G!Request)
  BY <1>1, ToolFields
<1>3. \A a \in tools[h].answers : AnswerIsSo(a)'
  BY <1>1, <1>2, StillSo DEF MessageIsSo
<1>4. \A i \in 1..Len(tools[h].todo) : MayBeAsked(tools[h].todo[i])'
  <2> TAKE i \in 1..Len(tools[h].todo)
  <2>1. PICK r \in G!Request : r = tools[h].todo[i]
    BY <1>2
  <2>2. MayBeAsked(r)'
    BY <1>1, <2>1, StillSo DEF MessageIsSo
  <2> QED  BY <2>1, <2>2 DEF MayBeAsked
<1>5. \A i \in 1..Len(tools'[h].todo) : MayBeAsked(tools[h].todo[i])'
  BY <1>4
<1> QED  BY <1>1, <1>3, <1>5 DEF MessageIsSo

\* A message goes on to line, with answers.
MessageOf(pc, line, who, news) == [pc |-> pc, todo |-> line, who |-> who, answers |-> news]
Turns(h, pc, line, who, news) ==
  tools' = [tools EXCEPT ![h] = MessageOf(pc, line, who, news)]

LEMMA MessageStep ==
  ASSUME AgentInv, Grows, NEW h \in Actor,
         NEW pc \in {"tool", "book", "change", "reply"}, NEW line \in Seq(G!Request),
         NEW who \in G!Who, NEW news \in SUBSET G!Answer,
         Turns(h, pc, line, who, news),
         \A a \in news : AnswerIsSo(a)',
         \A i \in 1..Len(line) : MayBeAsked(line[i]),
         pc # "reply" => line # <<>>, pc = "book" => who = Head(line).named,
         call.state # "none", call'.state # "none"
  PROVE  tools' \in [Actor -> ToolState] /\ \A g \in Actor : MessageIsSo(g)'
<1> DEFINE new == MessageOf(pc, line, who, news)
<1>1. /\ new \in ToolState /\ new.pc = pc /\ new.todo = line /\ new.who = who
      /\ new.answers = news
  BY DEF MessageOf, ToolState
<1>2. tools' = [tools EXCEPT ![h] = new]
  BY DEF Turns
<1> HIDE DEF new
<1>3. Shapes
  BY DEF AgentInv
<1>4. /\ tools' \in [Actor -> ToolState] /\ tools'[h] = new
      /\ \A g \in Actor \ {h} : tools'[g] = tools[g]
  BY <1>1, <1>2, <1>3, ToolFields
<1>5. \A i \in 1..Len(line) : MayBeAsked(line[i])'
  <2> TAKE i \in 1..Len(line)
  <2>1. PICK r \in G!Request : r = line[i]
    OBVIOUS
  <2>2. MayBeAsked(r)'
    BY <1>3, <2>1, StillSo
  <2> QED  BY <2>1, <2>2
<1>6. \A i \in 1..Len(tools'[h].todo) : MayBeAsked(tools[h].todo[i])'
  BY <1>1, <1>4, <1>5 DEF MayBeAsked
<1>7. MessageIsSo(h)'
  BY <1>1, <1>4, <1>6 DEF MessageIsSo
<1>8. \A g \in Actor \ {h} : MessageIsSo(g)'
  BY <1>4, MessageStands
<1> QED  BY <1>4, <1>7, <1>8

\* The documents stay as they are.
LEMMA NothingElse ==
  ASSUME AgentInv, G!Nothing, tools' \in [Actor -> ToolState],
         \A h \in Actor : MessageIsSo(h)'
  PROVE  AgentInv'
<1>1. UNCHANGED <<clock, shop, diary, call, logged, unlogged, lost, asked>>
  BY DEF G!Nothing
<1>2. Shapes'
  BY <1>1 DEF AgentInv, Shapes
<1>3. \A b \in BookingId : (Ours(b)' <=> Ours(b)) /\ (OfKind(b)' <=> OfKind(b))
  BY <1>1 DEF Ours, OfKind
<1>4. \A b \in BookingId : BookingIsSo(b)'
  BY <1>1, <1>3 DEF AgentInv, BookingIsSo
<1>5. OnePerKey' /\ LogIsSo' /\ CallIsSo'
  <2>1. OnePerKey'
    BY <1>1 DEF AgentInv, OnePerKey, G!Confirmed
  <2>2. LogIsSo'
    BY <1>1 DEF AgentInv, LogIsSo, Ours
  <2>3. CallIsSo'
    BY <1>1 DEF AgentInv, CallIsSo, OfKind
  <2> QED  BY <2>1, <2>2, <2>3
<1> QED  BY <1>2, <1>4, <1>5 DEF AgentInv

\* A tool is answered with a.
After(h, a) ==
  [tools EXCEPT ![h] =
     MessageOf(IF Len(tools[h].todo) = 1 THEN "reply" ELSE "tool", Tail(tools[h].todo), None,
               tools[h].answers \cup {a})]

LEMMA AnswerStep ==
  ASSUME AgentInv, Grows, NEW h \in Actor, tools[h].pc \in {"tool", "book", "change"},
         NEW a \in G!Answer, AnswerIsSo(a)', tools' = After(h, a), call' = call
  PROVE  tools' \in [Actor -> ToolState] /\ \A g \in Actor : MessageIsSo(g)'
<1>0. PICK pc, line, news :
        /\ pc = IF Len(tools[h].todo) = 1 THEN "reply" ELSE "tool"
        /\ line = Tail(tools[h].todo) /\ news = tools[h].answers \cup {a}
  OBVIOUS
<1>1. Shapes /\ MessageIsSo(h)
  BY DEF AgentInv
<1>2. tools[h].todo # <<>> /\ tools[h].todo \in Seq(G!Request)
  BY <1>1, ToolFields, AskedFields
<1>3. /\ line \in Seq(G!Request) /\ (pc = "tool" => line # <<>>)
      /\ pc \in {"tool", "book", "change", "reply"} /\ pc # "book"
      /\ (pc # "reply" => line # <<>>)
      /\ \A i \in 1..Len(line) :
           line[i] = tools[h].todo[i + 1] /\ i + 1 \in 1..Len(tools[h].todo)
  BY <1>0, <1>2, Fronts
<1>4. \A i \in 1..Len(line) : MayBeAsked(line[i])
  BY <1>1, <1>3 DEF MessageIsSo
<1>5. news \in SUBSET G!Answer
  BY <1>0, <1>1, ToolFields
<1>6. \A x \in news : AnswerIsSo(x)'
  <2>1. \A x \in tools[h].answers : AnswerIsSo(x)'
    BY <1>1, StillSo, ToolFields DEF MessageIsSo
  <2> QED  BY <1>0, <2>1
<1>7. call.state # "none" /\ call'.state # "none"
  BY <1>1 DEF MessageIsSo
<1>8. None \in G!Who
  BY DEF G!Who
<1>9. Turns(h, pc, line, None, news)
  BY <1>0 DEF After, Turns
<1> QED  BY <1>3, <1>4, <1>5, <1>6, <1>7, <1>8, <1>9, MessageStep

\* The answer with which a tool is refused.
Refusal(h) ==
  [tool |-> G!Asked(h).tool, named |-> G!Asked(h).named, ok |-> FALSE, ids |-> {},
   by |-> "nobody"]

LEMMA RefusalStep ==
  ASSUME AgentInv, Grows, NEW h \in Actor, tools[h].pc \in {"tool", "book", "change"},
         G!Refused(h), call' = call
  PROVE  tools' \in [Actor -> ToolState] /\ \A g \in Actor : MessageIsSo(g)'
<1>1. PICK a : a = Refusal(h)
  OBVIOUS
<1>2. /\ a \in G!Answer /\ a.ok = FALSE /\ a.ids = {}
  BY <1>1, AskedFields DEF G!Answer, Refusal
<1>3. AnswerIsSo(a)'
  BY <1>2 DEF AnswerIsSo
<1>4. tools' = After(h, a)
  BY <1>1 DEF G!Refused, G!Answers, After, Refusal, MessageOf
<1> QED  BY <1>2, <1>3, <1>4, AnswerStep

LEMMA FirstHour == G!Assumptions => G!Soonest \in Hour
BY DEF G!Assumptions, G!Soonest

LEMMA IdleTools == /\ G!Quiet = MessageOf("idle", <<>>, None, {}) /\ G!Quiet \in ToolState
                   /\ G!Quiet.pc = "idle" /\ G!Quiet.todo = <<>> /\ G!Quiet.answers = {}
<1>1. G!Quiet = [pc |-> "idle", todo |-> <<>>, who |-> None, answers |-> {}]
  BY DEF G!Quiet
<1>2. <<>> \in Seq(G!Request) /\ None \in G!Who
  BY DEF G!Who
<1> QED  BY <1>1, <1>2 DEF ToolState, MessageOf

\* Requests the model makes.
LEMMA RequestsAsked ==
  ASSUME AgentInv, G!Assumptions, NEW line \in G!Messages
  PROVE  /\ line \in Seq(G!Request) /\ line # <<>>
         /\ \A i \in 1..Len(line) : MayBeAsked(line[i])
<1> DEFINE Good(r) == r \in G!Request /\ MayBeAsked(r)
<1>1. \A tool \in G!Tool, named \in G!Who \cup {"stranger"}, start \in Hour,
        id \in BookingId \cup {None} :
          /\ G!Ask(tool, named, start, id) \in G!Request
          /\ G!Ask(tool, named, start, id).tool = tool
          /\ G!Ask(tool, named, start, id).id = id
  BY DEF G!Ask, G!Request
<1>2. /\ G!Soonest \in Hour /\ None \in BookingId \cup {None}
      /\ None \in G!Who \cup {"stranger"} /\ "stranger" \in G!Who \cup {"stranger"}
  BY FirstHour DEF G!Who
<1>a. \A tool \in G!Tool \ {"reschedule_booking", "cancel_booking"},
        named \in G!Who \cup {"stranger"}, start \in Hour :
          Good(G!Ask(tool, named, start, None))
  BY <1>1, <1>2 DEF MayBeAsked
<1>b. /\ {"create_booking", "check_availability", "transfer_to_human", "no such tool",
          "find_upcoming_bookings"} \subseteq G!Tool \ {"reschedule_booking", "cancel_booking"}
      /\ {"reschedule_booking", "cancel_booking"} \subseteq G!Tool
  BY DEF G!Tool
<1>3. ASSUME NEW n \in G!Who \cup {"stranger"}, NEW t \in Hour
      PROVE  Good(G!Ask("create_booking", n, t, None))
  BY <1>a, <1>b
<1>4. \A r \in G!Booked : Good(r)
  BY <1>2, <1>3 DEF G!Booked
<1>5. ASSUME NEW b \in call.known, NEW t \in Hour
      PROVE  /\ Good(G!Ask("reschedule_booking", None, t, b))
             /\ Good(G!Ask("cancel_booking", None, t, b))
  <2>1. OfKind(b) /\ b \in BookingId
    BY CallFields DEF AgentInv, CallIsSo
  <2>2. \A tool \in {"reschedule_booking", "cancel_booking"} :
          Good(G!Ask(tool, None, t, b))
    <3> TAKE tool \in {"reschedule_booking", "cancel_booking"}
    <3>1. tool \in G!Tool /\ b \in BookingId \cup {None}
      BY <1>b, <2>1
    <3>2. /\ G!Ask(tool, None, t, b) \in G!Request
          /\ G!Ask(tool, None, t, b).id = b
      BY <1>1, <1>2, <3>1
    <3> QED  BY <2>1, <3>2 DEF MayBeAsked
  <2> QED  BY <2>2
<1>6. \A r \in G!Changes : Good(r)
  BY <1>2, <1>5 DEF G!Changes
<1>7. \A r \in G!Looks : Good(r)
  <2>1. /\ Good(G!Ask("check_availability", "stranger", G!Soonest, None))
        /\ Good(G!Ask("transfer_to_human", None, G!Soonest, None))
        /\ Good(G!Ask("no such tool", None, G!Soonest, None))
    BY <1>2, <1>a, <1>b
  <2> HIDE DEF Good
  <2> QED  BY <2>1 DEF G!Looks
<1>8. Good(G!Ask("find_upcoming_bookings", None, G!Soonest, None))
  BY <1>2, <1>a, <1>b
<1>9. \A n \in Person : Good(G!Ask("create_booking", n, G!Soonest, None))
  BY <1>2, <1>3 DEF G!Who
<1> HIDE DEF Good
<1>10. \/ \E r : Good(r) /\ line = <<r>>
       \/ \E p, q : Good(p) /\ Good(q) /\ line = <<p, q>>
  BY <1>4, <1>6, <1>7, <1>8, <1>9 DEF G!Messages
<1>11. CASE \E r : Good(r) /\ line = <<r>>
  BY <1>11 DEF Good
<1>12. CASE \E p, q : Good(p) /\ Good(q) /\ line = <<p, q>>
  BY <1>12 DEF Good
<1> QED  BY <1>10, <1>11, <1>12

LEMMA MessageComes ==
  ASSUME AgentInv, G!Assumptions, NEW h \in Actor, NEW line \in G!Messages,
         G!Message(h, line)
  PROVE  AgentInv'
<1>1. /\ call.state = "open" /\ asked < MaxMessages /\ asked' = asked + 1
      /\ tools' = [tools EXCEPT ![h] = [G!Quiet EXCEPT !.pc = "tool", !.todo = line]]
      /\ UNCHANGED <<clock, shop, diary, call, logged, unlogged, lost>>
  BY DEF G!Message
<1>2. Turns(h, "tool", line, None, {})
  <2>1. [G!Quiet EXCEPT !.pc = "tool", !.todo = line] = MessageOf("tool", line, None, {})
    <3>1. [G!Quiet EXCEPT !.pc = "tool", !.todo = line]
            = [[G!Quiet EXCEPT !.pc = "tool"] EXCEPT !.todo = line]
      OBVIOUS
    <3>2. [G!Quiet EXCEPT !.pc = "tool"]
            = [pc |-> "tool", todo |-> <<>>, who |-> None, answers |-> {}]
      BY SMTT(30) DEF G!Quiet
    <3>3. [[pc |-> "tool", todo |-> <<>>, who |-> None, answers |-> {}] EXCEPT !.todo = line]
            = [pc |-> "tool", todo |-> line, who |-> None, answers |-> {}]
      OBVIOUS
    <3>4. MessageOf("tool", line, None, {})
            = [pc |-> "tool", todo |-> line, who |-> None, answers |-> {}]
      BY DEF MessageOf
    <3> QED  BY <3>1, <3>2, <3>3, <3>4
  <2> QED  BY <1>1, <2>1 DEF Turns
<1>3. Shapes
  BY DEF AgentInv
<1>4. Grows
  BY <1>1, <1>3, GrowsStill
<1>5. None \in G!Who /\ {} \in SUBSET G!Answer
  BY DEF G!Who
<1>6. tools' \in [Actor -> ToolState] /\ \A g \in Actor : MessageIsSo(g)'
  BY <1>1, <1>2, <1>4, <1>5, RequestsAsked, MessageStep
<1>7. asked' \in 0..MaxMessages
  BY <1>1, <1>3 DEF Shapes, G!Assumptions
<1>8. Shapes'
  BY <1>1, <1>3, <1>6, <1>7 DEF Shapes
<1>9. \A b \in BookingId : BookingIsSo(b)'
  BY <1>1 DEF AgentInv, BookingIsSo, Ours
<1>10. OnePerKey' /\ LogIsSo'
  BY <1>1 DEF AgentInv, OnePerKey, G!Confirmed, LogIsSo, Ours
<1>11. CallIsSo'
  BY <1>1 DEF AgentInv, CallIsSo, OfKind
<1> QED  BY <1>6, <1>8, <1>9, <1>10, <1>11 DEF AgentInv

LEMMA Shape == AgentInv => Shapes
BY DEF AgentInv

\* A tool that changes no document: it is refused, is answered, or goes on.
LEMMA RefusedOnly ==
  ASSUME AgentInv, NEW h \in Actor, tools[h].pc \in {"tool", "book", "change"},
         G!Refused(h), G!Nothing
  PROVE  AgentInv'
<1>1. call' = call /\ diary' = diary
  BY DEF G!Nothing
<1>2. Grows
  BY <1>1, Shape, GrowsStill
<1> QED  BY <1>1, <1>2, RefusalStep, NothingElse

LEMMA AnsweredOnly ==
  ASSUME AgentInv, NEW h \in Actor, tools[h].pc \in {"tool", "book", "change"},
         NEW a \in G!Answer, AnswerIsSo(a), tools' = After(h, a), G!Nothing
  PROVE  AgentInv'
<1>1. call' = call /\ diary' = diary
  BY DEF G!Nothing
<1>2. Grows
  BY <1>1, Shape, GrowsStill
<1>3. AnswerIsSo(a)'
  BY <1>2, Shape, StillSo
<1> QED  BY <1>1, <1>2, <1>3, AnswerStep, NothingElse

LEMMA GoesOn ==
  ASSUME AgentInv, NEW h \in Actor, tools[h].pc = "tool", NEW pc \in {"book", "change"},
         NEW who \in G!Who, pc = "book" => who = G!Asked(h).named,
         tools' = [tools EXCEPT ![h].pc = pc, ![h].who = who], G!Nothing
  PROVE  AgentInv'
<1>1. call' = call /\ diary' = diary
  BY DEF G!Nothing
<1>2. Grows
  BY <1>1, Shape, GrowsStill
<1>3. PICK line, news : line = tools[h].todo /\ news = tools[h].answers
  OBVIOUS
<1>4. /\ line \in Seq(G!Request) /\ news \in SUBSET G!Answer /\ tools \in [Actor -> ToolState]
      /\ tools[h] \in ToolState
  BY <1>3, Shape, ToolFields
<1>5. Turns(h, pc, line, who, news)
  <2>1. tools' = [tools EXCEPT ![h] = [tools[h] EXCEPT !.pc = pc, !.who = who]]
    BY <1>4
  <2>2. [tools[h] EXCEPT !.pc = pc, !.who = who] = MessageOf(pc, line, who, news)
    <3>1. PICK p, q : tools[h] = [pc |-> p, todo |-> line, who |-> q, answers |-> news]
      BY <1>3, <1>4 DEF ToolState
    <3>2. [tools[h] EXCEPT !.pc = pc, !.who = who]
            = [[tools[h] EXCEPT !.pc = pc] EXCEPT !.who = who]
      OBVIOUS
    <3>3. [tools[h] EXCEPT !.pc = pc]
            = [pc |-> pc, todo |-> line, who |-> q, answers |-> news]
      BY <3>1
    <3>4. [[pc |-> pc, todo |-> line, who |-> q, answers |-> news] EXCEPT !.who = who]
            = [pc |-> pc, todo |-> line, who |-> who, answers |-> news]
      OBVIOUS
    <3> QED  BY <3>2, <3>3, <3>4 DEF MessageOf
  <2> QED  BY <2>1, <2>2 DEF Turns
<1>6. /\ \A a \in news : AnswerIsSo(a)'
      /\ \A i \in 1..Len(line) : MayBeAsked(line[i])
      /\ line # <<>> /\ call.state # "none"
  BY <1>2, <1>3, <1>4, Shape, StillSo DEF AgentInv, MessageIsSo
<1>7. pc = "book" => who = Head(line).named
  BY <1>3 DEF G!Asked
<1>8. call'.state # "none"
  BY <1>1, <1>6
<1>9. tools' \in [Actor -> ToolState] /\ \A g \in Actor : MessageIsSo(g)'
  BY <1>2, <1>4, <1>5, <1>6, <1>7, <1>8, MessageStep
<1> QED  BY <1>9, NothingElse

\* What a tool that only looks is answered with.
LEMMA Looked ==
  ASSUME AgentInv, NEW h \in Actor, tools[h].pc \in {"tool", "book", "change"},
         NEW given \in SUBSET BookingId, NEW by \in {"department", "business", "nobody"},
         G!Answers(h, TRUE, given, by),
         \A b \in given : OfKind(b), G!Asked(h).tool # "create_booking",
         G!Asked(h).tool = "transfer_to_human" /\ "departments" \in call.instruction =>
           by = "department",
         G!Nothing
  PROVE  AgentInv'
<1>1. PICK a : a = [tool |-> G!Asked(h).tool, named |-> G!Asked(h).named, ok |-> TRUE,
                    ids |-> given, by |-> by]
  OBVIOUS
<1>2. a \in G!Answer
  BY <1>1, AskedFields DEF G!Answer
<1>3. AnswerIsSo(a)
  BY <1>1 DEF AnswerIsSo
<1>4. tools' = After(h, a)
  BY <1>1 DEF G!Answers, After, MessageOf
<1> QED  BY <1>2, <1>3, <1>4, AnsweredOnly

LEMMA ChecksAvailability ==
  ASSUME AgentInv, NEW h \in Actor, G!CheckAvailability(h) PROVE AgentInv'
<1>1. tools[h].pc = "tool" /\ G!Asked(h).tool = "check_availability" /\ G!Nothing
  BY DEF G!CheckAvailability, G!Runs
<1>2. CASE G!Answers(h, TRUE, {}, "nobody")
  <2>1. PICK given : given = {}
    OBVIOUS
  <2>2. given \in SUBSET BookingId /\ \A b \in given : OfKind(b)
    BY <2>1
  <2>3. G!Answers(h, TRUE, given, "nobody")
    BY <1>2, <2>1
  <2> QED  BY <1>1, <2>2, <2>3, Looked
<1>3. CASE G!Refused(h)
  BY <1>1, <1>3, RefusedOnly
<1> QED  BY <1>2, <1>3 DEF G!CheckAvailability

LEMMA CreatesBooking ==
  ASSUME AgentInv, NEW h \in Actor, G!CreateBooking(h) PROVE AgentInv'
<1>1. tools[h].pc = "tool" /\ G!Nothing
  BY DEF G!CreateBooking, G!Runs
<1>2. CASE G!Refused(h)
  BY <1>1, <1>2, RefusedOnly
<1>3. ASSUME G!Asked(h).named # "stranger",
             tools' = [tools EXCEPT ![h].pc = "book", ![h].who = G!Asked(h).named]
      PROVE  AgentInv'
  <2>1. PICK who : who = G!Asked(h).named
    OBVIOUS
  <2>2. who \in G!Who
    BY <1>1, <1>3, <2>1, AskedFields
  <2>3. tools' = [tools EXCEPT ![h].pc = "book", ![h].who = who]
    BY <1>3, <2>1
  <2> QED  BY <1>1, <2>1, <2>2, <2>3, GoesOn
<1> QED  BY <1>2, <1>3 DEF G!CreateBooking, G!Resolved

LEMMA FindsBookings ==
  ASSUME AgentInv, NEW h \in Actor, G!FindUpcomingBookings(h) PROVE AgentInv'
<1>1. PICK given : given = G!Upcoming
  OBVIOUS
<1>2. given \in SUBSET BookingId /\ \A b \in given : OfKind(b)
  BY <1>1 DEF G!Upcoming, G!Confirmed, OfKind
<1>3. /\ tools[h].pc = "tool" /\ G!Asked(h).tool = "find_upcoming_bookings" /\ G!Nothing
      /\ G!Answers(h, TRUE, given, "nobody")
  BY <1>1 DEF G!FindUpcomingBookings, G!Runs
<1> QED  BY <1>2, <1>3, Looked

LEMMA ChangeIsAsked ==
  ASSUME AgentInv, NEW h \in Actor, G!Change(h) PROVE AgentInv'
<1>1. tools[h].pc = "tool" /\ G!Nothing
  BY DEF G!Change
<1>2. CASE G!Refused(h)
  BY <1>1, <1>2, RefusedOnly
<1>3. CASE G!Goto(h, "change")
  <2>1. PICK who : who = tools[h].who
    OBVIOUS
  <2>2. who \in G!Who /\ tools \in [Actor -> ToolState] /\ tools[h] \in ToolState
    BY <2>1, Shape, ToolFields
  <2>3. tools' = [tools EXCEPT ![h].pc = "change"]
    BY <1>3 DEF G!Goto
  <2>4. tools' = [tools EXCEPT ![h].pc = "change", ![h].who = who]
    <3>1. [tools[h] EXCEPT !.pc = "change"] = [tools[h] EXCEPT !.pc = "change", !.who = who]
      BY <2>1, <2>2 DEF ToolState
    <3>2. tools' = [tools EXCEPT ![h] = [tools[h] EXCEPT !.pc = "change"]]
      BY <2>2, <2>3
    <3>3. [tools EXCEPT ![h].pc = "change", ![h].who = who]
            = [tools EXCEPT ![h] = [tools[h] EXCEPT !.pc = "change", !.who = who]]
      BY <2>2
    <3> QED  BY <3>1, <3>2, <3>3
  <2> QED  BY <1>1, <2>2, <2>4, GoesOn
<1> QED  BY <1>2, <1>3 DEF G!Change

LEMMA Transfers ==
  ASSUME AgentInv, NEW h \in Actor, G!TransferToHuman(h) PROVE AgentInv'
<1>1. tools[h].pc = "tool" /\ G!Asked(h).tool = "transfer_to_human" /\ G!Nothing
  BY DEF G!TransferToHuman, G!Runs
<1>2. call.state # "none"
  BY <1>1 DEF AgentInv, MessageIsSo
<1>3. "departments" \in call.instruction => call.business.departments
  BY <1>2 DEF AgentInv, CallIsSo
<1>a. PICK given : given = {}
  OBVIOUS
<1>b. given \in SUBSET BookingId /\ \A b \in given : OfKind(b)
  BY <1>a
<1>4. PICK by \in IF call.business.departments /\ "departments" \in call.instruction
                  THEN {"department"} ELSE {"business", "nobody"} :
             G!Answers(h, TRUE, given, by)
  BY <1>a DEF G!TransferToHuman, G!BusinessOfCall
<1>5. /\ by \in {"department", "business", "nobody"}
      /\ "departments" \in call.instruction => by = "department"
  BY <1>3, <1>4
<1> QED  BY <1>1, <1>4, <1>5, <1>b, Looked

LEMMA DocumentsChange ==
  ASSUME AgentInv, Grows, UNCHANGED <<clock, shop, call, logged, asked>>,
         tools' \in [Actor -> ToolState], \A h \in Actor : MessageIsSo(h)',
         unlogged' \in SUBSET BookingId, lost' \in BOOLEAN,
         \A b \in BookingId : BookingIsSo(b)', OnePerKey', LogIsSo'
  PROVE  AgentInv'
<1>1. Shapes'
  BY DEF AgentInv, Shapes, Grows
<1>2. CallIsSo'
  <2>1. \A b \in call.known : b \in BookingId
    BY Shape, CallFields
  <2> QED  BY <2>1, Shape, StillSo DEF AgentInv, CallIsSo
<1> QED  BY <1>1, <1>2 DEF AgentInv

LEMMA BookingFields ==
  ASSUME Shapes, NEW b \in BookingId, diary[b] # None
  PROVE  /\ diary \in [BookingId -> G!BookingDoc \cup {None}]
         /\ diary[b] \in G!BookingDoc /\ diary[b].confirmed \in BOOLEAN
         /\ diary[b].key \in G!Key \cup {None} /\ diary[b].start \in Hour
         /\ diary[b].who \in G!Who /\ diary[b].ours \in BOOLEAN
BY DEF Shapes, G!BookingDoc

\* One booking is moved or cancelled.
LEMMA OneChanges ==
  ASSUME AgentInv, G!Assumptions, NEW b \in BookingId, diary[b] # None,
         NEW d \in G!BookingDoc, diary' = [diary EXCEPT ![b] = d], call' = call,
         UNCHANGED <<unlogged, logged>>,
         d.test = diary[b].test, d.ours = diary[b].ours, d.who = diary[b].who,
         d.named = diary[b].named, d.key = diary[b].key, d.confirmed => diary[b].confirmed
  PROVE  /\ Grows /\ \A c \in BookingId : BookingIsSo(c)'
         /\ OnePerKey' /\ LogIsSo'
<1>1. Shapes /\ diary \in [BookingId -> G!BookingDoc \cup {None}]
  BY Shape DEF Shapes
<1>2. /\ d # None /\ diary'[b] = d
      /\ \A c \in BookingId \ {b} : diary'[c] = diary[c]
  BY <1>1 DEF G!Assumptions
<1>3. Grows
  BY <1>1, <1>2 DEF Grows
<1>4. \A c \in BookingId : (Ours(c)' <=> Ours(c)) /\ (G!Confirmed(c)' => G!Confirmed(c))
                        /\ (diary[c] # None <=> diary'[c] # None)
                        /\ (diary[c] # None => diary'[c].key = diary[c].key)
  BY <1>1, <1>2 DEF Ours, G!Confirmed
<1>5. ASSUME NEW c \in BookingId PROVE BookingIsSo(c)'
  BY <1>2, <1>4 DEF AgentInv, BookingIsSo
<1>6. OnePerKey'
  BY <1>4 DEF AgentInv, OnePerKey, G!Confirmed
<1>7. LogIsSo'
  <2>1. \A c \in unlogged : c \in BookingId
    BY <1>1 DEF Shapes
  <2>2. logged # None => logged \in BookingId
    BY <1>1 DEF Shapes
  <2> QED  BY <1>4, <2>1, <2>2 DEF AgentInv, LogIsSo
<1> QED  BY <1>3, <1>5, <1>6, <1>7

\* The change of a booking is answered.
LEMMA ChangeAnswered ==
  ASSUME AgentInv, Grows, NEW h \in Actor, tools[h].pc = "change", call' = call,
         NEW b \in BookingId, OfKind(b),
         NEW given, given = {b}, G!Answers(h, TRUE, given, "nobody"),
         G!Asked(h).tool \notin {"create_booking", "transfer_to_human"}
  PROVE  tools' \in [Actor -> ToolState] /\ \A g \in Actor : MessageIsSo(g)'
<1>1. PICK a : a = [tool |-> G!Asked(h).tool, named |-> G!Asked(h).named, ok |-> TRUE,
                    ids |-> given, by |-> "nobody"]
  OBVIOUS
<1>2. a \in G!Answer
  BY <1>1, AskedFields DEF G!Answer
<1>3. AnswerIsSo(a)
  BY <1>1 DEF AnswerIsSo
<1>4. AnswerIsSo(a)'
  BY <1>2, <1>3, Shape, StillSo
<1>5. tools' = After(h, a)
  BY <1>1 DEF G!Answers, After, MessageOf
<1> QED  BY <1>2, <1>4, <1>5, AnswerStep

LEMMA Reschedules ==
  ASSUME AgentInv, G!Assumptions, NEW h \in Actor, G!Reschedule(h) PROVE AgentInv'
<1>1. PICK b, t : b = G!Asked(h).id /\ t = G!Asked(h).start
  OBVIOUS
<1>2. /\ tools[h].pc = "change" /\ G!Asked(h).tool = "reschedule_booking"
      /\ UNCHANGED <<clock, shop, call, logged, unlogged, lost, asked>>
  BY DEF G!Reschedule, G!Runs
<1>3. b \in BookingId /\ OfKind(b) /\ diary[b] # None /\ t \in Hour
  BY <1>1, <1>2, AskedFields DEF MayBeAsked, OfKind
<1>4. CASE diary' = [diary EXCEPT ![b].start = t] /\ G!Answers(h, TRUE, {b}, "nobody")
  <2>1. PICK d : d = [diary[b] EXCEPT !.start = t]
    OBVIOUS
  <2>2. /\ d \in G!BookingDoc
        /\ d.test = diary[b].test /\ d.ours = diary[b].ours /\ d.who = diary[b].who
        /\ d.named = diary[b].named /\ d.key = diary[b].key
        /\ d.confirmed = diary[b].confirmed
    BY <1>3, <2>1, Shape, BookingFields DEF G!BookingDoc
  <2>3. diary' = [diary EXCEPT ![b] = d]
    BY <1>3, <1>4, <2>1, Shape, BookingFields
  <2>4. /\ Grows /\ (\A c \in BookingId : BookingIsSo(c)') /\ OnePerKey' /\ LogIsSo'
    BY <1>2, <1>3, <2>2, <2>3, OneChanges
  <2>5. tools' \in [Actor -> ToolState] /\ \A g \in Actor : MessageIsSo(g)'
    BY <1>2, <1>3, <1>4, <2>4, ChangeAnswered
  <2>6. unlogged' \in SUBSET BookingId /\ lost' \in BOOLEAN
    BY <1>2, Shape DEF Shapes
  <2> QED  BY <1>2, <2>4, <2>5, <2>6, DocumentsChange
<1>5. CASE G!Refused(h) /\ UNCHANGED diary
  BY <1>2, <1>5, RefusedOnly DEF G!Nothing
<1> QED  BY <1>1, <1>4, <1>5 DEF G!Reschedule

LEMMA Cancels ==
  ASSUME AgentInv, G!Assumptions, NEW h \in Actor, G!Cancel(h) PROVE AgentInv'
<1>1. PICK b : b = G!Asked(h).id
  OBVIOUS
<1>2. /\ tools[h].pc = "change" /\ G!Asked(h).tool = "cancel_booking"
      /\ UNCHANGED <<clock, shop, call, logged, unlogged, lost, asked>>
  BY DEF G!Cancel, G!Runs
<1>3. b \in BookingId /\ OfKind(b) /\ diary[b] # None
  BY <1>1, <1>2, AskedFields DEF MayBeAsked, OfKind
<1>4. CASE /\ diary' = [diary EXCEPT ![b].confirmed = FALSE]
           /\ G!Answers(h, TRUE, {b}, "nobody")
  <2>1. PICK d : d = [diary[b] EXCEPT !.confirmed = FALSE]
    OBVIOUS
  <2>2. /\ d \in G!BookingDoc
        /\ d.test = diary[b].test /\ d.ours = diary[b].ours /\ d.who = diary[b].who
        /\ d.named = diary[b].named /\ d.key = diary[b].key
        /\ ~d.confirmed
    BY <1>3, <2>1, Shape, BookingFields DEF G!BookingDoc
  <2>3. diary' = [diary EXCEPT ![b] = d]
    BY <1>3, <1>4, <2>1, Shape, BookingFields
  <2>4. /\ Grows /\ (\A c \in BookingId : BookingIsSo(c)') /\ OnePerKey' /\ LogIsSo'
    BY <1>2, <1>3, <2>2, <2>3, OneChanges
  <2>5. tools' \in [Actor -> ToolState] /\ \A g \in Actor : MessageIsSo(g)'
    BY <1>2, <1>3, <1>4, <2>4, ChangeAnswered
  <2>6. unlogged' \in SUBSET BookingId /\ lost' \in BOOLEAN
    BY <1>2, Shape DEF Shapes
  <2> QED  BY <1>2, <2>4, <2>5, <2>6, DocumentsChange
<1>5. CASE G!Refused(h) /\ UNCHANGED diary
  BY <1>2, <1>5, RefusedOnly DEF G!Nothing
<1> QED  BY <1>1, <1>4, <1>5 DEF G!Cancel

\* A booking of the call answers the request it was made for.
LEMMA BookingAnswered ==
  ASSUME AgentInv, Grows, NEW h \in Actor, tools[h].pc = "book", call' = call,
         NEW b \in BookingId, OfKind(b)', Ours(b)', diary'[b].who = G!Asked(h).named,
         NEW given, given = {b}, G!Answers(h, TRUE, given, "nobody"),
         G!Asked(h).tool = "create_booking"
  PROVE  tools' \in [Actor -> ToolState] /\ \A g \in Actor : MessageIsSo(g)'
<1>1. PICK a : a = [tool |-> G!Asked(h).tool, named |-> G!Asked(h).named, ok |-> TRUE,
                    ids |-> given, by |-> "nobody"]
  OBVIOUS
<1>2. a \in G!Answer
  BY <1>1, AskedFields DEF G!Answer
<1>3. AnswerIsSo(a)'
  BY <1>1 DEF AnswerIsSo
<1>4. tools' = After(h, a)
  BY <1>1 DEF G!Answers, After, MessageOf
<1> QED  BY <1>2, <1>3, <1>4, AnswerStep

LEMMA KeyOfRequest ==
  ASSUME AgentInv, G!Assumptions, NEW h \in Actor, tools[h].pc = "book"
  PROVE  /\ G!KeyFor(h) \in G!Key /\ G!KeyFor(h) # None
         /\ G!KeyFor(h).who = tools[h].who /\ tools[h].who = G!Asked(h).named
<1>1. /\ tools[h].who \in G!Who /\ G!Asked(h).start \in Hour
      /\ tools[h].who = G!Asked(h).named
  BY Shape, ToolFields, AskedFields
<1>2. G!KeyFor(h) \in G!Key /\ G!KeyFor(h).who = tools[h].who
  BY <1>1 DEF G!KeyFor, G!Key
<1> QED  BY <1>1, <1>2 DEF G!Assumptions

LEMMA BooksAgain ==
  ASSUME AgentInv, G!Assumptions, NEW h \in Actor, tools[h].pc = "book",
         G!Asked(h).tool = "create_booking", NEW b \in G!Replayed(h),
         G!Answers(h, TRUE, {b}, "nobody"), unlogged' = unlogged \cup {b},
         UNCHANGED <<diary, lost, clock, shop, call, logged, asked>>
  PROVE  AgentInv'
<1>1. b \in BookingId /\ G!Confirmed(b) /\ diary[b].key = G!KeyFor(h)
  BY DEF G!Replayed
<1>2. diary[b] # None /\ Ours(b) /\ diary[b].key.who = diary[b].who /\ OfKind(b)
  BY <1>1, KeyOfRequest DEF AgentInv, BookingIsSo, G!Confirmed, OfKind, Ours
<1>3. diary[b].who = G!Asked(h).named
  BY <1>1, <1>2, KeyOfRequest
<1>4. Grows
  BY Shape, GrowsStill
<1>5. OfKind(b)' /\ Ours(b)' /\ diary'[b].who = G!Asked(h).named
  BY <1>2, <1>3 DEF OfKind, Ours
<1>6. tools' \in [Actor -> ToolState] /\ \A g \in Actor : MessageIsSo(g)'
  BY <1>1, <1>4, <1>5, BookingAnswered
<1>7. \A c \in BookingId : BookingIsSo(c)'
  BY DEF AgentInv, BookingIsSo, Ours
<1>8. OnePerKey'
  BY DEF AgentInv, OnePerKey, G!Confirmed
<1>9. LogIsSo'
  BY <1>5 DEF AgentInv, LogIsSo, Ours
<1>10. unlogged' \in SUBSET BookingId /\ lost' \in BOOLEAN
  BY <1>1, Shape DEF Shapes
<1> QED  BY <1>4, <1>6, <1>7, <1>8, <1>9, <1>10, DocumentsChange

LEMMA BooksNew ==
  ASSUME AgentInv, G!Assumptions, NEW h \in Actor, tools[h].pc = "book",
         G!Asked(h).tool = "create_booking", G!Replayed(h) = {},
         NEW b \in BookingId, diary[b] = None,
         diary' = [x \in BookingId |->
           IF x = b
           THEN [confirmed |-> TRUE, test |-> call.test, who |-> tools[h].who,
                 start |-> G!Asked(h).start, key |-> G!KeyFor(h), ours |-> TRUE,
                 named |-> G!Asked(h).named]
           ELSE IF diary[x] # None /\ ~diary[x].confirmed /\ diary[x].key = G!KeyFor(h)
           THEN [diary[x] EXCEPT !.key = None] ELSE diary[x]],
         G!Answers(h, TRUE, {b}, "nobody"), unlogged' = unlogged \cup {b},
         UNCHANGED <<lost, clock, shop, call, logged, asked>>
  PROVE  AgentInv'
<1>1. PICK key : key = G!KeyFor(h) /\ key \in G!Key /\ key # None
                 /\ key.who = tools[h].who /\ tools[h].who = G!Asked(h).named
  BY KeyOfRequest
<1>2. PICK new : new = [confirmed |-> TRUE, test |-> call.test, who |-> tools[h].who,
                        start |-> G!Asked(h).start, key |-> key, ours |-> TRUE,
                        named |-> G!Asked(h).named]
  OBVIOUS
<1>3. /\ call.test \in BOOLEAN /\ tools[h].who \in G!Who /\ G!Asked(h).start \in Hour
      /\ G!Asked(h).named \in G!Who \cup {"stranger"} /\ key \in G!Key \cup {None}
      /\ TRUE \in BOOLEAN
  BY <1>1, Shape, CallFields, ToolFields, AskedFields
<1>4. /\ new \in G!BookingDoc
      /\ new.confirmed /\ new.ours /\ new.key = key /\ new.test = call.test
      /\ new.who = G!Asked(h).named /\ new.named = new.who
  BY <1>1, <1>2, <1>3 DEF G!BookingDoc
<1>5. new # None
  BY <1>4 DEF G!Assumptions
<1>6. call.state # "none"
  BY DEF AgentInv, MessageIsSo
<1>7. /\ diary'[b] = new
      /\ \A x \in BookingId \ {b} :
           diary'[x] = IF diary[x] # None /\ ~diary[x].confirmed /\ diary[x].key = key
                       THEN [diary[x] EXCEPT !.key = None] ELSE diary[x]
      /\ diary' = [x \in BookingId |-> diary'[x]]
  BY <1>1, <1>2
<1>8. ASSUME NEW x \in BookingId \ {b}
      PROVE  /\ diary'[x] \in G!BookingDoc \cup {None} /\ (diary[x] = None <=> diary'[x] = None)
             /\ diary[x] # None =>
                  /\ diary'[x].test = diary[x].test /\ diary'[x].ours = diary[x].ours
                  /\ diary'[x].who = diary[x].who /\ diary'[x].named = diary[x].named
                  /\ diary'[x].confirmed = diary[x].confirmed
                  /\ \/ diary'[x].key = diary[x].key
                     \/ diary'[x].key = None /\ ~diary[x].confirmed
  <2>1. CASE diary[x] # None /\ ~diary[x].confirmed /\ diary[x].key = key
    <3>1. PICK d : d = [diary[x] EXCEPT !.key = None]
      OBVIOUS
    <3>2. /\ d \in G!BookingDoc
          /\ d.test = diary[x].test /\ d.ours = diary[x].ours
          /\ d.who = diary[x].who /\ d.named = diary[x].named
          /\ d.confirmed = diary[x].confirmed /\ d.key = None
      BY <2>1, <3>1, Shape, BookingFields DEF G!BookingDoc
    <3>3. d # None
      BY <3>2 DEF G!Assumptions
    <3> QED  BY <1>7, <2>1, <3>1, <3>2, <3>3
  <2>2. CASE ~(diary[x] # None /\ ~diary[x].confirmed /\ diary[x].key = key)
    BY <1>7, <2>2, Shape DEF Shapes
  <2> QED  BY <2>1, <2>2
<1>9. Grows
  <2>1. \A x \in BookingId : diary'[x] \in G!BookingDoc \cup {None}
    BY <1>4, <1>7, <1>8
  <2>2. diary' \in [BookingId -> G!BookingDoc \cup {None}]
    BY <1>7, <2>1
  <2> QED  BY <1>8, <2>2 DEF Grows
<1>10. OfKind(b)' /\ Ours(b)' /\ diary'[b].who = G!Asked(h).named
  BY <1>4, <1>5, <1>7 DEF OfKind, Ours
<1>11. tools' \in [Actor -> ToolState] /\ \A g \in Actor : MessageIsSo(g)'
  BY <1>9, <1>10, BookingAnswered
<1>12. ASSUME NEW c \in BookingId PROVE BookingIsSo(c)'
  <2>1. CASE c = b
    BY <1>1, <1>4, <1>5, <1>6, <1>7, <2>1 DEF BookingIsSo, Ours
  <2>2. CASE c # b
    <3>1. BookingIsSo(c)
      BY DEF AgentInv
    <3> QED  BY <1>8, <2>2, <3>1 DEF BookingIsSo, Ours
  <2> QED  BY <2>1, <2>2
<1>13. OnePerKey'
  <2>1. \A x \in BookingId \ {b} : G!Confirmed(x)' =>
          G!Confirmed(x) /\ diary'[x].key = diary[x].key /\ diary[x].key # key
    BY <1>1, <1>8 DEF G!Confirmed, G!Replayed
  <2>2. G!Confirmed(b)' /\ diary'[b].key = key
    BY <1>4, <1>5, <1>7 DEF G!Confirmed
  <2> QED  BY <2>1, <2>2 DEF AgentInv, OnePerKey
<1>14. LogIsSo'
  <2>1. \A c \in unlogged : c \in BookingId /\ Ours(c)
    BY Shape DEF Shapes, AgentInv, LogIsSo
  <2>2. logged # None => logged \in BookingId /\ Ours(logged)
    BY Shape DEF Shapes, AgentInv, LogIsSo
  <2> QED  BY <1>9, <1>10, <2>1, <2>2, Shape, StillSo DEF LogIsSo
<1>15. unlogged' \in SUBSET BookingId /\ lost' \in BOOLEAN
  BY Shape DEF Shapes
<1> QED  BY <1>9, <1>11, <1>12, <1>13, <1>14, <1>15, DocumentsChange

LEMMA Books ==
  ASSUME AgentInv, G!Assumptions, NEW h \in Actor, G!Book(h) PROVE AgentInv'
<1>1. /\ tools[h].pc = "book" /\ G!Asked(h).tool = "create_booking"
      /\ UNCHANGED <<clock, shop, call, logged, asked>>
  BY DEF G!Book, G!Runs
<1>2. ASSUME NEW b \in G!Replayed(h), G!Answers(h, TRUE, {b}, "nobody"),
             UNCHANGED <<diary, lost>>, unlogged' = unlogged \cup {b}
      PROVE  AgentInv'
  BY <1>1, <1>2, BooksAgain
<1>3. ASSUME G!Replayed(h) = {}, \E x \in BookingId : diary[x] = None,
             LET b == CHOOSE x \in BookingId : diary[x] = None
             IN /\ diary' = [x \in BookingId |->
                     IF x = b
                     THEN [confirmed |-> TRUE, test |-> call.test, who |-> tools[h].who,
                           start |-> G!Asked(h).start, key |-> G!KeyFor(h), ours |-> TRUE,
                           named |-> G!Asked(h).named]
                     ELSE IF diary[x] # None /\ ~diary[x].confirmed
                               /\ diary[x].key = G!KeyFor(h)
                     THEN [diary[x] EXCEPT !.key = None] ELSE diary[x]]
                /\ G!Answers(h, TRUE, {b}, "nobody")
                /\ unlogged' = unlogged \cup {b},
             UNCHANGED lost
      PROVE  AgentInv'
  <2>1. PICK b : b = CHOOSE x \in BookingId : diary[x] = None
    OBVIOUS
  <2>2. b \in BookingId /\ diary[b] = None
    BY <1>3, <2>1
  <2>3. /\ diary' = [x \in BookingId |->
             IF x = b
             THEN [confirmed |-> TRUE, test |-> call.test, who |-> tools[h].who,
                   start |-> G!Asked(h).start, key |-> G!KeyFor(h), ours |-> TRUE,
                   named |-> G!Asked(h).named]
             ELSE IF diary[x] # None /\ ~diary[x].confirmed /\ diary[x].key = G!KeyFor(h)
             THEN [diary[x] EXCEPT !.key = None] ELSE diary[x]]
        /\ G!Answers(h, TRUE, {b}, "nobody") /\ unlogged' = unlogged \cup {b}
    BY <1>3, <2>1
  <2> QED  BY <1>1, <1>3, <2>2, <2>3, BooksNew
<1>4. ASSUME lost' = TRUE, G!Refused(h), UNCHANGED <<diary, unlogged>> PROVE AgentInv'
  <2>1. Grows
    BY <1>1, <1>4, Shape, GrowsStill
  <2>2. tools' \in [Actor -> ToolState] /\ \A g \in Actor : MessageIsSo(g)'
    BY <1>1, <1>4, <2>1, RefusalStep
  <2>3. \A c \in BookingId : BookingIsSo(c)'
    BY <1>1, <1>4 DEF AgentInv, BookingIsSo, Ours
  <2>4. OnePerKey' /\ LogIsSo'
    BY <1>1, <1>4 DEF AgentInv, OnePerKey, G!Confirmed, LogIsSo, Ours
  <2>5. unlogged' \in SUBSET BookingId /\ lost' \in BOOLEAN
    BY <1>4, Shape DEF Shapes
  <2> QED  BY <1>1, <2>1, <2>2, <2>3, <2>4, <2>5, DocumentsChange
<1> QED  BY <1>2, <1>3, <1>4 DEF G!Book

LEMMA Replies ==
  ASSUME AgentInv, NEW h \in Actor, G!Reply(h) PROVE AgentInv'
<1>1. /\ tools[h].pc = "reply" /\ tools' = [tools EXCEPT ![h] = G!Quiet]
      /\ UNCHANGED <<clock, shop, diary, logged, unlogged, lost, asked>>
  BY DEF G!Reply
<1>2. PICK news : news = UNION {a.ids : a \in tools[h].answers}
  OBVIOUS
<1>3. \A b \in news : b \in BookingId /\ OfKind(b)
  BY <1>2, Shape, ToolFields DEF AgentInv, MessageIsSo, AnswerIsSo, G!Answer
<1>4. /\ call' \in CallDoc /\ call'.test = call.test /\ call'.state = call.state
      /\ call'.instruction = call.instruction /\ call'.business = call.business
      /\ \A b \in call'.known : b \in call.known \/ b \in news
      /\ call.state = "none" => call'.known = call.known
  <2>1. CASE call.state = "open"
    <3>1. PICK known : known = call.known \cup news
      OBVIOUS
    <3>2. call' = [call EXCEPT !.known = known]
      BY <1>2, <2>1, <3>1 DEF G!Reply
    <3>3. known \in SUBSET BookingId /\ call \in CallDoc
      BY <1>3, <3>1, Shape, CallFields DEF Shapes
    <3> QED  BY <2>1, <3>1, <3>2, <3>3 DEF CallDoc
  <2>2. CASE call.state # "open"
    <3>1. call' = call
      BY <2>2 DEF G!Reply
    <3> QED  BY <3>1, Shape DEF Shapes
  <2> QED  BY <2>1, <2>2
<1>5. Grows
  BY <1>1, <1>4, Shape DEF Grows, Shapes
<1>6. /\ tools' \in [Actor -> ToolState] /\ tools'[h] = G!Quiet
      /\ \A g \in Actor \ {h} : tools'[g] = tools[g]
  BY <1>1, IdleTools, Shape, ToolFields
<1>7. MessageIsSo(h)'
  BY <1>6, IdleTools DEF MessageIsSo
<1>8. \A g \in Actor \ {h} : MessageIsSo(g)'
  BY <1>4, <1>5, <1>6, MessageStands
<1>9. Shapes'
  BY <1>1, <1>4, <1>6, Shape DEF Shapes
<1>10. \A b \in BookingId : BookingIsSo(b)'
  BY <1>1, <1>4 DEF AgentInv, BookingIsSo, Ours
<1>11. OnePerKey' /\ LogIsSo'
  BY <1>1 DEF AgentInv, OnePerKey, G!Confirmed, LogIsSo, Ours
<1>12. CallIsSo'
  <2>1. \A b \in call'.known : OfKind(b)'
    BY <1>1, <1>3, <1>4 DEF AgentInv, CallIsSo, OfKind
  <2> QED  BY <1>4, <2>1 DEF AgentInv, CallIsSo
<1> QED  BY <1>7, <1>8, <1>9, <1>10, <1>11, <1>12 DEF AgentInv

LEMMA CallBegins ==
  ASSUME AgentInv, NEW test \in BOOLEAN, call.state = "none",
         call' = [state |-> "open", test |-> test, business |-> shop,
                  instruction |-> G!Instruction(shop), known |-> {}],
         UNCHANGED <<clock, shop, diary, logged, unlogged, lost, tools, asked>>
  PROVE  AgentInv'
<1>1. PICK said : said = G!Instruction(shop)
  OBVIOUS
<1>2. /\ said \in SUBSET {"closed", "departments", "cutoff"}
      /\ "departments" \in said <=> shop.departments
  BY <1>1 DEF G!Instruction
<1>3. /\ call' \in CallDoc /\ call'.state = "open" /\ call'.business = shop
      /\ call'.instruction = said /\ call'.known = {}
  BY <1>1, <1>2, Shape DEF Shapes, CallDoc
<1>4. Shapes'
  BY <1>3, Shape DEF Shapes
<1>5. \A h \in Actor : MessageIsSo(h)'
  BY DEF AgentInv, MessageIsSo
<1>6. \A b \in BookingId : ~Ours(b)
  BY DEF AgentInv, BookingIsSo
<1>7. \A b \in BookingId : BookingIsSo(b)'
  BY <1>6 DEF AgentInv, BookingIsSo, Ours
<1>8. OnePerKey' /\ LogIsSo'
  BY DEF AgentInv, OnePerKey, G!Confirmed, LogIsSo, Ours
<1>9. CallIsSo'
  BY <1>2, <1>3 DEF CallIsSo
<1> QED  BY <1>4, <1>5, <1>7, <1>8, <1>9 DEF AgentInv

LEMMA CallEnds ==
  ASSUME AgentInv, G!EndSession PROVE AgentInv'
<1>1. /\ call.state = "open" /\ call' = [call EXCEPT !.state = "over"]
      /\ UNCHANGED <<clock, shop, diary, logged, unlogged, lost, tools, asked>>
  BY DEF G!EndSession
<1>2. /\ call' \in CallDoc /\ call'.state = "over" /\ call'.test = call.test
      /\ call'.instruction = call.instruction /\ call'.business = call.business
      /\ call'.known = call.known
  BY <1>1, Shape DEF Shapes, CallDoc
<1>3. Shapes'
  BY <1>1, <1>2, Shape DEF Shapes
<1>4. Grows
  BY <1>1, <1>2, Shape DEF Grows, Shapes
<1>5. \A h \in Actor : MessageIsSo(h)'
  BY <1>1, <1>2, <1>4, MessageStands
<1>6. \A b \in BookingId : BookingIsSo(b)'
  BY <1>1, <1>2 DEF AgentInv, BookingIsSo, Ours
<1>7. OnePerKey' /\ LogIsSo'
  BY <1>1 DEF AgentInv, OnePerKey, G!Confirmed, LogIsSo, Ours
<1>8. CallIsSo'
  BY <1>1, <1>2 DEF AgentInv, CallIsSo, OfKind
<1> QED  BY <1>3, <1>5, <1>6, <1>7, <1>8 DEF AgentInv

\* The clock, the settings and the log change by themselves.
LEMMA AroundTheCall ==
  ASSUME AgentInv, UNCHANGED <<diary, call, lost, tools, asked>>,
         clock' \in 0..MaxTime, shop' \in G!Settings,
         logged' \in BookingId \cup {None}, unlogged' \in SUBSET BookingId, LogIsSo'
  PROVE  AgentInv'
<1>1. Shapes'
  BY Shape DEF Shapes
<1>2. \A h \in Actor : MessageIsSo(h)'
  BY Shape, GrowsStill, MessageStands
<1>3. \A b \in BookingId : BookingIsSo(b)'
  BY DEF AgentInv, BookingIsSo, Ours
<1>4. OnePerKey' /\ CallIsSo'
  BY DEF AgentInv, OnePerKey, G!Confirmed, CallIsSo, OfKind
<1> QED  BY <1>1, <1>2, <1>3, <1>4 DEF AgentInv

LEMMA AgentStarts == G!Assumptions /\ G!Init => AgentInv
<1> SUFFICES ASSUME G!Assumptions, G!Init PROVE AgentInv
  OBVIOUS
<1> DEFINE old == CHOOSE b \in BookingId : TRUE
<1>1. PICK test \in BOOLEAN, who \in Person :
        diary = [b \in BookingId |-> IF b = old THEN G!Elsewhere(test, who, G!Soonest) ELSE None]
  BY DEF G!Init
<1>2. PICK first : first = G!Elsewhere(test, who, G!Soonest)
  OBVIOUS
<1>3. /\ G!Soonest \in Hour /\ who \in G!Who /\ who \in G!Who \cup {"stranger"}
      /\ None \in G!Key \cup {None} /\ TRUE \in BOOLEAN /\ FALSE \in BOOLEAN
  BY FirstHour DEF G!Who
<1>4. first \in G!BookingDoc /\ ~first.ours /\ first.key = None
  BY <1>2, <1>3 DEF G!Elsewhere, G!BookingDoc
<1>5. \A b \in BookingId : diary[b] = first \/ diary[b] = None
  BY <1>1, <1>2
<1>6. diary \in [BookingId -> G!BookingDoc \cup {None}]
  BY <1>1, <1>4, <1>5
<1>7. shop \in G!Settings
  <2>1. shop \in [cutoff : {0}, departments : {TRUE}, closes : {1}]
    BY DEF G!Init
  <2>2. 0 \in 0..1 /\ 1 \in Nat
    OBVIOUS
  <2> QED  BY <2>1, <2>2 DEF G!Settings
<1>8. /\ call \in CallDoc /\ call.state = "none" /\ call.instruction = {} /\ call.known = {}
  <2>1. call = [state |-> "none", test |-> FALSE, business |-> shop,
                instruction |-> {}, known |-> {}]
    BY DEF G!Init
  <2>2. {} \in SUBSET {"closed", "departments", "cutoff"} /\ {} \in SUBSET BookingId
    OBVIOUS
  <2> QED  BY <1>7, <2>1, <2>2 DEF CallDoc
<1>9. /\ tools \in [Actor -> ToolState]
      /\ \A h \in Actor : tools[h].pc = "idle" /\ tools[h].todo = <<>> /\ tools[h].answers = {}
  BY IdleTools DEF G!Init
<1>10. Shapes
  <2>1. 0 \in 0..MaxTime /\ 0 \in 0..MaxMessages
    BY DEF G!Assumptions
  <2> QED  BY <1>6, <1>7, <1>8, <1>9, <2>1 DEF G!Init, Shapes
<1>11. \A h \in Actor : MessageIsSo(h)
  BY <1>9 DEF MessageIsSo
<1>12. \A b \in BookingId : ~Ours(b) /\ (diary[b] # None => diary[b].key = None)
  BY <1>4, <1>5 DEF Ours
<1>13. \A b \in BookingId : BookingIsSo(b)
  BY <1>12 DEF BookingIsSo
<1>14. OnePerKey
  BY <1>12 DEF OnePerKey, G!Confirmed
<1>15. LogIsSo
  BY <1>12 DEF G!Init, LogIsSo
<1>16. CallIsSo
  BY <1>8 DEF CallIsSo
<1> QED  BY <1>10, <1>11, <1>13, <1>14, <1>15, <1>16 DEF AgentInv

LEMMA AgentMoves == AgentInv /\ G!Assumptions /\ G!Next => AgentInv'
<1> SUFFICES ASSUME AgentInv, G!Assumptions, G!Next PROVE AgentInv'
  OBVIOUS
<1>1. ASSUME NEW test \in BOOLEAN, G!StartSession(test) PROVE AgentInv'
  BY <1>1, CallBegins DEF G!StartSession
<1>2. CASE G!EndSession
  BY <1>2, CallEnds
<1>3. CASE G!Tick
  <2>1. clock' \in 0..MaxTime /\ UNCHANGED <<shop, diary, call, logged, unlogged, lost, tools, asked>>
    BY <1>3, Shape DEF G!Tick, Shapes, G!Assumptions
  <2>2. LogIsSo'
    BY <2>1 DEF AgentInv, LogIsSo, Ours
  <2> QED  BY <2>1, <2>2, Shape, AroundTheCall DEF Shapes
<1>4. CASE G!Edit
  <2>1. /\ shop' = [shop EXCEPT !.departments = FALSE, !.cutoff = 1]
        /\ UNCHANGED <<clock, diary, call, logged, unlogged, lost, tools, asked>>
    BY <1>4 DEF G!Edit
  <2>2. shop' \in G!Settings
    <3>1. 1 \in 0..1
      OBVIOUS
    <3> QED  BY <2>1, <3>1, Shape DEF Shapes, G!Settings
  <2>3. LogIsSo'
    BY <2>1 DEF AgentInv, LogIsSo, Ours
  <2> QED  BY <2>1, <2>2, <2>3, Shape, AroundTheCall DEF Shapes
<1>5. ASSUME NEW b \in BookingId, G!LogBooking(b) PROVE AgentInv'
  <2>1. /\ b \in unlogged /\ unlogged' = unlogged \ {b} /\ logged' = b
        /\ UNCHANGED <<clock, shop, diary, call, lost, tools, asked>>
    BY <1>5 DEF G!LogBooking
  <2>2. b # None
    BY DEF G!Assumptions
  <2>3. LogIsSo'
    BY <2>1, <2>2 DEF AgentInv, LogIsSo, Ours
  <2> QED  BY <2>1, <2>3, Shape, AroundTheCall DEF Shapes
<1>6. ASSUME NEW h \in Actor, NEW line \in G!Messages, G!Message(h, line) PROVE AgentInv'
  BY <1>6, MessageComes
<1>7. ASSUME NEW h \in Actor,
             \/ G!CheckAvailability(h) \/ G!CreateBooking(h) \/ G!FindUpcomingBookings(h)
             \/ G!Change(h) \/ G!TransferToHuman(h)
      PROVE  AgentInv'
  BY <1>7, ChecksAvailability, CreatesBooking, FindsBookings, ChangeIsAsked, Transfers
<1>8. ASSUME NEW h \in Actor, G!Book(h) \/ G!Reschedule(h) \/ G!Cancel(h) \/ G!Reply(h)
      PROVE  AgentInv'
  BY <1>8, Books, Reschedules, Cancels, Replies
<1>9. ASSUME NEW h \in Actor, G!UnknownTool(h) PROVE AgentInv'
  BY <1>9, RefusedOnly DEF G!UnknownTool, G!Runs
<1>10. ASSUME NEW h \in Actor, G!Throws(h) PROVE AgentInv'
  <2>1. tools[h].pc \in {"tool", "book", "change"} /\ G!Refused(h) /\ G!Nothing
    BY <1>10, Shape, ToolFields DEF G!Throws
  <2> QED  BY <2>1, RefusedOnly
<1> QED  BY <1>1, <1>2, <1>3, <1>4, <1>5, <1>6, <1>7, <1>8, <1>9, <1>10 DEF G!Next

LEMMA AgentStands == AgentInv /\ UNCHANGED answering => AgentInv'
<1> SUFFICES ASSUME AgentInv, UNCHANGED answering PROVE AgentInv'
  OBVIOUS
<1>1. UNCHANGED <<clock, shop, diary, call, logged, unlogged, lost, tools, asked>>
  BY DEF answering
<1>2. LogIsSo'
  BY <1>1 DEF AgentInv, LogIsSo, Ours
<1> QED  BY <1>1, <1>2, Shape, AroundTheCall DEF Shapes

-----------------------------------------------------------------------------
(* All parts.                                                              *)

ContactInv ==
  /\ part = "reminding" => RemindInv
  /\ part = "waiting" => WaitInv
  /\ part = "keeping" => KeepInv
  /\ part = "queueing" => QueueInv
  /\ part = "sweeping" => SweepInv
  /\ part = "answering" => AgentInv
  /\ part = "reporting" => ReportInv

LEMMA Bounds ==
  /\ R!Assumptions /\ W!Assumptions /\ C!Assumptions /\ Q!Assumptions
  /\ G!Assumptions /\ M!Assumptions
BY Sane

LEMMA ContactStarts == Init => ContactInv
<1> SUFFICES ASSUME Init PROVE ContactInv
  OBVIOUS
<1>1. /\ part = "reminding" => R!Init
      /\ part = "waiting" => W!Init
      /\ part = "keeping" => C!Init
      /\ part = "queueing" => Q!Init
      /\ part = "sweeping" => A!Init
      /\ part = "answering" => G!Init
      /\ part = "reporting" => M!Init
  BY DEF Init
<1> QED  BY <1>1, Bounds, RemindStarts, WaitStarts, KeepStarts, QueueStarts, SweepStarts,
           AgentStarts, ReportStarts DEF ContactInv

LEMMA ContactMoves == ContactInv /\ Next => ContactInv'
<1> SUFFICES ASSUME ContactInv, Next PROVE ContactInv'
  OBVIOUS
<1>1. /\ part' = part
      /\ part = "reminding" => R!Next
      /\ part = "waiting" => W!Next
      /\ part = "keeping" => C!Next
      /\ part = "queueing" => Q!Next
      /\ part = "sweeping" => A!Next
      /\ part = "answering" => G!Next
      /\ part = "reporting" => M!Next
  BY DEF Next
<1>2. part = "reminding" => RemindInv'
  BY <1>1, Bounds, RemindMoves DEF ContactInv
<1>3. part = "waiting" => WaitInv'
  BY <1>1, Bounds, WaitMoves DEF ContactInv
<1>4. part = "keeping" => KeepInv'
  BY <1>1, Bounds, KeepMoves DEF ContactInv
<1>5. part = "queueing" => QueueInv'
  BY <1>1, Bounds, QueueMoves DEF ContactInv
<1>6. part = "sweeping" => SweepInv'
  BY <1>1, SweepMoves DEF ContactInv
<1>7. part = "answering" => AgentInv'
  BY <1>1, Bounds, AgentMoves DEF ContactInv
<1>8. part = "reporting" => ReportInv'
  BY <1>1, Bounds, ReportMoves DEF ContactInv
<1> QED  BY <1>1, <1>2, <1>3, <1>4, <1>5, <1>6, <1>7, <1>8 DEF ContactInv

LEMMA ContactStands == ContactInv /\ UNCHANGED everything => ContactInv'
<1> SUFFICES ASSUME ContactInv, UNCHANGED everything PROVE ContactInv'
  OBVIOUS
<1>1. /\ part' = part /\ UNCHANGED reminding /\ UNCHANGED waiting /\ UNCHANGED keeping
      /\ UNCHANGED queueing /\ UNCHANGED sweeping /\ UNCHANGED answering
      /\ UNCHANGED reporting
  BY DEF everything
<1>2. part = "reminding" => RemindInv'
  BY <1>1, RemindStands DEF ContactInv
<1>3. part = "waiting" => WaitInv'
  BY <1>1, WaitStands DEF ContactInv
<1>4. part = "keeping" => KeepInv'
  BY <1>1, KeepStands DEF ContactInv
<1>5. part = "queueing" => QueueInv'
  BY <1>1, QueueStands DEF ContactInv
<1>6. part = "sweeping" => SweepInv'
  BY <1>1, SweepStands DEF ContactInv
<1>7. part = "answering" => AgentInv'
  BY <1>1, AgentStands DEF ContactInv
<1>8. part = "reporting" => ReportInv'
  BY <1>1, ReportStands DEF ContactInv
<1> QED  BY <1>1, <1>2, <1>3, <1>4, <1>5, <1>6, <1>7, <1>8 DEF ContactInv

(* Every state of every part satisfies the part's inductive invariant: what *)
(* its promises rest on, with the failures the code swallows among the      *)
(* steps.                                                                   *)
THEOREM ContactInvHolds == Spec => []ContactInv
<1>1. Init => ContactInv
  BY ContactStarts
<1>2. ContactInv /\ [Next]_everything => ContactInv'
  BY ContactMoves, ContactStands
<1> QED  BY <1>1, <1>2, PTL DEF Spec

(* The documents and what every process holds keep their shapes.           *)
THEOREM ShapesHold == Spec => []Types
<1>1. ContactInv => Types
  <2>1. RemindInv => R!TypeOK
    BY DEF RemindInv
  <2>2. WaitInv => W!TypeOK
    BY DEF WaitInv
  <2>3. KeepInv => C!TypeOK
    BY KeepPromises
  <2>4. QueueInv => Q!TypeOK
    BY DEF QueueInv
  <2>5. SweepInv => A!TypeOK
    BY DEF SweepInv
  <2>6. AgentInv => G!TypeOK
    BY AgentPromises
  <2>7. ReportInv => M!TypeOK
    BY DEF ReportInv
  <2> QED  BY <2>1, <2>2, <2>3, <2>4, <2>5, <2>6, <2>7 DEF ContactInv, Types
<1> QED  BY <1>1, ContactInvHolds, PTL

(* However many workers sweep at once, fail and restart: a booking gets one *)
(* reminder for each time its mark was not set, a person one review text    *)
(* unless two workers were at them at once or one failed, and after STOP at *)
(* most one text from each worker that had read the consent before, and one *)
(* for each read of the consent that failed (notify.js, reviewService.js:   *)
(* such a read is taken for no record, and the text goes out).              *)
THEOREM NobodyPestered == Spec => []NobodyIsPestered
<1>1. ContactInv => NobodyIsPestered
  BY Bounds, RemindPromises DEF ContactInv, NobodyIsPestered
<1> QED  BY <1>1, ContactInvHolds, PTL

(* However joins, cancellations and notifiers cross: one text per place     *)
(* and person, to the front of the line, and one entry per person.          *)
THEOREM LineServedInTurn == Spec => []WaitersServedInTurn
<1>1. ContactInv => WaitersServedInTurn
  BY Bounds, WaitPromises DEF ContactInv, WaitersServedInTurn
<1> QED  BY <1>1, ContactInvHolds, PTL

(* A customer's no survives whatever requests write meanwhile, and every    *)
(* booking's phone has a record.                                            *)
THEOREM ConsentAndRecordsHold == Spec => []RecordsHold
<1>1. ContactInv => RecordsHold
  BY KeepPromises DEF ContactInv, RecordsHold
<1> QED  BY <1>1, ContactInvHolds, PTL

(* What was not sent is in the queue, with one request to be deleted at a   *)
(* time; a recording Twilio keeps can be found by a later sweep; no month   *)
(* is reported twice, and one that is claimed is mailed or given back,      *)
(* unless the mail was refused, a restart came between, or the giving back  *)
(* itself failed (reportService.js).                                        *)
THEOREM NothingForgotten == Spec => []NothingIsForgotten
<1>1. ContactInv => NothingIsForgotten
  BY Bounds, QueuePromises, SweepPromises, ReportPromises DEF ContactInv, NothingIsForgotten
<1> QED  BY <1>1, ContactInvHolds, PTL

(* However the messages of a call cross: one booking per wish, with whom    *)
(* was asked for; a test call and customers stay apart; what the model is   *)
(* told of a booking is so, and a department it was told of is found.       *)
THEOREM AgentKeepsPromises == Spec => []AgentHolds
<1>1. ContactInv => AgentHolds
  BY AgentPromises DEF ContactInv, AgentHolds
<1> QED  BY <1>1, ContactInvHolds, PTL
=============================================================================
