---------------------------- MODULE VoiceBridge ----------------------------
(***************************************************************************)
(* Phone calls of one backend process: the webhooks that answer and        *)
(* transfer a call (webhooks/twilio.js), the media stream that bridges it  *)
(* to a Gemini session (voice/twilioBridge.js), the sweep of calls left    *)
(* open (services/staleCalls.js) and the drain before a restart            *)
(* (server.js).                                                            *)
(*                                                                         *)
(* Each await is a step.  Up to four things are under way for one call at  *)
(* once, each with a counter of its own in conn: the 'start' handler, the  *)
(* finalizer, the transfer, and (in dial) Twilio and the webhook that      *)
(* hears from it.                                                          *)
(***************************************************************************)
EXTENDS Integers, FiniteSets

CONSTANTS
  Call,         \* call sids
  Business,     \* ids of businesses
  NoLog,        \* no call_logs document
  MaxCalls,     \* MAX_CONCURRENT_CALLS
  MaxPerTenant, \* MAX_CALLS_PER_BUSINESS
  MaxRestarts,  \* bound: crashes and drains
  MaxAsks       \* bound: calls in which the agent asks for something

ASSUME CapsAreNumbers ==
  /\ MaxCalls \in Nat \ {0} /\ MaxPerTenant \in Nat \ {0}
  /\ MaxRestarts \in Nat /\ MaxAsks \in Nat

ASSUME CallsAreFinite == IsFiniteSet(Call)

VARIABLES
  logs,       \* call_logs collection
  callbacks,  \* calls with a callback_requests document
  dial,       \* what became of the number Twilio was asked to ring
  conn,       \* what this process knows of each call
  active,     \* activeCalls
  lines,      \* callsByBusiness
  draining,
  restarts,   \* crashes and drains so far
  verdict,    \* history: the last outcome written other than by the finalizer
  crossed,    \* history: calls whose outcome was written while the finalizer
              \* was between its read and its write
  cut         \* history: calls that were being handled when the process ended

vars == <<logs, callbacks, dial, conn, active, lines, draining, restarts,
          verdict, crossed, cut>>

-----------------------------------------------------------------------------
(* Documents and connections.                                              *)

\* "refused" stands for 'failed: lines_busy' and 'failed: restarting', "noted" for
\* 'voicemail', 'callback_requested' and 'emergency'.
Outcome == {"in_progress", "completed", "refused", "ai_unavailable",
            "noted", "transferred", "transfer_failed", "interrupted"}

Log == [business : Business, outcome : Outcome]

ASSUME NullIsNoLog == NoLog \notin Log

Connection ==
  [socket : {"none", "open", "closed"},
   start : {"none", "lookup", "refusing", "starting", "failing", "bye", "done"},
   known : BOOLEAN, gemini : {"none", "open", "closed"},
   counted : BOOLEAN, finalized : BOOLEAN,
   fin : {"none", "read", "write"}, found : Outcome,
   transfer : {"none", "noting", "redirecting", "record", "fallback", "done"},
   todo : SUBSET {"log", "callback"}]

Fresh ==
  [socket |-> "none", start |-> "none", known |-> FALSE, gemini |-> "none",
   counted |-> FALSE, finalized |-> FALSE, fin |-> "none",
   found |-> "in_progress", transfer |-> "none", todo |-> {}]

Logged(c) == logs[c] # NoLog

TenantOf(c) == logs[c].business

Line(c, pc) == conn' = [conn EXCEPT ![c].start = pc]

\* A handler other than the finalizer writes the outcome.
Writes(c, outcome) ==
  /\ logs' = [logs EXCEPT ![c].outcome = outcome]
  /\ verdict' = [verdict EXCEPT ![c] = outcome]
  /\ crossed' = IF conn[c].fin = "write" THEN crossed \cup {c} ELSE crossed

-----------------------------------------------------------------------------
(* POST /voice/incoming and the stream Twilio opens.                       *)

Incoming(c, t) ==
  /\ ~Logged(c)
  /\ logs' = [logs EXCEPT ![c] = [business |-> t, outcome |-> "in_progress"]]
  /\ UNCHANGED <<callbacks, dial, conn, active, lines, draining, restarts,
                 verdict, crossed, cut>>

Open(c) ==
  /\ Logged(c) /\ conn[c].socket = "none" /\ c \notin cut
  /\ conn' = [conn EXCEPT ![c].socket = "open"]
  /\ UNCHANGED <<logs, callbacks, dial, active, lines, draining, restarts,
                 verdict, crossed, cut>>

\* The 'start' frame with a valid token: the business is read.
StartFrame(c) ==
  /\ conn[c].socket = "open" /\ conn[c].start = "none"
  /\ Line(c, "lookup")
  /\ UNCHANGED <<logs, callbacks, dial, active, lines, draining, restarts,
                 verdict, crossed, cut>>

Full(t) == lines[t] >= MaxPerTenant \/ active >= MaxCalls

\* The business is there (or was deleted meanwhile): is there a line for it?
Admit(c) ==
  /\ conn[c].start = "lookup"
  /\ \/ Line(c, "done")
     \/ conn' = [conn EXCEPT ![c].known = TRUE,
                   ![c].start = IF draining \/ Full(TenantOf(c)) THEN "refusing"
                                ELSE "starting"]
  /\ UNCHANGED <<logs, callbacks, dial, active, lines, draining, restarts,
                 verdict, crossed, cut>>

Refuse(c) ==
  /\ conn[c].start = "refusing"
  /\ Writes(c, "refused")
  /\ Line(c, "bye")
  /\ UNCHANGED <<callbacks, dial, active, lines, draining, restarts, cut>>

\* startSession resolves: from here on the call takes a line.
SessionStarts(c) ==
  /\ conn[c].start = "starting"
  /\ conn' = [conn EXCEPT ![c].start = "done", ![c].gemini = "open",
                          ![c].counted = TRUE]
  /\ active' = active + 1
  /\ lines' = [lines EXCEPT ![TenantOf(c)] = @ + 1]
  /\ UNCHANGED <<logs, callbacks, dial, draining, restarts, verdict, crossed, cut>>

SessionFails(c) ==
  /\ conn[c].start = "starting"
  /\ conn' = [conn EXCEPT ![c].start = "failing", ![c].todo = {"log", "callback"}]
  /\ UNCHANGED <<logs, callbacks, dial, active, lines, draining, restarts,
                 verdict, crossed, cut>>

\* Promise.all: the log and the callback are written in either order.
WriteLog(c, outcome) ==
  /\ "log" \in conn[c].todo
  /\ Writes(c, outcome)
  /\ conn' = [conn EXCEPT ![c].todo = @ \ {"log"}]
  /\ UNCHANGED callbacks

WriteCallback(c) ==
  /\ "callback" \in conn[c].todo
  /\ callbacks' = callbacks \cup {c}
  /\ conn' = [conn EXCEPT ![c].todo = @ \ {"callback"}]
  /\ UNCHANGED <<logs, verdict, crossed>>

Unavailable(c) ==
  /\ conn[c].start = "failing"
  /\ \/ WriteLog(c, "ai_unavailable")
     \/ WriteCallback(c)
     \/ /\ conn[c].todo = {} /\ Line(c, "bye")
        /\ UNCHANGED <<logs, callbacks, verdict, crossed>>
  /\ UNCHANGED <<dial, active, lines, draining, restarts, cut>>

-----------------------------------------------------------------------------
(* finalizeCall: its first half runs in one go, once for each call.        *)

FreesAnyway(c) == TRUE  \* mutant: a call that never took a line gives one back
Frees(c) == conn[c].counted

KeepsSession(g) == g  \* mutant: the session is not closed
ClosesSession(g) == IF g = "open" THEN "closed" ELSE g

Finalized(c) ==
  IF conn[c].finalized THEN conn[c]
  ELSE [conn[c] EXCEPT !.finalized = TRUE, !.counted = FALSE,
                       !.gemini = ClosesSession(@),
                       !.fin = IF conn[c].known THEN "read" ELSE "none"]

\* activeCalls and callsByBusiness once the call is finalized.
Release(c) ==
  IF ~conn[c].finalized /\ Frees(c)
  THEN /\ active' = active - 1
       /\ lines' = [lines EXCEPT ![TenantOf(c)] = IF @ > 0 THEN @ - 1 ELSE 0]
  ELSE UNCHANGED <<active, lines>>

\* The socket closes: the caller, the watchdog, the start timer or a transfer.
HangUp(c) ==
  /\ conn[c].socket = "open"
  /\ conn' = [conn EXCEPT ![c] = [Finalized(c) EXCEPT !.socket = "closed"]]
  /\ Release(c)
  /\ UNCHANGED <<logs, callbacks, dial, draining, restarts, verdict, crossed, cut>>

\* Twilio's 'stop' frame.
Stop(c) ==
  /\ conn[c].socket = "open" /\ ~conn[c].finalized
  /\ conn' = [conn EXCEPT ![c] = Finalized(c)]
  /\ Release(c)
  /\ UNCHANGED <<logs, callbacks, dial, draining, restarts, verdict, crossed, cut>>

\* After the spoken apology of a refused or failed start.
Bye(c) ==
  /\ conn[c].start = "bye"
  /\ conn' = [conn EXCEPT ![c] = [Finalized(c) EXCEPT !.start = "done"]]
  /\ Release(c)
  /\ UNCHANGED <<logs, callbacks, dial, draining, restarts, verdict, crossed, cut>>

FinalRead(c) ==
  /\ conn[c].fin = "read"
  /\ conn' = [conn EXCEPT ![c].fin = "write", ![c].found = logs[c].outcome]
  /\ UNCHANGED <<logs, callbacks, dial, active, lines, draining, restarts,
                 verdict, crossed, cut>>

AlwaysCompleted(found) == "completed"  \* mutant: a finished call is 'completed'
FinalOutcome(found) == IF found = "in_progress" THEN "completed" ELSE found

FinalWrite(c) ==
  /\ conn[c].fin = "write"
  /\ logs' = [logs EXCEPT ![c].outcome = FinalOutcome(conn[c].found)]
  /\ conn' = [conn EXCEPT ![c].fin = "none", ![c].found = "in_progress"]
  /\ UNCHANGED <<callbacks, dial, active, lines, draining, restarts, verdict,
                 crossed, cut>>

\* Google ends the session; onEnded closes the socket, which is HangUp.
SessionEnds(c) ==
  /\ conn[c].gemini = "open"
  /\ conn' = [conn EXCEPT ![c].gemini = "closed"]
  /\ UNCHANGED <<logs, callbacks, dial, active, lines, draining, restarts,
                 verdict, crossed, cut>>

-----------------------------------------------------------------------------
(* What the agent does about the call itself: it takes a message or a      *)
(* callback request, or hands the caller to a person.                      *)

\* The bound on calls whose agent has asked for something.
Asking(c) ==
  Cardinality({d \in Call \ {c} : conn[d].transfer # "none" \/ verdict[d] = "noted"})
    < MaxAsks

\* leave_voicemail, request_callback, flag_emergency: the document first ...
NoteAsked(c) ==
  /\ conn[c].gemini = "open" /\ conn[c].transfer = "none"
  /\ Asking(c)
  /\ conn' = [conn EXCEPT ![c].transfer = "noting"]
  /\ callbacks' = callbacks \/ callbacks' = callbacks \cup {c}
  /\ UNCHANGED <<logs, dial, active, lines, draining, restarts, verdict,
                 crossed, cut>>

\* ... and then the log, whether or not the call is still on.
NoteWrite(c) ==
  /\ conn[c].transfer = "noting"
  /\ Writes(c, "noted")
  /\ conn' = [conn EXCEPT ![c].transfer = "none"]
  /\ UNCHANGED <<callbacks, dial, active, lines, draining, restarts, cut>>

\* The agent asks for it; without a number to ring there is only a callback.
TransferAsked(c) ==
  /\ conn[c].gemini = "open" /\ conn[c].transfer = "none"
  /\ Asking(c)
  /\ \/ conn' = [conn EXCEPT ![c].transfer = "redirecting"]
     \/ conn' = [conn EXCEPT ![c].transfer = "fallback", ![c].todo = {"log", "callback"}]
  /\ UNCHANGED <<logs, callbacks, dial, active, lines, draining, restarts,
                 verdict, crossed, cut>>

\* Twilio redirects the call or refuses to; an answer that is lost reads like a
\* refusal.
Redirect(c) ==
  /\ conn[c].transfer = "redirecting"
  /\ \/ /\ conn' = [conn EXCEPT ![c].transfer = "record"]
        /\ dial' = [dial EXCEPT ![c] = "ringing"]
     \/ /\ conn' = [conn EXCEPT ![c].transfer = "fallback",
                                ![c].todo = {"log", "callback"}]
        /\ \/ UNCHANGED dial
           \/ dial' = [dial EXCEPT ![c] = "ringing"]
  /\ UNCHANGED <<logs, callbacks, active, lines, draining, restarts, verdict,
                 crossed, cut>>

RecordTransfer(c) ==
  /\ conn[c].transfer = "record"
  /\ Writes(c, "transferred")
  /\ conn' = [conn EXCEPT ![c].transfer = "done"]
  /\ UNCHANGED <<callbacks, dial, active, lines, draining, restarts, cut>>

Fallback(c) ==
  /\ conn[c].transfer = "fallback"
  /\ \/ WriteLog(c, "transferred")
     \/ WriteCallback(c)
     \/ /\ conn[c].todo = {}
        /\ conn' = [conn EXCEPT ![c].transfer = "done"]
        /\ UNCHANGED <<logs, callbacks, verdict, crossed>>
  /\ UNCHANGED <<dial, active, lines, draining, restarts, cut>>

\* POST /voice/transfer-result: somebody answered, or nobody did.
DialEnds(c) ==
  /\ dial[c] = "ringing"
  /\ dial' = [dial EXCEPT ![c] = "done"] \/ dial' = [dial EXCEPT ![c] = "missed"]
  /\ UNCHANGED <<logs, callbacks, conn, active, lines, draining, restarts,
                 verdict, crossed, cut>>

MissedLogOnly(c) == callbacks  \* mutant: the webhook only updates the log
MissedCallback(c) == callbacks \cup {c}

\* The webhook's Promise.all, log first or callback first.
DialMissed(c) ==
  /\ \/ /\ dial[c] \in {"missed", "missedCalledBack"}
        /\ Writes(c, "transfer_failed")
        /\ dial' = [dial EXCEPT ![c] = IF @ = "missed" THEN "missedLogged" ELSE "done"]
        /\ UNCHANGED callbacks
     \/ /\ dial[c] \in {"missed", "missedLogged"}
        /\ callbacks' = MissedCallback(c)
        /\ dial' = [dial EXCEPT ![c] = IF @ = "missed" THEN "missedCalledBack" ELSE "done"]
        /\ UNCHANGED <<logs, verdict, crossed>>
  /\ UNCHANGED <<conn, active, lines, draining, restarts, cut>>

-----------------------------------------------------------------------------
(* The sweep, drains and crashes.                                          *)

\* mutant: the sweep leaves out calls whose stream never started
SweepableStarted(c) == conn[c].socket = "closed"
\* More than 30 minutes old: the watchdog closed its socket long ago, if it had one.
Sweepable(c) == conn[c].socket # "open"

CloseStaleCall(c) ==
  /\ ~draining
  /\ Logged(c) /\ logs[c].outcome = "in_progress" /\ Sweepable(c)
  /\ Writes(c, "interrupted")
  /\ UNCHANGED <<callbacks, dial, conn, active, lines, draining, restarts, cut>>

Busy(c) ==
  \/ conn[c].socket = "open" \/ conn[c].fin # "none" \/ conn[c].todo # {}
  \/ conn[c].start \in {"lookup", "refusing", "starting", "failing", "bye"}
  \/ conn[c].transfer \in {"noting", "redirecting", "record", "fallback"}
  \/ dial[c] \in {"missed", "missedLogged", "missedCalledBack"}

\* Everything in memory is gone; a ringing phone and the documents are not.
ProcessGone ==
  /\ conn' = [c \in Call |-> Fresh]
  /\ dial' = [c \in Call |-> IF dial[c] = "ringing" THEN "ringing"
                             ELSE IF dial[c] = "none" THEN "none" ELSE "done"]
  /\ active' = 0 /\ lines' = [t \in Business |-> 0] /\ draining' = FALSE
  /\ cut' = cut \cup {c \in Call : Logged(c) /\ (Busy(c) \/ conn[c].socket # "none")}
  /\ UNCHANGED <<logs, callbacks, verdict, crossed>>

Crash ==
  /\ ~draining /\ restarts < MaxRestarts /\ restarts' = restarts + 1
  /\ ProcessGone

\* SIGTERM.
BeginDrain ==
  /\ ~draining /\ restarts < MaxRestarts /\ restarts' = restarts + 1
  /\ draining' = TRUE
  /\ UNCHANGED <<logs, callbacks, dial, conn, active, lines, verdict, crossed, cut>>

\* When no call is active, or when DRAIN_TIMEOUT_MS runs out, at any moment here.
Exit == draining /\ ProcessGone /\ UNCHANGED restarts

-----------------------------------------------------------------------------
Init ==
  /\ logs = [c \in Call |-> NoLog]
  /\ callbacks = {}
  /\ dial = [c \in Call |-> "none"]
  /\ conn = [c \in Call |-> Fresh]
  /\ active = 0 /\ lines = [t \in Business |-> 0]
  /\ draining = FALSE /\ restarts = 0
  /\ verdict = [c \in Call |-> "in_progress"] /\ crossed = {} /\ cut = {}

\* What the process does without being asked again.
Handler(c) ==
  \/ Admit(c) \/ Refuse(c) \/ SessionStarts(c) \/ SessionFails(c)
  \/ Unavailable(c) \/ Bye(c)
Finalizer(c) == FinalRead(c) \/ FinalWrite(c)
Transfer(c) == NoteWrite(c) \/ Redirect(c) \/ RecordTransfer(c) \/ Fallback(c)

Twilio(c) ==
  \/ \E t \in Business : Incoming(c, t)
  \/ Open(c) \/ StartFrame(c) \/ Stop(c) \/ HangUp(c)
  \/ DialEnds(c) \/ DialMissed(c)
Agent(c) == SessionEnds(c) \/ NoteAsked(c) \/ TransferAsked(c)

Next ==
  \/ \E c \in Call :
       Twilio(c) \/ Handler(c) \/ Finalizer(c) \/ Agent(c) \/ Transfer(c)
         \/ CloseStaleCall(c)
  \/ Crash \/ BeginDrain \/ Exit

\* Awaits come back, the watchdog closes every socket, the sweep's timer fires,
\* a drain times out.  Callers, Google and Twilio promise nothing.
Fairness ==
  /\ \A c \in Call :
       /\ WF_vars(Handler(c)) /\ WF_vars(Finalizer(c)) /\ WF_vars(Transfer(c))
       /\ WF_vars(HangUp(c)) /\ WF_vars(CloseStaleCall(c))
  /\ WF_vars(Exit)

Spec == Init /\ [][Next]_vars /\ Fairness

-----------------------------------------------------------------------------
(* Properties.                                                             *)

\* Shapes; the counters never go below zero.
TypeOK ==
  /\ logs \in [Call -> Log \cup {NoLog}]
  /\ callbacks \subseteq Call
  /\ dial \in [Call -> {"none", "ringing", "missed", "missedLogged",
                        "missedCalledBack", "done"}]
  /\ conn \in [Call -> Connection]
  /\ active \in Nat /\ lines \in [Business -> Nat]
  /\ draining \in BOOLEAN /\ restarts \in 0..MaxRestarts
  /\ verdict \in [Call -> Outcome] /\ crossed \subseteq Call /\ cut \subseteq Call

Counted(t) == {c \in Call : conn[c].counted /\ TenantOf(c) = t}

\* Through hang-ups, stop frames, refusals and failed starts in any order, no
\* line is given back twice or by a call that had none: the counters are the
\* numbers of calls that took a line and have not given it back, and every
\* session that runs has one.
LinesMatchCalls ==
  /\ active = Cardinality({c \in Call : conn[c].counted})
  /\ \A t \in Business : lines[t] = Cardinality(Counted(t))
  /\ \A c \in Call : conn[c].gemini = "open" => conn[c].counted

\* Nothing is under way for the call any more.
Over(c) == Logged(c) /\ ~Busy(c)

\* What was found out about a call (refused, no agent, transferred, nobody
\* answered) is what its log says in the end, whoever wrote last, unless the
\* finalizer had read the log before it was written.
OutcomeStands ==
  \A c \in Call :
    Over(c) /\ c \notin crossed /\ verdict[c] # "in_progress"
      => logs[c].outcome = verdict[c]

\* A log that says 'transfer_failed: callback created' is right, unless the
\* process ended between the two writes.
CallbackAsLogged ==
  \A c \in Call :
    Over(c) /\ logs[c].outcome = "transfer_failed" /\ c \notin cut => c \in callbacks

\* No call is shown as live for ever, whatever is cut short: a stream that never
\* starts, a crash, a drain that ends before the log is written.
LogsClose ==
  \A c \in Call :
    (Logged(c) /\ logs[c].outcome = "in_progress")
      ~> (Logged(c) /\ logs[c].outcome # "in_progress")

\* Every session is closed once its caller is gone, if the call was not over
\* before the session began.
SessionsEnd ==
  \A c \in Call :
    (conn[c].gemini = "open" /\ ~conn[c].finalized) ~> conn[c].gemini # "open"
=============================================================================
