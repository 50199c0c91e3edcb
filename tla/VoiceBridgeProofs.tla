-------------------------- MODULE VoiceBridgeProofs --------------------------
(***************************************************************************)
(* The voice bridge, proved for every finite set of calls, every set of    *)
(* businesses and every limit: activeCalls and callsByBusiness are the     *)
(* numbers of calls that took a line and have not given it back; a log     *)
(* says in the end what was found out about its call; and a log that       *)
(* promises a callback has one.                                            *)
(***************************************************************************)
EXTENDS VoiceBridge, FiniteSetTheorems, TLAPS

-----------------------------------------------------------------------------
(* The inductive invariant.                                                *)

\* A call whose start handler has not come to the point where it takes a line.
Early == {"none", "lookup", "refusing", "starting", "failing", "bye"}

\* Nothing is known of a call that was not logged, and only a call whose start
\* handler is done has taken a line.
KnownCalls ==
  \A c \in Call :
    /\ conn[c] # Fresh \/ dial[c] # "none" => Logged(c)
    /\ conn[c].start \in Early => ~conn[c].counted

LineInv == KnownCalls /\ LinesMatchCalls

CountedCalls == {c \in Call : conn[c].counted}

-----------------------------------------------------------------------------
(* Documents.                                                              *)

\* A connection nobody opened.
LEMMA FreshFacts ==
  /\ Fresh \in Connection /\ Fresh.socket = "none" /\ Fresh.start = "none"
  /\ Fresh.gemini = "none" /\ Fresh.fin = "none" /\ Fresh.transfer = "none"
  /\ Fresh.todo = {} /\ Fresh.counted = FALSE
BY DEF Fresh, Connection, Outcome

\* The outcome of a log is one field of it.
LEMMA LogFacts ==
  ASSUME NEW l \in Log, NEW o \in Outcome
  PROVE  /\ [l EXCEPT !.outcome = o] \in Log /\ [l EXCEPT !.outcome = o] # NoLog
         /\ [l EXCEPT !.outcome = o].business = l.business
BY NullIsNoLog DEF Log

\* Subsets of the calls can be counted.
LEMMA CountFacts ==
  ASSUME NEW S \in SUBSET Call
  PROVE  /\ IsFiniteSet(S) /\ Cardinality(S) \in Nat
         /\ \A c \in Call : c \notin S => Cardinality(S \cup {c}) = Cardinality(S) + 1
         /\ \A c \in Call : c \in S => Cardinality(S \ {c}) = Cardinality(S) - 1
<1>1. IsFiniteSet(S)
  BY CallsAreFinite, FS_Subset
<1> QED BY <1>1, FS_CardinalityType, FS_AddElement, FS_RemoveElement

Documents ==
  /\ callbacks \subseteq Call
  /\ dial \in [Call -> {"none", "ringing", "missed", "missedLogged",
                        "missedCalledBack", "done"}]
  /\ draining \in BOOLEAN /\ restarts \in 0..MaxRestarts
  /\ verdict \in [Call -> Outcome] /\ crossed \subseteq Call /\ cut \subseteq Call

\* The invariant holds before the first call.
LEMMA InitLines == Init => TypeOK /\ LineInv
<1> SUFFICES ASSUME Init PROVE TypeOK /\ LineInv
  OBVIOUS
<1>1. Documents
  <2>1. restarts \in 0..MaxRestarts
    BY CapsAreNumbers DEF Init
  <2>4. draining \in BOOLEAN
    BY Zenon DEF Init
  <2>2. /\ dial \in [Call -> {"none", "ringing", "missed", "missedLogged",
                              "missedCalledBack", "done"}]
        /\ verdict \in [Call -> Outcome]
    BY DEF Init, Outcome
  <2>3. callbacks \subseteq Call /\ crossed \subseteq Call /\ cut \subseteq Call
    BY DEF Init
  <2> QED BY <2>1, <2>2, <2>3, <2>4 DEF Documents
<1>2. TypeOK
  BY <1>1, FreshFacts DEF Init, TypeOK, Documents
<1>3. KnownCalls
  BY FreshFacts DEF Init, KnownCalls
<1>4. CountedCalls = {} /\ \A t \in Business : Counted(t) = {}
  BY FreshFacts DEF Init, CountedCalls, Counted
<1>5. LinesMatchCalls
  BY <1>4, FS_EmptySet, FreshFacts DEF Init, LinesMatchCalls, CountedCalls
<1> QED BY <1>2, <1>3, <1>5 DEF LineInv

\* A log is written or opened without changing whose call it is.
LogsKept ==
  \A c \in Call : Logged(c) => logs'[c] # NoLog /\ logs'[c].business = logs[c].business

\* A step that takes no line and gives none back.
LEMMA SameLines ==
  ASSUME TypeOK, LineInv, LogsKept, UNCHANGED <<active, lines>>,
         \A c \in Call : conn'[c].counted <=> conn[c].counted,
         \A c \in Call : conn'[c].gemini = "open" => conn[c].gemini = "open"
  PROVE  LinesMatchCalls'
<1>1. {c \in Call : conn'[c].counted} = {c \in Call : conn[c].counted}
  OBVIOUS
<1>2. \A c \in Call : conn[c].counted => Logged(c)
  BY FreshFacts DEF LineInv, KnownCalls
<1>3. \A t \in Business : Counted(t)' = Counted(t)
  BY <1>2 DEF Counted, LogsKept, TenantOf
<1> QED BY <1>1, <1>3 DEF LineInv, LinesMatchCalls

\* One call goes a step further, with the line it had.
LEMMA QuietStep ==
  ASSUME TypeOK, LineInv, Documents', NEW c \in Call, NEW k \in Connection, Logged(c),
         conn' = [conn EXCEPT ![c] = k],
         k.counted <=> conn[c].counted,
         k.gemini = "open" => conn[c].gemini = "open",
         k.start \in Early => conn[c].start \in Early,
         logs' = logs \/ \E o \in Outcome : logs' = [logs EXCEPT ![c].outcome = o],
         \A d \in Call : dial'[d] = dial[d] \/ d = c,
         UNCHANGED <<active, lines>>
  PROVE  TypeOK' /\ LineInv'
<1>1. logs[c] \in Log
  BY DEF TypeOK, Logged
<1>2. logs' \in [Call -> Log \cup {NoLog}] /\ LogsKept /\ \A d \in Call : Logged(d) => Logged(d)'
  <2>1. CASE logs' = logs
    BY <2>1 DEF TypeOK, LogsKept, Logged
  <2>2. ASSUME NEW o \in Outcome, logs' = [logs EXCEPT ![c].outcome = o]
        PROVE  /\ logs' \in [Call -> Log \cup {NoLog}]
               /\ LogsKept /\ \A d \in Call : Logged(d) => Logged(d)'
    <3> DEFINE l == [logs[c] EXCEPT !.outcome = o]
    <3>1. l \in Log /\ l # NoLog /\ l.business = logs[c].business
      BY <1>1, LogFacts
    <3>2. logs' = [logs EXCEPT ![c] = l]
      BY <2>2
    <3> HIDE DEF l
    <3> QED BY <3>1, <3>2 DEF TypeOK, LogsKept, Logged
  <2> QED BY <2>1, <2>2
<1>3. \A d \in Call : conn'[d] = IF d = c THEN k ELSE conn[d]
  BY DEF TypeOK
<1>4. TypeOK'
  BY <1>2 DEF TypeOK, Documents
<1>5. KnownCalls'
  BY <1>2, <1>3 DEF LineInv, KnownCalls
<1>6. LinesMatchCalls'
  BY <1>2, <1>3, SameLines
<1> QED BY <1>4, <1>5, <1>6 DEF LineInv

-----------------------------------------------------------------------------
(* Taking a line and giving it back.                                       *)

\* The start handler takes a line, once.
LEMMA SessionStartsKeeps ==
  ASSUME TypeOK, LineInv, NEW c \in Call, SessionStarts(c)
  PROVE  TypeOK' /\ LineInv'
<1>1. conn[c] \in Connection /\ conn[c].start = "starting" /\ ~conn[c].counted
  BY DEF TypeOK, SessionStarts, LineInv, KnownCalls, Early
<1>2. Logged(c) /\ logs[c] \in Log
  BY <1>1, FreshFacts DEF LineInv, KnownCalls, TypeOK, Logged
<1>3. TenantOf(c) \in Business
  BY <1>2 DEF TenantOf, Log
<1>4. PICK k \in Connection :
        /\ conn' = [conn EXCEPT ![c] = k]
        /\ k.counted = TRUE /\ k.start = "done"
  <2> DEFINE k == [conn[c] EXCEPT !.start = "done", !.gemini = "open", !.counted = TRUE]
  <2>1. k \in Connection /\ k.counted = TRUE /\ k.start = "done"
    BY <1>1 DEF Connection
  <2>2. conn' = [conn EXCEPT ![c] = k]
    BY DEF SessionStarts, TypeOK
  <2> QED BY <2>1, <2>2
<1>5. \A d \in Call : conn'[d] = IF d = c THEN k ELSE conn[d]
  BY <1>4 DEF TypeOK
<1>6. /\ active' = active + 1
      /\ \A t \in Business : lines'[t] = IF t = TenantOf(c) THEN lines[t] + 1 ELSE lines[t]
      /\ lines' \in [Business -> Nat] /\ active' \in Nat
  BY <1>3 DEF SessionStarts, TypeOK
<1>7. UNCHANGED <<logs, callbacks, dial, draining, restarts, verdict, crossed, cut>>
  BY DEF SessionStarts
<1>8. TypeOK'
  BY <1>4, <1>6, <1>7 DEF TypeOK
<1>9. KnownCalls'
  BY <1>2, <1>4, <1>5, <1>7 DEF LineInv, KnownCalls, Logged, Early
<1>10. /\ {d \in Call : conn'[d].counted} = CountedCalls \cup {c} /\ c \notin CountedCalls
       /\ \A t \in Business :
            Counted(t)' = IF t = TenantOf(c) THEN Counted(t) \cup {c} ELSE Counted(t)
  BY <1>1, <1>4, <1>5, <1>7 DEF CountedCalls, Counted, TenantOf
<1>11. \A t \in Business : c \notin Counted(t)
  BY <1>1 DEF Counted
<1>12. /\ active = Cardinality(CountedCalls)
       /\ \A t \in Business : lines[t] = Cardinality(Counted(t))
  BY DEF LineInv, LinesMatchCalls, CountedCalls
<1>13. /\ Cardinality(CountedCalls \cup {c}) = Cardinality(CountedCalls) + 1
       /\ \A t \in Business : Cardinality(Counted(t) \cup {c}) = Cardinality(Counted(t)) + 1
  BY <1>10, <1>11, CountFacts DEF CountedCalls, Counted
<1>14. \A d \in Call : conn'[d].gemini = "open" => conn'[d].counted
  BY <1>4, <1>5 DEF LineInv, LinesMatchCalls
<1>15. /\ active' = Cardinality({d \in Call : conn'[d].counted})
       /\ \A t \in Business : lines'[t] = Cardinality(Counted(t)')
  BY <1>6, <1>10, <1>12, <1>13
<1> QED BY <1>8, <1>9, <1>14, <1>15 DEF LineInv, LinesMatchCalls

\* finalizeCall, whoever calls it: the line is given back if the call had one
\* and was not finalized before.
LEMMA FinalizeKeeps ==
  ASSUME TypeOK, LineInv, NEW c \in Call, NEW k \in Connection, Logged(c), Release(c),
         conn' = [conn EXCEPT ![c] = k],
         conn[c].finalized =>
           (k.counted <=> conn[c].counted) /\ (k.gemini = "open" => conn[c].gemini = "open"),
         ~conn[c].finalized => ~k.counted /\ k.gemini # "open",
         k.start \in Early => conn[c].start \in Early,
         UNCHANGED <<logs, callbacks, dial, draining, restarts, verdict, crossed, cut>>
  PROVE  TypeOK' /\ LineInv'
<1>1. \A d \in Call : conn'[d] = IF d = c THEN k ELSE conn[d]
  BY DEF TypeOK
<1>2. Documents' /\ LogsKept
  BY DEF TypeOK, Documents, LogsKept, Logged
<1>3. CASE conn[c].finalized \/ ~conn[c].counted
  <2>1. UNCHANGED <<active, lines>>
    BY <1>3 DEF Release, Frees
  <2>2. (k.counted <=> conn[c].counted) /\ (k.gemini = "open" => conn[c].gemini = "open")
    BY <1>3
  <2> QED BY <1>2, <2>1, <2>2, QuietStep
<1>4. CASE ~conn[c].finalized /\ conn[c].counted
  <2>1. logs[c] \in Log /\ TenantOf(c) \in Business
    BY DEF TypeOK, Logged, TenantOf, Log
  <2>2. /\ active' = active - 1
        /\ lines' = [lines EXCEPT ![TenantOf(c)] = IF @ > 0 THEN @ - 1 ELSE 0]
    BY <1>4 DEF Release, Frees
  <2>3. /\ {d \in Call : conn'[d].counted} = CountedCalls \ {c} /\ c \in CountedCalls
        /\ \A t \in Business :
             Counted(t)' = IF t = TenantOf(c) THEN Counted(t) \ {c} ELSE Counted(t)
        /\ c \in Counted(TenantOf(c))
    BY <1>1, <1>4 DEF CountedCalls, Counted, TenantOf
  <2>4. /\ active = Cardinality(CountedCalls)
        /\ \A t \in Business : lines[t] = Cardinality(Counted(t))
    BY DEF LineInv, LinesMatchCalls, CountedCalls
  <2>5. /\ Cardinality(CountedCalls \ {c}) = Cardinality(CountedCalls) - 1
        /\ Cardinality(CountedCalls \ {c}) \in Nat
    BY <2>3, CountFacts DEF CountedCalls
  <2>6. /\ Cardinality(Counted(TenantOf(c)) \ {c}) = Cardinality(Counted(TenantOf(c))) - 1
        /\ Cardinality(Counted(TenantOf(c)) \ {c}) \in Nat
    BY <2>3, CountFacts DEF Counted
  <2>7. active' = Cardinality({d \in Call : conn'[d].counted}) /\ active' \in Nat
    BY <2>2, <2>3, <2>4, <2>5
  <2>8. /\ lines' \in [Business -> Nat]
        /\ \A t \in Business : lines'[t] = Cardinality(Counted(t)')
    <3>1. /\ lines \in [Business -> Nat]
          /\ lines[TenantOf(c)] = Cardinality(Counted(TenantOf(c)))
      BY <2>1, <2>4 DEF TypeOK
    <3>2. lines[TenantOf(c)] > 0 /\ lines[TenantOf(c)] - 1 \in Nat
      BY <2>1, <2>6, <3>1
    <3>3. lines' = [lines EXCEPT ![TenantOf(c)] = lines[TenantOf(c)] - 1]
      BY <2>2, <3>2
    <3>4. lines' \in [Business -> Nat]
      BY <2>1, <3>1, <3>2, <3>3
    <3>5. \A t \in Business : lines'[t] = IF t = TenantOf(c) THEN lines[t] - 1 ELSE lines[t]
      BY <3>1, <3>3
    <3>6. \A t \in Business : lines'[t] = Cardinality(Counted(t)')
      BY <2>3, <2>4, <2>6, <3>5
    <3> QED BY <3>4, <3>6
  <2>9. TypeOK'
    BY <2>7, <2>8 DEF TypeOK
  <2>10. KnownCalls'
    BY <1>1, <1>4 DEF LineInv, KnownCalls, Logged
  <2>11. \A d \in Call : conn'[d].gemini = "open" => conn'[d].counted
    BY <1>1, <1>4 DEF LineInv, LinesMatchCalls
  <2> QED BY <2>7, <2>8, <2>9, <2>10, <2>11 DEF LineInv, LinesMatchCalls
<1> QED BY <1>3, <1>4

\* The first half of finalizeCall, as it changes the connection.
LEMMA FinalizedFacts ==
  ASSUME NEW c \in Call, conn[c] \in Connection
  PROVE  /\ Finalized(c) \in Connection /\ Finalized(c).start = conn[c].start
         /\ conn[c].finalized =>
              /\ Finalized(c).counted <=> conn[c].counted
              /\ Finalized(c).gemini = conn[c].gemini
         /\ ~conn[c].finalized => ~Finalized(c).counted /\ Finalized(c).gemini # "open"
<1>1. CASE conn[c].finalized
  BY <1>1 DEF Finalized
<1>2. CASE ~conn[c].finalized
  <2> DEFINE g == ClosesSession(conn[c].gemini)
             f == IF conn[c].known THEN "read" ELSE "none"
             k == [conn[c] EXCEPT !.finalized = TRUE, !.counted = FALSE, !.gemini = g, !.fin = f]
  <2>1. g \in {"none", "open", "closed"} /\ g # "open" /\ f \in {"none", "read", "write"}
    BY DEF ClosesSession, Connection
  <2>2. Finalized(c) = k
    BY <1>2 DEF Finalized
  <2> HIDE DEF g, f
  <2>3. k \in Connection /\ k.start = conn[c].start /\ ~k.counted /\ k.gemini # "open"
    BY <2>1 DEF Connection
  <2> QED BY <1>2, <2>2, <2>3
<1> QED BY <1>1, <1>2

\* The socket closes, a 'stop' frame arrives, or the apology has been spoken.
LEMMA EndingsKeep ==
  ASSUME TypeOK, LineInv, NEW c \in Call, HangUp(c) \/ Stop(c) \/ Bye(c)
  PROVE  TypeOK' /\ LineInv'
<1>1. conn[c] \in Connection /\ Logged(c)
  BY FreshFacts DEF TypeOK, HangUp, Stop, Bye, LineInv, KnownCalls
<1>2. PICK k \in Connection :
        /\ conn' = [conn EXCEPT ![c] = k]
        /\ k.counted <=> Finalized(c).counted
        /\ k.gemini = Finalized(c).gemini
        /\ k.start \in {Finalized(c).start, "done"}
  <2> DEFINE f == Finalized(c)
  <2>1. f \in Connection
    BY <1>1, FinalizedFacts
  <2> HIDE DEF f
  <2>2. /\ [f EXCEPT !.socket = "closed"] \in Connection
        /\ [f EXCEPT !.socket = "closed"].counted <=> f.counted
        /\ [f EXCEPT !.socket = "closed"].gemini = f.gemini
        /\ [f EXCEPT !.socket = "closed"].start = f.start
    BY <2>1 DEF Connection
  <2>3. /\ [f EXCEPT !.start = "done"] \in Connection
        /\ [f EXCEPT !.start = "done"].counted <=> f.counted
        /\ [f EXCEPT !.start = "done"].gemini = f.gemini
        /\ [f EXCEPT !.start = "done"].start = "done"
    BY <2>1 DEF Connection
  <2>4. \/ conn' = [conn EXCEPT ![c] = [f EXCEPT !.socket = "closed"]]
        \/ conn' = [conn EXCEPT ![c] = f]
        \/ conn' = [conn EXCEPT ![c] = [f EXCEPT !.start = "done"]]
    BY DEF HangUp, Stop, Bye, f
  <2>5. \E k \in Connection :
          /\ conn' = [conn EXCEPT ![c] = k]
          /\ k.counted <=> f.counted
          /\ k.gemini = f.gemini
          /\ k.start \in {f.start, "done"}
    BY <2>1, <2>2, <2>3, <2>4
  <2> QED BY <2>5 DEF f
<1>3. /\ Release(c)
      /\ UNCHANGED <<logs, callbacks, dial, draining, restarts, verdict, crossed, cut>>
  BY DEF HangUp, Stop, Bye
<1>4. /\ conn[c].finalized =>
           (k.counted <=> conn[c].counted) /\ (k.gemini = "open" => conn[c].gemini = "open")
      /\ ~conn[c].finalized => ~k.counted /\ k.gemini # "open"
      /\ k.start \in Early => conn[c].start \in Early
  BY <1>1, <1>2, FinalizedFacts DEF Early
<1> QED BY <1>1, <1>2, <1>3, <1>4, FinalizeKeeps

-----------------------------------------------------------------------------
(* Steps that leave the lines alone.                                       *)

\* c's connection changes, and keeps the line it has or does not have.
KeepsLine(c) ==
  \E k \in Connection :
    /\ conn' = [conn EXCEPT ![c] = k]
    /\ k.counted <=> conn[c].counted
    /\ k.gemini = "open" => conn[c].gemini = "open"
    /\ k.start \in Early => conn[c].start \in Early

StartSteps == {"none", "lookup", "refusing", "starting", "failing", "bye", "done"}
TransferSteps == {"none", "noting", "redirecting", "record", "fallback", "done"}

\* The assignments to a connection that keep its line.
LEMMA ConnectionFacts ==
  ASSUME TypeOK, NEW c \in Call
  PROVE  /\ \A x \in StartSteps :
              conn' = [conn EXCEPT ![c].start = x] /\ (x \in Early => conn[c].start \in Early)
                => KeepsLine(c)
         /\ \A x \in StartSteps :
              /\ conn' = [conn EXCEPT ![c].known = TRUE, ![c].start = x]
              /\ x \in Early => conn[c].start \in Early
              => KeepsLine(c)
         /\ \A x \in StartSteps, w \in SUBSET {"log", "callback"} :
              /\ conn' = [conn EXCEPT ![c].start = x, ![c].todo = w]
              /\ x \in Early => conn[c].start \in Early
              => KeepsLine(c)
         /\ \A x \in TransferSteps :
              conn' = [conn EXCEPT ![c].transfer = x] => KeepsLine(c)
         /\ \A x \in TransferSteps, w \in SUBSET {"log", "callback"} :
              conn' = [conn EXCEPT ![c].transfer = x, ![c].todo = w] => KeepsLine(c)
         /\ \A w \in SUBSET {"log", "callback"} :
              conn' = [conn EXCEPT ![c].todo = w] => KeepsLine(c)
         /\ \A x \in {"none", "read", "write"}, o \in Outcome :
              conn' = [conn EXCEPT ![c].fin = x, ![c].found = o] => KeepsLine(c)
         /\ \A x \in {"none", "open", "closed"} :
              conn' = [conn EXCEPT ![c].socket = x] => KeepsLine(c)
         /\ conn' = [conn EXCEPT ![c].gemini = "closed"] => KeepsLine(c)
         /\ conn' = conn => KeepsLine(c)
<1>1. conn[c] \in Connection
  BY DEF TypeOK
<1>2. ASSUME NEW x \in StartSteps, conn' = [conn EXCEPT ![c].start = x],
             x \in Early => conn[c].start \in Early
      PROVE  KeepsLine(c)
  <2> DEFINE k == [conn[c] EXCEPT !.start = x]
  <2>1. /\ k \in Connection /\ k.counted = conn[c].counted /\ k.gemini = conn[c].gemini
        /\ k.start = x /\ conn' = [conn EXCEPT ![c] = k]
    BY <1>1, <1>2 DEF Connection, StartSteps
  <2> QED BY <1>2, <2>1 DEF KeepsLine
<1>3. ASSUME NEW x \in StartSteps, conn' = [conn EXCEPT ![c].known = TRUE, ![c].start = x],
             x \in Early => conn[c].start \in Early
      PROVE  KeepsLine(c)
  <2> DEFINE k == [conn[c] EXCEPT !.known = TRUE, !.start = x]
  <2>1. /\ k \in Connection /\ k.counted = conn[c].counted /\ k.gemini = conn[c].gemini
        /\ k.start = x /\ conn' = [conn EXCEPT ![c] = k]
    BY <1>1, <1>3 DEF Connection, StartSteps
  <2> QED BY <1>3, <2>1 DEF KeepsLine
<1>4. ASSUME NEW x \in StartSteps, NEW w \in SUBSET {"log", "callback"},
             conn' = [conn EXCEPT ![c].start = x, ![c].todo = w],
             x \in Early => conn[c].start \in Early
      PROVE  KeepsLine(c)
  <2> DEFINE k == [conn[c] EXCEPT !.start = x, !.todo = w]
  <2>1. /\ k \in Connection /\ k.counted = conn[c].counted /\ k.gemini = conn[c].gemini
        /\ k.start = x /\ conn' = [conn EXCEPT ![c] = k]
    BY <1>1, <1>4 DEF Connection, StartSteps
  <2> QED BY <1>4, <2>1 DEF KeepsLine
<1>5. ASSUME NEW x \in TransferSteps, conn' = [conn EXCEPT ![c].transfer = x]
      PROVE  KeepsLine(c)
  <2> DEFINE k == [conn[c] EXCEPT !.transfer = x]
  <2>1. /\ k \in Connection /\ k.counted = conn[c].counted /\ k.gemini = conn[c].gemini
        /\ k.start = conn[c].start /\ conn' = [conn EXCEPT ![c] = k]
    BY <1>1, <1>5 DEF Connection, TransferSteps
  <2> QED BY <2>1 DEF KeepsLine
<1>6. ASSUME NEW x \in TransferSteps, NEW w \in SUBSET {"log", "callback"},
             conn' = [conn EXCEPT ![c].transfer = x, ![c].todo = w]
      PROVE  KeepsLine(c)
  <2> DEFINE k == [conn[c] EXCEPT !.transfer = x, !.todo = w]
  <2>1. /\ k \in Connection /\ k.counted = conn[c].counted /\ k.gemini = conn[c].gemini
        /\ k.start = conn[c].start /\ conn' = [conn EXCEPT ![c] = k]
    BY <1>1, <1>6 DEF Connection, TransferSteps
  <2> QED BY <2>1 DEF KeepsLine
<1>7. ASSUME NEW w \in SUBSET {"log", "callback"}, conn' = [conn EXCEPT ![c].todo = w]
      PROVE  KeepsLine(c)
  <2> DEFINE k == [conn[c] EXCEPT !.todo = w]
  <2>1. /\ k \in Connection /\ k.counted = conn[c].counted /\ k.gemini = conn[c].gemini
        /\ k.start = conn[c].start /\ conn' = [conn EXCEPT ![c] = k]
    BY <1>1, <1>7 DEF Connection
  <2> QED BY <2>1 DEF KeepsLine
<1>8. ASSUME NEW x \in {"none", "read", "write"}, NEW o \in Outcome,
             conn' = [conn EXCEPT ![c].fin = x, ![c].found = o]
      PROVE  KeepsLine(c)
  <2> DEFINE k == [conn[c] EXCEPT !.fin = x, !.found = o]
  <2>1. /\ k \in Connection /\ k.counted = conn[c].counted /\ k.gemini = conn[c].gemini
        /\ k.start = conn[c].start /\ conn' = [conn EXCEPT ![c] = k]
    BY <1>1, <1>8 DEF Connection
  <2> QED BY <2>1 DEF KeepsLine
<1>9. ASSUME NEW x \in {"none", "open", "closed"}, conn' = [conn EXCEPT ![c].socket = x]
      PROVE  KeepsLine(c)
  <2> DEFINE k == [conn[c] EXCEPT !.socket = x]
  <2>1. /\ k \in Connection /\ k.counted = conn[c].counted /\ k.gemini = conn[c].gemini
        /\ k.start = conn[c].start /\ conn' = [conn EXCEPT ![c] = k]
    BY <1>1, <1>9 DEF Connection
  <2> QED BY <2>1 DEF KeepsLine
<1>10. ASSUME conn' = [conn EXCEPT ![c].gemini = "closed"]
       PROVE  KeepsLine(c)
  <2> DEFINE k == [conn[c] EXCEPT !.gemini = "closed"]
  <2>1. /\ k \in Connection /\ k.counted = conn[c].counted /\ k.gemini = "closed"
        /\ k.start = conn[c].start /\ conn' = [conn EXCEPT ![c] = k]
    BY <1>1, <1>10 DEF Connection
  <2> QED BY <2>1 DEF KeepsLine
<1>11. ASSUME conn' = conn
       PROVE  KeepsLine(c)
  <2>1. conn' = [conn EXCEPT ![c] = conn[c]]
    BY <1>11 DEF TypeOK
  <2> QED BY <1>1, <2>1 DEF KeepsLine
<1> QED BY <1>2, <1>3, <1>4, <1>5, <1>6, <1>7, <1>8, <1>9, <1>10, <1>11

DialSteps == {"none", "ringing", "missed", "missedLogged", "missedCalledBack", "done"}

\* What a step about c may write besides its connection.
WritesFor(c) ==
  /\ logs' = logs \/ \E o \in Outcome : logs' = [logs EXCEPT ![c].outcome = o]
  /\ callbacks' = callbacks \/ callbacks' = callbacks \cup {c}
  /\ dial' = dial \/ \E d \in DialSteps : dial' = [dial EXCEPT ![c] = d]
  /\ verdict' = verdict \/ \E o \in Outcome : verdict' = [verdict EXCEPT ![c] = o]
  /\ crossed' = crossed \/ crossed' = crossed \cup {c}
  /\ UNCHANGED <<active, lines, draining, restarts, cut>>

\* Such a step keeps the invariant.
LEMMA QuietKeeps ==
  ASSUME TypeOK, LineInv, NEW c \in Call, Logged(c), KeepsLine(c), WritesFor(c)
  PROVE  TypeOK' /\ LineInv'
<1>1. PICK k \in Connection :
        /\ conn' = [conn EXCEPT ![c] = k]
        /\ k.counted <=> conn[c].counted
        /\ k.gemini = "open" => conn[c].gemini = "open"
        /\ k.start \in Early => conn[c].start \in Early
  BY DEF KeepsLine
<1>2. dial' \in [Call -> DialSteps] /\ \A d \in Call : dial'[d] = dial[d] \/ d = c
  BY DEF WritesFor, TypeOK, DialSteps
<1>3. callbacks' \subseteq Call /\ crossed' \subseteq Call /\ verdict' \in [Call -> Outcome]
  BY DEF WritesFor, TypeOK
<1>4. Documents'
  BY <1>2, <1>3 DEF WritesFor, TypeOK, Documents, DialSteps
<1>5. /\ logs' = logs \/ \E o \in Outcome : logs' = [logs EXCEPT ![c].outcome = o]
      /\ UNCHANGED <<active, lines>>
  BY DEF WritesFor
<1> QED BY <1>1, <1>2, <1>4, <1>5, QuietStep

\* What is known of a call that is not fresh.
LEMMA Busyness ==
  ASSUME LineInv, NEW c \in Call,
         \/ conn[c].socket # "none" \/ conn[c].start # "none" \/ conn[c].gemini # "none"
         \/ conn[c].fin # "none" \/ conn[c].transfer # "none" \/ conn[c].todo # {}
         \/ dial[c] # "none"
  PROVE  Logged(c)
BY FreshFacts DEF LineInv, KnownCalls

\* The stream opens and the start handler goes through its awaits.
LEMMA StartKeeps ==
  ASSUME TypeOK, LineInv, NEW c \in Call,
         Open(c) \/ StartFrame(c) \/ Admit(c) \/ Refuse(c) \/ SessionFails(c)
  PROVE  TypeOK' /\ LineInv'
<1>1. Logged(c)
  BY Busyness DEF Open, StartFrame, Admit, Refuse, SessionFails
<1>2. CASE Open(c)
  BY <1>1, <1>2, ConnectionFacts, QuietKeeps DEF Open, WritesFor
<1>3. CASE StartFrame(c)
  <2>1. KeepsLine(c)
    BY <1>3, ConnectionFacts DEF StartFrame, Line, StartSteps, Early
  <2> QED BY <1>1, <1>3, <2>1, QuietKeeps DEF StartFrame, WritesFor
<1>4. CASE Admit(c)
  <2>1. KeepsLine(c)
    BY <1>4, ConnectionFacts DEF Admit, Line, StartSteps, Early
  <2> QED BY <1>1, <1>4, <2>1, QuietKeeps DEF Admit, WritesFor
<1>5. CASE Refuse(c)
  <2>1. KeepsLine(c)
    BY <1>5, ConnectionFacts DEF Refuse, Line, StartSteps, Early
  <2> QED BY <1>1, <1>5, <2>1, QuietKeeps DEF Refuse, Writes, WritesFor, Outcome
<1>6. CASE SessionFails(c)
  <2>1. KeepsLine(c)
    BY <1>6, ConnectionFacts DEF SessionFails, StartSteps, Early
  <2> QED BY <1>1, <1>6, <2>1, QuietKeeps DEF SessionFails, WritesFor
<1> QED BY <1>2, <1>3, <1>4, <1>5, <1>6

\* The two writes of a Promise.all, in either order.
LEMMA TodoFacts ==
  ASSUME TypeOK, NEW c \in Call, NEW o \in Outcome,
         WriteLog(c, o) \/ WriteCallback(c)
  PROVE  /\ KeepsLine(c) /\ conn[c].todo # {}
         /\ logs' = logs \/ logs' = [logs EXCEPT ![c].outcome = o]
         /\ callbacks' = callbacks \/ callbacks' = callbacks \cup {c}
         /\ verdict' = verdict \/ verdict' = [verdict EXCEPT ![c] = o]
         /\ crossed' = crossed \/ crossed' = crossed \cup {c}
<1>1. conn[c].todo \in SUBSET {"log", "callback"}
  BY DEF TypeOK, Connection
<1>2. \E w \in SUBSET {"log", "callback"} : conn' = [conn EXCEPT ![c].todo = w]
  BY <1>1 DEF WriteLog, WriteCallback
<1> QED BY <1>2, ConnectionFacts DEF WriteLog, WriteCallback, Writes

\* A failed start, and a transfer that falls back to a callback.
LEMMA FallbackKeeps ==
  ASSUME TypeOK, LineInv, NEW c \in Call, Unavailable(c) \/ Fallback(c)
  PROVE  TypeOK' /\ LineInv'
<1>1. Logged(c)
  BY Busyness DEF Unavailable, Fallback
<1>2. UNCHANGED <<dial, active, lines, draining, restarts, cut>>
  BY DEF Unavailable, Fallback
<1>3. CASE \E o \in Outcome : WriteLog(c, o) \/ WriteCallback(c)
  BY <1>1, <1>2, <1>3, TodoFacts, QuietKeeps DEF WritesFor
<1>4. CASE /\ conn[c].start = "failing" /\ Line(c, "bye")
           /\ UNCHANGED <<logs, callbacks, verdict, crossed>>
  <2>1. KeepsLine(c)
    BY <1>4, ConnectionFacts DEF Line, StartSteps, Early
  <2> QED BY <1>1, <1>2, <1>4, <2>1, QuietKeeps DEF WritesFor
<1>5. CASE /\ conn' = [conn EXCEPT ![c].transfer = "done"]
           /\ UNCHANGED <<logs, callbacks, verdict, crossed>>
  <2>1. KeepsLine(c)
    BY <1>5, ConnectionFacts DEF TransferSteps
  <2> QED BY <1>1, <1>2, <1>5, <2>1, QuietKeeps DEF WritesFor
<1> QED BY <1>3, <1>4, <1>5 DEF Unavailable, Fallback, Outcome

\* The second half of finalizeCall, and Google ending the session.
LEMMA FinalKeeps ==
  ASSUME TypeOK, LineInv, NEW c \in Call, FinalRead(c) \/ FinalWrite(c) \/ SessionEnds(c)
  PROVE  TypeOK' /\ LineInv'
<1>1. Logged(c)
  BY Busyness DEF FinalRead, FinalWrite, SessionEnds
<1>2. logs[c].outcome \in Outcome /\ conn[c].found \in Outcome
  BY <1>1 DEF TypeOK, Logged, Log, Connection
<1>3. CASE FinalRead(c)
  <2>1. KeepsLine(c)
    BY <1>2, <1>3, ConnectionFacts DEF FinalRead
  <2> QED BY <1>1, <1>3, <2>1, QuietKeeps DEF FinalRead, WritesFor
<1>4. CASE FinalWrite(c)
  <2>1. KeepsLine(c)
    BY <1>4, ConnectionFacts DEF FinalWrite, Outcome
  <2>2. FinalOutcome(conn[c].found) \in Outcome
    BY <1>2 DEF FinalOutcome, Outcome
  <2> QED BY <1>1, <1>4, <2>1, <2>2, QuietKeeps DEF FinalWrite, WritesFor
<1>5. CASE SessionEnds(c)
  BY <1>1, <1>5, ConnectionFacts, QuietKeeps DEF SessionEnds, WritesFor
<1> QED BY <1>3, <1>4, <1>5

\* The agent's requests and the phone Twilio rings.
LEMMA TransferKeeps ==
  ASSUME TypeOK, LineInv, NEW c \in Call,
         \/ NoteAsked(c) \/ NoteWrite(c) \/ TransferAsked(c) \/ Redirect(c)
         \/ RecordTransfer(c) \/ DialEnds(c) \/ DialMissed(c)
  PROVE  TypeOK' /\ LineInv'
<1>1. Logged(c)
  BY Busyness
     DEF NoteAsked, NoteWrite, TransferAsked, Redirect, RecordTransfer, DialEnds, DialMissed
<1>2. CASE NoteAsked(c)
  <2>1. KeepsLine(c)
    BY <1>2, ConnectionFacts DEF NoteAsked, TransferSteps
  <2> QED BY <1>1, <1>2, <2>1, QuietKeeps DEF NoteAsked, WritesFor
<1>3. CASE NoteWrite(c)
  <2>1. KeepsLine(c)
    BY <1>3, ConnectionFacts DEF NoteWrite, TransferSteps
  <2> QED BY <1>1, <1>3, <2>1, QuietKeeps DEF NoteWrite, Writes, WritesFor, Outcome
<1>4. CASE TransferAsked(c)
  <2>1. KeepsLine(c)
    BY <1>4, ConnectionFacts DEF TransferAsked, TransferSteps
  <2> QED BY <1>1, <1>4, <2>1, QuietKeeps DEF TransferAsked, WritesFor
<1>5. CASE Redirect(c)
  <2>1. KeepsLine(c)
    BY <1>5, ConnectionFacts DEF Redirect, TransferSteps
  <2>2. dial' = dial \/ \E d \in DialSteps : dial' = [dial EXCEPT ![c] = d]
    BY <1>5 DEF Redirect, DialSteps
  <2> QED BY <1>1, <1>5, <2>1, <2>2, QuietKeeps DEF Redirect, WritesFor
<1>6. CASE RecordTransfer(c)
  <2>1. KeepsLine(c)
    BY <1>6, ConnectionFacts DEF RecordTransfer, TransferSteps
  <2> QED BY <1>1, <1>6, <2>1, QuietKeeps DEF RecordTransfer, Writes, WritesFor, Outcome
<1>7. CASE DialEnds(c)
  <2>1. KeepsLine(c)
    BY <1>7, ConnectionFacts DEF DialEnds
  <2>2. \E d \in DialSteps : dial' = [dial EXCEPT ![c] = d]
    BY <1>7 DEF DialEnds, DialSteps
  <2> QED BY <1>1, <1>7, <2>1, <2>2, QuietKeeps DEF DialEnds, WritesFor
<1>8. CASE DialMissed(c)
  <2>1. KeepsLine(c)
    BY <1>8, ConnectionFacts DEF DialMissed
  <2>2. \E d \in DialSteps : dial' = [dial EXCEPT ![c] = d]
    BY <1>8 DEF DialMissed, DialSteps
  <2>3. /\ logs' = logs \/ logs' = [logs EXCEPT ![c].outcome = "transfer_failed"]
        /\ callbacks' = callbacks \/ callbacks' = callbacks \cup {c}
        /\ verdict' = verdict \/ verdict' = [verdict EXCEPT ![c] = "transfer_failed"]
        /\ crossed' = crossed \/ crossed' = crossed \cup {c}
        /\ UNCHANGED <<active, lines, draining, restarts, cut>>
    BY <1>8 DEF DialMissed, MissedCallback, Writes
  <2> QED BY <1>1, <2>1, <2>2, <2>3, QuietKeeps DEF WritesFor, Outcome
<1> QED BY <1>2, <1>3, <1>4, <1>5, <1>6, <1>7, <1>8

\* The stale sweep writes the log of a call nobody is handling.
LEMMA SweepKeeps ==
  ASSUME TypeOK, LineInv, NEW c \in Call, CloseStaleCall(c)
  PROVE  TypeOK' /\ LineInv'
<1>1. KeepsLine(c)
  BY ConnectionFacts DEF CloseStaleCall
<1> QED BY <1>1, QuietKeeps DEF CloseStaleCall, Writes, WritesFor, Outcome

\* A call comes in: its log is opened.
LEMMA IncomingKeeps ==
  ASSUME TypeOK, LineInv, NEW c \in Call, NEW t \in Business, Incoming(c, t)
  PROVE  TypeOK' /\ LineInv'
<1> DEFINE l == [business |-> t, outcome |-> "in_progress"]
<1>1. l \in Log /\ l # NoLog
  BY NullIsNoLog DEF Log, Outcome
<1>2. /\ logs' = [logs EXCEPT ![c] = l] /\ ~Logged(c)
      /\ UNCHANGED <<callbacks, dial, conn, active, lines, draining, restarts,
                     verdict, crossed, cut>>
  BY DEF Incoming
<1> HIDE DEF l
<1>3. TypeOK'
  BY <1>1, <1>2 DEF TypeOK
<1>4. LogsKept /\ \A d \in Call : Logged(d) => Logged(d)'
  BY <1>1, <1>2 DEF TypeOK, LogsKept, Logged
<1>5. KnownCalls'
  BY <1>2, <1>4 DEF LineInv, KnownCalls
<1>6. LinesMatchCalls'
  BY <1>2, <1>4, SameLines
<1> QED BY <1>3, <1>5, <1>6 DEF LineInv

\* The process ends: every counter and connection is new.
LEMMA ProcessGoneKeeps ==
  ASSUME TypeOK, LineInv, ProcessGone, restarts' \in 0..MaxRestarts
  PROVE  TypeOK' /\ LineInv'
<1>1. /\ \A c \in Call : conn'[c] = Fresh
      /\ conn' \in [Call -> Connection]
  BY FreshFacts DEF ProcessGone
<1>2. /\ active' = 0 /\ lines' = [t \in Business |-> 0]
      /\ UNCHANGED <<logs, callbacks, verdict, crossed>>
  BY DEF ProcessGone
<1>3. /\ dial' \in [Call -> DialSteps]
      /\ \A c \in Call : dial'[c] # "none" => dial[c] # "none"
  BY DEF ProcessGone, DialSteps
<1>4. draining' \in BOOLEAN
  BY Zenon DEF ProcessGone
<1>5. cut' \subseteq Call
  BY DEF ProcessGone, TypeOK
<1>6. TypeOK'
  BY <1>1, <1>2, <1>3, <1>4, <1>5 DEF TypeOK, DialSteps
<1>7. KnownCalls'
  BY <1>1, <1>2, <1>3, FreshFacts DEF LineInv, KnownCalls, Logged
<1>8. {c \in Call : conn'[c].counted} = {} /\ \A t \in Business : Counted(t)' = {}
  BY <1>1, FreshFacts DEF Counted
<1>9. LinesMatchCalls'
  BY <1>1, <1>2, <1>8, FreshFacts, FS_EmptySet DEF LinesMatchCalls
<1> QED BY <1>6, <1>7, <1>9 DEF LineInv

\* Crashes, drains and the end of a drain.
LEMMA RestartsKeep ==
  ASSUME TypeOK, LineInv, Crash \/ BeginDrain \/ Exit
  PROVE  TypeOK' /\ LineInv'
<1>1. restarts < MaxRestarts => restarts + 1 \in 0..MaxRestarts
  BY CapsAreNumbers DEF TypeOK
<1>2. CASE Crash
  BY <1>1, <1>2, ProcessGoneKeeps DEF Crash
<1>3. CASE Exit
  BY <1>3, ProcessGoneKeeps DEF Exit, TypeOK
<1>4. CASE BeginDrain
  <2>1. draining' \in BOOLEAN /\ restarts' \in 0..MaxRestarts
    BY <1>1, <1>4 DEF BeginDrain
  <2>2. UNCHANGED <<logs, callbacks, dial, conn, active, lines, verdict, crossed, cut>>
    BY <1>4 DEF BeginDrain
  <2>3. TypeOK'
    BY <2>1, <2>2 DEF TypeOK
  <2>4. LogsKept /\ KnownCalls'
    BY <2>2 DEF LogsKept, LineInv, KnownCalls, Logged
  <2> QED BY <2>2, <2>3, <2>4, SameLines DEF LineInv
<1> QED BY <1>2, <1>3, <1>4

-----------------------------------------------------------------------------
(* The theorems.                                                           *)

\* Every step keeps the invariant.
LEMMA NextLines == TypeOK /\ LineInv /\ [Next]_vars => TypeOK' /\ LineInv'
<1> SUFFICES ASSUME TypeOK, LineInv, [Next]_vars PROVE TypeOK' /\ LineInv'
  OBVIOUS
<1>1. ASSUME NEW c \in Call, Twilio(c) PROVE TypeOK' /\ LineInv'
  BY <1>1, IncomingKeeps, StartKeeps, EndingsKeep, TransferKeeps DEF Twilio
<1>2. ASSUME NEW c \in Call, Handler(c) PROVE TypeOK' /\ LineInv'
  BY <1>2, StartKeeps, SessionStartsKeeps, FallbackKeeps, EndingsKeep DEF Handler
<1>3. ASSUME NEW c \in Call, Finalizer(c) \/ Agent(c) PROVE TypeOK' /\ LineInv'
  BY <1>3, FinalKeeps, TransferKeeps DEF Finalizer, Agent
<1>4. ASSUME NEW c \in Call, Transfer(c) \/ CloseStaleCall(c) PROVE TypeOK' /\ LineInv'
  BY <1>4, TransferKeeps, FallbackKeeps, SweepKeeps DEF Transfer
<1>5. CASE UNCHANGED vars
  <2>1. TypeOK'
    BY <1>5 DEF vars, TypeOK
  <2>2. LogsKept /\ KnownCalls'
    BY <1>5 DEF vars, LogsKept, LineInv, KnownCalls, Logged
  <2> QED BY <1>5, <2>1, <2>2, SameLines DEF vars, LineInv
<1> QED BY <1>1, <1>2, <1>3, <1>4, <1>5, RestartsKeep DEF Next

\* The invariant holds of every behaviour.
LEMMA LineInvHolds == Spec => [](TypeOK /\ LineInv)
BY InitLines, NextLines, PTL DEF Spec

\* Every reachable state of the bridge has the shapes of TypeOK; activeCalls and
\* callsByBusiness never fall below zero.
THEOREM BridgeTypes == Spec => []TypeOK
BY LineInvHolds, PTL

\* activeCalls and callsByBusiness are the numbers of calls that took a line and
\* have not given it back, and every session has one, in whatever order hang-ups,
\* stop frames, refusals, failed starts and restarts come (finalizeCall).
THEOREM LinesAlwaysMatch == Spec => []LinesMatchCalls
<1>1. LineInv => LinesMatchCalls
  BY DEF LineInv
<1> QED BY <1>1, LineInvHolds, PTL

-----------------------------------------------------------------------------
(* What the log says.                                                      *)

\* The verdict on a call is on its log, and the finalizer holds what the log
\* says, unless the call was crossed.
VerdictStands(c) ==
  /\ ~Logged(c) => verdict[c] = "in_progress"
  /\ c \notin crossed =>
       /\ Logged(c) /\ verdict[c] # "in_progress" => logs[c].outcome = verdict[c]
       /\ conn[c].fin = "write" => conn[c].found = logs[c].outcome

VerdictsStand == \A c \in Call : VerdictStands(c)

\* What a step does to the finalizer of the calls it is not about.
FinalizersKept ==
  \A d \in Call : conn'[d].fin = "write" =>
                    conn[d].fin = "write" /\ conn'[d].found = conn[d].found

\* A step that writes no outcome.
LEMMA NoVerdict ==
  ASSUME VerdictsStand, FinalizersKept, UNCHANGED <<logs, verdict, crossed>>
  PROVE  VerdictsStand'
BY DEF VerdictsStand, VerdictStands, FinalizersKept, Logged

\* A handler writes the outcome of a call.
LEMMA VerdictWritten ==
  ASSUME TypeOK, VerdictsStand, FinalizersKept, NEW c \in Call, NEW o \in Outcome,
         Logged(c), Writes(c, o)
  PROVE  VerdictsStand'
<1> DEFINE l == [logs[c] EXCEPT !.outcome = o]
<1>1. logs[c] \in Log
  BY DEF TypeOK, Logged
<1>2. l # NoLog /\ l.outcome = o
  BY <1>1, LogFacts DEF Log
<1>3. /\ \A d \in Call : logs'[d] = IF d = c THEN l ELSE logs[d]
      /\ \A d \in Call : verdict'[d] = IF d = c THEN o ELSE verdict[d]
  BY DEF Writes, TypeOK
<1>4. crossed' = IF conn[c].fin = "write" THEN crossed \cup {c} ELSE crossed
  BY DEF Writes
<1> HIDE DEF l
<1>5. ASSUME NEW d \in Call PROVE VerdictStands(d)'
  BY <1>2, <1>3, <1>4 DEF VerdictsStand, VerdictStands, FinalizersKept, Logged
<1> QED BY <1>5 DEF VerdictsStand

\* The assignments to one connection that leave its finalizer alone.
LEMMA FinalizerFacts ==
  ASSUME TypeOK, NEW c \in Call, NEW k \in Connection, conn' = [conn EXCEPT ![c] = k],
         k.fin = "write" => conn[c].fin = "write" /\ k.found = conn[c].found
  PROVE  FinalizersKept
BY DEF TypeOK, FinalizersKept

\* The stream opens, the start handler goes on, or Google ends the session.
LEMMA StartVerdicts ==
  ASSUME TypeOK, LineInv, VerdictsStand, NEW c \in Call,
         \/ Open(c) \/ StartFrame(c) \/ Admit(c) \/ Refuse(c) \/ SessionStarts(c)
         \/ SessionFails(c) \/ SessionEnds(c) \/ Unavailable(c)
  PROVE  VerdictsStand'
<1>0. conn \in [Call -> Connection] /\ Logged(c)
  BY Busyness
     DEF TypeOK, Open, StartFrame, Admit, Refuse, SessionStarts, SessionFails,
         SessionEnds, Unavailable
<1>1. FinalizersKept
  BY <1>0
     DEF FinalizersKept, Open, StartFrame, Admit, Refuse, SessionStarts,
         SessionFails, SessionEnds, Unavailable, Line, Connection, WriteLog,
         WriteCallback
<1>2. \/ UNCHANGED <<logs, verdict, crossed>>
      \/ \E o \in Outcome : Writes(c, o)
  BY DEF Open, StartFrame, Admit, Refuse, SessionStarts, SessionFails, SessionEnds,
         Unavailable, WriteLog, WriteCallback, Outcome
<1> QED BY <1>0, <1>1, <1>2, NoVerdict, VerdictWritten

\* What the agent asks for, the phone that rings for it, and the sweep.
LEMMA AskVerdicts ==
  ASSUME TypeOK, LineInv, VerdictsStand, NEW c \in Call,
         \/ NoteAsked(c) \/ NoteWrite(c) \/ TransferAsked(c) \/ Redirect(c)
         \/ RecordTransfer(c) \/ Fallback(c) \/ DialEnds(c) \/ DialMissed(c)
         \/ CloseStaleCall(c)
  PROVE  VerdictsStand'
<1>0. conn \in [Call -> Connection] /\ Logged(c)
  BY Busyness
     DEF TypeOK, NoteAsked, NoteWrite, TransferAsked, Redirect, RecordTransfer,
         Fallback, DialEnds, DialMissed, CloseStaleCall
<1>1. FinalizersKept
  BY <1>0
     DEF FinalizersKept, NoteAsked, NoteWrite, TransferAsked, Redirect,
         RecordTransfer, Fallback, DialEnds, DialMissed, CloseStaleCall, Connection,
         WriteLog, WriteCallback
<1>2. \/ UNCHANGED <<logs, verdict, crossed>>
      \/ \E o \in Outcome : Writes(c, o)
  BY DEF NoteAsked, NoteWrite, TransferAsked, Redirect, RecordTransfer, Fallback,
         DialEnds, DialMissed, CloseStaleCall, WriteLog, WriteCallback, Outcome
<1> QED BY <1>0, <1>1, <1>2, NoVerdict, VerdictWritten

\* finalizeCall sets out to read the log.
LEMMA EndVerdicts ==
  ASSUME TypeOK, LineInv, VerdictsStand, NEW c \in Call, HangUp(c) \/ Stop(c) \/ Bye(c)
  PROVE  VerdictsStand'
<1>1. conn \in [Call -> Connection]
  BY DEF TypeOK
<1>2. Finalized(c).fin = "write" => conn[c].fin = "write" /\ Finalized(c).found = conn[c].found
  BY <1>1 DEF Finalized, Connection
<1>3. FinalizersKept
  BY <1>1, <1>2, FinalizedFacts DEF FinalizersKept, HangUp, Stop, Bye, Connection
<1> QED BY <1>3, NoVerdict DEF HangUp, Stop, Bye

\* The finalizer reads the log, and writes what it read unless that was
\* 'in_progress'.
LEMMA FinalVerdicts ==
  ASSUME TypeOK, LineInv, VerdictsStand, NEW c \in Call, FinalRead(c) \/ FinalWrite(c)
  PROVE  VerdictsStand'
<1>1. conn \in [Call -> Connection] /\ Logged(c) /\ logs[c] \in Log
  BY Busyness DEF TypeOK, FinalRead, FinalWrite, Logged
<1>2. CASE FinalRead(c)
  <2>1. /\ \A d \in Call \ {c} : conn'[d] = conn[d]
        /\ conn'[c].found = logs[c].outcome
    BY <1>1, <1>2 DEF FinalRead, Connection
  <2> QED BY <1>2, <2>1 DEF FinalRead, VerdictsStand, VerdictStands, Logged
<1>3. CASE FinalWrite(c)
  <2> DEFINE o == FinalOutcome(conn[c].found)
             l == [logs[c] EXCEPT !.outcome = o]
  <2>1. o \in Outcome
    BY <1>1 DEF FinalOutcome, Outcome, Connection
  <2>2. l # NoLog /\ l.outcome = o
    BY <1>1, <2>1, LogFacts DEF Log
  <2>3. \A d \in Call : logs'[d] = IF d = c THEN l ELSE logs[d]
    BY <1>3 DEF FinalWrite, TypeOK
  <2>4. conn[c].fin = "write" /\ \A d \in Call \ {c} : conn'[d] = conn[d]
    BY <1>1, <1>3 DEF FinalWrite
  <2>5. conn'[c].fin = "none"
    BY <1>1, <1>3 DEF FinalWrite, Connection
  <2>6. UNCHANGED <<verdict, crossed>>
    BY <1>3 DEF FinalWrite
  <2>7. c \notin crossed /\ verdict[c] # "in_progress" => o = verdict[c]
    BY <1>1, <2>4 DEF VerdictsStand, VerdictStands, FinalOutcome
  <2> HIDE DEF l, o
  <2> QED BY <2>2, <2>3, <2>4, <2>5, <2>6, <2>7 DEF VerdictsStand, VerdictStands, Logged
<1> QED BY <1>2, <1>3

\* A new call, a crash, a drain.
LEMMA RestVerdicts ==
  ASSUME TypeOK, LineInv, VerdictsStand,
         \/ \E c \in Call, t \in Business : Incoming(c, t)
         \/ Crash \/ BeginDrain \/ Exit \/ UNCHANGED vars
  PROVE  VerdictsStand'
<1>1. CASE Crash \/ BeginDrain \/ Exit \/ UNCHANGED vars
  <2>1. FinalizersKept
    BY <1>1, FreshFacts DEF FinalizersKept, Crash, BeginDrain, Exit, ProcessGone, vars
  <2> QED BY <1>1, <2>1, NoVerdict DEF Crash, BeginDrain, Exit, ProcessGone, vars
<1>2. ASSUME NEW c \in Call, NEW t \in Business, Incoming(c, t)
      PROVE  VerdictsStand'
  <2>1. \A d \in Call \ {c} : logs'[d] = logs[d]
    BY <1>2 DEF Incoming, TypeOK
  <2>2. conn[c].fin # "write" /\ verdict[c] = "in_progress"
    BY <1>2, Busyness DEF Incoming, VerdictsStand, VerdictStands
  <2>3. UNCHANGED <<conn, verdict, crossed>>
    BY <1>2 DEF Incoming
  <2> QED BY <2>1, <2>2, <2>3 DEF VerdictsStand, VerdictStands, Logged
<1> QED BY <1>1, <1>2
-----------------------------------------------------------------------------
(* Callbacks for transfers nobody answered.                                *)

\* The callback is there, or its webhook has still to write it.
Answered(c) == c \in callbacks \/ dial[c] = "missedLogged"

\* Nothing happens to a call before its stream; a phone is rung once for it; and
\* whoever says that nobody answered has the callback or has it to write.
CallbackPromised(c) ==
  /\ conn[c].socket = "none" =>
       /\ conn[c].start = "none" /\ conn[c].gemini = "none"
       /\ conn[c].transfer = "none" /\ dial[c] = "none"
  /\ dial[c] # "none" => conn[c].transfer \in {"record", "fallback", "done"}
  /\ dial[c] = "missedCalledBack" => c \in callbacks
  /\ Logged(c) /\ logs[c].outcome = "transfer_failed" => Answered(c)
  /\ conn[c].fin = "write" /\ conn[c].found = "transfer_failed" => Answered(c)

CallbacksPromised == \A c \in Call : c \notin cut => CallbackPromised(c)

\* The step is about c.
OnlyAbout(c) ==
  /\ \A d \in Call \ {c} :
       conn'[d] = conn[d] /\ dial'[d] = dial[d] /\ logs'[d] = logs[d]
  /\ callbacks \subseteq callbacks' /\ cut' = cut

\* Such a step need only be looked at where it acts.
LEMMA OneCall ==
  ASSUME CallbacksPromised, NEW c \in Call, OnlyAbout(c),
         c \notin cut /\ CallbackPromised(c) => CallbackPromised(c)'
  PROVE  CallbacksPromised'
BY DEF CallbacksPromised, CallbackPromised, OnlyAbout, Answered, Logged

\* The outcome of one log is written.
LEMMA LogWritten ==
  ASSUME TypeOK, NEW c \in Call, NEW o \in Outcome, Logged(c),
         logs' = [logs EXCEPT ![c].outcome = o]
  PROVE  logs'[c] # NoLog /\ logs'[c].outcome = o /\ \A d \in Call \ {c} : logs'[d] = logs[d]
<1> DEFINE l == [logs[c] EXCEPT !.outcome = o]
<1>1. logs[c] \in Log
  BY DEF TypeOK, Logged
<1>2. l # NoLog /\ l.outcome = o
  BY <1>1, LogFacts DEF Log
<1>3. logs' = [logs EXCEPT ![c] = l]
  OBVIOUS
<1> HIDE DEF l
<1> QED BY <1>2, <1>3 DEF TypeOK

\* Steps of the start handler that write nothing.
LEMMA StartCallbacks ==
  ASSUME TypeOK, LineInv, CallbacksPromised, NEW c \in Call,
         \/ Open(c) \/ StartFrame(c) \/ Admit(c) \/ SessionStarts(c)
         \/ SessionFails(c) \/ SessionEnds(c) 
  PROVE  CallbacksPromised'
<1>1. /\ conn \in [Call -> Connection]
      /\ UNCHANGED <<logs, callbacks, dial, cut>>
  BY DEF TypeOK, Open, StartFrame, Admit, SessionStarts, SessionFails, SessionEnds
<1>2. OnlyAbout(c)
  BY <1>1
     DEF OnlyAbout, Open, StartFrame, Admit, SessionStarts, SessionFails,
         SessionEnds, Line
<1>3. c \notin cut /\ CallbackPromised(c) => CallbackPromised(c)'
  BY <1>1
     DEF CallbackPromised, Answered, Logged, Open, StartFrame, Admit, SessionStarts,
         SessionFails, SessionEnds, Line, Connection
<1> QED BY <1>2, <1>3, OneCall

\* A number is rung, once for each call.
LEMMA AskCallbacks ==
  ASSUME TypeOK, LineInv, CallbacksPromised, NEW c \in Call,
         \/ NoteAsked(c) \/ TransferAsked(c) \/ Redirect(c) \/ DialEnds(c)
  PROVE  CallbacksPromised'
<1>1. /\ conn \in [Call -> Connection] /\ dial \in [Call -> DialSteps] /\ callbacks \subseteq callbacks'
      /\ UNCHANGED <<logs, cut>>
  BY DEF TypeOK, NoteAsked, TransferAsked, Redirect, DialEnds, DialSteps
<1>2. OnlyAbout(c)
  BY <1>1 DEF OnlyAbout, NoteAsked, TransferAsked, Redirect, DialEnds
<1>3. c \notin cut /\ CallbackPromised(c) => CallbackPromised(c)'
  <2>1. conn[c] \in Connection /\ (Answered(c) => Answered(c)' \/ dial'[c] # dial[c])
    BY <1>1 DEF Answered
  <2>2. CASE NoteAsked(c) \/ TransferAsked(c)
    BY <1>1, <2>1, <2>2
       DEF CallbackPromised, Answered, Logged, NoteAsked, TransferAsked, Connection
  <2>3. CASE Redirect(c)
    <3>1. /\ conn[c].transfer = "redirecting" /\ dial'[c] \in {dial[c], "ringing"}
          /\ conn'[c].transfer \in {"record", "fallback"}
          /\ conn'[c].socket = conn[c].socket /\ conn'[c].start = conn[c].start
          /\ conn'[c].gemini = conn[c].gemini /\ conn'[c].fin = conn[c].fin
          /\ conn'[c].found = conn[c].found
      BY <1>1, <2>3 DEF Redirect, Connection
    <3>2. CallbackPromised(c) => dial[c] = "none"
      BY <3>1 DEF CallbackPromised
    <3> QED BY <1>1, <3>1, <3>2 DEF CallbackPromised, Answered, Logged
  <2>4. CASE DialEnds(c)
    <3>1. dial[c] = "ringing" /\ dial'[c] \in {"done", "missed"} /\ conn' = conn
      BY <1>1, <2>4 DEF DialEnds
    <3> QED BY <1>1, <3>1 DEF CallbackPromised, Answered, Logged
  <2> QED BY <2>2, <2>3, <2>4
<1> QED BY <1>2, <1>3, OneCall

\* The handlers that write another outcome than 'transfer_failed'.
LEMMA WriteCallbacks ==
  ASSUME TypeOK, LineInv, CallbacksPromised, NEW c \in Call,
         \/ Refuse(c) \/ NoteWrite(c) \/ RecordTransfer(c) \/ CloseStaleCall(c)
         \/ Unavailable(c) \/ Fallback(c)
  PROVE  CallbacksPromised'
<1>1. /\ conn \in [Call -> Connection] /\ Logged(c) /\ callbacks \subseteq callbacks'
      /\ UNCHANGED <<dial, cut>>
  BY Busyness
     DEF TypeOK, Refuse, NoteWrite, RecordTransfer, CloseStaleCall, Unavailable,
         Fallback, WriteLog, WriteCallback
<1>2. \/ logs' = logs
      \/ \E o \in Outcome \ {"transfer_failed"} : logs' = [logs EXCEPT ![c].outcome = o]
  BY DEF Refuse, NoteWrite, RecordTransfer, CloseStaleCall, Unavailable, Fallback,
         WriteLog, WriteCallback, Writes, Outcome
<1>3. /\ \A d \in Call \ {c} : logs'[d] = logs[d]
      /\ logs' = logs \/ (logs'[c] # NoLog /\ logs'[c].outcome # "transfer_failed")
  BY <1>1, <1>2, LogWritten
<1>4. OnlyAbout(c)
  BY <1>1, <1>3
     DEF OnlyAbout, Refuse, NoteWrite, RecordTransfer, CloseStaleCall, Unavailable,
         Fallback, WriteLog, WriteCallback, Line
<1>5. c \notin cut /\ CallbackPromised(c) => CallbackPromised(c)'
  <2>1. /\ conn'[c].socket = conn[c].socket /\ conn'[c].fin = conn[c].fin
        /\ conn'[c].gemini = conn[c].gemini /\ conn'[c].found = conn[c].found
        /\ conn[c].start = "none" => conn'[c].start = "none"
        /\ conn[c].transfer = "none" => conn'[c].transfer = "none"
        /\ conn[c].transfer \in {"record", "fallback", "done"}
             => conn'[c].transfer \in {"record", "fallback", "done"}
    BY <1>1 DEF Refuse, NoteWrite, RecordTransfer, CloseStaleCall, Unavailable,
                Fallback, WriteLog, WriteCallback, Line, Connection
  <2> QED BY <1>1, <1>3, <2>1 DEF CallbackPromised, Answered, Logged
<1> QED BY <1>4, <1>5, OneCall

\* The webhook that hears that nobody answered writes both.
LEMMA MissedCallbacks ==
  ASSUME TypeOK, LineInv, CallbacksPromised, NEW c \in Call, DialMissed(c)
  PROVE  CallbacksPromised'
<1>1. /\ conn' = conn /\ dial \in [Call -> DialSteps] /\ Logged(c) /\ callbacks \subseteq callbacks'
      /\ cut' = cut
  BY Busyness DEF TypeOK, DialMissed, DialSteps, MissedCallback
<1>2. \A d \in Call \ {c} : logs'[d] = logs[d]
  BY <1>1, LogWritten DEF DialMissed, Writes, Outcome
<1>4. OnlyAbout(c)
  BY <1>1, <1>2 DEF OnlyAbout, DialMissed
<1>5. c \notin cut /\ CallbackPromised(c) => CallbackPromised(c)'
  <2>1. \/ /\ dial[c] = "missed" /\ dial'[c] = "missedLogged"
        \/ /\ dial[c] = "missedCalledBack" /\ dial'[c] = "done" /\ callbacks' = callbacks
        \/ /\ dial[c] \in {"missed", "missedLogged"} /\ logs' = logs
           /\ dial'[c] \in {"missedCalledBack", "done"} /\ c \in callbacks'
    BY <1>1 DEF DialMissed, MissedCallback
  <2> QED BY <1>1, <2>1 DEF CallbackPromised, Answered, Logged
<1> QED BY <1>4, <1>5, OneCall

\* finalizeCall sets out to read the log.
LEMMA EndCallbacks ==
  ASSUME TypeOK, LineInv, CallbacksPromised, NEW c \in Call, HangUp(c) \/ Stop(c) \/ Bye(c)
  PROVE  CallbacksPromised'
<1>1. /\ conn \in [Call -> Connection]
      /\ UNCHANGED <<logs, callbacks, dial, cut>>
  BY DEF TypeOK, HangUp, Stop, Bye
<1>2. OnlyAbout(c)
  BY <1>1 DEF OnlyAbout, HangUp, Stop, Bye
<1>3. c \notin cut /\ CallbackPromised(c) => CallbackPromised(c)'
  <2> DEFINE f == Finalized(c)
  <2>1. /\ f \in Connection /\ f.socket = conn[c].socket /\ f.start = conn[c].start
        /\ f.transfer = conn[c].transfer /\ (conn[c].gemini = "none" => f.gemini = "none")
        /\ f.fin = "write" => conn[c].fin = "write" /\ f.found = conn[c].found
    <3>1. CASE conn[c].finalized
      BY <1>1, <3>1, FinalizedFacts DEF Finalized
    <3>2. CASE ~conn[c].finalized
      <4> DEFINE g == ClosesSession(conn[c].gemini)
                 x == IF conn[c].known THEN "read" ELSE "none"
      <4>1. /\ x # "write" /\ (conn[c].gemini = "none" => g = "none")
            /\ f = [conn[c] EXCEPT !.finalized = TRUE, !.counted = FALSE,
                                   !.gemini = g, !.fin = x]
        BY <3>2 DEF Finalized, ClosesSession
      <4>2. conn[c] \in Connection /\ f \in Connection
        BY <1>1, FinalizedFacts
      <4> HIDE DEF f, g, x
      <4> QED BY <4>1, <4>2 DEF Connection
    <3> QED BY <3>1, <3>2
  <2> HIDE DEF f
  <2>2. \/ conn' = [conn EXCEPT ![c] = [f EXCEPT !.socket = "closed"]]
        \/ conn' = [conn EXCEPT ![c] = f]
        \/ conn[c].start = "bye" /\ conn' = [conn EXCEPT ![c] = [f EXCEPT !.start = "done"]]
    BY DEF HangUp, Stop, Bye, f
  <2> QED BY <1>1, <2>1, <2>2 DEF CallbackPromised, Answered, Logged, Connection
<1> QED BY <1>2, <1>3, OneCall

\* The finalizer writes back what it read.
LEMMA FinalCallbacks ==
  ASSUME TypeOK, LineInv, CallbacksPromised, NEW c \in Call, FinalRead(c) \/ FinalWrite(c)
  PROVE  CallbacksPromised'
<1>1. /\ conn \in [Call -> Connection] /\ Logged(c) /\ logs[c] \in Log
      /\ UNCHANGED <<callbacks, dial, cut>>
  BY Busyness DEF TypeOK, FinalRead, FinalWrite, Logged
<1>2. FinalOutcome(conn[c].found) \in Outcome
  BY <1>1 DEF FinalOutcome, Outcome, Connection
<1>3. \/ logs' = logs /\ FinalRead(c)
      \/ FinalWrite(c) /\ logs'[c] # NoLog /\ logs'[c].outcome = FinalOutcome(conn[c].found)
            /\ \A d \in Call \ {c} : logs'[d] = logs[d]
  BY <1>1, <1>2, LogWritten DEF FinalRead, FinalWrite
<1>4. OnlyAbout(c)
  BY <1>1, <1>3 DEF OnlyAbout, FinalRead, FinalWrite
<1>5. c \notin cut /\ CallbackPromised(c) => CallbackPromised(c)'
  <2>1. CASE FinalRead(c)
    BY <1>1, <1>3, <2>1 DEF CallbackPromised, Answered, Logged, FinalRead, Connection
  <2>2. CASE FinalWrite(c)
    BY <1>1, <1>3, <2>2
       DEF CallbackPromised, Answered, Logged, FinalWrite, Connection, FinalOutcome
  <2> QED BY <2>1, <2>2 DEF FinalRead, FinalWrite
<1> QED BY <1>4, <1>5, OneCall

\* The process ends: calls it was handling are cut; the others have no phone
\* ringing.
LEMMA RestCallbacks ==
  ASSUME TypeOK, LineInv, CallbacksPromised,
         \/ \E c \in Call, t \in Business : Incoming(c, t)
         \/ Crash \/ BeginDrain \/ Exit \/ UNCHANGED vars
  PROVE  CallbacksPromised'
<1>1. CASE BeginDrain \/ UNCHANGED vars
  BY <1>1 DEF CallbacksPromised, CallbackPromised, Answered, Logged, BeginDrain, vars
<1>2. ASSUME NEW c \in Call, NEW t \in Business, Incoming(c, t)
      PROVE  CallbacksPromised'
  <2>1. /\ \A d \in Call \ {c} : logs'[d] = logs[d]
        /\ logs'[c] # NoLog => logs'[c].outcome = "in_progress"
    BY <1>2 DEF Incoming, TypeOK
  <2>2. UNCHANGED <<callbacks, dial, conn, cut>>
    BY <1>2 DEF Incoming
  <2>3. OnlyAbout(c) /\ (CallbackPromised(c) => CallbackPromised(c)')
    BY <2>1, <2>2 DEF OnlyAbout, CallbackPromised, Logged, Answered
  <2> QED BY <2>3, OneCall
<1>3. CASE Crash \/ Exit
  <2>1. /\ \A d \in Call : conn'[d] = Fresh
        /\ \A d \in Call : dial[d] = "none" => dial'[d] = "none"
        /\ \A d \in Call : d \notin cut' =>
             d \notin cut /\ (Logged(d) => conn[d].socket = "none")
        /\ UNCHANGED <<logs, callbacks>>
    BY <1>3 DEF Crash, Exit, ProcessGone
  <2>2. ASSUME NEW d \in Call, d \notin cut' PROVE CallbackPromised(d)'
    <3>1. CallbackPromised(d) /\ dial[d] = "none"
      BY <2>1, <2>2, Busyness DEF CallbacksPromised, CallbackPromised
    <3> QED BY <2>1, <3>1, FreshFacts DEF CallbackPromised, Answered, Logged
  <2> QED BY <2>2 DEF CallbacksPromised
<1> QED BY <1>1, <1>2, <1>3

-----------------------------------------------------------------------------
(* What the log says, of every behaviour.                                  *)

\* Every step keeps both invariants.
LEMMA NextVerdicts ==
  ASSUME TypeOK, LineInv, VerdictsStand, CallbacksPromised, [Next]_vars
  PROVE  VerdictsStand' /\ CallbacksPromised'
<1>1. ASSUME NEW c \in Call, Twilio(c) PROVE VerdictsStand' /\ CallbacksPromised'
  BY <1>1, StartVerdicts, AskVerdicts, EndVerdicts, RestVerdicts,
     StartCallbacks, AskCallbacks, EndCallbacks, MissedCallbacks, RestCallbacks DEF Twilio
<1>2. ASSUME NEW c \in Call, Handler(c) PROVE VerdictsStand' /\ CallbacksPromised'
  BY <1>2, StartVerdicts, EndVerdicts, StartCallbacks, WriteCallbacks, EndCallbacks
     DEF Handler
<1>3. ASSUME NEW c \in Call, Finalizer(c) \/ Agent(c)
      PROVE  VerdictsStand' /\ CallbacksPromised'
  BY <1>3, FinalVerdicts, StartVerdicts, AskVerdicts,
     FinalCallbacks, StartCallbacks, AskCallbacks DEF Finalizer, Agent
<1>4. ASSUME NEW c \in Call, Transfer(c) \/ CloseStaleCall(c)
      PROVE  VerdictsStand' /\ CallbacksPromised'
  BY <1>4, AskVerdicts, AskCallbacks, WriteCallbacks DEF Transfer
<1>5. CASE Crash \/ BeginDrain \/ Exit \/ UNCHANGED vars
  BY <1>5, RestVerdicts, RestCallbacks
<1> QED BY <1>1, <1>2, <1>3, <1>4, <1>5 DEF Next

\* Both hold of every behaviour.
LEMMA VerdictsHold == Spec => [](VerdictsStand /\ CallbacksPromised)
<1>1. Init => VerdictsStand /\ CallbacksPromised
  BY FreshFacts
     DEF Init, VerdictsStand, VerdictStands, CallbacksPromised, CallbackPromised, Logged
<1>2. TypeOK /\ LineInv /\ VerdictsStand /\ CallbacksPromised /\ [Next]_vars
        => (VerdictsStand /\ CallbacksPromised)'
  BY NextVerdicts
<1> QED BY <1>1, <1>2, LineInvHolds, PTL DEF Spec

\* What was found out about a call is what its log says in the end, however the
\* handlers, the finalizer, the transfer's webhook and the stale sweep take turns,
\* unless the log was written between the finalizer's read and its write.
THEOREM OutcomesStand == Spec => []OutcomeStands
<1>1. VerdictsStand => OutcomeStands
  BY DEF VerdictsStand, VerdictStands, OutcomeStands, Over
<1> QED BY <1>1, VerdictsHold, PTL

\* A log that says 'transfer_failed' has its callback (POST /voice/transfer-result),
\* whichever of the two was written first, unless the process ended in between.
THEOREM CallbacksAsLogged == Spec => []CallbackAsLogged
<1>1. CallbacksPromised => CallbackAsLogged
  BY DEF CallbacksPromised, CallbackPromised, CallbackAsLogged, Answered, Over, Busy
<1> QED BY <1>1, VerdictsHold, PTL
=============================================================================
