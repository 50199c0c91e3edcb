---------------------------- MODULE BillingProofs ----------------------------
(***************************************************************************)
(* Closing and charging a billing period, proved for every number of       *)
(* handlers, periods, retries and restarts: one close charges each period  *)
(* at most once, no finished period is left without its invoice, and money *)
(* is taken at most once for an invoice whose charge met no mishap.        *)
(***************************************************************************)
EXTENDS Billing, FiniteSetTheorems, TLAPS

-----------------------------------------------------------------------------
(* The inductive invariant.                                                *)

ForAPeriod == {"previous", "insert", "advance", "charge", "write", "account",
               "retry", "retried"}

\* What a handler in flight knows that its next writes rely on.
Knows(q) ==
  /\ proc[q].pc \in ForAPeriod => proc[q].period \in Period
  /\ proc[q].pc \in {"write", "retried"} => proc[q].result # "none"
  /\ proc[q].pc \in {"event", "alert"} => proc[q].intent \in Intent

\* A close that may move the period on has its invoice in place.
InvoiceFirst(q) ==
  proc[q].pc = "advance" => invoices[proc[q].period].status # "none"

\* A close that may charge moved the period on, and nobody charged before it.
MayCharge(q) ==
  proc[q].pc = "charge" =>
    proc[q].period < biz.start /\ closes[proc[q].period] = 0

OneCharger ==
  \A q, o \in Process :
    proc[q].pc = "charge" /\ proc[o].pc = "charge" /\ proc[q].period = proc[o].period
      => q = o

ChargedIsOver == \A p \in Period : closes[p] > 0 => p < biz.start

CloseInv ==
  /\ \A q \in Process : Knows(q) /\ InvoiceFirst(q) /\ MayCharge(q)
  /\ OneCharger /\ ChargedIsOver /\ ClosedOnce /\ NoPeriodSkipped

-----------------------------------------------------------------------------
(* Types.                                                                  *)

Steps == {"idle", "previous", "insert", "advance", "charge", "write", "account",
          "retry", "retried", "clear", "event", "alert", "cancel"}

Results == {"none", "pending", "paid", "failed", "processing"}

\* A handler's memory when it is idle, and after the steps that change it.
LEMMA ProcessFacts ==
  /\ Idle \in ProcessState
  /\ \A s \in ProcessState, pc \in Steps : [s EXCEPT !.pc = pc] \in ProcessState
  /\ \A s \in ProcessState, pc \in Steps, r \in Results :
       [s EXCEPT !.pc = pc, !.result = r] \in ProcessState
  /\ \A s \in ProcessState, pc \in Steps, r \in Results, i \in Intent \cup {NoIntent} :
       [s EXCEPT !.pc = pc, !.result = r, !.intent = i] \in ProcessState
  /\ \A s \in ProcessState, pc \in Steps, p \in 0..MaxPeriod :
       [s EXCEPT !.pc = pc, !.period = p] \in ProcessState
  /\ \A s \in ProcessState, pc \in Steps, p \in 0..MaxPeriod, t \in 0..MaxTry :
       [s EXCEPT !.pc = pc, !.period = p, !.card = TRUE, !.try = t] \in ProcessState
  /\ \A s \in ProcessState, pc \in Steps, a \in Answers, i \in Intent :
       [s EXCEPT !.pc = pc, !.type = a, !.intent = i] \in ProcessState
<1>1. Idle \in ProcessState
  BY BoundsAreNumbers DEF Idle, ProcessState, Answers
<1>2. ASSUME NEW s \in ProcessState, NEW pc \in Steps PROVE [s EXCEPT !.pc = pc] \in ProcessState
  BY DEF ProcessState, Steps
<1>3. ASSUME NEW s \in ProcessState, NEW pc \in Steps, NEW r \in Results
      PROVE  [s EXCEPT !.pc = pc, !.result = r] \in ProcessState
  BY DEF ProcessState, Steps, Results
<1>4. ASSUME NEW s \in ProcessState, NEW pc \in Steps, NEW r \in Results,
             NEW i \in Intent \cup {NoIntent}
      PROVE  [s EXCEPT !.pc = pc, !.result = r, !.intent = i] \in ProcessState
  BY DEF ProcessState, Steps, Results
<1>5. ASSUME NEW s \in ProcessState, NEW pc \in Steps, NEW p \in 0..MaxPeriod
      PROVE  [s EXCEPT !.pc = pc, !.period = p] \in ProcessState
  BY DEF ProcessState, Steps
<1>6. ASSUME NEW s \in ProcessState, NEW pc \in Steps, NEW p \in 0..MaxPeriod, NEW t \in 0..MaxTry
      PROVE  [s EXCEPT !.pc = pc, !.period = p, !.card = TRUE, !.try = t] \in ProcessState
  BY DEF ProcessState, Steps
<1>7. ASSUME NEW s \in ProcessState, NEW pc \in Steps, NEW a \in Answers, NEW i \in Intent
      PROVE  [s EXCEPT !.pc = pc, !.type = a, !.intent = i] \in ProcessState
  BY DEF ProcessState, Steps
<1> QED BY <1>1, <1>2, <1>3, <1>4, <1>5, <1>6, <1>7

\* The empty books satisfy the invariant.
LEMMA InitClose == Init => TypeOK /\ CloseInv
<1> SUFFICES ASSUME Init PROVE TypeOK /\ CloseInv
  OBVIOUS
<1>1. TypeOK
  <2>1. biz \in Business
    BY BoundsAreNumbers DEF Init, Business
  <2>2. invoices \in [Period -> Invoice]
    BY DEF Init, Invoice
  <2>3. proc \in [Process -> ProcessState]
    BY ProcessFacts DEF Init
  <2>4. stripe \in [Intent -> [status : Answers, answer : Answers]]
    BY DEF Init, Answers
  <2>5. now \in 0..MaxPeriod /\ mishaps \in 0..MaxMishaps /\ closes \in [Period -> Nat]
    BY BoundsAreNumbers DEF Init
  <2>6. /\ events \subseteq [type : Answers, intent : Intent] /\ seen \subseteq events
        /\ alerts \subseteq Intent /\ risky \subseteq Period
    BY DEF Init
  <2> QED BY <2>1, <2>2, <2>3, <2>4, <2>5, <2>6 DEF TypeOK
<1>2. CloseInv
  BY BoundsAreNumbers DEF Init, CloseInv, Knows, InvoiceFirst, MayCharge, OneCharger,
     ChargedIsOver, ClosedOnce, NoPeriodSkipped, Idle, ForAPeriod, Period
<1> QED BY <1>1, <1>2

\* A step of a handler that writes nothing but its own memory.
LEMMA OnlyMemory ==
  ASSUME TypeOK, CloseInv, NEW q \in Process, NEW s \in ProcessState,
         proc' = [proc EXCEPT ![q] = s],
         UNCHANGED <<now, biz, invoices, stripe, events, alerts, mishaps, closes>>,
         risky' \subseteq Period, seen' \subseteq events,
         s.pc \in ForAPeriod => s.period \in Period,
         s.pc \in {"write", "retried"} => s.result # "none",
         s.pc \in {"event", "alert"} => s.intent \in Intent,
         s.pc = "advance" => invoices[s.period].status # "none",
         s.pc # "charge"
  PROVE  TypeOK' /\ CloseInv'
<1>1. TypeOK'
  BY DEF TypeOK
<1>2. \A o \in Process : proc'[o] = IF o = q THEN s ELSE proc[o]
  BY DEF TypeOK
<1>3. \A o \in Process : (Knows(o) /\ InvoiceFirst(o) /\ MayCharge(o))'
  BY <1>2 DEF CloseInv, Knows, InvoiceFirst, MayCharge
<1>4. OneCharger'
  BY <1>2 DEF CloseInv, OneCharger
<1>5. ChargedIsOver' /\ ClosedOnce' /\ NoPeriodSkipped'
  BY DEF CloseInv, ChargedIsOver, ClosedOnce, NoPeriodSkipped
<1> QED BY <1>1, <1>3, <1>4, <1>5 DEF CloseInv
\* A step that writes documents: periods only move on, invoices only appear, and
\* every period that is left behind has one.
LEMMA OnlyDocuments ==
  ASSUME TypeOK, TypeOK', CloseInv, NEW q \in Process, NEW s \in ProcessState,
         proc' = [proc EXCEPT ![q] = s],
         closes' = closes, biz.start <= biz'.start,
         \A p \in Period : invoices[p].status # "none" => invoices'[p].status # "none",
         \A p \in Period : biz.start <= p /\ p < biz'.start => invoices'[p].status # "none",
         s.pc \in ForAPeriod => s.period \in Period,
         s.pc \in {"write", "retried"} => s.result # "none",
         s.pc \in {"event", "alert"} => s.intent \in Intent,
         s.pc = "advance" => invoices'[s.period].status # "none",
         s.pc # "charge"
  PROVE  CloseInv'
<1>1. \A o \in Process : proc'[o] = IF o = q THEN s ELSE proc[o]
  BY DEF TypeOK
<1>2. biz.start \in Int /\ biz'.start \in Int /\ \A p \in Period : p \in Int
  BY BoundsAreNumbers DEF TypeOK, Business, Period
<1>3. \A o \in Process : Knows(o)' /\ InvoiceFirst(o)'
  BY <1>1 DEF CloseInv, Knows, InvoiceFirst, ForAPeriod
<1>4. \A o \in Process : MayCharge(o)'
  BY <1>1, <1>2 DEF CloseInv, Knows, MayCharge, ForAPeriod
<1>5. OneCharger'
  BY <1>1 DEF CloseInv, OneCharger
<1>6. ChargedIsOver' /\ ClosedOnce' /\ NoPeriodSkipped'
  BY <1>2 DEF CloseInv, ChargedIsOver, ClosedOnce, NoPeriodSkipped
<1> QED BY <1>3, <1>4, <1>5, <1>6 DEF CloseInv

\* No handler moves.
LEMMA NoHandler ==
  ASSUME TypeOK, TypeOK', CloseInv, UNCHANGED <<proc, closes, invoices>>,
         biz'.start = biz.start
  PROVE  CloseInv'
BY DEF CloseInv, Knows, InvoiceFirst, MayCharge, OneCharger, ChargedIsOver, ClosedOnce,
   NoPeriodSkipped

-----------------------------------------------------------------------------
(* The sweep.                                                              *)

\* The sweep takes up a period that is over.
LEMMA CloseStartKeeps ==
  ASSUME TypeOK, CloseInv, NEW q \in Process, CloseStart(q)
  PROVE  TypeOK' /\ CloseInv'
<1> DEFINE s == [Idle EXCEPT !.pc = FirstStep, !.period = biz.start, !.card = biz.card,
                   !.cancelling = biz.cancelAt # Never /\ biz.cancelAt <= biz.start]
<1>1. biz \in Business /\ biz.start \in Period
  BY BoundsAreNumbers DEF TypeOK, CloseStart, Due, Business, Period
<1>2. s \in ProcessState /\ s.pc = "previous" /\ s.period = biz.start
  <2>1. /\ biz.card \in BOOLEAN /\ biz.start \in 0..MaxPeriod
        /\ (biz.cancelAt # Never /\ biz.cancelAt <= biz.start) \in BOOLEAN
    BY <1>1 DEF Business
  <2>2. ASSUME NEW i \in ProcessState, NEW c \in BOOLEAN, NEW d \in BOOLEAN,
               NEW p \in 0..MaxPeriod
        PROVE  [i EXCEPT !.pc = "previous", !.period = p, !.card = c, !.cancelling = d]
                 \in ProcessState
    BY DEF ProcessState
  <2>3. s \in ProcessState
    BY <2>1, <2>2, ProcessFacts DEF FirstStep
  <2> QED BY <2>3 DEF Idle, FirstStep
<1>3. proc' = [proc EXCEPT ![q] = s] /\ risky' \subseteq Period
  BY <1>1 DEF CloseStart, TypeOK
<1>4. UNCHANGED <<now, biz, invoices, stripe, events, alerts, mishaps, closes>>
  BY DEF CloseStart
<1>5. seen' \subseteq events
  BY DEF CloseStart, TypeOK
<1> HIDE DEF s
<1> QED BY <1>1, <1>2, <1>3, <1>4, <1>5, OnlyMemory DEF ForAPeriod

\* The close reads the invoice before this one.
LEMMA ReadPreviousKeeps ==
  ASSUME TypeOK, CloseInv, NEW q \in Process, ReadPrevious(q)
  PROVE  TypeOK' /\ CloseInv'
<1> DEFINE s == [proc[q] EXCEPT !.pc = "insert",
                   !.unpaid = proc[q].period > 0 /\ Unpaid(proc[q].period - 1)]
<1>1. proc[q] \in ProcessState /\ proc[q].period \in Period
  BY DEF TypeOK, ReadPrevious, CloseInv, Knows, ForAPeriod
<1>2. s \in ProcessState /\ s.pc = "insert" /\ s.period = proc[q].period
  BY <1>1 DEF ProcessState
<1>3. proc' = [proc EXCEPT ![q] = s]
  BY <1>1 DEF ReadPrevious, TypeOK
<1>4. /\ UNCHANGED <<now, biz, invoices, stripe, events, alerts, mishaps, closes>>
      /\ UNCHANGED <<seen, risky>>
  BY DEF ReadPrevious
<1> HIDE DEF s
<1> QED BY <1>1, <1>2, <1>3, <1>4, OnlyMemory DEF ForAPeriod, TypeOK
\* The invoice is inserted, or found: from here on it is there.
LEMMA InsertInvoiceKeeps ==
  ASSUME TypeOK, CloseInv, NEW q \in Process, InsertInvoice(q)
  PROVE  TypeOK' /\ CloseInv'
<1>1. proc[q] \in ProcessState /\ proc[q].period \in Period
  BY DEF TypeOK, InsertInvoice, CloseInv, Knows, ForAPeriod
<1>2. PICK r \in Results : proc' = [proc EXCEPT ![q] = [proc[q] EXCEPT !.pc = "advance", !.result = r]]
  <2>1. invoices[proc[q].period].status \in Results
    BY <1>1 DEF TypeOK, Invoice, Results
  <2> QED BY <1>1, <2>1 DEF InsertInvoice, TypeOK, Results
<1>3. [proc[q] EXCEPT !.pc = "advance", !.result = r] \in ProcessState
  BY <1>1, ProcessFacts DEF Steps
<1>4. invoices' \in [Period -> Invoice]
  BY <1>1, SMTT(30) DEF InsertInvoice, TypeOK, Invoice
<1>5. \A p \in Period : invoices[p].status # "none" => invoices'[p].status # "none"
  BY <1>1 DEF InsertInvoice, TypeOK, Invoice
<1>6. invoices'[proc[q].period].status # "none"
  BY <1>1 DEF InsertInvoice, TypeOK, Invoice
<1>7. UNCHANGED <<now, biz, stripe, events, seen, alerts, mishaps, closes, risky>>
  BY DEF InsertInvoice
<1>8. TypeOK'
  BY <1>2, <1>3, <1>4, <1>7 DEF TypeOK
<1>9. biz'.start <= biz'.start /\ biz.start = biz'.start /\ biz.start \in Int
  BY <1>7, BoundsAreNumbers DEF TypeOK, Business
<1>10. [proc[q] EXCEPT !.pc = "advance", !.result = r].pc = "advance"
       /\ [proc[q] EXCEPT !.pc = "advance", !.result = r].period = proc[q].period
  BY <1>1 DEF ProcessState
<1>11. \A p \in Period : ~(biz.start <= p /\ p < biz'.start)
  BY <1>9, BoundsAreNumbers DEF Period
<1> QED BY <1>1, <1>2, <1>3, <1>5, <1>6, <1>7, <1>8, <1>9, <1>10, <1>11, OnlyDocuments
         DEF ForAPeriod

\* Moving the period on: the invoice is there, and whoever goes on to charge is
\* the first to do so.
LEMMA AdvanceKeeps ==
  ASSUME TypeOK, CloseInv, NEW q \in Process, Advance(q)
  PROVE  TypeOK' /\ CloseInv'
<1>0. PICK p \in Period : p = proc[q].period
  BY DEF Advance, CloseInv, Knows, ForAPeriod
<1>1. /\ proc[q] \in ProcessState /\ p = proc[q].period /\ invoices[p].status # "none"
      /\ proc[q].pc = "advance"
  BY <1>0 DEF TypeOK, Advance, CloseInv, InvoiceFirst
<1>2. /\ UNCHANGED <<now, invoices, stripe, events, seen, alerts, mishaps, closes, risky>>
      /\ Idle \in ProcessState /\ Idle.pc = "idle"
  BY ProcessFacts DEF Advance, Idle
<1>3. \A x \in Period \cup {biz.start} : x \in Int
  BY BoundsAreNumbers DEF TypeOK, Business, Period
<1>4. CASE ~StillCurrent(p)
  BY <1>1, <1>2, <1>4, OnlyMemory DEF Advance, Return, ForAPeriod, TypeOK
<1>5. CASE StillCurrent(p)
  <2>1. biz' = [biz EXCEPT !.start = p + 1, !.open = ~proc[q].cancelling] /\ biz.start = p
    BY <1>1, <1>5 DEF Advance, StillCurrent
  <2>2. p + 1 \in 0..MaxPeriod /\ (~proc[q].cancelling) \in BOOLEAN
    BY <1>1, BoundsAreNumbers DEF Period, ProcessState
  <2>3. biz' \in Business /\ biz'.start = p + 1 /\ biz.start < biz'.start
    <3>1. biz \in Business
      BY DEF TypeOK
    <3>2. ASSUME NEW b \in BOOLEAN, NEW n \in 0..MaxPeriod
          PROVE  /\ [biz EXCEPT !.start = n, !.open = b] \in Business
                 /\ [biz EXCEPT !.start = n, !.open = b].start = n
      BY <3>1 DEF Business
    <3>3. /\ [biz EXCEPT !.start = p + 1, !.open = ~proc[q].cancelling] \in Business
          /\ [biz EXCEPT !.start = p + 1, !.open = ~proc[q].cancelling].start = p + 1
      BY <2>2, <3>2, Zenon
    <3>4. biz' \in Business /\ biz'.start = p + 1
      BY <2>1, <3>3, Zenon
    <3>5. biz.start < biz'.start
      BY <1>3, <2>1, <3>4
    <3> QED BY <3>4, <3>5
  <2>4. \A x \in Period : biz.start <= x /\ x < biz'.start => x = p
    BY <1>3, <2>1, <2>3
  <2>5. CASE proc' = [proc EXCEPT ![q] = Idle]
    <3>1. TypeOK'
      BY <1>2, <2>3, <2>5 DEF TypeOK
    <3>2. biz.start <= biz'.start
      BY <1>3, <2>1, <2>3
    <3>3. \A x \in Period : biz.start <= x /\ x < biz'.start => invoices'[x].status # "none"
      BY <1>1, <1>2, <2>4
    <3>4. closes' = closes /\ invoices' = invoices
      BY <1>2
    <3> QED BY <1>2, <2>5, <3>1, <3>2, <3>3, <3>4, OnlyDocuments DEF ForAPeriod
  <2>6. CASE proc' = [proc EXCEPT ![q].pc = "charge"]
    <3> DEFINE s == [proc[q] EXCEPT !.pc = "charge"]
    <3>1. s \in ProcessState /\ s.pc = "charge" /\ s.period = p
      <4>1. s.pc = "charge" /\ s.period = p
        BY <1>1 DEF ProcessState
      <4> QED BY <1>1, <4>1, ProcessFacts DEF Steps
    <3>2. proc' = [proc EXCEPT ![q] = s]
      BY <1>1, <2>6 DEF TypeOK
    <3> HIDE DEF s
    <3>3. TypeOK'
      BY <1>2, <2>3, <3>1, <3>2 DEF TypeOK
    <3>4. \A o \in Process : proc'[o] = IF o = q THEN s ELSE proc[o]
      BY <3>2 DEF TypeOK
    <3>5. closes[p] = 0
      BY <1>1, <1>3, <2>1 DEF CloseInv, ChargedIsOver, TypeOK
    <3>6. \A o \in Process : Knows(o)' /\ InvoiceFirst(o)'
      BY <1>1, <1>2, <3>1, <3>4 DEF CloseInv, Knows, InvoiceFirst
    <3>7. \A o \in Process : MayCharge(o)'
      <4> SUFFICES ASSUME NEW o \in Process PROVE MayCharge(o)'
        OBVIOUS
      <4>1. CASE o = q
        BY <1>2, <1>3, <2>1, <2>3, <3>1, <3>4, <3>5, <4>1 DEF MayCharge
      <4>2. CASE o # q
        <5>1. proc[o].pc = "charge" => proc[o].period \in Period
          BY DEF CloseInv, Knows, ForAPeriod
        <5> QED BY <1>2, <1>3, <2>3, <3>4, <4>2, <5>1 DEF CloseInv, MayCharge
      <4> QED BY <4>1, <4>2
    <3>8. OneCharger'
      <4>1. \A o \in Process : proc[o].pc = "charge" => proc[o].period # p
        BY <1>3, <2>1 DEF CloseInv, MayCharge, Knows, ForAPeriod
      <4> QED BY <3>1, <3>4, <4>1 DEF CloseInv, OneCharger
    <3>9. ChargedIsOver' /\ ClosedOnce'
      BY <1>2, <1>3, <2>3 DEF CloseInv, ChargedIsOver, ClosedOnce
    <3>10. NoPeriodSkipped'
      BY <1>1, <1>2, <1>3, <2>1, <2>3 DEF CloseInv, NoPeriodSkipped
    <3> QED BY <3>3, <3>6, <3>7, <3>8, <3>9, <3>10 DEF CloseInv
  <2> QED BY <1>1, <1>5, <2>5, <2>6 DEF Advance, Return, Goto
<1> QED BY <1>4, <1>5
\* What chargeInvoice brings back: a result to write and perhaps an intent.
LEMMA ChargeFacts ==
  ASSUME TypeOK, NEW q \in Process, proc[q].period \in Period, NEW t \in 0..MaxTry,
         NEW pc \in {"write", "retried"}, Charge(q, t, pc)
  PROVE  /\ \E r \in Results \ {"none"}, i \in Intent \cup {NoIntent} :
              proc' = [proc EXCEPT ![q] =
                         [proc[q] EXCEPT !.pc = pc, !.result = r, !.intent = i]]
         /\ stripe' \in [Intent -> [status : Answers, answer : Answers]]
         /\ events' \subseteq [type : Answers, intent : Intent] /\ events \subseteq events'
         /\ mishaps' \in 0..MaxMishaps /\ risky' \subseteq Period
<1> DEFINE i0 == [invoice |-> proc[q].period, try |-> t]
           With(r, i) == [proc EXCEPT ![q].pc = pc, ![q].result = r, ![q].intent = i]
<1>1. i0 \in Intent
  BY DEF Intent
<1>2. \A r, i : With(r, i) = [proc EXCEPT ![q] =
                               [proc[q] EXCEPT !.pc = pc, !.result = r, !.intent = i]]
  BY DEF TypeOK
<1>3. mishaps < MaxMishaps => mishaps + 1 \in 0..MaxMishaps
  BY BoundsAreNumbers DEF TypeOK
<1>4. CASE /\ \/ proc' = With("paid", NoIntent)
              \/ proc' = With("pending", NoIntent)
           /\ UNCHANGED <<stripe, events, mishaps, risky>>
  <2>1. \E r \in Results \ {"none"}, i \in Intent \cup {NoIntent} : proc' = With(r, i)
    BY <1>4 DEF Results
  <2> HIDE DEF With
  <2>2. /\ stripe' \in [Intent -> [status : Answers, answer : Answers]]
        /\ events' \subseteq [type : Answers, intent : Intent] /\ events \subseteq events'
        /\ mishaps' \in 0..MaxMishaps /\ risky' \subseteq Period
    BY <1>4 DEF TypeOK
  <2> QED BY <1>2, <2>1, <2>2
<1>5. ASSUME NEW a \in Answers, Outcome(i0, a), Charged(i0, a),
             \/ proc' = With(ResultOf(a), i0) /\ UNCHANGED <<mishaps, risky>>
             \/ /\ mishaps < MaxMishaps /\ mishaps' = mishaps + 1
                /\ risky' = risky \cup {proc[q].period}
                /\ proc' = With("failed", NoIntent)
      PROVE  /\ \E r \in Results \ {"none"}, i \in Intent \cup {NoIntent} : proc' = With(r, i)
             /\ stripe' \in [Intent -> [status : Answers, answer : Answers]]
             /\ events' \subseteq [type : Answers, intent : Intent] /\ events \subseteq events'
             /\ mishaps' \in 0..MaxMishaps /\ risky' \subseteq Period
  <2>1. a # "none" /\ ResultOf(a) \in Results \ {"none"}
    BY <1>5 DEF Outcome, ResultOf, Answers, Results
  <2>2. \E r \in Results \ {"none"}, i \in Intent \cup {NoIntent} : proc' = With(r, i)
    BY <1>1, <1>5, <2>1 DEF Results
  <2>3. /\ stripe' \in [Intent -> [status : Answers, answer : Answers]]
        /\ events' \subseteq [type : Answers, intent : Intent] /\ events \subseteq events'
    BY <1>1, <1>5 DEF Charged, TypeOK
  <2>4. mishaps' \in 0..MaxMishaps /\ risky' \subseteq Period
    BY <1>3, <1>5 DEF TypeOK
  <2> QED BY <2>2, <2>3, <2>4
<1>6. \/ /\ \/ proc' = With("paid", NoIntent)
           \/ proc' = With("pending", NoIntent)
        /\ UNCHANGED <<stripe, events, mishaps, risky>>
      \/ \E a \in Answers :
           /\ Outcome(i0, a) /\ Charged(i0, a)
           /\ \/ proc' = With(ResultOf(a), i0) /\ UNCHANGED <<mishaps, risky>>
              \/ /\ mishaps < MaxMishaps /\ mishaps' = mishaps + 1
                 /\ risky' = risky \cup {proc[q].period}
                 /\ proc' = With("failed", NoIntent)
  BY Zenon DEF Charge
<1> HIDE DEF With, i0
<1> QED BY <1>2, <1>4, <1>5, <1>6

\* A close calls Stripe: it is the only one that may, and afterwards nobody may.
LEMMA CloseChargeKeeps ==
  ASSUME TypeOK, CloseInv, NEW q \in Process, CloseCharge(q)
  PROVE  TypeOK' /\ CloseInv'
<1>1. PICK p \in Period : p = proc[q].period
  BY DEF CloseCharge, CloseInv, Knows, ForAPeriod
<1>2. /\ proc[q] \in ProcessState /\ proc[q].pc = "charge"
      /\ p < biz.start /\ closes[p] = 0
  BY <1>1 DEF TypeOK, CloseCharge, CloseInv, MayCharge
<1>3. /\ closes' = [closes EXCEPT ![p] = @ + 1]
      /\ UNCHANGED <<now, biz, invoices, seen, alerts>>
  BY <1>1 DEF CloseCharge
<1>4. 0 \in 0..MaxTry /\ Charge(q, 0, "write")
  BY BoundsAreNumbers DEF CloseCharge
<1>5. PICK r \in Results \ {"none"}, i \in Intent \cup {NoIntent} :
        proc' = [proc EXCEPT ![q] = [proc[q] EXCEPT !.pc = "write", !.result = r, !.intent = i]]
  BY <1>1, <1>4, ChargeFacts
<1>6. /\ stripe' \in [Intent -> [status : Answers, answer : Answers]]
      /\ events' \subseteq [type : Answers, intent : Intent] /\ events \subseteq events'
      /\ mishaps' \in 0..MaxMishaps /\ risky' \subseteq Period
  BY <1>1, <1>4, ChargeFacts
<1> DEFINE s == [proc[q] EXCEPT !.pc = "write", !.result = r, !.intent = i]
<1>7. s \in ProcessState
  BY <1>2, ProcessFacts DEF Steps
<1>8. s.pc = "write" /\ s.period = p /\ s.result # "none"
  BY <1>1, <1>2 DEF ProcessState
<1> HIDE DEF s
<1>9. \A o \in Process : proc'[o] = IF o = q THEN s ELSE proc[o]
  BY <1>5 DEF TypeOK, s
<1>10. closes' \in [Period -> Nat] /\ closes'[p] = 1 /\ \A x \in Period \ {p} : closes'[x] = closes[x]
  BY <1>2, <1>3 DEF TypeOK
<1>11. TypeOK'
  BY <1>3, <1>5, <1>6, <1>7, <1>10 DEF TypeOK, s
<1>12. \A o \in Process : Knows(o)' /\ InvoiceFirst(o)'
  BY <1>3, <1>8, <1>9 DEF CloseInv, Knows, InvoiceFirst
<1>13. \A o \in Process : MayCharge(o)'
  <2> SUFFICES ASSUME NEW o \in Process, proc'[o].pc = "charge"
               PROVE  proc'[o].period < biz'.start /\ closes'[proc'[o].period] = 0
    BY DEF MayCharge
  <2>1. o # q /\ proc'[o] = proc[o]
    BY <1>8, <1>9
  <2>2. proc[o].period \in Period /\ proc[o].period # p
    BY <1>1, <1>2, <2>1 DEF CloseInv, OneCharger, Knows, ForAPeriod
  <2> QED BY <1>3, <1>10, <2>1, <2>2 DEF CloseInv, MayCharge
<1>14. OneCharger'
  BY <1>8, <1>9 DEF CloseInv, OneCharger
<1>15. ChargedIsOver' /\ ClosedOnce' /\ NoPeriodSkipped'
  BY <1>2, <1>3, <1>10 DEF CloseInv, ChargedIsOver, ClosedOnce, NoPeriodSkipped
<1> QED BY <1>11, <1>12, <1>13, <1>14, <1>15 DEF CloseInv
\* A handler writes its result to an invoice, or nothing, and goes on.
LEMMA InvoiceKeeps ==
  ASSUME TypeOK, CloseInv, NEW q \in Process, NEW s \in ProcessState,
         proc' = [proc EXCEPT ![q] = s],
         s.pc \notin {"charge", "advance"},
         s.pc \in ForAPeriod => s.period \in Period,
         s.pc \in {"write", "retried"} => s.result # "none",
         s.pc \in {"event", "alert"} => s.intent \in Intent,
         invoices' \in [Period -> Invoice],
         \A p \in Period : invoices[p].status # "none" => invoices'[p].status # "none",
         UNCHANGED <<now, biz, stripe, events, seen, alerts, mishaps, closes, risky>>
  PROVE  TypeOK' /\ CloseInv'
<1>1. TypeOK'
  BY DEF TypeOK
<1>2. biz.start <= biz'.start /\ \A p \in Period : ~(biz.start <= p /\ p < biz'.start)
  BY BoundsAreNumbers DEF TypeOK, Business, Period
<1> QED BY <1>1, <1>2, OnlyDocuments

\* The close writes what came of its charge.
LEMMA CloseWriteKeeps ==
  ASSUME TypeOK, CloseInv, NEW q \in Process, CloseWrite(q)
  PROVE  TypeOK' /\ CloseInv'
<1> DEFINE s == [proc[q] EXCEPT !.pc = "account"]
<1>1. PICK p \in Period : p = proc[q].period
  BY DEF CloseWrite, CloseInv, Knows, ForAPeriod
<1>2. /\ proc[q] \in ProcessState /\ proc[q].result \in Results \ {"none"}
      /\ proc[q].intent \in Intent \cup {NoIntent}
  BY DEF TypeOK, CloseWrite, CloseInv, Knows, ProcessState, Results
<1>3. s \in ProcessState
  BY <1>2, ProcessFacts DEF Steps
<1>4. s.pc = "account" /\ s.period = p
  BY <1>1, <1>2 DEF ProcessState
<1>5. proc' = [proc EXCEPT ![q] = s]
  BY DEF CloseWrite, Goto, TypeOK
<1>6. invoices' = [invoices EXCEPT ![p].status = proc[q].result, ![p].intent = proc[q].intent]
  BY <1>1 DEF CloseWrite
<1>7. /\ invoices' \in [Period -> Invoice]
      /\ \A x \in Period : invoices[x].status # "none" => invoices'[x].status # "none"
  BY <1>2, <1>6 DEF TypeOK, Invoice, Results
<1>8. UNCHANGED <<now, biz, stripe, events, seen, alerts, mishaps, closes, risky>>
  BY DEF CloseWrite
<1> HIDE DEF s
<1> QED BY <1>3, <1>4, <1>5, <1>7, <1>8, InvoiceKeeps

\* The business document changes and its period does not.
LEMMA AccountKeeps ==
  ASSUME TypeOK, CloseInv, NEW q \in Process, NEW s \in ProcessState,
         proc' = [proc EXCEPT ![q] = s], s.pc = "idle",
         biz' \in Business, biz'.start = biz.start,
         UNCHANGED <<now, invoices, stripe, events, seen, alerts, mishaps, closes, risky>>
  PROVE  TypeOK' /\ CloseInv'
<1>1. TypeOK'
  BY DEF TypeOK
<1>2. biz.start <= biz'.start /\ \A p \in Period : ~(biz.start <= p /\ p < biz'.start)
  BY BoundsAreNumbers DEF TypeOK, Business, Period
<1> QED BY <1>1, <1>2, OnlyDocuments DEF ForAPeriod

\* Changes of status, card and cancellation leave the period alone.
LEMMA BusinessFacts ==
  ASSUME NEW b \in Business
  PROVE  /\ \A st \in {"active", "suspended"}, re \in {"none", "billing", "cancelled"} :
              /\ [b EXCEPT !.status = st, !.reason = re] \in Business
              /\ [b EXCEPT !.status = st, !.reason = re].start = b.start
         /\ \A c \in Int \cup {Never} :
              [b EXCEPT !.cancelAt = c] \in Business /\ [b EXCEPT !.cancelAt = c].start = b.start
         /\ [b EXCEPT !.card = TRUE] \in Business /\ [b EXCEPT !.card = TRUE].start = b.start
BY DEF Business

\* The close suspends or ends the account.
LEMMA CloseAccountKeeps ==
  ASSUME TypeOK, CloseInv, NEW q \in Process, CloseAccount(q)
  PROVE  TypeOK' /\ CloseInv'
<1>1. biz \in Business
  BY DEF TypeOK
<1>2. \/ biz' = [biz EXCEPT !.status = "suspended", !.reason = "cancelled"]
      \/ biz' = [biz EXCEPT !.status = "suspended", !.reason = "billing"]
      \/ biz' = biz
  BY DEF CloseAccount
<1>3. biz' \in Business /\ biz'.start = biz.start
  BY <1>1, <1>2, BusinessFacts
<1>4. proc' = [proc EXCEPT ![q] = Idle] /\ Idle \in ProcessState /\ Idle.pc = "idle"
  BY ProcessFacts DEF CloseAccount, Return, Idle
<1>5. UNCHANGED <<now, invoices, stripe, events, seen, alerts, mishaps, closes, risky>>
  BY DEF CloseAccount
<1> QED BY <1>3, <1>4, <1>5, AccountKeeps

-----------------------------------------------------------------------------
(* The owner, the platform and Stripe.                                     *)

\* The owner's retry takes up an invoice, under the next try.
LEMMA RetryStartKeeps ==
  ASSUME TypeOK, CloseInv, NEW q \in Process, NEW p \in Period, RetryStart(q, p)
  PROVE  TypeOK' /\ CloseInv'
<1> DEFINE s == [Idle EXCEPT !.pc = "retry", !.period = p, !.card = TRUE,
                   !.try = invoices[p].retries + 1]
<1>1. p \in 0..MaxPeriod /\ invoices[p].retries + 1 \in 0..MaxTry
  BY BoundsAreNumbers DEF RetryStart, TypeOK, Invoice, Period
<1>2. s \in ProcessState
  BY <1>1, ProcessFacts DEF Steps
<1>3. s.pc = "retry" /\ s.period = p
  BY DEF Idle
<1>4. proc' = [proc EXCEPT ![q] = s] /\ risky' \subseteq Period /\ seen' \subseteq events
  BY DEF RetryStart, TypeOK
<1>5. UNCHANGED <<now, biz, invoices, stripe, events, alerts, mishaps, closes>>
  BY DEF RetryStart
<1> HIDE DEF s
<1> QED BY <1>2, <1>3, <1>4, <1>5, OnlyMemory DEF ForAPeriod

\* The owner's retry calls Stripe.
LEMMA RetryChargeKeeps ==
  ASSUME TypeOK, CloseInv, NEW q \in Process, RetryCharge(q)
  PROVE  TypeOK' /\ CloseInv'
<1>1. proc[q] \in ProcessState /\ proc[q].period \in Period /\ proc[q].try \in 0..MaxTry
  BY DEF TypeOK, RetryCharge, CloseInv, Knows, ForAPeriod, ProcessState
<1>2. Charge(q, proc[q].try, "retried")
  BY DEF RetryCharge
<1>3. PICK r \in Results \ {"none"}, i \in Intent \cup {NoIntent} :
        proc' = [proc EXCEPT ![q] = [proc[q] EXCEPT !.pc = "retried", !.result = r, !.intent = i]]
  BY <1>1, <1>2, ChargeFacts
<1>4. /\ stripe' \in [Intent -> [status : Answers, answer : Answers]]
      /\ events' \subseteq [type : Answers, intent : Intent] /\ events \subseteq events'
      /\ mishaps' \in 0..MaxMishaps /\ risky' \subseteq Period
  BY <1>1, <1>2, ChargeFacts
<1> DEFINE s == [proc[q] EXCEPT !.pc = "retried", !.result = r, !.intent = i]
<1>5. s \in ProcessState
  BY <1>1, ProcessFacts DEF Steps
<1>6. s.pc = "retried" /\ s.period = proc[q].period /\ s.result # "none"
  BY <1>1 DEF ProcessState
<1>7. UNCHANGED <<now, biz, invoices, seen, alerts, closes>>
  BY DEF RetryCharge
<1> HIDE DEF s
<1>8. proc' = [proc EXCEPT ![q] = s]
  BY <1>3 DEF s
<1>9. TypeOK'
  BY <1>4, <1>5, <1>7, <1>8 DEF TypeOK
<1>10. biz.start <= biz'.start /\ \A x \in Period : ~(biz.start <= x /\ x < biz'.start)
  BY <1>7, BoundsAreNumbers DEF TypeOK, Business, Period
<1> QED BY <1>1, <1>5, <1>6, <1>7, <1>8, <1>9, <1>10, OnlyDocuments DEF ForAPeriod
\* The owner's retry writes what came of its charge.
LEMMA RetryWriteKeeps ==
  ASSUME TypeOK, CloseInv, NEW q \in Process, RetryWrite(q)
  PROVE  TypeOK' /\ CloseInv'
<1>1. PICK p \in Period : p = proc[q].period
  BY DEF RetryWrite, CloseInv, Knows, ForAPeriod
<1>2. /\ proc[q] \in ProcessState /\ proc[q].result \in Results \ {"none"}
      /\ proc[q].intent \in Intent \cup {NoIntent} /\ proc[q].try \in Nat
  BY BoundsAreNumbers DEF TypeOK, RetryWrite, CloseInv, Knows, ProcessState, Results
<1>3. /\ invoices' \in [Period -> Invoice]
      /\ \A x \in Period : invoices[x].status # "none" => invoices'[x].status # "none"
  <2> DEFINE i == IF proc[q].intent = NoIntent THEN invoices[p].intent ELSE proc[q].intent
             v == [status |-> proc[q].result, retries |-> proc[q].try, intent |-> i]
  <2>1. i \in Intent \cup {NoIntent}
    BY <1>2 DEF TypeOK, Invoice
  <2>2. v \in Invoice /\ v.status # "none"
    BY <1>2, <2>1 DEF Invoice, Results
  <2>3. invoices' = [invoices EXCEPT ![p] = v]
    BY <1>1 DEF RetryWrite
  <2> HIDE DEF v
  <2> QED BY <2>2, <2>3 DEF TypeOK
<1>4. PICK s \in ProcessState : proc' = [proc EXCEPT ![q] = s] /\ s.pc \in {"idle", "clear"}
  <2>1. [proc[q] EXCEPT !.pc = "clear"] \in ProcessState /\ [proc[q] EXCEPT !.pc = "clear"].pc = "clear"
    <3>1. [proc[q] EXCEPT !.pc = "clear"].pc = "clear"
      BY <1>2 DEF ProcessState
    <3> QED BY <1>2, <3>1, ProcessFacts DEF Steps
  <2>2. Idle \in ProcessState /\ Idle.pc = "idle"
    BY ProcessFacts DEF Idle
  <2>3. proc' = [proc EXCEPT ![q] = Idle] \/ proc' = [proc EXCEPT ![q] = [proc[q] EXCEPT !.pc = "clear"]]
    BY DEF RetryWrite, Goto, Return, TypeOK
  <2> QED BY <2>1, <2>2, <2>3
<1>5. UNCHANGED <<now, biz, stripe, events, seen, alerts, mishaps, closes, risky>>
  BY DEF RetryWrite
<1> QED BY <1>3, <1>4, <1>5, InvoiceKeeps DEF ForAPeriod

\* A payment lifts a suspension that billing made.
LEMMA ClearHoldKeeps ==
  ASSUME TypeOK, CloseInv, NEW q \in Process, ClearHold(q)
  PROVE  TypeOK' /\ CloseInv'
<1>1. biz' = [biz EXCEPT !.status = "active", !.reason = "none"] \/ biz' = biz
  BY DEF ClearHold
<1>2. biz' \in Business /\ biz'.start = biz.start
  BY <1>1, BusinessFacts DEF TypeOK
<1>3. proc' = [proc EXCEPT ![q] = Idle] /\ Idle \in ProcessState /\ Idle.pc = "idle"
  BY ProcessFacts DEF ClearHold, Return, Idle
<1>4. UNCHANGED <<now, invoices, stripe, events, seen, alerts, mishaps, closes, risky>>
  BY DEF ClearHold
<1> QED BY <1>2, <1>3, <1>4, AccountKeeps

\* Cancelling the subscription.
LEMMA OwnerKeeps ==
  ASSUME TypeOK, CloseInv, NEW q \in Process, CancelStart(q) \/ CancelWrite(q)
  PROVE  TypeOK' /\ CloseInv'
<1>1. CASE CancelStart(q)
  <2> DEFINE s == [Idle EXCEPT !.pc = "cancel", !.period = biz.start]
  <2>1. biz.start \in 0..MaxPeriod
    BY DEF TypeOK, Business
  <2>2. s \in ProcessState
    BY <2>1, ProcessFacts DEF Steps
  <2>3. s.pc = "cancel"
    BY DEF Idle
  <2>4. /\ proc' = [proc EXCEPT ![q] = s] /\ risky' \subseteq Period /\ seen' \subseteq events
        /\ UNCHANGED <<now, biz, invoices, stripe, events, alerts, mishaps, closes>>
    BY <1>1 DEF CancelStart, TypeOK
  <2> HIDE DEF s
  <2> QED BY <2>2, <2>3, <2>4, OnlyMemory DEF ForAPeriod
<1>2. CASE CancelWrite(q)
  <2>1. proc[q].period \in Int
    BY BoundsAreNumbers DEF TypeOK, ProcessState
  <2>2. biz' = [biz EXCEPT !.cancelAt = proc[q].period]
    BY <1>2 DEF CancelWrite
  <2>3. biz' \in Business /\ biz'.start = biz.start
    BY <2>1, <2>2, BusinessFacts DEF TypeOK
  <2>4. proc' = [proc EXCEPT ![q] = Idle] /\ Idle \in ProcessState /\ Idle.pc = "idle"
    BY <1>2, ProcessFacts DEF CancelWrite, Return, Idle
  <2>5. UNCHANGED <<now, invoices, stripe, events, seen, alerts, mishaps, closes, risky>>
    BY <1>2 DEF CancelWrite
  <2> QED BY <2>3, <2>4, <2>5, AccountKeeps
<1> QED BY <1>1, <1>2

\* Steps in which no handler is at work.
LEMMA OthersKeep ==
  ASSUME TypeOK, CloseInv,
         \/ AddCard \/ Reactivate \/ PeriodEnds
         \/ \E status \in Verdict : PlatformDecides(status)
         \/ \E i \in Intent, a \in Answers : Settle(i, a)
  PROVE  TypeOK' /\ CloseInv'
<1>1. CASE AddCard \/ Reactivate \/ \E status \in Verdict : PlatformDecides(status)
  <2>1. Verdict \subseteq {"active", "suspended"} /\ biz \in Business
    BY BoundsAreNumbers DEF TypeOK
  <2>2. PICK b \in Business : biz' = b /\ b.start = biz.start
    <3>1. CASE AddCard
      BY <2>1, <3>1, BusinessFacts DEF AddCard
    <3>2. CASE Reactivate
      BY <2>1, <3>2, BusinessFacts DEF Reactivate
    <3>3. CASE \E status \in Verdict : PlatformDecides(status)
      <4>1. PICK status \in {"active", "suspended"} :
              biz' = [biz EXCEPT !.status = status, !.reason = "none"]
        BY <2>1, <3>3 DEF PlatformDecides
      <4> QED BY <2>1, <4>1, BusinessFacts
    <3> QED BY <1>1, <3>1, <3>2, <3>3
  <2>3. UNCHANGED <<now, invoices, stripe, events, seen, alerts, proc, mishaps, closes, risky>>
    BY <1>1 DEF AddCard, Reactivate, PlatformDecides
  <2>5. TypeOK'
    BY <2>2, <2>3 DEF TypeOK
  <2> QED BY <2>2, <2>3, <2>5, NoHandler
<1>2. CASE PeriodEnds
  <2>1. TypeOK'
    BY <1>2, BoundsAreNumbers DEF PeriodEnds, TypeOK
  <2> QED BY <1>2, <2>1, NoHandler DEF PeriodEnds
<1>3. CASE \E i \in Intent, a \in Answers : Settle(i, a)
  <2>1. TypeOK'
    BY <1>3 DEF Settle, TypeOK
  <2> QED BY <1>3, <2>1, NoHandler DEF Settle
<1> QED BY <1>1, <1>2, <1>3

\* Stripe's events write an invoice's status, never that there is none.
LEMMA WebhookKeeps ==
  ASSUME TypeOK, CloseInv, NEW q \in Process, Webhook(q)
  PROVE  TypeOK' /\ CloseInv'
<1>0. Idle \in ProcessState /\ Idle.pc = "idle" /\ proc[q] \in ProcessState
  BY ProcessFacts DEF Idle, TypeOK
<1>1. ASSUME NEW ev \in events, Deliver(q, ev)
      PROVE  TypeOK' /\ CloseInv'
  <2> DEFINE s == [Idle EXCEPT !.pc = "event", !.type = ev.type, !.intent = ev.intent]
  <2>1. ev.type \in Answers /\ ev.intent \in Intent
    BY DEF TypeOK
  <2>2. s \in ProcessState
    BY <2>1, ProcessFacts DEF Steps
  <2>3. s.pc = "event" /\ s.intent = ev.intent
    BY DEF Idle
  <2>4. /\ proc' = [proc EXCEPT ![q] = s] /\ risky' \subseteq Period /\ seen' \subseteq events
        /\ UNCHANGED <<now, biz, invoices, stripe, events, alerts, mishaps, closes>>
    BY <1>1 DEF Deliver, TypeOK
  <2> HIDE DEF s
  <2> QED BY <2>1, <2>2, <2>3, <2>4, OnlyMemory DEF ForAPeriod
<1>2. CASE HandleEvent(q)
  <2>1. proc[q].pc = "event" /\ proc[q].intent \in Intent
    BY <1>2 DEF HandleEvent, CloseInv, Knows
  <2>2. PICK s \in ProcessState :
          /\ proc' = [proc EXCEPT ![q] = s] /\ s.pc \in {"idle", "clear", "alert"}
          /\ s.pc = "alert" => s.intent = proc[q].intent
    <3>1. /\ [proc[q] EXCEPT !.pc = "clear"] \in ProcessState
          /\ [proc[q] EXCEPT !.pc = "alert"] \in ProcessState
      BY <1>0, ProcessFacts DEF Steps
    <3>2. /\ [proc[q] EXCEPT !.pc = "clear"].pc = "clear"
          /\ [proc[q] EXCEPT !.pc = "alert"].pc = "alert"
          /\ [proc[q] EXCEPT !.pc = "alert"].intent = proc[q].intent
      BY <1>0 DEF ProcessState
    <3>3. \/ proc' = [proc EXCEPT ![q] = Idle]
          \/ proc' = [proc EXCEPT ![q] = [proc[q] EXCEPT !.pc = "clear"]]
          \/ proc' = [proc EXCEPT ![q] = [proc[q] EXCEPT !.pc = "alert"]]
      BY <1>2 DEF HandleEvent, Goto, Return, TypeOK
    <3> QED BY <1>0, <3>1, <3>2, <3>3
  <2>3. /\ invoices' \in [Period -> Invoice]
        /\ \A x \in Period : invoices[x].status # "none" => invoices'[x].status # "none"
    <3>1. \/ invoices' = invoices
          \/ \E p \in Period, st \in {"processing", "paid", "failed"} :
               invoices' = [invoices EXCEPT ![p].status = st]
      BY <1>2 DEF HandleEvent, Matching
    <3> QED BY <3>1 DEF TypeOK, Invoice
  <2>4. UNCHANGED <<now, biz, stripe, events, seen, alerts, mishaps, closes, risky>>
    BY <1>2 DEF HandleEvent
  <2> QED BY <2>1, <2>2, <2>3, <2>4, InvoiceKeeps DEF ForAPeriod
<1>3. CASE RaiseAlert(q) \/ EventFails(q)
  <2>1. proc' = [proc EXCEPT ![q] = Idle]
    BY <1>3 DEF RaiseAlert, EventFails, Return
  <2>2. /\ UNCHANGED <<now, biz, invoices, stripe, events, closes, risky>>
        /\ seen' \subseteq events
    BY <1>3 DEF RaiseAlert, EventFails, TypeOK
  <2>3. alerts' \subseteq Intent /\ mishaps' \in 0..MaxMishaps
    <3>1. CASE RaiseAlert(q)
      BY <3>1 DEF RaiseAlert, TypeOK, CloseInv, Knows
    <3>2. CASE EventFails(q)
      BY <3>2, BoundsAreNumbers DEF EventFails, TypeOK
    <3> QED BY <1>3, <3>1, <3>2
  <2>4. TypeOK'
    BY <1>0, <2>1, <2>2, <2>3 DEF TypeOK
  <2>5. biz.start <= biz'.start /\ \A x \in Period : ~(biz.start <= x /\ x < biz'.start)
    BY <2>2, BoundsAreNumbers DEF TypeOK, Business, Period
  <2> QED BY <1>0, <2>1, <2>2, <2>4, <2>5, OnlyDocuments DEF ForAPeriod
<1> QED BY <1>1, <1>2, <1>3 DEF Webhook

\* A restart forgets what handlers knew, nothing that was written.
LEMMA RestartKeeps ==
  ASSUME TypeOK, CloseInv, NEW Gone \in SUBSET Process, Restart(Gone)
  PROVE  TypeOK' /\ CloseInv'
<1>1. /\ \A o \in Process : proc'[o] = IF o \in Gone THEN Idle ELSE proc[o]
      /\ UNCHANGED <<now, biz, invoices, stripe, events, seen, alerts, closes>>
  BY DEF Restart
<1>2. Idle.pc = "idle" /\ Idle \in ProcessState
  BY ProcessFacts DEF Idle
<1>3. TypeOK'
  <2>1. proc' \in [Process -> ProcessState]
    BY <1>2 DEF Restart, TypeOK
  <2>2. risky' \subseteq Period
    BY DEF Restart, TypeOK, CloseInv, Knows, ForAPeriod
  <2>3. mishaps' \in 0..MaxMishaps
    BY BoundsAreNumbers DEF Restart, TypeOK
  <2> QED BY <1>1, <2>1, <2>2, <2>3 DEF TypeOK
<1>4. \A o \in Process : (Knows(o) /\ InvoiceFirst(o) /\ MayCharge(o))'
  BY <1>1, <1>2 DEF CloseInv, Knows, InvoiceFirst, MayCharge, ForAPeriod
<1>5. OneCharger'
  BY <1>1, <1>2 DEF CloseInv, OneCharger
<1>6. ChargedIsOver' /\ ClosedOnce' /\ NoPeriodSkipped'
  BY <1>1 DEF CloseInv, ChargedIsOver, ClosedOnce, NoPeriodSkipped
<1> QED BY <1>3, <1>4, <1>5, <1>6 DEF CloseInv

-----------------------------------------------------------------------------
(* The theorems.                                                           *)

\* Every step keeps the invariant.
LEMMA NextClose == TypeOK /\ CloseInv /\ [Next]_vars => TypeOK' /\ CloseInv'
<1> SUFFICES ASSUME TypeOK, CloseInv, [Next]_vars PROVE TypeOK' /\ CloseInv'
  OBVIOUS
<1>1. ASSUME NEW q \in Process, Close(q) PROVE TypeOK' /\ CloseInv'
  BY <1>1, CloseStartKeeps, ReadPreviousKeeps, InsertInvoiceKeeps, AdvanceKeeps,
     CloseChargeKeeps, CloseWriteKeeps, CloseAccountKeeps DEF Close
<1>2. ASSUME NEW q \in Process, Retry(q) PROVE TypeOK' /\ CloseInv'
  BY <1>2, RetryStartKeeps, RetryChargeKeeps, RetryWriteKeeps, ClearHoldKeeps DEF Retry
<1>3. ASSUME NEW q \in Process, Webhook(q) PROVE TypeOK' /\ CloseInv'
  BY <1>3, WebhookKeeps
<1>4. ASSUME NEW q \in Process, Owner(q) PROVE TypeOK' /\ CloseInv'
  BY <1>4, OwnerKeeps DEF Owner
<1>5. CASE \E Gone \in (SUBSET Process) \ {{}} : Restart(Gone)
  BY <1>5, RestartKeeps
<1>6. CASE UNCHANGED vars
  <2>1. TypeOK'
    BY <1>6 DEF vars, TypeOK
  <2> QED BY <1>6, <2>1, NoHandler DEF vars
<1> QED BY <1>1, <1>2, <1>3, <1>4, <1>5, <1>6, OthersKeep DEF Next

\* The invariant holds of every behaviour.
LEMMA CloseInvHolds == Spec => [](TypeOK /\ CloseInv)
BY InitClose, NextClose, PTL DEF Spec

\* Every reachable state of billing has the shapes of TypeOK.
THEOREM BillingTypes == Spec => []TypeOK
BY CloseInvHolds, PTL

\* However many sweeps run at once and wherever they are cut short, a period's
\* close reaches the card at most once (closeBillingPeriod).
THEOREM ChargedOnceByClose == Spec => []ClosedOnce
<1>1. CloseInv => ClosedOnce
  BY DEF CloseInv
<1> QED BY <1>1, CloseInvHolds, PTL

\* A period that is over for the business has its invoice, through restarts
\* between any two steps of a close (closeBillingPeriod's order of writes).
THEOREM EveryPeriodInvoiced == Spec => []NoPeriodSkipped
<1>1. CloseInv => NoPeriodSkipped
  BY DEF CloseInv
<1> QED BY <1>1, CloseInvHolds, PTL

-----------------------------------------------------------------------------
(* What is taken for a period, if nothing came between.                    *)

\* The intent of a try, whether Stripe was asked for it, and whether it failed.
Try(p, t) == [invoice |-> p, try |-> t]
Asked(p, t) == stripe[Try(p, t)].answer # "none"
Failed(p, t) == stripe[Try(p, t)].status = "failed"

\* A try under which nothing can be taken any more; only a close uses the first.
Dead(p, t) == Failed(p, t) \/ (t = 0 /\ ~Asked(p, t))

\* Periods whose charges met no mishap, and cost something.
Sound(p) == p \notin risky \cup FreePeriod

\* Stripe's answers, its events and the handlers that hear of them agree.
StripeSays ==
  /\ \A i \in Intent :
       /\ stripe[i].answer = "none" <=> stripe[i].status = "none"
       /\ stripe[i].answer = "failed" => stripe[i].status = "failed"
       /\ i.invoice \in FreePeriod => stripe[i].answer = "none"
  /\ \A ev \in events : ev.type = "failed" => stripe[ev.intent].status = "failed"
  /\ \A q \in Process : proc[q].pc = "event" =>
       [type |-> proc[q].type, intent |-> proc[q].intent] \in events
  /\ \A q \in Process : proc[q].pc = "retry" => proc[q].try > 0
  /\ \A p \in Period : Asked(p, 0) => closes[p] > 0

\* A close and an owner's retry take turns.
InTurn(p) == ~(Closing(p) /\ Retrying(p))

\* A later try is asked for only when the ones before it are dead.
InOrder(p) ==
  \A t, u \in 0..MaxTry : t < u /\ Asked(p, u) => Dead(p, t)

\* A retry is the latest try of its invoice, and brings back what Stripe said.
RetryKnows(q, p) ==
  proc[q].pc \in {"retry", "retried"} /\ proc[q].period = p =>
    /\ proc[q].try > 0 /\ \A t \in 0..MaxTry : t < proc[q].try => Dead(p, t)
    /\ proc[q].card
    /\ proc[q].pc = "retried" =>
         /\ Asked(p, proc[q].try)
         /\ proc[q].result = ResultOf(stripe[Try(p, proc[q].try)].answer)
         /\ proc[q].intent = Try(p, proc[q].try)

\* The steps of a close up to its write.
CloseSteps == {"previous", "insert", "advance", "charge", "write"}

\* A close that may charge has an invoice that waits for it; one that writes
\* brings back what Stripe said of the only try there was.
CloseKnows(q, p) ==
  proc[q].pc \in CloseSteps /\ proc[q].period = p =>
    /\ p <= biz.start
    /\ \/ proc[q].pc = "charge"
       \/ proc[q].pc = "advance" /\ proc[q].result = "pending" /\ biz.start = p
       => invoices[p].status = "pending"
    /\ proc[q].pc = "write" =>
         /\ closes[p] > 0 /\ \A t \in 1..MaxTry : ~Asked(p, t)
         /\ IF Asked(p, 0)
            THEN /\ proc[q].result = ResultOf(stripe[Try(p, 0)].answer)
                 /\ proc[q].intent = Try(p, 0)
            ELSE proc[q].result = "pending" /\ proc[q].intent = NoIntent

\* The invoice names the last try that was written; while it waits for its first,
\* nothing was asked for that a handler does not hold.
InvoiceSays(p) ==
  /\ invoices[p].retries \in 0..MaxTry
  /\ invoices[p].intent \in {NoIntent, Try(p, invoices[p].retries)}
  /\ invoices[p].retries > 0 => Asked(p, invoices[p].retries)
  /\ invoices[p].status = "failed" => Failed(p, invoices[p].retries)
  /\ invoices[p].status \in {"none", "pending"} =>
       /\ invoices[p].retries = 0 /\ invoices[p].intent = NoIntent
       /\ Asked(p, 0) => AtWork(p, {"write"})
       /\ \A t \in 1..MaxTry : Asked(p, t) => Retrying(p)

\* What is known of a period without mishaps.
PeriodSound(p) ==
  /\ InTurn(p) /\ InOrder(p) /\ InvoiceSays(p)
  /\ \A q \in Process : RetryKnows(q, p) /\ CloseKnows(q, p)

\* The invariant.
PayInv == StripeSays /\ \A p \in Period : Sound(p) => PeriodSound(p)

\* Periods and tries are numbers, and every try of a period names an intent.
LEMMA Numbers ==
  /\ Period \subseteq Nat /\ 0 \in 0..MaxTry /\ 1..MaxTry \subseteq 0..MaxTry
  /\ \A p \in Period, t \in 0..MaxTry : Try(p, t) \in Intent /\ Try(p, t) # NoIntent
BY BoundsAreNumbers, NullsAreNotValues DEF Period, Intent, Try

\* A period nobody's step is about.
LEMMA PeriodQuiet ==
  ASSUME TypeOK, TypeOK', NEW p \in Period, PeriodSound(p), invoices'[p] = invoices[p],
         \A t \in 0..MaxTry : stripe'[Try(p, t)] = stripe[Try(p, t)],
         closes[p] <= closes'[p], biz.start <= biz'.start,
         \A o \in Process :
           \/ proc'[o] = proc[o]
           \/ /\ proc'[o].period # p \/ proc'[o].pc \notin CloseSteps \cup {"retry", "retried"}
              /\ proc[o].period # p \/ proc[o].pc \notin {"write", "retry", "retried"}
  PROVE  PeriodSound(p)'
<1>1. /\ biz.start \in Nat /\ biz'.start \in Nat /\ p \in Nat
      /\ closes[p] \in Nat /\ closes'[p] \in Nat
  BY Numbers, BoundsAreNumbers DEF TypeOK, Business
<1>2. invoices[p].retries \in 0..MaxTry
  BY DEF PeriodSound, InvoiceSays
<1>3. \A t \in 0..MaxTry : /\ Asked(p, t)' <=> Asked(p, t)
                           /\ Failed(p, t)' <=> Failed(p, t)
                           /\ Dead(p, t)' <=> Dead(p, t)
  BY DEF Asked, Failed, Dead
<1>4. /\ Retrying(p)' <=> Retrying(p)
      /\ AtWork(p, {"write"}) <=> AtWork(p, {"write"})'
      /\ Closing(p)' => Closing(p)
  BY DEF Retrying, Closing, AtWork, CloseSteps
<1>5. InTurn(p)' /\ InOrder(p)'
  BY <1>3, <1>4 DEF PeriodSound, InTurn, InOrder
<1>6. InvoiceSays(p)'
  BY <1>2, <1>3, <1>4, Numbers DEF PeriodSound, InvoiceSays
<1>7. ASSUME NEW q \in Process PROVE RetryKnows(q, p)'
  <2>1. proc[q].try \in 0..MaxTry
    BY DEF TypeOK, ProcessState
  <2> QED BY <1>3, <2>1 DEF PeriodSound, RetryKnows
<1>8. ASSUME NEW q \in Process PROVE CloseKnows(q, p)'
  BY <1>1, <1>3, Numbers DEF PeriodSound, CloseKnows, CloseSteps
<1> QED BY <1>5, <1>6, <1>7, <1>8 DEF PeriodSound

\* One handler goes a step further with a period, and nothing is written.
LEMMA PeriodMoves ==
  ASSUME TypeOK, TypeOK', NEW p \in Period, PeriodSound(p), NEW q \in Process,
         \A o \in Process \ {q} : proc'[o] = proc[o],
         UNCHANGED <<invoices, stripe, closes>>, biz.start <= biz'.start,
         InTurn(p)', RetryKnows(q, p)', CloseKnows(q, p)',
         Retrying(p) => Retrying(p)', proc[q].pc # "write"
  PROVE  PeriodSound(p)'
<1>1. biz.start \in Nat /\ biz'.start \in Nat /\ p \in Nat
  BY Numbers, BoundsAreNumbers DEF TypeOK, Business
<1>2. \A t \in 0..MaxTry : /\ Asked(p, t)' <=> Asked(p, t)
                           /\ Failed(p, t)' <=> Failed(p, t)
                           /\ Dead(p, t)' <=> Dead(p, t)
  BY DEF Asked, Failed, Dead
<1>3. InOrder(p)'
  BY <1>2 DEF PeriodSound, InOrder
<1>4. AtWork(p, {"write"}) => AtWork(p, {"write"})'
  BY DEF AtWork
<1>5. InvoiceSays(p)'
  BY <1>2, <1>4, Numbers DEF PeriodSound, InvoiceSays
<1>6. ASSUME NEW o \in Process \ {q} PROVE RetryKnows(o, p)' /\ CloseKnows(o, p)'
  <2>1. proc[o].try \in 0..MaxTry
    BY DEF TypeOK, ProcessState
  <2> QED BY <1>1, <1>2, <2>1, Numbers DEF PeriodSound, RetryKnows, CloseKnows
<1> QED BY <1>3, <1>5, <1>6 DEF PeriodSound

\* A step that neither asks Stripe nor hears from it.
LEMMA StripeQuiet ==
  ASSUME TypeOK, StripeSays, UNCHANGED <<stripe, events>>,
         \A p \in Period : closes[p] <= closes'[p], closes' \in [Period -> Nat],
         \A o \in Process : proc'[o].pc = "event" =>
           \/ proc'[o] = proc[o]
           \/ [type |-> proc'[o].type, intent |-> proc'[o].intent] \in events,
         \A o \in Process : proc'[o].pc = "retry" => proc'[o] = proc[o] \/ proc'[o].try > 0
  PROVE  StripeSays'
<1>1. \A p \in Period : Asked(p, 0)' <=> Asked(p, 0)
  BY DEF Asked
<1>2. \A p \in Period : closes[p] \in Nat /\ closes'[p] \in Nat
  BY DEF TypeOK
<1> QED BY <1>1, <1>2 DEF StripeSays

-----------------------------------------------------------------------------
(* Steps of a close and of a retry before the charge.                      *)

\* A handler that is done with a period, or takes up none.
LEMMA LeavesSound ==
  ASSUME TypeOK, TypeOK', PayInv, NEW q \in Process, NEW s \in ProcessState,
         proc' = [proc EXCEPT ![q] = s],
         UNCHANGED <<invoices, stripe, events, closes>>, risky \subseteq risky',
         biz.start <= biz'.start,
         s.pc \notin CloseSteps \cup {"retry", "retried"},
         proc[q].pc \notin {"write", "retry", "retried"},
         s.pc = "event" => [type |-> s.type, intent |-> s.intent] \in events
  PROVE  PayInv'
<1>1. \A o \in Process : proc'[o] = IF o = q THEN s ELSE proc[o]
  BY DEF TypeOK
<1>2. \A p \in Period : closes[p] <= closes'[p]
  BY DEF TypeOK
<1>3. StripeSays'
  BY <1>1, <1>2, StripeQuiet DEF PayInv, TypeOK
<1>4. ASSUME NEW p \in Period, Sound(p)' PROVE PeriodSound(p)'
  <2>1. PeriodSound(p)
    BY <1>4 DEF PayInv, Sound
  <2> QED BY <1>1, <1>2, <2>1, PeriodQuiet
<1> QED BY <1>3, <1>4 DEF PayInv

\* The sweep reads the business (closeBillingPeriod).
LEMMA CloseStartSound ==
  ASSUME TypeOK, TypeOK', PayInv, NEW q \in Process, CloseStart(q)
  PROVE  PayInv'
<1> DEFINE s == [Idle EXCEPT !.pc = FirstStep, !.period = biz.start, !.card = biz.card,
                   !.cancelling = biz.cancelAt # Never /\ biz.cancelAt <= biz.start]
<1>1. /\ s.pc = "previous" /\ s.period = biz.start
      /\ \A o \in Process : proc'[o] = IF o = q THEN s ELSE proc[o]
  BY DEF CloseStart, TypeOK, Idle, FirstStep
<1> HIDE DEF s
<1>2. /\ UNCHANGED <<biz, invoices, stripe, events, closes>> /\ risky \subseteq risky'
      /\ proc[q].pc = "idle" /\ (Retrying(biz.start) => biz.start \in risky')
  BY DEF CloseStart
<1>3. \A p \in Period : closes[p] <= closes'[p]
  BY <1>2 DEF TypeOK
<1>4. biz.start \in Nat /\ biz.start <= biz'.start
  BY <1>2, BoundsAreNumbers DEF TypeOK, Business
<1>5. StripeSays'
  BY <1>1, <1>2, <1>3, StripeQuiet DEF PayInv, TypeOK
<1>6. ASSUME NEW p \in Period, Sound(p)' PROVE PeriodSound(p)'
  <2>1. PeriodSound(p)
    BY <1>2, <1>6 DEF PayInv, Sound
  <2>2. CASE p # biz.start
    BY <1>1, <1>2, <1>3, <1>4, <2>1, <2>2, PeriodQuiet DEF CloseSteps
  <2>3. CASE p = biz.start
    <3>1. ~Retrying(p)
      BY <1>2, <1>6, <2>3 DEF Sound
    <3>2. Retrying(p)' <=> Retrying(p)
      BY <1>1, <1>2 DEF Retrying, AtWork
    <3>3. InTurn(p)' /\ RetryKnows(q, p)' /\ CloseKnows(q, p)'
      BY <1>1, <1>2, <1>4, <2>3, <3>1, <3>2 DEF InTurn, RetryKnows, CloseKnows
    <3> QED BY <1>1, <1>2, <1>4, <2>1, <3>2, <3>3, PeriodMoves
  <2> QED BY <2>2, <2>3
<1> QED BY <1>5, <1>6 DEF PayInv

\* The close looks at the invoice before this one.
LEMMA ReadPreviousSound ==
  ASSUME TypeOK, TypeOK', PayInv, NEW q \in Process, ReadPrevious(q)
  PROVE  PayInv'
<1>1. /\ \A o \in Process \ {q} : proc'[o] = proc[o]
      /\ proc[q].pc = "previous" /\ proc'[q].pc = "insert"
      /\ proc'[q].period = proc[q].period
  BY DEF ReadPrevious, TypeOK, ProcessState
<1>2. UNCHANGED <<biz, invoices, stripe, events, closes, risky>>
  BY DEF ReadPrevious
<1>3. /\ \A p \in Period : closes[p] <= closes'[p]
      /\ biz.start \in Nat /\ biz.start <= biz'.start
  BY <1>2, BoundsAreNumbers DEF TypeOK, Business
<1>4. StripeSays'
  BY <1>1, <1>2, <1>3, StripeQuiet DEF PayInv, TypeOK
<1>5. ASSUME NEW p \in Period, Sound(p)' PROVE PeriodSound(p)'
  <2>1. PeriodSound(p)
    BY <1>2, <1>5 DEF PayInv, Sound
  <2>2. (Retrying(p)' <=> Retrying(p)) /\ (Closing(p)' <=> Closing(p))
    BY <1>1 DEF Retrying, Closing, AtWork
  <2>3. InTurn(p)' /\ RetryKnows(q, p)' /\ CloseKnows(q, p)'
    BY <1>1, <1>2, <2>1, <2>2 DEF PeriodSound, InTurn, RetryKnows, CloseKnows, CloseSteps
  <2> QED BY <1>1, <1>2, <1>3, <2>1, <2>2, <2>3, PeriodMoves
<1> QED BY <1>4, <1>5 DEF PayInv

\* Whoever moves the period on goes on to charge.
LEMMA AdvanceSound ==
  ASSUME TypeOK, TypeOK', PayInv, NEW q \in Process, Advance(q)
  PROVE  PayInv'
<1>1. /\ \A o \in Process \ {q} : proc'[o] = proc[o]
      /\ proc[q].pc = "advance" /\ proc[q] \in ProcessState
      /\ UNCHANGED <<invoices, stripe, events, closes, risky>>
  BY DEF Advance, Return, Goto, TypeOK
<1>2. /\ \A p \in Period : closes[p] <= closes'[p]
      /\ biz.start \in Nat /\ biz'.start \in Nat /\ biz.start <= biz'.start
  <2>1. biz.start \in Nat /\ biz'.start \in Nat
    BY BoundsAreNumbers DEF TypeOK, Business
  <2>2. biz'.start = biz.start \/ biz'.start = biz.start + 1
    BY DEF Advance, StillCurrent, TypeOK, Business
  <2> QED BY <1>1, <2>1, <2>2 DEF TypeOK
<1>3. CASE proc' = [proc EXCEPT ![q] = Idle]
  BY <1>1, <1>2, <1>3, LeavesSound, ProcessFacts DEF Idle, CloseSteps
<1>4. CASE /\ proc' = [proc EXCEPT ![q].pc = "charge"]
           /\ proc[q].result = "pending" /\ biz.start = proc[q].period
  <2>1. /\ proc'[q].pc = "charge" /\ proc'[q].period = proc[q].period
    BY <1>1, <1>4 DEF TypeOK, ProcessState
  <2>2. StripeSays'
    BY <1>1, <1>2, <2>1, StripeQuiet DEF PayInv, TypeOK
  <2>3. ASSUME NEW p \in Period, Sound(p)' PROVE PeriodSound(p)'
    <3>1. PeriodSound(p)
      BY <1>1, <2>3 DEF PayInv, Sound
    <3>2. (Retrying(p)' <=> Retrying(p)) /\ (Closing(p)' <=> Closing(p))
      BY <1>1, <2>1 DEF Retrying, Closing, AtWork
    <3>3. InTurn(p)' /\ RetryKnows(q, p)'
      BY <2>1, <3>1, <3>2 DEF PeriodSound, InTurn, RetryKnows
    <3>4. CloseKnows(q, p)'
      BY <1>1, <1>2, <1>4, <2>1, <3>1, Numbers DEF PeriodSound, CloseKnows, CloseSteps
    <3> QED BY <1>1, <1>2, <3>1, <3>2, <3>3, <3>4, PeriodMoves
  <2> QED BY <2>2, <2>3 DEF PayInv
<1> QED BY <1>3, <1>4 DEF Advance, Return, Goto, StillCurrent

\* The owner retries an invoice that failed or waits.
LEMMA RetryStartSound ==
  ASSUME TypeOK, TypeOK', CloseInv, PayInv, NEW q \in Process, NEW r \in Period, RetryStart(q, r)
  PROVE  PayInv'
<1> DEFINE s == [Idle EXCEPT !.pc = "retry", !.period = r, !.card = TRUE,
                   !.try = invoices[r].retries + 1]
<1>1. /\ s.pc = "retry" /\ s.period = r /\ s.card /\ s.try = invoices[r].retries + 1
      /\ \A o \in Process : proc'[o] = IF o = q THEN s ELSE proc[o]
  BY DEF RetryStart, TypeOK, Idle
<1> HIDE DEF s
<1>2. /\ UNCHANGED <<biz, invoices, stripe, events, closes>> /\ risky \subseteq risky'
      /\ proc[q].pc = "idle" /\ (Closing(r) => r \in risky')
      /\ invoices[r].status \in {"pending", "failed"}
  BY DEF RetryStart, Retryable
<1>3. /\ \A p \in Period : closes[p] <= closes'[p]
      /\ biz.start \in Nat /\ biz.start <= biz'.start
  BY <1>2, BoundsAreNumbers DEF TypeOK, Business
<1>4. StripeSays'
  <2>1. s.try > 0
    BY <1>1 DEF TypeOK, Invoice
  <2> QED BY <1>1, <1>2, <1>3, <2>1, StripeQuiet DEF PayInv, TypeOK
<1>5. ASSUME NEW p \in Period, Sound(p)' PROVE PeriodSound(p)'
  <2>1. PeriodSound(p)
    BY <1>2, <1>5 DEF PayInv, Sound
  <2>2. CASE p # r
    BY <1>1, <1>2, <1>3, <2>1, <2>2, PeriodQuiet
  <2>3. CASE p = r
    <3>1. ~Closing(p)
      BY <1>2, <1>5, <2>3 DEF Sound
    <3>2. ~Closing(p)' /\ Retrying(p)'
      BY <1>1, <2>3, <3>1 DEF Retrying, Closing, AtWork
    <3>3. InTurn(p)' /\ CloseKnows(q, p)'
      BY <1>1, <3>2 DEF InTurn, CloseKnows, CloseSteps
    <3>4. RetryKnows(q, p)'
      <4> DEFINE n == invoices[p].retries
      <4>1. n \in 0..MaxTry /\ n + 1 > 0 /\ \A t \in 0..MaxTry : t < n + 1 => t < n \/ t = n
        BY <2>1, BoundsAreNumbers DEF PeriodSound, InvoiceSays
      <4>2. Dead(p, n)
        <5>1. ~AtWork(p, {"write"})
          BY <3>1 DEF Closing, AtWork
        <5> QED BY <1>2, <2>1, <2>3, <5>1 DEF PeriodSound, InvoiceSays, Dead
      <4>3. \A t \in 0..MaxTry : t < n => Dead(p, t)
        <5>1. n > 0 => Asked(p, n)
          BY <2>1 DEF PeriodSound, InvoiceSays
        <5> HIDE DEF n
        <5>2. \A t \in 0..MaxTry : t < n => n > 0
          BY <4>1
        <5> QED BY <2>1, <4>1, <5>1, <5>2 DEF PeriodSound, InOrder
      <4>4. \A t \in 0..MaxTry : Dead(p, t)' <=> Dead(p, t)
        BY <1>2 DEF Dead, Asked, Failed
      <4> HIDE DEF n
      <4>5. proc'[q].try = n + 1 /\ proc'[q].pc = "retry" /\ proc'[q].card
        BY <1>1, <2>3 DEF n
      <4> QED BY <4>1, <4>2, <4>3, <4>4, <4>5 DEF RetryKnows
    <3> QED BY <1>1, <1>2, <1>3, <2>1, <3>2, <3>3, <3>4, PeriodMoves
  <2> QED BY <2>2, <2>3
<1> QED BY <1>4, <1>5 DEF PayInv

\* The invoice is inserted, or the one that is there is found.
LEMMA InsertInvoiceSound ==
  ASSUME TypeOK, TypeOK', CloseInv, PayInv, NEW q \in Process, InsertInvoice(q)
  PROVE  PayInv'
<1>0. PICK r \in Period : r = proc[q].period
  BY DEF InsertInvoice, CloseInv, Knows, ForAPeriod
<1>1. /\ \A o \in Process \ {q} : proc'[o] = proc[o]
      /\ proc[q].pc = "insert" /\ proc'[q].pc = "advance" /\ proc'[q].period = r
      /\ UNCHANGED <<biz, stripe, events, closes, risky>>
  BY <1>0 DEF InsertInvoice, TypeOK, ProcessState
<1>2. /\ \A p \in Period \ {r} : invoices'[p] = invoices[p]
      /\ invoices'[r].intent = invoices[r].intent /\ invoices'[r].retries = invoices[r].retries
      /\ IF invoices[r].status = "none" THEN invoices'[r].status = "pending"
         ELSE invoices'[r].status = invoices[r].status
      /\ proc'[q].result = invoices'[r].status
  BY <1>0 DEF InsertInvoice, TypeOK, Invoice, ProcessState
<1>3. /\ \A p \in Period : closes[p] <= closes'[p]
      /\ biz.start \in Nat /\ biz.start <= biz'.start
  BY <1>1, BoundsAreNumbers DEF TypeOK, Business
<1>4. StripeSays'
  BY <1>1, <1>3, StripeQuiet DEF PayInv, TypeOK
<1>5. ASSUME NEW p \in Period, Sound(p)' PROVE PeriodSound(p)'
  <2>1. PeriodSound(p)
    BY <1>1, <1>5 DEF PayInv, Sound
  <2>2. CASE p # r
    BY <1>0, <1>1, <1>2, <1>3, <2>1, <2>2, PeriodQuiet
  <2>3. CASE p = r
    <3>1. /\ Retrying(p)' <=> Retrying(p)
          /\ Closing(p)' <=> Closing(p)
          /\ AtWork(p, {"write"})' <=> AtWork(p, {"write"})
      BY <1>0, <1>1, <2>3 DEF Retrying, Closing, AtWork
    <3>2. \A t \in 0..MaxTry : /\ Asked(p, t)' <=> Asked(p, t)
                               /\ Failed(p, t)' <=> Failed(p, t)
                               /\ Dead(p, t)' <=> Dead(p, t)
      BY <1>1 DEF Asked, Failed, Dead
    <3>3. InTurn(p)'
      BY <2>1, <3>1 DEF PeriodSound, InTurn
    <3>4. InOrder(p)'
      BY <2>1, <3>2 DEF PeriodSound, InOrder
    <3>5. InvoiceSays(p)'
      BY <1>2, <2>1, <2>3, <3>1, <3>2, Numbers DEF PeriodSound, InvoiceSays
    <3>6. ASSUME NEW o \in Process PROVE RetryKnows(o, p)' /\ CloseKnows(o, p)'
      <4>1. proc[o].try \in 0..MaxTry
        BY DEF TypeOK, ProcessState
      <4>2. CASE o = q
        BY <1>0, <1>1, <1>2, <2>1, <2>3, <4>2 DEF PeriodSound, RetryKnows, CloseKnows, CloseSteps
      <4>3. CASE o # q
        BY <1>1, <1>2, <2>1, <2>3, <3>2, <4>1, <4>3, Numbers
           DEF PeriodSound, RetryKnows, CloseKnows
      <4> QED BY <4>2, <4>3
    <3> QED BY <3>3, <3>4, <3>5, <3>6 DEF PeriodSound
  <2> QED BY <2>2, <2>3
<1> QED BY <1>4, <1>5 DEF PayInv

\* What chargeInvoice asks of Stripe and what it brings back, when nothing is lost.
LEMMA ChargeSays ==
  ASSUME TypeOK, StripeSays, NEW q \in Process, NEW t \in 0..MaxTry, NEW r \in Period,
         proc[q].period = r, NEW pc \in {"write", "retried"}, Charge(q, t, pc)
  PROVE  /\ \A o \in Process \ {q} : proc'[o] = proc[o]
         /\ proc'[q].pc = pc /\ proc'[q].period = r /\ proc'[q].try = proc[q].try
         /\ proc'[q].card = proc[q].card
         /\ events \subseteq events' /\ risky \subseteq risky'
         /\ \A i \in Intent \ {Try(r, t)} : stripe'[i] = stripe[i]
         /\ Asked(r, t) => stripe' = stripe
         /\ r \in FreePeriod => stripe' = stripe
         /\ \A ev \in events' \ events : ev.type = "failed" => stripe'[ev.intent].status = "failed"
         /\ stripe'[Try(r, t)].answer = "none" <=> stripe'[Try(r, t)].status = "none"
         /\ stripe'[Try(r, t)].answer = "failed" => stripe'[Try(r, t)].status = "failed"
         /\ Sound(r)' =>
              \/ /\ Asked(r, t)' /\ proc'[q].intent = Try(r, t)
                 /\ proc'[q].result = ResultOf(stripe'[Try(r, t)].answer)
              \/ /\ ~proc[q].card /\ stripe' = stripe
                 /\ proc'[q].result = "pending" /\ proc'[q].intent = NoIntent
<1> DEFINE i0 == Try(r, t)
           With(x, i) == [proc EXCEPT ![q].pc = pc, ![q].result = x, ![q].intent = i]
<1>1. i0 \in Intent /\ i0.invoice = r
  BY DEF Intent, Try
<1>2. ASSUME NEW x, NEW i, proc' = With(x, i)
      PROVE  /\ \A o \in Process \ {q} : proc'[o] = proc[o]
             /\ proc'[q].pc = pc /\ proc'[q].period = r /\ proc'[q].try = proc[q].try
             /\ proc'[q].card = proc[q].card
             /\ proc'[q].result = x /\ proc'[q].intent = i
  BY <1>2 DEF TypeOK, ProcessState
<1> DEFINE Asking ==
  \E a \in Answers :
    /\ Outcome(i0, a) /\ Charged(i0, a) /\ r \notin FreePeriod
    /\ \/ proc' = With(ResultOf(a), i0) /\ UNCHANGED <<mishaps, risky>>
       \/ /\ mishaps < MaxMishaps /\ mishaps' = mishaps + 1
          /\ risky' = risky \cup {r}
          /\ proc' = With("failed", NoIntent)
<1>3. \/ /\ r \in FreePeriod /\ proc' = With("paid", NoIntent)
         /\ UNCHANGED <<stripe, events, mishaps, risky>>
      \/ /\ ~proc[q].card /\ proc' = With("pending", NoIntent)
         /\ UNCHANGED <<stripe, events, mishaps, risky>>
      \/ Asking
  BY Zenon DEF Charge, Try
<1> HIDE DEF With, i0
<1>4. CASE \/ /\ r \in FreePeriod /\ proc' = With("paid", NoIntent)
              /\ UNCHANGED <<stripe, events, mishaps, risky>>
           \/ /\ ~proc[q].card /\ proc' = With("pending", NoIntent)
              /\ UNCHANGED <<stripe, events, mishaps, risky>>
  BY <1>1, <1>2, <1>4 DEF StripeSays, Sound, i0
<1>5. CASE Asking
  <2>1. PICK a \in Answers :
          /\ Outcome(i0, a) /\ Charged(i0, a) /\ r \notin FreePeriod
          /\ \/ proc' = With(ResultOf(a), i0) /\ UNCHANGED <<mishaps, risky>>
             \/ /\ mishaps < MaxMishaps /\ mishaps' = mishaps + 1
                /\ risky' = risky \cup {r}
                /\ proc' = With("failed", NoIntent)
    BY <1>5
  <2>2. /\ events \subseteq events'
        /\ \A i \in Intent \ {i0} : stripe'[i] = stripe[i]
        /\ stripe[i0].answer # "none" => stripe' = stripe
        /\ \A ev \in events' \ events : ev.type = "failed" => stripe'[ev.intent].status = "failed"
        /\ stripe'[i0].answer = a /\ a # "none"
        /\ stripe'[i0].answer = "none" <=> stripe'[i0].status = "none"
        /\ stripe'[i0].answer = "failed" => stripe'[i0].status = "failed"
    <3>1. CASE stripe[i0].answer = "none"
      <4>1. /\ stripe' = [stripe EXCEPT ![i0] = [status |-> a, answer |-> a]]
            /\ events' = events \cup {[type |-> a, intent |-> i0]} /\ a # "none"
        BY <2>1, <3>1 DEF Outcome, Charged
      <4> QED BY <1>1, <3>1, <4>1 DEF TypeOK
    <3>2. CASE stripe[i0].answer # "none"
      <4>1. UNCHANGED <<stripe, events>> /\ a = stripe[i0].answer
        BY <2>1, <3>2 DEF Outcome, Charged
      <4> QED BY <1>1, <3>2, <4>1 DEF StripeSays
    <3> QED BY <3>1, <3>2
  <2>3. CASE proc' = With(ResultOf(a), i0) /\ UNCHANGED <<mishaps, risky>>
    BY <1>2, <2>1, <2>2, <2>3 DEF Asked, i0
  <2>4. CASE risky' = risky \cup {r} /\ proc' = With("failed", NoIntent)
    BY <1>2, <2>1, <2>2, <2>4 DEF Asked, i0, Sound
  <2> QED BY <2>1, <2>3, <2>4
<1> QED BY <1>3, <1>4, <1>5

-----------------------------------------------------------------------------
(* The charge.                                                             *)

\* Stripe's books after such a call.
LEMMA ChargedStripe ==
  ASSUME TypeOK, TypeOK', CloseInv, StripeSays, NEW q \in Process, NEW t \in 0..MaxTry, NEW r \in Period,
         proc[q].period = r, NEW pc \in {"write", "retried"}, Charge(q, t, pc),
         \A p \in Period : closes[p] <= closes'[p], t = 0 => closes'[r] > 0
  PROVE  StripeSays'
<1>1. \A i \in Intent :
        /\ stripe'[i].answer = "none" <=> stripe'[i].status = "none"
        /\ stripe'[i].answer = "failed" => stripe'[i].status = "failed"
        /\ i.invoice \in FreePeriod => stripe'[i].answer = "none"
  <2>1. Try(r, t) \in Intent /\ Try(r, t).invoice = r
    BY DEF Try, Intent
  <2>2. /\ stripe'[Try(r, t)].answer = "none" <=> stripe'[Try(r, t)].status = "none"
        /\ stripe'[Try(r, t)].answer = "failed" => stripe'[Try(r, t)].status = "failed"
    BY ChargeSays
  <2>3. r \in FreePeriod => stripe' = stripe
    BY ChargeSays
  <2>4. \A i \in Intent \ {Try(r, t)} : stripe'[i] = stripe[i]
    BY ChargeSays
  <2> QED BY <2>1, <2>2, <2>3, <2>4 DEF StripeSays
<1>2. \A ev \in events' : ev.type = "failed" => stripe'[ev.intent].status = "failed"
  <2>1. \A ev \in events : ev.intent \in Intent
    BY DEF TypeOK
  <2>2. ASSUME NEW ev \in events, ev.type = "failed" PROVE stripe'[ev.intent].status = "failed"
    <3>1. stripe[ev.intent].status = "failed" 
      BY <2>2 DEF StripeSays
    <3>2. CASE ev.intent = Try(r, t)
      <4>1. stripe[Try(r, t)].answer # "none"
        BY <2>1, <3>1, <3>2 DEF StripeSays
      <4>2. stripe' = stripe
        BY <4>1, ChargeSays DEF Asked
      <4> QED BY <3>1, <4>2
    <3>3. CASE ev.intent # Try(r, t)
      BY <2>1, <3>1, <3>3, ChargeSays
    <3> QED BY <3>2, <3>3
  <2> QED BY <2>2, ChargeSays
<1>3. \A o \in Process : proc'[o].pc = "event" =>
        [type |-> proc'[o].type, intent |-> proc'[o].intent] \in events'
  <2>1. \A o \in Process \ {q} : proc'[o] = proc[o]
    BY ChargeSays
  <2>2. proc'[q].pc # "event" /\ events \subseteq events'
    BY ChargeSays
  <2> QED BY <2>1, <2>2 DEF StripeSays
<1>5. \A o \in Process : proc'[o].pc = "retry" => proc'[o].try > 0
  <2>1. \A o \in Process \ {q} : proc'[o] = proc[o]
    BY ChargeSays
  <2>2. proc'[q].pc # "retry"
    BY ChargeSays
  <2> QED BY <2>1, <2>2 DEF StripeSays
<1>4. \A p \in Period : Asked(p, 0)' => closes'[p] > 0
  <2>1. \A p \in Period : closes[p] \in Nat /\ closes'[p] \in Nat
    BY DEF TypeOK
  <2>2. \A p \in Period : Try(p, 0) \in Intent /\ (Try(p, 0) = Try(r, t) => p = r /\ t = 0)
    BY Numbers DEF Try
  <2> QED BY <2>1, <2>2, ChargeSays DEF StripeSays, Asked
<1> QED BY <1>1, <1>2, <1>3, <1>4, <1>5 DEF StripeSays

\* The handlers of other periods see nothing of it.
LEMMA ChargedElsewhere ==
  ASSUME TypeOK, TypeOK', PayInv, NEW q \in Process, NEW t \in 0..MaxTry, NEW r \in Period,
         proc[q].period = r, NEW pc \in {"write", "retried"}, Charge(q, t, pc),
         \A p \in Period : closes[p] <= closes'[p], UNCHANGED <<biz, invoices>>,
         NEW p \in Period \ {r}, Sound(p)'
  PROVE  PeriodSound(p)'
<1>1. PeriodSound(p)
  BY ChargeSays DEF PayInv, Sound
<1>2. \A u \in 0..MaxTry : stripe'[Try(p, u)] = stripe[Try(p, u)]
  <2>1. \A u \in 0..MaxTry : Try(p, u) \in Intent \ {Try(r, t)}
    BY DEF Try, Intent
  <2> QED BY <2>1, ChargeSays DEF PayInv
<1>3. biz.start <= biz'.start
  BY BoundsAreNumbers DEF TypeOK, Business
<1>4. /\ \A o \in Process \ {q} : proc'[o] = proc[o]
      /\ proc'[q].period # p /\ proc[q].period # p
  BY ChargeSays DEF PayInv
<1> QED BY <1>1, <1>2, <1>3, <1>4, PeriodQuiet

\* The close charges under the first key.
LEMMA CloseChargeSound ==
  ASSUME TypeOK, TypeOK', CloseInv, CloseInv', PayInv, NEW q \in Process, CloseCharge(q)
  PROVE  PayInv'
<1>0. PICK r \in Period : r = proc[q].period
  BY DEF CloseCharge, CloseInv, Knows, ForAPeriod
<1>1. /\ proc[q].pc = "charge" /\ Charge(q, 0, "write") /\ closes[r] = 0 /\ r < biz.start
      /\ UNCHANGED <<biz, invoices>> /\ closes' = [closes EXCEPT ![r] = @ + 1]
  BY <1>0 DEF CloseCharge, CloseInv, MayCharge
<1>2. (\A p \in Period : closes[p] <= closes'[p]) /\ closes'[r] > 0 /\ 0 \in 0..MaxTry
  BY <1>1, Numbers DEF TypeOK
<1>3. StripeSays'
  BY <1>0, <1>1, <1>2, ChargedStripe DEF PayInv
<1>4. ASSUME NEW p \in Period, Sound(p)' PROVE PeriodSound(p)'
  <2>1. CASE p # r
    BY <1>0, <1>1, <1>2, <1>4, <2>1, ChargedElsewhere
  <2>2. CASE p = r
    <3>1. PeriodSound(r) /\ r \notin FreePeriod
      BY <1>0, <1>1, <1>2, <1>4, <2>2, ChargeSays DEF PayInv, Sound
    <3>2. /\ \A o \in Process \ {q} : proc'[o] = proc[o]
          /\ proc'[q].pc = "write" /\ proc'[q].period = r
          /\ \A u \in 1..MaxTry : stripe'[Try(r, u)] = stripe[Try(r, u)]
      <4>1. \A u \in 1..MaxTry : Try(r, u) \in Intent \ {Try(r, 0)}
        BY Numbers DEF Try
      <4> QED BY <1>0, <1>1, <1>2, <4>1, ChargeSays DEF PayInv
    <3>3. Closing(r) /\ ~Retrying(r)
      BY <1>0, <1>1, <3>1 DEF Closing, AtWork, PeriodSound, InTurn
    <3>4. Closing(r)' /\ ~Retrying(r)' /\ AtWork(r, {"write"})'
      BY <1>0, <1>1, <3>2, <3>3 DEF Retrying, Closing, AtWork
    <3>5. invoices[r].status = "pending"
      BY <1>0, <1>1, <3>1 DEF PeriodSound, CloseKnows, CloseSteps
    <3>6. /\ \A u \in 1..MaxTry : ~Asked(r, u) /\ ~Asked(r, u)'
          /\ invoices[r].retries = 0 /\ invoices[r].intent = NoIntent
          /\ ~Asked(r, 0)
      <4>1. \A u \in 1..MaxTry : ~Asked(r, u)
        BY <3>1, <3>3, <3>5 DEF PeriodSound, InvoiceSays
      <4>2. ~Asked(r, 0)
        BY <1>1 DEF PayInv, StripeSays
      <4> QED BY <3>1, <3>2, <3>5, <4>1, <4>2 DEF PeriodSound, InvoiceSays, Asked
    <3>7. InTurn(r)' /\ InOrder(r)'
      <4>1. \A u \in 0..MaxTry, v \in 0..MaxTry : u < v => v \in 1..MaxTry
        BY BoundsAreNumbers
      <4> QED BY <3>4, <3>6, <4>1 DEF InTurn, InOrder
    <3>8. InvoiceSays(r)'
      BY <1>1, <3>4, <3>5, <3>6, Numbers DEF InvoiceSays
    <3>9. ASSUME NEW o \in Process PROVE RetryKnows(o, r)' /\ CloseKnows(o, r)'
      <4>1. RetryKnows(o, r)'
        BY <3>4 DEF RetryKnows, Retrying, AtWork
      <4>2. CASE o = q
        <5>1. IF Asked(r, 0)'
              THEN /\ proc'[q].result = ResultOf(stripe'[Try(r, 0)].answer)
                   /\ proc'[q].intent = Try(r, 0)
              ELSE proc'[q].result = "pending" /\ proc'[q].intent = NoIntent
          BY <1>0, <1>1, <1>2, <1>4, <2>2, <3>6, ChargeSays DEF PayInv, Asked
        <5>2. r <= biz'.start
          BY <1>1, Numbers, BoundsAreNumbers DEF TypeOK, Business
        <5> QED BY <1>2, <3>2, <3>6, <4>1, <4>2, <5>1, <5>2 DEF CloseKnows
      <4>3. CASE o # q
        <5>1. ~(proc[o].pc = "write" /\ proc[o].period = r)
          BY <1>1, <3>1 DEF PeriodSound, CloseKnows, CloseSteps
        <5> QED BY <1>1, <3>1, <3>2, <4>1, <4>3, <5>1 DEF PeriodSound, CloseKnows
      <4> QED BY <4>2, <4>3
    <3> QED BY <2>2, <3>7, <3>8, <3>9 DEF PeriodSound
  <2> QED BY <2>1, <2>2
<1> QED BY <1>3, <1>4 DEF PayInv

\* The retry charges under its own try's key.
LEMMA RetryChargeSound ==
  ASSUME TypeOK, TypeOK', CloseInv, PayInv, NEW q \in Process, RetryCharge(q)
  PROVE  PayInv'
<1>0. /\ proc[q].period \in Period /\ proc[q].try \in 0..MaxTry
  BY DEF RetryCharge, CloseInv, Knows, ForAPeriod, TypeOK, ProcessState
<1>a. PICK r \in Period, t \in 0..MaxTry : r = proc[q].period /\ t = proc[q].try
  BY <1>0
<1>1. /\ proc[q].pc = "retry" /\ Charge(q, t, "retried") /\ r \in Period /\ t \in 0..MaxTry
      /\ r = proc[q].period /\ t = proc[q].try
      /\ UNCHANGED <<biz, invoices, closes>>
  BY <1>a DEF RetryCharge
<1>2. \A p \in Period : closes[p] <= closes'[p]
  BY <1>1 DEF TypeOK
<1>3. StripeSays' /\ t > 0
  <2>1. t # 0 /\ t > 0
    BY <1>1 DEF PayInv, StripeSays
  <2> QED BY <1>1, <1>2, <2>1, ChargedStripe DEF PayInv
<1>4. ASSUME NEW p \in Period, Sound(p)' PROVE PeriodSound(p)'
  <2>1. CASE p # r
    BY <1>1, <1>2, <1>4, <2>1, ChargedElsewhere
  <2>2. CASE p = r
    <3>1. PeriodSound(r) /\ r \notin FreePeriod
      BY <1>1, <1>4, <2>2, ChargeSays DEF PayInv, Sound
    <3>2. /\ \A o \in Process \ {q} : proc'[o] = proc[o]
          /\ proc'[q].pc = "retried" /\ proc'[q].period = r /\ proc'[q].try = t
          /\ proc'[q].card = proc[q].card
      BY <1>1, <1>3, ChargeSays DEF PayInv
    <3>3. /\ proc[q].card /\ \A u \in 0..MaxTry : u < t => Dead(r, u)
      BY <1>1, <3>1 DEF PeriodSound, RetryKnows
    <3>4. ~Closing(r)
      BY <1>1, <3>1 DEF Retrying, AtWork, PeriodSound, InTurn
    <3>5. ~Closing(r)' /\ Retrying(r)'
      BY <1>1, <3>2, <3>4 DEF Retrying, Closing, AtWork
    <3>6. /\ Asked(r, t)' /\ proc'[q].intent = Try(r, t)
          /\ proc'[q].result = ResultOf(stripe'[Try(r, t)].answer)
      BY <1>1, <1>4, <2>2, <3>3, ChargeSays DEF PayInv
    <3>7. ASSUME NEW u \in 0..MaxTry, u # t
          PROVE  /\ Asked(r, u)' <=> Asked(r, u)
                 /\ Failed(r, u)' <=> Failed(r, u)
                 /\ Dead(r, u)' <=> Dead(r, u)
      <4>1. Try(r, u) \in Intent \ {Try(r, t)}
        BY <1>1, <3>7 DEF Try, Intent
      <4>2. stripe'[Try(r, u)] = stripe[Try(r, u)]
        BY <1>1, <4>1, ChargeSays DEF PayInv
      <4> QED BY <4>2 DEF Asked, Failed, Dead
    <3>8. /\ Asked(r, t) => Asked(r, t)'
          /\ Failed(r, t) => Failed(r, t)'
          /\ Dead(r, t) => Dead(r, t)'
      <4>1. Failed(r, t) => Asked(r, t)
        BY <1>1, Numbers DEF PayInv, StripeSays, Failed, Asked
      <4>2. Asked(r, t) => stripe' = stripe
        BY <1>1, ChargeSays DEF PayInv
      <4> QED BY <1>3, <4>1, <4>2 DEF Asked, Failed, Dead
    <3>9. InTurn(r)' /\ InOrder(r)'
      <4>1. ASSUME NEW u \in 0..MaxTry, NEW v \in 0..MaxTry, u < v, Asked(r, v)'
            PROVE  Dead(r, u)'
        <5>1. Dead(r, u)
          BY <3>1, <3>3, <3>7, <4>1 DEF PeriodSound, InOrder
        <5> QED BY <3>7, <3>8, <5>1
      <4> QED BY <3>5, <4>1 DEF InTurn, InOrder
    <3>10. InvoiceSays(r)'
      <4>0. PICK n \in 0..MaxTry : n = invoices[r].retries
        BY <3>1 DEF PeriodSound, InvoiceSays
      <4>1. n > 0 => Asked(r, n)'
        BY <4>0, <3>1, <3>6, <3>7 DEF PeriodSound, InvoiceSays
      <4>2. invoices[r].status = "failed" => Failed(r, n)'
        BY <3>1, <3>7, <3>8, <4>0 DEF PeriodSound, InvoiceSays
      <4>3. invoices[r].status \in {"none", "pending"} => ~Asked(r, 0)'
        <5>1. ~AtWork(r, {"write"})
          BY <3>4 DEF Closing, AtWork
        <5> QED BY <1>3, <3>1, <3>7, <5>1, Numbers DEF PeriodSound, InvoiceSays
      <4> QED BY <1>1, <3>1, <3>5, <4>0, <4>1, <4>2, <4>3 DEF PeriodSound, InvoiceSays
    <3>11. ASSUME NEW o \in Process PROVE RetryKnows(o, r)' /\ CloseKnows(o, r)'
      <4>1. CloseKnows(o, r)'
        BY <3>5 DEF CloseKnows, CloseSteps, Closing, AtWork
      <4>2. CASE o = q
        <5>1. \A u \in 0..MaxTry : u < t => Dead(r, u)'
          BY <3>3, <3>7, <3>8
        <5> QED BY <1>3, <3>2, <3>3, <3>6, <4>1, <4>2, <5>1 DEF RetryKnows
      <4>3. CASE o # q
        <5>1. proc[o].try \in 0..MaxTry /\ RetryKnows(o, r)
          BY <3>1 DEF TypeOK, ProcessState, PeriodSound
        <5>2. \A u \in 0..MaxTry : Dead(r, u) => Dead(r, u)'
          BY <3>7, <3>8
        <5>3. ASSUME proc[o].pc = "retried", proc[o].period = r
              PROVE  /\ Asked(r, proc[o].try)'
                     /\ stripe'[Try(r, proc[o].try)] = stripe[Try(r, proc[o].try)]
          <6>1. Asked(r, proc[o].try)
            BY <5>1, <5>3 DEF RetryKnows
          <6>2. CASE proc[o].try = t
            BY <1>1, <6>1, <6>2, ChargeSays DEF PayInv, Asked
          <6>3. CASE proc[o].try # t
            <7>1. Try(r, proc[o].try) \in Intent \ {Try(r, t)}
              BY <1>1, <5>1, <6>3 DEF Try, Intent
            <7> QED BY <1>1, <6>1, <7>1, ChargeSays DEF PayInv, Asked
          <6> QED BY <6>2, <6>3
        <5> QED BY <3>2, <4>1, <4>3, <5>1, <5>2, <5>3 DEF RetryKnows
      <4> QED BY <4>2, <4>3
    <3> QED BY <2>2, <3>9, <3>10, <3>11 DEF PeriodSound
  <2> QED BY <2>1, <2>2
<1> QED BY <1>3, <1>4 DEF PayInv

-----------------------------------------------------------------------------
(* Its answer goes into the invoice.                                       *)

\* The close writes what Stripe answered to the invoice.
LEMMA CloseWriteSound ==
  ASSUME TypeOK, TypeOK', CloseInv, PayInv, NEW q \in Process, CloseWrite(q)
  PROVE  PayInv'
<1>1. PICK r \in Period : r = proc[q].period
  BY DEF CloseWrite, CloseInv, Knows, ForAPeriod
<1>2. /\ \A o \in Process \ {q} : proc'[o] = proc[o]
      /\ proc[q].pc = "write" /\ proc'[q].pc = "account"
      /\ UNCHANGED <<biz, stripe, events, closes, risky>>
  BY <1>1 DEF CloseWrite, Goto, TypeOK, ProcessState
<1>3. /\ \A p \in Period \ {r} : invoices'[p] = invoices[p]
      /\ invoices'[r].status = proc[q].result /\ invoices'[r].intent = proc[q].intent
      /\ invoices'[r].retries = invoices[r].retries
  BY <1>1 DEF CloseWrite, TypeOK, Invoice
<1>4. /\ \A p \in Period : closes[p] <= closes'[p]
      /\ biz.start \in Nat /\ biz.start <= biz'.start
  BY <1>2, BoundsAreNumbers DEF TypeOK, Business
<1>5. StripeSays'
  BY <1>2, <1>4, StripeQuiet DEF PayInv, TypeOK
<1>6. ASSUME NEW p \in Period, Sound(p)' PROVE PeriodSound(p)'
  <2>1. PeriodSound(p)
    BY <1>2, <1>6 DEF PayInv, Sound
  <2>2. CASE p # r
    BY <1>1, <1>2, <1>3, <1>4, <2>1, <2>2, PeriodQuiet DEF CloseSteps
  <2>3. CASE p = r
    <3>1. /\ closes[r] > 0 /\ \A t \in 1..MaxTry : ~Asked(r, t)
          /\ IF Asked(r, 0)
             THEN /\ proc[q].result = ResultOf(stripe[Try(r, 0)].answer)
                  /\ proc[q].intent = Try(r, 0)
             ELSE proc[q].result = "pending" /\ proc[q].intent = NoIntent
      BY <1>1, <1>2, <2>1, <2>3 DEF PeriodSound, CloseKnows, CloseSteps
    <3>2. \A t \in 0..MaxTry : /\ Asked(r, t)' <=> Asked(r, t)
                               /\ Failed(r, t)' <=> Failed(r, t)
                               /\ Dead(r, t)' <=> Dead(r, t)
      BY <1>2 DEF Asked, Failed, Dead
    <3>3. ~Retrying(r) /\ ~Retrying(r)'
      <4>1. Closing(r)
        BY <1>1, <1>2 DEF Closing, AtWork
      <4> QED BY <1>1, <1>2, <2>1, <2>3, <4>1 DEF PeriodSound, InTurn, Retrying, AtWork
    <3>4. InTurn(r)' /\ InOrder(r)'
      BY <2>1, <2>3, <3>2, <3>3 DEF PeriodSound, InTurn, InOrder
    <3>5. invoices[r].retries = 0
      <4>1. /\ invoices[r].retries \in 0..MaxTry
            /\ invoices[r].retries > 0 => Asked(r, invoices[r].retries)
        BY <2>1, <2>3 DEF PeriodSound, InvoiceSays
      <4>2. invoices[r].retries > 0 => invoices[r].retries \in 1..MaxTry
        BY <4>1, BoundsAreNumbers
      <4> QED BY <3>1, <4>1, <4>2
    <3>6. proc[q].result = "failed" => Failed(r, 0)
      <4>1. proc[q].result = "failed" => stripe[Try(r, 0)].answer = "failed"
        BY <3>1 DEF ResultOf
      <4>2. Try(r, 0) \in Intent
        BY Numbers
      <4> QED BY <4>1, <4>2 DEF PayInv, StripeSays, Failed
    <3>7. proc[q].result \in {"none", "pending"} => ~Asked(r, 0) /\ proc[q].intent = NoIntent
      <4>1. stripe[Try(r, 0)].answer \in Answers
        BY Numbers DEF TypeOK
      <4> QED BY <3>1, <4>1 DEF ResultOf, Answers, Asked
    <3>8. InvoiceSays(r)'
      <4>1. 0 \in 0..MaxTry
        BY Numbers
      <4>2. proc[q].intent \in {NoIntent, Try(r, 0)}
        BY <3>1
      <4> QED BY <1>3, <3>1, <3>2, <3>5, <3>6, <3>7, <4>1, <4>2, Numbers DEF InvoiceSays
    <3>9. ASSUME NEW o \in Process PROVE RetryKnows(o, r)' /\ CloseKnows(o, r)'
      <4>1. RetryKnows(o, r)'
        BY <3>3 DEF RetryKnows, Retrying, AtWork
      <4>2. CASE o = q
        BY <1>2, <4>1, <4>2 DEF CloseKnows, CloseSteps
      <4>3. CASE o # q
        <5>1. ~(\/ proc[o].pc = "charge" /\ proc[o].period = r
                \/ proc[o].pc = "advance" /\ biz.start = r)
          <6>1. r < biz.start
            BY <3>1 DEF CloseInv, ChargedIsOver
          <6> QED BY <1>4, <3>1, <6>1, Numbers DEF CloseInv, MayCharge
        <5> QED BY <1>2, <2>1, <2>3, <3>2, <4>1, <4>3, <5>1, Numbers DEF PeriodSound, CloseKnows
      <4> QED BY <4>2, <4>3
    <3> QED BY <2>3, <3>4, <3>8, <3>9 DEF PeriodSound
  <2> QED BY <2>2, <2>3
<1> QED BY <1>5, <1>6 DEF PayInv

\* The retry writes what Stripe answered, and its try.
LEMMA RetryWriteSound ==
  ASSUME TypeOK, TypeOK', CloseInv, PayInv, NEW q \in Process, RetryWrite(q)
  PROVE  PayInv'
<1>1. PICK r \in Period, t \in 0..MaxTry : r = proc[q].period /\ t = proc[q].try
  BY DEF RetryWrite, CloseInv, Knows, ForAPeriod, TypeOK, ProcessState
<1>2. /\ \A o \in Process \ {q} : proc'[o] = proc[o]
      /\ proc[q].pc = "retried" /\ proc'[q].pc \in {"idle", "clear"}
      /\ UNCHANGED <<biz, stripe, events, closes, risky>>
  BY <1>1 DEF RetryWrite, Goto, Return, Idle, TypeOK, ProcessState
<1>3. /\ \A p \in Period \ {r} : invoices'[p] = invoices[p]
      /\ invoices'[r].status = proc[q].result /\ invoices'[r].retries = t
      /\ proc[q].intent # NoIntent => invoices'[r].intent = proc[q].intent
  BY <1>1 DEF RetryWrite, TypeOK, Invoice
<1>4. /\ \A p \in Period : closes[p] <= closes'[p]
      /\ biz.start \in Nat /\ biz.start <= biz'.start
  BY <1>2, BoundsAreNumbers DEF TypeOK, Business
<1>5. StripeSays'
  BY <1>2, <1>4, StripeQuiet DEF PayInv, TypeOK
<1>6. ASSUME NEW p \in Period, Sound(p)' PROVE PeriodSound(p)'
  <2>1. PeriodSound(p)
    BY <1>2, <1>6 DEF PayInv, Sound
  <2>2. CASE p # r
    BY <1>1, <1>2, <1>3, <1>4, <2>1, <2>2, PeriodQuiet DEF CloseSteps
  <2>3. CASE p = r
    <3>1. /\ t > 0 /\ Asked(r, t) /\ proc[q].intent = Try(r, t)
          /\ proc[q].result = ResultOf(stripe[Try(r, t)].answer)
      BY <1>1, <1>2, <2>1, <2>3 DEF PeriodSound, RetryKnows
    <3>2. \A u \in 0..MaxTry : /\ Asked(r, u)' <=> Asked(r, u)
                               /\ Failed(r, u)' <=> Failed(r, u)
                               /\ Dead(r, u)' <=> Dead(r, u)
      BY <1>2 DEF Asked, Failed, Dead
    <3>3. ~Closing(r) /\ ~Closing(r)'
      <4>1. Retrying(r)
        BY <1>1, <1>2 DEF Retrying, AtWork
      <4> QED BY <1>1, <1>2, <2>1, <2>3, <4>1 DEF PeriodSound, InTurn, Closing, AtWork
    <3>4. InTurn(r)' /\ InOrder(r)'
      BY <2>1, <2>3, <3>2, <3>3 DEF PeriodSound, InTurn, InOrder
    <3>5. /\ proc[q].result = "failed" => Failed(r, t)
          /\ proc[q].result \notin {"none", "pending"}
      <4>1. Try(r, t) \in Intent /\ stripe[Try(r, t)].answer \in Answers
        BY Numbers DEF TypeOK
      <4>2. stripe[Try(r, t)].answer # "none"
        BY <3>1 DEF Asked
      <4> QED BY <3>1, <4>1, <4>2 DEF PayInv, StripeSays, Failed, ResultOf, Answers
    <3>6. InvoiceSays(r)'
      BY <1>3, <3>1, <3>2, <3>5, Numbers DEF InvoiceSays
    <3>7. ASSUME NEW o \in Process PROVE RetryKnows(o, r)' /\ CloseKnows(o, r)'
      <4>1. CloseKnows(o, r)'
        BY <3>3 DEF CloseKnows, CloseSteps, Closing, AtWork
      <4>2. CASE o = q
        BY <1>2, <4>1, <4>2 DEF RetryKnows
      <4>3. CASE o # q
        <5>1. proc[o].try \in 0..MaxTry
          BY DEF TypeOK, ProcessState
        <5> QED BY <1>2, <2>1, <2>3, <3>2, <4>1, <4>3, <5>1 DEF PeriodSound, RetryKnows
      <4> QED BY <4>2, <4>3
    <3> QED BY <2>3, <3>4, <3>6, <3>7 DEF PeriodSound
  <2> QED BY <2>2, <2>3
<1> QED BY <1>5, <1>6 DEF PayInv

-----------------------------------------------------------------------------
(* Events, settlements, mishaps and the rest.                              *)

\* A webhook writes Stripe's event to the invoice that has its intent.
LEMMA HandleEventSound ==
  ASSUME TypeOK, TypeOK', CloseInv, PayInv, NEW q \in Process, HandleEvent(q)
  PROVE  PayInv'
<1>1. /\ \A o \in Process \ {q} : proc'[o] = proc[o]
      /\ proc[q].pc = "event" /\ proc'[q].pc \in {"idle", "clear", "alert"}
      /\ UNCHANGED <<biz, stripe, events, closes, risky>>
  BY DEF HandleEvent, Goto, Return, Idle, TypeOK, ProcessState
<1>2. /\ \A p \in Period : closes[p] <= closes'[p]
      /\ biz.start \in Nat /\ biz.start <= biz'.start
  BY <1>1, BoundsAreNumbers DEF TypeOK, Business
<1>3. StripeSays'
  BY <1>1, <1>2, StripeQuiet DEF PayInv, TypeOK
<1>4. proc[q].intent \in Intent /\ (proc[q].type = "failed" => stripe[proc[q].intent].status = "failed")
  <2> DEFINE ev == [type |-> proc[q].type, intent |-> proc[q].intent]
  <2>1. ev \in events /\ ev.type = proc[q].type /\ ev.intent = proc[q].intent
    BY <1>1 DEF PayInv, StripeSays
  <2> HIDE DEF ev
  <2> QED BY <1>1, <2>1 DEF PayInv, StripeSays, CloseInv, Knows
<1>5. ASSUME NEW p \in Period, invoices'[p] # invoices[p]
      PROVE  /\ invoices[p].intent = proc[q].intent
             /\ invoices'[p].intent = invoices[p].intent
             /\ invoices'[p].retries = invoices[p].retries
             /\ \/ invoices'[p].status \in {"processing", "paid"}
                \/ invoices'[p].status = "failed" /\ proc[q].type = "failed"
  BY <1>5 DEF HandleEvent, Matching, TypeOK, Invoice
<1>6. ASSUME NEW p \in Period, Sound(p)' PROVE PeriodSound(p)'
  <2>1. PeriodSound(p)
    BY <1>1, <1>6 DEF PayInv, Sound
  <2>2. CASE invoices'[p] = invoices[p]
    BY <1>1, <1>2, <2>1, <2>2, PeriodQuiet DEF CloseSteps
  <2>3. CASE invoices'[p] # invoices[p]
    <3>1. \A t \in 0..MaxTry : /\ Asked(p, t)' <=> Asked(p, t)
                               /\ Failed(p, t)' <=> Failed(p, t)
                               /\ Dead(p, t)' <=> Dead(p, t)
      BY <1>1 DEF Asked, Failed, Dead
    <3>2. /\ Retrying(p)' <=> Retrying(p)
          /\ Closing(p)' <=> Closing(p)
      BY <1>1 DEF Retrying, Closing, AtWork
    <3>3. InTurn(p)' /\ InOrder(p)'
      BY <2>1, <3>1, <3>2 DEF PeriodSound, InTurn, InOrder
    <3>4. /\ invoices[p].intent = Try(p, invoices[p].retries)
          /\ invoices[p].status \notin {"none", "pending"}
      BY <1>4, <1>5, <2>1, <2>3, NullsAreNotValues DEF PeriodSound, InvoiceSays
    <3>5. InvoiceSays(p)'
      <4>1. PICK n \in 0..MaxTry : n = invoices[p].retries
        BY <2>1 DEF PeriodSound, InvoiceSays
      <4>2. invoices'[p].status = "failed" => Failed(p, n)'
        BY <1>4, <1>5, <2>3, <3>1, <3>4, <4>1 DEF Failed
      <4> QED BY <1>5, <2>1, <2>3, <3>1, <3>4, <4>1, <4>2, Numbers DEF PeriodSound, InvoiceSays
    <3>6. ASSUME NEW o \in Process PROVE RetryKnows(o, p)' /\ CloseKnows(o, p)'
      <4>1. proc[o].try \in 0..MaxTry
        BY DEF TypeOK, ProcessState
      <4>2. CASE o = q
        BY <1>1, <4>2 DEF RetryKnows, CloseKnows, CloseSteps
      <4>3. CASE o # q
        BY <1>1, <2>1, <3>1, <3>4, <4>1, <4>3, Numbers DEF PeriodSound, RetryKnows, CloseKnows
      <4> QED BY <4>2, <4>3
    <3> QED BY <3>3, <3>5, <3>6 DEF PeriodSound
  <2> QED BY <2>2, <2>3
<1> QED BY <1>3, <1>6 DEF PayInv

\* A slow payment goes through, or fails after all.
LEMMA SettleSound ==
  ASSUME TypeOK, TypeOK', PayInv, NEW i \in Intent, NEW a \in Answers, Settle(i, a)
  PROVE  PayInv'
<1>1. /\ stripe[i].status = "processing" /\ a \in {"succeeded", "failed"}
      /\ \A j \in Intent : stripe'[j].answer = stripe[j].answer
      /\ \A j \in Intent : stripe'[j].status = IF j = i THEN a ELSE stripe[j].status
      /\ events' = events \cup {[type |-> a, intent |-> i]}
      /\ UNCHANGED <<biz, invoices, proc, closes, risky>>
  BY DEF Settle, TypeOK
<1>2. StripeSays'
  <2>1. \A j \in Intent :
          /\ stripe'[j].answer = "none" <=> stripe'[j].status = "none"
          /\ stripe'[j].answer = "failed" => stripe'[j].status = "failed"
          /\ j.invoice \in FreePeriod => stripe'[j].answer = "none"
    BY <1>1 DEF PayInv, StripeSays
  <2>2. \A ev \in events' : ev.type = "failed" => stripe'[ev.intent].status = "failed"
    <3>1. \A ev \in events : ev.intent \in Intent
      BY DEF TypeOK
    <3> QED BY <1>1, <3>1 DEF PayInv, StripeSays
  <2>3. \A p \in Period : Asked(p, 0)' => closes'[p] > 0
    BY <1>1, Numbers DEF PayInv, StripeSays, Asked
  <2> QED BY <1>1, <2>1, <2>2, <2>3 DEF PayInv, StripeSays
<1>3. ASSUME NEW p \in Period, Sound(p)' PROVE PeriodSound(p)'
  <2>1. PeriodSound(p)
    BY <1>1, <1>3 DEF PayInv, Sound
  <2>2. \A t \in 0..MaxTry : /\ Asked(p, t)' <=> Asked(p, t)
                             /\ Failed(p, t) => Failed(p, t)'
                             /\ Dead(p, t) => Dead(p, t)'
    BY <1>1, Numbers DEF Asked, Failed, Dead
  <2>3. InTurn(p)' /\ InOrder(p)'
    BY <1>1, <2>1, <2>2 DEF PeriodSound, InTurn, InOrder, Retrying, Closing, AtWork
  <2>4. InvoiceSays(p)'
    BY <1>1, <2>1, <2>2, Numbers DEF PeriodSound, InvoiceSays, Retrying, AtWork
  <2>5. ASSUME NEW o \in Process PROVE RetryKnows(o, p)' /\ CloseKnows(o, p)'
    <3>1. proc[o].try \in 0..MaxTry
      BY DEF TypeOK, ProcessState
    <3>2. \A t \in 0..MaxTry : stripe'[Try(p, t)].answer = stripe[Try(p, t)].answer
      BY <1>1, Numbers
    <3> QED BY <1>1, <2>1, <2>2, <3>1, <3>2, Numbers DEF PeriodSound, RetryKnows, CloseKnows
  <2> QED BY <2>3, <2>4, <2>5 DEF PeriodSound
<1> QED BY <1>2, <1>3 DEF PayInv

\* The owner's card, the platform's decisions, a new month, a restart.
LEMMA RestSound ==
  ASSUME TypeOK, TypeOK', CloseInv, PayInv,
         \/ AddCard \/ Reactivate \/ PeriodEnds \/ UNCHANGED vars
         \/ \E status \in Verdict : PlatformDecides(status)
         \/ \E Gone \in SUBSET Process : Restart(Gone)
  PROVE  PayInv'
<1>1. /\ UNCHANGED <<invoices, stripe, events, closes>> /\ risky \subseteq risky'
      /\ \A p \in Period : closes[p] <= closes'[p]
      /\ biz.start \in Nat /\ biz.start <= biz'.start
  <2>1. biz.start \in Nat
    BY BoundsAreNumbers DEF TypeOK, Business
  <2>2. biz'.start = biz.start
    BY DEF AddCard, Reactivate, PeriodEnds, vars, PlatformDecides, Restart, TypeOK, Business
  <2>3. UNCHANGED <<invoices, stripe, events, closes>> /\ risky \subseteq risky'
    BY DEF AddCard, Reactivate, PeriodEnds, vars, PlatformDecides, Restart
  <2> QED BY <2>1, <2>2, <2>3 DEF TypeOK
<1>2. \A o \in Process :
        \/ proc'[o] = proc[o]
        \/ /\ proc'[o].pc = "idle"
           /\ proc[o].pc \in {"write", "retry", "retried"} => proc[o].period \in risky'
  <2>1. CASE proc' = proc
    BY <2>1
  <2>2. CASE \E Gone \in SUBSET Process : Restart(Gone)
    <3>1. PICK Gone \in SUBSET Process : Restart(Gone)
      BY <2>2
    <3>2. ASSUME NEW o \in Process, o \notin Gone PROVE proc'[o] = proc[o]
      BY <3>1, <3>2 DEF Restart
    <3>3. ASSUME NEW o \in Process, o \in Gone
          PROVE  /\ proc'[o].pc = "idle"
                 /\ proc[o].pc \in {"write", "retry", "retried"} => proc[o].period \in risky'
      <4>1. proc'[o] = Idle
        BY <3>1, <3>3 DEF Restart
      <4>2. proc'[o].pc = "idle"
        BY <4>1 DEF Idle
      <4>3. ASSUME proc[o].pc \in {"write", "retry", "retried"}
            PROVE  proc[o].period \in risky'
        BY <3>1, <3>3, <4>3 DEF Restart
      <4> QED BY <4>2, <4>3
    <3> QED BY <3>2, <3>3
  <2> QED BY <2>1, <2>2 DEF AddCard, Reactivate, PeriodEnds, vars, PlatformDecides
<1>3. StripeSays'
  BY <1>1, <1>2, StripeQuiet DEF PayInv, TypeOK
<1>4. ASSUME NEW p \in Period, Sound(p)' PROVE PeriodSound(p)'
  <2>1. PeriodSound(p)
    BY <1>1, <1>4 DEF PayInv, Sound
  <2>2. p \notin risky'
    BY <1>4 DEF Sound
  <2> QED BY <1>1, <1>2, <2>1, <2>2, PeriodQuiet DEF CloseSteps
<1> QED BY <1>3, <1>4 DEF PayInv

\* Steps of handlers that hold no answer of Stripe.
LEMMA LettingGoSound ==
  ASSUME TypeOK, TypeOK', CloseInv, PayInv, NEW q \in Process,
         \/ CloseAccount(q) \/ ClearHold(q) \/ CancelStart(q) \/ CancelWrite(q)
         \/ RaiseAlert(q) \/ EventFails(q) \/ \E ev \in events : Deliver(q, ev)
  PROVE  PayInv'
<1>1. /\ UNCHANGED <<invoices, stripe, events, closes, risky>>
      /\ proc[q].pc \notin {"write", "retry", "retried"}
  BY DEF CloseAccount, ClearHold, CancelStart, CancelWrite, RaiseAlert, EventFails, Deliver
<1>2. biz.start <= biz'.start
  <2>1. biz.start \in Nat
    BY BoundsAreNumbers DEF TypeOK, Business
  <2>2. biz'.start = biz.start
    BY DEF CloseAccount, ClearHold, CancelStart, CancelWrite, RaiseAlert, EventFails, Deliver,
           TypeOK, Business
  <2> QED BY <2>1, <2>2
<1>3. CASE proc' = [proc EXCEPT ![q] = Idle]
  BY <1>1, <1>2, <1>3, ProcessFacts, LeavesSound DEF Idle, CloseSteps
<1>4. CASE CancelStart(q)
  <2> DEFINE s == [Idle EXCEPT !.pc = "cancel", !.period = biz.start]
  <2>1. biz.start \in 0..MaxPeriod
    BY DEF TypeOK, Business
  <2>2. s \in ProcessState /\ s.pc = "cancel"
    BY <2>1, ProcessFacts DEF Steps, Idle
  <2>3. proc' = [proc EXCEPT ![q] = s]
    BY <1>4 DEF CancelStart
  <2> HIDE DEF s
  <2> QED BY <1>1, <1>2, <2>2, <2>3, LeavesSound DEF CloseSteps
<1>5. ASSUME NEW ev \in events, Deliver(q, ev) PROVE PayInv'
  <2> DEFINE s == [Idle EXCEPT !.pc = "event", !.type = ev.type, !.intent = ev.intent]
  <2>1. ev.type \in Answers /\ ev.intent \in Intent /\ ev = [type |-> ev.type, intent |-> ev.intent]
    BY DEF TypeOK
  <2>2. s \in ProcessState
    BY <2>1, ProcessFacts DEF Steps
  <2>3. s.pc = "event" /\ s.type = ev.type /\ s.intent = ev.intent
    BY DEF Idle
  <2>4. proc' = [proc EXCEPT ![q] = s]
    BY <1>5 DEF Deliver
  <2> HIDE DEF s
  <2> QED BY <1>1, <1>2, <2>1, <2>2, <2>3, <2>4, LeavesSound DEF CloseSteps
<1> QED BY <1>3, <1>4, <1>5
        DEF CloseAccount, ClearHold, CancelWrite, RaiseAlert, EventFails, Return

\* No invoice and no intent to begin with.
LEMMA InitSound == Init => PayInv
<1> SUFFICES ASSUME Init PROVE PayInv
  OBVIOUS
<1>1. \A p \in Period, t \in 0..MaxTry : ~Asked(p, t)
  BY Numbers DEF Init, Asked
<1>2. StripeSays
  BY <1>1, Numbers DEF Init, StripeSays, Idle
<1>3. ASSUME NEW p \in Period PROVE PeriodSound(p)
  BY <1>1, Numbers DEF Init, PeriodSound, InTurn, InOrder, InvoiceSays, RetryKnows, CloseKnows,
     CloseSteps, Retrying, Closing, AtWork, Idle
<1> QED BY <1>2, <1>3 DEF PayInv

\* Every step keeps it.
LEMMA NextSound ==
  ASSUME TypeOK, CloseInv, PayInv, [Next]_vars
  PROVE  PayInv'
<1>1. TypeOK' /\ CloseInv'
  BY NextClose
<1>2. ASSUME NEW q \in Process, Close(q) PROVE PayInv'
  BY <1>1, <1>2, CloseStartSound, ReadPreviousSound, InsertInvoiceSound, AdvanceSound,
     CloseChargeSound, CloseWriteSound, LettingGoSound DEF Close
<1>3. ASSUME NEW q \in Process, Retry(q) PROVE PayInv'
  BY <1>1, <1>3, RetryStartSound, RetryChargeSound, RetryWriteSound, LettingGoSound DEF Retry
<1>4. ASSUME NEW q \in Process, Webhook(q) \/ Owner(q) PROVE PayInv'
  BY <1>1, <1>4, HandleEventSound, LettingGoSound DEF Webhook, Owner
<1>5. ASSUME NEW i \in Intent, NEW a \in Answers, Settle(i, a) PROVE PayInv'
  BY <1>1, <1>5, SettleSound
<1> QED BY <1>1, <1>2, <1>3, <1>4, <1>5, RestSound DEF Next

\* Money is taken at most once for an invoice through closes, double clicks,
\* declined and slow payments (chargeInvoice's idempotency key, closeBillingPeriod
\* and the retry route), unless the charge met a restart or a lost answer, or a
\* close and an owner's retry were at work on it at once.
THEOREM PaidOnce == Spec => []PaidOnceUnlessRisky
<1>1. ASSUME TypeOK, PayInv PROVE PaidOnceUnlessRisky
  <2> SUFFICES ASSUME NEW p \in Period, p \notin risky PROVE Cardinality(Payments(p)) <= 1
    BY DEF PaidOnceUnlessRisky
  <2>1. ASSUME NEW i \in Payments(p), NEW j \in Payments(p), i.try < j.try PROVE FALSE
    <3>1. /\ i = Try(p, i.try) /\ j = Try(p, j.try) /\ i.try \in 0..MaxTry /\ j.try \in 0..MaxTry
          /\ i \in Intent /\ j \in Intent
          /\ stripe[i].status = "succeeded" /\ stripe[j].status = "succeeded"
          /\ j.invoice = p
      BY DEF Payments, Intent, Try
    <3>2. stripe[j].answer # "none" /\ stripe[i].answer # "none" /\ p \notin FreePeriod
      BY <1>1, <3>1 DEF PayInv, StripeSays
    <3>3. InOrder(p)
      BY <1>1, <3>2 DEF PayInv, Sound, PeriodSound
    <3>4. Asked(p, j.try) /\ Dead(p, i.try)
      BY <2>1, <3>1, <3>2, <3>3 DEF InOrder, Asked
    <3> QED BY <3>1, <3>2, <3>4 DEF Dead, Failed, Asked
  <2>2. \A i, j \in Payments(p) : i = j
    <3>1. ASSUME NEW i \in Payments(p), NEW j \in Payments(p) PROVE i = j
      <4>1. /\ i = Try(p, i.try) /\ j = Try(p, j.try)
            /\ i.try \in Int /\ j.try \in Int
        BY DEF Payments, Intent, Try
      <4>2. i.try = j.try
        BY <2>1, <4>1
      <4> QED BY <4>1, <4>2
    <3> QED BY <3>1
  <2>3. CASE Payments(p) = {}
    BY <2>3, FS_EmptySet
  <2>4. CASE Payments(p) # {}
    <3>1. PICK i : Payments(p) = {i}
      BY <2>2, <2>4
    <3> QED BY <3>1, FS_Singleton
  <2> QED BY <2>3, <2>4
<1>2. Spec => []PayInv
  BY InitSound, NextSound, CloseInvHolds, PTL DEF Spec
<1> QED BY <1>1, <1>2, CloseInvHolds, PTL
=============================================================================
