---------------------------- MODULE OfficeProofs ----------------------------
(***************************************************************************)
(* Why the promises of the business's and the platform's side hold, for    *)
(* every number of members, requests, services, pages and bookings.  The   *)
(* parts share no variable, so each has an inductive invariant of its own, *)
(* shown to hold at its start, over its steps, and over steps that leave   *)
(* it alone; the end of the module puts them together.                     *)
(***************************************************************************)
EXTENDS MCOffice, FiniteSetTheorems, WellFoundedInduction, SequenceTheorems, TLAPS

-----------------------------------------------------------------------------
(* What the voice agent knows.                                             *)

\* The versions have a last number.
HasLast ==
  \E n \in 0..MaxVersions :
    /\ \A v \in versions : v.number <= n
    /\ n = 0 \/ \E v \in versions : v.number = n

\* What calls are about to use is recorded; a number that is about to be used is new,
\* and one request at a time publishes, unless two crossed.
TeachInv ==
  /\ K!TypeOK /\ HasLast /\ K!LiveIsRecorded
  /\ \A r \in Actor : publishing[r].pc = "update" =>
       \E v \in versions : v.content = publishing[r].content
  /\ \A r \in Actor : publishing[r].pc = "insert" => publishing[r].number > 0
  /\ ~published =>
       /\ \A q, r \in Actor : K!Publishing(q) /\ K!Publishing(r) => q = r
       /\ \A r \in Actor : publishing[r].pc = "insert" =>
            \A v \in versions : v.number < publishing[r].number

LEMMA WorkChanges ==
  ASSUME NEW w \in K!Work, NEW p, NEW x
  PROVE  /\ [w EXCEPT !.pc = p, !.content = x] = [pc |-> p, content |-> x, number |-> w.number]
         /\ [w EXCEPT !.pc = p, !.number = x] = [pc |-> p, content |-> w.content, number |-> x]
<1>1. PICK a, b, c : w = [pc |-> a, content |-> b, number |-> c]
  BY DEF K!Work
<1>2. [[pc |-> a, content |-> b, number |-> c] EXCEPT !.pc = p]
        = [pc |-> p, content |-> b, number |-> c]
  OBVIOUS
<1>3. /\ [[pc |-> p, content |-> b, number |-> c] EXCEPT !.content = x]
           = [pc |-> p, content |-> x, number |-> c]
      /\ [[pc |-> p, content |-> b, number |-> c] EXCEPT !.number = x]
           = [pc |-> p, content |-> b, number |-> x]
  OBVIOUS
<1> QED  BY <1>1, <1>2, <1>3

LEMMA TeachStarts == K!Assumptions /\ K!Init => TeachInv
<1> SUFFICES ASSUME K!Assumptions, K!Init PROVE TeachInv  OBVIOUS
<1>1. /\ draft = 0 /\ live = 0 /\ versions = {} /\ edits = 0 /\ published = FALSE
      /\ form = [r \in Actor |-> 0] /\ publishing = [r \in Actor |-> K!Idle]
      /\ MaxEdits \in Nat /\ MaxVersions \in Nat
  BY DEF K!Init, K!Assumptions
<1>2. K!TypeOK
  <2>1. form \in [Actor -> K!Content] /\ 0 \in K!Content /\ 0 \in 0..MaxEdits
    BY <1>1 DEF K!Content
  <2>2. publishing \in [Actor -> K!Work \cup {K!Idle}]
    BY <1>1
  <2> QED  BY <1>1, <2>1, <2>2 DEF K!TypeOK
<1>3. HasLast
  BY <1>1 DEF HasLast
<1>4. \A r \in Actor : publishing[r].pc = "idle"
  BY <1>1 DEF K!Idle
<1> QED  BY <1>1, <1>2, <1>3, <1>4 DEF TeachInv, K!LiveIsRecorded, K!Publishing

LEMMA WorkShapes ==
  ASSUME K!TypeOK, K!Assumptions, NEW r \in Actor
  PROVE  /\ publishing[r] = K!Idle \/ publishing[r] \in K!Work
         /\ publishing[r].pc # "idle" => publishing[r] # K!Idle
         /\ publishing[r].pc # "idle" =>
              /\ publishing[r] \in K!Work /\ publishing[r].content \in 0..MaxEdits
              /\ publishing[r].number \in 0..MaxVersions
         /\ K!Idle.pc = "idle"
BY DEF K!TypeOK, K!Idle, K!Work, K!Content

\* The last number is the one the route reads.
LEMMA LatestIs ==
  ASSUME HasLast, K!Assumptions
  PROVE  K!Latest \in 0..MaxVersions /\ \A v \in versions : v.number <= K!Latest
BY DEF HasLast, K!Latest

\* A step of one request that leaves the versions alone.
LEMMA TeachStep ==
  ASSUME TeachInv, K!Assumptions, NEW r \in Actor, NEW w,
         publishing' = [publishing EXCEPT ![r] = w], w \in K!Work \cup {K!Idle},
         versions' = versions, draft' \in K!Content, live' \in K!Content,
         form' \in [Actor -> K!Content], edits' \in 0..MaxEdits, published' \in BOOLEAN,
         live' # 0 => \E v \in versions : v.content = live',
         w.pc = "update" => \E v \in versions : v.content = w.content,
         w.pc = "insert" => w.number > 0,
         published => published',
         ~published' /\ w.pc \in {"number", "insert", "update"} =>
           \A q \in Actor : K!Publishing(q) => q = r,
         ~published' /\ w.pc = "insert" => \A v \in versions : v.number < w.number
  PROVE  TeachInv'
<1> USE DEF TeachInv
<1>1. K!TypeOK'
  BY DEF K!TypeOK
<1>2. \A q \in Actor : publishing'[q] = IF q = r THEN w ELSE publishing[q]
  BY DEF K!TypeOK
<1>3. \A q \in Actor : K!Publishing(q)' =
        IF q = r THEN w.pc \in {"number", "insert", "update"} ELSE K!Publishing(q)
  BY <1>2 DEF K!Publishing
<1>4. HasLast'
  BY DEF HasLast
<1>5. K!LiveIsRecorded'
  BY DEF K!LiveIsRecorded
<1>6. \A q \in Actor : publishing'[q].pc = "update" =>
        \E v \in versions : v.content = publishing'[q].content
  BY <1>2
<1>7. ASSUME ~published', NEW p \in Actor, NEW q \in Actor, K!Publishing(p)', K!Publishing(q)'
      PROVE  p = q
  BY <1>3, <1>7
<1> QED  BY <1>1, <1>2, <1>4, <1>5, <1>6, <1>7

LEMMA TeachMoves == TeachInv /\ K!Assumptions /\ K!Next => TeachInv'
<1> SUFFICES ASSUME TeachInv, K!Assumptions, K!Next PROVE TeachInv'  OBVIOUS
<1> USE DEF TeachInv
<1>0. PICK r \in Actor :
        \/ K!Load(r) \/ K!Edit(r) \/ K!Press(r) \/ K!SaveDraft(r) \/ K!ReadDraft(r)
        \/ K!ReadTarget(r) \/ K!ReadLatest(r) \/ K!InsertVersion(r) \/ K!UpdateBusiness(r)
        \/ K!Stop(r)
  BY DEF K!Next
<1>t. /\ draft \in 0..MaxEdits /\ live \in 0..MaxEdits /\ form \in [Actor -> 0..MaxEdits]
      /\ edits \in 0..MaxEdits /\ published \in BOOLEAN
      /\ publishing \in [Actor -> K!Work \cup {K!Idle}] /\ K!Content = 0..MaxEdits
      /\ versions \subseteq K!Version /\ MaxEdits \in Nat /\ MaxVersions \in Nat
      /\ live # 0 => \E v \in versions : v.content = live
  BY DEF K!TypeOK, K!Content, K!LiveIsRecorded, K!Assumptions
<1>w. /\ K!Idle.pc = "idle" /\ K!Idle \in K!Work \cup {K!Idle}
      /\ publishing = [publishing EXCEPT ![r] = publishing[r]]
      /\ publishing[r] \in K!Work \cup {K!Idle}
  BY <1>t, WorkShapes
<1>1. CASE K!Load(r)
  <2>1. /\ publishing' = publishing /\ form' \in [Actor -> 0..MaxEdits]
        /\ UNCHANGED <<draft, live, versions, edits, published>>
    BY <1>1, <1>t DEF K!Load, K!store
  <2> QED  BY <2>1, <1>t DEF K!TypeOK, HasLast, K!LiveIsRecorded, K!Publishing
<1>2. CASE K!Edit(r)
  <2>1. /\ publishing' = publishing /\ form' \in [Actor -> 0..MaxEdits] /\ edits' \in 0..MaxEdits
        /\ UNCHANGED <<draft, live, versions, published>>
    BY <1>2, <1>t DEF K!Edit, K!store
  <2> QED  BY <2>1, <1>t DEF K!TypeOK, HasLast, K!LiveIsRecorded, K!Publishing
<1>3. CASE K!Press(r)
  <2>1. PICK pc \in {"save", "draft", "target"}, c \in 0..MaxEdits, n \in 0..MaxVersions :
          publishing' = [publishing EXCEPT ![r] = [pc |-> pc, content |-> c, number |-> n]]
    <3>1. \A v \in versions : v.number \in 0..MaxVersions
      BY <1>t DEF K!Version
    <3>2. form[r] \in 0..MaxEdits /\ 0 \in 0..MaxEdits /\ 0 \in 0..MaxVersions
      BY <1>t
    <3> QED  BY <1>3, <3>1, <3>2 DEF K!Press
  <2>2. [pc |-> pc, content |-> c, number |-> n] \in K!Work
    BY <1>t DEF K!Work
  <2>3. UNCHANGED <<draft, live, versions, form, edits, published>>
    BY <1>3 DEF K!Press, K!store
  <2> QED  BY <2>1, <2>2, <2>3, <1>t, TeachStep
<1>4. CASE K!SaveDraft(r)
  <2>1. /\ publishing' = [publishing EXCEPT ![r] = K!Idle] /\ draft' = publishing[r].content
        /\ UNCHANGED <<live, versions, form, edits, published>> /\ publishing[r].pc = "save"
    BY <1>4 DEF K!SaveDraft
  <2>2. publishing[r].content \in 0..MaxEdits
    BY <2>1, WorkShapes
  <2> QED  BY <2>1, <2>2, <1>t, <1>w, TeachStep
<1>5. ASSUME NEW c \in 0..MaxEdits, publishing[r].pc \in {"draft", "target"},
             publishing' = [publishing EXCEPT ![r].pc = "number", ![r].content = c],
             published' = (published \/ \E q \in Actor : K!Publishing(q)),
             UNCHANGED <<draft, live, versions, form, edits>>
      PROVE  TeachInv'
  <2>1. PICK w : w = [pc |-> "number", content |-> c, number |-> publishing[r].number]
    OBVIOUS
  <2>2. publishing[r] \in K!Work /\ publishing[r].number \in 0..MaxVersions
    BY <1>5, WorkShapes
  <2>3. w \in K!Work
    BY <1>t, <2>1, <2>2 DEF K!Work, K!Content
  <2>4. publishing' = [publishing EXCEPT ![r] = w]
    <3>1. [publishing[r] EXCEPT !.pc = "number", !.content = c] = w
      <4>1. PICK p, b, n : publishing[r] = [pc |-> p, content |-> b, number |-> n]
        BY <2>2 DEF K!Work
      <4>2. [[pc |-> p, content |-> b, number |-> n] EXCEPT !.pc = "number"]
              = [pc |-> "number", content |-> b, number |-> n]
        OBVIOUS
      <4>3. [[pc |-> "number", content |-> b, number |-> n] EXCEPT !.content = c]
              = [pc |-> "number", content |-> c, number |-> n]
        OBVIOUS
      <4> QED  BY <2>1, <4>1, <4>2, <4>3
    <3> QED  BY <1>5, <1>t, <3>1
  <2> QED  BY <1>5, <1>t, <2>1, <2>3, <2>4, TeachStep
<1>6. CASE K!ReadDraft(r)
  BY <1>6, <1>5, <1>t DEF K!ReadDraft, K!store
<1>7. CASE K!ReadTarget(r)
  <2>1. PICK v \in versions :
          publishing' = [publishing EXCEPT ![r].pc = "number", ![r].content = v.content]
    BY <1>7 DEF K!ReadTarget
  <2>2. v.content \in 0..MaxEdits
    BY <1>t DEF K!Version
  <2> QED  BY <1>7, <1>5, <2>1, <2>2 DEF K!ReadTarget, K!store
<1>8. CASE K!ReadLatest(r)
  <2>1. PICK w : w = [pc |-> "insert", content |-> publishing[r].content,
                      number |-> K!Latest + 1]
    OBVIOUS
  <2>2. publishing[r].pc = "number" /\ K!Latest < MaxVersions
        /\ UNCHANGED <<draft, live, versions, form, edits, published>>
    BY <1>8 DEF K!ReadLatest, K!store
  <2>3. publishing[r] \in K!Work /\ publishing[r].content \in 0..MaxEdits
    BY <2>2, WorkShapes
  <2>4. /\ K!Latest + 1 \in 0..MaxVersions /\ K!Latest + 1 > 0
        /\ \A v \in versions : v.number < K!Latest + 1
    BY <1>t, <2>2, LatestIs DEF K!Version
  <2>5. w \in K!Work
    BY <1>t, <2>1, <2>3, <2>4 DEF K!Work, K!Content
  <2>6. publishing' = [publishing EXCEPT ![r] = w]
    <3>1. [publishing[r] EXCEPT !.pc = "insert", !.number = K!Latest + 1] = w
      BY <2>1, <2>3, WorkChanges
    <3> QED  BY <1>8, <1>t, <3>1 DEF K!ReadLatest, K!NextNumber
  <2>7. ~published => \A q \in Actor : K!Publishing(q) => q = r
    BY <2>2 DEF K!Publishing
  <2> QED  BY <1>t, <2>1, <2>2, <2>4, <2>5, <2>6, <2>7, TeachStep
<1>9. CASE K!InsertVersion(r)
  <2>1. PICK w, v : w = [pc |-> "update", content |-> publishing[r].content,
                         number |-> publishing[r].number]
                    /\ v = [number |-> publishing[r].number, content |-> publishing[r].content]
    OBVIOUS
  <2>2. publishing[r].pc = "insert" /\ versions' = versions \cup {v}
        /\ UNCHANGED <<draft, live, form, edits, published>>
    BY <1>9, <2>1 DEF K!InsertVersion
  <2>3. publishing[r] \in K!Work /\ publishing[r].content \in 0..MaxEdits
        /\ publishing[r].number \in 1..MaxVersions
    BY <2>2, WorkShapes, <1>t
  <2>4. w \in K!Work /\ v \in K!Version
    BY <1>t, <2>1, <2>3 DEF K!Work, K!Content, K!Version
  <2>5. publishing' = [publishing EXCEPT ![r] = w]
    <3>1. [publishing[r] EXCEPT !.pc = "update"] = w
      BY <2>1, <2>3 DEF K!Work
    <3> QED  BY <1>9, <1>t, <3>1 DEF K!InsertVersion, K!Goto
  <2>6. \A q \in Actor : publishing'[q] = IF q = r THEN w ELSE publishing[q]
    BY <1>t, <2>5
  <2>7. K!TypeOK'
    BY <1>t, <2>2, <2>4, <2>5 DEF K!TypeOK
  <2>8. HasLast'
    <3>1. PICK n \in 0..MaxVersions :
            /\ \A u \in versions : u.number <= n
            /\ n = 0 \/ \E u \in versions : u.number = n
      BY DEF HasLast
    <3>2. CASE v.number <= n
      BY <2>2, <3>1, <3>2 DEF HasLast
    <3>3. CASE ~(v.number <= n)
      <4>1. v.number \in 0..MaxVersions /\ \A u \in versions' : u.number <= v.number
        BY <1>t, <2>1, <2>2, <2>3, <3>1, <3>3 DEF K!Version
      <4> QED  BY <2>2, <4>1 DEF HasLast
    <3> QED  BY <3>2, <3>3
  <2>9. K!LiveIsRecorded'
    <3>1. live # 0 => \E u \in versions' : u.content = live
      BY <1>t, <2>2
    <3>2. ASSUME ~published, NEW u \in versions', NEW x \in versions', u.number = x.number
          PROVE  u = x
      <4>1. \A y \in versions : y.number < v.number /\ y.number \in Nat
        BY <1>t, <2>1, <2>2, <3>2 DEF K!Version
      <4>2. v.number \in Nat
        BY <2>1, <2>3
      <4> QED  BY <2>2, <3>2, <4>1, <4>2 DEF K!LiveIsRecorded
    <3> QED  BY <2>2, <3>1, <3>2 DEF K!LiveIsRecorded
  <2>10. \A q \in Actor : publishing'[q].pc = "update" =>
           \E u \in versions' : u.content = publishing'[q].content
    BY <2>1, <2>2, <2>6
  <2>11. \A q \in Actor : K!Publishing(q)' <=> K!Publishing(q)
    BY <2>1, <2>2, <2>6 DEF K!Publishing
  <2>12. ASSUME ~published, NEW q \in Actor, publishing'[q].pc = "insert" PROVE FALSE
    BY <2>1, <2>2, <2>6, <2>12 DEF K!Publishing
  <2> QED  BY <2>1, <2>2, <2>6, <2>7, <2>8, <2>9, <2>10, <2>11, <2>12
<1>10. CASE K!UpdateBusiness(r)
  <2>1. /\ publishing' = [publishing EXCEPT ![r] = K!Idle]
        /\ draft' = publishing[r].content /\ live' = publishing[r].content
        /\ UNCHANGED <<versions, form, edits, published>> /\ publishing[r].pc = "update"
    BY <1>10 DEF K!UpdateBusiness, K!Recorded
  <2>2. publishing[r].content \in 0..MaxEdits
        /\ \E v \in versions : v.content = publishing[r].content
    BY <2>1, WorkShapes
  <2> QED  BY <2>1, <2>2, <1>t, <1>w, TeachStep
<1>11. CASE K!Stop(r)
  <2>1. /\ publishing' = [publishing EXCEPT ![r] = K!Idle]
        /\ UNCHANGED <<draft, live, versions, form, edits, published>>
    BY <1>11 DEF K!Stop, K!store
  <2> QED  BY <2>1, <1>t, <1>w, TeachStep
<1> QED  BY <1>0, <1>1, <1>2, <1>3, <1>4, <1>6, <1>7, <1>8, <1>9, <1>10, <1>11

LEMMA TeachStands == TeachInv /\ UNCHANGED teaching => TeachInv'
BY DEF TeachInv, teaching, K!TypeOK, HasLast, K!LiveIsRecorded, K!Publishing

-----------------------------------------------------------------------------
(* The settings.                                                           *)

\* What a form sends.
SentOf(on, typed) == IF on = "profile" THEN S!AsNumber(typed) ELSE typed

AtWork == {"saving", "located", "saved", "refused"}

\* An untouched form is what was loaded; what is under way is what the form was when it
\* was sent, and if nobody touched it, what was loaded, or a window of 0 days; the point
\* is the place's.
TabHolds(t) ==
  /\ t \in S!TabState
  /\ t.on # "profile" => t.form # Anyone
  /\ t.phase \notin AtWork => ~t.sent.touched
  /\ ~t.touched /\ ~t.sent.touched =>
       \/ t.form = t.base
       \/ t.base = Unseen /\ t.form = None
       \/ t.on = "profile" /\ t.form = Anyone /\ t.base = None
  /\ t.phase \in AtWork /\ ~t.touched => t.sent.value = SentOf(t.on, t.form)
  /\ t.phase \in {"saving", "located"} /\ ~t.sent.touched =>
       \/ t.sent.value = t.sent.base
       \/ t.sent.base = Unseen /\ t.sent.value = None
       \/ t.on = "profile" /\ t.sent.value = 0
  /\ t.phase = "saved" /\ t.on = "profile" => t.sent.value # 0
  /\ t.phase = "located" => t.on = "listing" /\ t.sent.point \in {t.sent.value, None}

SetInv ==
  /\ S!TypeOK /\ S!EditsStand /\ S!PinIsOfThePlace
  /\ \A w \in Actor : TabHolds(tab[w])

LEMMA SetNulls ==
  S!Assumptions =>
    /\ Number \subseteq Nat \ {0} /\ MaxEdits \in Nat
    /\ None # Anyone /\ None # Unseen /\ Anyone # Unseen
    /\ None \notin Number /\ None # 0 /\ Anyone \notin Number /\ Anyone # 0
    /\ Unseen \notin Number /\ Unseen # 0
    /\ S!Value = Number \cup {None, 0} /\ Anyone \notin S!Value /\ Unseen \notin S!Value
BY DEF S!Assumptions, S!Value

LEMMA FirstHolds ==
  ASSUME S!Assumptions, NEW s \in S!Section
  PROVE  TabHolds(S!Away) /\ TabHolds(S!FirstForm(s))
<1>1. PICK none : none = [value |-> None, touched |-> FALSE, base |-> Unseen, point |-> None]
  OBVIOUS
<1>2. none \in S!Request
  BY <1>1, SetNulls DEF S!Request
<1>3. S!Away = [on |-> "profile", phase |-> "away", form |-> None, base |-> Unseen,
                touched |-> FALSE, sent |-> none]
  BY <1>1 DEF S!Away, S!NoRequest
<1>4. S!FirstForm(s) = [on |-> s, phase |-> IF s = "hours" THEN "open" ELSE "loading",
                        form |-> None, base |-> Unseen, touched |-> FALSE, sent |-> none]
  <2>1. PICK p, f : p = (IF s = "hours" THEN "open" ELSE "loading") /\ f = FALSE
    OBVIOUS
  <2>2. [[on |-> "profile", phase |-> "away", form |-> None, base |-> Unseen,
          touched |-> f, sent |-> none] EXCEPT !.on = s]
          = [on |-> s, phase |-> "away", form |-> None, base |-> Unseen,
             touched |-> f, sent |-> none]
    OBVIOUS
  <2>3. [[on |-> s, phase |-> "away", form |-> None, base |-> Unseen,
          touched |-> f, sent |-> none] EXCEPT !.phase = p]
          = [on |-> s, phase |-> p, form |-> None, base |-> Unseen,
             touched |-> f, sent |-> none]
    OBVIOUS
  <2> QED  BY <1>3, <2>1, <2>2, <2>3 DEF S!FirstForm
<1>5. ASSUME NEW o \in S!Section, NEW p \in {"away", "open", "loading"},
             NEW t, t = [on |-> o, phase |-> p, form |-> None, base |-> Unseen,
                         touched |-> FALSE, sent |-> none]
      PROVE  TabHolds(t)
  <2>1. t \in S!TabState
    BY <1>2, <1>5, SetNulls DEF S!TabState
  <2>2. none.touched = FALSE
    BY <1>1
  <2> QED  BY <1>5, <2>1, <2>2, SetNulls DEF TabHolds, AtWork
<1> QED  BY <1>3, <1>4, <1>5 DEF S!Section

LEMMA SetStarts == S!Assumptions /\ S!Init => SetInv
<1> SUFFICES ASSUME S!Assumptions, S!Init PROVE SetInv  OBVIOUS
<1>1. \A w \in Actor : TabHolds(tab[w])
  BY FirstHolds DEF S!Init, S!Section
<1>2. S!Away \in S!TabState
  BY FirstHolds DEF TabHolds, S!Section
<1>3. S!TypeOK
  BY <1>2, SetNulls DEF S!Init, S!TypeOK
<1> QED  BY <1>1, <1>3 DEF SetInv, S!Init, S!EditsStand, S!PinIsOfThePlace

LEMMA TabFields ==
  ASSUME SetInv, NEW w \in Actor
  PROVE  /\ tab[w] \in S!TabState /\ TabHolds(tab[w])
         /\ tab[w].on \in S!Section /\ tab[w].form \in S!Value \cup {Anyone}
         /\ tab[w].base \in S!Value \cup {Unseen} /\ tab[w].touched \in BOOLEAN
         /\ tab[w].sent \in S!Request
         /\ tab[w].sent.value \in S!Value /\ tab[w].sent.touched \in BOOLEAN
         /\ tab[w].sent.base \in S!Value \cup {Unseen} /\ tab[w].sent.point \in S!Value
BY DEF SetInv, S!TypeOK, S!TabState, S!Request

\* A step in the browser.
LEMMA TabStep ==
  ASSUME SetInv, NEW w \in Actor, NEW new, tab' = [tab EXCEPT ![w] = new], TabHolds(new),
         typings' \in 0..MaxEdits, UNCHANGED <<store, point, kept, missed>>
  PROVE  SetInv'
<1>1. new \in S!TabState
  BY DEF TabHolds
<1>2. S!TypeOK'
  BY <1>1 DEF SetInv, S!TypeOK
<1>3. \A v \in Actor : tab'[v] = IF v = w THEN new ELSE tab[v]
  BY DEF SetInv, S!TypeOK
<1> QED  BY <1>2, <1>3 DEF SetInv, S!EditsStand, S!PinIsOfThePlace

\* A tab that becomes `new`.
Becomes(w, new) ==
  /\ tab' = [tab EXCEPT ![w] = new]
  /\ UNCHANGED <<store, point, typings, kept, missed>>

LEMMA OnlyTab ==
  ASSUME SetInv, NEW w \in Actor, NEW new, Becomes(w, new), TabHolds(new)
  PROVE  SetInv'
BY TabStep DEF Becomes, SetInv, S!TypeOK

LEMMA OpenHolds ==
  ASSUME SetInv, S!Assumptions, NEW w \in Actor, NEW s \in S!Section, S!Open(w, s)
  PROVE  SetInv'
BY FirstHolds, OnlyTab DEF S!Open, Becomes

LEMMA LeaveHolds ==
  ASSUME SetInv, S!Assumptions, NEW w \in Actor, S!Leave(w)
  PROVE  SetInv'
BY FirstHolds, OnlyTab DEF S!Leave, Becomes, S!Section

LEMMA FillHolds ==
  ASSUME SetInv, S!Assumptions, NEW w \in Actor, NEW s \in S!Section,
         tab[w].phase \in {"loading", "open"}, S!Fill(w, s, store[s])
  PROVE  SetInv'
<1> DEFINE new == [tab[w] EXCEPT !.phase = "open", !.form = store[s],
                                 !.base = store[s], !.touched = FALSE]
<1>1. Becomes(w, new)
  BY DEF S!Fill, Becomes
<1>2. store[s] \in S!Value /\ store[s] # Anyone
  BY SetNulls DEF SetInv, S!TypeOK
<1>3. tab[w].phase \notin AtWork
  BY DEF AtWork
<1>4. /\ new \in S!TabState /\ new.phase = "open" /\ new.form = store[s]
      /\ new.base = store[s] /\ new.sent = tab[w].sent
  BY <1>2, TabFields DEF S!TabState
<1>5. ~tab[w].sent.touched
  BY <1>3, TabFields DEF TabHolds
<1>6. TabHolds(new)
  BY <1>2, <1>4, <1>5 DEF TabHolds, AtWork
<1> QED  BY <1>1, <1>6, OnlyTab

LEMMA LoadHoursHolds ==
  ASSUME SetInv, S!Assumptions, NEW w \in Actor, S!LoadHours(w)
  PROVE  SetInv'
<1>1. CASE store["hours"] # None
  BY <1>1, FillHolds DEF S!LoadHours, S!Section
<1>2. CASE store["hours"] = None
  <2> DEFINE new == [tab[w] EXCEPT !.base = None]
  <2>1. Becomes(w, new) /\ tab[w].phase = "open" /\ tab[w].base = Unseen /\ tab[w].on = "hours"
    BY <1>2 DEF S!LoadHours, Becomes
  <2>2. /\ new \in S!TabState /\ new.phase = tab[w].phase /\ new.form = tab[w].form
        /\ new.base = None /\ new.sent = tab[w].sent /\ new.on = tab[w].on
        /\ new.touched = tab[w].touched
    BY TabFields, SetNulls DEF S!TabState
  <2> HIDE DEF new
  <2>3. TabHolds(new)
    BY <2>1, <2>2, TabFields, SetNulls DEF TabHolds, AtWork
  <2> QED  BY <2>1, <2>3, OnlyTab
<1> QED  BY <1>1, <1>2

LEMMA TypeHolds ==
  ASSUME SetInv, S!Assumptions, NEW w \in Actor, NEW s \in S!Section, NEW v,
         v \in S!Value \cup (IF s = "profile" THEN {Anyone} ELSE {}), S!Type(w, s, v)
  PROVE  SetInv'
<1> DEFINE new == [tab[w] EXCEPT !.form = v, !.touched = TRUE]
<1>1. /\ tab' = [tab EXCEPT ![w] = new] /\ tab[w].on = s
      /\ UNCHANGED <<store, point, kept, missed>> /\ typings' \in 0..MaxEdits
  BY SetNulls DEF S!Type, SetInv, S!TypeOK
<1>2. v \in S!Value \cup {Anyone} /\ (s # "profile" => v # Anyone)
  BY SetNulls
<1>3. /\ new \in S!TabState /\ new.phase = tab[w].phase /\ new.form = v
      /\ new.base = tab[w].base /\ new.sent = tab[w].sent /\ new.on = tab[w].on
      /\ new.touched = TRUE
  BY <1>2, TabFields DEF S!TabState
<1> HIDE DEF new
<1>4. TabHolds(new)
  BY <1>1, <1>2, <1>3, TabFields DEF TabHolds
<1> QED  BY <1>1, <1>4, TabStep

LEMMA SaveHolds ==
  ASSUME SetInv, S!Assumptions, NEW w \in Actor, NEW s \in S!Section,
         S!Save(w, s, SentOf(s, tab[w].form))
  PROVE  SetInv'
<1> DEFINE v == SentOf(s, tab[w].form)
           wire == [value |-> v, touched |-> tab[w].touched, base |-> tab[w].base,
                    point |-> None]
           new == [tab[w] EXCEPT !.phase = "saving", !.touched = FALSE, !.sent = wire]
<1>1. Becomes(w, new) /\ tab[w].on = s /\ tab[w].phase = "open"
  BY DEF S!Save, Becomes
<1>2. v \in S!Value
  BY <1>1, TabFields, SetNulls DEF SentOf, S!AsNumber, TabHolds
<1>3. /\ wire \in S!Request /\ wire.value = v /\ wire.touched = tab[w].touched
      /\ wire.base = tab[w].base
  BY <1>2, TabFields, SetNulls DEF S!Request
<1> HIDE DEF wire
<1>4. /\ new \in S!TabState /\ new.phase = "saving" /\ new.form = tab[w].form
      /\ new.base = tab[w].base /\ new.sent = wire /\ new.on = tab[w].on
      /\ new.touched = FALSE
  BY <1>3, TabFields DEF S!TabState
<1> HIDE DEF new
<1>5. ~tab[w].sent.touched
  BY <1>1, TabFields DEF TabHolds, AtWork
<1>6. ~tab[w].touched =>
        \/ tab[w].form = tab[w].base
        \/ tab[w].base = Unseen /\ tab[w].form = None
        \/ tab[w].on = "profile" /\ tab[w].form = Anyone /\ tab[w].base = None
  BY <1>5, TabFields DEF TabHolds
<1>7. ~tab[w].touched =>
       \/ v = tab[w].base
       \/ tab[w].base = Unseen /\ v = None
       \/ tab[w].on = "profile" /\ v = 0
  BY <1>1, <1>6, TabFields, SetNulls DEF SentOf, S!AsNumber
<1>8. tab[w].on # "profile" => tab[w].form # Anyone
  BY TabFields DEF TabHolds
<1> HIDE DEF v
<1>9. v = SentOf(new.on, new.form)
  BY <1>1, <1>4 DEF v
<1>10. TabHolds(new)
  BY <1>1, <1>3, <1>4, <1>6, <1>7, <1>8, <1>9 DEF TabHolds, AtWork
<1> QED  BY <1>1, <1>10, OnlyTab

\* A save that arrives.
LEMMA PutHolds ==
  ASSUME SetInv, S!Assumptions, NEW w \in Actor, NEW s \in S!Section,
         tab[w].on = s, tab[w].phase \in {"saving", "located"}, S!Put(w, s),
         s = "profile" => tab[w].sent.value # 0,
         point' \in S!Value, point' = None \/ point' = store'["listing"]
  PROVE  SetInv'
<1> DEFINE new == [tab[w] EXCEPT !.phase = "saved"]
<1>1. PICK v, b, c : v = tab[w].sent.value /\ b = tab[w].sent.base /\ c = tab[w].sent.touched
  OBVIOUS
<1>2. /\ v \in S!Value /\ b \in S!Value \cup {Unseen} /\ c \in BOOLEAN
      /\ store \in [S!Section -> S!Value] /\ kept \in [S!Section -> S!Value]
      /\ missed \subseteq S!Section
  BY <1>1, TabFields DEF SetInv, S!TypeOK
<1>3. /\ store' = [store EXCEPT ![s] = v]
      /\ kept' = IF c THEN [kept EXCEPT ![s] = v] ELSE kept
      /\ missed' = IF c THEN missed \ {s}
                   ELSE IF b # store[s] /\ v # store[s] THEN missed \cup {s} ELSE missed
      /\ tab' = [tab EXCEPT ![w] = new] /\ typings' = typings
  BY <1>1 DEF S!Put, S!Stored
<1>4. /\ new \in S!TabState /\ new.phase = "saved" /\ new.form = tab[w].form
      /\ new.base = tab[w].base /\ new.sent = tab[w].sent /\ new.on = tab[w].on
      /\ new.touched = tab[w].touched
  BY TabFields DEF S!TabState
<1> HIDE DEF new
<1>5. TabHolds(new)
  BY <1>4, TabFields DEF TabHolds, AtWork
<1>6. \A x \in Actor : tab'[x] = IF x = w THEN new ELSE tab[x]
  BY <1>3 DEF SetInv, S!TypeOK
<1>7. /\ store' \in [S!Section -> S!Value] /\ kept' \in [S!Section -> S!Value]
      /\ missed' \subseteq S!Section /\ tab' \in [Actor -> S!TabState]
      /\ typings' \in 0..MaxEdits
  BY <1>2, <1>3, <1>4 DEF SetInv, S!TypeOK
<1>8. S!TypeOK'
  BY <1>7 DEF S!TypeOK
<1>9. ~c => v = b \/ (b = Unseen /\ v = None)
  <2>1. ASSUME ~tab[w].sent.touched
        PROVE  \/ tab[w].sent.value = tab[w].sent.base
               \/ tab[w].sent.base = Unseen /\ tab[w].sent.value = None
    BY <2>1, TabFields DEF TabHolds
  <2> QED  BY <1>1, <2>1
<1>10. \A x \in S!Section \ {s} :
         store'[x] = store[x] /\ kept'[x] = kept[x] /\ (x \in missed => x \in missed')
  BY <1>2, <1>3
<1>11. store'[s] = v /\ (c => kept'[s] = v) /\ (~c => kept'[s] = kept[s])
  BY <1>2, <1>3
<1>12. ~c /\ s \notin missed' => v = store[s] /\ s \notin missed
  BY <1>2, <1>3, <1>9, SetNulls
<1>13. \A x \in S!Section : store[x] = kept[x] \/ x \in missed
  BY DEF SetInv, S!EditsStand
<1>14. S!EditsStand'
  <2>1. store'[s] = kept'[s] \/ s \in missed'
    BY <1>2, <1>11, <1>12, <1>13
  <2>2. \A x \in S!Section \ {s} : store'[x] = kept'[x] \/ x \in missed'
    BY <1>10, <1>13
  <2> QED  BY <2>1, <2>2 DEF S!EditsStand
<1> QED  BY <1>5, <1>6, <1>8, <1>14 DEF SetInv, S!PinIsOfThePlace

LEMMA RefuseHolds ==
  ASSUME SetInv, S!Assumptions, NEW w \in Actor,
         tab[w].phase \in {"saving", "located"}, S!Refuse(w)
  PROVE  SetInv'
<1> DEFINE new == [tab[w] EXCEPT !.phase = "refused"]
<1>1. Becomes(w, new)
  BY DEF S!Refuse, Becomes
<1>2. /\ new \in S!TabState /\ new.phase = "refused" /\ new.form = tab[w].form
      /\ new.base = tab[w].base /\ new.sent = tab[w].sent /\ new.on = tab[w].on
      /\ new.touched = tab[w].touched
  BY TabFields DEF S!TabState
<1> HIDE DEF new
<1>3. TabHolds(new)
  BY <1>2, TabFields DEF TabHolds, AtWork
<1> QED  BY <1>1, <1>3, OnlyTab

\* Another section than the listing is saved.
LEMMA PutElsewhere ==
  ASSUME SetInv, S!Assumptions, NEW w \in Actor, NEW s \in S!Section, s # "listing",
         S!Arrived(w, s), S!Put(w, s), UNCHANGED point,
         s = "profile" => tab[w].sent.value # 0
  PROVE  SetInv'
<1>1. store'["listing"] = store["listing"]
  BY DEF S!Put, S!Stored, S!Section, SetInv, S!TypeOK
<1>2. point' \in S!Value /\ (point' = None \/ point' = store'["listing"])
  BY <1>1 DEF SetInv, S!TypeOK, S!PinIsOfThePlace
<1> QED  BY <1>2, PutHolds DEF S!Arrived

LEMMA SavesHold ==
  ASSUME SetInv, S!Assumptions, NEW w \in Actor,
         S!PatchBusiness(w) \/ S!PutHours(w) \/ S!PutHolidays(w) \/ S!PutDepartments(w)
  PROVE  SetInv'
<1>1. CASE S!PatchBusiness(w)
  <2>1. CASE S!PositiveOrNull(tab[w].sent.value)
    <3>1. tab[w].sent.value # 0
      BY <2>1, SetNulls DEF S!PositiveOrNull
    <3> QED  BY <1>1, <2>1, <3>1, PutElsewhere DEF S!PatchBusiness, S!Section
  <2>2. CASE ~S!PositiveOrNull(tab[w].sent.value)
    BY <1>1, <2>2, RefuseHolds DEF S!PatchBusiness, S!Arrived
  <2> QED  BY <2>1, <2>2
<1>2. CASE S!PutHours(w)
  BY <1>2, PutElsewhere DEF S!PutHours, S!Section
<1>3. CASE S!PutHolidays(w)
  BY <1>3, PutElsewhere DEF S!PutHolidays, S!Section
<1>4. CASE S!PutDepartments(w)
  <2>1. CASE S!Dialable(tab[w].sent.value)
    BY <1>4, <2>1, PutElsewhere DEF S!PutDepartments, S!Section
  <2>2. CASE ~S!Dialable(tab[w].sent.value)
    BY <1>4, <2>2, RefuseHolds DEF S!PutDepartments, S!Arrived
  <2> QED  BY <2>1, <2>2
<1> QED  BY <1>1, <1>2, <1>3, <1>4

LEMMA GeocodeHolds ==
  ASSUME SetInv, S!Assumptions, NEW w \in Actor, S!Geocode(w)
  PROVE  SetInv'
<1>1. PICK p \in {tab[w].sent.value, None} :
        tab' = [tab EXCEPT ![w] = [@ EXCEPT !.phase = "located", !.sent.point = p]]
  BY DEF S!Geocode
<1>2. PICK wire : wire = [tab[w].sent EXCEPT !.point = p]
  OBVIOUS
<1>3. /\ tab[w].on = "listing" /\ tab[w].phase = "saving"
      /\ UNCHANGED <<store, point, typings, kept, missed>>
  BY DEF S!Geocode, S!Arrived
<1>4. p \in S!Value
  BY <1>1, TabFields, SetNulls
<1>5. /\ wire \in S!Request /\ wire.value = tab[w].sent.value /\ wire.point = p
      /\ wire.base = tab[w].sent.base /\ wire.touched = tab[w].sent.touched
  BY <1>2, <1>4, TabFields DEF S!Request
<1>6. PICK new : new = [tab[w] EXCEPT !.phase = "located", !.sent = wire]
  OBVIOUS
<1>7. /\ new \in S!TabState /\ new.phase = "located" /\ new.form = tab[w].form
      /\ new.base = tab[w].base /\ new.sent = wire /\ new.on = tab[w].on
      /\ new.touched = tab[w].touched
  BY <1>5, <1>6, TabFields DEF S!TabState
<1>8. tab' = [tab EXCEPT ![w] = new]
  BY <1>1, <1>2, <1>6, TabFields DEF S!TabState
<1>9. TabHolds(new)
  BY <1>1, <1>3, <1>5, <1>7, TabFields DEF TabHolds, AtWork
<1> QED  BY <1>3, <1>8, <1>9, OnlyTab DEF Becomes

LEMMA ListingHolds ==
  ASSUME SetInv, S!Assumptions, NEW w \in Actor, S!PutListing(w)
  PROVE  SetInv'
<1>1. tab[w].on = "listing" /\ tab[w].phase = "located"
  BY DEF S!PutListing
<1>2. CASE S!Put(w, "listing") /\ point' = S!PointOf(tab[w].sent)
  <2>1. point' = tab[w].sent.point /\ store'["listing"] = tab[w].sent.value
    BY <1>2 DEF S!PointOf, S!Put, S!Stored, SetInv, S!TypeOK, S!Section
  <2>2. tab[w].sent.point \in {tab[w].sent.value, None}
    BY <1>1, TabFields DEF TabHolds
  <2>3. point' \in S!Value /\ (point' = None \/ point' = store'["listing"])
    BY <2>1, <2>2, TabFields
  <2> QED  BY <1>1, <1>2, <2>3, PutHolds DEF S!Section
<1>3. CASE S!Refuse(w)
  BY <1>1, <1>3, RefuseHolds
<1> QED  BY <1>2, <1>3 DEF S!PutListing

LEMMA NoneSent ==
  /\ S!Assumptions => S!NoRequest \in S!Request
  /\ S!NoRequest.touched = FALSE
BY SetNulls DEF S!NoRequest, S!Request

LEMMA AgainHolds ==
  ASSUME SetInv, S!Assumptions, NEW w \in Actor, S!Refused(w) \/ S!Failed(w)
  PROVE  SetInv'
<1> DEFINE new == S!Again(tab[w])
<1>1. Becomes(w, new)
  BY DEF S!Refused, S!Failed, Becomes
<1>2. PICK c \in BOOLEAN : c <=> tab[w].touched \/ tab[w].sent.touched
  OBVIOUS
<1>3. /\ new \in S!TabState /\ new.phase = "open" /\ new.form = tab[w].form
      /\ new.base = tab[w].base /\ new.sent = S!NoRequest /\ new.on = tab[w].on
      /\ new.touched <=> tab[w].touched \/ tab[w].sent.touched
  BY TabFields, NoneSent DEF S!TabState, S!Again
<1> HIDE DEF new
<1>4. /\ tab[w].on # "profile" => tab[w].form # Anyone
      /\ ~tab[w].touched /\ ~tab[w].sent.touched =>
           \/ tab[w].form = tab[w].base
           \/ tab[w].base = Unseen /\ tab[w].form = None
           \/ tab[w].on = "profile" /\ tab[w].form = Anyone /\ tab[w].base = None
  BY TabFields DEF TabHolds
<1>5. TabHolds(new)
  BY <1>3, <1>4, NoneSent DEF TabHolds, AtWork
<1> QED  BY <1>1, <1>5, OnlyTab

\* A form that stays as it is, once what it sent is stored.
LEMMA ToastedHolds ==
  ASSUME SetInv, S!Assumptions, NEW w \in Actor, S!ProfileSaved(w) \/ S!HoursSaved(w)
  PROVE  SetInv'
<1> DEFINE new == S!Toasted(w)
<1>1. Becomes(w, new) /\ tab[w].phase = "saved"
  BY DEF S!ProfileSaved, S!HoursSaved, S!Answered, Becomes
<1>2. /\ new \in S!TabState /\ new.phase = "open" /\ new.form = tab[w].form
      /\ new.base = tab[w].sent.value /\ new.sent = S!NoRequest /\ new.on = tab[w].on
      /\ new.touched = tab[w].touched
  BY TabFields, NoneSent DEF S!TabState, S!Toasted
<1> HIDE DEF new
<1>3. tab[w].on # "profile" => tab[w].form # Anyone
  BY TabFields DEF TabHolds
<1>4. ~tab[w].touched =>
        \/ tab[w].form = tab[w].sent.value
        \/ tab[w].on = "profile" /\ tab[w].form = Anyone /\ tab[w].sent.value = None
  <2>1. /\ tab[w].on = "profile" => tab[w].sent.value # 0
        /\ ~tab[w].touched => tab[w].sent.value = SentOf(tab[w].on, tab[w].form)
    BY <1>1, TabFields DEF TabHolds, AtWork
  <2> QED  BY <2>1, TabFields, SetNulls DEF SentOf, S!AsNumber
<1>5. TabHolds(new)
  BY <1>2, <1>3, <1>4, NoneSent DEF TabHolds, AtWork
<1> QED  BY <1>1, <1>5, OnlyTab

\* A form that becomes what was stored.
LEMMA CleanedHolds ==
  ASSUME SetInv, S!Assumptions, NEW w \in Actor, S!HolidaysSaved(w) \/ S!DepartmentsSaved(w)
  PROVE  SetInv'
<1> DEFINE new == S!Cleaned(w)
<1>1. Becomes(w, new)
  BY DEF S!HolidaysSaved, S!DepartmentsSaved, S!Answered, Becomes
<1>2. S!Toasted(w) \in S!TabState /\ S!Toasted(w).phase = "open"
      /\ S!Toasted(w).base = tab[w].sent.value /\ S!Toasted(w).sent = S!NoRequest
  BY TabFields, NoneSent DEF S!TabState, S!Toasted
<1>3. /\ new \in S!TabState /\ new.phase = "open" /\ new.form = tab[w].sent.value
      /\ new.base = tab[w].sent.value /\ new.sent = S!NoRequest /\ new.touched = FALSE
  BY <1>2, TabFields DEF S!TabState, S!Cleaned
<1> HIDE DEF new
<1>4. tab[w].sent.value # Anyone
  BY TabFields, SetNulls
<1>5. TabHolds(new)
  BY <1>3, <1>4, NoneSent DEF TabHolds, AtWork
<1> QED  BY <1>1, <1>5, OnlyTab

LEMMA RelistedHolds ==
  ASSUME SetInv, S!Assumptions, NEW w \in Actor, S!ListingSaved(w)
  PROVE  SetInv'
BY FirstHolds, OnlyTab DEF S!ListingSaved, S!Answered, Becomes, S!Section

LEMMA SetMoves == SetInv /\ S!Assumptions /\ S!Next => SetInv'
<1> SUFFICES ASSUME SetInv, S!Assumptions, S!Next PROVE SetInv'  OBVIOUS
<1>0. PICK w \in Actor :
        \/ \E s \in S!Section : S!Open(w, s)
        \/ S!Leave(w)
        \/ S!LoadProfile(w) \/ S!LoadHours(w) \/ S!LoadHolidays(w) \/ S!LoadDepartments(w)
        \/ S!LoadListing(w)
        \/ S!TypeProfile(w) \/ S!TypeHours(w) \/ S!TypeHolidays(w) \/ S!TypeDepartments(w)
        \/ S!TypeListing(w)
        \/ S!SaveProfile(w) \/ S!SaveHours(w) \/ S!SaveHolidays(w) \/ S!SaveDepartments(w)
        \/ S!SaveListing(w)
        \/ S!PatchBusiness(w) \/ S!PutHours(w) \/ S!PutHolidays(w) \/ S!PutDepartments(w)
        \/ S!Geocode(w) \/ S!PutListing(w)
        \/ S!Refused(w) \/ S!Failed(w)
        \/ S!ProfileSaved(w) \/ S!HoursSaved(w) \/ S!HolidaysSaved(w) \/ S!DepartmentsSaved(w)
        \/ S!ListingSaved(w)
  BY DEF S!Next
<1>1. CASE \E s \in S!Section : S!Open(w, s)
  BY <1>1, OpenHolds
<1>2. CASE S!Leave(w)
  BY <1>2, LeaveHolds
<1>3. CASE S!LoadProfile(w)
  BY <1>3, FillHolds DEF S!LoadProfile, S!Section
<1>4. CASE S!LoadHours(w)
  BY <1>4, LoadHoursHolds
<1>5. CASE S!LoadHolidays(w)
  BY <1>5, FillHolds DEF S!LoadHolidays, S!Section
<1>6. CASE S!LoadDepartments(w)
  BY <1>6, FillHolds DEF S!LoadDepartments, S!Section
<1>7. CASE S!LoadListing(w)
  BY <1>7, FillHolds DEF S!LoadListing, S!Section
<1>8. CASE S!TypeProfile(w)
  BY <1>8, TypeHolds, SetNulls DEF S!TypeProfile, S!Section
<1>9. CASE S!TypeHours(w)
  BY <1>9, TypeHolds, SetNulls DEF S!TypeHours, S!Section
<1>10. CASE S!TypeHolidays(w)
  BY <1>10, TypeHolds, SetNulls DEF S!TypeHolidays, S!Section
<1>11. CASE S!TypeDepartments(w)
  BY <1>11, TypeHolds, SetNulls DEF S!TypeDepartments, S!Section
<1>12. CASE S!TypeListing(w)
  BY <1>12, TypeHolds, SetNulls DEF S!TypeListing, S!Section
<1>13. CASE S!SaveProfile(w)
  BY <1>13, SaveHolds DEF S!SaveProfile, S!Section, SentOf
<1>14. CASE S!SaveHours(w)
  BY <1>14, SaveHolds DEF S!SaveHours, S!Section, SentOf
<1>15. CASE S!SaveHolidays(w)
  BY <1>15, SaveHolds DEF S!SaveHolidays, S!Section, SentOf
<1>16. CASE S!SaveDepartments(w)
  BY <1>16, SaveHolds DEF S!SaveDepartments, S!Section, SentOf
<1>17. CASE S!SaveListing(w)
  BY <1>17, SaveHolds DEF S!SaveListing, S!Section, SentOf
<1>18. CASE S!PatchBusiness(w) \/ S!PutHours(w) \/ S!PutHolidays(w) \/ S!PutDepartments(w)
  BY <1>18, SavesHold
<1>19. CASE S!Geocode(w)
  BY <1>19, GeocodeHolds
<1>20. CASE S!PutListing(w)
  BY <1>20, ListingHolds
<1>21. CASE S!Refused(w) \/ S!Failed(w)
  BY <1>21, AgainHolds
<1>22. CASE S!ProfileSaved(w) \/ S!HoursSaved(w)
  BY <1>22, ToastedHolds
<1>23. CASE S!HolidaysSaved(w) \/ S!DepartmentsSaved(w)
  BY <1>23, CleanedHolds
<1>24. CASE S!ListingSaved(w)
  BY <1>24, RelistedHolds
<1> QED
  BY <1>0, <1>1, <1>2, <1>3, <1>4, <1>5, <1>6, <1>7, <1>8, <1>9, <1>10, <1>11, <1>12,
     <1>13, <1>14, <1>15, <1>16, <1>17, <1>18, <1>19, <1>20, <1>21, <1>22, <1>23, <1>24

LEMMA SetStands == SetInv /\ UNCHANGED setting => SetInv'
BY DEF SetInv, setting, S!TypeOK, S!EditsStand, S!PinIsOfThePlace

-----------------------------------------------------------------------------
(* Services, staff and time off.                                           *)

Somebody == Staff \cup {Anyone}

BookWork ==
  [pc : {"book", "offered", "write"}, desk : BOOLEAN, service : Service, who : Somebody,
   time : Time, keys : SUBSET Somebody]
ServiceWork == [pc : {"drop service", "dropping service"}, service : Service]
StaffWork == [pc : {"drop staff", "dropping staff"}, who : Staff]
AwayWork == [pc : {"time off", "putting off"}, who : Staff, time : Time, force : BOOLEAN]
MoveWork ==
  [pc : {"own move", "move", "moving"}, booking : Booking, time : Time, looked : BOOLEAN,
   keys : SUBSET Somebody]

\* What a request in flight has looked at still is so.
StillSo(w) ==
  /\ w.pc \in {"book", "offered", "write"} =>
       /\ w.service \in services /\ w.who \in staff \cup {Anyone}
       /\ w.desk \/ <<w.who, w.time>> \notin off
  /\ w.pc = "dropping service" => \A b \in C!Upcoming : book[b].service # w.service
  /\ w.pc = "dropping staff" => \A b \in C!Upcoming : book[b].who # w.who
  /\ w.pc = "putting off" => w.force \/ C!Clashes(w.who, w.time) = {}
  /\ w.pc \in {"move", "moving"} /\ w.looked /\ w.booking \in C!Confirmed =>
       <<book[w.booking].who, w.time>> \notin off

\* Nothing a request has looked at is changed by another, unless two crossed.
StockInv ==
  /\ C!TypeOK /\ C!NobodyOrphaned /\ C!NobodyAway
  /\ raced \/ \A h \in Actor : StillSo(work[h])

LEMMA StockWork ==
  /\ C!Work = BookWork \cup ServiceWork \cup StaffWork \cup AwayWork \cup MoveWork
  /\ C!Idle.pc = "idle" /\ StillSo(C!Idle)
<1>1. C!Idle.pc = "idle"
  BY DEF C!Idle
<1>2. C!Work = BookWork \cup ServiceWork \cup StaffWork \cup AwayWork \cup MoveWork
  BY DEF C!Work, BookWork, ServiceWork, StaffWork, AwayWork, MoveWork, Somebody
<1> QED  BY <1>1, <1>2 DEF StillSo

LEMMA StockShapes ==
  ASSUME C!TypeOK, NEW h \in Actor
  PROVE  /\ work[h] \in C!Work \cup {C!Idle}
         /\ work[h].pc \in {"book", "offered", "write"} => work[h] \in BookWork
         /\ work[h].pc \in {"drop service", "dropping service"} => work[h] \in ServiceWork
         /\ work[h].pc \in {"drop staff", "dropping staff"} => work[h] \in StaffWork
         /\ work[h].pc \in {"time off", "putting off"} => work[h] \in AwayWork
         /\ work[h].pc \in {"own move", "move", "moving"} => work[h] \in MoveWork
<1>1. work[h] \in BookWork \cup ServiceWork \cup StaffWork \cup AwayWork \cup MoveWork \cup {C!Idle}
  BY StockWork DEF C!TypeOK
<1>2. /\ \A w \in BookWork : w.pc \in {"book", "offered", "write"}
      /\ \A w \in ServiceWork : w.pc \in {"drop service", "dropping service"}
      /\ \A w \in StaffWork : w.pc \in {"drop staff", "dropping staff"}
      /\ \A w \in AwayWork : w.pc \in {"time off", "putting off"}
      /\ \A w \in MoveWork : w.pc \in {"own move", "move", "moving"}
  BY DEF BookWork, ServiceWork, StaffWork, AwayWork, MoveWork
<1>3. work[h] \in C!Work \cup {C!Idle}
  BY DEF C!TypeOK
<1> QED  BY <1>1, <1>2, <1>3, StockWork

LEMMA StockRows ==
  ASSUME C!TypeOK, C!Assumptions, NEW b \in C!Made
  PROVE  /\ b \in Booking /\ book[b] \in C!Row
         /\ book[b].service \in Service /\ book[b].who \in Somebody /\ book[b].time \in Time
         /\ book[b].keys \in SUBSET Somebody /\ book[b].confirmed \in BOOLEAN
         /\ book[b].noShow \in BOOLEAN /\ book[b].unasked \in BOOLEAN
         /\ book[b].revived \in BOOLEAN
<1>1. b \in Booking /\ book[b] # None /\ book[b] \in C!Row \cup {None}
  BY DEF C!Made, C!TypeOK
<1> QED  BY <1>1 DEF C!Row, Somebody

LEMMA StockStarts == C!Assumptions /\ C!Init => StockInv
<1> SUFFICES ASSUME C!Assumptions, C!Init PROVE StockInv  OBVIOUS
<1>1. C!TypeOK
  BY DEF C!Init, C!TypeOK
<1>2. C!Made = {}
  BY DEF C!Init, C!Made
<1>3. \A h \in Actor : StillSo(work[h])
  BY StockWork DEF C!Init
<1> QED  BY <1>1, <1>2, <1>3 DEF StockInv, C!NobodyOrphaned, C!NobodyAway, C!Upcoming, C!Confirmed

\* A step of one request that changes nothing else.
Turns(h, w) ==
  /\ work' = [work EXCEPT ![h] = w]
  /\ UNCHANGED <<clock, services, staff, off, book, raced>>

LEMMA TurnHolds ==
  ASSUME StockInv, NEW h \in Actor, NEW w \in C!Work \cup {C!Idle}, Turns(h, w),
         raced \/ StillSo(w)
  PROVE  StockInv'
<1>1. \A g \in Actor : work'[g] = IF g = h THEN w ELSE work[g]
  BY DEF Turns, StockInv, C!TypeOK
<1>2. C!TypeOK'
  BY DEF Turns, StockInv, C!TypeOK
<1>3. C!Made' = C!Made
  BY DEF Turns, C!Made
<1>4. C!Confirmed' = C!Confirmed
  BY <1>3 DEF Turns, C!Confirmed
<1>5. C!Upcoming' = C!Upcoming
  BY <1>4 DEF Turns, C!Upcoming
<1>6. C!NobodyOrphaned' /\ C!NobodyAway'
  BY <1>4, <1>5 DEF Turns, StockInv, C!NobodyOrphaned, C!NobodyAway
<1>7. ASSUME NEW g \in Actor, ~raced PROVE StillSo(work[g])'
  <2>1. PICK v : v = work'[g] /\ StillSo(v)
    BY <1>1, <1>7 DEF StockInv
  <2>2. UNCHANGED <<services, staff, off, book>>
    BY DEF Turns
  <2> QED  BY <2>1, <2>2, <1>4, <1>5 DEF StillSo, C!Clashes
<1> QED  BY <1>2, <1>6, <1>7 DEF StockInv, Turns

LEMMA RefusedStock ==
  ASSUME StockInv, NEW h \in Actor, C!Refuse(h), UNCHANGED <<clock, services, staff, off, book>>
  PROVE  StockInv'
BY TurnHolds, StockWork DEF C!Refuse, Turns

\* A write: nobody else is in flight, unless two cross.
LEMMA WriteAlone ==
  ASSUME StockInv, NEW h \in Actor, C!Writes(h),
         C!TypeOK', ~raced' => C!NobodyOrphaned' /\ C!NobodyAway'
  PROVE  StockInv'
<1>1. C!NobodyOrphaned' /\ C!NobodyAway'
  BY DEF C!NobodyOrphaned, C!NobodyAway
<1>2. ASSUME ~raced', NEW g \in Actor PROVE work'[g] = C!Idle
  <2>1. C!Others(h) = {} /\ work' = [work EXCEPT ![h] = C!Idle]
    BY <1>2 DEF C!Writes
  <2> QED  BY <2>1 DEF C!Others, StockInv, C!TypeOK
<1>3. ASSUME NEW g \in Actor, ~raced' PROVE StillSo(work[g])'
  <2>1. PICK v : v = work'[g] /\ v.pc = "idle"
    BY <1>2, <1>3, StockWork
  <2> QED  BY <2>1 DEF StillSo
<1> QED  BY <1>1, <1>2, <1>3 DEF StockInv

LEMMA WriteTypes ==
  ASSUME C!TypeOK, NEW h \in Actor, C!Writes(h)
  PROVE  work' \in [Actor -> C!Work \cup {C!Idle}] /\ raced' \in BOOLEAN /\ (raced => raced')
BY DEF C!Writes, C!TypeOK

\* A step of nobody in flight, after which less is booked and more is there.
LEMMA QuietHolds ==
  ASSUME StockInv, C!TypeOK', UNCHANGED <<work, raced>>,
         services \subseteq services', staff \subseteq staff', off' \subseteq off,
         C!Confirmed' \subseteq C!Confirmed, C!Upcoming' \subseteq C!Upcoming,
         \A b \in C!Confirmed' :
           /\ book'[b].service = book[b].service /\ book'[b].who = book[b].who
           /\ book'[b].time = book[b].time /\ book'[b].unasked = book[b].unasked
           /\ book'[b].revived = book[b].revived
  PROVE  StockInv'
<1>1. C!Upcoming' \subseteq C!Confirmed'
  BY DEF C!Upcoming
<1>2. C!NobodyOrphaned'
  BY <1>1 DEF StockInv, C!NobodyOrphaned
<1>3. C!NobodyAway'
  BY DEF StockInv, C!NobodyAway
<1>4. ASSUME NEW h \in Actor, StillSo(work[h]) PROVE StillSo(work[h])'
  <2>1. PICK v : v = work[h] /\ v = work'[h] /\ StillSo(v)
    BY <1>4
  <2>2. v.pc \in {"book", "offered", "write"} =>
          /\ v.service \in services' /\ v.who \in staff' \cup {Anyone}
          /\ v.desk \/ <<v.who, v.time>> \notin off'
    BY <2>1 DEF StillSo
  <2>3. v.pc = "dropping service" => \A b \in C!Upcoming' : book'[b].service # v.service
    BY <1>1, <2>1 DEF StillSo
  <2>4. v.pc = "dropping staff" => \A b \in C!Upcoming' : book'[b].who # v.who
    BY <1>1, <2>1 DEF StillSo
  <2>5. v.pc = "putting off" => v.force \/ C!Clashes(v.who, v.time)' = {}
    BY <2>1 DEF StillSo, C!Clashes
  <2>6. v.pc \in {"move", "moving"} /\ v.looked /\ v.booking \in C!Confirmed' =>
          <<book'[v.booking].who, v.time>> \notin off'
    BY <2>1 DEF StillSo
  <2> QED  BY <2>1, <2>2, <2>3, <2>4, <2>5, <2>6 DEF StillSo
<1> QED  BY <1>2, <1>3, <1>4 DEF StockInv

LEMMA ChooseHolds ==
  ASSUME StockInv, NEW h \in Actor, NEW desk \in BOOLEAN, NEW s \in Service,
         NEW p \in Somebody, NEW t \in Time, C!Choose(h, desk, s, p, t)
  PROVE  StockInv'
<1>1. PICK pc \in {"book", "offered"} :
        work' = [work EXCEPT ![h] = [pc |-> pc, desk |-> desk, service |-> s, who |-> p,
                                     time |-> t, keys |-> {}]]
  <2>1. PICK pc : pc = IF desk THEN "book" ELSE "offered"
    OBVIOUS
  <2> QED  BY <2>1 DEF C!Choose
<1>2. PICK w : w = [pc |-> pc, desk |-> desk, service |-> s, who |-> p, time |-> t, keys |-> {}]
  OBVIOUS
<1>3. w \in C!Work
  BY <1>2, StockWork DEF BookWork
<1>4. /\ w.pc \in {"book", "offered"} /\ w.desk = desk /\ w.service = s /\ w.who = p
      /\ w.time = t
  BY <1>2
<1>5. s \in services /\ p \in staff \cup {Anyone} /\ (desk \/ <<p, t>> \notin off)
  BY DEF C!Choose, C!BusyAt
<1>6. StillSo(w)
  BY <1>4, <1>5 DEF StillSo
<1>7. Turns(h, w)
  BY <1>1, <1>2 DEF Turns, C!Choose, C!shop
<1> QED  BY <1>3, <1>6, <1>7, TurnHolds

\* A step on the way of one that books.
LEMMA BookTurn ==
  ASSUME StockInv, NEW h \in Actor, NEW w \in BookWork, work[h] \in BookWork,
         work[h].pc \in {"book", "offered", "write"},
         w.service = work[h].service, w.who = work[h].who, w.time = work[h].time,
         w.desk = work[h].desk, Turns(h, w)
  PROVE  StockInv'
<1>1. w.pc \in {"book", "offered", "write"}
  BY DEF BookWork
<1>2. raced \/ StillSo(w)
  BY <1>1 DEF StockInv, StillSo
<1> QED  BY <1>2, StockWork, TurnHolds

LEMMA LookHolds ==
  ASSUME StockInv, NEW h \in Actor, C!LookAtOffer(h)
  PROVE  StockInv'
<1>1. work[h] \in BookWork /\ work[h].pc = "offered"
  BY StockShapes DEF C!LookAtOffer, StockInv
<1>2. CASE work' = [work EXCEPT ![h].pc = "book"] /\ UNCHANGED raced
  <2>1. PICK w : w = [work[h] EXCEPT !.pc = "book"]
    OBVIOUS
  <2>2. /\ w \in BookWork /\ w.service = work[h].service /\ w.who = work[h].who
        /\ w.time = work[h].time /\ w.desk = work[h].desk
    BY <1>1, <2>1 DEF BookWork
  <2>3. Turns(h, w)
    BY <1>2, <2>1 DEF Turns, C!LookAtOffer, C!shop
  <2> QED  BY <1>1, <2>2, <2>3, BookTurn
<1>3. CASE C!Refuse(h)
  BY <1>3, RefusedStock DEF C!LookAtOffer, C!shop
<1> QED  BY <1>2, <1>3 DEF C!LookAtOffer

LEMMA KeysAre ==
  ASSUME C!TypeOK, NEW p \in Somebody
  PROVE  C!Keys(p) \in SUBSET Somebody
BY DEF C!Keys, C!TypeOK, Somebody

LEMMA ReadHolds ==
  ASSUME StockInv, NEW h \in Actor, C!ReadForBooking(h)
  PROVE  StockInv'
<1>1. work[h] \in BookWork /\ work[h].pc = "book"
  BY StockShapes DEF C!ReadForBooking, StockInv
<1>2. PICK keys \in SUBSET Somebody : keys = C!Keys(work[h].who)
  BY <1>1, KeysAre DEF StockInv, BookWork
<1>3. CASE work' = [work EXCEPT ![h].pc = "write", ![h].keys = keys] /\ UNCHANGED raced
  <2>1. PICK w : w = [work[h] EXCEPT !.pc = "write", !.keys = keys]
    OBVIOUS
  <2>2. /\ w \in BookWork /\ w.service = work[h].service /\ w.who = work[h].who
        /\ w.time = work[h].time /\ w.desk = work[h].desk
    BY <1>1, <1>2, <2>1 DEF BookWork
  <2>3. work' = [work EXCEPT ![h] = w]
    BY <1>1, <1>3, <2>1 DEF BookWork, StockInv, C!TypeOK
  <2>4. Turns(h, w)
    BY <1>3, <2>3 DEF Turns, C!ReadForBooking, C!shop
  <2> QED  BY <1>1, <2>2, <2>4, BookTurn
<1>4. CASE C!Refuse(h)
  BY <1>4, RefusedStock DEF C!ReadForBooking, C!shop
<1> QED  BY <1>2, <1>3, <1>4 DEF C!ReadForBooking

LEMMA StartHolds ==
  ASSUME StockInv, NEW h \in Actor, NEW w \in C!Work, C!Start(h, w),
         w.pc \in {"drop service", "drop staff", "time off"}
  PROVE  StockInv'
<1>1. StillSo(w)
  BY DEF StillSo
<1> QED  BY <1>1, TurnHolds DEF C!Start, Turns, C!shop

LEMMA AskHolds ==
  ASSUME StockInv, NEW h \in Actor,
         \/ \E s \in Service : C!DropService(h, s)
         \/ \E p \in Staff : C!DropStaff(h, p)
         \/ \E p \in Staff, t \in Time : C!AskTimeOff(h, p, t)
  PROVE  StockInv'
<1>1. ASSUME NEW s \in Service, C!DropService(h, s) PROVE StockInv'
  <2>1. PICK w : w = [pc |-> "drop service", service |-> s]
    OBVIOUS
  <2>2. w \in C!Work /\ w.pc = "drop service"
    BY <2>1, StockWork DEF ServiceWork
  <2> QED  BY <1>1, <2>1, <2>2, StartHolds DEF C!DropService
<1>2. ASSUME NEW p \in Staff, C!DropStaff(h, p) PROVE StockInv'
  <2>1. PICK w : w = [pc |-> "drop staff", who |-> p]
    OBVIOUS
  <2>2. w \in C!Work /\ w.pc = "drop staff"
    BY <2>1, StockWork DEF StaffWork
  <2> QED  BY <1>2, <2>1, <2>2, StartHolds DEF C!DropStaff
<1>3. ASSUME NEW p \in Staff, NEW t \in Time, C!AskTimeOff(h, p, t) PROVE StockInv'
  <2>1. PICK w : w = [pc |-> "time off", who |-> p, time |-> t, force |-> FALSE]
    OBVIOUS
  <2>2. w \in C!Work /\ w.pc = "time off"
    BY <2>1, StockWork DEF AwayWork
  <2> QED  BY <1>3, <2>1, <2>2, StartHolds DEF C!AskTimeOff
<1> QED  BY <1>1, <1>2, <1>3

LEMMA ChooseMoveHolds ==
  ASSUME StockInv, NEW h \in Actor, NEW b \in Booking, NEW t \in Time,
         C!ChooseMove(h, b, t) \/ C!MoveByLink(h, b, t) \/ C!MoveInPortal(h, b, t)
  PROVE  StockInv'
<1>1. PICK pc \in {"own move", "move"} : work' = [work EXCEPT ![h] = C!Move(pc, b, t)]
  BY DEF C!ChooseMove, C!MoveByLink, C!MoveInPortal
<1>2. PICK f : f = FALSE
  OBVIOUS
<1>3. PICK w : w = [pc |-> pc, booking |-> b, time |-> t, looked |-> f, keys |-> {}]
  OBVIOUS
<1>4. w \in C!Work /\ w.pc = pc /\ ~w.looked
  BY <1>2, <1>3, StockWork DEF MoveWork
<1>5. StillSo(w)
  BY <1>4 DEF StillSo
<1>6. Turns(h, w)
  BY <1>1, <1>2, <1>3 DEF C!Move, C!ChooseMove, C!MoveByLink, C!MoveInPortal, Turns, C!shop
<1> QED  BY <1>4, <1>5, <1>6, TurnHolds

LEMMA LookAtMoveHolds ==
  ASSUME StockInv, C!Assumptions, NEW h \in Actor, C!LookAtMove(h)
  PROVE  StockInv'
<1>1. work[h] \in MoveWork /\ work[h].pc = "own move"
  BY StockShapes DEF C!LookAtMove, StockInv
<1>2. CASE C!Refuse(h)
  BY <1>2, RefusedStock DEF C!LookAtMove, C!shop
<1>3. CASE ~C!Refuse(h)
  <2>1. PICK f : f = TRUE
    OBVIOUS
  <2>2. /\ work' = [work EXCEPT ![h].pc = "move", ![h].looked = f] /\ UNCHANGED raced
        /\ <<book[work[h].booking].who, work[h].time>> \notin off
    BY <1>3, <2>1 DEF C!LookAtMove, C!StillOffered
  <2>3. PICK w : w = [work[h] EXCEPT !.pc = "move", !.looked = f]
    OBVIOUS
  <2>4. /\ w \in MoveWork /\ w.pc = "move" /\ w.booking = work[h].booking
        /\ w.time = work[h].time
    BY <1>1, <2>1, <2>3 DEF MoveWork
  <2>5. work' = [work EXCEPT ![h] = w]
    BY <1>1, <2>2, <2>3 DEF MoveWork, StockInv, C!TypeOK
  <2>6. Turns(h, w)
    BY <2>2, <2>5 DEF Turns, C!LookAtMove, C!shop
  <2>7. StillSo(w)
    BY <2>2, <2>4 DEF StillSo
  <2> QED  BY <2>4, <2>6, <2>7, TurnHolds, StockWork
<1> QED  BY <1>2, <1>3

LEMMA ReadMoveHolds ==
  ASSUME StockInv, C!Assumptions, NEW h \in Actor, C!ReadForMove(h)
  PROVE  StockInv'
<1>1. work[h] \in MoveWork /\ work[h].pc = "move"
  BY StockShapes DEF C!ReadForMove, StockInv
<1>2. CASE C!Refuse(h)
  BY <1>2, RefusedStock DEF C!ReadForMove, C!shop
<1>3. CASE ~C!Refuse(h)
  <2>1. PICK keys : keys = C!Keys(book[work[h].booking].who)
    OBVIOUS
  <2>2. /\ work' = [work EXCEPT ![h].pc = "moving", ![h].keys = keys] /\ UNCHANGED raced
        /\ work[h].booking \in C!Confirmed
    BY <1>3, <2>1 DEF C!ReadForMove
  <2>3. keys \in SUBSET Somebody
    BY <2>1, <2>2, KeysAre, StockRows DEF C!Confirmed, StockInv
  <2>4. PICK w : w = [work[h] EXCEPT !.pc = "moving", !.keys = keys]
    OBVIOUS
  <2>5. /\ w \in MoveWork /\ w.pc = "moving" /\ w.booking = work[h].booking
        /\ w.time = work[h].time /\ (w.looked <=> work[h].looked)
    BY <1>1, <2>3, <2>4 DEF MoveWork
  <2>6. work' = [work EXCEPT ![h] = w]
    BY <1>1, <2>2, <2>4 DEF MoveWork, StockInv, C!TypeOK
  <2>7. Turns(h, w)
    BY <2>2, <2>6 DEF Turns, C!ReadForMove, C!shop
  <2>8. raced \/ StillSo(w)
    BY <1>1, <2>5 DEF StockInv, StillSo
  <2> QED  BY <2>5, <2>7, <2>8, TurnHolds, StockWork
<1> QED  BY <1>2, <1>3

LEMMA CheckServiceHolds ==
  ASSUME StockInv, NEW h \in Actor, C!CheckService(h)
  PROVE  StockInv'
<1>1. work[h] \in ServiceWork /\ work[h].pc = "drop service"
  BY StockShapes DEF C!CheckService, StockInv
<1>2. CASE C!Refuse(h)
  BY <1>2, RefusedStock DEF C!CheckService, C!shop
<1>3. CASE ~C!Refuse(h)
  <2>1. PICK w : w = [work[h] EXCEPT !.pc = "dropping service"]
    OBVIOUS
  <2>2. w \in ServiceWork /\ w.pc = "dropping service" /\ w.service = work[h].service
    BY <1>1, <2>1 DEF ServiceWork
  <2>3. Turns(h, w)
    BY <1>3, <2>1 DEF C!CheckService, Turns, C!shop
  <2>4. \A b \in C!Upcoming : book[b].service # work[h].service
    BY <1>3 DEF C!CheckService, C!SomebodyComes, C!Upcoming, C!Confirmed
  <2>5. StillSo(w)
    BY <2>2, <2>4 DEF StillSo
  <2> QED  BY <2>2, <2>3, <2>5, StockWork, TurnHolds
<1> QED  BY <1>2, <1>3

LEMMA CheckStaffHolds ==
  ASSUME StockInv, NEW h \in Actor, C!CheckStaff(h)
  PROVE  StockInv'
<1>1. work[h] \in StaffWork /\ work[h].pc = "drop staff"
  BY StockShapes DEF C!CheckStaff, StockInv
<1>2. CASE C!Refuse(h)
  BY <1>2, RefusedStock DEF C!CheckStaff, C!shop
<1>3. CASE ~C!Refuse(h)
  <2>1. PICK w : w = [work[h] EXCEPT !.pc = "dropping staff"]
    OBVIOUS
  <2>2. w \in StaffWork /\ w.pc = "dropping staff" /\ w.who = work[h].who
    BY <1>1, <2>1 DEF StaffWork
  <2>3. Turns(h, w)
    BY <1>3, <2>1 DEF C!CheckStaff, Turns, C!shop
  <2>4. \A b \in C!Upcoming : book[b].who # work[h].who
    BY <1>3 DEF C!CheckStaff, C!SomebodyComes, C!Upcoming, C!Confirmed
  <2>5. StillSo(w)
    BY <2>2, <2>4 DEF StillSo
  <2> QED  BY <2>2, <2>3, <2>5, StockWork, TurnHolds
<1> QED  BY <1>2, <1>3

LEMMA CheckTimeOffHolds ==
  ASSUME StockInv, NEW h \in Actor, C!CheckTimeOff(h)
  PROVE  StockInv'
<1>1. work[h] \in AwayWork /\ work[h].pc = "time off" /\ work[h].force \in BOOLEAN
  BY StockShapes DEF C!CheckTimeOff, StockInv, AwayWork
<1>2. CASE C!Refuse(h)
  BY <1>2, RefusedStock DEF C!CheckTimeOff, C!shop
<1>3. CASE /\ C!Clashes(work[h].who, work[h].time) = {} \/ work[h].force
           /\ work' = [work EXCEPT ![h].pc = "putting off"] /\ UNCHANGED raced
  <2>1. PICK w : w = [work[h] EXCEPT !.pc = "putting off"]
    OBVIOUS
  <2>2. /\ w \in AwayWork /\ w.pc = "putting off" /\ w.who = work[h].who
        /\ w.time = work[h].time /\ (w.force <=> work[h].force)
    BY <1>1, <2>1 DEF AwayWork
  <2>3. Turns(h, w)
    BY <1>3, <2>1 DEF C!CheckTimeOff, Turns, C!shop
  <2>4. StillSo(w)
    BY <1>3, <2>2 DEF StillSo
  <2> QED  BY <2>2, <2>3, <2>4, StockWork, TurnHolds
<1>4. CASE work' = [work EXCEPT ![h].force = TRUE] /\ UNCHANGED raced
  <2>1. PICK w : w = [work[h] EXCEPT !.force = TRUE]
    OBVIOUS
  <2>2. w \in AwayWork /\ w.pc = "time off"
    BY <1>1, <2>1 DEF AwayWork
  <2>3. Turns(h, w)
    BY <1>4, <2>1 DEF C!CheckTimeOff, Turns, C!shop
  <2>4. StillSo(w)
    BY <2>2 DEF StillSo
  <2> QED  BY <2>2, <2>3, <2>4, StockWork, TurnHolds
<1> QED  BY <1>2, <1>3, <1>4 DEF C!CheckTimeOff

LEMMA WriteBookingHolds ==
  ASSUME StockInv, C!Assumptions, NEW h \in Actor, NEW b \in Booking, C!WriteBooking(h, b)
  PROVE  StockInv'
<1>1. /\ work[h] \in BookWork /\ work[h].pc = "write" /\ book[b] = None
      /\ UNCHANGED <<clock, services, staff, off>>
  BY StockShapes DEF C!WriteBooking, StockInv, C!shop
<1>2. CASE C!Refuse(h) /\ UNCHANGED book
  BY <1>1, <1>2, RefusedStock
<1>3. CASE ~(C!Refuse(h) /\ UNCHANGED book)
  <2>1. PICK row : row = [service |-> work[h].service, who |-> work[h].who,
                          time |-> work[h].time, keys |-> work[h].keys, confirmed |-> TRUE,
                          noShow |-> FALSE, unasked |-> work[h].desk, revived |-> FALSE]
    OBVIOUS
  <2>2. book' = [book EXCEPT ![b] = row] /\ C!Writes(h)
    BY <1>3, <2>1 DEF C!WriteBooking
  <2>3. /\ row \in C!Row /\ row.service = work[h].service /\ row.who = work[h].who
        /\ row.time = work[h].time /\ (row.unasked <=> work[h].desk)
    BY <1>1, <2>1 DEF BookWork, C!Row, Somebody
  <2>4. \A x \in Booking : book'[x] = IF x = b THEN row ELSE book[x]
    BY <2>2 DEF StockInv, C!TypeOK
  <2>5. C!TypeOK'
    BY <1>1, <2>2, <2>3, WriteTypes DEF StockInv, C!TypeOK
  <2>6. C!Confirmed' \subseteq C!Confirmed \cup {b} /\ C!Upcoming' \subseteq C!Upcoming \cup {b}
    BY <1>1, <2>4 DEF C!Confirmed, C!Upcoming, C!Made
  <2>7. b \notin C!Confirmed /\ C!Upcoming \subseteq C!Confirmed /\ C!Confirmed \subseteq Booking
    BY <1>1 DEF C!Confirmed, C!Made, C!Upcoming
  <2>8. ASSUME ~raced' PROVE C!NobodyOrphaned' /\ C!NobodyAway'
    <3>1. ~raced /\ StillSo(work[h])
      BY <2>2, <2>8, WriteTypes DEF StockInv
    <3>2. /\ row.service \in services /\ row.who \in staff \cup {Anyone}
          /\ row.unasked \/ <<row.who, row.time>> \notin off
      BY <1>1, <2>3, <3>1 DEF StillSo
    <3>3. C!NobodyOrphaned'
      BY <1>1, <2>4, <2>6, <2>7, <3>1, <3>2 DEF StockInv, C!NobodyOrphaned
    <3>4. C!NobodyAway'
      BY <1>1, <2>4, <2>6, <2>7, <3>1, <3>2 DEF StockInv, C!NobodyAway
    <3> QED  BY <3>3, <3>4
  <2> QED  BY <2>2, <2>5, <2>8, WriteAlone
<1> QED  BY <1>2, <1>3

LEMMA WriteMoveHolds ==
  ASSUME StockInv, C!Assumptions, NEW h \in Actor, C!WriteMove(h)
  PROVE  StockInv'
<1>1. /\ work[h] \in MoveWork /\ work[h].pc = "moving"
      /\ UNCHANGED <<clock, services, staff, off>>
  BY StockShapes DEF C!WriteMove, StockInv, C!shop
<1>2. CASE C!Refuse(h) /\ UNCHANGED book
  BY <1>1, <1>2, RefusedStock
<1>3. CASE ~(C!Refuse(h) /\ UNCHANGED book)
  <2>0. PICK t, keys : t = work[h].time /\ keys = work[h].keys
    OBVIOUS
  <2>1. PICK b \in C!Confirmed : b = work[h].booking /\ t = work[h].time /\ keys = work[h].keys
    BY <1>3, <2>0 DEF C!WriteMove
  <2>2. b \in Booking /\ b \in C!Made /\ book[b] \in C!Row
    BY <2>1, StockRows DEF C!Confirmed, StockInv
  <2>3. PICK flag \in BOOLEAN : flag <=> book[b].revived \/ book[b].time <= clock
    OBVIOUS
  <2>13. PICK unasked \in BOOLEAN : unasked <=> ~work[h].looked
    OBVIOUS
  <2>4. PICK row : row = [book[b] EXCEPT !.time = t, !.keys = keys, !.unasked = unasked,
                                         !.revived = book[b].revived \/ book[b].time <= clock]
    OBVIOUS
  <2>5. t \in Time /\ keys \in SUBSET Somebody
    BY <1>1, <2>1 DEF MoveWork
  <2>6. /\ row \in C!Row /\ row.service = book[b].service /\ row.who = book[b].who
        /\ row.time = t /\ (row.unasked <=> ~work[h].looked)
        /\ row.revived <=> (book[b].revived \/ book[b].time <= clock)
    BY <2>2, <2>4, <2>5, <2>13 DEF C!Row, Somebody
  <2>7. book' = [book EXCEPT ![b] = row] /\ C!Writes(h)
    <3>1. /\ book' = [book EXCEPT ![b].time = t, ![b].keys = keys, ![b].unasked = unasked,
                                  ![b].revived = @ \/ book[b].time <= clock]
          /\ C!Writes(h)
      BY <1>1, <1>3, <2>1, <2>13 DEF C!WriteMove, MoveWork
    <3> QED  BY <2>2, <2>4, <3>1 DEF StockInv, C!TypeOK, C!Row
  <2>8. \A x \in Booking : book'[x] = IF x = b THEN row ELSE book[x]
    BY <2>7 DEF StockInv, C!TypeOK
  <2>9. C!TypeOK'
    BY <1>1, <2>6, <2>7, WriteTypes DEF StockInv, C!TypeOK
  <2>10. C!Confirmed' \subseteq C!Confirmed /\ C!Upcoming' \subseteq C!Upcoming \cup {b}
    BY <1>1, <2>1, <2>2, <2>8 DEF C!Confirmed, C!Upcoming, C!Made
  <2>11. C!Upcoming \subseteq C!Confirmed /\ C!Confirmed \subseteq Booking
    BY DEF C!Confirmed, C!Made, C!Upcoming
  <2>12. ASSUME ~raced' PROVE C!NobodyOrphaned' /\ C!NobodyAway'
    <3>1. ~raced
      BY <2>7, <2>12, WriteTypes DEF StockInv
    <3>5. row.unasked \/ <<row.who, row.time>> \notin off
      BY <1>1, <2>1, <2>6, <3>1 DEF StockInv, StillSo
    <3>2. C!NobodyAway'
      BY <1>1, <2>6, <2>8, <2>10, <2>11, <3>1, <3>5 DEF StockInv, C!NobodyAway
    <3>3. ~row.revived => b \in C!Upcoming
      <4>1. book[b].time \in Int /\ clock \in Int
        BY <2>2, StockRows DEF StockInv, C!TypeOK, C!Assumptions
      <4> QED  BY <2>1, <2>6, <4>1 DEF C!Upcoming
    <3>4. C!NobodyOrphaned'
      BY <1>1, <2>6, <2>8, <2>10, <2>11, <3>1, <3>3 DEF StockInv, C!NobodyOrphaned
    <3> QED  BY <3>2, <3>4
  <2> QED  BY <2>7, <2>9, <2>12, WriteAlone
<1> QED  BY <1>2, <1>3

LEMMA DeletesHold ==
  ASSUME StockInv, NEW h \in Actor, C!DeleteService(h) \/ C!DeleteStaff(h)
  PROVE  StockInv'
<1>1. /\ C!Writes(h) /\ UNCHANGED <<clock, off, book>>
      /\ services' \subseteq services /\ staff' \subseteq staff
  BY DEF C!DeleteService, C!DeleteStaff
<1>2. C!TypeOK'
  BY <1>1, WriteTypes DEF StockInv, C!TypeOK
<1>3. C!Confirmed' = C!Confirmed /\ C!Upcoming' = C!Upcoming
  BY <1>1 DEF C!Confirmed, C!Upcoming, C!Made
<1>4. C!NobodyAway' \/ raced'
  BY <1>1, <1>3, WriteTypes DEF StockInv, C!NobodyAway
<1>5. ASSUME ~raced' PROVE C!NobodyOrphaned'
  <2>1. ~raced /\ StillSo(work[h])
    BY <1>1, <1>5, WriteTypes DEF StockInv
  <2>2. /\ C!DeleteService(h) => work[h].pc = "dropping service"
        /\ C!DeleteStaff(h) => work[h].pc = "dropping staff"
    BY DEF C!DeleteService, C!DeleteStaff
  <2>3. CASE C!DeleteService(h)
    <3>1. services' = services \ {work[h].service} /\ staff' = staff
      BY <2>3 DEF C!DeleteService
    <3>2. \A b \in C!Upcoming : book[b].service # work[h].service
      BY <2>1, <2>2, <2>3 DEF StillSo
    <3> QED  BY <1>1, <1>3, <2>1, <3>1, <3>2 DEF StockInv, C!NobodyOrphaned
  <2>4. CASE C!DeleteStaff(h)
    <3>1. staff' = staff \ {work[h].who} /\ services' = services
      BY <2>4 DEF C!DeleteStaff
    <3>2. \A b \in C!Upcoming : book[b].who # work[h].who
      BY <2>1, <2>2, <2>4 DEF StillSo
    <3> QED  BY <1>1, <1>3, <2>1, <3>1, <3>2 DEF StockInv, C!NobodyOrphaned
  <2> QED  BY <2>3, <2>4
<1> QED  BY <1>1, <1>2, <1>4, <1>5, WriteAlone

LEMMA PutTimeOffHolds ==
  ASSUME StockInv, C!Assumptions, NEW h \in Actor, C!PutTimeOff(h)
  PROVE  StockInv'
<1>1. PICK p, t : p = work[h].who /\ t = work[h].time
  OBVIOUS
<1>2. /\ work[h] \in AwayWork /\ work[h].pc = "putting off"
      /\ C!Writes(h) /\ UNCHANGED <<clock, services, staff>> /\ off' = off \cup {<<p, t>>}
  BY <1>1, StockShapes DEF C!PutTimeOff, StockInv
<1>3. book' = [b \in Booking |->
                 IF b \in C!Made /\ work[h].force /\ b \in C!Clashes(p, t)
                 THEN [book[b] EXCEPT !.unasked = TRUE] ELSE book[b]]
  BY <1>1 DEF C!PutTimeOff
<1>4. p \in Staff /\ t \in Time
  BY <1>1, <1>2 DEF AwayWork
<1>5. ASSUME NEW b \in C!Made
      PROVE  /\ [book[b] EXCEPT !.unasked = TRUE] \in C!Row
             /\ [book[b] EXCEPT !.unasked = TRUE].service = book[b].service
             /\ [book[b] EXCEPT !.unasked = TRUE].who = book[b].who
             /\ [book[b] EXCEPT !.unasked = TRUE].time = book[b].time
             /\ [book[b] EXCEPT !.unasked = TRUE].revived = book[b].revived
             /\ [book[b] EXCEPT !.unasked = TRUE].confirmed = book[b].confirmed
             /\ [book[b] EXCEPT !.unasked = TRUE].unasked = TRUE
  <2>1. book[b] \in C!Row
    BY StockRows DEF StockInv
  <2> QED  BY <2>1 DEF C!Row
<1>6. \A b \in Booking : book[b] \in C!Row \cup {None}
  BY DEF StockInv, C!TypeOK
<1>7. book' \in [Booking -> C!Row \cup {None}]
  BY <1>3, <1>5, <1>6
<1>8. C!TypeOK'
  <2>1. off' \subseteq Staff \X Time
    <3>1. off \subseteq Staff \X Time
      BY DEF StockInv, C!TypeOK
    <3>2. <<p, t>> \in Staff \X Time
      BY <1>4
    <3> QED  BY <1>2, <3>1, <3>2
  <2>2. work' \in [Actor -> C!Work \cup {C!Idle}] /\ raced' \in BOOLEAN
    BY <1>2, WriteTypes DEF StockInv
  <2> QED  BY <1>2, <1>7, <2>1, <2>2 DEF StockInv, C!TypeOK
<1>10. \A b \in C!Made : b \in Booking /\ book[b].confirmed \in BOOLEAN
  BY StockRows DEF StockInv
<1>11. \A b \in Booking \ C!Made : book'[b] = None
  BY <1>3 DEF C!Made
<1>12. ASSUME NEW b \in C!Confirmed'
       PROVE  /\ b \in C!Confirmed /\ book'[b].service = book[b].service
              /\ book'[b].who = book[b].who /\ book'[b].time = book[b].time
              /\ book'[b].revived = book[b].revived
              /\ book[b].unasked => book'[b].unasked
              /\ work[h].force /\ b \in C!Clashes(p, t) => book'[b].unasked
  <2>1. b \in Booking /\ book'[b] # None /\ book'[b].confirmed
    BY DEF C!Confirmed, C!Made
  <2>2. b \in C!Made
    BY <1>11, <2>1
  <2> QED  BY <1>3, <1>5, <1>10, <2>1, <2>2 DEF C!Confirmed
<1>13. C!Upcoming' \subseteq C!Upcoming /\ C!Upcoming' \subseteq C!Confirmed'
  BY <1>2, <1>12 DEF C!Upcoming
<1>14. ASSUME ~raced' PROVE C!NobodyOrphaned' /\ C!NobodyAway'
  <2>1. ~raced /\ StillSo(work[h])
    BY <1>2, <1>14, WriteTypes DEF StockInv
  <2>2. work[h].force \/ C!Clashes(p, t) = {}
    BY <1>1, <1>2, <2>1 DEF StillSo
  <2>3. C!NobodyOrphaned'
    BY <1>2, <1>12, <1>13, <2>1 DEF StockInv, C!NobodyOrphaned
  <2>4. ASSUME NEW b \in C!Confirmed', <<book'[b].who, book'[b].time>> \in off'
        PROVE  book'[b].unasked
    <3>1. CASE <<book[b].who, book[b].time>> \in off
      BY <1>12, <2>1, <2>4, <3>1 DEF StockInv, C!NobodyAway
    <3>2. CASE <<book[b].who, book[b].time>> \notin off
      <4>1. book[b].who = p /\ book[b].time = t
        BY <1>2, <1>12, <2>4, <3>2
      <4>2. b \in C!Clashes(p, t)
        BY <1>12, <2>4, <4>1 DEF C!Clashes
      <4> QED  BY <1>12, <2>2, <2>4, <4>2
    <3> QED  BY <3>1, <3>2
  <2> QED  BY <2>3, <2>4 DEF C!NobodyAway
<1> QED  BY <1>2, <1>8, <1>14, WriteAlone

LEMMA QuietBookings ==
  ASSUME StockInv, C!Assumptions, UNCHANGED <<clock, services, staff, off, work, raced>>,
         NEW b \in C!Confirmed, NEW row \in C!Row, book' = [book EXCEPT ![b] = row],
         row.service = book[b].service, row.who = book[b].who, row.time = book[b].time,
         row.unasked = book[b].unasked, row.revived = book[b].revived
  PROVE  StockInv'
<1>1. b \in Booking
  BY DEF C!Confirmed, C!Made
<1>2. \A x \in Booking : book'[x] = IF x = b THEN row ELSE book[x]
  BY DEF StockInv, C!TypeOK
<1>3. C!TypeOK'
  BY DEF StockInv, C!TypeOK
<1>4. C!Confirmed' \subseteq C!Confirmed
  BY <1>2 DEF C!Confirmed, C!Made
<1>5. C!Upcoming' \subseteq C!Upcoming
  BY <1>2, <1>4 DEF C!Upcoming, C!Confirmed, C!Made
<1>6. C!Confirmed \subseteq Booking
  BY DEF C!Confirmed, C!Made
<1> QED  BY <1>2, <1>3, <1>4, <1>5, <1>6, QuietHolds

LEMMA QuietSteps ==
  ASSUME StockInv, C!Assumptions,
         \/ \E b \in Booking : C!Cancel(b)
         \/ \E b \in Booking, flag \in BOOLEAN : C!SetNoShow(b, flag)
         \/ \E s \in Service : C!AddService(s)
         \/ \E p \in Staff : C!AddStaff(p)
         \/ \E p \in Staff, t \in Time : C!RemoveTimeOff(p, t)
         \/ C!Tick
  PROVE  StockInv'
<1>1. ASSUME NEW b \in Booking, C!Cancel(b) PROVE StockInv'
  <2>1. PICK row : row = [book[b] EXCEPT !.confirmed = FALSE]
    OBVIOUS
  <2>2. b \in C!Confirmed /\ book' = [book EXCEPT ![b] = row]
        /\ UNCHANGED <<clock, services, staff, off, work, raced>>
    BY <1>1, <2>1 DEF C!Cancel, C!Upcoming, C!shop
  <2>3. book[b] \in C!Row
    BY <2>2, StockRows DEF C!Confirmed, StockInv
  <2>4. /\ row \in C!Row /\ row.service = book[b].service /\ row.who = book[b].who
        /\ row.time = book[b].time /\ row.unasked = book[b].unasked
        /\ row.revived = book[b].revived
    BY <2>1, <2>3 DEF C!Row
  <2> QED  BY <2>2, <2>4, QuietBookings
<1>2. ASSUME NEW b \in Booking, NEW flag \in BOOLEAN, C!SetNoShow(b, flag) PROVE StockInv'
  <2>1. PICK row : row = [book[b] EXCEPT !.noShow = flag]
    OBVIOUS
  <2>2. b \in C!Confirmed /\ book' = [book EXCEPT ![b] = row]
        /\ UNCHANGED <<clock, services, staff, off, work, raced>>
    BY <1>2, <2>1 DEF C!SetNoShow, C!shop
  <2>3. book[b] \in C!Row
    BY <2>2, StockRows DEF C!Confirmed, StockInv
  <2>4. /\ row \in C!Row /\ row.service = book[b].service /\ row.who = book[b].who
        /\ row.time = book[b].time /\ row.unasked = book[b].unasked
        /\ row.revived = book[b].revived
    BY <2>1, <2>3 DEF C!Row
  <2> QED  BY <2>2, <2>4, QuietBookings
<1>3. ASSUME C!TypeOK', UNCHANGED <<book, work, raced>>,
             services \subseteq services', staff \subseteq staff', off' \subseteq off,
             clock' = clock \/ (clock' > clock /\ clock' \in Instant)
      PROVE  StockInv'
  <2>1. C!Made' = C!Made
    BY <1>3 DEF C!Made
  <2>2. C!Confirmed' = C!Confirmed
    BY <1>3, <2>1 DEF C!Confirmed
  <2>3. C!Upcoming' \subseteq C!Upcoming
    <3>1. ASSUME NEW b \in C!Confirmed PROVE book[b].time \in Int /\ clock \in Int
      BY StockRows DEF C!Confirmed, StockInv, C!TypeOK, C!Assumptions
    <3>2. clock' = clock \/ (clock' > clock /\ clock' \in Int)
      BY <1>3 DEF C!Assumptions
    <3> QED  BY <1>3, <2>2, <3>1, <3>2 DEF C!Upcoming
  <2> QED  BY <1>3, <2>2, <2>3, QuietHolds
<1>4. ASSUME NEW s \in Service, C!AddService(s) PROVE StockInv'
  <2>1. C!TypeOK' /\ UNCHANGED <<clock, staff, off, book, work, raced>> /\ services \subseteq services'
    BY <1>4 DEF C!AddService, StockInv, C!TypeOK
  <2> QED  BY <1>3, <2>1
<1>5. ASSUME NEW p \in Staff, C!AddStaff(p) PROVE StockInv'
  <2>1. C!TypeOK' /\ UNCHANGED <<clock, services, off, book, work, raced>> /\ staff \subseteq staff'
    BY <1>5 DEF C!AddStaff, StockInv, C!TypeOK
  <2> QED  BY <1>3, <2>1
<1>6. ASSUME NEW p \in Staff, NEW t \in Time, C!RemoveTimeOff(p, t) PROVE StockInv'
  <2>1. C!TypeOK' /\ UNCHANGED <<clock, services, staff, book, work, raced>> /\ off' \subseteq off
    BY <1>6 DEF C!RemoveTimeOff, StockInv, C!TypeOK
  <2> QED  BY <1>3, <2>1
<1>7. CASE C!Tick
  <2>1. C!TypeOK' /\ UNCHANGED <<services, staff, off, book, work, raced>>
        /\ clock' > clock /\ clock' \in Instant
    BY <1>7 DEF C!Tick, C!shop, StockInv, C!TypeOK
  <2> QED  BY <1>3, <2>1
<1> QED  BY <1>1, <1>2, <1>4, <1>5, <1>6, <1>7

LEMMA StockMoves == StockInv /\ C!Assumptions /\ C!Next => StockInv'
<1> SUFFICES ASSUME StockInv, C!Assumptions, C!Next PROVE StockInv'  OBVIOUS
<1>1. ASSUME NEW h \in Actor,
        \/ \E s \in Service : C!DropService(h, s)
        \/ \E p \in Staff : C!DropStaff(h, p)
        \/ \E p \in Staff, t \in Time : C!AskTimeOff(h, p, t)
      PROVE  StockInv'
  BY <1>1, AskHolds
<1>2. ASSUME NEW h \in Actor,
        \E desk \in BOOLEAN, s \in Service, w \in Staff \cup {Anyone}, t \in Time :
          C!Choose(h, desk, s, w, t)
      PROVE  StockInv'
  BY <1>2, ChooseHolds DEF Somebody
<1>3. ASSUME NEW h \in Actor,
        \/ \E b \in Booking, t \in Time :
             C!ChooseMove(h, b, t) \/ C!MoveByLink(h, b, t) \/ C!MoveInPortal(h, b, t)
        \/ \E b \in Booking : C!WriteBooking(h, b)
      PROVE  StockInv'
  BY <1>3, ChooseMoveHolds, WriteBookingHolds
<1>4. ASSUME NEW h \in Actor,
        \/ C!LookAtOffer(h) \/ C!ReadForBooking(h) \/ C!LookAtMove(h)
        \/ C!ReadForMove(h) \/ C!WriteMove(h)
      PROVE  StockInv'
  BY <1>4, LookHolds, LookAtMoveHolds, ReadHolds, ReadMoveHolds, WriteMoveHolds
<1>5. ASSUME NEW h \in Actor,
        \/ C!CheckService(h) \/ C!DeleteService(h) \/ C!CheckStaff(h) \/ C!DeleteStaff(h)
        \/ C!CheckTimeOff(h) \/ C!PutTimeOff(h)
      PROVE  StockInv'
  BY <1>5, CheckServiceHolds, CheckStaffHolds, CheckTimeOffHolds, DeletesHold, PutTimeOffHolds
<1> QED  BY <1>1, <1>2, <1>3, <1>4, <1>5, QuietSteps DEF C!Next

LEMMA StockStands == StockInv /\ UNCHANGED stocking => StockInv'
<1> SUFFICES ASSUME StockInv, UNCHANGED stocking PROVE StockInv'  OBVIOUS
<1>1. UNCHANGED <<clock, services, staff, off, book, work, raced>>
  BY DEF stocking
<1>2. C!Confirmed' = C!Confirmed /\ C!Upcoming' = C!Upcoming
  BY <1>1 DEF C!Upcoming, C!Confirmed, C!Made
<1>3. C!TypeOK'
  BY <1>1 DEF StockInv, C!TypeOK
<1> QED  BY <1>1, <1>2, <1>3, QuietHolds

-----------------------------------------------------------------------------
(* The calendar.                                                           *)

\* One drag at a time of a booking nobody else changes: it is drawn where the drag ends
\* and stored where it began, until the drag is stored.
Follows(b) ==
  b \notin stale =>
    /\ fetch.pc = "none" =>
         \/ B!Dropped(b) = {} /\ shown[b] = B!Drawn[b]
         \/ \E d \in drops :
              /\ B!Dropped(b) = {d} /\ shown[b] = d.to
              /\ B!Drawn[b] = IF d.state = "done" THEN d.to ELSE d.from
    /\ fetch.pc = "read" => B!Dropped(b) = {} /\ fetch.got[b] = B!Drawn[b]

\* A form that is closed asks for nothing.
FormHolds ==
  /\ dialog.mode # "closed" => dialog.day \in Day
  /\ dialog.mode = "closed" => lists = {} /\ dialog.list = None /\ dialog.picked = None

MindInv ==
  /\ B!TypeOK /\ B!PickedAsChosen /\ FormHolds
  /\ \A b \in Booking : Follows(b)

LEMMA MindPromise == MindInv => B!ShownIsStored
<1> SUFFICES ASSUME MindInv, NEW b \in Booking,
                    B!Dropped(b) = {}, fetch.pc = "none", b \notin stale
             PROVE  shown[b] = B!Drawn[b]
  BY DEF B!ShownIsStored
<1>1. Follows(b)
  BY DEF MindInv
<1>2. \A d : B!Dropped(b) # {d}
  OBVIOUS
<1> QED  BY <1>1, <1>2 DEF Follows

LEMMA MindNulls ==
  B!Assumptions =>
    /\ None \notin Slot /\ Unseen \notin Slot /\ None # Unseen /\ None \notin Day
    /\ Anyone \notin Booking
    /\ [t \in Slot |-> t \div DayLength] \in [Slot -> Day]
BY DEF B!Assumptions

LEMMA MindFields ==
  ASSUME B!TypeOK
  PROVE  /\ dialog.mode \in {"closed", "create", "edit"}
         /\ dialog.booking \in Booking \cup {Anyone} /\ dialog.day \in Day \cup {None}
         /\ dialog.list \in Day \cup {None} /\ dialog.picked \in B!Place
         /\ dialog.astray \in BOOLEAN
         /\ fetch.pc \in {"none", "asked", "read"} /\ fetch.got \in [Booking -> B!Place]
         /\ B!Drawn \in [Booking -> B!Place]
         /\ \A d \in drops : d.booking \in Booking /\ d.from \in Slot /\ d.to \in Slot
                             /\ d.state \in {"sent", "done", "refused"}
BY DEF B!TypeOK, B!Form, B!Fetch, B!Drop, B!Drawn, B!Place

LEMMA NoneFetched ==
  /\ B!NoFetch \in B!Fetch /\ B!NoFetch.pc = "none"
  /\ B!Refetched \in B!Fetch /\ B!Refetched.pc = "asked"
<1>1. PICK got \in [Booking -> B!Place] : got = [b \in Booking |-> None]
  BY DEF B!Place
<1>2. B!NoFetch = [pc |-> "none", got |-> got]
  BY <1>1 DEF B!NoFetch
<1>3. B!Refetched = [[pc |-> "none", got |-> got] EXCEPT !.pc = "asked"]
  BY <1>2 DEF B!Refetched
<1>4. [[pc |-> "none", got |-> got] EXCEPT !.pc = "asked"] = [pc |-> "asked", got |-> got]
  OBVIOUS
<1> QED  BY <1>1, <1>2, <1>3, <1>4 DEF B!Fetch

LEMMA ClosedForm ==
  /\ B!Closed \in B!Form /\ B!Closed.mode = "closed" /\ B!Closed.picked = None
  /\ B!Closed.list = None
BY DEF B!Closed, B!Form, B!Place

LEMMA MindStarts == B!Assumptions /\ B!Init => MindInv
<1> SUFFICES ASSUME B!Assumptions, B!Init PROVE MindInv  OBVIOUS
<1>1. /\ diary = [b \in Booking |-> None] /\ shown = diary /\ stale = {}
      /\ fetch = B!NoFetch /\ drops = {} /\ dialog = B!Closed /\ lists = {} /\ saves = {}
  BY DEF B!Init
<1>2. B!TypeOK
  BY <1>1, NoneFetched, ClosedForm DEF B!TypeOK, B!Place
<1>3. \A b \in Booking : B!Dropped(b) = {} /\ shown[b] = B!Drawn[b]
  BY <1>1, MindNulls DEF B!Dropped, B!Drawn
<1>4. FormHolds /\ B!PickedAsChosen
  BY <1>1, ClosedForm DEF FormHolds, B!PickedAsChosen
<1> QED  BY <1>1, <1>2, <1>3, <1>4, NoneFetched DEF MindInv, Follows

\* What was so of a booking is so as long as nothing of it changes.
LEMMA StillFollows ==
  ASSUME NEW b, Follows(b), b \in stale => b \in stale',
         fetch' = fetch, shown'[b] = shown[b], (B!Drawn[b])' = B!Drawn[b],
         B!Dropped(b)' = B!Dropped(b)
  PROVE  Follows(b)'
<1>1. PICK v, w : v = shown[b] /\ w = B!Drawn[b]
  OBVIOUS
<1>2. (shown[b])' = v /\ (B!Drawn[b])' = w
  BY <1>1
<1>3. \A d \in B!Dropped(b)' : d \in drops'
  BY DEF B!Dropped
<1> QED  BY <1>1, <1>2, <1>3 DEF Follows

\* A step in the form.
LEMMA FormStep ==
  ASSUME MindInv, UNCHANGED <<diary, shown, stale, fetch, drops>>,
         B!TypeOK', B!PickedAsChosen', FormHolds'
  PROVE  MindInv'
<1>1. ASSUME NEW b \in Booking PROVE Follows(b)'
  <2>1. B!Dropped(b)' = B!Dropped(b) /\ (B!Drawn[b])' = B!Drawn[b]
    BY DEF B!Dropped, B!Drawn
  <2> QED  BY <2>1, StillFollows DEF MindInv
<1> QED  BY <1>1 DEF MindInv

\* A step in the calendar or at the server.
LEMMA MapStep ==
  ASSUME MindInv, UNCHANGED <<dialog, lists>>,
         diary' \in [Booking -> B!Place \cup {Unseen}], shown' \in [Booking -> B!Place],
         stale' \subseteq Booking, fetch' \in B!Fetch, drops' \subseteq B!Drop,
         saves' \subseteq B!SaveCall,
         \A s \in saves' : \E r \in saves : /\ s.kind = r.kind /\ s.astray = r.astray
                                            /\ s.to = r.to /\ s.day = r.day,
         \A b \in Booking : Follows(b)'
  PROVE  MindInv'
<1>1. B!TypeOK'
  BY DEF MindInv, B!TypeOK
<1>2. B!PickedAsChosen'
  BY DEF MindInv, B!PickedAsChosen
<1>3. FormHolds'
  BY DEF MindInv, FormHolds
<1> QED  BY <1>1, <1>2, <1>3 DEF MindInv

LEMMA OpenFormHolds ==
  ASSUME MindInv, NEW m \in {"create", "edit"}, NEW b \in Booking \cup {Anyone}, NEW d \in Day,
         B!OpenForm(m, b, d)
  PROVE  MindInv'
<1>1. dialog' = [B!Closed EXCEPT !.mode = m, !.booking = b, !.day = d] /\ lists' = {d}
      /\ UNCHANGED <<diary, shown, stale, fetch, drops, saves>>
  BY DEF B!OpenForm, B!Calendar
<1>2. dialog' \in B!Form /\ dialog'.mode = m /\ dialog'.day = d /\ dialog'.picked = None
  BY <1>1, ClosedForm DEF B!Form
<1>3. B!TypeOK'
  BY <1>1, <1>2 DEF MindInv, B!TypeOK
<1>4. FormHolds' /\ B!PickedAsChosen'
  BY <1>1, <1>2 DEF MindInv, FormHolds, B!PickedAsChosen
<1> QED  BY <1>1, <1>3, <1>4, FormStep

LEMMA ChooseDayHolds ==
  ASSUME MindInv, NEW d \in Day, B!Choose(d)
  PROVE  MindInv'
<1>1. /\ dialog' = [dialog EXCEPT !.day = d, !.picked = None, !.astray = FALSE]
      /\ dialog.mode # "closed" /\ lists' = lists \cup {d}
      /\ UNCHANGED <<diary, shown, stale, fetch, drops, saves>>
  BY DEF B!Choose, B!Unpicked, B!Calendar
<1>2. dialog \in B!Form
  BY DEF MindInv, B!TypeOK
<1>3. /\ dialog' \in B!Form /\ dialog'.mode = dialog.mode /\ dialog'.day = d
      /\ dialog'.picked = None
  BY <1>1, <1>2 DEF B!Form, B!Place
<1>4. B!TypeOK'
  BY <1>1, <1>3 DEF MindInv, B!TypeOK
<1>5. FormHolds' /\ B!PickedAsChosen'
  BY <1>1, <1>3 DEF MindInv, FormHolds, B!PickedAsChosen
<1> QED  BY <1>1, <1>4, <1>5, FormStep

LEMMA TimesHold ==
  ASSUME MindInv, NEW d \in Day, B!TimesListed(d) \/ B!TimesFailed(d)
  PROVE  MindInv'
<1>1. /\ dialog' = dialog \/ dialog' = [dialog EXCEPT !.list = d]
      /\ d \in lists /\ lists' = lists \ {d}
      /\ UNCHANGED <<diary, shown, stale, fetch, drops, saves>>
  BY DEF B!TimesListed, B!TimesFailed, B!Calendar
<1>2. dialog \in B!Form /\ dialog.mode # "closed"
  BY <1>1 DEF MindInv, B!TypeOK, FormHolds
<1>3. /\ dialog' \in B!Form /\ dialog'.mode = dialog.mode /\ dialog'.day = dialog.day
      /\ dialog'.picked = dialog.picked /\ dialog'.astray = dialog.astray
  BY <1>1, <1>2 DEF B!Form
<1>4. B!TypeOK'
  BY <1>1, <1>3 DEF MindInv, B!TypeOK
<1>5. FormHolds' /\ B!PickedAsChosen'
  BY <1>1, <1>2, <1>3 DEF MindInv, FormHolds, B!PickedAsChosen
<1> QED  BY <1>1, <1>4, <1>5, FormStep

LEMMA PickHolds ==
  ASSUME MindInv, B!Assumptions, NEW t \in Slot, B!Pick(t)
  PROVE  MindInv'
<1>1. PICK flag \in BOOLEAN : flag <=> dialog.list # dialog.day
  OBVIOUS
<1>2. /\ dialog' = [dialog EXCEPT !.picked = t, !.astray = dialog.list # dialog.day]
      /\ dialog.list # None /\ [u \in Slot |-> u \div DayLength][t] = dialog.list
      /\ UNCHANGED <<diary, shown, stale, fetch, drops, lists, saves>>
  BY DEF B!Pick, B!Calendar
<1>3. dialog \in B!Form /\ dialog.mode # "closed"
  BY <1>2 DEF MindInv, B!TypeOK, FormHolds
<1>4. /\ dialog' \in B!Form /\ dialog'.mode = dialog.mode /\ dialog'.day = dialog.day
      /\ dialog'.picked = t /\ (dialog'.astray <=> dialog.list # dialog.day)
      /\ dialog'.list = dialog.list
  BY <1>2, <1>3 DEF B!Form, B!Place
<1>5. B!TypeOK'
  BY <1>2, <1>4 DEF MindInv, B!TypeOK
<1>6. B!PickedAsChosen'
  <2>1. dialog'.astray \/ [u \in Slot |-> u \div DayLength][t] = dialog'.day
    BY <1>2, <1>4
  <2> QED  BY <1>2, <1>4, <2>1 DEF MindInv, B!PickedAsChosen
<1>7. FormHolds'
  BY <1>2, <1>3, <1>4 DEF MindInv, FormHolds
<1> QED  BY <1>2, <1>5, <1>6, <1>7, FormStep

LEMMA SendHolds ==
  ASSUME MindInv, NEW kind \in {"create", "move", "cancel"}, NEW to \in B!Place,
         B!Send(kind, to), dialog.mode # "closed",
         kind # "cancel" => to = dialog.picked /\ dialog.picked # None
  PROVE  MindInv'
<1>1. PICK flag \in BOOLEAN : flag = dialog.astray
  BY MindFields DEF MindInv
<1>2. PICK s : s = [kind |-> kind, booking |-> dialog.booking, to |-> to, day |-> dialog.day,
                    astray |-> flag, mine |-> TRUE, state |-> "sent"]
  OBVIOUS
<1>3. /\ saves' = saves \cup {s}
      /\ UNCHANGED <<diary, shown, stale, fetch, drops, dialog, lists>>
  BY <1>1, <1>2 DEF B!Send, B!Calendar, B!TheForm
<1>4. dialog.day \in Day
  BY DEF MindInv, FormHolds
<1>5. /\ s \in B!SaveCall /\ s.kind = kind /\ s.to = to /\ s.day = dialog.day
      /\ s.astray = flag
  BY <1>2, <1>4, MindFields DEF MindInv, B!SaveCall
<1>6. B!TypeOK'
  BY <1>3, <1>5 DEF MindInv, B!TypeOK
<1>7. B!PickedAsChosen'
  <2>1. s.kind # "cancel" => s.astray \/ [u \in Slot |-> u \div DayLength][s.to] = s.day
    BY <1>1, <1>5 DEF MindInv, B!PickedAsChosen
  <2> QED  BY <1>3, <2>1 DEF MindInv, B!PickedAsChosen
<1>8. FormHolds'
  BY <1>3 DEF MindInv, FormHolds
<1> QED  BY <1>3, <1>6, <1>7, <1>8, FormStep

\* The saves as they are when their form is gone.
LEMMA Disowned ==
  ASSUME NEW s \in B!SaveCall, NEW r, r = [s EXCEPT !.mine = FALSE]
  PROVE  r \in B!SaveCall /\ r.kind = s.kind /\ r.to = s.to /\ r.day = s.day
         /\ r.astray = s.astray
BY DEF B!SaveCall

LEMMA CloseHolds ==
  ASSUME MindInv, B!CloseForm
  PROVE  MindInv'
<1>1. /\ dialog' = B!Closed /\ lists' = {} /\ saves' = {[s EXCEPT !.mine = FALSE] : s \in saves}
      /\ UNCHANGED <<diary, shown, stale, fetch, drops>>
  BY DEF B!CloseForm, B!Calendar
<1>2. \A r \in saves' : \E s \in saves :
        r \in B!SaveCall /\ r.kind = s.kind /\ r.to = s.to /\ r.day = s.day
        /\ r.astray = s.astray
  BY <1>1, Disowned DEF MindInv, B!TypeOK
<1>3. B!TypeOK'
  BY <1>1, <1>2, ClosedForm DEF MindInv, B!TypeOK
<1>4. FormHolds' /\ B!PickedAsChosen'
  BY <1>1, <1>2, ClosedForm DEF MindInv, FormHolds, B!PickedAsChosen
<1> QED  BY <1>1, <1>3, <1>4, FormStep

LEMMA SavedHolds ==
  ASSUME MindInv, NEW s \in saves, B!Saved(s)
  PROVE  MindInv'
<1>1. /\ dialog' = B!Closed /\ lists' = {}
      /\ saves' = {[r EXCEPT !.mine = FALSE] : r \in saves \ {s}}
      /\ fetch' = B!Refetched /\ UNCHANGED <<diary, shown, stale, drops>>
  BY DEF B!Saved
<1>2. \A r \in saves' : \E x \in saves :
        r \in B!SaveCall /\ r.kind = x.kind /\ r.to = x.to /\ r.day = x.day
        /\ r.astray = x.astray
  BY <1>1, Disowned DEF MindInv, B!TypeOK
<1>3. B!TypeOK'
  BY <1>1, <1>2, ClosedForm, NoneFetched DEF MindInv, B!TypeOK
<1>4. FormHolds' /\ B!PickedAsChosen'
  BY <1>1, <1>2, ClosedForm DEF MindInv, FormHolds, B!PickedAsChosen
<1>5. \A b \in Booking : Follows(b)'
  BY <1>1, NoneFetched DEF Follows
<1> QED  BY <1>3, <1>4, <1>5 DEF MindInv

LEMMA SaveFailedHolds ==
  ASSUME MindInv, NEW s \in saves, B!SaveFailed(s)
  PROVE  MindInv'
<1>1. /\ saves' = saves \ {s} /\ UNCHANGED <<diary, shown, fetch, drops, dialog, lists>>
      /\ stale' = stale \/ stale' = Booking
  BY DEF B!SaveFailed, B!Calendar, B!TheForm
<1>2. ASSUME NEW b \in Booking PROVE Follows(b)'
  <2>1. B!Dropped(b)' = B!Dropped(b) /\ (B!Drawn[b])' = B!Drawn[b]
    BY <1>1 DEF B!Dropped, B!Drawn
  <2> QED  BY <1>1, <2>1, StillFollows DEF MindInv
<1> QED  BY <1>1, <1>2, MapStep DEF MindInv, B!TypeOK

LEMMA FetchesHold ==
  ASSUME MindInv, B!Refetch \/ B!ListBookings \/ B!Draw \/ B!FetchFails
  PROVE  MindInv'
<1>1. UNCHANGED <<diary, drops, dialog, lists, saves>>
  BY DEF B!Refetch, B!ListBookings, B!Draw, B!FetchFails, B!TheForm
<1>2. \A b \in Booking : B!Dropped(b)' = B!Dropped(b) /\ (B!Drawn[b])' = B!Drawn[b]
  BY <1>1 DEF B!Dropped, B!Drawn
<1>3. fetch \in B!Fetch /\ B!Drawn \in [Booking -> B!Place] /\ fetch.got \in [Booking -> B!Place]
  BY MindFields DEF MindInv, B!TypeOK
<1>4. CASE B!Refetch
  <2>1. fetch' = B!Refetched /\ UNCHANGED <<shown, stale>>
    BY <1>4 DEF B!Refetch
  <2>2. \A b \in Booking : Follows(b)'
    BY <2>1, NoneFetched DEF Follows
  <2> QED  BY <1>1, <2>1, <2>2, NoneFetched, MapStep DEF MindInv, B!TypeOK
<1>5. CASE B!ListBookings
  <2>1. PICK g \in [Booking -> B!Place] : g = B!Drawn
    BY <1>3
  <2>2. fetch' = [pc |-> "read", got |-> g] /\ shown' = shown
        /\ stale' = {b \in Booking : B!Dropped(b) # {}}
    BY <1>5, <2>1 DEF B!ListBookings
  <2>3. fetch' \in B!Fetch /\ fetch'.pc = "read" /\ fetch'.got = g
    BY <2>2 DEF B!Fetch
  <2>4. \A b \in Booking : Follows(b)'
    BY <1>2, <2>1, <2>2, <2>3 DEF Follows
  <2> QED  BY <1>1, <2>2, <2>3, <2>4, MapStep DEF MindInv, B!TypeOK
<1>6. CASE B!Draw
  <2>1. fetch.pc = "read" /\ shown' = fetch.got /\ fetch' = B!NoFetch /\ stale' = stale
    BY <1>6 DEF B!Draw
  <2>2. \A b \in Booking : Follows(b)'
    BY <1>2, <2>1, NoneFetched DEF MindInv, Follows
  <2> QED  BY <1>1, <1>3, <2>1, <2>2, NoneFetched, MapStep DEF MindInv, B!TypeOK
<1>7. CASE B!FetchFails
  <2>1. fetch' = B!NoFetch /\ stale' = Booking /\ shown' = shown
    BY <1>7 DEF B!FetchFails
  <2>2. \A b \in Booking : Follows(b)'
    BY <2>1 DEF Follows
  <2> QED  BY <1>1, <2>1, <2>2, NoneFetched, MapStep DEF MindInv, B!TypeOK
<1> QED  BY <1>4, <1>5, <1>6, <1>7

LEMMA HandleDropHolds ==
  ASSUME MindInv, NEW b \in Booking, NEW t \in Slot, B!HandleDrop(b, t)
  PROVE  MindInv'
<1>1. PICK d : d = [booking |-> b, from |-> shown[b], to |-> t, state |-> "sent"]
  OBVIOUS
<1>2. /\ shown[b] \in Slot /\ drops' = drops \cup {d} /\ shown' = [shown EXCEPT ![b] = t]
      /\ stale' = IF B!Dropped(b) # {} \/ fetch.pc # "none" THEN stale \cup {b} ELSE stale
      /\ UNCHANGED <<diary, fetch, dialog, lists, saves>>
  BY <1>1 DEF B!HandleDrop, B!TheForm
<1>3. /\ d \in B!Drop /\ d.booking = b /\ d.from = shown[b] /\ d.to = t /\ d.state = "sent"
  BY <1>1, <1>2 DEF B!Drop
<1>4. /\ shown' \in [Booking -> B!Place] /\ shown'[b] = t
      /\ \A c \in Booking \ {b} : shown'[c] = shown[c]
  BY <1>2 DEF MindInv, B!TypeOK, B!Place
<1>5. \A c \in Booking : (B!Drawn[c])' = B!Drawn[c]
  BY <1>2 DEF B!Drawn
<1>6. ASSUME NEW c \in Booking \ {b} PROVE Follows(c)'
  <2>1. B!Dropped(c)' = B!Dropped(c)
    BY <1>2, <1>3 DEF B!Dropped
  <2> QED  BY <1>2, <1>4, <1>5, <2>1, StillFollows DEF MindInv
<1>7. Follows(b)'
  <2>1. CASE b \in stale'
    BY <2>1 DEF Follows
  <2>2. CASE b \notin stale'
    <3>1. B!Dropped(b) = {} /\ fetch.pc = "none" /\ b \notin stale
      BY <1>2, <2>2
    <3>2. B!Dropped(b)' = {d} /\ d \in drops'
      BY <1>2, <1>3, <3>1 DEF B!Dropped
    <3>3. \A x : B!Dropped(b) # {x}
      BY <3>1
    <3>4. shown[b] = B!Drawn[b]
      BY <3>1, <3>3 DEF MindInv, Follows
    <3> QED  BY <1>2, <1>3, <1>4, <1>5, <3>1, <3>2, <3>4 DEF Follows
  <2> QED  BY <2>1, <2>2
<1>8. stale' \subseteq Booking /\ drops' \subseteq B!Drop
  BY <1>2, <1>3 DEF MindInv, B!TypeOK
<1> QED  BY <1>2, <1>4, <1>6, <1>7, <1>8, MapStep DEF MindInv, B!TypeOK

LEMMA DropAnswersHold ==
  ASSUME MindInv, NEW d \in drops, B!DropStored(d) \/ B!DropRefused(d)
  PROVE  MindInv'
<1>1. /\ drops' = drops \ {d} /\ UNCHANGED <<diary, fetch, dialog, lists, saves>>
      /\ d.booking \in Booking /\ d.from \in Slot
  BY MindFields DEF B!DropStored, B!DropRefused, B!TheForm, MindInv
<1>2. \A c \in Booking : (B!Drawn[c])' = B!Drawn[c]
  BY <1>1 DEF B!Drawn
<1>3. PICK b \in Booking : b = d.booking
  BY <1>1
<1>4. d \in B!Dropped(b) /\ B!Dropped(b)' = B!Dropped(b) \ {d}
  BY <1>1, <1>3 DEF B!Dropped
<1>5. \A c \in Booking \ {b} : B!Dropped(c)' = B!Dropped(c)
  BY <1>1, <1>3 DEF B!Dropped
<1>6. b \notin stale => fetch.pc # "read"
  BY <1>4 DEF MindInv, Follows
<1>7. b \notin stale /\ fetch.pc = "none" =>
        /\ B!Dropped(b) = {d} /\ shown[b] = d.to
        /\ B!Drawn[b] = IF d.state = "done" THEN d.to ELSE d.from
  BY <1>4 DEF MindInv, Follows
<1>8. CASE B!DropStored(d)
  <2>1. d.state = "done" /\ UNCHANGED <<shown, stale>>
    BY <1>8 DEF B!DropStored
  <2>2. \A c \in Booking \ {b} : Follows(c)'
    BY <1>1, <1>2, <1>5, <2>1, StillFollows DEF MindInv
  <2>3. Follows(b)'
    <3>1. b \notin stale' /\ fetch'.pc = "none" => B!Dropped(b)' = {} /\ shown'[b] = (B!Drawn[b])'
      BY <1>1, <1>2, <1>4, <1>7, <2>1
    <3> QED  BY <1>1, <1>6, <2>1, <3>1 DEF Follows
  <2> QED  BY <1>1, <2>1, <2>2, <2>3, MapStep DEF MindInv, B!TypeOK
<1>9. CASE B!DropRefused(d)
  <2>1. /\ shown' = [shown EXCEPT ![b] = d.from]
        /\ stale' = IF d.state = "refused" THEN stale ELSE stale \cup {b}
    BY <1>3, <1>9 DEF B!DropRefused, B!Reverted
  <2>2. /\ shown' \in [Booking -> B!Place] /\ shown'[b] = d.from
        /\ \A c \in Booking \ {b} : shown'[c] = shown[c]
    BY <1>1, <2>1 DEF MindInv, B!TypeOK, B!Place
  <2>3. \A c \in Booking \ {b} : Follows(c)'
    BY <1>1, <1>2, <1>5, <2>1, <2>2, StillFollows DEF MindInv
  <2>4. Follows(b)'
    <3>1. b \notin stale' => b \notin stale /\ d.state = "refused"
      BY <2>1
    <3>2. b \notin stale' /\ fetch'.pc = "none" => B!Dropped(b)' = {} /\ shown'[b] = (B!Drawn[b])'
      BY <1>1, <1>2, <1>4, <1>7, <2>2, <3>1
    <3> QED  BY <1>1, <1>6, <3>1, <3>2 DEF Follows
  <2>5. stale' \subseteq Booking
    BY <2>1 DEF MindInv, B!TypeOK
  <2> QED  BY <1>1, <2>2, <2>3, <2>4, <2>5, MapStep DEF MindInv, B!TypeOK
<1> QED  BY <1>8, <1>9

\* Whatever the server answers, one booking at most is moved.
LEMMA ResultsAre ==
  ASSUME MindInv, B!Assumptions, NEW b \in Booking \cup {Anyone}, NEW t \in B!Place,
         NEW result \in B!RescheduleBooking(b, t)
  PROVE  \/ result[2] = "refused" /\ result[1] = diary
         \/ /\ result[2] = "done" /\ result[1] = [diary EXCEPT ![b] = t] /\ diary[b] \in Slot
<1>1. \/ result = <<diary, "refused">>
      \/ result = <<[diary EXCEPT ![b] = t], "done">> /\ diary[b] \in Slot
  BY DEF B!RescheduleBooking
<1> QED  BY <1>1

LEMMA ServeDropHolds ==
  ASSUME MindInv, B!Assumptions, NEW d \in drops, B!ServeDrop(d)
  PROVE  MindInv'
<1>1. PICK result \in B!RescheduleBooking(d.booking, d.to) :
        diary' = result[1] /\ drops' = B!Replace(drops, d, result[2])
  BY DEF B!ServeDrop
<1>2. /\ d.booking \in Booking /\ d.from \in Slot /\ d.to \in Slot /\ d \in B!Drop
      /\ d.state = "sent" /\ UNCHANGED <<shown, fetch, stale, dialog, lists, saves>>
  BY MindFields DEF B!ServeDrop, B!Calendar, B!TheForm, MindInv, B!TypeOK
<1>3. PICK b \in Booking : b = d.booking
  BY <1>2
<1>4. PICK st \in {"refused", "done"} :
        /\ st = result[2]
        /\ st = "refused" => diary' = diary
        /\ st = "done" => diary' = [diary EXCEPT ![b] = d.to]
  BY <1>1, <1>2, <1>3, ResultsAre DEF B!Place
<1>5. PICK e : e = [d EXCEPT !.state = st]
  OBVIOUS
<1>6. /\ e \in B!Drop /\ e.booking = b /\ e.from = d.from /\ e.to = d.to /\ e.state = st
  BY <1>2, <1>3, <1>5 DEF B!Drop
<1>7. drops' = (drops \ {d}) \cup {e}
  BY <1>1, <1>4, <1>5 DEF B!Replace
<1>8. diary' \in [Booking -> B!Place \cup {Unseen}]
  BY <1>2, <1>4 DEF MindInv, B!TypeOK, B!Place
<1>9. /\ \A c \in Booking \ {b} : (B!Drawn[c])' = B!Drawn[c]
      /\ (B!Drawn[b])' = IF st = "done" THEN d.to ELSE B!Drawn[b]
  BY <1>2, <1>4 DEF MindInv, B!TypeOK, B!Drawn
<1>10. d \in B!Dropped(b)
  BY <1>3 DEF B!Dropped
<1>11. ASSUME NEW c \in Booking \ {b} PROVE Follows(c)'
  <2>1. B!Dropped(c)' = B!Dropped(c)
    BY <1>3, <1>6, <1>7 DEF B!Dropped
  <2> QED  BY <1>2, <1>9, <2>1, StillFollows DEF MindInv
<1>12. Follows(b)'
  <2>1. b \notin stale => fetch.pc # "read"
    BY <1>10 DEF MindInv, Follows
  <2>2. ASSUME b \notin stale, fetch.pc = "none"
        PROVE  /\ B!Dropped(b) = {d} /\ shown[b] = d.to /\ B!Drawn[b] = d.from
    BY <1>2, <1>10, <2>2 DEF MindInv, Follows
  <2>3. ASSUME b \notin stale, fetch.pc = "none"
        PROVE  B!Dropped(b)' = {e} /\ e \in drops'
    BY <1>3, <1>6, <1>7, <2>2, <2>3 DEF B!Dropped
  <2> QED  BY <1>2, <1>6, <1>9, <2>1, <2>2, <2>3 DEF Follows
<1>13. drops' \subseteq B!Drop
  BY <1>6, <1>7 DEF MindInv, B!TypeOK
<1> QED  BY <1>2, <1>8, <1>11, <1>12, <1>13, MapStep DEF MindInv, B!TypeOK

LEMMA ReplacedSave ==
  ASSUME MindInv, NEW s \in saves, NEW st \in {"done", "refused"},
         saves' = B!Replace(saves, s, st)
  PROVE  /\ saves' \subseteq B!SaveCall
         /\ \A x \in saves' : \E r \in saves : /\ x.kind = r.kind /\ x.astray = r.astray
                                               /\ x.to = r.to /\ x.day = r.day
<1>1. PICK e : e = [s EXCEPT !.state = st]
  OBVIOUS
<1>2. s \in B!SaveCall
  BY DEF MindInv, B!TypeOK
<1>3. e \in B!SaveCall /\ e.kind = s.kind /\ e.astray = s.astray /\ e.to = s.to /\ e.day = s.day
  BY <1>1, <1>2 DEF B!SaveCall
<1> QED  BY <1>1, <1>3 DEF B!Replace, MindInv, B!TypeOK

\* What changes at the server without the calendar is behind its back.
LEMMA BehindItsBack ==
  ASSUME MindInv, NEW after \in [Booking -> B!Place \cup {Unseen}], diary' = after,
         stale' = stale \cup {b \in Booking : after[b] # diary[b]},
         UNCHANGED <<shown, fetch, drops>>
  PROVE  stale' \subseteq Booking /\ \A b \in Booking : Follows(b)'
<1>1. ASSUME NEW b \in Booking PROVE Follows(b)'
  <2>1. CASE b \in stale'
    BY <2>1 DEF Follows
  <2>2. CASE b \notin stale'
    <3>1. (B!Drawn[b])' = B!Drawn[b] /\ B!Dropped(b)' = B!Dropped(b)
      BY <2>2 DEF B!Drawn, B!Dropped
    <3> QED  BY <3>1, StillFollows DEF MindInv
  <2> QED  BY <2>1, <2>2
<1> QED  BY <1>1 DEF MindInv, B!TypeOK

LEMMA ChangeHolds ==
  ASSUME MindInv, NEW s \in saves, NEW after \in [Booking -> B!Place \cup {Unseen}],
         B!Change(s, after)
  PROVE  MindInv'
<1>1. /\ diary' = after /\ saves' = B!Replace(saves, s, "done")
      /\ stale' = stale \cup {b \in Booking : after[b] # diary[b]}
      /\ UNCHANGED <<shown, fetch, dialog, lists, drops>>
  BY DEF B!Change, B!Calendar, B!TheForm
<1>2. stale' \subseteq Booking /\ \A b \in Booking : Follows(b)'
  BY <1>1, BehindItsBack
<1>3. /\ saves' \subseteq B!SaveCall
      /\ \A x \in saves' : \E r \in saves : /\ x.kind = r.kind /\ x.astray = r.astray
                                            /\ x.to = r.to /\ x.day = r.day
  BY <1>1, ReplacedSave
<1> QED  BY <1>1, <1>2, <1>3, MapStep DEF MindInv, B!TypeOK

LEMMA RefusedHolds ==
  ASSUME MindInv, NEW s \in saves, B!Refuse(s)
  PROVE  MindInv'
<1>1. /\ saves' = B!Replace(saves, s, "refused")
      /\ UNCHANGED <<diary, shown, fetch, stale, dialog, lists, drops>>
  BY DEF B!Refuse, B!Calendar, B!TheForm
<1>2. ASSUME NEW b \in Booking PROVE Follows(b)'
  <2>1. B!Dropped(b)' = B!Dropped(b) /\ (B!Drawn[b])' = B!Drawn[b]
    BY <1>1 DEF B!Dropped, B!Drawn
  <2> QED  BY <1>1, <2>1, StillFollows DEF MindInv
<1>3. /\ saves' \subseteq B!SaveCall
      /\ \A x \in saves' : \E r \in saves : /\ x.kind = r.kind /\ x.astray = r.astray
                                            /\ x.to = r.to /\ x.day = r.day
  BY <1>1, ReplacedSave
<1> QED  BY <1>1, <1>2, <1>3, MapStep DEF MindInv, B!TypeOK

LEMMA ServesHold ==
  ASSUME MindInv, B!Assumptions, NEW s \in saves,
         B!ServeCreate(s) \/ B!ServeMove(s) \/ B!ServeCancel(s)
  PROVE  MindInv'
<1>1. s.booking \in Booking \cup {Anyone} /\ s.to \in B!Place
  BY DEF MindInv, B!TypeOK, B!SaveCall
<1>2. diary \in [Booking -> B!Place \cup {Unseen}]
  BY DEF MindInv, B!TypeOK
<1>3. ASSUME NEW b, NEW t \in B!Place \cup {Unseen}
      PROVE  [diary EXCEPT ![b] = t] \in [Booking -> B!Place \cup {Unseen}]
  BY <1>2
<1>4. CASE B!ServeCreate(s)
  BY <1>1, <1>3, <1>4, ChangeHolds, RefusedHolds DEF B!ServeCreate
<1>5. CASE B!ServeMove(s)
  <2>1. PICK result \in B!RescheduleBooking(s.booking, s.to) :
          IF result[2] = "done" THEN B!Change(s, result[1]) ELSE B!Refuse(s)
    BY <1>5 DEF B!ServeMove
  <2>2. CASE result[2] = "done"
    <3>1. result[1] = [diary EXCEPT ![s.booking] = s.to]
      BY <1>1, <2>2, ResultsAre
    <3>2. result[1] \in [Booking -> B!Place \cup {Unseen}]
      BY <1>1, <1>3, <3>1
    <3> QED  BY <2>1, <2>2, <3>2, ChangeHolds
  <2>3. CASE result[2] # "done"
    BY <2>1, <2>3, RefusedHolds
  <2> QED  BY <2>2, <2>3
<1>6. CASE B!ServeCancel(s)
  BY <1>3, <1>6, ChangeHolds DEF B!ServeCancel
<1> QED  BY <1>4, <1>5, <1>6

LEMMA ElsewhereHolds ==
  ASSUME MindInv, NEW b \in Booking, NEW t \in Slot \cup {Unseen}, B!Elsewhere(b, t)
  PROVE  MindInv'
<1>1. /\ diary' = [diary EXCEPT ![b] = t] /\ stale' = stale \cup {b} /\ t # diary[b]
      /\ UNCHANGED <<shown, fetch, dialog, lists, drops, saves>>
  BY DEF B!Elsewhere, B!Calendar, B!TheForm
<1>2. PICK after \in [Booking -> B!Place \cup {Unseen}] : after = [diary EXCEPT ![b] = t]
  BY DEF MindInv, B!TypeOK, B!Place
<1>3. {c \in Booking : after[c] # diary[c]} = {b}
  BY <1>1, <1>2 DEF MindInv, B!TypeOK
<1>4. stale' \subseteq Booking /\ \A c \in Booking : Follows(c)'
  BY <1>1, <1>2, <1>3, BehindItsBack
<1> QED  BY <1>1, <1>2, <1>4, MapStep DEF MindInv, B!TypeOK

LEMMA SendsHold ==
  ASSUME MindInv, B!Save \/ B!CancelBooking
  PROVE  MindInv'
<1>1. CASE B!Save
  <2>1. PICK kind \in {"create", "move"} : B!Send(kind, dialog.picked)
    <3>1. PICK kind : kind = IF dialog.mode = "edit" THEN "move" ELSE "create"
      OBVIOUS
    <3> QED  BY <1>1, <3>1 DEF B!Save
  <2>2. dialog.picked \in B!Place
    BY MindFields DEF MindInv
  <2> QED  BY <1>1, <2>1, <2>2, SendHolds DEF B!Save
<1>2. CASE B!CancelBooking
  BY <1>2, SendHolds DEF B!CancelBooking, B!Place
<1> QED  BY <1>1, <1>2

LEMMA MindMoves == MindInv /\ B!Assumptions /\ B!Next => MindInv'
<1> SUFFICES ASSUME MindInv, B!Assumptions, B!Next PROVE MindInv'  OBVIOUS
<1>1. ASSUME B!Refetch \/ B!ListBookings \/ B!Draw \/ B!FetchFails PROVE MindInv'
  BY <1>1, FetchesHold
<1>2. ASSUME NEW b \in Booking,
             \/ \E t \in Slot : B!HandleDrop(b, t)
             \/ \E t \in Slot \cup {Unseen} : B!Elsewhere(b, t)
             \/ \E d \in Day : B!EditBooking(b, d)
      PROVE  MindInv'
  BY <1>2, HandleDropHolds, ElsewhereHolds, OpenFormHolds DEF B!EditBooking
<1>3. ASSUME NEW d \in drops, B!DropStored(d) \/ B!DropRefused(d) \/ B!ServeDrop(d)
      PROVE  MindInv'
  BY <1>3, DropAnswersHold, ServeDropHolds
<1>4. ASSUME NEW d \in Day,
             B!NewBooking(d) \/ B!Choose(d) \/ B!TimesListed(d) \/ B!TimesFailed(d)
      PROVE  MindInv'
  BY <1>4, OpenFormHolds, ChooseDayHolds, TimesHold DEF B!NewBooking
<1>5. ASSUME B!Save \/ B!CancelBooking \/ B!CloseForm PROVE MindInv'
  BY <1>5, SendsHold, CloseHolds
<1>6. ASSUME NEW s \in saves,
             \/ B!Saved(s) \/ B!SaveFailed(s)
             \/ B!ServeCreate(s) \/ B!ServeMove(s) \/ B!ServeCancel(s)
      PROVE  MindInv'
  BY <1>6, SavedHolds, SaveFailedHolds, ServesHold
<1> QED  BY <1>1, <1>2, <1>3, <1>4, <1>5, <1>6, PickHolds DEF B!Next

LEMMA MindStands == MindInv /\ UNCHANGED minding => MindInv'
<1> SUFFICES ASSUME MindInv, UNCHANGED minding PROVE MindInv'  OBVIOUS
<1>1. UNCHANGED <<diary, shown, stale, fetch, drops, dialog, lists, saves>>
  BY DEF minding
<1>2. ASSUME NEW b \in Booking PROVE Follows(b)'
  <2>1. B!Dropped(b)' = B!Dropped(b) /\ (B!Drawn[b])' = B!Drawn[b]
    BY <1>1 DEF B!Dropped, B!Drawn
  <2> QED  BY <1>1, <2>1, StillFollows DEF MindInv
<1> QED  BY <1>1, <1>2, MapStep DEF MindInv, B!TypeOK

-----------------------------------------------------------------------------
(* Signing up.                                                             *)

\* What there is of an account is what its attempt has inserted.
Signed(a) ==
  /\ attempt[a].pc \in {"form", "business"} =>
       slug[a] = 0 /\ owner[a] = None /\ ~rest[a] /\ answer[a] # 201
  /\ attempt[a].pc \in {"owner", "undo"} =>
       slug[a] # 0 /\ owner[a] = None /\ ~rest[a] /\ answer[a] # 201
  /\ attempt[a].pc = "rest" => slug[a] # 0 /\ owner[a] # None
  /\ attempt[a].pc = "business" => attempt[a].slug # 0
  /\ attempt[a].pc = "over" =>
       \/ a \in cut
       \/ slug[a] # 0 /\ owner[a] # None /\ rest[a] /\ answer[a] = 201
       \/ slug[a] = 0 /\ owner[a] = None /\ ~rest[a] /\ answer[a] # 201

SignInv == N!TypeOK /\ cut \subseteq Attempt /\ \A a \in Attempt : Signed(a)

LEMMA SignPromise == SignInv => N!WholeAccounts
BY DEF SignInv, Signed, N!WholeAccounts

\* A set of natural numbers that is not empty has a least one.
LEMMA Least ==
  ASSUME NEW T \in SUBSET Nat, T # {}
  PROVE  \E n \in T : \A k \in T : n <= k
<1>1. PICK R : R = {ss \in Nat \X Nat : ss[1] < ss[2]}
  OBVIOUS
<1>2. IsWellFoundedOn(R, Nat)
  BY <1>1, NatLessThanWellFounded DEF OpToRel
<1>3. PICK n \in T : \A k \in T : ~(<<k, n>> \in R)
  BY <1>2, WFMin
<1>4. ASSUME NEW k \in T PROVE n <= k
  <2>1. <<k, n>> \in Nat \X Nat /\ n \in Nat /\ k \in Nat
    OBVIOUS
  <2>2. ~(k < n)
    BY <1>1, <1>3, <2>1
  <2> QED  BY <2>1, <2>2
<1> QED  BY <1>4

\* There is a name for every attempt.
LEMMA SomeNameIsFree ==
  ASSUME N!TypeOK, N!Assumptions
  PROVE  \E n \in 1..MaxSlug : n \notin N!Taken
<1>1. IsFiniteSet(Attempt) /\ MaxSlug \in Nat /\ MaxSlug > Cardinality(Attempt)
  BY DEF N!Assumptions, N!IsFiniteSet, IsFiniteSet, N!Cardinality, Cardinality
<1>2. IsFiniteSet(N!Taken) /\ Cardinality(N!Taken) <= Cardinality(Attempt)
  <2>1. PICK T : T = {slug[a] : a \in Attempt}
    OBVIOUS
  <2>2. IsFiniteSet(T) /\ Cardinality(T) <= Cardinality(Attempt)
    <3>1. slug \in [Attempt -> T] /\ \A t \in T : \E a \in Attempt : slug[a] = t
      BY <2>1 DEF N!TypeOK
    <3>2. slug \in Surjection(Attempt, T)
      BY <3>1 DEF Surjection
    <3> QED  BY <1>1, <3>2, FS_Surjection
  <2>3. N!Taken \subseteq T
    BY <2>1 DEF N!Taken
  <2>4. IsFiniteSet(N!Taken) /\ Cardinality(N!Taken) <= Cardinality(T)
    BY <2>2, <2>3, FS_Subset
  <2> QED  BY <1>1, <2>2, <2>4, FS_CardinalityType
<1>3. Cardinality(1..MaxSlug) = MaxSlug
  BY <1>1, FS_Interval
<1>4. ASSUME 1..MaxSlug \subseteq N!Taken PROVE FALSE
  <2>1. Cardinality(1..MaxSlug) <= Cardinality(N!Taken)
    BY <1>2, <1>4, FS_Subset
  <2> QED  BY <1>1, <1>2, <1>3, <2>1, FS_CardinalityType
<1> QED  BY <1>4

LEMMA SignStarts == N!Assumptions /\ N!Init => SignInv
<1> SUFFICES ASSUME N!Assumptions, N!Init PROVE SignInv  OBVIOUS
<1>1. MaxSlug \in Nat
  BY DEF N!Assumptions
<1>2. N!Blank \in N!AttemptState /\ N!Blank.pc = "form"
  BY <1>1 DEF N!Blank, N!AttemptState
<1>3. N!TypeOK
  BY <1>1, <1>2 DEF N!Init, N!TypeOK
<1> QED  BY <1>2, <1>3 DEF SignInv, Signed, N!Init

\* A step of one attempt.
Attempts(a, new) ==
  /\ attempt' = [attempt EXCEPT ![a] = new]
  /\ \A b \in Attempt \ {a} :
       UNCHANGED <<slug[b], owner[b], rest[b], answer[b]>>
  /\ cut' = cut \/ cut' = cut \cup {a}

LEMMA SignStep ==
  ASSUME SignInv, N!TypeOK', NEW a \in Attempt, NEW new, Attempts(a, new), Signed(a)'
  PROVE  SignInv'
<1>1. \A b \in Attempt \ {a} : attempt'[b] = attempt[b] /\ (b \in cut' <=> b \in cut)
  BY DEF SignInv, N!TypeOK, Attempts
<1>2. cut' \subseteq Attempt
  BY DEF SignInv, Attempts
<1>3. ASSUME NEW b \in Attempt \ {a} PROVE Signed(b)'
  <2>1. Signed(b)
    BY DEF SignInv
  <2>2. UNCHANGED <<slug[b], owner[b], rest[b], answer[b], attempt[b]>>
    BY <1>1 DEF Attempts
  <2> QED  BY <1>1, <2>1, <2>2 DEF Signed
<1> QED  BY <1>2, <1>3 DEF SignInv

LEMMA SignFields ==
  ASSUME SignInv, NEW a \in Attempt
  PROVE  /\ attempt[a] \in N!AttemptState /\ attempt[a].slug \in 0..MaxSlug
         /\ attempt[a].email \in Thing \cup {None}
         /\ attempt[a].pc \in {"form", "business", "owner", "undo", "rest", "over"}
         /\ slug[a] \in 0..MaxSlug /\ owner[a] \in Thing \cup {None} /\ rest[a] \in BOOLEAN
         /\ answer[a] \in {0, 201, 409, 500} /\ Signed(a)
BY DEF SignInv, N!TypeOK, N!AttemptState

\* Where an attempt goes.
LEMMA GoneTo ==
  ASSUME SignInv, NEW a \in Attempt,
         NEW p \in {"owner", "undo", "rest", "over"}, N!Goto(a, p)
  PROVE  \E new \in N!AttemptState : new.pc = p /\ attempt' = [attempt EXCEPT ![a] = new]
<1>1. PICK new : new = [attempt[a] EXCEPT !.pc = p]
  OBVIOUS
<1>2. new \in N!AttemptState /\ new.pc = p
  BY <1>1, SignFields DEF N!AttemptState
<1>3. attempt' = [attempt EXCEPT ![a] = new]
  BY <1>1 DEF N!Goto
<1> QED  BY <1>2, <1>3

LEMMA SignUpHolds ==
  ASSUME SignInv, N!Assumptions, NEW a \in Attempt, NEW e \in Thing, N!Submit(a, e)
  PROVE  SignInv'
<1>1. PICK free \in SUBSET Nat : free = {n \in 1..MaxSlug : n \notin N!Taken}
  <2>1. {n \in 1..MaxSlug : n \notin N!Taken} \in SUBSET Nat
    OBVIOUS
  <2> QED  BY <2>1
<1>2. PICK n \in free : n = CHOOSE m \in free : \A k \in free : m <= k
  <2>1. free # {}
    BY <1>1, SomeNameIsFree DEF SignInv
  <2>2. \E m \in free : \A k \in free : m <= k
    BY <2>1, Least
  <2> QED  BY <2>2
<1>3. PICK new : new = [pc |-> "business", email |-> e, slug |-> n]
  OBVIOUS
<1>4. n \in 0..MaxSlug /\ n # 0
  BY <1>1 DEF N!Assumptions
<1>5. new \in N!AttemptState /\ new.pc = "business" /\ new.slug = n
  BY <1>3, <1>4 DEF N!AttemptState
<1>6. attempt' = [attempt EXCEPT ![a] = new] /\ attempt[a].pc = "form"
      /\ UNCHANGED <<slug, owner, rest, answer, cut>>
  BY <1>1, <1>2, <1>3 DEF N!Submit
<1>7. N!TypeOK' /\ attempt'[a] = new
  BY <1>5, <1>6 DEF SignInv, N!TypeOK
<1>8. Signed(a)'
  BY <1>4, <1>5, <1>6, <1>7, SignFields DEF Signed
<1> QED  BY <1>6, <1>7, <1>8, SignStep DEF Attempts

LEMMA InsertBusinessHolds ==
  ASSUME SignInv, N!Assumptions, NEW a \in Attempt, N!InsertBusiness(a)
  PROVE  SignInv'
<1>1. attempt[a].pc = "business" /\ UNCHANGED <<owner, rest, cut>>
  BY DEF N!InsertBusiness
<1>2. CASE attempt[a].slug \in N!Taken
  <2>1. PICK new \in N!AttemptState : new.pc = "over" /\ attempt' = [attempt EXCEPT ![a] = new]
    BY <1>2, GoneTo DEF N!InsertBusiness
  <2>2. slug' = slug /\ answer' = [answer EXCEPT ![a] = 500]
    BY <1>2 DEF N!InsertBusiness, N!Tell
  <2>3. /\ N!TypeOK' /\ attempt'[a] = new /\ answer'[a] = 500
        /\ \A b \in Attempt \ {a} : answer'[b] = answer[b]
    BY <1>1, <2>1, <2>2 DEF SignInv, N!TypeOK
  <2>4. Signed(a)'
    BY <1>1, <2>1, <2>2, <2>3, SignFields DEF Signed
  <2>5. Attempts(a, new)
    BY <1>1, <2>1, <2>2, <2>3 DEF Attempts
  <2> QED  BY <2>3, <2>4, <2>5, SignStep
<1>3. CASE attempt[a].slug \notin N!Taken
  <2>1. PICK new \in N!AttemptState : new.pc = "owner" /\ attempt' = [attempt EXCEPT ![a] = new]
    BY <1>3, GoneTo DEF N!InsertBusiness
  <2>2. slug' = [slug EXCEPT ![a] = attempt[a].slug] /\ answer' = answer
    BY <1>3 DEF N!InsertBusiness
  <2>3. /\ N!TypeOK' /\ attempt'[a] = new /\ slug'[a] = attempt[a].slug
        /\ \A b \in Attempt \ {a} : slug'[b] = slug[b]
    BY <1>1, <2>1, <2>2, SignFields DEF SignInv, N!TypeOK
  <2>4. Signed(a)'
    BY <1>1, <2>1, <2>2, <2>3, SignFields DEF Signed
  <2> QED  BY <1>1, <2>1, <2>2, <2>3, <2>4, SignStep DEF Attempts
<1> QED  BY <1>2, <1>3

LEMMA InsertOwnerHolds ==
  ASSUME SignInv, N!Assumptions, NEW a \in Attempt, N!InsertOwner(a)
  PROVE  SignInv'
<1>1. attempt[a].pc = "owner" /\ UNCHANGED <<slug, rest, answer, cut>>
  BY DEF N!InsertOwner
<1>2. CASE \E b \in Attempt : owner[b] = attempt[a].email
  <2>1. PICK new \in N!AttemptState : new.pc = "undo" /\ attempt' = [attempt EXCEPT ![a] = new]
    BY <1>2, GoneTo DEF N!InsertOwner
  <2>2. owner' = owner
    BY <1>2 DEF N!InsertOwner
  <2>3. N!TypeOK' /\ attempt'[a] = new
    BY <1>1, <2>1, <2>2 DEF SignInv, N!TypeOK
  <2>4. Signed(a)'
    BY <1>1, <2>1, <2>2, <2>3, SignFields DEF Signed
  <2> QED  BY <1>1, <2>1, <2>2, <2>3, <2>4, SignStep DEF Attempts
<1>3. CASE ~\E b \in Attempt : owner[b] = attempt[a].email
  <2>1. PICK new \in N!AttemptState : new.pc = "rest" /\ attempt' = [attempt EXCEPT ![a] = new]
    BY <1>3, GoneTo DEF N!InsertOwner
  <2>2. owner' = [owner EXCEPT ![a] = attempt[a].email]
    BY <1>1, <1>3 DEF N!InsertOwner
  <2>3. attempt[a].email # None
    BY <1>1, <1>3, SignFields DEF Signed
  <2>4. /\ N!TypeOK' /\ attempt'[a] = new /\ owner'[a] = attempt[a].email
        /\ \A b \in Attempt \ {a} : owner'[b] = owner[b]
    BY <1>1, <2>1, <2>2, SignFields DEF SignInv, N!TypeOK
  <2>5. Signed(a)'
    BY <1>1, <2>1, <2>2, <2>3, <2>4, SignFields DEF Signed
  <2> QED  BY <1>1, <2>1, <2>2, <2>4, <2>5, SignStep DEF Attempts
<1> QED  BY <1>2, <1>3

LEMMA OthersSignHold ==
  ASSUME SignInv, N!Assumptions, NEW a \in Attempt,
         N!Undo(a) \/ N!InsertRest(a) \/ N!OwnerFails(a) \/ N!Fails(a)
  PROVE  SignInv'
<1>1. CASE N!Undo(a)
  <2>1. PICK new \in N!AttemptState : new.pc = "over" /\ attempt' = [attempt EXCEPT ![a] = new]
    BY <1>1, GoneTo DEF N!Undo
  <2>2. PICK x \in {409, 500} : answer' = [answer EXCEPT ![a] = x]
    BY <1>1 DEF N!Undo, N!Tell
  <2>3. /\ slug' = [slug EXCEPT ![a] = 0] /\ UNCHANGED <<owner, rest, cut>> /\ 0 \in 0..MaxSlug
        /\ attempt[a].pc = "undo"
    BY <1>1 DEF N!Undo, N!Undone, N!Assumptions
  <2>4. /\ N!TypeOK' /\ attempt'[a] = new /\ slug'[a] = 0 /\ answer'[a] = x
        /\ \A b \in Attempt \ {a} : slug'[b] = slug[b] /\ answer'[b] = answer[b]
    BY <2>1, <2>2, <2>3 DEF SignInv, N!TypeOK
  <2>5. Signed(a)'
    BY <2>1, <2>2, <2>3, <2>4, SignFields DEF Signed
  <2> QED  BY <2>1, <2>2, <2>3, <2>4, <2>5, SignStep DEF Attempts
<1>2. CASE N!InsertRest(a)
  <2>1. PICK new \in N!AttemptState : new.pc = "over" /\ attempt' = [attempt EXCEPT ![a] = new]
    BY <1>2, GoneTo DEF N!InsertRest
  <2>2. /\ rest' = [rest EXCEPT ![a] = TRUE] /\ answer' = [answer EXCEPT ![a] = 201]
        /\ UNCHANGED <<slug, owner, cut>> /\ attempt[a].pc = "rest"
    BY <1>2 DEF N!InsertRest, N!Tell
  <2>3. /\ N!TypeOK' /\ attempt'[a] = new /\ rest'[a] /\ answer'[a] = 201
        /\ \A b \in Attempt \ {a} : rest'[b] = rest[b] /\ answer'[b] = answer[b]
    BY <2>1, <2>2 DEF SignInv, N!TypeOK
  <2>4. Signed(a)'
    BY <2>1, <2>2, <2>3, SignFields DEF Signed
  <2>5. Attempts(a, new)
    BY <2>1, <2>2, <2>3 DEF Attempts
  <2> QED  BY <2>3, <2>4, <2>5, SignStep
<1>3. CASE N!OwnerFails(a)
  <2>1. PICK new \in N!AttemptState : new.pc = "undo" /\ attempt' = [attempt EXCEPT ![a] = new]
    BY <1>3, GoneTo DEF N!OwnerFails
  <2>2. UNCHANGED <<slug, owner, rest, answer, cut>> /\ attempt[a].pc = "owner"
    BY <1>3 DEF N!OwnerFails
  <2>3. N!TypeOK' /\ attempt'[a] = new
    BY <2>1, <2>2 DEF SignInv, N!TypeOK
  <2>4. Signed(a)'
    BY <2>1, <2>2, <2>3, SignFields DEF Signed
  <2>5. Attempts(a, new)
    BY <2>1, <2>2 DEF Attempts
  <2> QED  BY <2>3, <2>4, <2>5, SignStep
<1>4. CASE N!Fails(a)
  <2>1. PICK new \in N!AttemptState : new.pc = "over" /\ attempt' = [attempt EXCEPT ![a] = new]
    BY <1>4, GoneTo DEF N!Fails
  <2>2. PICK x \in {0, 500} : answer' = [answer EXCEPT ![a] = x]
    BY <1>4 DEF N!Fails, N!Tell
  <2>3. cut' = cut \cup {a} /\ UNCHANGED <<slug, owner, rest>>
    BY <1>4 DEF N!Fails
  <2>4. /\ N!TypeOK' /\ attempt'[a] = new
        /\ \A b \in Attempt \ {a} : answer'[b] = answer[b]
    BY <2>1, <2>2, <2>3 DEF SignInv, N!TypeOK
  <2>5. Signed(a)'
    BY <2>1, <2>3, <2>4 DEF Signed
  <2> QED  BY <2>1, <2>2, <2>3, <2>4, <2>5, SignStep DEF Attempts
<1> QED  BY <1>1, <1>2, <1>3, <1>4

\* An account with an owner has a name already.
LEMMA RenameHolds ==
  ASSUME SignInv, N!Assumptions, NEW a \in Attempt, NEW n \in 1..MaxSlug, N!Rename(a, n)
  PROVE  SignInv'
<1>1. /\ owner[a] # None /\ slug' = [slug EXCEPT ![a] = n] /\ n # 0 /\ n \in 0..MaxSlug
      /\ UNCHANGED <<owner, rest, attempt, answer, cut>>
  BY DEF N!Rename, N!Assumptions
<1>2. attempt' = [attempt EXCEPT ![a] = attempt[a]]
  BY <1>1 DEF SignInv, N!TypeOK
<1>3. /\ N!TypeOK' /\ slug'[a] = n
      /\ \A b \in Attempt \ {a} : slug'[b] = slug[b]
  BY <1>1 DEF SignInv, N!TypeOK
<1>4. Signed(a)'
  BY <1>1, <1>3, SignFields DEF Signed
<1> QED  BY <1>1, <1>2, <1>3, <1>4, SignStep DEF Attempts

LEMMA SignMoves == SignInv /\ N!Assumptions /\ N!Next => SignInv'
BY SignUpHolds, InsertBusinessHolds, InsertOwnerHolds, OthersSignHold, RenameHolds DEF N!Next

LEMMA SignStands == SignInv /\ UNCHANGED signing => SignInv'
BY DEF SignInv, Signed, signing, N!TypeOK

-----------------------------------------------------------------------------
(* An account's end.                                                       *)

\* Who is suspended by a person is let in nowhere, and has no reason to be let go.
HoldInv ==
  held /\ ~overtaken =>
    /\ status = "suspended" /\ reason = A!NoReason
    /\ \A r \in Actor : visit[r] \notin {"close", "restore"}

\* One purchase at a time.
NumberWork == {"find number", "buy number", "store number"}

NumberInv ==
  ~mishap =>
    /\ bought <= 1
    /\ exists /\ bought = 1 => number = 1 \/ \E r \in Actor : visit[r] = "store number"
    /\ \A r \in Actor : visit[r] = "find number" => bought = 0
    /\ \A r \in Actor : visit[r] = "store number" => bought = 1
    /\ \A q, r \in Actor : visit[q] \in NumberWork /\ visit[r] \in NumberWork => q = r

\* While the account may still go, what is left is still to be deleted.
LeftInv ==
  ~late =>
    /\ removal # {} \/ ~exists => \A r \in Actor : visit[r] # "insert"
    /\ "businesses" \in removal => rows \subseteq removal
    /\ ~exists => removal = {} /\ rows = {}

CloseInv ==
  /\ A!TypeOK /\ held \in BOOLEAN /\ overtaken \in BOOLEAN /\ mishap \in BOOLEAN
  /\ late \in BOOLEAN /\ HoldInv /\ NumberInv /\ LeftInv

LEMMA ClosePromises == CloseInv => A!HoldStands /\ A!NumberPaidOnce /\ A!NothingLeft
BY DEF CloseInv, HoldInv, NumberInv, LeftInv, A!HoldStands, A!NumberPaidOnce, A!NothingLeft

LEMMA CloseStarts == A!Assumptions /\ A!Init => CloseInv
<1> SUFFICES ASSUME A!Assumptions, A!Init PROVE CloseInv  OBVIOUS
<1>1. /\ exists = TRUE /\ status = "active" /\ reason = "none" /\ closed = FALSE /\ number = 0
      /\ rows = Owned /\ visit = [r \in Actor |-> "none"] /\ removal = {}
      /\ seen = [who \in {"owner", "platform"} |-> "active"] /\ bought = 0
      /\ held = FALSE /\ overtaken = FALSE /\ mishap = FALSE /\ late = FALSE
      /\ MaxNumbers \in Nat
  BY DEF A!Init, A!NoReason, A!Assumptions
<1>2. A!TypeOK
  <2>1. visit \in [Actor -> A!Kind] /\ seen \in [{"owner", "platform"} -> A!Status]
    BY <1>1 DEF A!Kind, A!Status
  <2>2. number \in 0..MaxNumbers /\ bought \in 0..MaxNumbers
    BY <1>1
  <2>3. rows \subseteq Owned /\ removal \subseteq Owned \cup {"businesses"}
    BY <1>1
  <2>4. exists \in BOOLEAN /\ closed \in BOOLEAN /\ status \in A!Status
    BY <1>1 DEF A!Status
  <2>5. reason \in {A!NoReason, "billing"}
    BY <1>1 DEF A!NoReason
  <2> QED  BY <2>1, <2>2, <2>3, <2>4, <2>5 DEF A!TypeOK
<1>3. \A r \in Actor : visit[r] = "none"
  BY <1>1
<1>4. HoldInv
  BY <1>1 DEF HoldInv
<1>5. NumberInv
  BY <1>1, <1>3 DEF NumberInv, NumberWork
<1>6. LeftInv
  BY <1>1, <1>3 DEF LeftInv
<1> QED  BY <1>1, <1>2, <1>4, <1>5, <1>6 DEF CloseInv

LEMMA CloseFields ==
  ASSUME CloseInv, A!Assumptions
  PROVE  /\ exists \in BOOLEAN /\ status \in A!Status /\ reason \in {"none", "billing"}
         /\ closed \in BOOLEAN /\ number \in 0..MaxNumbers /\ bought \in 0..MaxNumbers
         /\ MaxNumbers \in Nat /\ bought \in Nat /\ number \in Nat
         /\ rows \subseteq Owned /\ removal \subseteq Owned \cup {"businesses"}
         /\ "businesses" \notin Owned
         /\ visit \in [Actor -> A!Kind] /\ seen \in [{"owner", "platform"} -> A!Status]
         /\ held \in BOOLEAN /\ overtaken \in BOOLEAN /\ mishap \in BOOLEAN /\ late \in BOOLEAN
         /\ HoldInv /\ NumberInv /\ LeftInv
BY DEF CloseInv, A!TypeOK, A!Assumptions, A!NoReason

\* A request that goes on.
LEMMA Going ==
  ASSUME CloseInv, A!Assumptions, NEW r \in Actor, NEW p \in A!Kind, A!Goto(r, p)
  PROVE  /\ visit' \in [Actor -> A!Kind]
         /\ visit'[r] = p /\ \A q \in Actor \ {r} : visit'[q] = visit[q]
BY CloseFields DEF A!Goto

\* The parts that a step leaves alone.
HoldSame == UNCHANGED <<held, overtaken, status, reason>>
NumberSame == UNCHANGED <<mishap, bought, exists, number>>
LeftSame == UNCHANGED <<late, removal, exists, rows>>

LEMMA HoldStays ==
  ASSUME CloseInv, HoldSame,
         \A r \in Actor : visit'[r] = visit[r] \/ visit'[r] \notin {"close", "restore"}
  PROVE  HoldInv'
BY DEF CloseInv, HoldSame, HoldInv

LEMMA NumberStays ==
  ASSUME CloseInv, A!Assumptions, NumberSame,
         \A r \in Actor : \/ visit'[r] = visit[r]
                          \/ visit'[r] \notin NumberWork /\ visit[r] # "store number"
  PROVE  NumberInv'
<1>1. \A r \in Actor : visit'[r] \in NumberWork => visit'[r] = visit[r]
  OBVIOUS
<1>2. \A r \in Actor : visit[r] = "store number" => visit'[r] = "store number"
  OBVIOUS
<1> QED  BY <1>1, <1>2, CloseFields DEF NumberSame, NumberInv, NumberWork

LEMMA LeftStays ==
  ASSUME CloseInv, LeftSame,
         \A r \in Actor : visit'[r] = visit[r] \/ visit'[r] # "insert"
  PROVE  LeftInv'
BY DEF CloseInv, LeftSame, LeftInv

LEMMA ReviseHolds ==
  ASSUME CloseInv, A!Assumptions, NEW r \in Actor,
         \/ \E kind \in {"close", "restore"} : A!Presses(r, kind)
         \/ A!Close(r) \/ A!Restore(r)
  PROVE  CloseInv'
<1>1. /\ visit[r] \in {"none", "close", "restore"} /\ NumberSame /\ LeftSame
      /\ \E kind \in {"none", "close", "restore"} : A!Goto(r, kind)
      /\ UNCHANGED <<reason, held, overtaken, seen, charge>>
      /\ status' \in {status, "active", "deleted"} /\ closed' \in BOOLEAN
  BY CloseFields DEF A!Presses, A!Close, A!Restore, NumberSame, LeftSame, A!account, A!history
<1>2. PICK kind \in {"none", "close", "restore"} : A!Goto(r, kind)
  BY <1>1
<1>3. /\ visit' \in [Actor -> A!Kind] /\ visit'[r] = kind
      /\ \A q \in Actor \ {r} : visit'[q] = visit[q]
  BY <1>2, Going DEF A!Kind
<1>4. A!TypeOK'
  BY <1>1, <1>3 DEF CloseInv, A!TypeOK, NumberSame, LeftSame, A!Status
<1>5. ~(held /\ ~overtaken)
  <2>1. CASE \E k \in {"close", "restore"} : A!Presses(r, k)
    BY <2>1, CloseFields DEF A!Presses, A!LetIn, HoldInv
  <2>2. CASE A!Close(r) \/ A!Restore(r)
    BY <2>2, CloseFields DEF A!Close, A!Restore, HoldInv
  <2> QED  BY <2>1, <2>2
<1>6. HoldInv'
  BY <1>1, <1>5 DEF HoldInv
<1>7. NumberInv'
  BY <1>1, <1>3, NumberStays DEF NumberWork
<1>8. LeftInv'
  BY <1>1, <1>3, LeftStays
<1>9. UNCHANGED <<held, overtaken, mishap, late>>
  BY <1>1 DEF NumberSame, LeftSame
<1> QED  BY <1>4, <1>6, <1>7, <1>8, <1>9 DEF CloseInv

LEMMA AskNumberHolds ==
  ASSUME CloseInv, A!Assumptions, NEW r \in Actor, A!AskNumber(r)
  PROVE  CloseInv'
<1>1. /\ exists /\ number = 0 /\ visit[r] = "none" /\ A!Goto(r, "find number")
      /\ UNCHANGED <<exists, status, reason, closed, number, rows, removal, seen, bought,
                     charge, held, overtaken, late>>
      /\ mishap' = (mishap \/ \E q \in Actor : visit[q] \in NumberWork)
  BY DEF A!AskNumber, A!LetIn, A!NoNumber, A!account, NumberWork
<1>2. /\ visit' \in [Actor -> A!Kind] /\ visit'[r] = "find number"
      /\ \A q \in Actor \ {r} : visit'[q] = visit[q]
  BY <1>1, Going DEF A!Kind
<1>3. A!TypeOK'
  BY <1>1, <1>2 DEF CloseInv, A!TypeOK
<1>4. HoldInv' /\ LeftInv'
  BY <1>1, <1>2, HoldStays, LeftStays DEF HoldSame, LeftSame
<1>5. NumberInv'
  <2> SUFFICES ASSUME ~mishap' PROVE NumberInv'  BY DEF NumberInv
  <2>1. ~mishap /\ \A q \in Actor : visit[q] \notin NumberWork
    BY <1>1
  <2>2. \A q \in Actor : visit[q] # "store number"
    BY <2>1 DEF NumberWork
  <2>3. bought <= 1 /\ bought # 1
    <3>1. NumberInv /\ exists /\ number = 0
      BY <1>1, CloseFields
    <3>2. bought <= 1 /\ (bought = 1 => number = 1)
      BY <2>1, <2>2, <3>1, Zenon DEF NumberInv
    <3> QED  BY <3>1, <3>2
  <2>4. bought = 0
    BY <2>3, CloseFields
  <2>5. \A p, q \in Actor : visit'[p] \in NumberWork /\ visit'[q] \in NumberWork => p = q
    BY <1>2, <2>1
  <2>6. \A q \in Actor : visit'[q] # "store number"
    BY <1>2, <2>2
  <2>7. bought' = bought
    BY <1>1
  <2>8. bought' = 0 /\ bought' <= 1 /\ bought' # 1
    BY <2>4, <2>7
  <2> QED  BY <2>5, <2>6, <2>8, Zenon DEF NumberInv
<1>6. mishap' \in BOOLEAN
  BY <1>1
<1> QED  BY <1>1, <1>3, <1>4, <1>5, <1>6 DEF CloseInv

LEMMA BuyNumberHolds ==
  ASSUME CloseInv, A!Assumptions, NEW r \in Actor, A!BuyNumber(r)
  PROVE  CloseInv'
<1>1. /\ visit[r] = "find number" /\ bought < MaxNumbers /\ bought' = bought + 1
      /\ A!Goto(r, "store number")
      /\ UNCHANGED <<exists, status, reason, closed, number, rows, removal, seen, charge, held,
                     overtaken, mishap, late>>
  BY DEF A!BuyNumber, A!account, A!history
<1>2. /\ visit' \in [Actor -> A!Kind] /\ visit'[r] = "store number"
      /\ \A q \in Actor \ {r} : visit'[q] = visit[q]
  BY <1>1, Going DEF A!Kind
<1>3. A!TypeOK'
  <2>1. bought' \in 0..MaxNumbers
    <3>1. bought \in Nat /\ MaxNumbers \in Nat /\ bought < MaxNumbers /\ bought' = bought + 1
      BY <1>1, CloseFields
    <3> QED  BY <3>1
  <2> QED  BY <1>1, <1>2, <2>1 DEF CloseInv, A!TypeOK
<1>4. HoldInv' /\ LeftInv'
  BY <1>1, <1>2, HoldStays, LeftStays DEF HoldSame, LeftSame
<1>5. NumberInv'
  <2> SUFFICES ASSUME ~mishap PROVE NumberInv'  BY <1>1 DEF NumberInv
  <2>1. bought = 0 /\ \A q \in Actor \ {r} : visit[q] \notin NumberWork
    BY <1>1, CloseFields DEF NumberInv, NumberWork
  <2>2. \A q \in Actor \ {r} : visit'[q] \notin NumberWork
    BY <1>2, <2>1
  <2>3. bought' = 1 /\ bought' <= 1
    <3>1. bought' = bought + 1
      BY <1>1
    <3> QED  BY <2>1, <3>1
  <2>4. \A q \in Actor : visit'[q] # "find number"
    BY <1>2, <2>2 DEF NumberWork
  <2>5. \A p, q \in Actor : visit'[p] \in NumberWork /\ visit'[q] \in NumberWork => p = q
    BY <2>2
  <2>6. \E q \in Actor : visit'[q] = "store number"
    BY <1>2
  <2> QED  BY <2>3, <2>4, <2>5, <2>6, Zenon DEF NumberInv
<1> QED  BY <1>1, <1>3, <1>4, <1>5 DEF CloseInv

LEMMA StoreNumberHolds ==
  ASSUME CloseInv, A!Assumptions, NEW r \in Actor, A!StoreNumber(r)
  PROVE  CloseInv'
<1>1. /\ visit[r] = "store number" /\ number' = IF exists THEN bought ELSE number
      /\ A!Goto(r, "none")
      /\ UNCHANGED <<exists, status, reason, closed, rows, removal, seen, bought, charge, held,
                     overtaken, mishap, late>>
  BY DEF A!StoreNumber, A!history
<1>2. /\ visit' \in [Actor -> A!Kind] /\ visit'[r] = "none"
      /\ \A q \in Actor \ {r} : visit'[q] = visit[q]
  BY <1>1, Going DEF A!Kind
<1>3. A!TypeOK'
  BY <1>1, <1>2 DEF CloseInv, A!TypeOK
<1>4. HoldInv' /\ LeftInv'
  BY <1>1, <1>2, HoldStays, LeftStays DEF HoldSame, LeftSame
<1>5. NumberInv'
  <2> SUFFICES ASSUME ~mishap PROVE NumberInv'  BY <1>1 DEF NumberInv
  <2>1. bought = 1 /\ \A q \in Actor \ {r} : visit[q] \notin NumberWork
    BY <1>1, CloseFields DEF NumberInv, NumberWork
  <2>2. \A q \in Actor : visit'[q] \notin NumberWork
    BY <1>2, <2>1 DEF NumberWork
  <2>3. bought' = 1 /\ (exists' => number' = 1)
    BY <1>1, <2>1
  <2>4. bought' <= 1
    BY <2>3
  <2>5. \A q \in Actor : visit'[q] # "find number"
    BY <2>2 DEF NumberWork
  <2> QED  BY <2>2, <2>3, <2>4, <2>5, Zenon DEF NumberInv
<1> QED  BY <1>1, <1>3, <1>4, <1>5 DEF CloseInv

LEMMA AbandonHolds ==
  ASSUME CloseInv, A!Assumptions, NEW r \in Actor, A!Abandon(r)
  PROVE  CloseInv'
<1>1. /\ mishap' = (mishap \/ visit[r] = "store number") /\ A!Goto(r, "none")
      /\ UNCHANGED <<exists, status, reason, closed, number, rows, removal, seen, bought,
                     charge, held, overtaken, late>>
  BY DEF A!Abandon, A!account
<1>2. /\ visit' \in [Actor -> A!Kind] /\ visit'[r] = "none"
      /\ \A q \in Actor \ {r} : visit'[q] = visit[q]
  BY <1>1, Going DEF A!Kind
<1>3. A!TypeOK'
  BY <1>1, <1>2 DEF CloseInv, A!TypeOK
<1>4. HoldInv' /\ LeftInv'
  BY <1>1, <1>2, HoldStays, LeftStays DEF HoldSame, LeftSame
<1>5. NumberInv'
  <2>1. CASE mishap'
    BY <2>1 DEF NumberInv
  <2>2. CASE ~mishap'
    <3>1. NumberSame /\ visit[r] # "store number"
      BY <1>1, <2>2, CloseFields DEF NumberSame
    <3> QED  BY <1>2, <3>1, NumberStays DEF NumberWork
  <2> QED  BY <2>1, <2>2
<1>6. mishap' \in BOOLEAN
  BY <1>1
<1> QED  BY <1>1, <1>3, <1>4, <1>5, <1>6 DEF CloseInv

LEMMA InsertsHold ==
  ASSUME CloseInv, A!Assumptions, NEW r \in Actor,
         A!StartInsert(r) \/ \E c \in Owned : A!Insert(r, c)
  PROVE  CloseInv'
<1>1. /\ UNCHANGED <<exists, status, reason, closed, number, removal, seen, bought, charge, held,
                     overtaken, mishap>>
      /\ \E p \in {"none", "insert"} : A!Goto(r, p)
      /\ visit[r] \in {"none", "insert"}
  BY DEF A!StartInsert, A!Insert, A!account, A!history
<1>2. PICK p \in {"none", "insert"} : A!Goto(r, p)
  BY <1>1
<1>3. /\ visit' \in [Actor -> A!Kind] /\ visit'[r] = p
      /\ \A q \in Actor \ {r} : visit'[q] = visit[q]
  BY <1>2, Going DEF A!Kind
<1>4. HoldInv' /\ NumberInv'
  BY <1>1, <1>3, HoldStays, NumberStays DEF HoldSame, NumberSame, NumberWork
<1>5. CASE A!StartInsert(r)
  <2>1. /\ exists /\ rows' = rows /\ late' = (late \/ removal # {})
    BY <1>5 DEF A!StartInsert, A!account
  <2>2. A!TypeOK' /\ late' \in BOOLEAN
    BY <1>1, <1>3, <2>1 DEF CloseInv, A!TypeOK
  <2>3. LeftInv'
    BY <1>1, <2>1 DEF CloseInv, LeftInv
  <2> QED  BY <1>1, <1>4, <2>2, <2>3 DEF CloseInv
<1>6. ASSUME NEW c \in Owned, A!Insert(r, c) PROVE CloseInv'
  <2>1. /\ visit[r] = "insert" /\ rows' = rows \cup {c} /\ late' = late /\ A!Goto(r, "none")
    BY <1>6 DEF A!Insert, A!history
  <2>2. visit'[r] = "none"
    BY <2>1, Going DEF A!Kind
  <2>3. A!TypeOK'
    BY <1>1, <1>3, <2>1 DEF CloseInv, A!TypeOK
  <2>4. ~late => removal = {} /\ exists
    BY <2>1, CloseFields DEF LeftInv
  <2>5. LeftInv'
    BY <1>1, <2>1, <2>4 DEF LeftInv
  <2> QED  BY <1>1, <1>4, <2>1, <2>3, <2>5 DEF CloseInv
<1> QED  BY <1>5, <1>6

LEMMA BillingHolds ==
  ASSUME CloseInv, A!Assumptions, A!Suspend \/ A!Paid \/ \E who \in {"owner", "platform"} : A!Load(who)
  PROVE  CloseInv'
<1>1. UNCHANGED <<exists, closed, number, rows, visit, removal, bought, held, mishap, late>>
  BY DEF A!Suspend, A!Paid, A!Load, A!account, A!history
<1>2. NumberInv' /\ LeftInv'
  BY <1>1, NumberStays, LeftStays DEF NumberSame, LeftSame
<1>3. CASE A!Suspend
  <2>1. /\ status' = "suspended" /\ reason' = "billing" /\ overtaken' = (overtaken \/ held)
        /\ seen' = seen
    BY <1>3 DEF A!Suspend
  <2>2. A!TypeOK' /\ HoldInv' /\ overtaken' \in BOOLEAN
    BY <1>1, <2>1 DEF CloseInv, A!TypeOK, HoldInv, A!Status
  <2> QED  BY <1>1, <1>2, <2>2 DEF CloseInv
<1>4. CASE A!Paid
  <2>1. /\ status' = IF exists /\ A!BillingHold THEN "active" ELSE status
        /\ reason' = IF exists /\ A!BillingHold THEN "none" ELSE reason
        /\ UNCHANGED <<overtaken, seen>>
    BY <1>4 DEF A!Paid, A!NoReason, A!history
  <2>2. A!TypeOK'
    BY <1>1, <2>1 DEF CloseInv, A!TypeOK, A!Status, A!NoReason
  <2>3. held /\ ~overtaken => ~A!BillingHold
    BY CloseFields DEF HoldInv, A!BillingHold, A!NoReason
  <2>4. HoldInv'
    BY <1>1, <2>1, <2>3, CloseFields DEF HoldInv
  <2> QED  BY <1>1, <1>2, <2>1, <2>2, <2>4 DEF CloseInv
<1>5. ASSUME NEW who \in {"owner", "platform"}, A!Load(who) PROVE CloseInv'
  <2>1. seen' = [seen EXCEPT ![who] = status] /\ UNCHANGED <<status, reason, overtaken>>
    BY <1>5 DEF A!Load, A!account, A!history
  <2>2. A!TypeOK'
    BY <1>1, <2>1 DEF CloseInv, A!TypeOK
  <2>3. HoldInv'
    BY <1>1, <2>1, HoldStays DEF HoldSame
  <2> QED  BY <1>1, <1>2, <2>1, <2>2, <2>3 DEF CloseInv
<1> QED  BY <1>3, <1>4, <1>5

LEMMA ToggleHolds ==
  ASSUME CloseInv, A!Assumptions, A!Toggle
  PROVE  CloseInv'
<1>1. /\ status' \in {"active", "suspended"} /\ reason' = "none"
      /\ held' = (status' = "suspended")
      /\ overtaken' = (\E r \in Actor : visit[r] \in {"close", "restore"})
      /\ UNCHANGED <<exists, closed, number, rows, visit, removal, seen, bought, charge, mishap,
                     late>>
  BY DEF A!Toggle, A!NoReason
<1>2. NumberInv' /\ LeftInv'
  BY <1>1, NumberStays, LeftStays DEF NumberSame, LeftSame
<1>3. A!TypeOK'
  BY <1>1 DEF CloseInv, A!TypeOK, A!Status, A!NoReason
<1>4. HoldInv'
  BY <1>1 DEF HoldInv, A!NoReason
<1>5. held' \in BOOLEAN /\ overtaken' \in BOOLEAN
  BY <1>1
<1> QED  BY <1>1, <1>2, <1>3, <1>4, <1>5 DEF CloseInv

LEMMA RemovalsHold ==
  ASSUME CloseInv, A!Assumptions,
         A!StartRemoval \/ A!RemoveAccount \/ \E c \in Owned : A!RemoveRows(c)
  PROVE  CloseInv'
<1>1. UNCHANGED <<status, reason, closed, number, visit, seen, bought, charge, held, overtaken,
                  mishap>>
  BY DEF A!StartRemoval, A!RemoveAccount, A!RemoveRows, A!account, A!history
<1>2. HoldInv'
  BY <1>1, HoldStays DEF HoldSame
<1>3. CASE A!StartRemoval
  <2>1. /\ exists /\ removal' = Owned \cup {"businesses"} /\ exists' = exists /\ rows' = rows
        /\ late' = (late \/ \E r \in Actor : visit[r] = "insert")
    BY <1>3 DEF A!StartRemoval, A!account
  <2>2. A!TypeOK' /\ late' \in BOOLEAN
    BY <1>1, <2>1 DEF CloseInv, A!TypeOK
  <2>3. NumberInv'
    BY <1>1, <2>1, NumberStays DEF NumberSame
  <2>4. LeftInv'
    BY <1>1, <2>1, CloseFields DEF LeftInv
  <2> QED  BY <1>1, <1>2, <2>2, <2>3, <2>4 DEF CloseInv
<1>4. CASE A!RemoveAccount
  <2>1. /\ "businesses" \in removal /\ removal = {"businesses"} /\ exists' = FALSE
        /\ removal' = {} /\ rows' = rows /\ late' = late
    BY <1>4 DEF A!RemoveAccount, A!RowsDone, A!history
  <2>2. A!TypeOK'
    BY <1>1, <2>1 DEF CloseInv, A!TypeOK
  <2>3. NumberInv'
    BY <1>1, <2>1, CloseFields DEF NumberInv
  <2>4. ~late => rows = {} /\ \A r \in Actor : visit[r] # "insert"
    BY <2>1, CloseFields DEF LeftInv
  <2>5. LeftInv'
    BY <1>1, <2>1, <2>4 DEF LeftInv
  <2> QED  BY <1>1, <1>2, <2>1, <2>2, <2>3, <2>5 DEF CloseInv
<1>5. ASSUME NEW c \in Owned, A!RemoveRows(c) PROVE CloseInv'
  <2>1. /\ c \in removal /\ exists' = exists /\ late' = late
        /\ \/ rows' = rows \ {c} /\ removal' = removal \ {c}
           \/ rows' = rows /\ removal' = removal \ {c, "businesses"}
    BY <1>5 DEF A!RemoveRows, A!account, A!history
  <2>2. A!TypeOK'
    BY <1>1, <2>1 DEF CloseInv, A!TypeOK
  <2>3. NumberInv'
    BY <1>1, <2>1, NumberStays DEF NumberSame
  <2>4. LeftInv'
    BY <1>1, <2>1, CloseFields DEF LeftInv
  <2> QED  BY <1>1, <1>2, <2>1, <2>2, <2>3, <2>4 DEF CloseInv
<1> QED  BY <1>3, <1>4, <1>5

LEMMA CloseMoves == CloseInv /\ A!Assumptions /\ A!Next => CloseInv'
BY ReviseHolds, AskNumberHolds, BuyNumberHolds, StoreNumberHolds, AbandonHolds, InsertsHold,
   BillingHolds, ToggleHolds, RemovalsHold DEF A!Next

LEMMA CloseStands == CloseInv /\ UNCHANGED closing => CloseInv'
<1> SUFFICES ASSUME CloseInv, UNCHANGED closing PROVE CloseInv'  OBVIOUS
<1>1. UNCHANGED <<exists, status, reason, closed, number, rows, visit, removal, seen, bought,
                  charge, held, overtaken, mishap, late>>
  BY DEF closing
<1>2. A!TypeOK'
  BY <1>1 DEF CloseInv, A!TypeOK
<1>3. HoldInv'
  BY <1>1 DEF CloseInv, HoldInv
<1>4. NumberInv'
  BY <1>1 DEF CloseInv, NumberInv
<1>5. LeftInv'
  BY <1>1 DEF CloseInv, LeftInv
<1> QED  BY <1>1, <1>2, <1>3, <1>4, <1>5 DEF CloseInv

-----------------------------------------------------------------------------
(* The setup guide.                                                        *)

\* Loads of the status are numbered; of the test calls one is of this page, one of others.
StepsInv ==
  /\ \A c \in steps :
       /\ c.n <= page.latest
       /\ c.kind \in {"send", "confirm"} => c.of \in Channel
       /\ c.kind = "test_call" => c.of \in {"none", "elsewhere"}
       /\ c.of = "elsewhere" => c.kind = "test_call"
  /\ \A c, d \in steps : c.kind = "status" /\ d.kind = "status" /\ c.n = d.n => c = d
  /\ \A c, d \in steps : c.kind = "test_call" /\ d.kind = "test_call" /\ c.of = d.of => c = d

\* Whoever was found ready still is.
ReadyInv ==
  /\ missing = {} \/ deleted
  /\ deleted \/ O!Required \subseteq done
     \/ \A c \in steps : ~(c.kind = "go_live" /\ c.state = "checked")

One(state) == IF state = "checked" THEN 1 ELSE 0

\* The test call of that side that may still ring.
Held(of) ==
  IF \E c \in steps : c.kind = "test_call" /\ c.of = of /\ c.state = "checked" THEN 1 ELSE 0

Waiting == Held("none") + Held("elsewhere")

\* A test call that may still ring has been counted, in this row or one written over.
RingInv ==
  /\ rang + Waiting <= tries + uncounted
  /\ rang + Waiting <= MaxTestCalls + uncounted
  /\ \A c \in steps : c.kind = "test_call" /\ c.state = "ringing" => rang > 0
  /\ "test_call" \in done => rang > 0

\* An answer after which the page loads the status again, or knows it to be out of date.
Owes(c) ==
  /\ c.of # "elsewhere"
  /\ \/ c.kind # "status" /\ c.state = "failed"
     \/ c.kind \notin {"status", "send"} /\ c.state = "ok"

Told(c) == c.kind = "status" /\ O!Newest(c)

StatusInv ==
  ~behind =>
    \/ \E c \in steps : Owes(c)
    \/ /\ \A c \in steps : Told(c) /\ c.state = "ok" => c.seen = done
       /\ page.loaded => page.status = done \/ \E c \in steps : Told(c)

GuideInv == O!TypeOK /\ StepsInv /\ ReadyInv /\ RingInv /\ StatusInv

LEMMA HeldIsOne == \A of : Held(of) \in {0, 1} /\ Held(of)' \in {0, 1}
BY DEF Held

LEMMA GuidePromises ==
  O!Assumptions /\ GuideInv => O!LiveWasReady /\ O!StatusIsStored /\ O!TestCallsAreFew
<1> SUFFICES ASSUME O!Assumptions, GuideInv PROVE O!LiveWasReady /\ O!StatusIsStored /\ O!TestCallsAreFew
  OBVIOUS
<1>1. O!LiveWasReady
  BY DEF GuideInv, ReadyInv, O!LiveWasReady
<1>2. O!StatusIsStored
  BY DEF GuideInv, StatusInv, O!StatusIsStored
<1>3. O!TestCallsAreFew
  <2>1. Waiting \in Nat /\ rang \in Nat /\ uncounted \in Nat /\ MaxTestCalls \in Nat
    BY HeldIsOne DEF GuideInv, O!TypeOK, Waiting, O!Assumptions
  <2>2. rang + Waiting <= MaxTestCalls + uncounted /\ ("test_call" \in done => rang > 0)
    BY DEF GuideInv, RingInv
  <2>3. rang <= MaxTestCalls + uncounted
    BY <2>1, <2>2
  <2> QED  BY <2>2, <2>3 DEF O!TestCallsAreFew
<1> QED  BY <1>1, <1>2, <1>3

LEMMA GuideStarts == O!Assumptions /\ O!Init => GuideInv
<1> SUFFICES ASSUME O!Assumptions, O!Init PROVE GuideInv  OBVIOUS
<1>1. /\ done = {} /\ tries = 0 /\ rang = 0 /\ steps = {} /\ behind = TRUE /\ deleted = FALSE
      /\ missing = {} /\ uncounted = 0 /\ MaxTestCalls \in Nat /\ MaxLoads \in Nat \ {0}
      /\ page = [status |-> {}, loaded |-> FALSE, boxes |-> {}, latest |-> 0]
  BY DEF O!Init, O!Assumptions
<1>2. page \in O!PageState
  <2>1. 0 \in 0..MaxLoads
    BY <1>1
  <2> QED  BY <1>1, <2>1 DEF O!PageState
<1>3. O!TypeOK
  <2>1. tries \in 0..(MaxTestCalls + 1) /\ rang \in Nat /\ uncounted \in Nat
    BY <1>1
  <2> QED  BY <1>1, <1>2, <2>1 DEF O!TypeOK
<1>4. StepsInv
  BY <1>1 DEF StepsInv
<1>5. ReadyInv
  BY <1>1 DEF ReadyInv
<1>6. RingInv
  <2>1. Waiting = 0
    BY <1>1 DEF Waiting, Held
  <2>2. rang + Waiting <= tries + uncounted /\ rang + Waiting <= MaxTestCalls + uncounted
    BY <1>1, <2>1
  <2> QED  BY <1>1, <2>2, Zenon DEF RingInv
<1>7. StatusInv
  BY <1>1 DEF StatusInv
<1> QED  BY <1>3, <1>4, <1>5, <1>6, <1>7 DEF GuideInv

LEMMA GuideFields ==
  ASSUME GuideInv, O!Assumptions
  PROVE  /\ done \subseteq O!Step /\ tries \in 0..(MaxTestCalls + 1) /\ rang \in Nat
         /\ tries \in Nat /\ uncounted \in Nat /\ Waiting \in Nat
         /\ MaxTestCalls \in Nat /\ MaxTestCalls > 0 /\ MaxLoads \in Nat
         /\ page \in O!PageState /\ steps \subseteq O!Call /\ missing \subseteq O!Step
         /\ behind \in BOOLEAN /\ deleted \in BOOLEAN
         /\ StepsInv /\ ReadyInv /\ RingInv /\ StatusInv
<1>1. tries \in 0..(MaxTestCalls + 1) /\ MaxTestCalls \in Nat /\ MaxLoads \in Nat
  BY DEF GuideInv, O!TypeOK, O!Assumptions
<1>2. tries \in Nat
  BY <1>1
<1>3. MaxTestCalls > 0
  BY DEF O!Assumptions
<1>4. Waiting \in Nat
  BY HeldIsOne DEF Waiting
<1> QED  BY <1>1, <1>2, <1>3, <1>4 DEF GuideInv, O!TypeOK

LEMMA PageFields ==
  ASSUME NEW p \in O!PageState
  PROVE  /\ p.status \in SUBSET O!Step /\ p.loaded \in BOOLEAN /\ p.boxes \in SUBSET Channel
         /\ p.latest \in 0..MaxLoads
BY DEF O!PageState

LEMMA StepFields ==
  ASSUME NEW c \in O!Call
  PROVE  /\ c.kind \in O!Kind /\ c.of \in Channel \cup {"none", "elsewhere"} /\ c.n \in 0..MaxLoads
         /\ c.seen \in SUBSET O!Step
         /\ c.state \in {"asked", "first", "checked", "ringing", "ok", "refused", "failed"}
BY DEF O!Call

LEMMA Channels ==
  ASSUME O!Assumptions
  PROVE  /\ Channel \subseteq O!Step /\ "none" \notin Channel /\ "services" \notin Channel
         /\ "phone_number" \notin Channel /\ "test_call" \notin Channel
         /\ "elsewhere" \notin Channel /\ "phone" \in Channel
BY DEF O!Assumptions, O!Step, O!Required, O!Elsewhere

\* A request goes on.
Turned(c, w) ==
  /\ w \in O!Call /\ steps' = (steps \ {c}) \cup {w}
  /\ w.kind = c.kind /\ w.of = c.of /\ w.n = c.n

LEMMA TurnedBecomes ==
  ASSUME GuideInv, O!Assumptions, NEW c \in steps,
         NEW s \in {"asked", "first", "checked", "ringing", "ok", "refused", "failed"}, O!Becomes(c, s)
  PROVE  \E w : Turned(c, w) /\ w.state = s /\ w.seen = c.seen
<1>1. c \in O!Call
  BY GuideFields
<1>2. PICK w : w = [c EXCEPT !.state = s]
  OBVIOUS
<1>3. /\ w \in O!Call /\ w.state = s /\ w.kind = c.kind /\ w.of = c.of /\ w.n = c.n
      /\ w.seen = c.seen
  BY <1>1, <1>2 DEF O!Call
<1>4. steps' = (steps \ {c}) \cup {w}
  BY <1>2 DEF O!Becomes
<1> QED  BY <1>3, <1>4 DEF Turned

LEMMA TurnedSteps ==
  ASSUME GuideInv, O!Assumptions, NEW c \in steps, NEW w, Turned(c, w), page' = page
  PROVE  steps' \subseteq O!Call /\ StepsInv'
<1>1. steps \subseteq O!Call /\ StepsInv
  BY GuideFields
<1>2. /\ w \in O!Call /\ steps' = (steps \ {c}) \cup {w}
      /\ w.kind = c.kind /\ w.of = c.of /\ w.n = c.n
  BY DEF Turned
<1>3. \A d \in steps' :
        /\ d.n <= page'.latest
        /\ d.kind \in {"send", "confirm"} => d.of \in Channel
        /\ d.kind = "test_call" => d.of \in {"none", "elsewhere"}
        /\ d.of = "elsewhere" => d.kind = "test_call"
  BY <1>1, <1>2 DEF StepsInv
<1>4. \A d, e \in steps' : d.kind = "status" /\ e.kind = "status" /\ d.n = e.n => d = e
  BY <1>1, <1>2 DEF StepsInv
<1>5. \A d, e \in steps' : d.kind = "test_call" /\ e.kind = "test_call" /\ d.of = e.of => d = e
  BY <1>1, <1>2 DEF StepsInv
<1> QED  BY <1>1, <1>2, <1>3, <1>4, <1>5 DEF StepsInv

\* Requests that end.
LEMMA FewerSteps ==
  ASSUME GuideInv, O!Assumptions, steps' \subseteq steps, page'.latest = page.latest
  PROVE  steps' \subseteq O!Call /\ StepsInv'
<1>1. steps \subseteq O!Call /\ StepsInv
  BY GuideFields
<1> QED  BY <1>1 DEF StepsInv

\* The parts that a step leaves alone.
LEMMA ReadyStays ==
  ASSUME GuideInv, UNCHANGED <<missing, deleted>>, done \subseteq done',
         \A c \in steps' : c.kind = "go_live" /\ c.state = "checked" =>
            c \in steps \/ O!Required \subseteq done
  PROVE  ReadyInv'
BY DEF GuideInv, ReadyInv

LEMMA RingStays ==
  ASSUME GuideInv, O!Assumptions, UNCHANGED <<rang, tries, uncounted>>,
         "test_call" \in done' => "test_call" \in done,
         \A c \in steps' :
            c.kind = "test_call" /\ c.state \in {"checked", "ringing"} => c \in steps
  PROVE  RingInv'
<1>1. RingInv /\ rang' = rang /\ tries' = tries /\ uncounted' = uncounted
  BY DEF GuideInv
<1>2. \A of : Held(of)' <= Held(of)
  BY DEF Held
<1>3. Waiting' <= Waiting /\ Waiting' \in Nat
  BY <1>2, HeldIsOne DEF Waiting
<1>4. rang' + Waiting' <= tries' + uncounted' /\ rang' + Waiting' <= MaxTestCalls + uncounted'
  <2>1. rang + Waiting <= tries + uncounted /\ rang + Waiting <= MaxTestCalls + uncounted
    BY <1>1 DEF RingInv
  <2> QED  BY <1>1, <1>3, <2>1, GuideFields
<1>5. "test_call" \in done' => rang' > 0
  BY <1>1 DEF RingInv
<1>6. \A c \in steps' : c.kind = "test_call" /\ c.state = "ringing" => rang' > 0
  BY <1>1 DEF RingInv
<1> QED  BY <1>4, <1>5, <1>6 DEF RingInv

\* The page waits for something, or shows what is stored.
LEMMA StatusStays ==
  ASSUME GuideInv, UNCHANGED <<done, page>>, behind' = FALSE => behind = FALSE,
         \A c \in steps : Owes(c) => \E d \in steps' : Owes(d),
         \A c \in steps : Told(c) => \E d \in steps' : Owes(d) \/ Told(d),
         \A c \in steps' : Told(c) /\ c.state = "ok" => c \in steps,
         behind' \in BOOLEAN
  PROVE  StatusInv'
<1> SUFFICES ASSUME ~behind' PROVE StatusInv'  BY DEF StatusInv
<1>1. StatusInv /\ ~behind
  BY DEF GuideInv
<1>2. PICK latest : latest = page.latest /\ latest = page'.latest
  OBVIOUS
<1>3. \A c : Told(c) <=> (c.kind = "status" /\ c.n = latest)
  BY <1>2 DEF Told, O!Newest
<1>4. \A c : Told(c)' <=> (c.kind = "status" /\ c.n = latest)
  BY <1>2 DEF Told, O!Newest
<1>5. CASE \E c \in steps' : Owes(c)
  BY <1>5 DEF StatusInv
<1>6. CASE \A c \in steps' : ~Owes(c)
  <2>1. \A c \in steps : ~Owes(c)
    BY <1>6
  <2>2. /\ \A c \in steps : Told(c) /\ c.state = "ok" => c.seen = done
        /\ page.loaded => page.status = done \/ \E c \in steps : Told(c)
    BY <1>1, <2>1 DEF StatusInv
  <2>3. \A c \in steps' : Told(c)' /\ c.state = "ok" => c.seen = done'
    BY <1>3, <1>4, <2>2
  <2>4. (\E c \in steps : Told(c)) => \E d \in steps' : Told(d)
    BY <1>6
  <2>5. page'.loaded => page'.status = done' \/ \E d \in steps' : Told(d)'
    BY <1>3, <1>4, <2>2, <2>4
  <2> QED  BY <2>3, <2>5 DEF StatusInv
<1> QED  BY <1>5, <1>6

LEMMA OwesAfter == (\E c \in steps' : Owes(c)) => StatusInv'
BY DEF StatusInv

\* Buttons, here and elsewhere.
LEMMA ButtonHolds ==
  ASSUME GuideInv, O!Assumptions, NEW kind \in O!Kind \ {"status"},
         NEW of \in Channel \cup {"none", "elsewhere"},
         steps' = steps \cup {O!Ask(kind, of, 0)}, UNCHANGED <<O!Server, page>>,
         kind \in {"send", "confirm"} => of \in Channel,
         kind = "test_call" => of \in {"none", "elsewhere"},
         of = "elsewhere" => kind = "test_call",
         kind = "test_call" => \A d \in steps : d.kind = "test_call" => d.of # of
  PROVE  GuideInv'
<1>1. PICK c : c = O!Ask(kind, of, 0)
  OBVIOUS
<1>2. /\ c.kind = kind /\ c.of = of /\ c.n = 0 /\ c.seen = {} /\ c.state = "asked"
      /\ steps' = steps \cup {c}
      /\ UNCHANGED <<done, tries, rang, uncounted, page, behind, deleted, missing>>
  BY <1>1 DEF O!Ask, O!Server, O!counters
<1>3. c \in O!Call
  <2>1. 0 \in 0..MaxLoads /\ {} \in SUBSET O!Step
    BY GuideFields
  <2> QED  BY <1>1, <2>1 DEF O!Call, O!Ask
<1>4. O!TypeOK'
  BY <1>2, <1>3 DEF GuideInv, O!TypeOK
<1>5. StepsInv'
  <2>1. StepsInv /\ page.latest >= 0
    BY GuideFields, PageFields
  <2>2. \A d \in steps' :
          /\ d.n <= page'.latest
          /\ d.kind \in {"send", "confirm"} => d.of \in Channel
          /\ d.kind = "test_call" => d.of \in {"none", "elsewhere"}
          /\ d.of = "elsewhere" => d.kind = "test_call"
    BY <1>2, <2>1 DEF StepsInv
  <2>3. \A d, e \in steps' : d.kind = "status" /\ e.kind = "status" /\ d.n = e.n => d = e
    BY <1>2, <2>1 DEF StepsInv
  <2>4. \A d, e \in steps' : d.kind = "test_call" /\ e.kind = "test_call" /\ d.of = e.of => d = e
    BY <1>2, <2>1 DEF StepsInv
  <2> QED  BY <2>2, <2>3, <2>4 DEF StepsInv
<1>6. ReadyInv'
  BY <1>2, ReadyStays
<1>7. RingInv'
  BY <1>2, RingStays
<1>8. StatusInv'
  <2>1. ~Told(c)
    BY <1>2 DEF Told
  <2>2. behind' \in BOOLEAN
    BY <1>2, GuideFields
  <2> QED  BY <1>2, <2>1, <2>2, StatusStays
<1> QED  BY <1>4, <1>5, <1>6, <1>7, <1>8 DEF GuideInv

LEMMA PressHolds ==
  ASSUME GuideInv, O!Assumptions, NEW kind \in O!Kind \ {"status"},
         NEW of \in Channel \cup {"none"}, O!Press(kind, of),
         kind \in {"send", "confirm"} => of \in Channel,
         kind = "test_call" => of = "none" /\ O!Alone(kind)
  PROVE  GuideInv'
<1>1. steps' = steps \cup {O!Ask(kind, of, 0)} /\ UNCHANGED <<O!Server, page>>
  BY DEF O!Press
<1>2. of # "elsewhere"
  BY Channels
<1>3. kind = "test_call" => \A d \in steps : d.kind = "test_call" => d.of # of
  BY DEF O!Alone, O!Here
<1> QED  BY <1>1, <1>2, <1>3, ButtonHolds

LEMMA OtherTestCallHolds ==
  ASSUME GuideInv, O!Assumptions, O!OtherTestCall
  PROVE  GuideInv'
<1>1. /\ steps' = steps \cup {O!Ask("test_call", "elsewhere", 0)} /\ UNCHANGED <<O!Server, page>>
      /\ \A d \in steps : d.of # "elsewhere"
  BY DEF O!OtherTestCall, O!Here
<1>2. "test_call" \in O!Kind \ {"status"}
  BY DEF O!Kind
<1> QED  BY <1>1, <1>2, ButtonHolds

\* The status is asked for again.
LEMMA LoadHolds ==
  ASSUME GuideInv, O!Assumptions, page.latest < MaxLoads, NEW left \in SUBSET steps,
         steps' = left \cup {O!Load}, page' \in O!PageState,
         page'.latest = page.latest + 1, UNCHANGED <<done, tries, rang, uncounted, behind, deleted, missing>>
  PROVE  GuideInv'
<1>1. PICK c : c = O!Load
  OBVIOUS
<1>2. /\ c.kind = "status" /\ c.of = "none" /\ c.n = page.latest + 1 /\ c.seen = {}
      /\ c.state = "asked" /\ steps' = left \cup {c}
  BY <1>1 DEF O!Load, O!Ask
<1>3. PICK latest \in Nat : latest = page.latest /\ page'.latest = latest + 1 /\ c.n = latest + 1
  BY <1>2, GuideFields, PageFields
<1>4. c \in O!Call
  <2>1. page.latest + 1 \in 0..MaxLoads /\ {} \in SUBSET O!Step /\ "status" \in O!Kind
    BY <1>3, GuideFields DEF O!Kind
  <2> QED  BY <1>1, <2>1 DEF O!Call, O!Ask, O!Load
<1>5. O!TypeOK'
  BY <1>2, <1>4 DEF GuideInv, O!TypeOK
<1>6. \A d \in steps : d.n \in Nat /\ d.n <= latest
  BY <1>3, GuideFields, StepFields DEF StepsInv
<1>7. StepsInv'
  <2>1. StepsInv
    BY GuideFields
  <2>2. \A d \in steps' : d.n <= page'.latest
    BY <1>2, <1>3, <1>6
  <2>3. \A d \in steps' : /\ d.kind \in {"send", "confirm"} => d.of \in Channel
                          /\ d.kind = "test_call" => d.of \in {"none", "elsewhere"}
                          /\ d.of = "elsewhere" => d.kind = "test_call"
    BY <1>2, <2>1 DEF StepsInv
  <2>4. \A d \in left : d.n # c.n
    BY <1>3, <1>6
  <2>5. \A d, e \in steps' : d.kind = "status" /\ e.kind = "status" /\ d.n = e.n => d = e
    BY <1>2, <2>1, <2>4 DEF StepsInv
  <2>6. \A d, e \in steps' : d.kind = "test_call" /\ e.kind = "test_call" /\ d.of = e.of => d = e
    BY <1>2, <2>1 DEF StepsInv
  <2> QED  BY <2>2, <2>3, <2>5, <2>6 DEF StepsInv
<1>8. ReadyInv'
  BY <1>2, ReadyStays
<1>9. RingInv'
  BY <1>2, RingStays
<1>10. StatusInv'
  <2>1. \A d \in steps' : Told(d)' => d = c
    BY <1>2, <1>3, <1>6 DEF Told, O!Newest
  <2>2. Told(c)'
    BY <1>2, <1>3 DEF Told, O!Newest
  <2>3. /\ \A d \in steps' : Told(d)' /\ d.state = "ok" => d.seen = done'
        /\ page'.loaded => page'.status = done' \/ \E d \in steps' : Told(d)'
    BY <1>2, <2>1, <2>2
  <2> QED  BY <2>3 DEF StatusInv
<1> QED  BY <1>5, <1>7, <1>8, <1>9, <1>10 DEF GuideInv

LEMMA OpenGuideHolds ==
  ASSUME GuideInv, O!Assumptions, O!OpenPage
  PROVE  GuideInv'
<1>1. /\ page.latest < MaxLoads /\ steps' = steps \cup {O!Load}
      /\ page' = [page EXCEPT !.latest = @ + 1]
      /\ UNCHANGED <<done, tries, rang, uncounted, behind, deleted, missing>>
  BY DEF O!OpenPage, O!Server, O!counters
<1>2. page \in O!PageState /\ page.latest \in 0..MaxLoads /\ MaxLoads \in Nat
  BY GuideFields, PageFields
<1>3. page' \in O!PageState /\ page'.latest = page.latest + 1
  <2>1. page.latest + 1 \in 0..MaxLoads
    BY <1>1, <1>2
  <2> QED  BY <1>1, <1>2, <2>1 DEF O!PageState
<1> QED  BY <1>1, <1>3, LoadHolds

LEMMA StepDoneHolds ==
  ASSUME GuideInv, O!Assumptions, NEW c \in steps, O!StepDone(c)
  PROVE  GuideInv'
<1>1. PICK boxes : /\ boxes = IF c.kind = "confirm" THEN page.boxes \ {c.of} ELSE page.boxes
                   /\ page' = [page EXCEPT !.latest = @ + 1, !.boxes = boxes]
  BY DEF O!StepDone
<1>2. /\ page.latest < MaxLoads /\ steps' = (steps \ {c}) \cup {O!Load}
      /\ UNCHANGED <<done, tries, rang, uncounted, behind, deleted, missing>>
  BY DEF O!StepDone, O!Server, O!counters
<1>3. page \in O!PageState /\ page.latest \in 0..MaxLoads /\ MaxLoads \in Nat
  BY GuideFields, PageFields
<1>4. boxes \in SUBSET Channel
  BY <1>1, <1>3, PageFields
<1>5. page' \in O!PageState /\ page'.latest = page.latest + 1
  <2>1. page.latest + 1 \in 0..MaxLoads
    BY <1>2, <1>3
  <2> QED  BY <1>1, <1>3, <1>4, <2>1 DEF O!PageState
<1>6. steps \ {c} \in SUBSET steps
  OBVIOUS
<1> QED  BY <1>2, <1>5, <1>6, LoadHolds

LEMMA StatusArrivesHolds ==
  ASSUME GuideInv, O!Assumptions, NEW c \in steps, O!StatusArrives(c)
  PROVE  GuideInv'
<1>1. /\ c.kind = "status" /\ c.state = "ok" /\ steps' = steps \ {c}
      /\ UNCHANGED <<done, tries, rang, uncounted, behind, deleted, missing>>
      /\ page' = IF O!Newest(c) THEN [page EXCEPT !.status = c.seen, !.loaded = TRUE] ELSE page
  BY DEF O!StatusArrives, O!Server, O!Current, O!counters
<1>2. PICK yes : yes = TRUE
  OBVIOUS
<1>3. page' = IF O!Newest(c) THEN [page EXCEPT !.status = c.seen, !.loaded = yes] ELSE page
  BY <1>1, <1>2
<1>4. page \in O!PageState /\ c.seen \in SUBSET O!Step /\ c.n \in 0..MaxLoads
  BY GuideFields, StepFields
<1>5. page' \in O!PageState
  BY <1>2, <1>3, <1>4 DEF O!PageState
<1>6. page'.latest = page.latest
  BY <1>3, <1>4 DEF O!PageState
<1>7. steps' \subseteq O!Call /\ StepsInv'
  BY <1>1, <1>6, FewerSteps
<1>8. O!TypeOK'
  BY <1>1, <1>5, <1>7 DEF GuideInv, O!TypeOK
<1>9. ReadyInv'
  BY <1>1, ReadyStays
<1>10. RingInv'
  BY <1>1, RingStays
<1>11. StatusInv'
  <2>1. ~Owes(c)
    BY <1>1 DEF Owes
  <2>2. CASE \E d \in steps : Owes(d)
    BY <1>1, <2>1, <2>2, OwesAfter
  <2>3. CASE O!Newest(c) /\ ~(\E d \in steps : Owes(d))
    <3>1. Told(c)
      BY <1>1, <2>3 DEF Told
    <3>2. ~behind => c.seen = done
      BY <1>1, <2>3, <3>1, GuideFields DEF StatusInv
    <3>3. page'.status = c.seen
      BY <1>3, <1>4, <2>3 DEF O!PageState
    <3>4. \A d \in steps' : ~Told(d)'
      <4>1. ASSUME NEW d \in steps', Told(d)' PROVE FALSE
        <5>1. d \in steps /\ d # c /\ d.kind = "status" /\ d.n = page.latest
          BY <1>1, <1>6, <4>1 DEF Told, O!Newest
        <5>2. c.kind = "status" /\ c.n = page.latest
          BY <1>1, <2>3 DEF O!Newest
        <5> QED  BY <5>1, <5>2, GuideFields DEF StepsInv
      <4> QED  BY <4>1
    <3>5. ~behind' => page'.status = done'
      BY <1>1, <3>2, <3>3
    <3> QED  BY <3>4, <3>5 DEF StatusInv
  <2>4. CASE ~O!Newest(c)
    <3>1. page' = page /\ ~Told(c)
      BY <1>1, <2>4 DEF Told
    <3>2. behind' \in BOOLEAN
      BY <1>1, GuideFields
    <3> QED  BY <1>1, <2>1, <3>1, <3>2, StatusStays
  <2> QED  BY <2>2, <2>3, <2>4
<1> QED  BY <1>7, <1>8, <1>9, <1>10, <1>11 DEF GuideInv

\* An answer that the page does not ask again after, and one that failed.
LEMMA GuideEndsHold ==
  ASSUME GuideInv, O!Assumptions, NEW c \in steps, steps' = steps \ {c},
         O!StatusFails(c) \/ O!StepFailed(c) \/ O!CodeSent(c) \/ O!OtherEnds(c)
  PROVE  GuideInv'
<1>1. UNCHANGED <<done, tries, rang, uncounted, deleted, missing>>
  BY DEF O!StatusFails, O!StepFailed, O!CodeSent, O!OtherEnds, O!Server, O!counters
<1>2. page' \in O!PageState /\ page'.latest = page.latest /\ page'.loaded = page.loaded
      /\ page'.status = page.status
  <2>1. CASE O!StatusFails(c) \/ O!StepFailed(c) \/ O!OtherEnds(c)
    BY <2>1, GuideFields DEF O!StatusFails, O!StepFailed, O!OtherEnds, O!counters
  <2>2. CASE O!CodeSent(c)
    <3>1. /\ c.kind = "send"
          /\ page' = page \/ page' = [page EXCEPT !.boxes = @ \cup {c.of}]
      BY <2>2 DEF O!CodeSent
    <3>2. c.of \in Channel
      BY <3>1, GuideFields DEF StepsInv
    <3>3. page \in O!PageState
      BY GuideFields
    <3>4. CASE page' = page
      BY <3>3, <3>4
    <3>5. CASE page' = [page EXCEPT !.boxes = @ \cup {c.of}]
      <4>1. page.boxes \cup {c.of} \in SUBSET Channel
        BY <3>2, <3>3, PageFields
      <4> QED  BY <3>3, <3>5, <4>1 DEF O!PageState
    <3> QED  BY <3>1, <3>4, <3>5
  <2> QED  BY <2>1, <2>2
<1>3. steps' \subseteq O!Call /\ StepsInv'
  BY <1>2, FewerSteps
<1>4. behind' \in BOOLEAN
  BY GuideFields DEF O!StatusFails, O!StepFailed, O!CodeSent, O!OtherEnds, O!Server, O!counters
<1>5. O!TypeOK'
  BY <1>1, <1>2, <1>3, <1>4 DEF GuideInv, O!TypeOK
<1>6. ReadyInv'
  BY <1>1, ReadyStays
<1>7. RingInv'
  BY <1>1, RingStays
<1>8. StatusInv'
  <2> SUFFICES ASSUME ~behind' PROVE StatusInv'  BY DEF StatusInv
  <2>1. ~behind /\ ~Told(c) /\ ~Owes(c)
    <3>1. CASE O!StatusFails(c)
      <4>1. behind' = (behind \/ O!Newest(c)) /\ c.kind = "status" /\ c.state = "failed"
        BY <3>1 DEF O!StatusFails, O!counters
      <4> QED  BY <4>1 DEF Told, Owes
    <3>2. CASE O!StepFailed(c)
      <4>1. behind' = (behind \/ c.state = "failed") /\ c.kind # "status"
            /\ c.state \in {"refused", "failed"}
        BY <3>2 DEF O!StepFailed, O!counters
      <4> QED  BY <4>1 DEF Told, Owes
    <3>3. CASE O!CodeSent(c)
      <4>1. behind' = behind /\ c.kind = "send" /\ c.state = "ok"
        BY <3>3 DEF O!CodeSent, O!Server, O!counters
      <4> QED  BY <4>1 DEF Told, Owes
    <3>4. CASE O!OtherEnds(c)
      <4>1. behind' = behind /\ c.of = "elsewhere"
        BY <3>4 DEF O!OtherEnds, O!Here, O!Server
      <4>2. c.kind = "test_call"
        BY <4>1, GuideFields DEF StepsInv
      <4> QED  BY <4>1, <4>2 DEF Told, Owes
    <3> QED  BY <3>1, <3>2, <3>3, <3>4
  <2>2. StatusInv
    BY GuideFields
  <2>3. CASE \E d \in steps : Owes(d)
    BY <2>1, <2>3, OwesAfter
  <2>4. CASE ~(\E d \in steps : Owes(d))
    <3>1. /\ \A d \in steps : Told(d) /\ d.state = "ok" => d.seen = done
          /\ page.loaded => page.status = done \/ \E d \in steps : Told(d)
      BY <2>1, <2>2, <2>4 DEF StatusInv
    <3>2. \A d \in steps' : Told(d)' <=> Told(d)
      BY <1>2 DEF Told, O!Newest
    <3>3. \A d \in steps' : Told(d)' /\ d.state = "ok" => d.seen = done'
      BY <1>1, <3>1, <3>2
    <3>4. page'.loaded => page'.status = done' \/ \E d \in steps' : Told(d)'
      BY <1>1, <1>2, <2>1, <3>1, <3>2
    <3> QED  BY <3>3, <3>4 DEF StatusInv
  <2> QED  BY <2>3, <2>4
<1> QED  BY <1>3, <1>5, <1>6, <1>7, <1>8 DEF GuideInv

\* A request goes on, and nothing is stored.
LEMMA StatusGoesOn ==
  ASSUME GuideInv, NEW c \in steps, NEW w, Turned(c, w), UNCHANGED <<done, page, behind>>,
         c.state # "failed", c.state # "ok" \/ w.state = "failed",
         w.state # "ok" \/ w.kind # "status"
  PROVE  StatusInv'
<1>1. w \in steps' /\ w.kind = c.kind /\ w.n = c.n /\ w.of = c.of /\ steps' = (steps \ {c}) \cup {w}
  BY DEF Turned
<1>2. Told(c) <=> Told(w)
  BY <1>1 DEF Told, O!Newest
<1>3. Owes(c) => Owes(w)
  BY <1>1 DEF Owes
<1>4. \A d \in steps : Owes(d) => \E e \in steps' : Owes(e)
  BY <1>1, <1>3
<1>5. \A d \in steps : Told(d) => \E e \in steps' : Owes(e) \/ Told(e)
  BY <1>1, <1>2
<1>6. \A d \in steps' : Told(d) /\ d.state = "ok" => d \in steps
  BY <1>1 DEF Told
<1>7. behind' \in BOOLEAN
  BY DEF GuideInv, O!TypeOK
<1> QED  BY <1>4, <1>5, <1>6, <1>7, StatusStays

LEMMA AnswerHolds ==
  ASSUME GuideInv, O!Assumptions, NEW c \in steps,
         NEW s \in {"checked", "ringing", "ok", "refused", "failed"}, O!Becomes(c, s),
         UNCHANGED <<done, rang, tries, uncounted, page, behind, deleted, missing>>,
         c.state \in {"asked", "first", "checked", "ringing", "ok"}, c.state = "ok" => s = "failed",
         s \in {"checked", "ringing"} => c.kind = "go_live",
         s = "checked" => O!Required \subseteq done,
         s = "ok" => c.kind # "status"
  PROVE  GuideInv'
<1>1. PICK w : Turned(c, w) /\ w.state = s
  BY TurnedBecomes
<1>2. steps' \subseteq O!Call /\ StepsInv'
  BY <1>1, TurnedSteps
<1>3. /\ w \in O!Call /\ steps' = (steps \ {c}) \cup {w} /\ w.kind = c.kind
  BY <1>1 DEF Turned
<1>4. O!TypeOK'
  BY <1>2 DEF GuideInv, O!TypeOK
<1>5. ReadyInv'
  BY <1>1, <1>3, ReadyStays
<1>6. RingInv'
  BY <1>1, <1>3, RingStays
<1>7. StatusInv'
  BY <1>1, <1>3, StatusGoesOn
<1> QED  BY <1>2, <1>4, <1>5, <1>6, <1>7 DEF GuideInv

LEMMA GuideAnswersHold ==
  ASSUME GuideInv, O!Assumptions, NEW c \in steps,
         O!AnswerLost(c) \/ O!ServeSend(c) \/ O!StoreFails(c) \/ O!CheckLive(c)
  PROVE  GuideInv'
<1>1. CASE O!AnswerLost(c)
  BY <1>1, AnswerHolds DEF O!AnswerLost, O!Server, O!counters
<1>2. CASE O!ServeSend(c)
  <2>1. PICK s \in {"ok", "refused"} : O!Becomes(c, s)
    BY <1>2 DEF O!ServeSend
  <2>2. /\ c.kind = "send" /\ c.state = "asked"
        /\ UNCHANGED <<done, rang, tries, uncounted, page, behind, deleted, missing>>
    BY <1>2 DEF O!ServeSend, O!Server, O!counters
  <2> QED  BY <2>1, <2>2, AnswerHolds
<1>3. CASE O!StoreFails(c)
  BY <1>3, AnswerHolds DEF O!StoreFails, O!Server, O!counters
<1>4. CASE O!CheckLive(c)
  <2>1. PICK s : s = IF O!Ready THEN "checked" ELSE "refused"
    OBVIOUS
  <2>2. /\ c.kind = "go_live" /\ c.state = "asked" /\ O!Becomes(c, s)
        /\ UNCHANGED <<done, rang, tries, uncounted, page, behind, deleted, missing>>
    BY <1>4, <2>1 DEF O!CheckLive, O!Server, O!counters
  <2>3. s \in {"checked", "refused"} /\ (s = "checked" => O!Required \subseteq done)
    BY <2>1 DEF O!Ready
  <2> QED  BY <2>2, <2>3, AnswerHolds
<1> QED  BY <1>1, <1>2, <1>3, <1>4

LEMMA StatusHolds ==
  ASSUME GuideInv, O!Assumptions, NEW c \in steps, O!Status(c)
  PROVE  GuideInv'
<1>1. PICK w : w = [c EXCEPT !.state = "ok", !.seen = done]
  OBVIOUS
<1>2. /\ c.kind = "status" /\ c.state = "asked" /\ steps' = (steps \ {c}) \cup {w}
      /\ behind' = (behind /\ ~O!Newest(c))
      /\ UNCHANGED <<done, tries, rang, uncounted, deleted, missing, page>>
  BY <1>1 DEF O!Status, O!counters
<1>3. c \in O!Call /\ done \in SUBSET O!Step /\ behind \in BOOLEAN
  BY GuideFields
<1>4. /\ w \in O!Call /\ w.kind = c.kind /\ w.of = c.of /\ w.n = c.n /\ w.state = "ok"
      /\ w.seen = done
  BY <1>1, <1>3 DEF O!Call
<1>5. Turned(c, w)
  BY <1>2, <1>4 DEF Turned
<1>6. steps' \subseteq O!Call /\ StepsInv'
  BY <1>2, <1>5, TurnedSteps
<1>7. O!TypeOK'
  BY <1>2, <1>3, <1>6 DEF GuideInv, O!TypeOK
<1>8. ReadyInv'
  BY <1>2, <1>4, ReadyStays
<1>9. RingInv'
  BY <1>2, <1>4, RingStays
<1>10. StatusInv'
  <2>1. PICK latest : latest = page.latest /\ latest = page'.latest
    BY <1>2
  <2>2. \A d : Told(d) <=> (d.kind = "status" /\ d.n = latest)
    BY <2>1 DEF Told, O!Newest
  <2>3. \A d : Told(d)' <=> (d.kind = "status" /\ d.n = latest)
    BY <2>1 DEF Told, O!Newest
  <2>4. O!Newest(c) <=> c.n = latest
    BY <2>1 DEF O!Newest
  <2>5. CASE c.n = latest
    <3>1. \A d \in steps' : Told(d)' => d = w
      BY <1>2, <1>4, <2>3, <2>5, GuideFields DEF StepsInv
    <3>2. Told(w)'
      BY <1>2, <1>4, <2>3, <2>5
    <3>3. /\ \A d \in steps' : Told(d)' /\ d.state = "ok" => d.seen = done'
          /\ page'.loaded => page'.status = done' \/ \E d \in steps' : Told(d)'
      BY <1>2, <1>4, <3>1, <3>2
    <3> QED  BY <3>3 DEF StatusInv
  <2>6. CASE c.n # latest
    <3>1. behind' = behind /\ behind' \in BOOLEAN
      BY <1>2, <1>3, <2>4, <2>6
    <3>2. ~Told(c) /\ ~Told(w)
      BY <1>4, <2>2, <2>6
    <3>3. ~Owes(c)
      BY <1>2 DEF Owes
    <3>4. \A d \in steps : Owes(d) => \E e \in steps' : Owes(e)
      BY <1>2, <3>3
    <3>5. \A d \in steps : Told(d) => \E e \in steps' : Owes(e) \/ Told(e)
      BY <1>2, <3>2
    <3>6. \A d \in steps' : Told(d) /\ d.state = "ok" => d \in steps
      BY <1>2, <3>2
    <3> QED  BY <1>2, <3>1, <3>4, <3>5, <3>6, StatusStays
  <2> QED  BY <2>5, <2>6
<1> QED  BY <1>6, <1>7, <1>8, <1>9, <1>10 DEF GuideInv

\* A step is stored: the answer makes the page ask again.
LEMMA StoredHolds ==
  ASSUME GuideInv, O!Assumptions, NEW c \in steps, O!Becomes(c, "ok"),
         c.kind \notin {"status", "send"}, done \subseteq done', done' \subseteq O!Step,
         UNCHANGED <<rang, tries, uncounted, page, deleted>>,
         behind' = (behind \/ c.of = "elsewhere"), missing' \subseteq O!Step, missing' = {} \/ deleted,
         "test_call" \in done' => "test_call" \in done \/ rang > 0
  PROVE  GuideInv'
<1>1. PICK w : Turned(c, w) /\ w.state = "ok"
  BY TurnedBecomes
<1>2. steps' \subseteq O!Call /\ StepsInv'
  BY <1>1, TurnedSteps
<1>3. /\ w \in O!Call /\ steps' = (steps \ {c}) \cup {w} /\ w.kind = c.kind
  BY <1>1 DEF Turned
<1>4. O!TypeOK'
  <2>1. behind' \in BOOLEAN
    BY GuideFields
  <2> QED  BY <1>2, <2>1 DEF GuideInv, O!TypeOK
<1>5. ReadyInv'
  BY <1>1, <1>3, GuideFields DEF ReadyInv
<1>6. RingInv'
  <2>1. RingInv /\ rang' = rang /\ tries' = tries /\ uncounted' = uncounted
    BY GuideFields
  <2>2. \A of : Held(of)' <= Held(of)
    BY <1>1, <1>3 DEF Held
  <2>3. Waiting' <= Waiting /\ Waiting' \in Nat
    BY <2>2, HeldIsOne DEF Waiting
  <2>4. rang' + Waiting' <= tries' + uncounted' /\ rang' + Waiting' <= MaxTestCalls + uncounted'
    <3>1. rang + Waiting <= tries + uncounted /\ rang + Waiting <= MaxTestCalls + uncounted
      BY <2>1 DEF RingInv
    <3> QED  BY <2>1, <2>3, <3>1, GuideFields
  <2>5. "test_call" \in done' => rang' > 0
    BY <2>1 DEF RingInv
  <2>6. \A d \in steps' : d.kind = "test_call" /\ d.state = "ringing" => rang' > 0
    BY <1>1, <1>3, <2>1 DEF RingInv
  <2> QED  BY <2>4, <2>5, <2>6 DEF RingInv
<1>7. StatusInv'
  <2>1. CASE c.of = "elsewhere"
    BY <2>1, GuideFields DEF StatusInv
  <2>2. CASE c.of # "elsewhere"
    <3>1. w \in steps' /\ Owes(w)
      BY <1>1, <1>3, <2>2 DEF Owes, Turned
    <3> QED  BY <3>1, OwesAfter
  <2> QED  BY <2>1, <2>2
<1> QED  BY <1>2, <1>4, <1>5, <1>6, <1>7 DEF GuideInv

LEMMA StoresHold ==
  ASSUME GuideInv, O!Assumptions, NEW c \in steps,
         O!ServeConfirm(c) \/ O!ServeVoice(c) \/ O!StoreTestCall(c) \/ O!StoreLive(c)
  PROVE  GuideInv'
<1>1. CASE O!ServeConfirm(c)
  <2>1. /\ c.kind = "confirm" /\ c.state = "asked"
        /\ UNCHANGED <<rang, tries, uncounted, page, behind, deleted, missing>>
    BY <1>1 DEF O!ServeConfirm, O!counters
  <2>2. CASE O!Becomes(c, "ok") /\ done' = done \cup {c.of}
    <3>1. c.of \in Channel
      BY <2>1, GuideFields DEF StepsInv
    <3>2. c.of \in O!Step /\ c.of # "test_call"
      BY <3>1, Channels
    <3>3. missing \subseteq O!Step /\ (missing = {} \/ deleted) /\ done \subseteq O!Step
      BY GuideFields DEF ReadyInv
    <3>4. behind' = (behind \/ c.of = "elsewhere")
      BY <2>1, <3>1, Channels, GuideFields
    <3> QED  BY <2>1, <2>2, <3>2, <3>3, <3>4, StoredHolds
  <2>3. CASE O!Becomes(c, "refused") /\ UNCHANGED done
    BY <2>1, <2>3, AnswerHolds
  <2> QED  BY <1>1, <2>2, <2>3 DEF O!ServeConfirm, O!counters
<1>2. CASE O!ServeVoice(c)
  <2>1. /\ c.kind = "ai_voice" /\ done' = done \cup {"ai_voice"} /\ O!Becomes(c, "ok")
        /\ UNCHANGED <<rang, tries, uncounted, page, behind, deleted, missing>>
    BY <1>2 DEF O!ServeVoice, O!counters
  <2>2. missing \subseteq O!Step /\ (missing = {} \/ deleted) /\ done' \subseteq O!Step
    BY <2>1, GuideFields DEF ReadyInv, O!Step
  <2>3. behind' = (behind \/ c.of = "elsewhere")
    BY <2>1, GuideFields DEF StepsInv
  <2> QED  BY <2>1, <2>2, <2>3, StoredHolds
<1>3. CASE O!StoreTestCall(c)
  <2>1. /\ c.kind = "test_call" /\ c.state = "ringing" /\ done' = done \cup {"test_call"}
        /\ O!Becomes(c, "ok") /\ UNCHANGED <<rang, tries, uncounted, page, deleted, missing>>
        /\ behind' = (behind \/ c.of = "elsewhere")
    BY <1>3 DEF O!Here, O!StoreTestCall, O!counters
  <2>2. missing \subseteq O!Step /\ (missing = {} \/ deleted) /\ done' \subseteq O!Step
    BY <2>1, GuideFields DEF ReadyInv, O!Step, O!Required
  <2>3. rang > 0
    BY <2>1, GuideFields DEF RingInv
  <2> QED  BY <2>1, <2>2, <2>3, StoredHolds
<1>4. CASE O!StoreLive(c)
  <2>1. /\ c.kind = "go_live" /\ c.state = "checked" /\ done' = done \cup {"go_live"}
        /\ missing' = O!Required \ done
        /\ O!Becomes(c, "ok") /\ UNCHANGED <<rang, tries, uncounted, page, behind, deleted>>
    BY <1>4 DEF O!StoreLive, O!counters
  <2>2. missing' \subseteq O!Step /\ done' \subseteq O!Step
    BY <2>1, GuideFields DEF O!Step
  <2>3. missing' = {} \/ deleted
    BY <2>1, GuideFields DEF ReadyInv
  <2>4. behind' = (behind \/ c.of = "elsewhere")
    BY <2>1, GuideFields DEF StepsInv
  <2> QED  BY <2>1, <2>2, <2>3, <2>4, StoredHolds
<1> QED  BY <1>1, <1>2, <1>3, <1>4

\* What may still ring, before and after a test call goes on.
LEMMA WaitingTurned ==
  ASSUME GuideInv, O!Assumptions, NEW c \in steps, c.kind = "test_call", NEW w, Turned(c, w)
  PROVE  \E others \in {0, 1} :
           Waiting = others + One(c.state) /\ Waiting' = others + One(w.state)
<1>1. /\ steps' = (steps \ {c}) \cup {w} /\ w.kind = "test_call" /\ w.of = c.of
      /\ c.of \in {"none", "elsewhere"}
      /\ \A d \in steps : d.kind = "test_call" /\ d.of = c.of => d = c
  BY GuideFields DEF Turned, StepsInv
<1>2. PICK mine : mine = c.of
  OBVIOUS
<1>3. PICK theirs \in {"none", "elsewhere"} : theirs # mine
  BY <1>1, <1>2
<1>4. Held(mine) = One(c.state) /\ Held(mine)' = One(w.state)
  BY <1>1, <1>2 DEF Held, One
<1>5. Held(theirs)' = Held(theirs)
  BY <1>1, <1>2, <1>3 DEF Held
<1>6. Waiting = Held(theirs) + Held(mine) /\ Waiting' = Held(theirs)' + Held(mine)'
  BY <1>1, <1>2, <1>3, HeldIsOne DEF Waiting
<1>7. Held(theirs) \in {0, 1}
  BY HeldIsOne
<1> QED  BY <1>4, <1>5, <1>6, <1>7

LEMMA TestCallHolds ==
  ASSUME GuideInv, O!Assumptions, NEW c \in steps,
         NEW s \in {"first", "checked", "ringing", "refused"},
         O!Becomes(c, s), c.kind = "test_call", c.state \in {"asked", "first", "checked"},
         UNCHANGED <<done, page, behind, deleted, missing>>,
         tries' \in 0..(MaxTestCalls + 1), uncounted' \in Nat, rang' \in Nat, rang' >= rang,
         s = "ringing" => rang' > 0,
         \A others \in {0, 1} :
           /\ rang + others + One(c.state) <= tries + uncounted
           /\ rang + others + One(c.state) <= MaxTestCalls + uncounted
           => /\ rang' + others + One(s) <= tries' + uncounted'
              /\ rang' + others + One(s) <= MaxTestCalls + uncounted'
  PROVE  GuideInv'
<1>1. PICK w : Turned(c, w) /\ w.state = s
  BY TurnedBecomes
<1>2. steps' \subseteq O!Call /\ StepsInv'
  BY <1>1, TurnedSteps
<1>3. /\ w \in O!Call /\ steps' = (steps \ {c}) \cup {w} /\ w.kind = c.kind
  BY <1>1 DEF Turned
<1>4. O!TypeOK'
  BY <1>2 DEF GuideInv, O!TypeOK
<1>5. ReadyInv'
  BY <1>3, ReadyStays
<1>6. RingInv'
  <2>1. PICK others \in {0, 1} : Waiting = others + One(c.state) /\ Waiting' = others + One(s)
    BY <1>1, WaitingTurned
  <2>2. RingInv /\ rang \in Nat /\ tries \in Nat /\ uncounted \in Nat /\ MaxTestCalls \in Nat
    BY GuideFields
  <2>3. One(c.state) \in {0, 1} /\ One(s) \in {0, 1}
    BY DEF One
  <2>4. /\ rang + others + One(c.state) <= tries + uncounted
        /\ rang + others + One(c.state) <= MaxTestCalls + uncounted
    <3>1. /\ rang + (others + One(c.state)) <= tries + uncounted
          /\ rang + (others + One(c.state)) <= MaxTestCalls + uncounted
      BY <2>1, <2>2 DEF RingInv
    <3> QED  BY <2>2, <2>3, <3>1
  <2>5. /\ rang' + others + One(s) <= tries' + uncounted'
        /\ rang' + others + One(s) <= MaxTestCalls + uncounted'
    BY <2>4
  <2>6. tries' \in Nat
    OBVIOUS
  <2>7. /\ rang' + (others + One(s)) <= tries' + uncounted'
        /\ rang' + (others + One(s)) <= MaxTestCalls + uncounted'
    BY <2>2, <2>3, <2>5, <2>6
  <2>8. /\ rang' + Waiting' <= tries' + uncounted'
        /\ rang' + Waiting' <= MaxTestCalls + uncounted'
    BY <2>1, <2>7
  <2>9. rang > 0 => rang' > 0
    BY <2>2
  <2>10. "test_call" \in done' => rang' > 0
    BY <2>2, <2>9 DEF RingInv
  <2>11. \A d \in steps' : d.kind = "test_call" /\ d.state = "ringing" => rang' > 0
    BY <1>1, <1>3, <2>2, <2>9 DEF RingInv
  <2> QED  BY <2>8, <2>10, <2>11 DEF RingInv
<1>7. StatusInv'
  BY <1>1, <1>3, StatusGoesOn
<1> QED  BY <1>2, <1>4, <1>5, <1>6, <1>7 DEF GuideInv

LEMMA CountCallHolds ==
  ASSUME GuideInv, O!Assumptions, NEW c \in steps, O!CountTestCall(c)
  PROVE  GuideInv'
<1>1. /\ tries \in Nat /\ rang \in Nat /\ MaxTestCalls \in Nat /\ uncounted \in Nat
      /\ tries \in 0..(MaxTestCalls + 1)
  BY GuideFields
<1>2. /\ c.kind = "test_call" /\ c.state = "asked" /\ rang' = rang /\ uncounted' = uncounted
      /\ UNCHANGED <<done, page, behind, deleted, missing>>
  BY DEF O!CountTestCall
<1>3. One("asked") = 0 /\ One("first") = 0 /\ One("refused") = 0 /\ One("checked") = 1
  BY DEF One
<1>4. CASE tries' = tries /\ (O!Becomes(c, "refused") \/ O!Becomes(c, "first"))
  <2>1. PICK s \in {"first", "refused"} : O!Becomes(c, s)
    BY <1>4
  <2>2. One(s) = 0
    BY <1>3
  <2> QED  BY <1>1, <1>2, <1>3, <1>4, <2>1, <2>2, TestCallHolds
<1>5. CASE /\ tries' = IF tries <= MaxTestCalls THEN tries + 1 ELSE tries
           /\ O!Becomes(c, O!Rings(tries + 1))
  <2>1. PICK s : s = O!Rings(tries + 1)
    OBVIOUS
  <2>2. s \in {"checked", "refused"} /\ (s = "checked" => tries + 1 <= MaxTestCalls)
    BY <2>1 DEF O!Rings
  <2>3. tries' \in 0..(MaxTestCalls + 1) /\ tries' >= tries
    BY <1>1, <1>5
  <2>4. One(s) = 0 \/ (One(s) = 1 /\ tries' = tries + 1 /\ tries + 1 <= MaxTestCalls)
    BY <1>1, <1>3, <1>5, <2>2
  <2>5. \A others \in {0, 1} :
           /\ rang + others + One(c.state) <= tries + uncounted
           /\ rang + others + One(c.state) <= MaxTestCalls + uncounted
           => /\ rang' + others + One(s) <= tries' + uncounted'
              /\ rang' + others + One(s) <= MaxTestCalls + uncounted'
    <3>1. PICK n : n = tries'
      OBVIOUS
    <3>2. n \in Nat /\ n >= tries
      BY <1>1, <2>3, <3>1
    <3> QED  BY <1>1, <1>2, <1>3, <2>4, <3>1, <3>2
  <2>6. O!Becomes(c, s)
    BY <1>5, <2>1
  <2>7. rang' >= rang /\ rang' \in Nat /\ uncounted' \in Nat
    BY <1>1, <1>2
  <2> QED  BY <1>2, <2>2, <2>3, <2>5, <2>6, <2>7, TestCallHolds
<1> QED  BY <1>4, <1>5 DEF O!CountTestCall

LEMMA FirstCallHolds ==
  ASSUME GuideInv, O!Assumptions, NEW c \in steps, O!FirstTestCall(c)
  PROVE  GuideInv'
<1>1. /\ tries \in Nat /\ rang \in Nat /\ MaxTestCalls \in Nat /\ uncounted \in Nat
      /\ MaxTestCalls > 0
  BY GuideFields
<1>2. /\ c.kind = "test_call" /\ c.state = "first" /\ rang' = rang /\ tries' = 1
      /\ uncounted' = uncounted + tries /\ UNCHANGED <<done, page, behind, deleted, missing>>
  BY DEF O!FirstTestCall
<1>3. PICK s : s = O!Rings(1)
  OBVIOUS
<1>4. s \in {"checked", "refused"} /\ O!Becomes(c, s)
  BY <1>3 DEF O!FirstTestCall, O!Rings
<1>5. One(c.state) = 0 /\ One(s) \in {0, 1}
  BY <1>2 DEF One
<1>6. tries' \in 0..(MaxTestCalls + 1) /\ uncounted' \in Nat /\ rang' \in Nat /\ rang' >= rang
  BY <1>1, <1>2
<1>7. \A others \in {0, 1} :
         /\ rang + others + One(c.state) <= tries + uncounted
         /\ rang + others + One(c.state) <= MaxTestCalls + uncounted
         => /\ rang' + others + One(s) <= tries' + uncounted'
            /\ rang' + others + One(s) <= MaxTestCalls + uncounted'
  BY <1>1, <1>2, <1>5
<1> QED  BY <1>2, <1>4, <1>6, <1>7, TestCallHolds

LEMMA RingsHold ==
  ASSUME GuideInv, O!Assumptions, NEW c \in steps, O!RingTestCall(c)
  PROVE  GuideInv'
<1>1. /\ tries \in Nat /\ rang \in Nat /\ MaxTestCalls \in Nat /\ uncounted \in Nat
      /\ tries \in 0..(MaxTestCalls + 1)
  BY GuideFields
<1>2. /\ c.kind = "test_call" /\ c.state = "checked" /\ tries' = tries
      /\ uncounted' = uncounted /\ UNCHANGED <<done, page, behind, deleted, missing>>
  BY DEF O!RingTestCall
<1>3. One("checked") = 1 /\ One("ringing") = 0 /\ One("refused") = 0
  BY DEF One
<1>4. CASE rang' = rang + 1 /\ O!Becomes(c, "ringing")
  <2>1. rang' \in Nat /\ rang' >= rang /\ rang' > 0
    BY <1>1, <1>4
  <2>2. \A others \in {0, 1} :
           /\ rang + others + One(c.state) <= tries + uncounted
           /\ rang + others + One(c.state) <= MaxTestCalls + uncounted
           => /\ rang' + others + One("ringing") <= tries' + uncounted'
              /\ rang' + others + One("ringing") <= MaxTestCalls + uncounted'
    BY <1>1, <1>2, <1>3, <1>4
  <2> QED  BY <1>1, <1>2, <1>4, <2>1, <2>2, TestCallHolds
<1>5. CASE O!Becomes(c, "refused") /\ UNCHANGED rang
  BY <1>1, <1>2, <1>3, <1>5, TestCallHolds
<1> QED  BY <1>4, <1>5 DEF O!RingTestCall

LEMMA TestCallsHold ==
  ASSUME GuideInv, O!Assumptions, NEW c \in steps,
         O!CountTestCall(c) \/ O!FirstTestCall(c) \/ O!RingTestCall(c)
  PROVE  GuideInv'
BY CountCallHolds, FirstCallHolds, RingsHold

LEMMA GuideElsewhereHolds ==
  ASSUME GuideInv, O!Assumptions, O!DeleteServices \/ \E step \in O!Elsewhere : O!DoneElsewhere(step)
  PROVE  GuideInv'
<1>1. /\ behind' = TRUE /\ UNCHANGED <<tries, rang, uncounted, missing, page, steps>>
      /\ done' \subseteq O!Step /\ ("test_call" \in done' => "test_call" \in done)
  BY GuideFields DEF O!DeleteServices, O!DoneElsewhere, O!Elsewhere, O!Step, O!Required, O!counters
<1>2. deleted' \in BOOLEAN
  BY GuideFields DEF O!DeleteServices, O!DoneElsewhere, O!counters
<1>3. O!TypeOK'
  BY <1>1, <1>2 DEF GuideInv, O!TypeOK
<1>4. StepsInv'
  BY <1>1, GuideFields DEF StepsInv
<1>5. RingInv'
  BY <1>1, RingStays
<1>6. StatusInv'
  BY <1>1 DEF StatusInv
<1>7. ReadyInv'
  <2>1. CASE O!DeleteServices
    <3>1. deleted' = (deleted \/ \E c \in steps : c.kind = "go_live" /\ c.state = "checked")
      BY <2>1 DEF O!DeleteServices, O!counters
    <3> QED  BY <1>1, <3>1, GuideFields DEF ReadyInv
  <2>2. CASE \E step \in O!Elsewhere : O!DoneElsewhere(step)
    <3>1. deleted' = deleted /\ done \subseteq done'
      BY <2>2 DEF O!DoneElsewhere, O!counters
    <3> QED  BY <1>1, <3>1, ReadyStays
  <2> QED  BY <2>1, <2>2
<1> QED  BY <1>3, <1>4, <1>5, <1>6, <1>7 DEF GuideInv

LEMMA GuideMoves == GuideInv /\ O!Assumptions /\ O!Next => GuideInv'
<1> SUFFICES ASSUME GuideInv, O!Assumptions, O!Next PROVE GuideInv'  OBVIOUS
<1>1. CASE O!OpenPage
  BY <1>1, OpenGuideHolds
<1>2. CASE O!SetVoice \/ O!TriggerTestCall \/ O!GoLive
  BY <1>2, PressHolds DEF O!SetVoice, O!TriggerTestCall, O!GoLive, O!Kind
<1>7. CASE O!OtherTestCall
  BY <1>7, OtherTestCallHolds
<1>3. ASSUME NEW ch \in Channel, O!SendCode(ch) \/ O!Confirm(ch) PROVE GuideInv'
  BY <1>3, PressHolds DEF O!SendCode, O!Confirm, O!Kind
<1>4. CASE O!DeleteServices \/ \E step \in O!Elsewhere : O!DoneElsewhere(step)
  BY <1>4, GuideElsewhereHolds
<1>5. ASSUME NEW c \in steps,
             \/ O!StatusArrives(c) \/ O!StatusFails(c) \/ O!CodeSent(c) \/ O!StepDone(c)
             \/ O!StepFailed(c) \/ O!OtherEnds(c)
      PROVE  GuideInv'
  <2>1. O!StatusFails(c) \/ O!CodeSent(c) \/ O!StepFailed(c) \/ O!OtherEnds(c) =>
          steps' = steps \ {c}
    BY DEF O!OtherEnds, O!StatusFails, O!CodeSent, O!StepFailed, O!counters
  <2> QED  BY <1>5, <2>1, StatusArrivesHolds, StepDoneHolds, GuideEndsHold
<1>6. ASSUME NEW c \in steps,
             \/ O!AnswerLost(c)
             \/ O!Status(c) \/ O!ServeSend(c) \/ O!ServeConfirm(c) \/ O!ServeVoice(c)
             \/ O!CountTestCall(c) \/ O!FirstTestCall(c) \/ O!RingTestCall(c) \/ O!StoreTestCall(c)
             \/ O!StoreFails(c) \/ O!CheckLive(c) \/ O!StoreLive(c)
      PROVE  GuideInv'
  BY <1>6, StatusHolds, GuideAnswersHold, StoresHold, TestCallsHold
<1> QED  BY <1>1, <1>2, <1>3, <1>4, <1>5, <1>6, <1>7 DEF O!Next

LEMMA GuideStands == GuideInv /\ UNCHANGED starting => GuideInv'
<1> SUFFICES ASSUME GuideInv, UNCHANGED starting PROVE GuideInv'  OBVIOUS
<1>1. UNCHANGED <<done, tries, rang, uncounted, page, steps, behind, deleted, missing, uncounted>>
  BY DEF starting
<1>2. O!TypeOK'
  BY <1>1 DEF GuideInv, O!TypeOK
<1>3. StepsInv' /\ ReadyInv' /\ RingInv'
  BY <1>1 DEF GuideInv, StepsInv, ReadyInv, RingInv, Waiting, Held
<1>4. StatusInv'
  BY <1>1 DEF GuideInv, StatusInv, Told, O!Newest
<1> QED  BY <1>2, <1>3, <1>4 DEF GuideInv

-----------------------------------------------------------------------------
(* The demo businesses.                                                    *)

\* What a process does, write by write.
Writing ==
  [do : {"read", "delete", "insert"}, of : D!Collection, at : {"glow", "sunrise"}]

Script == D!Addition \o <<D!Insert("platform_admins", "sunrise")>>
Plan == {D!Removal, D!Addition \o <<>>, Script}

\* Every plan removes first, and then adds, each business before what is of it.
Planned(plan) ==
  /\ plan \in Seq(Writing) /\ Len(plan) \in {8, 16, 17}
  /\ Len(plan) = 8 <=> plan = D!Removal
  /\ plan[1] = D!ReadIds /\ plan[2] = D!Delete("bookings") /\ plan[3] = D!Delete("call_logs")
  /\ plan[4] = D!Delete("audit_logs") /\ plan[5] = D!Delete("admins")
  /\ plan[6] = D!Delete("businesses") /\ plan[7] = D!Delete("platform_admins")
  /\ plan[8] = D!Delete("leads")
  /\ Len(plan) > 8 =>
       /\ plan[9] = D!Insert("businesses", "glow") /\ plan[10] = D!Insert("admins", "glow")
       /\ plan[11] = D!Insert("bookings", "glow") /\ plan[12] = D!Insert("call_logs", "glow")
       /\ plan[13] = D!Insert("audit_logs", "glow")
       /\ plan[14] = D!Insert("businesses", "sunrise")
       /\ plan[15] = D!Insert("admins", "sunrise") /\ plan[16] = D!Insert("leads", "sunrise")
  /\ Len(plan) = 17 => plan[17] = D!Insert("platform_admins", "sunrise")

LEMMA WritingFields ==
  /\ D!ReadIds \in Writing
  /\ \A c \in D!Collection : D!Delete(c) \in Writing
  /\ \A c \in D!Collection, name \in {"glow", "sunrise"} : D!Insert(c, name) \in Writing
BY DEF Writing, D!ReadIds, D!Delete, D!Insert, D!Collection

LEMMA RemovalPlanned ==
  /\ D!Removal \in Seq(Writing) /\ Len(D!Removal) = 8
  /\ D!Removal[1] = D!ReadIds /\ D!Removal[2] = D!Delete("bookings")
  /\ D!Removal[3] = D!Delete("call_logs") /\ D!Removal[4] = D!Delete("audit_logs")
  /\ D!Removal[5] = D!Delete("admins") /\ D!Removal[6] = D!Delete("businesses")
  /\ D!Removal[7] = D!Delete("platform_admins") /\ D!Removal[8] = D!Delete("leads")
<1>1. /\ D!ReadIds \in Writing /\ D!Delete("bookings") \in Writing
      /\ D!Delete("call_logs") \in Writing /\ D!Delete("audit_logs") \in Writing
      /\ D!Delete("admins") \in Writing /\ D!Delete("businesses") \in Writing
      /\ D!Delete("platform_admins") \in Writing /\ D!Delete("leads") \in Writing
  BY WritingFields DEF D!Collection
<1> QED  BY <1>1 DEF D!Removal

\* u is s, and then t; and is s, and then w.
Joins(u, s, t) ==
  /\ u \in Seq(Writing) /\ Len(u) = Len(s) + Len(t)
  /\ \A k \in 1..Len(s) : u[k] = s[k]
  /\ \A k \in 1..Len(t) : u[Len(s) + k] = t[k]

Ends(u, s, w) ==
  /\ u \in Seq(Writing) /\ Len(u) = Len(s) + 1
  /\ \A k \in 1..Len(s) : u[k] = s[k]
  /\ u[Len(s) + 1] = w

LEMMA DemoJoined ==
  ASSUME NEW s \in Seq(Writing), NEW t \in Seq(Writing), NEW u, u = s \o t
  PROVE  Joins(u, s, t)
<1>1. PICK m \in Nat, n \in Nat : m = Len(s) /\ n = Len(t)
  BY LenProperties
<1>2. /\ u \in Seq(Writing) /\ Len(u) = m + n
      /\ \A k \in 1..(m + n) : u[k] = IF k <= m THEN s[k] ELSE t[k - m]
  BY <1>1, ConcatProperties
<1>3. ASSUME NEW k \in 1..m PROVE u[k] = s[k]
  BY <1>2
<1>4. ASSUME NEW k \in 1..n PROVE u[m + k] = t[k]
  <2>1. m + k \in 1..(m + n) /\ ~(m + k <= m) /\ (m + k) - m = k
    OBVIOUS
  <2> QED  BY <1>2, <2>1
<1> QED  BY <1>1, <1>2, <1>3, <1>4 DEF Joins

LEMMA Longer ==
  ASSUME NEW s \in Seq(Writing), NEW w \in Writing, NEW u, u = s \o <<w>>
  PROVE  Ends(u, s, w)
<1>1. PICK t : t = <<w>>
  OBVIOUS
<1>2. t \in Seq(Writing) /\ Len(t) = 1 /\ t[1] = w
  BY <1>1
<1>3. /\ u \in Seq(Writing) /\ Len(u) = Len(s) + Len(t)
      /\ \A k \in 1..Len(s) : u[k] = s[k]
      /\ \A k \in 1..Len(t) : u[Len(s) + k] = t[k]
  BY <1>1, <1>2, DemoJoined DEF Joins
<1>4. 1 \in 1..1
  OBVIOUS
<1> QED  BY <1>2, <1>3, <1>4 DEF Ends

LEMMA FlagshipPlanned ==
  /\ D!Flagship \in Seq(Writing) /\ Len(D!Flagship) = 5
  /\ D!Flagship[1] = D!Insert("businesses", "glow") /\ D!Flagship[2] = D!Insert("admins", "glow")
  /\ D!Flagship[3] = D!Insert("bookings", "glow") /\ D!Flagship[4] = D!Insert("call_logs", "glow")
  /\ D!Flagship[5] = D!Insert("audit_logs", "glow")
<1>1. /\ D!Insert("businesses", "glow") \in Writing /\ D!Insert("admins", "glow") \in Writing
      /\ D!Insert("bookings", "glow") \in Writing /\ D!Insert("call_logs", "glow") \in Writing
      /\ D!Insert("audit_logs", "glow") \in Writing
  BY WritingFields DEF D!Collection
<1>2. /\ D!Studio \in Seq(Writing) /\ Len(D!Studio) = 2
      /\ D!Studio[1] = D!Insert("businesses", "glow") /\ D!Studio[2] = D!Insert("admins", "glow")
  BY <1>1 DEF D!Studio
<1>3. PICK a : a = D!Studio \o <<D!Insert("bookings", "glow")>>
  OBVIOUS
<1>4. a \in Seq(Writing) /\ Len(a) = 2 + 1 /\ (\A k \in 1..2 : a[k] = D!Studio[k])
      /\ a[2 + 1] = D!Insert("bookings", "glow")
  <2>1. Ends(a, D!Studio, D!Insert("bookings", "glow"))
    BY <1>1, <1>2, <1>3, Longer
  <2> QED  BY <1>2, <2>1 DEF Ends
<1>5. PICK b : b = a \o <<D!Insert("call_logs", "glow")>>
  OBVIOUS
<1>6. b \in Seq(Writing) /\ Len(b) = 3 + 1 /\ (\A k \in 1..3 : b[k] = a[k])
      /\ b[3 + 1] = D!Insert("call_logs", "glow")
  <2>1. Ends(b, a, D!Insert("call_logs", "glow"))
    BY <1>1, <1>4, <1>5, Longer
  <2> QED  BY <1>4, <2>1 DEF Ends
<1>7. PICK c : c = b \o <<D!Insert("audit_logs", "glow")>>
  OBVIOUS
<1>8. c \in Seq(Writing) /\ Len(c) = 4 + 1 /\ (\A k \in 1..4 : c[k] = b[k])
      /\ c[4 + 1] = D!Insert("audit_logs", "glow")
  <2>1. b \in Seq(Writing) /\ Len(b) = 4 /\ D!Insert("audit_logs", "glow") \in Writing
    BY <1>1, <1>6
  <2>2. Ends(c, b, D!Insert("audit_logs", "glow"))
    BY <1>7, <2>1, Longer
  <2> QED  BY <2>1, <2>2 DEF Ends
<1>9. D!Flagship = c
  BY <1>3, <1>5, <1>7 DEF D!Flagship, D!Visits, D!Calls, D!Trail
<1>10. c[1] = D!Studio[1] /\ c[2] = D!Studio[2]
  BY <1>4, <1>6, <1>8
<1>11. c[3] = D!Insert("bookings", "glow") /\ c[4] = D!Insert("call_logs", "glow")
       /\ c[5] = D!Insert("audit_logs", "glow") /\ Len(c) = 5
  BY <1>4, <1>6, <1>8
<1> QED  BY <1>2, <1>8, <1>9, <1>10, <1>11

LEMMA AdditionPlanned == Planned(D!Addition) /\ Len(D!Addition) = 16
<1>1. /\ D!Insert("businesses", "sunrise") \in Writing /\ D!Insert("admins", "sunrise") \in Writing
      /\ D!Insert("leads", "sunrise") \in Writing
  BY WritingFields DEF D!Collection
<1>2. PICK a : a = D!Removal \o D!Flagship
  OBVIOUS
<1>3. D!Removal \in Seq(Writing) /\ Len(D!Removal) = 8
      /\ D!Flagship \in Seq(Writing) /\ Len(D!Flagship) = 5
  BY RemovalPlanned, FlagshipPlanned
<1>4. /\ a \in Seq(Writing) /\ Len(a) = 8 + 5 /\ \A k \in 1..8 : a[k] = D!Removal[k]
      /\ \A k \in 1..5 : a[8 + k] = D!Flagship[k]
  <2>1. Joins(a, D!Removal, D!Flagship)
    BY <1>2, <1>3, DemoJoined
  <2> QED  BY <1>3, <2>1 DEF Joins
<1>5. /\ a[9] = D!Flagship[1] /\ a[10] = D!Flagship[2] /\ a[11] = D!Flagship[3]
      /\ a[12] = D!Flagship[4] /\ a[13] = D!Flagship[5] /\ Len(a) = 13
  BY <1>4
<1>6. /\ D!Newcomer \in Seq(Writing) /\ Len(D!Newcomer) = 2
      /\ D!Newcomer[1] = D!Insert("businesses", "sunrise")
      /\ D!Newcomer[2] = D!Insert("admins", "sunrise")
  BY <1>1 DEF D!Newcomer
<1>7. PICK b : b = a \o D!Newcomer
  OBVIOUS
<1>8. /\ b \in Seq(Writing) /\ Len(b) = 13 + 2 /\ \A k \in 1..13 : b[k] = a[k]
      /\ \A k \in 1..2 : b[13 + k] = D!Newcomer[k]
  <2>1. a \in Seq(Writing) /\ Len(a) = 13 /\ D!Newcomer \in Seq(Writing) /\ Len(D!Newcomer) = 2
    BY <1>4, <1>5, <1>6
  <2>2. Joins(b, a, D!Newcomer)
    BY <1>7, <2>1, DemoJoined
  <2> QED  BY <2>1, <2>2 DEF Joins
<1>9. b[14] = D!Newcomer[1] /\ b[15] = D!Newcomer[2] /\ Len(b) = 15
  BY <1>8
<1>10. PICK c : c = b \o <<D!Insert("leads", "sunrise")>>
  OBVIOUS
<1>11. /\ c \in Seq(Writing) /\ Len(c) = 15 + 1 /\ \A k \in 1..15 : c[k] = b[k]
       /\ c[15 + 1] = D!Insert("leads", "sunrise")
  <2>1. b \in Seq(Writing) /\ Len(b) = 15 /\ D!Insert("leads", "sunrise") \in Writing
    BY <1>1, <1>8, <1>9
  <2>2. Ends(c, b, D!Insert("leads", "sunrise"))
    BY <1>10, <2>1, Longer
  <2> QED  BY <2>1, <2>2 DEF Ends
<1>12. D!Addition = c
  BY <1>2, <1>7, <1>10 DEF D!Addition
<1>13. \A k \in 1..8 : c[k] = D!Removal[k]
  BY <1>4, <1>8, <1>11
<1>14. /\ c[1] = D!ReadIds /\ c[2] = D!Delete("bookings") /\ c[3] = D!Delete("call_logs")
       /\ c[4] = D!Delete("audit_logs") /\ c[5] = D!Delete("admins")
       /\ c[6] = D!Delete("businesses") /\ c[7] = D!Delete("platform_admins")
       /\ c[8] = D!Delete("leads")
  BY <1>13, RemovalPlanned
<1>15. /\ c[9] = a[9] /\ c[10] = a[10] /\ c[11] = a[11] /\ c[12] = a[12] /\ c[13] = a[13]
       /\ c[14] = b[14] /\ c[15] = b[15]
  BY <1>8, <1>11
<1>16. /\ c[9] = D!Insert("businesses", "glow") /\ c[10] = D!Insert("admins", "glow")
       /\ c[11] = D!Insert("bookings", "glow") /\ c[12] = D!Insert("call_logs", "glow")
       /\ c[13] = D!Insert("audit_logs", "glow")
  BY <1>5, <1>15, FlagshipPlanned
<1>17. /\ c[14] = D!Insert("businesses", "sunrise") /\ c[15] = D!Insert("admins", "sunrise")
       /\ c[16] = D!Insert("leads", "sunrise") /\ Len(c) = 16
  BY <1>6, <1>9, <1>11, <1>15
<1>18. c # D!Removal
  <2>1. Len(c) = 16
    BY <1>17
  <2>2. Len(D!Removal) = 8
    BY <1>3
  <2> QED  BY <2>1, <2>2
<1>19. c \in Seq(Writing) /\ Len(c) = 16 /\ Len(c) # 8 /\ Len(c) # 17 /\ Len(c) \in {8, 16, 17}
  BY <1>11, <1>17
<1>20. Planned(c)
  BY <1>14, <1>16, <1>17, <1>18, <1>19, Zenon DEF Planned
<1> QED  BY <1>12, <1>19, <1>20

LEMMA PlansPlanned == \A plan \in Plan : Planned(plan)
<1>1. Planned(D!Removal)
  BY RemovalPlanned DEF Planned
<1>2. PICK c : c = D!Addition
  OBVIOUS
<1>3. Planned(c) /\ c \in Seq(Writing) /\ Len(c) = 16
  BY <1>2, AdditionPlanned DEF Planned
<1>4. c \o <<>> = c
  BY <1>3, ConcatEmptySeq
<1>5. PICK d : d = c \o <<D!Insert("platform_admins", "sunrise")>>
  OBVIOUS
<1>6. D!Insert("platform_admins", "sunrise") \in Writing
  BY WritingFields DEF D!Collection
<1>7. /\ d \in Seq(Writing) /\ Len(d) = 16 + 1 /\ \A k \in 1..16 : d[k] = c[k]
      /\ d[16 + 1] = D!Insert("platform_admins", "sunrise")
  <2>1. Ends(d, c, D!Insert("platform_admins", "sunrise"))
    BY <1>3, <1>5, <1>6, Longer
  <2> QED  BY <1>3, <2>1 DEF Ends
<1>8. Len(d) = 17 /\ d[17] = D!Insert("platform_admins", "sunrise")
  BY <1>7
<1>9. d # D!Removal
  <2>1. Len(d) = 17
    BY <1>8
  <2>2. Len(D!Removal) = 8
    BY RemovalPlanned
  <2> QED  BY <2>1, <2>2
<1>10. /\ d[1] = c[1] /\ d[2] = c[2] /\ d[3] = c[3] /\ d[4] = c[4] /\ d[5] = c[5] /\ d[6] = c[6]
       /\ d[7] = c[7] /\ d[8] = c[8] /\ d[9] = c[9] /\ d[10] = c[10] /\ d[11] = c[11]
       /\ d[12] = c[12] /\ d[13] = c[13] /\ d[14] = c[14] /\ d[15] = c[15] /\ d[16] = c[16]
  BY <1>7
<1>11. Planned(d)
  BY <1>3, <1>7, <1>8, <1>9, <1>10 DEF Planned
<1>12. Script = d
  BY <1>2, <1>5 DEF Script
<1> QED  BY <1>1, <1>2, <1>3, <1>4, <1>11, <1>12 DEF Plan

LEMMA PlanKinds ==
  ASSUME NEW plan \in Plan, NEW k \in 1..Len(plan)
  PROVE  /\ plan[k].do = "read" => k = 1
         /\ plan[k].do = "delete" => k \in 2..8
         /\ plan[k].do = "insert" => k \in 9..17 /\ Len(plan) > 8
<1>1. Planned(plan)
  BY PlansPlanned
<1>2. PICK n \in {8, 16, 17} : n = Len(plan)
  BY <1>1 DEF Planned
<1> k \in 1..n /\ k \in 1..17
  BY <1>2
<1>3. CASE k \in 1..8
  <2>1. plan[1].do = "read"
    BY <1>1 DEF Planned, D!ReadIds
  <2>2. /\ plan[2].do = "delete" /\ plan[3].do = "delete" /\ plan[4].do = "delete"
        /\ plan[5].do = "delete" /\ plan[6].do = "delete" /\ plan[7].do = "delete"
        /\ plan[8].do = "delete"
    BY <1>1 DEF Planned, D!Delete
  <2> QED  BY <1>3, <2>1, <2>2
<1>4. CASE k \in 9..16
  <2>1. Len(plan) > 8
    BY <1>2, <1>4
  <2>2. /\ plan[9].do = "insert" /\ plan[10].do = "insert" /\ plan[11].do = "insert"
        /\ plan[12].do = "insert" /\ plan[13].do = "insert" /\ plan[14].do = "insert"
        /\ plan[15].do = "insert" /\ plan[16].do = "insert"
    BY <1>1, <2>1 DEF Planned, D!Insert
  <2> QED  BY <1>4, <2>1, <2>2
<1>5. CASE k = 17
  <2>1. Len(plan) = 17
    <3>1. n = 17
      BY <1>5
    <3> QED  BY <1>2, <3>1
  <2>2. plan[17].do = "insert"
    BY <1>1, <2>1 DEF Planned, D!Insert
  <2> QED  BY <1>5, <2>1, <2>2
<1> QED  BY <1>2, <1>3, <1>4, <1>5

LEMMA PlanOf ==
  ASSUME NEW plan \in Plan
  PROVE  /\ plan[2].of = "bookings" /\ plan[3].of = "call_logs" /\ plan[4].of = "audit_logs"
         /\ plan[5].of = "admins" /\ plan[6].of = "businesses" /\ plan[7].of = "platform_admins"
         /\ plan[8].of = "leads"
BY PlansPlanned DEF Planned, D!Delete

\* What an insert is of, and of which business.
LEMMA PlanAt ==
  ASSUME NEW plan \in Plan, NEW k \in 9..17, k <= Len(plan)
  PROVE  /\ plan[k].of \in {"businesses", "admins", "bookings", "call_logs", "audit_logs",
                            "leads", "platform_admins"}
         /\ plan[k].at \in {"glow", "sunrise"}
         /\ k = 9 => plan[k].of = "businesses" /\ plan[k].at = "glow"
         /\ k = 14 => plan[k].of = "businesses" /\ plan[k].at = "sunrise"
         /\ plan[k].of \notin {"businesses", "leads", "platform_admins"} =>
              \/ k >= 10 /\ plan[k].at = "glow"
              \/ k >= 15 /\ plan[k].at = "sunrise"
<1>1. Planned(plan)
  BY PlansPlanned
<1>2. PICK n \in {8, 16, 17} : n = Len(plan)
  BY <1>1 DEF Planned
<1> k <= n
  BY <1>2
<1>3. CASE k \in 9..16
  <2>1. Len(plan) > 8
    BY <1>2, <1>3
  <2>2. /\ plan[9].of = "businesses" /\ plan[9].at = "glow"
        /\ plan[10].of = "admins" /\ plan[10].at = "glow"
        /\ plan[11].of = "bookings" /\ plan[11].at = "glow"
        /\ plan[12].of = "call_logs" /\ plan[12].at = "glow"
        /\ plan[13].of = "audit_logs" /\ plan[13].at = "glow"
        /\ plan[14].of = "businesses" /\ plan[14].at = "sunrise"
        /\ plan[15].of = "admins" /\ plan[15].at = "sunrise"
        /\ plan[16].of = "leads" /\ plan[16].at = "sunrise"
    BY <1>1, <2>1 DEF Planned, D!Insert
  <2>3. k = 9 \/ k = 10 \/ k = 11 \/ k = 12 \/ k = 13 \/ k = 14 \/ k = 15 \/ k = 16
    BY <1>3
  <2> QED  BY <2>2, <2>3
<1>4. CASE k = 17
  <2>1. Len(plan) = 17
    <3>1. n = 17
      BY <1>4
    <3> QED  BY <1>2, <3>1
  <2>2. plan[17].of = "platform_admins" /\ plan[17].at = "sunrise"
    BY <1>1, <2>1 DEF Planned, D!Insert
  <2> QED  BY <1>4, <2>2
<1> QED  BY <1>3, <1>4

\* What is left of a plan.
Ahead(plan, k) == SubSeq(plan, k, Len(plan))

LEMMA AheadMoves ==
  ASSUME NEW plan \in Plan, NEW k \in 1..Len(plan)
  PROVE  /\ Head(Ahead(plan, k)) = plan[k] /\ Ahead(plan, k) # <<>>
         /\ Tail(Ahead(plan, k)) = Ahead(plan, k + 1)
         /\ k = Len(plan) => Ahead(plan, k + 1) = <<>>
         /\ Ahead(plan, k) = <<D!Delete("leads")>> => k = 8 /\ plan = D!Removal
<1>1. plan \in Seq(Writing) /\ Len(plan) \in Nat /\ (Len(plan) = 8 <=> plan = D!Removal)
  BY PlansPlanned, LenProperties DEF Planned
<1>2. Len(plan) \in k..Len(plan)
  BY <1>1
<1>3. /\ Head(Ahead(plan, k)) = plan[k]
      /\ Tail(Ahead(plan, k)) = Ahead(plan, k + 1)
  BY <1>1, <1>2, HeadTailOfSubSeq DEF Ahead
<1>4. Len(Ahead(plan, k)) = Len(plan) - k + 1
  <2>1. \A i \in k..Len(plan) : plan[i] \in Writing
    BY <1>1, ElementOfSeq
  <2>2. k \in Int /\ Len(plan) \in Int /\ k <= Len(plan)
    BY <1>1
  <2> QED  BY <2>1, <2>2, SubSeqProperties DEF Ahead
<1>5. Ahead(plan, k) # <<>>
  BY <1>1, <1>4
<1>6. k = Len(plan) => Ahead(plan, k + 1) = <<>>
  BY <1>1, SubSeqEmpty DEF Ahead
<1>7. ASSUME Ahead(plan, k) = <<D!Delete("leads")>> PROVE k = 8 /\ plan = D!Removal
  <2>1. Len(Ahead(plan, k)) = 1
    BY <1>7
  <2>2. k = Len(plan)
    <3>1. PICK n \in Nat : n = Len(plan)
      BY <1>1
    <3>2. n - k + 1 = 1
      BY <1>4, <2>1, <3>1
    <3> QED  BY <3>1, <3>2
  <2>3. plan[k] = D!Delete("leads")
    BY <1>3, <1>7
  <2>4. k \in 2..8
    BY <2>3, PlanKinds DEF D!Delete
  <2>5. Len(plan) \in {8, 16, 17}
    BY PlansPlanned DEF Planned
  <2> QED  BY <1>1, <2>2, <2>4, <2>5
<1> QED  BY <1>3, <1>5, <1>6, <1>7

LEMMA AheadStarts == \A plan \in Plan : Ahead(plan, 1) = plan /\ 1 \in 1..Len(plan)
<1>1. ASSUME NEW plan \in Plan PROVE Ahead(plan, 1) = plan /\ 1 \in 1..Len(plan)
  <2>1. plan \in Seq(Writing) /\ Len(plan) \in {8, 16, 17}
    BY PlansPlanned DEF Planned
  <2> QED  BY <2>1, SubSeqFull DEF Ahead
<1> QED  BY <1>1

-----------------------------------------------------------------------------
Marks(b) == <<"businesses", b>> \in demo

\* A collection without rows of a business that was made up.
Cleared(c) == \A r \in demo : r[1] = c => r[2] \notin D!Made

\* Where a process is in its plan, and what that has done.
Reached(p, k) ==
  /\ k \in 2..6 => \A b \in D!Made : Marks(b) => b \in run[p].ids
  /\ k \in 3..6 => Cleared("bookings")
  /\ k \in 4..6 => Cleared("call_logs")
  /\ k \in 5..6 => Cleared("audit_logs")
  /\ k = 6 => Cleared("admins")
  /\ k \in 7..8 => \A r \in demo : r[1] # D!Kept => r[2] \in {Anyone, None}
  /\ k = 8 => \A r \in demo : r[1] # "platform_admins"
  /\ k \in 10..17 => Marks([name |-> "glow", nth |-> run[p].nth])
  /\ k \in 15..17 => Marks([name |-> "sunrise", nth |-> run[p].nth])

Stage(p, plan, k) ==
  /\ run[p].todo = Ahead(plan, k) /\ run[p].nth \in 1..MaxRuns
  /\ ~mixed => Reached(p, k) /\ (emptied => plan = D!Removal)

Errand == [todo : Seq(Writing), nth : 0..MaxRuns, ids : SUBSET D!Made]

RunsInv ==
  /\ run \in [Actor -> Errand]
  /\ \A p \in Actor : D!Busy(p) => \E plan \in Plan : \E k \in 1..Len(plan) : Stage(p, plan, k)
  /\ ~mixed => \A p, q \in Actor : D!Busy(p) /\ D!Busy(q) => p = q

RowsInv ==
  /\ demo \subseteq D!Row
  /\ \A r \in demo : r[2] = None <=> r[1] \in {"leads", "platform_admins"}
  /\ {<<c, Anyone>> : c \in {"businesses", "admins", "bookings"}} \subseteq demo

FoundInv ==
  ~mixed =>
    /\ \A r \in demo : r[1] # D!Kept => r[2] = None \/ Marks(r[2])
    /\ emptied => \A r \in demo : r[1] # D!Kept => r[2] = Anyone

DemoInv ==
  /\ begun \in 0..MaxRuns /\ mixed \in BOOLEAN /\ emptied \in BOOLEAN
  /\ RunsInv /\ RowsInv /\ FoundInv

LEMMA RowFields ==
  ASSUME NEW r \in D!Row
  PROVE  /\ r = <<r[1], r[2]>> /\ r[1] \in D!Collection /\ r[2] \in D!Made \cup {Anyone, None}
BY DEF D!Row

LEMMA DemoFields ==
  ASSUME DemoInv, D!Assumptions
  PROVE  /\ begun \in Nat /\ begun <= MaxRuns /\ MaxRuns \in Nat \ {0}
         /\ mixed \in BOOLEAN /\ emptied \in BOOLEAN
         /\ Anyone # None /\ Anyone \notin D!Made /\ None \notin D!Made
         /\ run \in [Actor -> Errand] /\ demo \subseteq D!Row
         /\ RunsInv /\ RowsInv /\ FoundInv
BY DEF DemoInv, D!Assumptions, RunsInv, RowsInv

LEMMA DemoFlagged ==
  ASSUME DemoInv, D!Assumptions
  PROVE  \A b : b \in D!Flagged <=> Marks(b) /\ b \in D!Made
<1>1. \A b : b \in D!Businesses <=> Marks(b)
  BY DemoFields, RowFields DEF D!Businesses, Marks
<1>2. \A b : Marks(b) => b \in D!Made \cup {Anyone, None}
  BY DemoFields, RowFields DEF Marks
<1>3. ~Marks(None)
  <2>1. ASSUME Marks(None) PROVE FALSE
    <3>1. PICK r : r = <<"businesses", None>>
      OBVIOUS
    <3>2. r \in demo /\ r[2] = None /\ r[1] = "businesses"
      BY <2>1, <3>1 DEF Marks
    <3> QED  BY <3>2, DemoFields DEF RowsInv
  <2> QED  BY <2>1
<1> QED  BY <1>1, <1>2, <1>3, DemoFields DEF D!Flagged

LEMMA DemoPromises ==
  D!Assumptions /\ DemoInv => D!TypeOK /\ D!Reachable /\ D!RemovedIsGone /\ D!RealStays
<1> SUFFICES ASSUME D!Assumptions, DemoInv
             PROVE  D!TypeOK /\ D!Reachable /\ D!RemovedIsGone /\ D!RealStays
  OBVIOUS
<1>1. D!TypeOK
  <2>1. ASSUME NEW p \in Actor
        PROVE  /\ run[p].nth \in 0..MaxRuns /\ run[p].ids \subseteq D!Made
               /\ \A k \in DOMAIN run[p].todo : run[p].todo[k].of \in D!Collection
    <3>1. run[p] \in Errand
      BY DemoFields
    <3>2. run[p].todo \in Seq(Writing) /\ run[p].nth \in 0..MaxRuns /\ run[p].ids \subseteq D!Made
      BY <3>1 DEF Errand
    <3>3. ASSUME NEW k \in DOMAIN run[p].todo PROVE run[p].todo[k].of \in D!Collection
      <4>1. run[p].todo[k] \in Writing
        BY <3>2, LenProperties, ElementOfSeq
      <4> QED  BY <4>1 DEF Writing
    <3> QED  BY <3>2, <3>3
  <2>2. begun \in 0..MaxRuns /\ mixed \in BOOLEAN /\ emptied \in BOOLEAN /\ demo \subseteq D!Row
    BY DEF DemoInv, RowsInv
  <2> QED  BY <2>1, <2>2 DEF D!TypeOK
<1>2. \A b : b \in D!Businesses <=> Marks(b)
  BY DemoFields, RowFields DEF D!Businesses, Marks
<1>3. D!Reachable
  BY <1>2, DemoFields DEF FoundInv, D!Reachable
<1>4. D!RemovedIsGone
  BY DemoFields DEF FoundInv, D!RemovedIsGone
<1>5. D!RealStays
  BY DemoFields DEF RowsInv, D!RealStays
<1> QED  BY <1>1, <1>3, <1>4, <1>5

LEMMA DemoStarts == D!Assumptions /\ D!Init => DemoInv
<1> SUFFICES ASSUME D!Assumptions, D!Init PROVE DemoInv  OBVIOUS
<1>1. /\ demo = {<<c, Anyone>> : c \in {"businesses", "admins", "bookings"}}
      /\ begun = 0 /\ run = [p \in Actor |-> D!Idle] /\ mixed = FALSE /\ emptied = TRUE
      /\ MaxRuns \in Nat \ {0} /\ Anyone # None
  BY DEF D!Init, D!Assumptions
<1>2. D!Idle \in Errand
  <2>1. <<>> \in Seq(Writing) /\ 0 \in 0..MaxRuns /\ {} \in SUBSET D!Made
    BY <1>1
  <2> QED  BY <2>1 DEF D!Idle, Errand
<1>3. \A p \in Actor : ~D!Busy(p)
  BY <1>1 DEF D!Busy, D!Idle
<1>4. RunsInv
  BY <1>1, <1>2, <1>3 DEF RunsInv
<1>5. RowsInv
  <2>1. demo \subseteq D!Row
    BY <1>1 DEF D!Row, D!Collection
  <2> QED  BY <1>1, <2>1 DEF RowsInv
<1>6. FoundInv
  BY <1>1 DEF FoundInv, Marks
<1>7. begun \in 0..MaxRuns
  BY <1>1
<1> QED  BY <1>1, <1>4, <1>5, <1>6, <1>7 DEF DemoInv

\* A process stops before its end.
LEMMA EndsEarly ==
  ASSUME DemoInv, D!Assumptions, NEW p \in Actor, run' = [run EXCEPT ![p] = D!Idle],
         UNCHANGED <<demo, begun, mixed, emptied>>
  PROVE  DemoInv'
<1>1. D!Idle \in Errand
  <2>1. <<>> \in Seq(Writing) /\ 0 \in 0..MaxRuns /\ {} \in SUBSET D!Made
    BY DemoFields
  <2> QED  BY <2>1 DEF D!Idle, Errand
<1>2. run' \in [Actor -> Errand]
  BY <1>1, DemoFields
<1>3. run'[p].todo = <<>> /\ \A q \in Actor \ {p} : run'[q] = run[q]
  BY DemoFields DEF D!Idle
<1>4. \A q \in Actor : D!Busy(q)' => q # p /\ D!Busy(q)
  BY <1>3 DEF D!Busy
<1>5. ASSUME NEW q \in Actor, D!Busy(q)'
      PROVE  \E plan \in Plan : \E k \in 1..Len(plan) : Stage(q, plan, k)'
  <2>1. run'[q] = run[q] /\ D!Busy(q)
    BY <1>3, <1>4, <1>5
  <2>2. PICK plan \in Plan : \E k \in 1..Len(plan) : Stage(q, plan, k)
    BY <2>1, DemoFields DEF RunsInv
  <2>3. PICK k \in 1..Len(plan) : Stage(q, plan, k)
    BY <2>2
  <2>4. Reached(q, k) => Reached(q, k)'
    BY <2>1 DEF Reached, Marks, Cleared
  <2>5. Stage(q, plan, k)'
    BY <2>1, <2>3, <2>4 DEF Stage
  <2> QED  BY <2>5
<1>6. RunsInv'
  BY <1>2, <1>4, <1>5, DemoFields DEF RunsInv
<1>7. RowsInv'
  BY DemoFields DEF RowsInv
<1>8. FoundInv'
  BY DemoFields DEF FoundInv, Marks
<1> QED  BY <1>6, <1>7, <1>8 DEF DemoInv

LEMMA DemoBeginHolds ==
  ASSUME DemoInv, D!Assumptions, NEW p \in Actor, NEW plan \in Plan, D!Begin(p, plan),
         emptied' = FALSE \/ (emptied' = emptied /\ plan = D!Removal)
  PROVE  DemoInv'
<1>1. PICK w : w = [todo |-> plan, nth |-> begun + 1, ids |-> {}]
  OBVIOUS
<1>2. /\ ~D!Busy(p) /\ ~mixed /\ begun < MaxRuns /\ begun' = begun + 1
      /\ run' = [run EXCEPT ![p] = w]
      /\ mixed' = (mixed \/ \E q \in Actor : D!Busy(q)) /\ demo' = demo
  BY <1>1 DEF D!Begin
<1>3. begun' \in 0..MaxRuns /\ begun + 1 \in 1..MaxRuns /\ begun + 1 \in 0..MaxRuns
  BY <1>2, DemoFields
<1>4. plan = Ahead(plan, 1) /\ 1 \in 1..Len(plan) /\ plan \in Seq(Writing)
  BY AheadStarts, PlansPlanned DEF Planned
<1>5. w \in Errand
  BY <1>1, <1>3, <1>4 DEF Errand
<1>6. run' \in [Actor -> Errand] /\ run'[p] = w /\ \A q \in Actor \ {p} : run'[q] = run[q]
  BY <1>2, <1>5, DemoFields
<1>7. \A q \in Actor : D!Busy(q)' => q = p \/ D!Busy(q)
  BY <1>6 DEF D!Busy
<1>8. ~mixed' => \A q \in Actor : ~D!Busy(q)
  BY <1>2
<1>9. emptied' \in BOOLEAN /\ mixed' \in BOOLEAN /\ (emptied' => plan = D!Removal /\ emptied)
  <2>1. emptied \in BOOLEAN /\ mixed \in BOOLEAN
    BY DemoFields
  <2>2. mixed' \in BOOLEAN
    BY <1>2
  <2>3. CASE emptied' = FALSE
    BY <2>2, <2>3
  <2>4. CASE emptied' = emptied /\ plan = D!Removal
    BY <2>1, <2>2, <2>4
  <2> QED  BY <2>3, <2>4
<1>10. Stage(p, plan, 1)'
  <2>1. run'[p].todo = Ahead(plan, 1) /\ run'[p].nth \in 1..MaxRuns
    BY <1>1, <1>3, <1>4, <1>6
  <2>2. Reached(p, 1)'
    BY DEF Reached
  <2> QED  BY <1>9, <2>1, <2>2 DEF Stage
<1>11. ASSUME NEW q \in Actor, q # p, D!Busy(q)'
       PROVE  \E t \in Plan : \E k \in 1..Len(t) : Stage(q, t, k)'
  <2>1. run'[q] = run[q] /\ D!Busy(q) /\ mixed'
    BY <1>6, <1>7, <1>8, <1>9, <1>11
  <2>2. PICK t \in Plan : \E k \in 1..Len(t) : Stage(q, t, k)
    BY <2>1, DemoFields DEF RunsInv
  <2>3. PICK k \in 1..Len(t) : Stage(q, t, k)
    BY <2>2
  <2>4. Stage(q, t, k)'
    BY <2>1, <2>3 DEF Stage
  <2> QED  BY <2>4
<1>12. RunsInv'
  <2>1. \A q \in Actor : D!Busy(q)' => \E t \in Plan : \E k \in 1..Len(t) : Stage(q, t, k)'
    BY <1>4, <1>10, <1>11
  <2>2. ~mixed' => \A q, r \in Actor : D!Busy(q)' /\ D!Busy(r)' => q = r
    BY <1>7, <1>8
  <2> QED  BY <1>6, <2>1, <2>2 DEF RunsInv
<1>13. RowsInv'
  BY <1>2, DemoFields DEF RowsInv
<1>14. FoundInv'
  BY <1>2, <1>9, DemoFields DEF FoundInv, Marks
<1> QED  BY <1>3, <1>9, <1>12, <1>13, <1>14 DEF DemoInv

LEMMA AddsHold ==
  ASSUME DemoInv, D!Assumptions, NEW p \in Actor,
         D!Remove(p) \/ \E script \in BOOLEAN : D!Add(p, script)
  PROVE  DemoInv'
<1>1. CASE D!Remove(p)
  <2>1. D!Removal \in Plan
    BY DEF Plan
  <2> QED  BY <1>1, <2>1, DemoBeginHolds DEF D!Remove
<1>2. ASSUME NEW script \in BOOLEAN, D!Add(p, script) PROVE DemoInv'
  <2>1. PICK plan : plan = D!Addition \o
                      (IF script THEN <<D!Insert("platform_admins", "sunrise")>> ELSE <<>>)
    OBVIOUS
  <2>2. D!Begin(p, plan) /\ emptied' = FALSE
    BY <1>2, <2>1 DEF D!Add
  <2>3. plan \in Plan
    BY <2>1 DEF Plan, Script
  <2>4. emptied' = FALSE \/ (emptied' = emptied /\ plan = D!Removal)
    BY <2>2
  <2> QED  BY <2>2, <2>3, <2>4, DemoBeginHolds
<1> QED  BY <1>1, <1>2

\* One write of a plan is done.
LEMMA StepHolds ==
  ASSUME DemoInv, D!Assumptions, NEW p \in Actor, NEW plan \in Plan, NEW k \in 1..Len(plan),
         Stage(p, plan, k), D!Busy(p), NEW found \in SUBSET D!Made,
         run' = [run EXCEPT ![p] = [todo |-> Tail(@.todo), nth |-> @.nth, ids |-> found]],
         UNCHANGED <<begun, mixed>>, emptied' \in BOOLEAN, RowsInv', FoundInv',
         ~mixed => (k < Len(plan) => Reached(p, k + 1)') /\ (emptied' => plan = D!Removal)
  PROVE  DemoInv'
<1>1. PICK w : w = [todo |-> Tail(run[p].todo), nth |-> run[p].nth, ids |-> found]
  OBVIOUS
<1>2. run[p] \in Errand /\ run[p].todo \in Seq(Writing) /\ run[p].nth \in 0..MaxRuns
  BY DemoFields DEF Errand
<1>3. run[p].todo # <<>> /\ Tail(run[p].todo) = Ahead(plan, k + 1)
  BY AheadMoves DEF Stage
<1>4. Tail(run[p].todo) \in Seq(Writing)
  BY <1>2, <1>3, HeadTailProperties
<1>5. w \in Errand
  BY <1>1, <1>2, <1>4 DEF Errand
<1>6. run' = [run EXCEPT ![p] = w]
  BY <1>1
<1>7. run' \in [Actor -> Errand] /\ run'[p] = w /\ \A q \in Actor \ {p} : run'[q] = run[q]
  BY <1>5, <1>6, DemoFields
<1>8. \A q \in Actor : D!Busy(q)' => D!Busy(q)
  BY <1>7 DEF D!Busy
<1>9. ASSUME D!Busy(p)'
      PROVE  \E t \in Plan : \E j \in 1..Len(t) : Stage(p, t, j)'
  <2>1. run'[p].todo = Ahead(plan, k + 1) /\ run'[p].nth \in 1..MaxRuns
    BY <1>1, <1>3, <1>7 DEF Stage
  <2>2. k # Len(plan)
    BY <1>9, <2>1, AheadMoves DEF D!Busy
  <2>3. k < Len(plan) /\ k + 1 \in 1..Len(plan)
    <3>1. Len(plan) \in Nat
      BY PlansPlanned, LenProperties DEF Planned
    <3> QED  BY <2>2, <3>1
  <2>4. Stage(p, plan, k + 1)'
    BY <2>1, <2>3 DEF Stage
  <2> QED  BY <2>3, <2>4
<1>10. ASSUME NEW q \in Actor, q # p, D!Busy(q)'
       PROVE  \E t \in Plan : \E j \in 1..Len(t) : Stage(q, t, j)'
  <2>1. run'[q] = run[q] /\ D!Busy(q)
    BY <1>7, <1>8, <1>10
  <2>2. mixed /\ mixed'
    BY <1>10, <2>1, DemoFields DEF RunsInv
  <2>3. PICK t \in Plan : \E j \in 1..Len(t) : Stage(q, t, j)
    BY <2>1, DemoFields DEF RunsInv
  <2>4. PICK j \in 1..Len(t) : Stage(q, t, j)
    BY <2>3
  <2>5. Stage(q, t, j)'
    BY <2>1, <2>2, <2>4 DEF Stage
  <2> QED  BY <2>5
<1>11. RunsInv'
  <2>1. ~mixed' => \A q, r \in Actor : D!Busy(q)' /\ D!Busy(r)' => q = r
    BY <1>8, DemoFields DEF RunsInv
  <2> QED  BY <1>7, <1>9, <1>10, <2>1 DEF RunsInv
<1> QED  BY <1>11 DEF DemoInv

LEMMA DemoReadHolds ==
  ASSUME DemoInv, D!Assumptions, NEW p \in Actor, NEW plan \in Plan, NEW k \in 1..Len(plan),
         Stage(p, plan, k), D!Busy(p), plan[k].do = "read",
         run' = [run EXCEPT ![p] = [todo |-> Tail(@.todo), nth |-> @.nth, ids |-> D!Flagged]],
         UNCHANGED <<demo, begun, mixed>>,
         emptied' = (emptied \/ run[p].todo = <<D!Delete("leads")>>)
  PROVE  DemoInv'
<1>1. k = 1
  BY PlanKinds
<1>2. emptied' = emptied
  BY <1>1, AheadMoves, DemoFields DEF Stage
<1>3. D!Flagged \in SUBSET D!Made /\ \A b \in D!Made : Marks(b) => b \in D!Flagged
  BY DemoFlagged
<1>4. run'[p].ids = D!Flagged
  BY DemoFields
<1>5. RowsInv'
  BY DemoFields DEF RowsInv
<1>6. FoundInv'
  BY <1>2, DemoFields DEF FoundInv, Marks
<1>7. Reached(p, k + 1)'
  <2>1. k + 1 = 2
    BY <1>1
  <2>2. Reached(p, 2)'
    BY <1>3, <1>4 DEF Reached, Marks
  <2> QED  BY <2>1, <2>2
<1>8. ~mixed => (emptied' => plan = D!Removal)
  BY <1>2 DEF Stage
<1>9. emptied' \in BOOLEAN
  BY <1>2, DemoFields
<1> QED  BY <1>3, <1>5, <1>6, <1>7, <1>8, <1>9, StepHolds

\* What a delete takes is never a real business'.
LEMMA GoneFields ==
  ASSUME DemoInv, D!Assumptions, NEW p \in Actor, NEW c \in D!Collection
  PROVE  /\ c = "businesses" => D!Gone(p, c) = {r \in demo : r[1] = c /\ r[2] \in D!Flagged}
         /\ c \in {"leads", "platform_admins"} => D!Gone(p, c) = {<<c, None>>}
         /\ c \notin {"businesses", "leads", "platform_admins"} =>
              D!Gone(p, c) = {<<c, b>> : b \in run[p].ids}
         /\ \A r \in D!Gone(p, c) : r[1] = c /\ r[2] # Anyone
         /\ run[p].ids \subseteq D!Made
<1>1. run[p].ids \subseteq D!Made
  BY DemoFields DEF Errand
<1>2. CASE c = "businesses"
  <2>1. D!Gone(p, c) = {r \in demo : r[1] = c /\ r[2] \in D!Flagged}
    BY <1>2 DEF D!Gone
  <2> QED  BY <1>1, <1>2, <2>1 DEF D!Flagged
<1>3. CASE c \in {"leads", "platform_admins"}
  <2>1. D!Gone(p, c) = {<<c, None>>}
    BY <1>3 DEF D!Gone
  <2> QED  BY <1>1, <1>3, <2>1, DemoFields
<1>4. CASE c \notin {"businesses", "leads", "platform_admins"}
  <2>1. D!Gone(p, c) = {<<c, b>> : b \in run[p].ids}
    BY <1>4 DEF D!Gone
  <2> QED  BY <1>1, <1>4, <2>1, DemoFields
<1> QED  BY <1>2, <1>3, <1>4

\* The rows after a delete, by where in the plan it stands.
DemoLeaves(p, k, c) ==
  /\ demo' = demo \ D!Gone(p, c) /\ k \in 2..8
  /\ k = 2 => c = "bookings"
  /\ k = 3 => c = "call_logs"
  /\ k = 4 => c = "audit_logs"
  /\ k = 5 => c = "admins"
  /\ k = 6 => c = "businesses"
  /\ k = 7 => c = "platform_admins"
  /\ k = 8 => c = "leads"

LEMMA LeftRows ==
  ASSUME DemoInv, D!Assumptions, NEW p \in Actor, NEW c \in D!Collection, NEW k, DemoLeaves(p, k, c)
  PROVE  RowsInv' /\ demo' \subseteq demo /\ Marks(Anyone)'
<1>1. demo' = demo \ D!Gone(p, c) /\ demo' \subseteq demo
  BY DEF DemoLeaves
<1>2. \A r \in D!Gone(p, c) : r[2] # Anyone
  BY GoneFields
<1>3. {<<d, Anyone>> : d \in {"businesses", "admins", "bookings"}} \subseteq demo'
  BY <1>1, <1>2, DemoFields DEF RowsInv
<1>4. RowsInv'
  BY <1>1, <1>3, DemoFields DEF RowsInv
<1> QED  BY <1>1, <1>3, <1>4 DEF Marks

\* The deletes of what belongs to the businesses.
LEMMA LeftOfTenants ==
  ASSUME DemoInv, D!Assumptions, NEW p \in Actor, NEW c \in D!Collection, NEW k \in 2..5,
         DemoLeaves(p, k, c), ~mixed, Reached(p, k), run'[p].ids = run[p].ids
  PROVE  /\ Reached(p, k + 1)'
         /\ \A r \in demo' : r[1] # D!Kept => r[2] = None \/ Marks(r[2])'
<1>1. c \in {"bookings", "call_logs", "audit_logs", "admins"}
  BY DEF DemoLeaves
<1>2. /\ D!Gone(p, c) = {<<c, b>> : b \in run[p].ids} /\ demo' = demo \ D!Gone(p, c)
      /\ \A r \in D!Gone(p, c) : r[1] = c
  BY <1>1, GoneFields DEF DemoLeaves
<1>3. \A b : Marks(b)' <=> Marks(b)
  BY <1>1, <1>2 DEF Marks
<1>4. \A r \in demo : r[1] # D!Kept => r[2] = None \/ Marks(r[2])
  BY DemoFields DEF FoundInv
<1>5. \A b \in D!Made : Marks(b) => b \in run[p].ids
  BY DEF Reached
<1>6. Cleared(c)'
  <2>1. ASSUME NEW r \in demo', r[1] = c, r[2] \in D!Made PROVE FALSE
    <3>1. r \in demo /\ r \in D!Row
      BY <1>2, <2>1, DemoFields
    <3>2. r[2] # None
      BY <2>1, DemoFields
    <3>3. r[2] \in run[p].ids
      BY <1>1, <1>4, <1>5, <2>1, <3>1, <3>2 DEF D!Kept
    <3>4. r = <<c, r[2]>>
      BY <2>1, <3>1, RowFields
    <3> QED  BY <1>2, <2>1, <3>3, <3>4
  <2> QED  BY <2>1 DEF Cleared
<1>7. \A d : Cleared(d) => Cleared(d)'
  BY <1>2 DEF Cleared
<1>8. Reached(p, k + 1)'
  <2>1. \A b \in D!Made : Marks(b)' => b \in run'[p].ids
    BY <1>3, <1>5
  <2>2. k = 2 => Cleared("bookings")'
    BY <1>6 DEF DemoLeaves
  <2>3. k \in 3..5 => Cleared("bookings")'
    BY <1>7 DEF Reached
  <2>4. k = 3 => Cleared("call_logs")'
    BY <1>6 DEF DemoLeaves
  <2>5. k \in 4..5 => Cleared("call_logs")'
    BY <1>7 DEF Reached
  <2>6. k = 4 => Cleared("audit_logs")'
    BY <1>6 DEF DemoLeaves
  <2>7. k = 5 => Cleared("audit_logs")'
    BY <1>7 DEF Reached
  <2>8. k = 5 => Cleared("admins")'
    BY <1>6 DEF DemoLeaves
  <2>9. CASE k = 2
    <3>1. Reached(p, 3)'
      BY <2>1, <2>2, <2>9 DEF Reached
    <3> QED  BY <2>9, <3>1
  <2>10. CASE k = 3
    <3>1. Reached(p, 4)'
      BY <2>1, <2>3, <2>4, <2>10 DEF Reached
    <3> QED  BY <2>10, <3>1
  <2>11. CASE k = 4
    <3>1. Reached(p, 5)'
      BY <2>1, <2>3, <2>5, <2>6, <2>11 DEF Reached
    <3> QED  BY <2>11, <3>1
  <2>12. CASE k = 5
    <3>1. Reached(p, 6)'
      BY <2>1, <2>3, <2>5, <2>7, <2>8, <2>12 DEF Reached
    <3> QED  BY <2>12, <3>1
  <2> QED  BY <2>9, <2>10, <2>11, <2>12
<1>9. \A r \in demo' : r[1] # D!Kept => r[2] = None \/ Marks(r[2])'
  BY <1>2, <1>3, <1>4
<1> QED  BY <1>8, <1>9

\* The delete of the businesses, and what follows it.
LEMMA LeftOfOthers ==
  ASSUME DemoInv, D!Assumptions, NEW p \in Actor, NEW c \in D!Collection, NEW k \in 6..8,
         DemoLeaves(p, k, c), ~mixed, Reached(p, k), run'[p].ids = run[p].ids
  PROVE  /\ Reached(p, k + 1)'
         /\ \A r \in demo' : r[1] # D!Kept => r[2] \in {Anyone, None}
         /\ k = 8 => \A r \in demo' : r[1] # D!Kept => r[2] = Anyone
<1>1. /\ demo' = demo \ D!Gone(p, c) /\ demo \subseteq D!Row
      /\ \A r \in demo : r[2] = None <=> r[1] \in {"leads", "platform_admins"}
  BY DemoFields DEF DemoLeaves, RowsInv
<1>2. \A r \in demo' : r[1] # D!Kept => r[2] \in {Anyone, None}
  <2>1. CASE k = 6
    <3>1. c = "businesses" /\ D!Gone(p, c) = {r \in demo : r[1] = c /\ r[2] \in D!Flagged}
      BY <2>1, GoneFields DEF DemoLeaves
    <3>2. Cleared("bookings") /\ Cleared("call_logs") /\ Cleared("audit_logs") /\ Cleared("admins")
      BY <2>1 DEF Reached
    <3>3. ASSUME NEW r \in demo', r[1] # D!Kept, r[2] \in D!Made PROVE FALSE
      <4>1. r \in demo /\ r \in D!Row /\ r[2] # None
        BY <1>1, <3>3, DemoFields
      <4>2. r[1] \notin {"leads", "platform_admins"} /\ r[1] \in D!Collection
        BY <1>1, <4>1, RowFields
      <4>3. r[1] \notin {"bookings", "call_logs", "audit_logs", "admins"}
        BY <3>2, <3>3, <4>1 DEF Cleared
      <4>4. r[1] = "businesses"
        BY <3>3, <4>2, <4>3 DEF D!Collection, D!Kept
      <4>5. r[2] \in D!Flagged
        <5>1. Marks(r[2])
          BY <4>1, <4>4, RowFields DEF Marks
        <5> QED  BY <3>3, <5>1, DemoFlagged
      <4> QED  BY <1>1, <3>1, <3>3, <4>1, <4>4, <4>5
    <3> QED  BY <1>1, <3>3, RowFields
  <2>2. CASE k \in 7..8
    BY <1>1, <2>2 DEF Reached
  <2> QED  BY <2>1, <2>2
<1>3. k \in 7..8 => \A r \in demo' : r[1] # "platform_admins"
  <2>1. CASE k = 7
    <3>1. c = "platform_admins" /\ D!Gone(p, c) = {<<c, None>>}
      BY <2>1, GoneFields DEF DemoLeaves
    <3>2. ASSUME NEW r \in demo', r[1] = "platform_admins" PROVE FALSE
      <4>1. r \in demo /\ r[2] = None /\ r = <<r[1], r[2]>>
        BY <1>1, <3>2, RowFields
      <4> QED  BY <1>1, <3>1, <3>2, <4>1
    <3> QED  BY <3>2
  <2>2. CASE k = 8
    BY <1>1, <2>2 DEF Reached
  <2> QED  BY <2>1, <2>2
<1>4. k = 8 => \A r \in demo' : r[1] # "leads"
  <2> SUFFICES ASSUME k = 8 PROVE \A r \in demo' : r[1] # "leads"
    OBVIOUS
  <2>1. c = "leads" /\ D!Gone(p, c) = {<<c, None>>}
    BY GoneFields DEF DemoLeaves
  <2>2. ASSUME NEW r \in demo', r[1] = "leads" PROVE FALSE
    <3>1. r \in demo /\ r[2] = None /\ r = <<r[1], r[2]>>
      BY <1>1, <2>2, RowFields
    <3> QED  BY <1>1, <2>1, <2>2, <3>1
  <2> QED  BY <2>2
<1>5. k = 8 => \A r \in demo' : r[1] # D!Kept => r[2] = Anyone
  BY <1>1, <1>2, <1>3, <1>4
<1>6. Reached(p, k + 1)'
  <2>1. CASE k = 6
    <3>1. Reached(p, 7)'
      BY <1>2 DEF Reached
    <3> QED  BY <2>1, <3>1
  <2>2. CASE k = 7
    <3>1. Reached(p, 8)'
      BY <1>2, <1>3, <2>2 DEF Reached
    <3> QED  BY <2>2, <3>1
  <2>3. CASE k = 8
    <3>1. Reached(p, 9)'
      BY DEF Reached
    <3> QED  BY <2>3, <3>1
  <2> QED  BY <2>1, <2>2, <2>3
<1> QED  BY <1>2, <1>5, <1>6

LEMMA DeleteHolds ==
  ASSUME DemoInv, D!Assumptions, NEW p \in Actor, NEW plan \in Plan, NEW k \in 1..Len(plan),
         Stage(p, plan, k), D!Busy(p), plan[k].do = "delete",
         demo' = demo \ D!Gone(p, plan[k].of),
         run' = [run EXCEPT ![p] = [todo |-> Tail(@.todo), nth |-> @.nth, ids |-> @.ids]],
         UNCHANGED <<begun, mixed>>,
         emptied' = (emptied \/ run[p].todo = <<D!Delete("leads")>>)
  PROVE  DemoInv'
<1>1. PICK c : c = plan[k].of
  OBVIOUS
<1>2. k \in 2..8 /\ DemoLeaves(p, k, c) /\ c \in D!Collection
  <2>1. k \in 2..8
    BY PlanKinds
  <2>2. k = 2 \/ k = 3 \/ k = 4 \/ k = 5 \/ k = 6 \/ k = 7 \/ k = 8
    BY <2>1
  <2>3. DemoLeaves(p, k, c)
    BY <1>1, <2>1, <2>2, PlanOf DEF DemoLeaves
  <2> QED  BY <2>1, <2>2, <2>3 DEF DemoLeaves, D!Collection
<1>3. PICK found : found = run[p].ids
  OBVIOUS
<1>4. /\ found \in SUBSET D!Made /\ run'[p].ids = run[p].ids
      /\ run' = [run EXCEPT ![p] = [todo |-> Tail(@.todo), nth |-> @.nth, ids |-> found]]
  BY <1>3, DemoFields DEF Errand
<1>5. emptied' => emptied \/ (k = 8 /\ plan = D!Removal)
  BY AheadMoves DEF Stage
<1>6. emptied' \in BOOLEAN
  BY DemoFields
<1>7. RowsInv' /\ demo' \subseteq demo /\ Marks(Anyone)'
  BY <1>2, LeftRows
<1>8. CASE mixed
  <2>1. FoundInv'
    BY <1>8 DEF FoundInv
  <2> QED  BY <1>4, <1>6, <1>7, <1>8, <2>1, StepHolds
<1>9. CASE ~mixed
  <2>1. Reached(p, k) /\ (emptied => plan = D!Removal)
    BY <1>9 DEF Stage
  <2>2. Reached(p, k + 1)'
    <3>1. CASE k \in 2..5
      BY <1>2, <1>4, <1>9, <2>1, <3>1, LeftOfTenants
    <3>2. CASE k \in 6..8
      BY <1>2, <1>4, <1>9, <2>1, <3>2, LeftOfOthers
    <3> QED  BY <1>2, <3>1, <3>2
  <2>3. \A r \in demo' : r[1] # D!Kept => r[2] = None \/ Marks(r[2])'
    <3>1. CASE k \in 2..5
      BY <1>2, <1>4, <1>9, <2>1, <3>1, LeftOfTenants
    <3>2. CASE k \in 6..8
      <4>1. \A r \in demo' : r[1] # D!Kept => r[2] \in {Anyone, None}
        BY <1>2, <1>4, <1>9, <2>1, <3>2, LeftOfOthers
      <4> QED  BY <1>7, <4>1
    <3> QED  BY <1>2, <3>1, <3>2
  <2>4. emptied' => \A r \in demo' : r[1] # D!Kept => r[2] = Anyone
    <3>1. CASE emptied
      BY <1>7, <1>9, <3>1, DemoFields DEF FoundInv
    <3>2. CASE emptied' /\ ~emptied
      <4>1. k = 8 /\ k \in 6..8
        BY <1>5, <3>2
      <4> QED  BY <1>2, <1>4, <1>9, <2>1, <4>1, LeftOfOthers
    <3> QED  BY <3>1, <3>2
  <2>5. FoundInv'
    BY <2>3, <2>4 DEF FoundInv
  <2>6. emptied' => plan = D!Removal
    BY <1>5, <2>1
  <2> QED  BY <1>4, <1>6, <1>7, <2>2, <2>5, <2>6, StepHolds
<1> QED  BY <1>8, <1>9, DemoFields

LEMMA LeftIs ==
  ASSUME DemoInv, D!Assumptions, NEW p \in Actor
  PROVE  /\ D!Left(p) = [run EXCEPT ![p] = [todo |-> Tail(@.todo), nth |-> @.nth, ids |-> @.ids]]
         /\ [D!Left(p) EXCEPT ![p].ids = D!Flagged] =
              [run EXCEPT ![p] = [todo |-> Tail(@.todo), nth |-> @.nth, ids |-> D!Flagged]]
<1>1. PICK r, w : r = run /\ w = run[p]
  OBVIOUS
<1>2. r \in [Actor -> Errand] /\ w \in Errand /\ r[p] = w
  BY <1>1, DemoFields
<1>3. PICK v : v = [todo |-> Tail(w.todo), nth |-> w.nth, ids |-> w.ids]
  OBVIOUS
<1>4. [w EXCEPT !.todo = Tail(@)] = v
  <2>1. PICK t : t = Tail(w.todo)
    OBVIOUS
  <2>2. [w EXCEPT !.todo = t] = [todo |-> t, nth |-> w.nth, ids |-> w.ids]
    BY <1>2 DEF Errand
  <2> QED  BY <1>3, <2>1, <2>2
<1>5. D!Left(p) = [r EXCEPT ![p] = v]
  BY <1>1, <1>2, <1>4 DEF D!Left
<1>6. D!Left(p) = [run EXCEPT ![p] = [todo |-> Tail(@.todo), nth |-> @.nth, ids |-> @.ids]]
  BY <1>1, <1>3, <1>5
<1>7. PICK l : l = D!Left(p)
  OBVIOUS
<1>8. PICK found : found = D!Flagged
  OBVIOUS
<1>9. [l EXCEPT ![p].ids = found] = [l EXCEPT ![p] = [v EXCEPT !.ids = found]]
  BY <1>2, <1>5, <1>7
<1>10. [v EXCEPT !.ids = found] = [todo |-> Tail(w.todo), nth |-> w.nth, ids |-> found]
  <2>1. PICK t, n, i : t = Tail(w.todo) /\ n = w.nth /\ i = w.ids
    OBVIOUS
  <2>2. [[todo |-> t, nth |-> n, ids |-> i] EXCEPT !.ids = found] =
          [todo |-> t, nth |-> n, ids |-> found]
    OBVIOUS
  <2> QED  BY <1>3, <2>1, <2>2
<1>11. PICK u : u = [v EXCEPT !.ids = found]
  OBVIOUS
<1>12. [l EXCEPT ![p] = u] = [r EXCEPT ![p] = u]
  BY <1>2, <1>5, <1>7
<1>13. [l EXCEPT ![p].ids = found] = [r EXCEPT ![p] = u]
  BY <1>9, <1>11, <1>12
<1>14. u = [todo |-> Tail(run[p].todo), nth |-> run[p].nth, ids |-> found]
  BY <1>1, <1>10, <1>11
<1> QED  BY <1>1, <1>6, <1>7, <1>8, <1>13, <1>14

LEMMA WriteHolds ==
  ASSUME DemoInv, D!Assumptions, NEW p \in Actor, D!Write(p)
  PROVE  DemoInv'
<1>1. D!Busy(p)
  BY DEF D!Write
<1>2. PICK plan \in Plan : \E k \in 1..Len(plan) : Stage(p, plan, k)
  BY <1>1, DemoFields DEF RunsInv
<1>3. PICK k \in 1..Len(plan) : Stage(p, plan, k)
  BY <1>2
<1>4. Head(run[p].todo) = plan[k]
  BY <1>3, AheadMoves DEF Stage
<1>5. UNCHANGED <<begun, mixed>> /\ emptied' = (emptied \/ run[p].todo = <<D!Delete("leads")>>)
  BY DEF D!Write
<1>6. run \in [Actor -> Errand] /\ run[p] \in Errand
  BY DemoFields
<1>7. CASE plan[k].do = "read" /\ run' = [D!Left(p) EXCEPT ![p].ids = D!Flagged] /\ UNCHANGED demo
  <2>1. run' = [run EXCEPT ![p] = [todo |-> Tail(@.todo), nth |-> @.nth, ids |-> D!Flagged]]
    BY <1>7, LeftIs
  <2> QED  BY <1>1, <1>3, <1>5, <1>7, <2>1, DemoReadHolds
<1>8. CASE plan[k].do = "delete" /\ demo' = demo \ D!Gone(p, plan[k].of) /\ run' = D!Left(p)
  <2>1. run' = [run EXCEPT ![p] = [todo |-> Tail(@.todo), nth |-> @.nth, ids |-> @.ids]]
    BY <1>8, LeftIs
  <2> QED  BY <1>1, <1>3, <1>5, <1>8, <2>1, DeleteHolds
<1> QED  BY <1>4, <1>7, <1>8 DEF D!Write

LEMMA InsertHolds ==
  ASSUME DemoInv, D!Assumptions, NEW p \in Actor, NEW plan \in Plan, NEW k \in 1..Len(plan),
         Stage(p, plan, k), D!Busy(p), plan[k].do = "insert",
         demo' = demo \cup {<<plan[k].of, D!Owner(p, plan[k])>>},
         run' = [run EXCEPT ![p] = [todo |-> Tail(@.todo), nth |-> @.nth, ids |-> @.ids]],
         UNCHANGED <<begun, mixed, emptied>>
  PROVE  DemoInv'
<1>1. k \in 9..17 /\ Len(plan) > 8 /\ k <= Len(plan)
  BY PlanKinds
<1>2. PICK step : step = plan[k]
  OBVIOUS
<1>3. PICK who : who = D!Owner(p, step)
  OBVIOUS
<1>4. PICK r : r = <<step.of, who>>
  OBVIOUS
<1>5. demo' = demo \cup {r} /\ r[1] = step.of /\ r[2] = who
  BY <1>2, <1>3, <1>4
<1>6. PICK nth : nth = run[p].nth
  OBVIOUS
<1>7. nth \in 1..MaxRuns
  BY <1>6 DEF Stage
<1>8. PICK found : found = run[p].ids
  OBVIOUS
<1>9. /\ found \in SUBSET D!Made /\ run'[p].nth = nth
      /\ run' = [run EXCEPT ![p] = [todo |-> Tail(@.todo), nth |-> @.nth, ids |-> found]]
  BY <1>6, <1>8, DemoFields DEF Errand
<1>10. /\ step.of \in {"businesses", "admins", "bookings", "call_logs", "audit_logs",
                       "leads", "platform_admins"}
       /\ step.at \in {"glow", "sunrise"}
       /\ k = 9 => step.of = "businesses" /\ step.at = "glow"
       /\ k = 14 => step.of = "businesses" /\ step.at = "sunrise"
       /\ step.of \notin {"businesses", "leads", "platform_admins"} =>
            \/ k >= 10 /\ step.at = "glow"
            \/ k >= 15 /\ step.at = "sunrise"
  BY <1>1, <1>2, PlanAt
<1>11. /\ step.of \in {"leads", "platform_admins"} => who = None
       /\ step.of \notin {"leads", "platform_admins"} =>
            who = [name |-> step.at, nth |-> nth] /\ who \in D!Made
  BY <1>3, <1>6, <1>7, <1>10 DEF D!Owner, D!Made, D!Name
<1>12. RowsInv'
  <2>1. who \in D!Made \cup {None} /\ (who = None <=> step.of \in {"leads", "platform_admins"})
    BY <1>11, DemoFields
  <2>2. r \in D!Row
    BY <1>4, <1>10, <2>1 DEF D!Row, D!Collection
  <2> QED  BY <1>5, <2>1, <2>2, DemoFields DEF RowsInv
<1>13. \A b : Marks(b) => Marks(b)'
  BY <1>5 DEF Marks
<1>14. CASE mixed
  <2>1. FoundInv'
    BY <1>14 DEF FoundInv
  <2>2. emptied' \in BOOLEAN
    BY DemoFields
  <2> QED  BY <1>9, <1>12, <1>14, <2>1, <2>2, StepHolds
<1>15. CASE ~mixed
  <2>1. Reached(p, k) /\ (emptied => plan = D!Removal)
    BY <1>15 DEF Stage
  <2>2. ~emptied
    <3>1. plan = D!Removal => Len(plan) = 8
      BY RemovalPlanned
    <3> QED  BY <1>1, <2>1, <3>1
  <2>3. k >= 10 => Marks([name |-> "glow", nth |-> nth])
    <3>1. k >= 10 => k \in 10..17
      BY <1>1
    <3> QED  BY <1>6, <2>1, <3>1 DEF Reached
  <2>4. k >= 15 => Marks([name |-> "sunrise", nth |-> nth])
    <3>1. k >= 15 => k \in 15..17
      BY <1>1
    <3> QED  BY <1>6, <2>1, <3>1 DEF Reached
  <2>5. step.of = "businesses" => Marks(who)'
    BY <1>4, <1>5 DEF Marks
  <2>6. who = None \/ Marks(who)'
    <3>1. CASE step.of \in {"leads", "platform_admins"}
      BY <1>11, <3>1
    <3>2. CASE step.of = "businesses"
      BY <2>5, <3>2
    <3>3. CASE step.of \notin {"businesses", "leads", "platform_admins"}
      BY <1>10, <1>11, <1>13, <2>3, <2>4, <3>3
    <3> QED  BY <3>1, <3>2, <3>3
  <2>7. FoundInv'
    <3>1. \A s \in demo' : s[1] # D!Kept => s[2] = None \/ Marks(s[2])'
      BY <1>5, <1>13, <1>15, <2>6, DemoFields DEF FoundInv
    <3> QED  BY <2>2, <3>1 DEF FoundInv
  <2>8. k + 1 >= 10 => Marks([name |-> "glow", nth |-> nth])'
    <3>1. k = 9 => who = [name |-> "glow", nth |-> nth] /\ Marks(who)'
      BY <1>10, <1>11, <2>5
    <3>2. k = 9 \/ k >= 10
      BY <1>1
    <3> QED  BY <1>13, <2>3, <3>1, <3>2
  <2>9. k + 1 >= 15 => Marks([name |-> "sunrise", nth |-> nth])'
    <3>1. k = 14 => who = [name |-> "sunrise", nth |-> nth] /\ Marks(who)'
      BY <1>10, <1>11, <2>5
    <3>2. k + 1 >= 15 => k = 14 \/ k >= 15
      BY <1>1
    <3> QED  BY <1>13, <2>4, <3>1, <3>2
  <2>10. Reached(p, k + 1)'
    <3>1. PICK j : j = k + 1
      OBVIOUS
    <3>2. j \in 10..18
      BY <1>1, <3>1
    <3>3. j \in 15..17 => Marks([name |-> "sunrise", nth |-> nth])'
      BY <2>9, <3>1
    <3>4. Marks([name |-> "glow", nth |-> nth])'
      <4>1. k + 1 >= 10
        BY <1>1
      <4> QED  BY <2>8, <4>1
    <3>5. /\ j \notin 2..6 /\ j \notin 3..6 /\ j \notin 4..6 /\ j \notin 5..6 /\ j # 6
          /\ j \notin 7..8 /\ j # 8
      BY <3>2
    <3>6. nth = run'[p].nth
      BY <1>9
    <3>7. Reached(p, j)'
      BY <3>3, <3>4, <3>5, <3>6 DEF Reached
    <3> QED  BY <3>1, <3>7
  <2>11. emptied' \in BOOLEAN /\ ~emptied'
    BY <2>2, DemoFields
  <2> QED  BY <1>9, <1>12, <2>7, <2>10, <2>11, StepHolds
<1> QED  BY <1>14, <1>15, DemoFields

LEMMA DemoStoreHolds ==
  ASSUME DemoInv, D!Assumptions, NEW p \in Actor, D!Store(p)
  PROVE  DemoInv'
<1>1. D!Busy(p) /\ Head(run[p].todo).do = "insert" /\ UNCHANGED <<begun, mixed, emptied>>
  BY DEF D!Store
<1>2. PICK plan \in Plan : \E k \in 1..Len(plan) : Stage(p, plan, k)
  BY <1>1, DemoFields DEF RunsInv
<1>3. PICK k \in 1..Len(plan) : Stage(p, plan, k)
  BY <1>2
<1>4. Head(run[p].todo) = plan[k]
  BY <1>3, AheadMoves DEF Stage
<1>5. run \in [Actor -> Errand] /\ run[p] \in Errand
  BY DemoFields
<1>6. CASE run' = [run EXCEPT ![p] = D!Idle] /\ UNCHANGED demo
  BY <1>1, <1>6, EndsEarly
<1>7. CASE demo' = demo \cup {<<plan[k].of, D!Owner(p, plan[k])>>} /\ run' = D!Left(p)
  <2>1. run' = [run EXCEPT ![p] = [todo |-> Tail(@.todo), nth |-> @.nth, ids |-> @.ids]]
    BY <1>7, LeftIs
  <2> QED  BY <1>1, <1>3, <1>4, <1>7, <2>1, InsertHolds
<1> QED  BY <1>4, <1>6, <1>7 DEF D!Store

LEMMA UseHolds ==
  ASSUME DemoInv, D!Assumptions, NEW b \in D!Flagged,
         NEW c \in {"bookings", "knowledge_versions"}, D!Use(b, c)
  PROVE  DemoInv'
<1>1. /\ demo' = demo \cup {<<c, b>>} /\ mixed' = (mixed \/ \E p \in Actor : D!Busy(p))
      /\ UNCHANGED <<begun, run, emptied>>
  BY DEF D!Use
<1>2. Marks(b) /\ b \in D!Made /\ b # None /\ b # Anyone
  BY DemoFlagged, DemoFields
<1>3. PICK r : r = <<c, b>>
  OBVIOUS
<1>4. demo' = demo \cup {r} /\ r[1] = c /\ r[2] = b /\ r \in D!Row
  BY <1>1, <1>2, <1>3 DEF D!Row, D!Collection
<1>5. RowsInv'
  BY <1>2, <1>4, DemoFields DEF RowsInv
<1>6. \A d : Marks(d) => Marks(d)'
  BY <1>4 DEF Marks
<1>7. FoundInv'
  <2> SUFFICES ASSUME ~mixed' PROVE FoundInv'  BY DEF FoundInv
  <2>1. ~mixed
    BY <1>1
  <2>2. ~emptied
    <3>1. PICK s : s = <<"businesses", b>>
      OBVIOUS
    <3>2. s \in demo /\ s[1] = "businesses" /\ s[2] = b
      BY <1>2, <3>1 DEF Marks
    <3> QED  BY <1>2, <2>1, <3>2, DemoFields DEF FoundInv, D!Kept
  <2>3. \A s \in demo' : s[1] # D!Kept => s[2] = None \/ Marks(s[2])'
    BY <1>2, <1>4, <1>6, <2>1, DemoFields DEF FoundInv
  <2> QED  BY <1>1, <2>2, <2>3 DEF FoundInv
<1>8. RunsInv'
  <2>1. \A p \in Actor : D!Busy(p)' <=> D!Busy(p)
    BY <1>1 DEF D!Busy
  <2>2. ASSUME NEW p \in Actor, D!Busy(p)
        PROVE  \E plan \in Plan : \E k \in 1..Len(plan) : Stage(p, plan, k)'
    <3>1. PICK plan \in Plan : \E k \in 1..Len(plan) : Stage(p, plan, k)
      BY <2>2, DemoFields DEF RunsInv
    <3>2. PICK k \in 1..Len(plan) : Stage(p, plan, k)
      BY <3>1
    <3>3. mixed'
      BY <1>1, <2>2
    <3>4. Stage(p, plan, k)'
      BY <1>1, <3>2, <3>3 DEF Stage
    <3> QED  BY <3>4
  <2> QED  BY <1>1, <2>1, <2>2, DemoFields DEF RunsInv
<1>9. mixed' \in BOOLEAN
  BY <1>1, DemoFields
<1> QED  BY <1>1, <1>5, <1>7, <1>8, <1>9 DEF DemoInv

LEMMA DemoMoves == DemoInv /\ D!Assumptions /\ D!Next => DemoInv'
<1> SUFFICES ASSUME DemoInv, D!Assumptions, D!Next PROVE DemoInv'  OBVIOUS
<1>1. ASSUME NEW p \in Actor, D!Remove(p) \/ \E script \in BOOLEAN : D!Add(p, script)
      PROVE  DemoInv'
  BY <1>1, AddsHold
<1>2. ASSUME NEW p \in Actor, D!Write(p) \/ D!Store(p) \/ D!Stop(p)
      PROVE  DemoInv'
  <2>1. D!Stop(p) => run' = [run EXCEPT ![p] = D!Idle] /\ UNCHANGED <<demo, begun, mixed, emptied>>
    BY DEF D!Stop
  <2> QED  BY <1>2, <2>1, WriteHolds, DemoStoreHolds, EndsEarly
<1>3. ASSUME NEW b \in D!Flagged, NEW c \in {"bookings", "knowledge_versions"}, D!Use(b, c)
      PROVE  DemoInv'
  BY <1>3, UseHolds
<1> QED  BY <1>1, <1>2, <1>3 DEF D!Next

LEMMA DemoStands == DemoInv /\ UNCHANGED showing => DemoInv'
<1> SUFFICES ASSUME DemoInv, UNCHANGED showing PROVE DemoInv'  OBVIOUS
<1>1. UNCHANGED <<demo, begun, run, mixed, emptied>>
  BY DEF showing
<1>2. RunsInv'
  <2>1. \A p \in Actor : D!Busy(p)' <=> D!Busy(p)
    BY <1>1 DEF D!Busy
  <2>2. \A p, k : Reached(p, k)' <=> Reached(p, k)
    BY <1>1 DEF Reached, Marks, Cleared
  <2>3. \A p, plan, k : Stage(p, plan, k)' <=> Stage(p, plan, k)
    BY <1>1, <2>2 DEF Stage
  <2> QED  BY <1>1, <2>1, <2>3 DEF DemoInv, RunsInv
<1>3. RowsInv' /\ FoundInv'
  BY <1>1 DEF DemoInv, RowsInv, FoundInv, Marks
<1> QED  BY <1>1, <1>2, <1>3 DEF DemoInv

-----------------------------------------------------------------------------
(* A member's way in.                                                      *)

EnterType ==
  /\ M!TypeOK /\ now \in 0..MaxTime /\ changedAt \in 0..now /\ accepted \in Nat
  /\ made \in [password : 0..MaxPasswords, secret : 0..MaxSecrets]
  /\ atOnce \in BOOLEAN /\ overtook \in BOOLEAN
  /\ crossing \in BOOLEAN /\ restored \in BOOLEAN
  /\ \A r \in Actor : request[r].kind = "login" => request[r].password # 0

\* Whatever was open before the last password is revoked, or there was nothing.
RevokedInv ==
  ~overtook => admin.validAfter >= changedAt \/ \A pass \in sessions : pass.iat >= changedAt

\* Without a password nobody is in, or on the way.
FirstInv ==
  admin.password = 0 =>
    sessions = {} /\ pendings = {} /\ \A r \in Actor : request[r].kind # "login"

\* Who has taken the invitation, and who may.
InviteInv ==
  /\ accepted > 0 => admin.status # "invited"
  /\ ~atOnce =>
       /\ accepted <= 1
       /\ \A q, r \in Actor : request[q].kind = "accept" /\ request[r].kind = "accept" => q = r
       /\ accepted > 0 => \A r \in Actor : request[r].kind # "accept"

\* What is left of a suspension that no acceptance crossed.
SuspendedInv ==
  ~crossing =>
    /\ ~restored
    /\ admin.status = "suspended" => \A r \in Actor : request[r].kind # "accept"

EnterInv == EnterType /\ RevokedInv /\ FirstInv /\ InviteInv /\ SuspendedInv /\ M!ProvedAuthenticator

LEMMA EnterFields ==
  ASSUME EnterInv, M!Assumptions
  PROVE  /\ admin \in M!Admin /\ business \in {"active", "suspended"}
         /\ request \in [Actor -> M!RequestState]
         /\ sessions \subseteq [iat : 0..MaxTime, password : 1..MaxPasswords]
         /\ pendings \subseteq 1..MaxPasswords
         /\ now \in Nat /\ now \in 0..MaxTime /\ changedAt \in 0..now /\ changedAt \in Nat
         /\ changedAt <= now /\ accepted \in Nat
         /\ made \in [password : 0..MaxPasswords, secret : 0..MaxSecrets]
         /\ MaxTime \in Nat /\ MaxPasswords \in Nat /\ MaxSecrets \in Nat
         /\ atOnce \in BOOLEAN /\ overtook \in BOOLEAN
         /\ crossing \in BOOLEAN /\ restored \in BOOLEAN
         /\ EnterType /\ RevokedInv /\ FirstInv /\ InviteInv /\ SuspendedInv /\ M!ProvedAuthenticator
BY DEF EnterInv, EnterType, M!TypeOK, M!Assumptions

LEMMA AdminFields ==
  ASSUME NEW a \in M!Admin
  PROVE  /\ a.status \in {"invited", "active", "suspended"} /\ a.password \in 0..MaxPasswords
         /\ a.validAfter \in 0..MaxTime /\ a.mfa \in BOOLEAN
         /\ a.secret \in 0..MaxSecrets /\ a.pending \in 0..MaxSecrets
BY DEF M!Admin

LEMMA EnterPromises ==
  M!Assumptions /\ EnterInv => M!OldSessionsEnd /\ M!InviteTakenOnce /\ M!ProvedAuthenticator
<1> SUFFICES ASSUME M!Assumptions, EnterInv
             PROVE  M!OldSessionsEnd /\ M!InviteTakenOnce /\ M!ProvedAuthenticator
  OBVIOUS
<1>1. M!OldSessionsEnd
  <2>1. ASSUME NEW pass \in sessions, M!Works(pass), ~overtook PROVE pass.iat >= changedAt
    <3>1. pass.iat \in Nat /\ admin.validAfter \in Nat /\ changedAt \in Nat
      BY EnterFields, AdminFields
    <3>2. ~(pass.iat < admin.validAfter)
      BY <2>1 DEF M!Works, M!Revoked
    <3> QED  BY <2>1, <3>1, <3>2, EnterFields DEF RevokedInv
  <2> QED  BY <2>1, EnterFields DEF M!OldSessionsEnd
<1>2. M!InviteTakenOnce
  BY EnterFields DEF InviteInv, SuspendedInv, M!InviteTakenOnce
<1> QED  BY <1>1, <1>2, EnterFields

LEMMA EnterStarts == M!Assumptions /\ M!Init => EnterInv
<1> SUFFICES ASSUME M!Assumptions, M!Init PROVE EnterInv  OBVIOUS
<1>1. /\ admin = M!Invited /\ business = "active" /\ now = 0 /\ sessions = {} /\ pendings = {}
      /\ request = [r \in Actor |-> M!Idle] /\ made = [password |-> 0, secret |-> 0]
      /\ changedAt = 0 /\ accepted = 0 /\ atOnce = FALSE /\ overtook = FALSE
      /\ crossing = FALSE /\ restored = FALSE
      /\ MaxPasswords \in Nat /\ MaxSecrets \in Nat /\ MaxTime \in Nat
  BY DEF M!Init, M!Assumptions
<1>2. 0 \in 0..MaxPasswords /\ 0 \in 0..MaxSecrets /\ 0 \in 0..MaxTime /\ 0 \in 0..0
  BY <1>1
<1>3. M!Invited \in M!Admin
  BY <1>2 DEF M!Invited, M!Admin
<1>4. M!Idle \in M!RequestState /\ M!Idle.kind = "none"
  BY <1>2 DEF M!Idle, M!RequestState, M!Kind
<1>5. EnterType
  BY <1>1, <1>2, <1>3, <1>4 DEF EnterType, M!TypeOK
<1>6. RevokedInv /\ FirstInv
  BY <1>1, <1>4 DEF RevokedInv, FirstInv
<1>7. InviteInv
  BY <1>1, <1>4 DEF InviteInv
<1>9. SuspendedInv
  BY <1>1, <1>4 DEF SuspendedInv
<1>8. M!ProvedAuthenticator
  BY <1>1 DEF M!ProvedAuthenticator, M!Invited
<1> QED  BY <1>5, <1>6, <1>7, <1>8, <1>9 DEF EnterInv

\* A request begins, having read w.
LEMMA EnterBegins ==
  ASSUME EnterInv, M!Assumptions, NEW r \in Actor, NEW w \in M!RequestState,
         request' = [request EXCEPT ![r] = w], M!Starts(r), atOnce' \in BOOLEAN,
         w.kind = "login" => w.password # 0 /\ admin.password # 0,
         w.kind = "accept" =>
           /\ admin.status = "invited"
           /\ atOnce' = (atOnce \/ \E q \in Actor : request[q].kind = "accept"),
         w.kind # "accept" => atOnce' = atOnce
  PROVE  EnterInv'
<1>1. UNCHANGED <<admin, business, now, sessions, pendings, made, app, proved, changedAt, accepted,
                  overtook, crossing, restored>>
  BY DEF M!Starts, M!suspensions
<1>2. /\ request' \in [Actor -> M!RequestState] /\ request'[r] = w
      /\ \A q \in Actor \ {r} : request'[q] = request[q]
  BY EnterFields
<1>3. EnterType'
  BY <1>1, <1>2, EnterFields DEF EnterType, M!TypeOK
<1>4. RevokedInv'
  BY <1>1, EnterFields DEF RevokedInv
<1>5. FirstInv'
  BY <1>1, <1>2, EnterFields DEF FirstInv
<1>6. InviteInv'
  <2>1. CASE w.kind = "accept"
    <3>1. accepted = 0
      BY <2>1, EnterFields DEF InviteInv
    <3>2. ~atOnce' => \A q \in Actor : request[q].kind # "accept"
      BY <2>1
    <3> QED  BY <1>1, <1>2, <3>1, <3>2, EnterFields DEF InviteInv
  <2>2. CASE w.kind # "accept"
    BY <1>1, <1>2, <2>2, EnterFields DEF InviteInv
  <2> QED  BY <2>1, <2>2
<1>7. M!ProvedAuthenticator'
  BY <1>1, EnterFields DEF M!ProvedAuthenticator
<1>8. SuspendedInv'
  <2>1. admin.status = "suspended" => w.kind # "accept"
    OBVIOUS
  <2> QED  BY <1>1, <1>2, <2>1, EnterFields DEF SuspendedInv
<1> QED  BY <1>3, <1>4, <1>5, <1>6, <1>7, <1>8 DEF EnterInv

LEMMA BeginsHold ==
  ASSUME EnterInv, M!Assumptions, NEW r \in Actor,
         \/ M!StartLogin(r) \/ M!StartAccept(r) \/ M!StartConfirm(r)
         \/ \E kind \in {"change", "enroll", "disable"} : M!StartSignedIn(r, kind)
  PROVE  EnterInv'
<1>1. PICK q : q = request[r]
  OBVIOUS
<1>2. request \in [Actor -> M!RequestState] /\ q \in M!RequestState /\ admin \in M!Admin
  BY <1>1, EnterFields
<1>3. 0 \in 0..MaxSecrets /\ 0 \in 0..MaxPasswords
  BY EnterFields
<1>4. CASE M!StartLogin(r)
  <2>1. PICK w : w = [kind |-> "login", mfa |-> admin.mfa, password |-> admin.password, pending |-> 0]
    OBVIOUS
  <2>2. w \in M!RequestState /\ w.kind = "login" /\ w.password = admin.password
    BY <1>2, <1>3, <2>1, AdminFields DEF M!RequestState, M!Kind
  <2>3. /\ admin.password # 0 /\ M!Starts(r) /\ atOnce' = atOnce
        /\ request' = [request EXCEPT ![r] = w]
    BY <1>4, <2>1 DEF M!StartLogin
  <2>4. atOnce' \in BOOLEAN
    BY <2>3, EnterFields
  <2> QED  BY <2>2, <2>3, <2>4, EnterBegins
<1>5. CASE M!StartAccept(r)
  <2>1. PICK w : w = [q EXCEPT !.kind = "accept"]
    OBVIOUS
  <2>2. w \in M!RequestState /\ w.kind = "accept"
    BY <1>2, <2>1 DEF M!RequestState, M!Kind
  <2>3. /\ admin.status = "invited" /\ M!Starts(r)
        /\ atOnce' = (atOnce \/ \E p \in Actor : request[p].kind = "accept")
    BY <1>5 DEF M!StartAccept, M!Open
  <2>4. request' = [request EXCEPT ![r] = w]
    BY <1>1, <1>2, <1>5, <2>1 DEF M!StartAccept
  <2>5. atOnce' \in BOOLEAN
    BY <2>3, EnterFields
  <2> QED  BY <2>2, <2>3, <2>4, <2>5, EnterBegins
<1>6. CASE M!StartConfirm(r)
  <2>1. PICK w : w = [q EXCEPT !.kind = "confirm", !.pending = admin.pending]
    OBVIOUS
  <2>2. w \in M!RequestState /\ w.kind = "confirm"
    BY <1>2, <2>1, AdminFields DEF M!RequestState, M!Kind
  <2>3. M!Starts(r) /\ atOnce' = atOnce
    BY <1>6 DEF M!StartConfirm
  <2>4. request' = [request EXCEPT ![r] = w]
    BY <1>1, <1>2, <1>6, <2>1 DEF M!StartConfirm
  <2>5. atOnce' \in BOOLEAN
    BY <2>3, EnterFields
  <2> QED  BY <2>2, <2>3, <2>4, <2>5, EnterBegins
<1>7. ASSUME NEW kind \in {"change", "enroll", "disable"}, M!StartSignedIn(r, kind)
      PROVE  EnterInv'
  <2>1. PICK w : w = [q EXCEPT !.kind = kind]
    OBVIOUS
  <2>2. w \in M!RequestState /\ w.kind = kind
    BY <1>2, <2>1 DEF M!RequestState, M!Kind
  <2>3. M!Starts(r) /\ atOnce' = atOnce
    BY <1>7 DEF M!StartSignedIn
  <2>4. request' = [request EXCEPT ![r] = w]
    BY <1>1, <1>2, <1>7, <2>1 DEF M!StartSignedIn
  <2>5. atOnce' \in BOOLEAN
    BY <2>3, EnterFields
  <2> QED  BY <2>2, <2>3, <2>4, <2>5, EnterBegins
<1> QED  BY <1>4, <1>5, <1>6, <1>7

\* What a request that ends leaves.
Leaves(r) ==
  /\ request' \in [Actor -> M!RequestState] /\ request'[r].kind = "none"
  /\ \A q \in Actor \ {r} : request'[q] = request[q]

LEMMA EndsLeave ==
  ASSUME EnterInv, M!Assumptions, NEW r \in Actor, M!Ends(r)
  PROVE  Leaves(r)
<1>1. 0 \in 0..MaxSecrets /\ 0 \in 0..MaxPasswords
  BY EnterFields
<1>2. M!Idle \in M!RequestState /\ M!Idle.kind = "none"
  BY <1>1 DEF M!Idle, M!RequestState, M!Kind
<1> QED  BY <1>2, EnterFields DEF M!Ends, Leaves

\* A session opens now.
LEMMA OpensNow ==
  ASSUME EnterInv, M!Assumptions, NEW password \in 1..MaxPasswords, M!Opens(password)
  PROVE  /\ sessions' \subseteq [iat : 0..MaxTime, password : 1..MaxPasswords]
         /\ \A pass \in sessions' : pass \in sessions \/ pass.iat = now
<1>1. [iat |-> now, password |-> password] \in [iat : 0..MaxTime, password : 1..MaxPasswords]
  BY EnterFields
<1> QED  BY <1>1, EnterFields DEF M!Opens

\* A login in flight, or its second step, ends in a session or not.
LEMMA LoginsHold ==
  ASSUME EnterInv, M!Assumptions,
         UNCHANGED <<admin, business, now, made, app, proved, changedAt, accepted, atOnce, overtook,
                     crossing, restored>>,
         request' \in [Actor -> M!RequestState],
         \A q \in Actor : request'[q].kind = "none" \/ request'[q] = request[q],
         sessions' \subseteq [iat : 0..MaxTime, password : 1..MaxPasswords],
         pendings' \subseteq 1..MaxPasswords,
         \A pass \in sessions' : pass \in sessions \/ pass.iat = now,
         admin.password = 0 => sessions' = {} /\ pendings' = {}
  PROVE  EnterInv'
<1>1. EnterType'
  BY EnterFields DEF EnterType, M!TypeOK
<1>2. RevokedInv'
  <2>1. ASSUME ~overtook PROVE admin.validAfter >= changedAt \/ \A pass \in sessions' : pass.iat >= changedAt
    BY <2>1, EnterFields DEF RevokedInv
  <2> QED  BY <2>1 DEF RevokedInv
<1>3. FirstInv'
  BY EnterFields DEF FirstInv
<1>4. InviteInv'
  BY EnterFields DEF InviteInv
<1>5. M!ProvedAuthenticator'
  BY EnterFields DEF M!ProvedAuthenticator
<1>6. SuspendedInv'
  BY EnterFields DEF SuspendedInv
<1> QED  BY <1>1, <1>2, <1>3, <1>4, <1>5, <1>6 DEF EnterInv

LEMMA FinishLoginHolds ==
  ASSUME EnterInv, M!Assumptions, NEW r \in Actor, M!FinishLogin(r)
  PROVE  EnterInv'
<1>1. /\ UNCHANGED <<admin, business, now, made, app, proved, changedAt, accepted, atOnce, overtook, crossing, restored>>
      /\ M!Ends(r) /\ request[r].kind = "login"
  BY DEF M!FinishLogin, M!history, M!suspensions
<1>2. Leaves(r)
  BY <1>1, EndsLeave
<1>3. /\ request' \in [Actor -> M!RequestState]
      /\ \A q \in Actor : request'[q].kind = "none" \/ request'[q] = request[q]
  BY <1>2 DEF Leaves
<1>4. admin.password # 0
  BY <1>1, EnterFields DEF FirstInv
<1>5. request[r].password \in 1..MaxPasswords
  <2>1. request[r].password \in 0..MaxPasswords /\ request[r].password # 0
    BY <1>1, EnterFields DEF EnterType, M!RequestState
  <2> QED  BY <2>1, EnterFields
<1>6. /\ sessions' \subseteq [iat : 0..MaxTime, password : 1..MaxPasswords]
      /\ \A pass \in sessions' : pass \in sessions \/ pass.iat = now
  <2>1. CASE UNCHANGED sessions
    BY <2>1, EnterFields
  <2>2. CASE M!Opens(request[r].password)
    BY <1>5, <2>2, OpensNow
  <2> QED  BY <2>1, <2>2 DEF M!FinishLogin
<1>7. pendings' \subseteq 1..MaxPasswords
  BY <1>5, EnterFields DEF M!FinishLogin
<1> QED  BY <1>1, <1>3, <1>4, <1>6, <1>7, LoginsHold

LEMMA PendingHolds ==
  ASSUME EnterInv, M!Assumptions, NEW p \in pendings, M!VerifyLogin(p) \/ M!PendingEnds(p)
  PROVE  EnterInv'
<1>1. /\ UNCHANGED <<admin, business, now, request, made, app, proved, changedAt, accepted, atOnce,
                     overtook, crossing, restored>>
      /\ pendings' = pendings \ {p}
  BY DEF M!VerifyLogin, M!PendingEnds, M!history, M!suspensions
<1>2. admin.password # 0 /\ p \in 1..MaxPasswords
  BY EnterFields DEF FirstInv
<1>3. /\ sessions' \subseteq [iat : 0..MaxTime, password : 1..MaxPasswords]
      /\ \A pass \in sessions' : pass \in sessions \/ pass.iat = now
  <2>1. CASE M!VerifyLogin(p)
    <3>1. M!Opens(p)
      BY <2>1 DEF M!VerifyLogin
    <3> QED  BY <1>2, <3>1, OpensNow
  <2>2. CASE M!PendingEnds(p)
    BY <2>2, EnterFields DEF M!PendingEnds
  <2> QED  BY <2>1, <2>2
<1>4. request' \in [Actor -> M!RequestState] /\ \A q \in Actor : request'[q] = request[q]
  BY <1>1, EnterFields
<1>5. pendings' \subseteq 1..MaxPasswords
  BY <1>1, EnterFields
<1> QED  BY <1>1, <1>2, <1>3, <1>4, <1>5, LoginsHold

\* A new password of the member's own or the platform's making.
LEMMA NewPasswordHolds ==
  ASSUME EnterInv, M!Assumptions, NEW new, new = made.password + 1, made.password < MaxPasswords,
         made' = [made EXCEPT !.password = new], admin' = M!NewPassword(new), changedAt' = now,
         UNCHANGED <<business, now, pendings, app, proved, accepted, atOnce, overtook,
                     crossing, restored>>,
         request' \in [Actor -> M!RequestState],
         \A q \in Actor : request'[q].kind = "none" \/ request'[q] = request[q],
         UNCHANGED sessions \/ M!Opens(new)
  PROVE  EnterInv'
<1>1. new \in 1..MaxPasswords /\ new \in 0..MaxPasswords /\ new # 0
  BY EnterFields
<1>2. /\ admin'.password = new /\ admin'.validAfter = now /\ admin'.mfa = admin.mfa
      /\ admin'.secret = admin.secret /\ admin'.status = admin.status
      /\ admin' \in M!Admin
  BY <1>1, EnterFields DEF M!NewPassword, M!Admin
<1>3. sessions' \subseteq [iat : 0..MaxTime, password : 1..MaxPasswords]
  BY <1>1, OpensNow, EnterFields
<1>4. EnterType'
  BY <1>1, <1>2, <1>3, EnterFields DEF EnterType, M!TypeOK
<1>5. RevokedInv'
  BY <1>2, EnterFields DEF RevokedInv
<1>6. FirstInv'
  BY <1>1, <1>2 DEF FirstInv
<1>7. InviteInv'
  BY <1>2, EnterFields DEF InviteInv
<1>8. M!ProvedAuthenticator'
  BY <1>2, EnterFields DEF M!ProvedAuthenticator
<1>9. SuspendedInv'
  BY <1>2, EnterFields DEF SuspendedInv
<1> QED  BY <1>4, <1>5, <1>6, <1>7, <1>8, <1>9 DEF EnterInv

LEMMA PasswordsHold ==
  ASSUME EnterInv, M!Assumptions,
         M!Reset \/ \E r \in Actor : M!FinishChange(r)
  PROVE  EnterInv'
<1>1. PICK new : new = made.password + 1
  OBVIOUS
<1>2. made' = [made EXCEPT !.password = new] => made'.password = new
  BY EnterFields
<1>3. CASE M!Reset
  <2>1. made' = [made EXCEPT !.password = new]
    BY <1>1, <1>3 DEF M!Reset
  <2>2. /\ made.password < MaxPasswords /\ admin' = M!NewPassword(new) /\ changedAt' = now
        /\ UNCHANGED <<business, now, request, sessions, pendings, app, proved, accepted, atOnce,
                       overtook, crossing, restored>>
    BY <1>2, <1>3, <2>1 DEF M!Reset, M!suspensions
  <2>3. request' \in [Actor -> M!RequestState] /\ \A q \in Actor : request'[q] = request[q]
    BY <2>2, EnterFields
  <2> QED  BY <1>1, <2>1, <2>2, <2>3, NewPasswordHolds
<1>4. ASSUME NEW r \in Actor, M!FinishChange(r) PROVE EnterInv'
  <2>1. made' = [made EXCEPT !.password = new]
    BY <1>1, <1>4 DEF M!FinishChange
  <2>2. /\ made.password < MaxPasswords /\ admin' = M!NewPassword(new) /\ changedAt' = now
        /\ M!Opens(new) /\ M!Ends(r)
        /\ UNCHANGED <<business, now, pendings, app, proved, accepted, atOnce, overtook, crossing, restored>>
    BY <1>2, <1>4, <2>1 DEF M!FinishChange, M!suspensions
  <2>3. Leaves(r)
    BY <2>2, EndsLeave
  <2>4. /\ request' \in [Actor -> M!RequestState]
        /\ \A q \in Actor : request'[q].kind = "none" \/ request'[q] = request[q]
    BY <2>3 DEF Leaves
  <2> QED  BY <1>1, <2>1, <2>2, <2>4, NewPasswordHolds
<1> QED  BY <1>3, <1>4

\* The first password opens the first session; another acceptance overtakes it.
LEMMA FinishAcceptHolds ==
  ASSUME EnterInv, M!Assumptions, NEW r \in Actor, M!FinishAccept(r)
  PROVE  EnterInv'
<1>1. PICK new : new = made.password + 1
  OBVIOUS
<1>2. made' = [made EXCEPT !.password = new] /\ made'.password = new
  BY <1>1, EnterFields DEF M!FinishAccept
<1>3. /\ admin' = [admin EXCEPT !.password = new, !.status = "active"] /\ M!Opens(new)
      /\ accepted' = accepted + 1 /\ changedAt' = now /\ M!Ends(r)
      /\ overtook' = (overtook \/ admin.password # 0) /\ made.password < MaxPasswords
      /\ request[r].kind = "accept"
      /\ restored' = (restored \/ admin.status = "suspended")
      /\ UNCHANGED <<business, now, pendings, app, proved, atOnce, crossing>>
  BY <1>2 DEF M!FinishAccept
<1>4. new \in 1..MaxPasswords /\ new \in 0..MaxPasswords /\ new # 0
  BY <1>1, <1>3, EnterFields
<1>5. /\ admin'.password = new /\ admin'.validAfter = admin.validAfter /\ admin'.mfa = admin.mfa
      /\ admin'.secret = admin.secret /\ admin'.status = "active" /\ admin' \in M!Admin
  BY <1>3, <1>4, EnterFields DEF M!Admin
<1>6. Leaves(r)
  BY <1>3, EndsLeave
<1>7. /\ sessions' \subseteq [iat : 0..MaxTime, password : 1..MaxPasswords]
      /\ \A pass \in sessions' : pass \in sessions \/ pass.iat = now
  BY <1>3, <1>4, OpensNow
<1>8. EnterType'
  BY <1>2, <1>3, <1>4, <1>5, <1>6, <1>7, EnterFields DEF EnterType, M!TypeOK, Leaves
<1>9. RevokedInv'
  <2>1. ASSUME ~overtook', NEW pass \in sessions' PROVE pass.iat >= changedAt'
    <3>1. sessions = {}
      BY <1>3, <2>1, EnterFields DEF FirstInv
    <3>2. pass.iat = now /\ now \in Nat
      BY <1>7, <3>1, <2>1, EnterFields
    <3> QED  BY <1>3, <3>2
  <2> QED  BY <2>1 DEF RevokedInv
<1>10. FirstInv'
  BY <1>4, <1>5 DEF FirstInv
<1>11. InviteInv'
  <2>1. admin'.status # "invited"
    BY <1>5
  <2>2. ~atOnce => accepted = 0 /\ \A q \in Actor : request[q].kind = "accept" => q = r
    BY <1>3, EnterFields DEF InviteInv
  <2>3. ~atOnce => accepted' <= 1 /\ \A q \in Actor : request'[q].kind # "accept"
    BY <1>3, <1>6, <2>2 DEF Leaves
  <2> QED  BY <1>3, <2>1, <2>3 DEF InviteInv
<1>12. M!ProvedAuthenticator'
  BY <1>3, <1>5, EnterFields DEF M!ProvedAuthenticator
<1>13. SuspendedInv'
  <2>1. ~crossing => ~restored /\ admin.status # "suspended"
    BY <1>3, EnterFields DEF SuspendedInv
  <2>2. admin'.status # "suspended"
    BY <1>5
  <2> QED  BY <1>3, <2>1, <2>2 DEF SuspendedInv
<1> QED  BY <1>8, <1>9, <1>10, <1>11, <1>12, <1>13 DEF EnterInv

\* The authenticator is set up or taken away, or the member's status is set.
LEMMA RowHolds ==
  ASSUME EnterInv, M!Assumptions, admin' \in M!Admin,
         admin'.password = admin.password, admin'.validAfter = admin.validAfter,
         admin'.status = admin.status \/ admin'.status # "invited",
         UNCHANGED <<business, now, sessions, pendings, changedAt, accepted, atOnce, overtook, restored>>,
         crossing' \in BOOLEAN, crossing => crossing',
         admin'.status = "suspended" =>
           \/ admin.status = "suspended" \/ crossing'
           \/ \A q \in Actor : request[q].kind # "accept",
         made' \in [password : 0..MaxPasswords, secret : 0..MaxSecrets],
         request' \in [Actor -> M!RequestState],
         \A q \in Actor : request'[q].kind = "none" \/ request'[q] = request[q],
         admin'.mfa => admin'.secret \in proved'
  PROVE  EnterInv'
<1>1. EnterType'
  BY EnterFields DEF EnterType, M!TypeOK
<1>2. RevokedInv'
  BY EnterFields DEF RevokedInv
<1>3. FirstInv'
  BY EnterFields DEF FirstInv
<1>4. InviteInv'
  BY EnterFields DEF InviteInv
<1>5. M!ProvedAuthenticator'
  BY DEF M!ProvedAuthenticator
<1>6. SuspendedInv'
  <2>1. ASSUME ~crossing', admin'.status = "suspended", NEW q \in Actor
        PROVE  request'[q].kind # "accept"
    <3>1. request[q].kind # "accept"
      BY <2>1, EnterFields DEF SuspendedInv
    <3> QED  BY <3>1
  <2>2. ~crossing' => ~restored'
    BY EnterFields DEF SuspendedInv
  <2> QED  BY <2>1, <2>2 DEF SuspendedInv
<1> QED  BY <1>1, <1>2, <1>3, <1>4, <1>5, <1>6 DEF EnterInv

LEMMA FinishEnrollHolds ==
  ASSUME EnterInv, M!Assumptions, NEW r \in Actor, M!FinishEnroll(r)
  PROVE  EnterInv'
<1>1. PICK new : new = made.secret + 1
  OBVIOUS
<1>2. made' = [made EXCEPT !.secret = new] /\ made'.secret = new
  BY <1>1, EnterFields DEF M!FinishEnroll
<1>3. /\ admin' = [admin EXCEPT !.pending = new] /\ M!Ends(r) /\ made.secret < MaxSecrets
      /\ UNCHANGED <<business, now, sessions, pendings, proved, changedAt, accepted, atOnce, overtook, crossing, restored>>
  BY <1>2 DEF M!FinishEnroll, M!history, M!suspensions
<1>4. new \in 0..MaxSecrets
  BY <1>1, <1>3, EnterFields
<1>5. /\ admin'.password = admin.password /\ admin'.validAfter = admin.validAfter
      /\ admin'.mfa = admin.mfa /\ admin'.secret = admin.secret /\ admin'.status = admin.status
      /\ admin' \in M!Admin
  BY <1>3, <1>4, EnterFields DEF M!Admin
<1>6. made' \in [password : 0..MaxPasswords, secret : 0..MaxSecrets]
  BY <1>2, <1>4, EnterFields
<1>7. Leaves(r)
  BY <1>3, EndsLeave
<1>8. /\ request' \in [Actor -> M!RequestState]
      /\ \A q \in Actor : request'[q].kind = "none" \/ request'[q] = request[q]
  BY <1>7 DEF Leaves
<1>9. admin'.mfa => admin'.secret \in proved'
  BY <1>3, <1>5, EnterFields DEF M!ProvedAuthenticator
<1>10. crossing' \in BOOLEAN /\ (crossing => crossing')
  BY <1>3, EnterFields
<1> QED  BY <1>3, <1>5, <1>6, <1>8, <1>9, <1>10, RowHolds

LEMMA FinishConfirmHolds ==
  ASSUME EnterInv, M!Assumptions, NEW r \in Actor, M!FinishConfirm(r)
  PROVE  EnterInv'
<1>1. PICK read : read = request[r].pending
  OBVIOUS
<1>2. PICK t : t = TRUE
  OBVIOUS
<1>3. /\ admin' = [admin EXCEPT !.mfa = t, !.secret = read, !.pending = 0] /\ M!Ends(r)
      /\ proved' = proved \cup {read}
      /\ UNCHANGED <<business, now, sessions, pendings, made, changedAt, accepted, atOnce, overtook, crossing, restored>>
  BY <1>1, <1>2 DEF M!FinishConfirm, M!PendingRead, M!history, M!suspensions
<1>4. read \in 0..MaxSecrets /\ 0 \in 0..MaxSecrets /\ t \in BOOLEAN
  BY <1>1, <1>2, EnterFields DEF M!RequestState
<1>5. /\ admin'.password = admin.password /\ admin'.validAfter = admin.validAfter
      /\ admin'.secret = read /\ admin'.status = admin.status /\ admin' \in M!Admin
  BY <1>3, <1>4, EnterFields DEF M!Admin
<1>6. made' \in [password : 0..MaxPasswords, secret : 0..MaxSecrets]
  BY <1>3, EnterFields
<1>7. Leaves(r)
  BY <1>3, EndsLeave
<1>8. /\ request' \in [Actor -> M!RequestState]
      /\ \A q \in Actor : request'[q].kind = "none" \/ request'[q] = request[q]
  BY <1>7 DEF Leaves
<1>9. admin'.mfa => admin'.secret \in proved'
  BY <1>3, <1>5
<1>10. crossing' \in BOOLEAN /\ (crossing => crossing')
  BY <1>3, EnterFields
<1> QED  BY <1>3, <1>5, <1>6, <1>8, <1>9, <1>10, RowHolds

LEMMA FinishDisableHolds ==
  ASSUME EnterInv, M!Assumptions, NEW r \in Actor, M!FinishDisable(r)
  PROVE  EnterInv'
<1>1. PICK f : f = FALSE
  OBVIOUS
<1>2. /\ admin' = [admin EXCEPT !.mfa = f, !.secret = 0, !.pending = 0] /\ M!Ends(r)
      /\ UNCHANGED <<business, now, sessions, pendings, made, proved, changedAt, accepted, atOnce,
                     overtook, crossing, restored>>
  BY <1>1 DEF M!FinishDisable, M!history, M!suspensions
<1>3. 0 \in 0..MaxSecrets
  BY EnterFields
<1>9. f \in BOOLEAN
  BY <1>1
<1>4. /\ admin'.password = admin.password /\ admin'.validAfter = admin.validAfter
      /\ admin'.mfa = f /\ admin'.status = admin.status /\ admin' \in M!Admin
  BY <1>2, <1>3, <1>9, EnterFields DEF M!Admin
<1>5. made' \in [password : 0..MaxPasswords, secret : 0..MaxSecrets]
  BY <1>2, EnterFields
<1>6. Leaves(r)
  BY <1>2, EndsLeave
<1>7. /\ request' \in [Actor -> M!RequestState]
      /\ \A q \in Actor : request'[q].kind = "none" \/ request'[q] = request[q]
  BY <1>6 DEF Leaves
<1>8. ~admin'.mfa
  BY <1>1, <1>4
<1>10. crossing' \in BOOLEAN /\ (crossing => crossing')
  BY <1>2, EnterFields
<1> QED  BY <1>2, <1>4, <1>5, <1>7, <1>8, <1>10, RowHolds

LEMMA SetStatusHolds ==
  ASSUME EnterInv, M!Assumptions, NEW s \in {"active", "suspended"}, M!SetStatus(s)
  PROVE  EnterInv'
<1>1. /\ admin' = [admin EXCEPT !.status = s]
      /\ crossing' = (\/ crossing
                      \/ s = "suspended" /\ \E r \in Actor : request[r].kind = "accept")
      /\ UNCHANGED <<business, now, request, sessions, pendings, made, proved, changedAt, accepted,
                     atOnce, overtook, restored>>
  BY DEF M!SetStatus
<1>2. /\ admin'.password = admin.password /\ admin'.validAfter = admin.validAfter
      /\ admin'.mfa = admin.mfa /\ admin'.secret = admin.secret /\ admin'.status = s
      /\ admin'.status # "invited" /\ admin' \in M!Admin
  BY <1>1, EnterFields DEF M!Admin
<1>3. made' \in [password : 0..MaxPasswords, secret : 0..MaxSecrets]
  BY <1>1, EnterFields
<1>4. request' \in [Actor -> M!RequestState] /\ \A q \in Actor : request'[q] = request[q]
  BY <1>1, EnterFields
<1>5. admin'.mfa => admin'.secret \in proved'
  BY <1>1, <1>2, EnterFields DEF M!ProvedAuthenticator
<1>6. crossing' \in BOOLEAN /\ (crossing => crossing')
  BY <1>1, EnterFields
<1>7. admin'.status = "suspended" => crossing' \/ \A q \in Actor : request[q].kind # "accept"
  BY <1>1, <1>2
<1> QED  BY <1>1, <1>2, <1>3, <1>4, <1>5, <1>6, <1>7, RowHolds

\* The platform suspends the business or time passes.
LEMMA AroundHolds ==
  ASSUME EnterInv, M!Assumptions, M!Tick \/ \E s \in {"active", "suspended"} : M!SetBusiness(s)
  PROVE  EnterInv'
<1>1. UNCHANGED <<admin, request, sessions, pendings, made, app, proved, changedAt, accepted, atOnce,
                  overtook, crossing, restored>>
  BY DEF M!Tick, M!SetBusiness, M!history, M!suspensions
<1>2. /\ business' \in {"active", "suspended"} /\ now' \in 0..MaxTime /\ changedAt \in 0..now'
  BY EnterFields DEF M!Tick, M!SetBusiness
<1>3. EnterType'
  BY <1>1, <1>2, EnterFields DEF EnterType, M!TypeOK
<1>4. RevokedInv' /\ FirstInv' /\ InviteInv' /\ SuspendedInv' /\ M!ProvedAuthenticator'
  BY <1>1, EnterFields DEF RevokedInv, FirstInv, InviteInv, SuspendedInv, M!ProvedAuthenticator
<1> QED  BY <1>3, <1>4 DEF EnterInv

LEMMA EnterMoves == M!Assumptions /\ EnterInv /\ M!Next => EnterInv'
<1> SUFFICES ASSUME M!Assumptions, EnterInv, M!Next PROVE EnterInv'  OBVIOUS
<1>1. \/ \E r \in Actor :
           \/ M!StartLogin(r) \/ M!StartAccept(r) \/ M!StartConfirm(r)
           \/ \E kind \in {"change", "enroll", "disable"} : M!StartSignedIn(r, kind)
      \/ \E r \in Actor :
           \/ M!FinishLogin(r) \/ M!FinishChange(r) \/ M!FinishAccept(r) \/ M!FinishEnroll(r)
           \/ M!FinishConfirm(r) \/ M!FinishDisable(r)
      \/ \E p \in pendings : M!VerifyLogin(p) \/ M!PendingEnds(p)
      \/ M!Reset \/ M!Tick
      \/ \E s \in {"active", "suspended"} : M!SetStatus(s) \/ M!SetBusiness(s)
  BY DEF M!Next
<1>2. CASE \E r \in Actor :
             \/ M!StartLogin(r) \/ M!StartAccept(r) \/ M!StartConfirm(r)
             \/ \E kind \in {"change", "enroll", "disable"} : M!StartSignedIn(r, kind)
  BY <1>2, BeginsHold
<1>3. CASE \E r \in Actor :
             \/ M!FinishLogin(r) \/ M!FinishChange(r) \/ M!FinishAccept(r) \/ M!FinishEnroll(r)
             \/ M!FinishConfirm(r) \/ M!FinishDisable(r)
  BY <1>3, FinishLoginHolds, PasswordsHold, FinishAcceptHolds, FinishEnrollHolds,
     FinishConfirmHolds, FinishDisableHolds
<1>4. CASE \E p \in pendings : M!VerifyLogin(p) \/ M!PendingEnds(p)
  BY <1>4, PendingHolds
<1>5. CASE M!Reset \/ M!Tick \/ \E s \in {"active", "suspended"} : M!SetStatus(s) \/ M!SetBusiness(s)
  BY <1>5, PasswordsHold, AroundHolds, SetStatusHolds
<1> QED  BY <1>1, <1>2, <1>3, <1>4, <1>5

LEMMA EnterStands == EnterInv /\ UNCHANGED entering => EnterInv'
<1> SUFFICES ASSUME EnterInv, UNCHANGED entering PROVE EnterInv'  OBVIOUS
<1>1. UNCHANGED <<admin, business, now, request, sessions, pendings, made, app, proved, changedAt,
                  accepted, atOnce, overtook, crossing, restored>>
  BY DEF entering
<1>2. EnterType'
  BY <1>1 DEF EnterInv, EnterType, M!TypeOK
<1>3. RevokedInv' /\ FirstInv' /\ InviteInv' /\ SuspendedInv' /\ M!ProvedAuthenticator'
  BY <1>1 DEF EnterInv, RevokedInv, FirstInv, InviteInv, SuspendedInv, M!ProvedAuthenticator
<1> QED  BY <1>2, <1>3 DEF EnterInv

-----------------------------------------------------------------------------
(* The counters of wrong passwords and codes.                              *)

GuardStage ==
  {"email", "ip", "code", "emailRow", "ipRow", "codeRow", "idle", "check", "try", "store",
   "welcome", "forgive", "give back"}

Guarded ==
  [pc : GuardStage, right : BOOLEAN, blocked : BOOLEAN, lockedNow : BOOLEAN, failures : Nat,
   alerted : BOOLEAN]

Guarding(stages) == {r \in Actor : trying[r].pc \in stages}

Judged == {"check", "store", "welcome", "forgive", "give back"}
Unjudged == {"email", "emailRow", "ip", "ipRow", "check"}

Lockers == {r \in Actor : trying[r].lockedNow}

GuardType ==
  /\ count \in [L!Key -> Nat] /\ alive \in [L!Key -> BOOLEAN]
  /\ account \in [suspended : BOOLEAN, mfa : BOOLEAN, failures : Nat, alerted : BOOLEAN]
  /\ trying \in [Actor -> Guarded] /\ sent \in 0..MaxAttempts /\ let \in [L!Key -> Nat]
  /\ wrong \in Nat /\ told \in Nat /\ doubled \in [L!Key -> BOOLEAN] /\ astray \in BOOLEAN

\* A row counts at least the tries that it let through.
LimitInv ==
  \A k \in {"login-id", "mfa"} :
    /\ alive[k] \/ let[k] = 0
    /\ ~alive[k] \/ doubled[k] \/ (let[k] <= count[k] /\ let[k] <= L!Limit[k])

\* One try takes the row to its limit, and then no other does.
ToldInv ==
  \/ doubled["login-id"]
  \/ /\ told <= 1 /\ \A q, r \in Lockers : q = r
     /\ told = 1 => Lockers = {}
     /\ ~alive["login-id"] \/ count["login-id"] >= MaxPerEmail \/ (told = 0 /\ Lockers = {})

\* No failure is stored that was not tried.
FailureInv ==
  /\ account.failures + Cardinality(Guarding(Unjudged)) <= sent
  /\ \A r \in Actor :
       trying[r].pc = "store" => trying[r].failures + Cardinality(Guarding(Unjudged)) <= sent

GuardInv == GuardType /\ LimitInv /\ ToldInv /\ L!OnlyWrongOnesCount /\ FailureInv

LEMMA GuardConstants ==
  ASSUME L!Assumptions
  PROVE  /\ IsFiniteSet(Actor) /\ MaxAttempts \in Nat
         /\ MaxPerEmail \in Nat \ {0} /\ MaxPerIp \in Nat \ {0} /\ MaxCodes \in Nat \ {0}
         /\ L!Limit["login-id"] = MaxPerEmail /\ L!Limit["mfa"] = MaxCodes
         /\ L!Key = {"login-id", "login-ip", "mfa"}
         /\ L!Limit \in [L!Key -> Nat \ {0}]
BY DEF L!Assumptions, L!IsFiniteSet, IsFiniteSet, L!Limit, L!Key

\* A request goes on to w.
Tries(r, w) == w \in Guarded /\ trying' = [trying EXCEPT ![r] = w]

LEMMA TriesGo ==
  ASSUME GuardType, NEW r \in Actor, NEW w, Tries(r, w)
  PROVE  /\ trying' \in [Actor -> Guarded] /\ trying'[r] = w /\ w \in Guarded
         /\ \A q \in Actor \ {r} : trying'[q] = trying[q]
BY DEF GuardType, Tries

\* How the requests of some stages become more or fewer.
Joined(stages, r, w) ==
  /\ IsFiniteSet(Guarding(stages)) /\ Cardinality(Guarding(stages)) \in Nat
  /\ (trying[r].pc \in stages <=> w.pc \in stages) => Guarding(stages)' = Guarding(stages)
  /\ trying[r].pc \notin stages /\ w.pc \in stages =>
       Cardinality(Guarding(stages)') = Cardinality(Guarding(stages)) + 1
  /\ trying[r].pc \in stages /\ w.pc \notin stages =>
       Cardinality(Guarding(stages)') = Cardinality(Guarding(stages)) - 1

LEMMA GuardingJoined ==
  ASSUME GuardType, L!Assumptions, NEW r \in Actor, NEW w, Tries(r, w), NEW stages
  PROVE  Joined(stages, r, w)
<1>1. /\ trying'[r] = w /\ \A q \in Actor \ {r} : trying'[q] = trying[q]
  BY TriesGo
<1>2. IsFiniteSet(Guarding(stages)) /\ Cardinality(Guarding(stages)) \in Nat
  <2>1. Guarding(stages) \subseteq Actor
    BY DEF Guarding
  <2> QED  BY <2>1, GuardConstants, FS_Subset, FS_CardinalityType
<1>3. (trying[r].pc \in stages <=> w.pc \in stages) => Guarding(stages)' = Guarding(stages)
  BY <1>1 DEF Guarding
<1>4. ASSUME trying[r].pc \notin stages, w.pc \in stages
      PROVE  Cardinality(Guarding(stages)') = Cardinality(Guarding(stages)) + 1
  <2>1. Guarding(stages)' = Guarding(stages) \cup {r} /\ r \notin Guarding(stages)
    BY <1>1, <1>4 DEF Guarding
  <2> QED  BY <1>2, <2>1, FS_AddElement
<1>5. ASSUME trying[r].pc \in stages, w.pc \notin stages
      PROVE  Cardinality(Guarding(stages)') = Cardinality(Guarding(stages)) - 1
  <2>1. Guarding(stages)' = Guarding(stages) \ {r} /\ r \in Guarding(stages)
    BY <1>1, <1>5 DEF Guarding
  <2> QED  BY <1>2, <2>1, FS_RemoveElement
<1> QED  BY <1>2, <1>3, <1>4, <1>5 DEF Joined

LEMMA JudgingIs == L!Judging = Guarding(Judged) /\ L!Cardinality(L!Judging) = Cardinality(Guarding(Judged))
BY DEF L!Judging, Guarding, Judged, L!Cardinality, Cardinality

LEMMA GuardPromises ==
  L!Assumptions /\ GuardInv => L!TypeOK /\ L!TriesAreLimited /\ L!ToldOnce /\ L!OnlyWrongOnesCount
<1> SUFFICES ASSUME L!Assumptions, GuardInv
             PROVE  L!TypeOK /\ L!TriesAreLimited /\ L!ToldOnce /\ L!OnlyWrongOnesCount
  OBVIOUS
<1>1. L!TypeOK
  <2>1. \A k \in L!Key : count[k] \in Nat /\ alive[k] \in BOOLEAN
    BY DEF GuardInv, GuardType
  <2>2. account.failures \in 0..MaxAttempts
    <3>1. IsFiniteSet(Guarding(Unjudged))
      BY GuardConstants, FS_Subset DEF Guarding
    <3>2. Cardinality(Guarding(Unjudged)) \in Nat
      BY <3>1, FS_CardinalityType
    <3> QED  BY <3>2, GuardConstants DEF GuardInv, GuardType, FailureInv
  <2>3. ASSUME NEW r \in Actor
        PROVE  trying[r].pc \in DOMAIN L!Counting \cup DOMAIN L!Beginning \cup
                 {"idle", "check", "try", "store", "welcome", "forgive", "give back"}
    <3>1. DOMAIN L!Counting = {"email", "ip", "code"}
      BY DEF L!Counting
    <3>2. DOMAIN L!Beginning = {"emailRow", "ipRow", "codeRow"}
      BY DEF L!Beginning
    <3>3. trying[r].pc \in GuardStage
      BY DEF GuardInv, GuardType, Guarded
    <3> QED  BY <3>1, <3>2, <3>3 DEF GuardStage
  <2> QED  BY <2>1, <2>2, <2>3 DEF GuardInv, GuardType, L!TypeOK
<1>2. L!TriesAreLimited
  <2>1. ASSUME NEW k \in {"login-id", "mfa"}, ~doubled[k] PROVE let[k] <= L!Limit[k]
    <3>1. L!Limit[k] \in Nat
      BY GuardConstants
    <3>2. let[k] = 0 \/ let[k] <= L!Limit[k]
      BY <2>1 DEF GuardInv, LimitInv
    <3> QED  BY <3>1, <3>2
  <2> QED  BY <2>1 DEF L!TriesAreLimited
<1>3. L!ToldOnce
  BY DEF GuardInv, ToldInv, L!ToldOnce
<1> QED  BY <1>1, <1>2, <1>3 DEF GuardInv

LEMMA WaitingIs ==
  /\ L!Waiting \in Guarded /\ L!Waiting.pc = "idle" /\ ~L!Waiting.lockedNow
<1>1. PICK f : f = FALSE
  OBVIOUS
<1>2. L!Waiting = [pc |-> "idle", right |-> f, blocked |-> f, lockedNow |-> f, failures |-> 0,
                   alerted |-> f]
  BY <1>1 DEF L!Waiting
<1>3. f \in BOOLEAN
  BY <1>1
<1>4. L!Waiting \in Guarded
  BY <1>2, <1>3 DEF Guarded, GuardStage
<1> QED  BY <1>1, <1>2, <1>4

LEMMA GuardStarts == L!Assumptions /\ L!Init => GuardInv
<1> SUFFICES ASSUME L!Assumptions, L!Init PROVE GuardInv  OBVIOUS
<1>1. PICK f : f = FALSE
  OBVIOUS
<1>2. /\ count = [k \in L!Key |-> 0] /\ alive = [k \in L!Key |-> f]
      /\ account \in [suspended : BOOLEAN, mfa : BOOLEAN, failures : {0}, alerted : {f}]
      /\ trying = [r \in Actor |-> L!Waiting] /\ sent = 0 /\ let = [k \in L!Key |-> 0]
      /\ wrong = 0 /\ told = 0 /\ doubled = [k \in L!Key |-> f] /\ astray = f
  BY <1>1 DEF L!Init
<1>3. f \in BOOLEAN
  BY <1>1
<1>4. sent \in 0..MaxAttempts
  BY <1>2, GuardConstants
<1>5. GuardType
  <2>1. count \in [L!Key -> Nat] /\ let \in [L!Key -> Nat] /\ wrong \in Nat /\ told \in Nat
    BY <1>2
  <2>2. alive \in [L!Key -> BOOLEAN] /\ doubled \in [L!Key -> BOOLEAN]
    BY <1>2, <1>3
  <2>3. account \in [suspended : BOOLEAN, mfa : BOOLEAN, failures : Nat, alerted : BOOLEAN]
    BY <1>2, <1>3
  <2>4. trying \in [Actor -> Guarded]
    BY <1>2, WaitingIs
  <2>5. astray \in BOOLEAN
    BY <1>2, <1>3
  <2> QED  BY <1>4, <2>1, <2>2, <2>3, <2>4, <2>5 DEF GuardType
<1>6. ~alive["login-id"] /\ ~alive["mfa"] /\ ~alive["login-ip"]
  BY <1>1, <1>2, GuardConstants
<1>7. LimitInv
  BY <1>2, <1>6, GuardConstants DEF LimitInv
<1>8. ToldInv
  <2>1. Lockers = {}
    BY <1>2, WaitingIs DEF Lockers
  <2> QED  BY <1>2, <1>6, <2>1 DEF ToldInv
<1>9. L!OnlyWrongOnesCount
  BY <1>6 DEF L!OnlyWrongOnesCount
<1>10. FailureInv
  <2>1. Guarding(Unjudged) = {}
    BY <1>2, WaitingIs DEF Guarding, Unjudged
  <2>2. Cardinality(Guarding(Unjudged)) = 0
    BY <2>1, FS_EmptySet
  <2>3. account.failures = 0
    BY <1>2
  <2>4. \A r \in Actor : trying[r].pc # "store"
    BY <1>2, WaitingIs
  <2> QED  BY <1>2, <2>2, <2>3, <2>4 DEF FailureInv
<1> QED  BY <1>5, <1>7, <1>8, <1>9, <1>10 DEF GuardInv

\* What a step leaves alone of each promise.
LEMMA LimitKept ==
  ASSUME LimitInv,
         \A k \in {"login-id", "mfa"} :
           /\ alive'[k] = alive[k] /\ let'[k] = let[k]
           /\ doubled'[k] = doubled[k] /\ count'[k] = count[k]
  PROVE  LimitInv'
BY DEF LimitInv

LEMMA LockersKept ==
  ASSUME GuardType, NEW r \in Actor, NEW w, Tries(r, w), w.lockedNow => trying[r].lockedNow
  PROVE  Lockers' \subseteq Lockers
BY TriesGo DEF Lockers

LEMMA ToldKept ==
  ASSUME ToldInv, told' = told, doubled'["login-id"] = doubled["login-id"], Lockers' \subseteq Lockers,
         \/ ~alive'["login-id"]
         \/ alive'["login-id"] = alive["login-id"] /\ count'["login-id"] = count["login-id"]
  PROVE  ToldInv'
<1>1. CASE doubled["login-id"]
  BY <1>1 DEF ToldInv
<1>2. CASE ~doubled["login-id"]
  <2>1. told' <= 1 /\ \A q, r \in Lockers' : q = r
    BY <1>2 DEF ToldInv
  <2>2. told' = 1 => Lockers' = {}
    BY <1>2 DEF ToldInv
  <2>3. ~alive'["login-id"] \/ count'["login-id"] >= MaxPerEmail \/ (told' = 0 /\ Lockers' = {})
    BY <1>2 DEF ToldInv
  <2> QED  BY <2>1, <2>2, <2>3 DEF ToldInv
<1> QED  BY <1>1, <1>2

LEMMA AddressKept ==
  ASSUME GuardType, L!OnlyWrongOnesCount, L!Assumptions, NEW r \in Actor, NEW w, Tries(r, w),
         trying[r].pc \in Judged <=> w.pc \in Judged,
         count'["login-ip"] = count["login-ip"], alive'["login-ip"] = alive["login-ip"],
         wrong' = wrong, astray' = astray
  PROVE  L!OnlyWrongOnesCount'
<1>1. Joined(Judged, r, w)
  BY GuardingJoined
<1>2. Guarding(Judged)' = Guarding(Judged)
  BY <1>1 DEF Joined
<1>3. L!Judging' = L!Judging
  BY <1>2 DEF L!Judging, Guarding, Judged
<1>4. L!Cardinality(L!Judging)' = L!Cardinality(L!Judging)
  BY <1>3 DEF L!Cardinality
<1> QED  BY <1>4 DEF L!OnlyWrongOnesCount

LEMMA FailureKept ==
  ASSUME GuardType, FailureInv, L!Assumptions, NEW r \in Actor, NEW w, Tries(r, w),
         w.pc \in Unjudged => trying[r].pc \in Unjudged, w.pc # "store", sent' = sent,
         \/ account'.failures = account.failures
         \/ account'.failures = 0
         \/ account'.failures = trying[r].failures /\ trying[r].pc = "store"
  PROVE  FailureInv'
<1>1. Joined(Unjudged, r, w) /\ trying[r] \in Guarded /\ account.failures \in Nat /\ sent \in Nat
  BY GuardingJoined DEF GuardType
<1>2. PICK c, d : c = Cardinality(Guarding(Unjudged)) /\ d = Cardinality(Guarding(Unjudged)')
  OBVIOUS
<1>3. c \in Nat /\ d \in {c, c - 1}
  BY <1>1, <1>2 DEF Joined
<1>4. trying[r].failures \in Nat
  BY <1>1 DEF Guarded
<1>5. account'.failures + d <= sent
  BY <1>1, <1>2, <1>3, <1>4 DEF FailureInv
<1>6. ASSUME NEW q \in Actor, trying'[q].pc = "store" PROVE trying'[q].failures + d <= sent
  <2>1. q # r /\ trying'[q] = trying[q]
    BY <1>6, TriesGo
  <2>2. trying[q].failures \in Nat
    BY DEF GuardType, Guarded
  <2> QED  BY <1>1, <1>2, <1>3, <1>6, <2>1, <2>2 DEF FailureInv
<1> QED  BY <1>2, <1>5, <1>6 DEF FailureInv

\* A request goes on; no counter moves.
LEMMA WalksHold ==
  ASSUME GuardInv, L!Assumptions, NEW r \in Actor, NEW w, Tries(r, w),
         UNCHANGED <<count, alive, let, wrong, told, doubled, astray>>,
         trying[r].pc \in Judged <=> w.pc \in Judged, w.lockedNow => trying[r].lockedNow,
         account' \in [suspended : BOOLEAN, mfa : BOOLEAN, failures : Nat, alerted : BOOLEAN],
         sent' \in 0..MaxAttempts, FailureInv'
  PROVE  GuardInv'
<1>1. GuardType /\ LimitInv /\ ToldInv /\ L!OnlyWrongOnesCount
  BY DEF GuardInv
<1>2. GuardType'
  BY <1>1, TriesGo DEF GuardType
<1>3. LimitInv'
  BY <1>1, LimitKept
<1>4. ToldInv'
  BY <1>1, LockersKept, ToldKept
<1>5. L!OnlyWrongOnesCount'
  BY <1>1, AddressKept
<1> QED  BY <1>2, <1>3, <1>4, <1>5 DEF GuardInv

LEMMA SubmitHolds ==
  ASSUME GuardInv, L!Assumptions, NEW r \in Actor, NEW right \in BOOLEAN,
         L!Submit(r, right) \/ L!Code(r, right)
  PROVE  GuardInv'
<1>1. PICK pc \in {"email", "code"} :
        trying' = [trying EXCEPT ![r] = [L!Waiting EXCEPT !.pc = pc, !.right = right]]
  BY DEF L!Submit, L!Code
<1>2. PICK w : w = [L!Waiting EXCEPT !.pc = pc, !.right = right]
  OBVIOUS
<1>10. w \in Guarded /\ ~w.lockedNow /\ w.pc \in {"email", "code"}
  BY <1>2, WaitingIs DEF Guarded, GuardStage
<1>3. /\ trying[r].pc = "idle" /\ sent' = sent + 1 /\ sent < MaxAttempts
      /\ UNCHANGED <<count, alive, account, let, wrong, told, doubled, astray>>
  BY DEF L!Submit, L!Code
<1>11. Tries(r, w)
  BY <1>1, <1>2, <1>10 DEF Tries
<1>4. GuardType /\ FailureInv /\ sent \in Nat
  BY DEF GuardInv, GuardType
<1>5. sent' \in 0..MaxAttempts
  BY <1>3, <1>4, GuardConstants
<1>6. trying[r].pc \in Judged <=> w.pc \in Judged
  BY <1>3, <1>10 DEF Judged
<1>7. account' \in [suspended : BOOLEAN, mfa : BOOLEAN, failures : Nat, alerted : BOOLEAN]
  BY <1>3, <1>4 DEF GuardType
<1>8. FailureInv'
  <2>1. Joined(Unjudged, r, w)
    BY <1>4, <1>11, GuardingJoined
  <2>2. PICK c, d : c = Cardinality(Guarding(Unjudged)) /\ d = Cardinality(Guarding(Unjudged)')
    OBVIOUS
  <2>3. c \in Nat /\ d \in {c, c + 1}
    <3>1. trying[r].pc \notin Unjudged
      BY <1>3 DEF Unjudged
    <3> QED  BY <2>1, <2>2, <3>1 DEF Joined
  <2>4. account.failures \in Nat /\ account.failures + c <= sent
    BY <1>4, <2>2 DEF GuardType, FailureInv
  <2>5. account'.failures + d <= sent'
    BY <1>3, <1>4, <2>3, <2>4
  <2>6. ASSUME NEW q \in Actor, trying'[q].pc = "store" PROVE trying'[q].failures + d <= sent'
    <3>1. trying'[q] = trying[q]
      BY <1>4, <1>10, <1>11, <2>6, TriesGo
    <3>2. trying[q].failures \in Nat /\ trying[q].failures + c <= sent
      BY <1>4, <2>2, <2>6, <3>1 DEF GuardType, Guarded, FailureInv
    <3> QED  BY <1>3, <1>4, <2>3, <3>1, <3>2
  <2> QED  BY <2>2, <2>5, <2>6 DEF FailureInv
<1>9. w.lockedNow => trying[r].lockedNow
  BY <1>10
<1> QED  BY <1>3, <1>5, <1>11, <1>6, <1>7, <1>8, <1>9, WalksHold

\* What a count of n for the key makes of the request and of the histories.
Charge(n) == IF n = 1 THEN 0 ELSE wrong

Tallied(r, k, n, w) ==
  /\ Tries(r, w)
  /\ k = "login-id" => w.pc = "ip"
  /\ k = "mfa" => w.pc \in {"idle", "try"}
  /\ k = "login-ip" =>
       \/ w.pc = "idle" /\ wrong' = Charge(n) + 1
       \/ w.pc = "check" /\ wrong' = Charge(n)
  /\ k # "login-ip" => wrong' = wrong
  /\ w.lockedNow => trying[r].lockedNow \/ (k = "login-id" /\ n = MaxPerEmail)
  /\ let' = [let EXCEPT ![k] = @ + (IF n > L!Limit[k] THEN 0 ELSE 1)]

LEMMA CountedTallies ==
  ASSUME GuardType, L!Assumptions, NEW r \in Actor, NEW k \in L!Key, NEW n \in Nat, L!Counted(r, k, n)
  PROVE  \E w : Tallied(r, k, n, w)
<1>1. PICK blocked : blocked = (trying[r].blocked \/ n > L!Limit[k])
  OBVIOUS
<1>2. PICK locks : locks = (trying[r].lockedNow \/ (k = "login-id" /\ n = L!Limit[k]))
  OBVIOUS
<1>3. PICK pc : pc = CASE k = "login-id" -> "ip" [] k = "login-ip" -> "check" [] k = "mfa" -> "try"
  OBVIOUS
<1>4. PICK goes : goes = [trying[r] EXCEPT !.pc = pc, !.blocked = blocked, !.lockedNow = locks]
  OBVIOUS
<1>5. PICK w : w = IF k # "login-id" /\ blocked THEN L!Waiting ELSE goes
  OBVIOUS
<1>6. trying[r] \in Guarded /\ wrong \in Nat /\ trying \in [Actor -> Guarded]
  BY DEF GuardType
<1>7. /\ k = "login-id" => pc = "ip"
      /\ k = "login-ip" => pc = "check"
      /\ k = "mfa" => pc = "try"
      /\ pc \in GuardStage
  BY <1>3 DEF L!Key, GuardStage
<1>8. blocked \in BOOLEAN
  BY <1>1
<1>9. locks \in BOOLEAN
  BY <1>2
<1>10. goes \in Guarded /\ goes.pc = pc /\ goes.lockedNow = locks
  BY <1>4, <1>6, <1>7, <1>8, <1>9 DEF Guarded
<1>11. trying' = [trying EXCEPT ![r] = w]
  <2>1. trying' = [trying EXCEPT ![r] =
          IF k # "login-id" /\ (trying[r].blocked \/ n > L!Limit[k]) THEN L!Waiting
          ELSE [trying[r] EXCEPT
                  !.pc = CASE k = "login-id" -> "ip" [] k = "login-ip" -> "check" [] k = "mfa" -> "try",
                  !.blocked = trying[r].blocked \/ n > L!Limit[k],
                  !.lockedNow = trying[r].lockedNow \/ (k = "login-id" /\ n = L!Limit[k])]]
    BY <1>6 DEF L!Counted
  <2>2. trying' = [trying EXCEPT ![r] =
          IF k # "login-id" /\ blocked THEN L!Waiting
          ELSE [trying[r] EXCEPT !.pc = pc, !.blocked = blocked, !.lockedNow = locks]]
    <3>1. trying' = [trying EXCEPT ![r] =
            IF k # "login-id" /\ (trying[r].blocked \/ n > L!Limit[k]) THEN L!Waiting
            ELSE [trying[r] EXCEPT !.pc = pc, !.blocked = trying[r].blocked \/ n > L!Limit[k],
                    !.lockedNow = trying[r].lockedNow \/ (k = "login-id" /\ n = L!Limit[k])]]
      <4>1. CASE k = "login-id"
        BY <1>7, <2>1, <4>1
      <4>2. CASE k = "login-ip"
        BY <1>7, <2>1, <4>2
      <4>3. CASE k = "mfa"
        BY <1>7, <2>1, <4>3
      <4> QED  BY <4>1, <4>2, <4>3 DEF L!Key
    <3>2. trying' = [trying EXCEPT ![r] =
            IF k # "login-id" /\ (trying[r].blocked \/ n > L!Limit[k]) THEN L!Waiting
            ELSE [trying[r] EXCEPT !.pc = pc, !.blocked = blocked, !.lockedNow = locks]]
      BY <1>1, <1>2, <3>1
    <3>3. (k # "login-id" /\ (trying[r].blocked \/ n > L!Limit[k])) <=> (k # "login-id" /\ blocked)
      BY <1>1
    <3> QED  BY <3>2, <3>3
  <2> QED  BY <1>4, <1>5, <2>2
<1>12. Tries(r, w)
  BY <1>5, <1>10, <1>11, WaitingIs DEF Tries
<1>13. CASE k = "login-id"
  <2>1. w = goes /\ k # "login-ip" /\ k # "mfa"
    BY <1>5, <1>13
  <2>2. wrong' = wrong
    <3>1. wrong' = wrong + 0
      BY <2>1 DEF L!Counted
    <3> QED  BY <1>6, <3>1
  <2>3. locks => trying[r].lockedNow \/ (k = "login-id" /\ n = MaxPerEmail)
    BY <1>2, GuardConstants
  <2>4. let' = [let EXCEPT ![k] = @ + (IF n > L!Limit[k] THEN 0 ELSE 1)]
    BY DEF L!Counted
  <2>5. w.lockedNow => trying[r].lockedNow \/ (k = "login-id" /\ n = MaxPerEmail)
    BY <1>10, <2>1, <2>3
  <2>6. w.pc = "ip"
    BY <1>7, <1>10, <1>13, <2>1
  <2> QED  BY <1>12, <2>1, <2>2, <2>4, <2>5, <2>6 DEF Tallied
<1>14. CASE k # "login-id"
  <2>1. locks => trying[r].lockedNow
    BY <1>2, <1>14
  <2>2. (blocked => w = L!Waiting) /\ (~blocked => w = goes)
    BY <1>5, <1>14
  <2>3. w.lockedNow => trying[r].lockedNow
    BY <1>10, <2>1, <2>2, WaitingIs
  <2>4. k = "mfa" => w.pc \in {"idle", "try"}
    BY <1>7, <1>10, <2>2, WaitingIs
  <2>5. k # "login-ip" => wrong' = wrong
    <3>1. k # "login-ip" => wrong' = wrong + 0
      BY DEF L!Counted
    <3> QED  BY <1>6, <3>1
  <2>6. ASSUME k = "login-ip"
        PROVE  \/ w.pc = "idle" /\ wrong' = Charge(n) + 1
               \/ w.pc = "check" /\ wrong' = Charge(n)
    <3>1. wrong' = Charge(n) + (IF blocked THEN 1 ELSE 0)
      BY <1>1, <2>6 DEF L!Counted, Charge
    <3>2. Charge(n) \in Nat
      BY <1>6 DEF Charge
    <3>3. CASE blocked
      <4>1. wrong' = Charge(n) + 1 /\ w.pc = "idle"
        BY <2>2, <3>1, <3>3, WaitingIs
      <4> QED  BY <4>1
    <3>4. CASE ~blocked
      <4>1. wrong' = Charge(n) /\ w.pc = "check"
        BY <1>7, <1>10, <2>2, <2>6, <3>1, <3>2, <3>4
      <4> QED  BY <4>1
    <3> QED  BY <3>3, <3>4
  <2>7. let' = [let EXCEPT ![k] = @ + (IF n > L!Limit[k] THEN 0 ELSE 1)]
    BY DEF L!Counted
  <2> QED  BY <1>12, <1>14, <2>3, <2>4, <2>5, <2>6, <2>7 DEF Tallied
<1> QED  BY <1>13, <1>14

\* What every count leaves of the shapes.
LEMMA TallyTypes ==
  ASSUME GuardType, L!Assumptions, NEW r \in Actor, NEW k \in L!Key, NEW n \in Nat, NEW w,
         Tallied(r, k, n, w)
  PROVE  /\ trying' \in [Actor -> Guarded] /\ wrong' \in Nat /\ let' \in [L!Key -> Nat]
         /\ \A l \in L!Key \ {k} : let'[l] = let[l]
         /\ let'[k] = IF n > L!Limit[k] THEN let[k] ELSE let[k] + 1
<1>1. wrong \in Nat /\ let \in [L!Key -> Nat] /\ L!Limit[k] \in Nat
  BY GuardConstants DEF GuardType
<1>2. trying' \in [Actor -> Guarded]
  BY TriesGo DEF Tallied
<1>3. Charge(n) \in Nat
  BY <1>1 DEF Charge
<1>4. wrong' \in {wrong, Charge(n), Charge(n) + 1}
  BY DEF Tallied
<1>5. /\ let' \in [L!Key -> Nat] /\ \A l \in L!Key \ {k} : let'[l] = let[l]
      /\ let'[k] = IF n > L!Limit[k] THEN let[k] ELSE let[k] + 1
  BY <1>1 DEF Tallied
<1> QED  BY <1>1, <1>2, <1>3, <1>4, <1>5

CountsFor(r, k) ==
  \/ k = "login-id" /\ trying[r].pc \in {"email", "emailRow"}
  \/ k = "login-ip" /\ trying[r].pc \in {"ip", "ipRow"}
  \/ k = "mfa" /\ trying[r].pc \in {"code", "codeRow"}

LEMMA TallyFailures ==
  ASSUME GuardType, FailureInv, L!Assumptions, NEW r \in Actor, NEW k \in L!Key, NEW n \in Nat,
         NEW w, Tallied(r, k, n, w), UNCHANGED <<account, sent>>,
         CountsFor(r, k)
  PROVE  FailureInv' /\ trying[r].pc \notin Judged /\ (k # "login-ip" => w.pc \notin Judged)
<1>1. Tries(r, w) /\ w.pc \in {"ip", "idle", "try", "check"}
  BY GuardConstants DEF Tallied
<1>2. w.pc \in Unjudged => trying[r].pc \in Unjudged
  BY DEF Tallied, Unjudged, CountsFor
<1>3. FailureInv'
  BY <1>1, <1>2, FailureKept
<1>4. trying[r].pc \notin Judged
  BY DEF Judged, CountsFor
<1>5. k # "login-ip" => w.pc \notin Judged
  BY GuardConstants DEF Tallied, Judged
<1> QED  BY <1>3, <1>4, <1>5

\* The row of k goes on to n, or begins at n = 1.
LEMMA TallyHolds ==
  ASSUME GuardInv, L!Assumptions, NEW r \in Actor, NEW k \in L!Key, NEW n \in Nat, NEW w,
         Tallied(r, k, n, w), CountsFor(r, k), UNCHANGED <<account, sent>>,
         count' = [count EXCEPT ![k] = n], alive' \in [L!Key -> BOOLEAN], alive'[k],
         \A l \in L!Key \ {k} : alive'[l] = alive[l] /\ doubled'[l] = doubled[l],
         doubled' \in [L!Key -> BOOLEAN], astray' \in BOOLEAN, told' \in Nat,
         ~doubled'[k] =>
           \/ alive[k] /\ n = count[k] + 1 /\ ~doubled[k] /\ (k = "login-id" => told' = told)
           \/ ~alive[k] /\ n = 1 /\ (k = "login-id" => told' = 0 /\ Lockers = {}),
         k # "login-id" => told' = told,
         ~astray' =>
           \/ alive[k] /\ n = count[k] + 1 /\ ~astray
           \/ k # "login-ip" /\ ~astray
           \/ k = "login-ip" /\ n = 1 /\ Guarding(Judged) = {}
  PROVE  GuardInv'
<1>1. GuardType /\ LimitInv /\ ToldInv /\ L!OnlyWrongOnesCount /\ FailureInv /\ Tries(r, w)
  BY DEF GuardInv, Tallied
<1>2. /\ count \in [L!Key -> Nat] /\ let \in [L!Key -> Nat] /\ L!Limit[k] \in Nat \ {0}
      /\ wrong \in Nat /\ told \in Nat /\ MaxPerEmail \in Nat \ {0}
  BY <1>1, GuardConstants DEF GuardType
<1>3. /\ count' \in [L!Key -> Nat] /\ count'[k] = n
      /\ \A l \in L!Key \ {k} : count'[l] = count[l]
  BY <1>2
<1>4. /\ trying' \in [Actor -> Guarded] /\ wrong' \in Nat /\ let' \in [L!Key -> Nat]
      /\ \A l \in L!Key \ {k} : let'[l] = let[l]
      /\ let'[k] = IF n > L!Limit[k] THEN let[k] ELSE let[k] + 1
  BY <1>1, TallyTypes
<1>5. FailureInv' /\ trying[r].pc \notin Judged /\ (k # "login-ip" => w.pc \notin Judged)
  BY <1>1, TallyFailures
<1>6. GuardType'
  BY <1>1, <1>3, <1>4 DEF GuardType
<1>7. LimitInv'
  <2>1. ASSUME k \in {"login-id", "mfa"}, ~doubled'[k]
        PROVE  let'[k] <= count'[k] /\ let'[k] <= L!Limit[k]
    <3>1. CASE alive[k] /\ n = count[k] + 1 /\ ~doubled[k]
      <4>1. let[k] <= count[k] /\ let[k] <= L!Limit[k]
        BY <1>1, <2>1, <3>1 DEF LimitInv
      <4>2. n = count[k] + 1
        BY <3>1
      <4> QED  BY <1>2, <1>3, <1>4, <4>1, <4>2
    <3>2. CASE ~alive[k] /\ n = 1
      <4>1. let[k] = 0 /\ n = 1
        BY <1>1, <2>1, <3>2 DEF LimitInv
      <4> QED  BY <1>2, <1>3, <1>4, <4>1
    <3> QED  BY <2>1, <3>1, <3>2
  <2>2. ASSUME NEW l \in {"login-id", "mfa"}, l # k
        PROVE  /\ alive'[l] \/ let'[l] = 0
               /\ ~alive'[l] \/ doubled'[l] \/ (let'[l] <= count'[l] /\ let'[l] <= L!Limit[l])
    <3>1. alive'[l] = alive[l] /\ doubled'[l] = doubled[l] /\ let'[l] = let[l] /\ count'[l] = count[l]
      BY <1>3, <1>4, <2>2, GuardConstants
    <3> QED  BY <1>1, <3>1 DEF LimitInv
  <2> QED  BY <2>1, <2>2 DEF LimitInv
<1>8. ToldInv'
  <2>1. CASE k # "login-id"
    <3>1. w.lockedNow => trying[r].lockedNow
      BY <2>1 DEF Tallied
    <3>2. Lockers' \subseteq Lockers
      BY <1>1, <3>1, LockersKept
    <3>3. /\ alive'["login-id"] = alive["login-id"] /\ doubled'["login-id"] = doubled["login-id"]
          /\ count'["login-id"] = count["login-id"]
      BY <1>3, <2>1, GuardConstants
    <3> QED  BY <1>1, <2>1, <3>2, <3>3, ToldKept
  <2>2. CASE k = "login-id" /\ ~doubled'["login-id"]
    <3>1. \A q \in Lockers' : q \in Lockers \/ (q = r /\ n = MaxPerEmail)
      <4>1. w.lockedNow => trying[r].lockedNow \/ n = MaxPerEmail
        BY <2>2 DEF Tallied
      <4> QED  BY <1>1, <4>1, TriesGo DEF Lockers
    <3>2. CASE n # MaxPerEmail /\ alive[k] /\ n = count[k] + 1 /\ ~doubled[k] /\ told' = told
      <4>1. Lockers' \subseteq Lockers
        BY <3>1, <3>2
      <4>2. told <= 1 /\ (\A p, q \in Lockers : p = q) /\ (told = 1 => Lockers = {})
        BY <1>1, <2>2, <3>2 DEF ToldInv
      <4>3. count[k] >= MaxPerEmail \/ (told = 0 /\ Lockers = {})
        BY <1>1, <2>2, <3>2 DEF ToldInv
      <4>4. count'[k] >= MaxPerEmail \/ (told' = 0 /\ Lockers' = {})
        <5>1. n = count[k] + 1 /\ told' = told
          BY <3>2
        <5> QED  BY <1>2, <1>3, <4>1, <4>3, <5>1
      <4>5. told' = told
        BY <3>2
      <4>6. \A p, q \in Lockers' : p = q
        BY <4>1, <4>2
      <4>7. told' <= 1 /\ (told' = 1 => Lockers' = {})
        BY <4>1, <4>2, <4>5
      <4> QED  BY <2>2, <4>4, <4>6, <4>7 DEF ToldInv
    <3>3. CASE n = MaxPerEmail /\ alive[k] /\ n = count[k] + 1 /\ ~doubled[k] /\ told' = told
      <4>1. count[k] < MaxPerEmail
        <5>1. n = MaxPerEmail /\ n = count[k] + 1
          BY <3>3
        <5> QED  BY <1>2, <5>1
      <4>2. ~(count[k] >= MaxPerEmail)
        BY <1>2, <4>1
      <4>3. told = 0 /\ Lockers = {}
        BY <1>1, <2>2, <3>3, <4>2 DEF ToldInv
      <4>4. told' = 0 /\ \A q \in Lockers' : q = r
        BY <3>1, <3>3, <4>3
      <4>5. count'[k] >= MaxPerEmail
        <5>1. count'[k] = MaxPerEmail
          BY <1>3, <3>3
        <5> QED  BY <1>2, <5>1
      <4>6. told' <= 1 /\ told' # 1
        BY <4>4
      <4>7. \A p, q \in Lockers' : p = q
        BY <4>4
      <4> QED  BY <2>2, <4>5, <4>6, <4>7 DEF ToldInv
    <3>4. CASE n = 1 /\ told' = 0 /\ Lockers = {}
      <4>1. \A q \in Lockers' : q = r
        BY <3>1, <3>4
      <4>2. count'[k] >= MaxPerEmail \/ Lockers' = {}
        <5>1. CASE n = MaxPerEmail
          BY <1>2, <1>3, <5>1
        <5>2. CASE n # MaxPerEmail
          BY <3>1, <3>4, <5>2
        <5> QED  BY <5>1, <5>2
      <4>3. told' <= 1 /\ told' # 1 /\ told' = 0
        BY <3>4
      <4>4. \A p, q \in Lockers' : p = q
        BY <4>1
      <4> QED  BY <2>2, <4>2, <4>3, <4>4 DEF ToldInv
    <3> QED  BY <2>2, <3>2, <3>3, <3>4
  <2>3. CASE doubled'["login-id"]
    BY <2>3 DEF ToldInv
  <2> QED  BY <2>1, <2>2, <2>3
<1>9. L!OnlyWrongOnesCount'
  <2>1. CASE k # "login-ip"
    <3>1. w.pc \notin Judged /\ wrong' = wrong
      BY <1>5, <2>1 DEF Tallied
    <3>2. Guarding(Judged)' = Guarding(Judged)
      <4>1. Joined(Judged, r, w)
        BY <1>1, GuardingJoined
      <4> QED  BY <1>5, <3>1, <4>1 DEF Joined
    <3>3. L!Judging' = L!Judging
      BY <3>2 DEF L!Judging, Guarding, Judged
    <3>4. L!Cardinality(L!Judging)' = L!Cardinality(L!Judging)
      BY <3>3 DEF L!Cardinality
    <3>5. count'["login-ip"] = count["login-ip"] /\ alive'["login-ip"] = alive["login-ip"]
      BY <1>3, <2>1, GuardConstants
    <3>6. ~astray' => ~astray
      BY <2>1
    <3> QED  BY <1>1, <3>1, <3>4, <3>5, <3>6 DEF L!OnlyWrongOnesCount
  <2>2. CASE k = "login-ip" /\ ~astray'
    <3>1. PICK c, d : c = Cardinality(Guarding(Judged)) /\ d = Cardinality(Guarding(Judged)')
      OBVIOUS
    <3>2. /\ c \in Nat /\ (w.pc = "idle" => d = c) /\ (w.pc = "check" => d = c + 1)
      <4>1. Joined(Judged, r, w)
        BY <1>1, GuardingJoined
      <4> QED  BY <1>5, <3>1, <4>1 DEF Joined, Judged
    <3>3. n = Charge(n) + c + 1
      <4>1. CASE alive[k] /\ n = count[k] + 1 /\ ~astray
        <5>1. count[k] = wrong + c
          BY <1>1, <2>2, <3>1, <4>1, JudgingIs DEF L!OnlyWrongOnesCount
        <5>2. n = count[k] + 1
          BY <4>1
        <5> QED  BY <1>2, <3>2, <5>1, <5>2 DEF Charge
      <4>2. CASE n = 1 /\ Guarding(Judged) = {}
        <5>1. c = 0
          BY <3>1, <4>2, FS_EmptySet
        <5>2. n = 1
          BY <4>2
        <5> QED  BY <5>1, <5>2 DEF Charge
      <4> QED  BY <2>2, <4>1, <4>2
    <3>4. \/ w.pc = "idle" /\ wrong' = Charge(n) + 1
          \/ w.pc = "check" /\ wrong' = Charge(n)
      BY <2>2 DEF Tallied
    <3>5. Charge(n) \in Nat
      BY <1>2 DEF Charge
    <3>6. count'["login-ip"] = wrong' + d
      BY <1>3, <2>2, <3>2, <3>3, <3>4, <3>5
    <3>7. L!Judging' = Guarding(Judged)'
      BY DEF L!Judging, Guarding, Judged
    <3>8. L!Cardinality(L!Judging)' = d
      BY <3>1, <3>7 DEF L!Cardinality, Cardinality
    <3> QED  BY <3>6, <3>8 DEF L!OnlyWrongOnesCount
  <2>3. CASE astray'
    BY <2>3 DEF L!OnlyWrongOnesCount
  <2> QED  BY <2>1, <2>2, <2>3
<1> QED  BY <1>5, <1>6, <1>7, <1>8, <1>9 DEF GuardInv

LEMMA CountHolds ==
  ASSUME GuardInv, L!Assumptions, NEW r \in Actor, L!Count(r)
  PROVE  GuardInv'
<1>1. GuardType /\ FailureInv /\ trying[r] \in Guarded /\ count \in [L!Key -> Nat]
  BY DEF GuardInv, GuardType
<1>2. PICK pc : pc = trying[r].pc
  OBVIOUS
<1>3. PICK k : k = L!Counting[pc]
  OBVIOUS
<1>4. /\ pc \in {"email", "ip", "code"}
      /\ pc = "email" => k = "login-id"
      /\ pc = "ip" => k = "login-ip"
      /\ pc = "code" => k = "mfa"
  BY <1>2, <1>3 DEF L!Count, L!Counting
<1>5. k \in L!Key
  BY <1>4, GuardConstants
<1>6. CountsFor(r, k)
  BY <1>2, <1>4 DEF CountsFor
<1>7. UNCHANGED <<alive, account, sent, told, doubled, astray>>
  BY DEF L!Count
<1>8. CASE alive[k]
  <2>1. PICK n : n = count[k] + 1
    OBVIOUS
  <2>2. n \in Nat
    BY <1>1, <1>5, <2>1
  <2>3. count' = [count EXCEPT ![k] = n] /\ L!Counted(r, k, n)
    BY <1>2, <1>3, <1>8, <2>1 DEF L!Count, L!CountAfter
  <2>4. PICK w : Tallied(r, k, n, w)
    BY <1>1, <1>5, <2>2, <2>3, CountedTallies
  <2>5. alive' \in [L!Key -> BOOLEAN] /\ doubled' \in [L!Key -> BOOLEAN]
    BY <1>1, <1>7 DEF GuardType
  <2>6. astray' \in BOOLEAN /\ told' \in Nat
    BY <1>1, <1>7 DEF GuardType
  <2>7. alive'[k] /\ told' = told /\ (~doubled'[k] => ~doubled[k]) /\ (~astray' => ~astray)
    BY <1>7, <1>8
  <2>8. \A l \in L!Key \ {k} : alive'[l] = alive[l] /\ doubled'[l] = doubled[l]
    BY <1>7
  <2>9. ~doubled'[k] =>
           \/ alive[k] /\ n = count[k] + 1 /\ ~doubled[k] /\ (k = "login-id" => told' = told)
           \/ ~alive[k] /\ n = 1 /\ (k = "login-id" => told' = 0 /\ Lockers = {})
    BY <1>8, <2>1, <2>7
  <2>10. ~astray' =>
           \/ alive[k] /\ n = count[k] + 1 /\ ~astray
           \/ k # "login-ip" /\ ~astray
           \/ k = "login-ip" /\ n = 1 /\ Guarding(Judged) = {}
    BY <1>8, <2>1, <2>7
  <2> QED  BY <1>5, <1>6, <1>7, <2>2, <2>3, <2>4, <2>5, <2>6, <2>7, <2>8, <2>9, <2>10, TallyHolds
<1>9. CASE ~alive[k]
  <2>1. PICK pc2 : pc2 = L!Row(pc)
    OBVIOUS
  <2>2. pc2 \in {"emailRow", "ipRow", "codeRow"} /\ (pc2 = "codeRow" <=> pc = "code")
    BY <1>4, <2>1 DEF L!Row
  <2>3. PICK w : w = [trying[r] EXCEPT !.pc = pc2]
    OBVIOUS
  <2>4. w \in Guarded /\ w.pc = pc2 /\ w.lockedNow = trying[r].lockedNow
    BY <1>1, <2>2, <2>3 DEF Guarded, GuardStage
  <2>5. trying' = [trying EXCEPT ![r].pc = pc2] /\ UNCHANGED <<count, let, wrong>>
    BY <1>2, <1>3, <1>9, <2>1 DEF L!Count, L!Goto
  <2>6. Tries(r, w)
    BY <1>1, <2>3, <2>4, <2>5 DEF Tries, GuardType
  <2>7. w.pc \in Unjudged => trying[r].pc \in Unjudged
    BY <1>2, <1>4, <2>2, <2>4 DEF Unjudged
  <2>8. w.pc # "store" /\ account'.failures = account.failures
    BY <1>7, <2>2, <2>4
  <2>9. FailureInv'
    BY <1>1, <1>7, <2>6, <2>7, <2>8, FailureKept
  <2>10. trying[r].pc \in Judged <=> w.pc \in Judged
    BY <1>2, <1>4, <2>2, <2>4 DEF Judged
  <2>11. /\ account' \in [suspended : BOOLEAN, mfa : BOOLEAN, failures : Nat, alerted : BOOLEAN]
         /\ sent' \in 0..MaxAttempts
    BY <1>1, <1>7 DEF GuardType
  <2> QED  BY <1>7, <2>4, <2>5, <2>6, <2>9, <2>10, <2>11, WalksHold
<1> QED  BY <1>8, <1>9

LEMMA BeginRowHolds ==
  ASSUME GuardInv, L!Assumptions, NEW r \in Actor, L!BeginRow(r)
  PROVE  GuardInv'
<1>1. GuardType /\ alive \in [L!Key -> BOOLEAN] /\ doubled \in [L!Key -> BOOLEAN] /\ told \in Nat
  BY DEF GuardInv, GuardType
<1>2. PICK pc : pc = trying[r].pc
  OBVIOUS
<1>3. PICK k : k = L!Beginning[pc]
  OBVIOUS
<1>4. /\ pc \in {"emailRow", "ipRow", "codeRow"}
      /\ pc = "emailRow" => k = "login-id"
      /\ pc = "ipRow" => k = "login-ip"
      /\ pc = "codeRow" => k = "mfa"
  BY <1>2, <1>3 DEF L!BeginRow, L!Beginning
<1>5. k \in L!Key
  BY <1>4, GuardConstants
<1>6. CountsFor(r, k)
  BY <1>2, <1>4 DEF CountsFor
<1>7. PICK over : over = (alive[k] \/ (k = "login-id" /\ \E q \in Actor : trying[q].lockedNow))
  OBVIOUS
<1>8. PICK t : t = TRUE
  OBVIOUS
<1>9. /\ count' = [count EXCEPT ![k] = 1] /\ alive' = [alive EXCEPT ![k] = t]
      /\ L!Counted(r, k, 1) /\ doubled' = [doubled EXCEPT ![k] = over]
      /\ told' = IF k = "login-id" THEN 0 ELSE told
      /\ UNCHANGED <<account, sent>>
  BY <1>2, <1>3, <1>7, <1>8 DEF L!BeginRow
<1>10. astray' = IF k = "login-ip" THEN alive[k] \/ L!Judging # {} ELSE astray
  BY <1>2, <1>3 DEF L!BeginRow
<1>11. over \in BOOLEAN
  BY <1>7
<1>12. t \in BOOLEAN
  BY <1>8
<1>13. PICK w : Tallied(r, k, 1, w)
  BY <1>1, <1>5, <1>9, CountedTallies
<1>14. alive' \in [L!Key -> BOOLEAN] /\ doubled' \in [L!Key -> BOOLEAN] /\ alive'[k]
  BY <1>1, <1>5, <1>8, <1>9, <1>11, <1>12
<1>15. told' \in Nat /\ (k # "login-id" => told' = told) /\ (k = "login-id" => told' = 0)
  BY <1>1, <1>9
<1>16. astray' \in BOOLEAN
  BY <1>1, <1>10 DEF GuardType
<1>17. \A l \in L!Key \ {k} : alive'[l] = alive[l] /\ doubled'[l] = doubled[l]
  BY <1>1, <1>9
<1>18. ~doubled'[k] =>
         \/ alive[k] /\ 1 = count[k] + 1 /\ ~doubled[k] /\ (k = "login-id" => told' = told)
         \/ ~alive[k] /\ 1 = 1 /\ (k = "login-id" => told' = 0 /\ Lockers = {})
  <2>1. doubled'[k] = over
    BY <1>1, <1>5, <1>9
  <2>2. ~over => ~alive[k] /\ (k = "login-id" => Lockers = {})
    BY <1>7 DEF Lockers
  <2> QED  BY <1>15, <2>1, <2>2
<1>19. ~astray' =>
         \/ alive[k] /\ 1 = count[k] + 1 /\ ~astray
         \/ k # "login-ip" /\ ~astray
         \/ k = "login-ip" /\ 1 = 1 /\ Guarding(Judged) = {}
  BY <1>10, JudgingIs
<1> QED  BY <1>5, <1>6, <1>9, <1>13, <1>14, <1>15, <1>16, <1>17, <1>18, <1>19, TallyHolds

\* The row of a key is as it was, or gone.
Dropped(k) ==
  \/ ~alive'[k] /\ let'[k] = 0
  \/ alive'[k] = alive[k] /\ let'[k] = let[k] /\ count'[k] = count[k]

RowTypes ==
  /\ count' \in [L!Key -> Nat] /\ alive' \in [L!Key -> BOOLEAN] /\ let' \in [L!Key -> Nat]

LEMMA NoRowDrops ==
  ASSUME GuardType, L!Assumptions, NEW k \in L!Key, L!NoRow(k) \/ UNCHANGED <<count, alive, let>>
  PROVE  /\ RowTypes /\ Dropped("login-id") /\ Dropped("mfa")
         /\ count'["login-ip"] = count["login-ip"] \/ ~alive'["login-ip"]
         /\ k # "login-ip" => count'["login-ip"] = count["login-ip"] /\ alive'["login-ip"] = alive["login-ip"]
<1>1. count \in [L!Key -> Nat] /\ alive \in [L!Key -> BOOLEAN] /\ let \in [L!Key -> Nat]
  BY DEF GuardType
<1>2. PICK f : f = FALSE
  OBVIOUS
<1>3. f \in BOOLEAN
  BY <1>2
<1>4. CASE L!NoRow(k)
  <2>1. /\ count' = [count EXCEPT ![k] = 0] /\ alive' = [alive EXCEPT ![k] = f]
        /\ let' = [let EXCEPT ![k] = 0]
    BY <1>2, <1>4 DEF L!NoRow
  <2>2. RowTypes
    BY <1>1, <1>3, <2>1 DEF RowTypes
  <2>3. /\ ~alive'[k] /\ let'[k] = 0
        /\ \A l \in L!Key \ {k} : alive'[l] = alive[l] /\ let'[l] = let[l] /\ count'[l] = count[l]
    BY <1>1, <1>2, <2>1
  <2> QED  BY <2>2, <2>3, GuardConstants DEF Dropped
<1>5. CASE UNCHANGED <<count, alive, let>>
  BY <1>1, <1>5 DEF RowTypes, Dropped
<1> QED  BY <1>4, <1>5

LEMMA LimitDropped ==
  ASSUME LimitInv, Dropped("login-id"), Dropped("mfa"), doubled' = doubled
  PROVE  LimitInv'
<1>1. ASSUME NEW k \in {"login-id", "mfa"}
      PROVE  /\ alive'[k] \/ let'[k] = 0
             /\ ~alive'[k] \/ doubled'[k] \/ (let'[k] <= count'[k] /\ let'[k] <= L!Limit[k])
  <2>1. Dropped(k)
    OBVIOUS
  <2>2. CASE ~alive'[k] /\ let'[k] = 0
    BY <2>2
  <2>3. CASE alive'[k] = alive[k] /\ let'[k] = let[k] /\ count'[k] = count[k]
    BY <2>3 DEF LimitInv
  <2> QED  BY <2>1, <2>2, <2>3 DEF Dropped
<1> QED  BY <1>1 DEF LimitInv

\* A request comes to an end, or nearly.
LEMMA EndHolds ==
  ASSUME GuardInv, L!Assumptions, NEW r \in Actor, NEW w, Tries(r, w), RowTypes,
         Dropped("login-id"), Dropped("mfa"), UNCHANGED <<account, sent, told, doubled>>,
         w.lockedNow => trying[r].lockedNow, w.pc \notin Unjudged, w.pc # "store",
         wrong' \in Nat, astray' \in BOOLEAN, L!OnlyWrongOnesCount'
  PROVE  GuardInv'
<1>1. GuardType /\ LimitInv /\ ToldInv /\ FailureInv
  BY DEF GuardInv
<1>2. GuardType'
  BY <1>1, TriesGo DEF GuardType, RowTypes
<1>3. LimitInv'
  BY <1>1, LimitDropped
<1>4. ToldInv'
  <2>1. Lockers' \subseteq Lockers
    BY <1>1, LockersKept
  <2> QED  BY <1>1, <2>1, ToldKept DEF Dropped
<1>5. FailureInv'
  BY <1>1, FailureKept
<1> QED  BY <1>2, <1>3, <1>4, <1>5 DEF GuardInv

LEMMA WaitingEnds ==
  ASSUME NEW r \in Actor, L!Done(r)
  PROVE  /\ Tries(r, L!Waiting) /\ (L!Waiting.lockedNow => trying[r].lockedNow)
         /\ L!Waiting.pc \notin Unjudged /\ L!Waiting.pc # "store" /\ L!Waiting.pc \notin Judged
BY WaitingIs DEF L!Done, Tries, Unjudged, Judged

LEMMA FailHolds ==
  ASSUME GuardInv, L!Assumptions, NEW r \in Actor,
         L!Done(r), astray', astray' \in BOOLEAN, wrong' \in {wrong, wrong + 1},
         UNCHANGED <<count, alive, account, sent, let, told, doubled>>
  PROVE  GuardInv'
<1>1. GuardType /\ wrong \in Nat
  BY DEF GuardInv, GuardType
<1>2. RowTypes /\ Dropped("login-id") /\ Dropped("mfa")
  BY <1>1 DEF GuardType, RowTypes, Dropped
<1>3. L!OnlyWrongOnesCount'
  BY DEF L!OnlyWrongOnesCount
<1>4. wrong' \in Nat
  BY <1>1
<1> QED  BY <1>2, <1>3, <1>4, WaitingEnds, EndHolds

LEMMA CheckHolds ==
  ASSUME GuardInv, L!Assumptions, NEW r \in Actor, L!Check(r)
  PROVE  GuardInv'
<1>1. /\ GuardType /\ FailureInv /\ trying[r] \in Guarded /\ trying \in [Actor -> Guarded]
      /\ account \in [suspended : BOOLEAN, mfa : BOOLEAN, failures : Nat, alerted : BOOLEAN]
      /\ sent \in Nat /\ sent \in 0..MaxAttempts
  BY DEF GuardInv, GuardType
<1>2. /\ UNCHANGED <<count, alive, account, sent, let, told, doubled>> /\ trying[r].pc = "check"
  BY DEF L!Check
<1>3. CASE trying[r].right /\ account.suspended
  <2>1. L!Done(r) /\ wrong' = wrong + 1 /\ astray' = TRUE
    BY <1>3 DEF L!Check
  <2>2. astray' /\ astray' \in BOOLEAN
    BY <2>1
  <2> QED  BY <1>2, <2>1, <2>2, FailHolds
<1>4. CASE ~(trying[r].right /\ account.suspended)
  <2>1. PICK pc : pc = IF trying[r].right THEN "welcome" ELSE "store"
    OBVIOUS
  <2>2. pc \in {"welcome", "store"}
    BY <2>1
  <2>3. PICK w : w = [trying[r] EXCEPT !.pc = pc, !.failures = account.failures + 1,
                        !.alerted = account.alerted]
    OBVIOUS
  <2>4. /\ w \in Guarded /\ w.pc = pc /\ w.lockedNow = trying[r].lockedNow
        /\ w.failures = account.failures + 1
    <3>1. account.failures + 1 \in Nat
      BY <1>1
    <3>2. account.alerted \in BOOLEAN
      BY <1>1
    <3>3. PICK n, a : n = account.failures + 1 /\ a = account.alerted
      OBVIOUS
    <3>4. w = [trying[r] EXCEPT !.pc = pc, !.failures = n, !.alerted = a]
      BY <2>3, <3>3
    <3>5. pc \in GuardStage /\ n \in Nat /\ a \in BOOLEAN
      BY <2>2, <3>1, <3>2, <3>3 DEF GuardStage
    <3>6. w \in Guarded
      BY <1>1, <3>4, <3>5 DEF Guarded
    <3>7. w.pc = pc /\ w.failures = n /\ w.lockedNow = trying[r].lockedNow
      BY <1>1, <3>4 DEF Guarded
    <3> QED  BY <3>3, <3>6, <3>7
  <2>5. /\ trying' = [trying EXCEPT ![r].pc = pc, ![r].failures = account.failures + 1,
                        ![r].alerted = account.alerted]
        /\ UNCHANGED <<wrong, astray>>
    BY <1>4, <2>1 DEF L!Check
  <2>6. Tries(r, w)
    BY <1>1, <2>3, <2>4, <2>5 DEF Tries
  <2>7. FailureInv'
    <3>1. Joined(Unjudged, r, w)
      BY <1>1, <2>6, GuardingJoined
    <3>2. PICK c, d : c = Cardinality(Guarding(Unjudged)) /\ d = Cardinality(Guarding(Unjudged)')
      OBVIOUS
    <3>3. c \in Nat /\ d = c - 1
      BY <1>2, <2>2, <2>4, <3>1, <3>2 DEF Joined, Unjudged
    <3>4. account.failures \in Nat /\ account.failures + c <= sent
      BY <1>1, <3>2 DEF FailureInv
    <3>5. account'.failures + d <= sent'
      BY <1>1, <1>2, <3>3, <3>4
    <3>6. ASSUME NEW q \in Actor, trying'[q].pc = "store" PROVE trying'[q].failures + d <= sent'
      <4>1. CASE q = r
        BY <1>1, <1>2, <2>4, <2>6, <3>3, <3>4, <4>1, TriesGo
      <4>2. CASE q # r
        <5>1. trying'[q] = trying[q]
          BY <1>1, <2>6, <4>2, TriesGo
        <5>2. trying[q].failures \in Nat /\ trying[q].failures + c <= sent
          BY <1>1, <3>2, <3>6, <5>1 DEF Guarded, FailureInv
        <5> QED  BY <1>1, <1>2, <3>3, <5>1, <5>2
      <4> QED  BY <4>1, <4>2
    <3> QED  BY <3>2, <3>5, <3>6 DEF FailureInv
  <2>8. trying[r].pc \in Judged <=> w.pc \in Judged
    BY <1>2, <2>2, <2>4 DEF Judged
  <2>9. /\ account' \in [suspended : BOOLEAN, mfa : BOOLEAN, failures : Nat, alerted : BOOLEAN]
        /\ sent' \in 0..MaxAttempts
    BY <1>1, <1>2
  <2> QED  BY <1>2, <2>4, <2>5, <2>6, <2>7, <2>8, <2>9, WalksHold
<1> QED  BY <1>3, <1>4

\* The account after a try: how many failures, and whether an alert went out.
LEMMA AccountAfter ==
  ASSUME GuardType, NEW n \in Nat, NEW alert,
         account' = [account EXCEPT !.failures = n, !.alerted = @ \/ alert]
  PROVE  /\ account' \in [suspended : BOOLEAN, mfa : BOOLEAN, failures : Nat, alerted : BOOLEAN]
         /\ account'.failures = n
<1>1. PICK now2 : now2 = (account.alerted \/ alert)
  OBVIOUS
<1>2. now2 \in BOOLEAN
  BY <1>1
<1>3. account' = [account EXCEPT !.failures = n, !.alerted = now2]
  BY <1>1
<1> QED  BY <1>2, <1>3 DEF GuardType

LEMMA StoreHolds ==
  ASSUME GuardInv, L!Assumptions, NEW r \in Actor, L!Store(r)
  PROVE  GuardInv'
<1>1. /\ GuardType /\ LimitInv /\ ToldInv /\ L!OnlyWrongOnesCount /\ FailureInv
      /\ trying[r] \in Guarded /\ trying \in [Actor -> Guarded] /\ wrong \in Nat /\ told \in Nat
  BY DEF GuardInv, GuardType
<1>2. /\ UNCHANGED <<count, alive, sent, let, doubled, astray>> /\ trying[r].pc = "store"
      /\ L!Done(r) /\ wrong' = wrong + 1 /\ told' = told + (IF trying[r].lockedNow THEN 1 ELSE 0)
  BY DEF L!Store
<1>3. PICK n : n = trying[r].failures
  OBVIOUS
<1>4. n \in Nat
  BY <1>1, <1>3 DEF Guarded
<1>5. PICK alert : alert = (trying[r].failures >= Threshold /\ ~trying[r].alerted)
  OBVIOUS
<1>6. account' = [account EXCEPT !.failures = n, !.alerted = @ \/ alert]
  BY <1>3, <1>5 DEF L!Store
<1>7. /\ account' \in [suspended : BOOLEAN, mfa : BOOLEAN, failures : Nat, alerted : BOOLEAN]
      /\ account'.failures = n
  BY <1>1, <1>4, <1>6, AccountAfter
<1>8. /\ Tries(r, L!Waiting) /\ (L!Waiting.lockedNow => trying[r].lockedNow)
      /\ L!Waiting.pc \notin Unjudged /\ L!Waiting.pc # "store" /\ L!Waiting.pc \notin Judged
  BY <1>2, WaitingEnds
<1>9. GuardType'
  <2>1. told' \in Nat /\ wrong' \in Nat
    BY <1>1, <1>2
  <2>2. trying' \in [Actor -> Guarded]
    BY <1>1, <1>8, TriesGo
  <2> QED  BY <1>1, <1>2, <1>7, <2>1, <2>2 DEF GuardType
<1>10. LimitInv'
  BY <1>1, <1>2, LimitKept
<1>11. FailureInv'
  <2>1. account'.failures = trying[r].failures
    BY <1>3, <1>7
  <2> QED  BY <1>1, <1>2, <1>8, <2>1, FailureKept
<1>12. Lockers' = Lockers \ {r}
  BY <1>1, <1>8, TriesGo, WaitingIs DEF Lockers
<1>13. ToldInv'
  <2>1. CASE ~trying[r].lockedNow
    <3>1. told' = told
      BY <1>1, <1>2, <2>1
    <3>2. Lockers' \subseteq Lockers
      BY <1>12
    <3> QED  BY <1>1, <1>2, <3>1, <3>2, ToldKept
  <2>2. CASE trying[r].lockedNow /\ ~doubled["login-id"]
    <3>1. r \in Lockers
      BY <2>2 DEF Lockers
    <3>2. /\ told <= 1 /\ told # 1 /\ (\A q \in Lockers : q = r)
          /\ ~alive["login-id"] \/ count["login-id"] >= MaxPerEmail
      BY <1>1, <2>2, <3>1 DEF ToldInv
    <3>3. told' = told + 1
      BY <1>2, <2>2
    <3>4. told' <= 1
      BY <1>1, <3>2, <3>3
    <3>5. Lockers' = {}
      BY <1>12, <3>2
    <3>6. ~alive'["login-id"] \/ count'["login-id"] >= MaxPerEmail
      BY <1>2, <3>2
    <3> QED  BY <3>4, <3>5, <3>6 DEF ToldInv
  <2>3. CASE doubled["login-id"]
    BY <1>2, <2>3 DEF ToldInv
  <2> QED  BY <2>1, <2>2, <2>3
<1>14. L!OnlyWrongOnesCount'
  <2>1. ASSUME alive["login-ip"], ~astray
        PROVE  count["login-ip"] = wrong' + Cardinality(Guarding(Judged)')
    <3>1. Joined(Judged, r, L!Waiting)
      BY <1>1, <1>8, GuardingJoined
    <3>2. PICK c, d : c = Cardinality(Guarding(Judged)) /\ d = Cardinality(Guarding(Judged)')
      OBVIOUS
    <3>3. c \in Nat /\ d = c - 1
      BY <1>2, <1>8, <3>1, <3>2 DEF Joined, Judged
    <3>4. count["login-ip"] = wrong + c
      BY <1>1, <2>1, <3>2, JudgingIs DEF L!OnlyWrongOnesCount
    <3> QED  BY <1>1, <1>2, <3>2, <3>3, <3>4
  <2>2. L!Judging' = Guarding(Judged)'
    BY DEF L!Judging, Guarding, Judged
  <2>3. L!Cardinality(L!Judging)' = Cardinality(Guarding(Judged)')
    BY <2>2 DEF L!Cardinality, Cardinality
  <2> QED  BY <1>2, <2>1, <2>3 DEF L!OnlyWrongOnesCount
<1> QED  BY <1>9, <1>10, <1>11, <1>13, <1>14 DEF GuardInv

\* From one stage to another of a right try.
LEMMA StageGoes ==
  ASSUME GuardType, NEW r \in Actor, NEW pc \in GuardStage, L!Goto(r, pc)
  PROVE  /\ Tries(r, [trying[r] EXCEPT !.pc = pc]) /\ [trying[r] EXCEPT !.pc = pc].pc = pc
         /\ [trying[r] EXCEPT !.pc = pc].lockedNow => trying[r].lockedNow
<1>1. PICK w : w = [trying[r] EXCEPT !.pc = pc]
  OBVIOUS
<1>2. w \in Guarded /\ w.pc = pc /\ w.lockedNow = trying[r].lockedNow
  BY <1>1 DEF GuardType, Guarded
<1>3. trying' = [trying EXCEPT ![r] = w]
  BY <1>1 DEF GuardType, L!Goto
<1> QED  BY <1>1, <1>2, <1>3 DEF Tries

LEMMA WelcomeHolds ==
  ASSUME GuardInv, L!Assumptions, NEW r \in Actor, NEW elsewhere \in BOOLEAN,
         L!Welcome(r, elsewhere)
  PROVE  GuardInv'
<1>1. /\ GuardType /\ FailureInv /\ sent \in 0..MaxAttempts
  BY DEF GuardInv, GuardType
<1>2. /\ UNCHANGED <<count, alive, sent, let, wrong, told, doubled, astray>>
      /\ trying[r].pc = "welcome" /\ L!Goto(r, "forgive")
  BY DEF L!Welcome
<1>3. PICK w : w = [trying[r] EXCEPT !.pc = "forgive"]
  OBVIOUS
<1>4. Tries(r, w) /\ w.pc = "forgive" /\ (w.lockedNow => trying[r].lockedNow)
  <2>1. "forgive" \in GuardStage
    BY DEF GuardStage
  <2> QED  BY <1>1, <1>2, <1>3, <2>1, StageGoes
<1>5. PICK alert : alert = (elsewhere /\ ~trying[r].alerted)
  OBVIOUS
<1>6. account' = [account EXCEPT !.failures = 0, !.alerted = @ \/ alert]
  BY <1>5 DEF L!Welcome
<1>7. /\ account' \in [suspended : BOOLEAN, mfa : BOOLEAN, failures : Nat, alerted : BOOLEAN]
      /\ account'.failures = 0
  <2>1. 0 \in Nat
    OBVIOUS
  <2> QED  BY <1>1, <1>6, <2>1, AccountAfter
<1>8. trying[r].pc \in Judged <=> w.pc \in Judged
  BY <1>2, <1>4 DEF Judged
<1>9. FailureInv'
  <2>1. w.pc \notin Unjudged /\ w.pc # "store"
    BY <1>4 DEF Unjudged
  <2> QED  BY <1>1, <1>2, <1>4, <1>7, <2>1, FailureKept
<1>10. sent' \in 0..MaxAttempts
  BY <1>1, <1>2
<1> QED  BY <1>2, <1>4, <1>7, <1>8, <1>9, <1>10, WalksHold

LEMMA ForgiveHolds ==
  ASSUME GuardInv, L!Assumptions, NEW r \in Actor, L!Forgive(r)
  PROVE  GuardInv'
<1>1. GuardType /\ L!OnlyWrongOnesCount /\ wrong \in Nat /\ astray \in BOOLEAN
  BY DEF GuardInv, GuardType
<1>2. /\ UNCHANGED <<account, sent, wrong, told, doubled, astray>>
      /\ trying[r].pc = "forgive" /\ L!Goto(r, "give back") /\ L!NoRow("login-id")
  BY DEF L!Forgive
<1>3. PICK w : w = [trying[r] EXCEPT !.pc = "give back"]
  OBVIOUS
<1>4. Tries(r, w) /\ w.pc = "give back" /\ (w.lockedNow => trying[r].lockedNow)
  <2>1. "give back" \in GuardStage
    BY DEF GuardStage
  <2> QED  BY <1>1, <1>2, <1>3, <2>1, StageGoes
<1>5. /\ RowTypes /\ Dropped("login-id") /\ Dropped("mfa")
      /\ count'["login-ip"] = count["login-ip"] /\ alive'["login-ip"] = alive["login-ip"]
  BY <1>1, <1>2, NoRowDrops, GuardConstants
<1>6. L!OnlyWrongOnesCount'
  <2>1. trying[r].pc \in Judged <=> w.pc \in Judged
    BY <1>2, <1>4 DEF Judged
  <2> QED  BY <1>1, <1>2, <1>4, <1>5, <2>1, AddressKept
<1>7. w.pc \notin Unjudged /\ w.pc # "store"
  BY <1>4 DEF Unjudged
<1>8. wrong' \in Nat /\ astray' \in BOOLEAN
  BY <1>1, <1>2
<1> QED  BY <1>2, <1>4, <1>5, <1>6, <1>7, <1>8, EndHolds

LEMMA GiveBackHolds ==
  ASSUME GuardInv, L!Assumptions, NEW r \in Actor, L!GiveBack(r)
  PROVE  GuardInv'
<1>1. /\ GuardType /\ L!OnlyWrongOnesCount /\ wrong \in Nat /\ astray \in BOOLEAN
      /\ count \in [L!Key -> Nat]
  BY DEF GuardInv, GuardType
<1>2. /\ UNCHANGED <<alive, account, sent, let, wrong, told, doubled, astray>>
      /\ trying[r].pc = "give back" /\ L!Done(r)
      /\ count' = [count EXCEPT !["login-ip"] = L!Returned(@)]
  BY DEF L!GiveBack
<1>3. /\ count' \in [L!Key -> Nat] /\ count'["login-id"] = count["login-id"]
      /\ count'["mfa"] = count["mfa"]
      /\ count["login-ip"] > 0 => count'["login-ip"] = count["login-ip"] - 1
  <2>1. PICK n : n = L!Returned(count["login-ip"])
    OBVIOUS
  <2>2. count["login-ip"] \in Nat
    BY <1>1, GuardConstants
  <2>3. n \in Nat /\ (count["login-ip"] > 0 => n = count["login-ip"] - 1)
    BY <2>1, <2>2 DEF L!Returned
  <2>4. count' = [count EXCEPT !["login-ip"] = n]
    BY <1>2, <2>1
  <2> QED  BY <1>1, <2>3, <2>4, GuardConstants
<1>4. RowTypes /\ Dropped("login-id") /\ Dropped("mfa")
  BY <1>1, <1>2, <1>3 DEF RowTypes, Dropped, GuardType
<1>5. /\ Tries(r, L!Waiting) /\ (L!Waiting.lockedNow => trying[r].lockedNow)
      /\ L!Waiting.pc \notin Unjudged /\ L!Waiting.pc # "store" /\ L!Waiting.pc \notin Judged
  BY <1>2, WaitingEnds
<1>6. L!OnlyWrongOnesCount'
  <2>1. ASSUME alive["login-ip"], ~astray
        PROVE  count'["login-ip"] = wrong + Cardinality(Guarding(Judged)')
    <3>1. Joined(Judged, r, L!Waiting)
      BY <1>1, <1>5, GuardingJoined
    <3>2. PICK c, d : c = Cardinality(Guarding(Judged)) /\ d = Cardinality(Guarding(Judged)')
      OBVIOUS
    <3>3. c \in Nat /\ d = c - 1
      BY <1>2, <1>5, <3>1, <3>2 DEF Joined, Judged
    <3>4. c # 0
      <4>1. r \in Guarding(Judged)
        BY <1>2 DEF Guarding, Judged
      <4> QED  BY <3>1, <3>2, <4>1, FS_EmptySet DEF Joined
    <3>5. count["login-ip"] = wrong + c
      BY <1>1, <2>1, <3>2, JudgingIs DEF L!OnlyWrongOnesCount
    <3> QED  BY <1>1, <1>3, <3>2, <3>3, <3>4, <3>5
  <2>2. L!Judging' = Guarding(Judged)'
    BY DEF L!Judging, Guarding, Judged
  <2>3. L!Cardinality(L!Judging)' = Cardinality(Guarding(Judged)')
    BY <2>2 DEF L!Cardinality, Cardinality
  <2> QED  BY <1>2, <2>1, <2>3 DEF L!OnlyWrongOnesCount
<1>7. wrong' \in Nat /\ astray' \in BOOLEAN
  BY <1>1, <1>2
<1> QED  BY <1>2, <1>4, <1>5, <1>6, <1>7, EndHolds

LEMMA TryHolds ==
  ASSUME GuardInv, L!Assumptions, NEW r \in Actor, L!Try(r)
  PROVE  GuardInv'
<1>1. GuardType /\ L!OnlyWrongOnesCount /\ wrong \in Nat /\ astray \in BOOLEAN
  BY DEF GuardInv, GuardType
<1>2. /\ UNCHANGED <<account, sent, wrong, told, doubled, astray>>
      /\ trying[r].pc = "try" /\ L!Done(r) /\ (L!NoRow("mfa") \/ UNCHANGED <<count, alive, let>>)
  BY DEF L!Try
<1>3. /\ RowTypes /\ Dropped("login-id") /\ Dropped("mfa")
      /\ count'["login-ip"] = count["login-ip"] /\ alive'["login-ip"] = alive["login-ip"]
  BY <1>1, <1>2, NoRowDrops, GuardConstants
<1>4. /\ Tries(r, L!Waiting) /\ (L!Waiting.lockedNow => trying[r].lockedNow)
      /\ L!Waiting.pc \notin Unjudged /\ L!Waiting.pc # "store" /\ L!Waiting.pc \notin Judged
  BY <1>2, WaitingEnds
<1>5. L!OnlyWrongOnesCount'
  <2>1. trying[r].pc \in Judged <=> L!Waiting.pc \in Judged
    BY <1>2, <1>4 DEF Judged
  <2> QED  BY <1>1, <1>2, <1>3, <1>4, <2>1, AddressKept
<1>6. wrong' \in Nat /\ astray' \in BOOLEAN
  BY <1>1, <1>2
<1> QED  BY <1>2, <1>3, <1>4, <1>5, <1>6, EndHolds

\* Windows end and the owner's account cools, while no request takes a step.
LEMMA CoolsHold ==
  ASSUME GuardInv, L!Assumptions, UNCHANGED <<trying, sent, wrong, told, doubled, astray>>,
         RowTypes, Dropped("login-id"), Dropped("mfa"),
         \/ ~alive'["login-ip"]
         \/ count'["login-ip"] = count["login-ip"] /\ alive'["login-ip"] = alive["login-ip"],
         account' \in [suspended : BOOLEAN, mfa : BOOLEAN, failures : Nat, alerted : BOOLEAN],
         account'.failures \in {account.failures, 0}
  PROVE  GuardInv'
<1>1. GuardType /\ LimitInv /\ ToldInv /\ FailureInv /\ L!OnlyWrongOnesCount
  BY DEF GuardInv
<1>2. GuardType'
  BY <1>1 DEF GuardType, RowTypes
<1>3. LimitInv'
  BY <1>1, LimitDropped
<1>4. ToldInv'
  <2>1. Lockers' = Lockers
    BY DEF Lockers
  <2> QED  BY <1>1, <2>1, ToldKept DEF Dropped
<1>5. L!OnlyWrongOnesCount'
  <2>1. L!Judging' = L!Judging
    BY DEF L!Judging
  <2>2. L!Cardinality(L!Judging)' = L!Cardinality(L!Judging)
    BY <2>1 DEF L!Cardinality
  <2> QED  BY <1>1, <2>2 DEF L!OnlyWrongOnesCount
<1>6. FailureInv'
  <2>1. Guarding(Unjudged)' = Guarding(Unjudged)
    BY DEF Guarding
  <2>2. IsFiniteSet(Guarding(Unjudged))
    BY GuardConstants, FS_Subset DEF Guarding
  <2>3. PICK c : c = Cardinality(Guarding(Unjudged))
    OBVIOUS
  <2>4. c \in Nat /\ Cardinality(Guarding(Unjudged)') = c
    BY <2>1, <2>2, <2>3, FS_CardinalityType
  <2>5. account.failures \in Nat /\ account.failures + c <= sent /\ sent \in Nat
    BY <1>1, <2>3 DEF GuardType, FailureInv
  <2>6. account'.failures + c <= sent'
    BY <2>4, <2>5
  <2>7. \A q \in Actor : trying'[q].pc = "store" => trying'[q].failures + c <= sent'
    BY <1>1, <2>3 DEF FailureInv
  <2> QED  BY <2>4, <2>6, <2>7 DEF FailureInv
<1> QED  BY <1>2, <1>3, <1>4, <1>5, <1>6 DEF GuardInv

LEMMA ExpireHolds ==
  ASSUME GuardInv, L!Assumptions, L!Unlock \/ \E k \in L!Key : L!Expire(k)
  PROVE  GuardInv'
<1>1. GuardType
  BY DEF GuardInv
<1>2. PICK k \in L!Key : L!NoRow(k) /\ UNCHANGED <<account, trying, sent, wrong, told, doubled, astray>>
  BY GuardConstants DEF L!Unlock, L!Expire
<1>3. /\ RowTypes /\ Dropped("login-id") /\ Dropped("mfa")
      /\ count'["login-ip"] = count["login-ip"] \/ ~alive'["login-ip"]
      /\ k # "login-ip" => count'["login-ip"] = count["login-ip"] /\ alive'["login-ip"] = alive["login-ip"]
  BY <1>1, <1>2, NoRowDrops
<1>4. k = "login-ip" => ~alive'["login-ip"]
  <2>1. k = "login-ip" => alive' = [alive EXCEPT !["login-ip"] = FALSE]
    BY <1>2 DEF L!NoRow
  <2> QED  BY <1>1, <2>1, GuardConstants DEF GuardType
<1>5. /\ account' \in [suspended : BOOLEAN, mfa : BOOLEAN, failures : Nat, alerted : BOOLEAN]
      /\ account'.failures \in {account.failures, 0}
  BY <1>1, <1>2 DEF GuardType
<1> QED  BY <1>2, <1>3, <1>4, <1>5, CoolsHold

LEMMA CooledHolds ==
  ASSUME GuardInv, L!Assumptions, L!Cooled
  PROVE  GuardInv'
<1>1. GuardType
  BY DEF GuardInv
<1>2. UNCHANGED <<count, alive, trying, sent, let, wrong, told, doubled, astray>>
  BY DEF L!Cooled
<1>3. RowTypes /\ Dropped("login-id") /\ Dropped("mfa")
  BY <1>1, <1>2 DEF RowTypes, Dropped, GuardType
<1>4. /\ account' \in [suspended : BOOLEAN, mfa : BOOLEAN, failures : Nat, alerted : BOOLEAN]
      /\ account'.failures \in {account.failures, 0}
  <2>1. CASE account' = [account EXCEPT !.failures = 0]
    BY <1>1, <2>1 DEF GuardType
  <2>2. CASE account' = [account EXCEPT !.alerted = FALSE]
    <3>1. PICK f : f = FALSE
      OBVIOUS
    <3>2. f \in BOOLEAN
      BY <3>1
    <3>3. account' = [account EXCEPT !.alerted = f]
      BY <2>2, <3>1
    <3> QED  BY <1>1, <3>2, <3>3 DEF GuardType
  <2> QED  BY <2>1, <2>2 DEF L!Cooled
<1> QED  BY <1>2, <1>3, <1>4, CoolsHold

LEMMA GuardMoves == L!Assumptions /\ GuardInv /\ L!Next => GuardInv'
<1> SUFFICES ASSUME L!Assumptions, GuardInv, L!Next PROVE GuardInv'  OBVIOUS
<1>1. ASSUME NEW r \in Actor, L!Fail(r) PROVE GuardInv'
  <2>1. L!Done(r) /\ astray' = TRUE /\ UNCHANGED <<count, alive, account, sent, let, wrong, told, doubled>>
    BY <1>1 DEF L!Fail
  <2>2. astray' /\ astray' \in BOOLEAN
    BY <2>1
  <2> QED  BY <2>1, <2>2, FailHolds
<1>2. CASE \E r \in Actor, right \in BOOLEAN : L!Submit(r, right) \/ L!Code(r, right)
  BY <1>2, SubmitHolds
<1>3. CASE \E r \in Actor, elsewhere \in BOOLEAN : L!Welcome(r, elsewhere)
  BY <1>3, WelcomeHolds
<1>4. CASE \E r \in Actor :
             \/ L!Count(r) \/ L!BeginRow(r) \/ L!Check(r) \/ L!Store(r)
             \/ L!Forgive(r) \/ L!GiveBack(r) \/ L!Try(r)
  BY <1>4, CountHolds, BeginRowHolds, CheckHolds, StoreHolds, ForgiveHolds, GiveBackHolds, TryHolds
<1>5. CASE L!Unlock \/ \E k \in L!Key : L!Expire(k)
  BY <1>5, ExpireHolds
<1>6. CASE L!Cooled
  BY <1>6, CooledHolds
<1> QED  BY <1>1, <1>2, <1>3, <1>4, <1>5, <1>6 DEF L!Next

LEMMA GuardStands == GuardInv /\ UNCHANGED guarding => GuardInv'
<1> SUFFICES ASSUME GuardInv, UNCHANGED guarding PROVE GuardInv'  OBVIOUS
<1>1. UNCHANGED <<count, alive, account, trying, sent, let, wrong, told, doubled, astray>>
  BY DEF guarding
<1>2. GuardType'
  BY <1>1 DEF GuardInv, GuardType
<1>3. LimitInv'
  BY <1>1 DEF GuardInv, LimitInv
<1>4. Lockers' = Lockers /\ Guarding(Unjudged)' = Guarding(Unjudged) /\ L!Judging' = L!Judging
  BY <1>1 DEF Lockers, Guarding, L!Judging
<1>5. ToldInv'
  BY <1>1, <1>4 DEF GuardInv, ToldInv
<1>6. L!OnlyWrongOnesCount'
  <2>1. L!Cardinality(L!Judging)' = L!Cardinality(L!Judging)
    BY <1>4 DEF L!Cardinality
  <2> QED  BY <1>1, <2>1 DEF GuardInv, L!OnlyWrongOnesCount
<1>7. FailureInv'
  BY <1>1, <1>4 DEF GuardInv, FailureInv
<1> QED  BY <1>2, <1>3, <1>5, <1>6, <1>7 DEF GuardInv

-----------------------------------------------------------------------------
(* The pages that list things, and the session they share.                 *)

PageType ==
  /\ token \in 0..MaxSessions /\ issued \in 0..MaxSessions /\ since \in 1..(MaxSessions + 1)
  /\ screen \in [Window -> P!TabState] /\ calls \subseteq P!Call
  /\ ended \in 0..MaxSessions /\ bystander \in BOOLEAN /\ since <= issued + 1

\* Who was told that the session is over had one that is.
DeadInv == \A c \in calls : c.answer = "session" => c.as < since

\* A page's requests for its list are its own, and the newest is of its search.
ListInv ==
  \A c \in calls : c.kind = "list" =>
    /\ c.n >= 1
    /\ screen[c.tab].at \in P!Listing => c.n <= screen[c.tab].latest
    /\ c.n = screen[c.tab].latest => c.query = screen[c.tab].query

\* While the session is checked the tab asks for nothing else, and shows no list.
CheckInv ==
  \A c \in calls : c.kind = "me" =>
    /\ screen[c.tab].at \notin P!Listing
    /\ \A d \in calls : d.tab = c.tab /\ d.kind \in {"me", "list"} => d = c

AwayInv ==
  \A w \in Window : screen[w].at \notin P!Listing => screen[w].latest = 0 /\ ~screen[w].loading

BrowseInv ==
  /\ PageType /\ DeadInv /\ ListInv /\ CheckInv /\ AwayInv
  /\ P!RowsOfTheSearch /\ P!LoadingIsReal /\ P!OnlyDeadSessionsEnd

LEMMA BrowsePromises ==
  BrowseInv => P!TypeOK /\ P!RowsOfTheSearch /\ P!LoadingIsReal /\ P!OnlyDeadSessionsEnd
BY DEF BrowseInv, PageType, P!TypeOK

LEMMA BrowseConstants ==
  ASSUME P!Assumptions
  PROVE  /\ MaxSessions \in Nat \ {0} /\ MaxLoads \in Nat \ {0} /\ 0 \in 0..MaxLoads
         /\ 0 \in 0..MaxSessions /\ 1 \in 1..(MaxSessions + 1) /\ P!FirstSearch \in Thing
<1>1. MaxSessions \in Nat \ {0} /\ MaxLoads \in Nat \ {0} /\ Thing # {}
  BY DEF P!Assumptions
<1>2. P!FirstSearch \in Thing
  <2>1. \E q \in Thing : TRUE
    BY <1>1
  <2> QED  BY <2>1 DEF P!FirstSearch
<1> QED  BY <1>1, <1>2

\* A page without anything on it.
IsShut(v, at) ==
  /\ v \in P!TabState /\ v.at = at /\ v.latest = 0 /\ v.rows = {} /\ ~v.loading

LEMMA ShutIs ==
  ASSUME P!Assumptions, NEW at \in P!Place, NEW wants \in P!Listing \cup {"settings"}
  PROVE  IsShut(P!Shut(at, wants), at)
<1>1. PICK f : f = FALSE
  OBVIOUS
<1>2. f \in BOOLEAN
  BY <1>1
<1>3. P!Shut(at, wants) =
        [at |-> at, wants |-> wants, query |-> P!FirstSearch, latest |-> 0, rows |-> {},
         loading |-> f, error |-> f, more |-> f, mixed |-> f]
  BY <1>1 DEF P!Shut
<1>4. P!FirstSearch \in Thing /\ 0 \in 0..MaxLoads /\ {} \in SUBSET Thing
  BY BrowseConstants
<1>5. P!Shut(at, wants) \in P!TabState
  BY <1>2, <1>3, <1>4 DEF P!TabState
<1>6. /\ P!Shut(at, wants).at = at /\ P!Shut(at, wants).latest = 0 /\ P!Shut(at, wants).rows = {}
      /\ P!Shut(at, wants).loading = f
  BY <1>3
<1> QED  BY <1>1, <1>5, <1>6 DEF IsShut

LEMMA BrowseStarts == P!Assumptions /\ P!Init => BrowseInv
<1> SUFFICES ASSUME P!Assumptions, P!Init PROVE BrowseInv  OBVIOUS
<1>1. PICK f : f = FALSE
  OBVIOUS
<1>2. /\ token = 0 /\ issued = 0 /\ since = 1 /\ calls = {} /\ ended = 0 /\ bystander = f
      /\ screen = [w \in Window |-> P!Shut("login", "calls")]
  BY <1>1 DEF P!Init
<1>3. IsShut(P!Shut("login", "calls"), "login")
  <2>1. "login" \in P!Place /\ "calls" \in P!Listing \cup {"settings"}
    BY DEF P!Place, P!Listing
  <2> QED  BY <2>1, ShutIs
<1>4. \A w \in Window : IsShut(screen[w], "login")
  BY <1>2, <1>3
<1>5. bystander \in BOOLEAN
  BY <1>1, <1>2
<1>6. PageType
  BY <1>2, <1>3, <1>5, BrowseConstants DEF PageType, IsShut
<1>7. DeadInv /\ ListInv /\ CheckInv /\ P!OnlyDeadSessionsEnd
  BY <1>2 DEF DeadInv, ListInv, CheckInv, P!OnlyDeadSessionsEnd
<1>8. AwayInv
  BY <1>4 DEF AwayInv, IsShut
<1>9. P!RowsOfTheSearch
  BY <1>4 DEF IsShut, P!RowsOfTheSearch
<1>10. P!LoadingIsReal
  BY <1>4 DEF IsShut, P!LoadingIsReal
<1> QED  BY <1>6, <1>7, <1>8, <1>9, <1>10 DEF BrowseInv

\* The page of one tab is another.
LEMMA ScreenSet ==
  ASSUME PageType, NEW w \in Window, NEW v \in P!TabState, screen' = [screen EXCEPT ![w] = v]
  PROVE  /\ screen' \in [Window -> P!TabState] /\ screen'[w] = v
         /\ \A u \in Window \ {w} : screen'[u] = screen[u]
BY DEF PageType

LEMMA CallIs ==
  ASSUME PageType, NEW c \in calls
  PROVE  /\ c \in P!Call /\ c.tab \in Window /\ c.n \in Nat /\ c.as \in Nat
         /\ c.query \in Thing /\ c.session \in 0..MaxSessions /\ c.as \in 0..MaxSessions
BY DEF PageType, P!Call

LEMMA AskIs ==
  ASSUME PageType, P!Assumptions, NEW w \in Window, NEW kind \in P!Kind, NEW n \in 0..MaxLoads,
         NEW query \in Thing
  PROVE  /\ P!Ask(w, kind, n, query) \in P!Call /\ P!Ask(w, kind, n, query).tab = w
         /\ P!Ask(w, kind, n, query).kind = kind /\ P!Ask(w, kind, n, query).n = n
         /\ P!Ask(w, kind, n, query).query = query /\ P!Ask(w, kind, n, query).answer = "none"
BY BrowseConstants DEF P!Ask, P!Call, P!Answer, PageType

\* The session changes hands, ends, or stands: what holds of it alone.
SessionTypes ==
  /\ token' \in 0..MaxSessions /\ issued' \in 0..MaxSessions /\ since' \in 1..(MaxSessions + 1)
  /\ ended' \in 0..MaxSessions /\ bystander' \in BOOLEAN /\ since' <= issued' + 1

\* The page of w is shut, and what it had asked for is nobody's.
LEMMA ShutHolds ==
  ASSUME BrowseInv, P!Assumptions, SessionTypes, NEW w \in Window, NEW v, NEW at, IsShut(v, at),
         screen' = [screen EXCEPT ![w] = v], calls' \subseteq P!Call, since' = since,
         \A d \in calls' :
           \/ d \in calls
           \/ d.tab = w /\ d.kind # "list" /\ (d.answer = "session" => d.as < since),
         \A d \in calls : d.tab # w => d \in calls',
         \A c, d \in calls' :
           c.kind = "me" /\ d.kind \in {"me", "list"} /\ c.tab = w /\ d.tab = w => c = d,
         at \in P!Listing => \A d \in calls' : d.tab = w => d.kind \notin {"me", "list"},
         P!OnlyDeadSessionsEnd'
  PROVE  BrowseInv'
<1>1. /\ PageType /\ DeadInv /\ ListInv /\ CheckInv /\ AwayInv /\ P!RowsOfTheSearch
      /\ P!LoadingIsReal
  BY DEF BrowseInv
<1>2. v \in P!TabState /\ v.at = at /\ v.latest = 0 /\ v.rows = {} /\ ~v.loading
  BY DEF IsShut
<1>3. /\ screen' \in [Window -> P!TabState] /\ screen'[w] = v
      /\ \A u \in Window \ {w} : screen'[u] = screen[u]
  BY <1>1, <1>2, ScreenSet
<1>4. PageType'
  BY <1>3 DEF PageType, SessionTypes
<1>5. DeadInv'
  BY <1>1 DEF DeadInv
<1>6. ListInv'
  <2>1. ASSUME NEW c \in calls', c.kind = "list"
        PROVE  /\ c.n >= 1
               /\ screen'[c.tab].at \in P!Listing => c.n <= screen'[c.tab].latest
               /\ c.n = screen'[c.tab].latest => c.query = screen'[c.tab].query
    <3>1. c \in calls
      BY <2>1
    <3>2. c.tab \in Window /\ c.n \in Nat /\ c.n >= 1
      BY <1>1, <2>1, <3>1, CallIs DEF ListInv
    <3>3. CASE c.tab = w
      BY <1>2, <1>3, <2>1, <3>2, <3>3
    <3>4. CASE c.tab # w
      BY <1>1, <1>3, <2>1, <3>1, <3>2, <3>4 DEF ListInv
    <3> QED  BY <3>3, <3>4
  <2> QED  BY <2>1 DEF ListInv
<1>7. CheckInv'
  <2>1. ASSUME NEW c \in calls', c.kind = "me"
        PROVE  /\ screen'[c.tab].at \notin P!Listing
               /\ \A d \in calls' : d.tab = c.tab /\ d.kind \in {"me", "list"} => d = c
    <3>1. CASE c.tab = w
      BY <1>2, <1>3, <2>1, <3>1
    <3>2. CASE c.tab # w
      <4>1. c \in calls /\ c.tab \in Window
        BY <1>1, <2>1, <3>2, CallIs
      <4>2. \A d \in calls' : d.tab = c.tab => d \in calls
        BY <3>2
      <4> QED  BY <1>1, <1>3, <2>1, <3>2, <4>1, <4>2 DEF CheckInv
    <3> QED  BY <3>1, <3>2
  <2> QED  BY <2>1 DEF CheckInv
<1>8. AwayInv'
  BY <1>1, <1>2, <1>3 DEF AwayInv
<1>9. P!RowsOfTheSearch'
  BY <1>1, <1>2, <1>3 DEF P!RowsOfTheSearch
<1>10. P!LoadingIsReal'
  <2>1. ASSUME NEW u \in Window, screen'[u].loading
        PROVE  \E c \in calls' : c.tab = u /\ c.kind = "list" /\ c.n = screen'[u].latest
    <3>1. u # w /\ screen'[u] = screen[u]
      BY <1>2, <1>3, <2>1
    <3>2. PICK c \in calls : c.tab = u /\ c.kind = "list" /\ c.n = screen[u].latest
      BY <1>1, <2>1, <3>1 DEF P!LoadingIsReal
    <3> QED  BY <3>1, <3>2
  <2> QED  BY <2>1 DEF P!LoadingIsReal
<1> QED  BY <1>4, <1>5, <1>6, <1>7, <1>8, <1>9, <1>10 DEF BrowseInv

\* The page stays where it is; requests other than for its list come and go.
LEMMA SideHolds ==
  ASSUME BrowseInv, P!Assumptions, SessionTypes, screen' \in [Window -> P!TabState],
         calls' \subseteq P!Call, since' >= since,
         \A u \in Window :
           /\ screen'[u].at = screen[u].at /\ screen'[u].latest = screen[u].latest
           /\ screen'[u].query = screen[u].query
           /\ screen'[u].loading => screen[u].loading,
         \A d \in calls' :
           \/ d \in calls
           \/ d.kind \notin {"me", "list"} /\ d.answer # "session",
         P!RowsOfTheSearch', P!LoadingIsReal', P!OnlyDeadSessionsEnd'
  PROVE  BrowseInv'
<1>1. PageType /\ DeadInv /\ ListInv /\ CheckInv /\ AwayInv
  BY DEF BrowseInv
<1>2. PageType'
  BY DEF PageType, SessionTypes
<1>3. DeadInv'
  <2>1. ASSUME NEW c \in calls', c.answer = "session" PROVE c.as < since'
    <3>1. c \in calls
      BY <2>1
    <3>2. c.as \in Nat /\ c.as < since /\ since \in Nat /\ since' \in Nat
      BY <1>1, <1>2, <2>1, <3>1, CallIs DEF DeadInv, PageType
    <3> QED  BY <3>2
  <2> QED  BY <2>1 DEF DeadInv
<1>4. ListInv'
  <2>1. ASSUME NEW c \in calls', c.kind = "list"
        PROVE  /\ c.n >= 1
               /\ screen'[c.tab].at \in P!Listing => c.n <= screen'[c.tab].latest
               /\ c.n = screen'[c.tab].latest => c.query = screen'[c.tab].query
    <3>1. c \in calls /\ c.tab \in Window
      BY <1>1, <2>1, CallIs
    <3> QED  BY <1>1, <2>1, <3>1 DEF ListInv
  <2> QED  BY <2>1 DEF ListInv
<1>5. CheckInv'
  <2>1. ASSUME NEW c \in calls', c.kind = "me"
        PROVE  /\ screen'[c.tab].at \notin P!Listing
               /\ \A d \in calls' : d.tab = c.tab /\ d.kind \in {"me", "list"} => d = c
    <3>1. c \in calls /\ c.tab \in Window
      BY <1>1, <2>1, CallIs
    <3> QED  BY <1>1, <2>1, <3>1 DEF CheckInv
  <2> QED  BY <2>1 DEF CheckInv
<1>6. AwayInv'
  BY <1>1 DEF AwayInv
<1> QED  BY <1>2, <1>3, <1>4, <1>5, <1>6 DEF BrowseInv

\* A list is asked for.
LEMMA BeginHolds ==
  ASSUME BrowseInv, P!Assumptions, NEW w \in Window, NEW query \in Thing,
         screen[w].at \in P!Listing, P!Begin(w, query)
  PROVE  BrowseInv'
<1>1. /\ PageType /\ DeadInv /\ ListInv /\ CheckInv /\ AwayInv /\ P!RowsOfTheSearch
      /\ P!LoadingIsReal /\ P!OnlyDeadSessionsEnd
  BY DEF BrowseInv
<1>2. UNCHANGED <<token, issued, since, ended, bystander>>
  BY DEF P!Begin, P!Session
<1>3. PICK n : n = screen[w].latest + 1
  OBVIOUS
<1>4. screen \in [Window -> P!TabState] /\ screen[w] \in P!TabState
  BY <1>1 DEF PageType
<1>5. n \in 0..MaxLoads /\ n >= 1 /\ screen[w].latest \in Nat /\ screen[w].latest < n
  <2>1. screen[w].latest \in 0..MaxLoads
    BY <1>4 DEF P!TabState
  <2>2. screen[w].latest < MaxLoads
    BY DEF P!Begin
  <2> QED  BY <1>3, <2>1, <2>2, BrowseConstants
<1>6. PICK f, t : f = FALSE /\ t = TRUE
  OBVIOUS
<1>7. f \in BOOLEAN /\ t \in BOOLEAN
  BY <1>6
<1>8. PICK v : v = [screen[w] EXCEPT !.query = query, !.latest = n, !.loading = t, !.error = f]
  OBVIOUS
<1>9. screen' = [screen EXCEPT ![w] = v]
  <2>1. screen' = [screen EXCEPT ![w].query = query, ![w].latest = n, ![w].loading = t,
                                 ![w].error = f]
    BY <1>3, <1>4, <1>6 DEF P!Begin, P!TabState
  <2> QED  BY <1>4, <1>8, <2>1
<1>10. v \in P!TabState
  BY <1>4, <1>5, <1>7, <1>8 DEF P!TabState
<1>11. v.at = screen[w].at /\ v.latest = n /\ v.query = query /\ v.loading
  <2>1. v.at = screen[w].at /\ v.latest = n /\ v.query = query /\ v.loading = t
    BY <1>4, <1>8 DEF P!TabState
  <2> QED  BY <1>6, <2>1
<1>12. /\ screen' \in [Window -> P!TabState] /\ screen'[w] = v
       /\ \A u \in Window \ {w} : screen'[u] = screen[u]
  BY <1>1, <1>9, <1>10, ScreenSet
<1>13. PICK a : a = P!Ask(w, "list", n, query)
  OBVIOUS
<1>14. /\ a \in P!Call /\ a.tab = w /\ a.kind = "list" /\ a.n = n /\ a.query = query
       /\ a.answer = "none"
  <2>1. "list" \in P!Kind
    BY DEF P!Kind
  <2> QED  BY <1>1, <1>5, <1>13, <2>1, AskIs
<1>15. calls' = calls \cup {a}
  BY <1>3, <1>13 DEF P!Begin
<1>16. PageType'
  BY <1>1, <1>2, <1>12, <1>14, <1>15 DEF PageType
<1>17. DeadInv'
  BY <1>1, <1>2, <1>14, <1>15 DEF DeadInv
<1>18. ListInv'
  <2>1. ASSUME NEW c \in calls', c.kind = "list"
        PROVE  /\ c.n >= 1
               /\ screen'[c.tab].at \in P!Listing => c.n <= screen'[c.tab].latest
               /\ c.n = screen'[c.tab].latest => c.query = screen'[c.tab].query
    <3>1. CASE c = a
      BY <1>5, <1>11, <1>12, <1>14, <3>1
    <3>2. CASE c # a
      <4>1. c \in calls /\ c.tab \in Window /\ c.n \in Nat
        BY <1>1, <1>15, <3>2, CallIs
      <4>2. CASE c.tab = w
        <5>1. c.n >= 1 /\ c.n <= screen[w].latest
          BY <1>1, <2>1, <4>1, <4>2 DEF ListInv
        <5> QED  BY <1>5, <1>11, <1>12, <4>1, <4>2, <5>1
      <4>3. CASE c.tab # w
        BY <1>1, <1>12, <2>1, <4>1, <4>3 DEF ListInv
      <4> QED  BY <4>2, <4>3
    <3> QED  BY <3>1, <3>2
  <2> QED  BY <2>1 DEF ListInv
<1>19. CheckInv'
  <2>1. ASSUME NEW c \in calls', c.kind = "me"
        PROVE  /\ screen'[c.tab].at \notin P!Listing
               /\ \A d \in calls' : d.tab = c.tab /\ d.kind \in {"me", "list"} => d = c
    <3>1. c \in calls /\ c.tab \in Window
      BY <1>1, <1>14, <1>15, <2>1, CallIs
    <3>2. c.tab # w
      BY <1>1, <2>1, <3>1 DEF CheckInv
    <3> QED  BY <1>1, <1>12, <1>14, <1>15, <2>1, <3>1, <3>2 DEF CheckInv
  <2> QED  BY <2>1 DEF CheckInv
<1>20. AwayInv'
  BY <1>1, <1>11, <1>12 DEF AwayInv
<1>21. P!RowsOfTheSearch'
  BY <1>1, <1>11, <1>12 DEF P!RowsOfTheSearch
<1>22. P!LoadingIsReal'
  <2>1. ASSUME NEW u \in Window, screen'[u].loading
        PROVE  \E c \in calls' : c.tab = u /\ c.kind = "list" /\ c.n = screen'[u].latest
    <3>1. CASE u = w
      BY <1>11, <1>12, <1>14, <1>15, <3>1
    <3>2. CASE u # w
      BY <1>1, <1>12, <1>15, <2>1, <3>2 DEF P!LoadingIsReal
    <3> QED  BY <3>1, <3>2
  <2> QED  BY <2>1 DEF P!LoadingIsReal
<1>23. P!OnlyDeadSessionsEnd'
  BY <1>1, <1>2 DEF P!OnlyDeadSessionsEnd
<1> QED  BY <1>16, <1>17, <1>18, <1>19, <1>20, <1>21, <1>22, <1>23 DEF BrowseInv

LEMMA ListsHold ==
  ASSUME BrowseInv, P!Assumptions, NEW w \in Window,
         \/ P!FirstLoad(w) \/ P!SavedBooking(w)
         \/ \E q \in Thing : P!FilterCalls(w, q) \/ P!SearchCustomers(w, q) \/ P!SearchBookings(w, q)
  PROVE  BrowseInv'
<1>1. screen[w].query \in Thing
  BY DEF BrowseInv, PageType, P!TabState
<1>2. screen[w].at \in P!Listing
  BY DEF P!FirstLoad, P!SavedBooking, P!FilterCalls, P!SearchCustomers, P!SearchBookings, P!Listing
<1>3. \E q \in Thing : P!Begin(w, q)
  BY <1>1 DEF P!FirstLoad, P!SavedBooking, P!FilterCalls, P!SearchCustomers, P!SearchBookings
<1> QED  BY <1>2, <1>3, BeginHolds

\* What becomes of the requests of a page that is left.
LEMMA OrphansAre ==
  ASSUME PageType, P!Assumptions, NEW w \in Window
  PROVE  /\ P!Orphans(w) \subseteq P!Call
         /\ \A d \in P!Orphans(w) :
              \/ d \in calls /\ d.tab # w
              \/ d.tab = w /\ d.kind = "gone" /\ \E c \in calls : d.answer = c.answer /\ d.as = c.as
         /\ \A d \in calls : d.tab # w => d \in P!Orphans(w)
<1>1. \A c \in calls : c \in P!Call
  BY CallIs
<1>2. "gone" \in P!Kind /\ 0 \in 0..MaxLoads /\ P!FirstSearch \in Thing
  BY BrowseConstants DEF P!Kind
<1>3. ASSUME NEW c \in calls, NEW d, d = [c EXCEPT !.kind = "gone", !.n = 0, !.query = P!FirstSearch]
      PROVE  /\ d \in P!Call /\ d.tab = c.tab /\ d.kind = "gone" /\ d.answer = c.answer
             /\ d.as = c.as
  BY <1>1, <1>2, <1>3 DEF P!Call
<1>4. ASSUME NEW d \in P!Orphans(w)
      PROVE  /\ d \in P!Call
             /\ \/ d \in calls /\ d.tab # w
                \/ d.tab = w /\ d.kind = "gone" /\ \E c \in calls : d.answer = c.answer /\ d.as = c.as
  <2>1. PICK c \in calls :
          d = IF c.tab = w THEN [c EXCEPT !.kind = "gone", !.n = 0, !.query = P!FirstSearch] ELSE c
    BY DEF P!Orphans
  <2>2. CASE c.tab = w
    BY <1>3, <2>1, <2>2
  <2>3. CASE c.tab # w
    BY <1>1, <2>1, <2>3
  <2> QED  BY <2>2, <2>3
<1>5. ASSUME NEW d \in calls, d.tab # w PROVE d \in P!Orphans(w)
  BY <1>5 DEF P!Orphans
<1> QED  BY <1>4, <1>5

LEMMA SessionStands ==
  ASSUME BrowseInv, UNCHANGED <<token, issued, since, ended, bystander>>
  PROVE  SessionTypes /\ P!OnlyDeadSessionsEnd' /\ since' = since /\ since' >= since
<1>1. SessionTypes
  BY DEF BrowseInv, PageType, SessionTypes
<1>2. P!OnlyDeadSessionsEnd'
  BY DEF BrowseInv, P!OnlyDeadSessionsEnd
<1>3. since \in Nat
  BY DEF BrowseInv, PageType
<1> QED  BY <1>1, <1>2, <1>3

LEMMA SignInHolds ==
  ASSUME BrowseInv, P!Assumptions, NEW w \in Window, P!SignIn(w)
  PROVE  BrowseInv'
<1>1. /\ PageType /\ CheckInv /\ P!OnlyDeadSessionsEnd
  BY DEF BrowseInv
<1>2. /\ issued' = issued + 1 /\ token' = issued + 1 /\ issued < MaxSessions
      /\ screen' = [screen EXCEPT ![w] = P!Shut("login", "calls")]
      /\ UNCHANGED <<since, calls, ended, bystander>>
  BY DEF P!SignIn
<1>3. "login" \in P!Place /\ "calls" \in P!Listing \cup {"settings"} /\ "login" \notin P!Listing
  BY DEF P!Place, P!Listing
<1>4. PICK v : v = P!Shut("login", "calls")
  OBVIOUS
<1>5. IsShut(v, "login")
  BY <1>3, <1>4, ShutIs
<1>6. SessionTypes
  BY <1>1, <1>2, BrowseConstants DEF PageType, SessionTypes
<1>7. P!OnlyDeadSessionsEnd'
  BY <1>1, <1>2 DEF P!OnlyDeadSessionsEnd
<1>8. \A c, d \in calls' :
        c.kind = "me" /\ d.kind \in {"me", "list"} /\ c.tab = w /\ d.tab = w => c = d
  BY <1>1, <1>2 DEF CheckInv
<1>9. calls' \subseteq P!Call /\ (\A d \in calls' : d \in calls) /\ \A d \in calls : d \in calls'
  BY <1>1, <1>2 DEF PageType
<1> QED  BY <1>2, <1>3, <1>4, <1>5, <1>6, <1>7, <1>8, <1>9, ShutHolds

LEMMA LeavesHold ==
  ASSUME BrowseInv, P!Assumptions, NEW w \in Window, SessionTypes, since' = since,
         P!OnlyDeadSessionsEnd', NEW v, NEW at, IsShut(v, at), at \notin P!Listing,
         screen' = [screen EXCEPT ![w] = v],
         \/ calls' = P!Orphans(w)
         \/ \E a \in P!Call :
              /\ calls' = P!Orphans(w) \cup {a} /\ a.tab = w /\ a.kind = "me" /\ a.answer = "none"
  PROVE  BrowseInv'
<1>1. PageType /\ DeadInv
  BY DEF BrowseInv
<1>2. /\ P!Orphans(w) \subseteq P!Call
      /\ \A d \in P!Orphans(w) :
           \/ d \in calls /\ d.tab # w
           \/ d.tab = w /\ d.kind = "gone" /\ \E c \in calls : d.answer = c.answer /\ d.as = c.as
      /\ \A d \in calls : d.tab # w => d \in P!Orphans(w)
  BY <1>1, OrphansAre
<1>3. ASSUME NEW d \in P!Orphans(w), d \notin calls
      PROVE  d.tab = w /\ d.kind = "gone" /\ (d.answer = "session" => d.as < since)
  BY <1>1, <1>2, <1>3 DEF DeadInv
<1>4. \A d \in P!Orphans(w) : d.tab = w => d.kind = "gone"
  BY <1>2
<1>5. calls' \subseteq P!Call /\ \A d \in calls : d.tab # w => d \in calls'
  BY <1>2
<1>6. \A d \in calls' :
        \/ d \in calls
        \/ d.tab = w /\ d.kind # "list" /\ (d.answer = "session" => d.as < since)
  BY <1>3
<1>7. \A c, d \in calls' :
        c.kind = "me" /\ d.kind \in {"me", "list"} /\ c.tab = w /\ d.tab = w => c = d
  BY <1>4
<1> QED  BY <1>5, <1>6, <1>7, ShutHolds

LEMMA OpenPageHolds ==
  ASSUME BrowseInv, P!Assumptions, NEW w \in Window, NEW shows \in P!Listing \cup {"settings"},
         P!OpenPage(w, shows)
  PROVE  BrowseInv'
<1>1. PageType /\ CheckInv
  BY DEF BrowseInv
<1>2. SessionTypes /\ P!OnlyDeadSessionsEnd' /\ since' = since
  BY SessionStands DEF P!OpenPage, P!Session
<1>3. CASE token = 0
  <2>1. screen' = [screen EXCEPT ![w] = P!Shut("login", "calls")] /\ UNCHANGED calls
    BY <1>3 DEF P!OpenPage
  <2>2. PICK v : v = P!Shut("login", "calls")
    OBVIOUS
  <2>3. IsShut(v, "login") /\ "login" \notin P!Listing
    <3>1. "login" \in P!Place /\ "calls" \in P!Listing \cup {"settings"} /\ "login" \notin P!Listing
      BY DEF P!Place, P!Listing
    <3> QED  BY <2>2, <3>1, ShutIs
  <2>4. \A c, d \in calls' :
          c.kind = "me" /\ d.kind \in {"me", "list"} /\ c.tab = w /\ d.tab = w => c = d
    BY <1>1, <2>1 DEF CheckInv
  <2>5. calls' \subseteq P!Call /\ (\A d \in calls' : d \in calls) /\ \A d \in calls : d \in calls'
    BY <1>1, <2>1 DEF PageType
  <2> QED  BY <1>2, <2>1, <2>2, <2>3, <2>4, <2>5, ShutHolds
<1>4. CASE token # 0
  <2>1. PICK v, a : v = P!Shut("checking", shows) /\ a = P!Ask(w, "me", 0, P!FirstSearch)
    OBVIOUS
  <2>2. screen' = [screen EXCEPT ![w] = v] /\ calls' = P!Orphans(w) \cup {a}
    BY <1>4, <2>1 DEF P!OpenPage
  <2>3. IsShut(v, "checking") /\ "checking" \notin P!Listing
    <3>1. "checking" \in P!Place /\ "checking" \notin P!Listing
      BY DEF P!Place, P!Listing
    <3> QED  BY <2>1, <3>1, ShutIs
  <2>4. a \in P!Call /\ a.tab = w /\ a.kind = "me" /\ a.answer = "none"
    <3>1. "me" \in P!Kind
      BY DEF P!Kind
    <3> QED  BY <1>1, <2>1, <3>1, AskIs, BrowseConstants
  <2> QED  BY <1>2, <2>2, <2>3, <2>4, LeavesHold
<1> QED  BY <1>3, <1>4

LEMMA LogOutHolds ==
  ASSUME BrowseInv, P!Assumptions, NEW w \in Window, P!LogOut(w)
  PROVE  BrowseInv'
<1>1. PageType /\ P!OnlyDeadSessionsEnd
  BY DEF BrowseInv
<1>2. /\ token' = 0 /\ calls' = P!Orphans(w)
      /\ screen' = [screen EXCEPT ![w] = P!Shut("login", "calls")]
      /\ UNCHANGED <<issued, since, ended, bystander>>
  BY DEF P!LogOut
<1>3. PICK v : v = P!Shut("login", "calls")
  OBVIOUS
<1>4. IsShut(v, "login") /\ "login" \notin P!Listing
  <2>1. "login" \in P!Place /\ "calls" \in P!Listing \cup {"settings"} /\ "login" \notin P!Listing
    BY DEF P!Place, P!Listing
  <2> QED  BY <1>3, <2>1, ShutIs
<1>5. SessionTypes
  BY <1>1, <1>2, BrowseConstants DEF PageType, SessionTypes
<1>6. P!OnlyDeadSessionsEnd'
  BY <1>1, <1>2 DEF P!OnlyDeadSessionsEnd
<1> QED  BY <1>2, <1>3, <1>4, <1>5, <1>6, LeavesHold

\* The pages are as they were: so are their lists.
LEMMA RowsStand ==
  ASSUME BrowseInv, UNCHANGED screen, \A d \in calls : d.kind = "list" => d \in calls'
  PROVE  /\ P!RowsOfTheSearch' /\ P!LoadingIsReal' /\ screen' \in [Window -> P!TabState]
         /\ \A u \in Window :
              /\ screen'[u].at = screen[u].at /\ screen'[u].latest = screen[u].latest
              /\ screen'[u].query = screen[u].query
              /\ screen'[u].loading => screen[u].loading
BY DEF BrowseInv, PageType, P!RowsOfTheSearch, P!LoadingIsReal

LEMMA EndedElsewhereHolds ==
  ASSUME BrowseInv, P!Assumptions, P!EndedElsewhere
  PROVE  BrowseInv'
<1>1. PageType /\ P!OnlyDeadSessionsEnd
  BY DEF BrowseInv
<1>2. /\ since <= issued /\ since' = issued + 1
      /\ UNCHANGED <<token, issued, screen, calls, ended, bystander>>
  BY DEF P!EndedElsewhere
<1>3. since' \in 1..(MaxSessions + 1) /\ since' >= since /\ since \in Nat
  BY <1>1, <1>2, BrowseConstants DEF PageType
<1>4. SessionTypes
  BY <1>1, <1>2, <1>3 DEF PageType, SessionTypes
<1>5. P!OnlyDeadSessionsEnd'
  <2>1. ended \in Nat /\ since' \in Nat
    BY <1>1, <1>3 DEF PageType
  <2>2. ended = 0 \/ bystander \/ ended < since
    BY <1>1 DEF P!OnlyDeadSessionsEnd
  <2>3. ended < since => ended < since'
    BY <1>3, <2>1
  <2>4. ended' = ended /\ bystander' = bystander
    BY <1>2
  <2>5. ended' = 0 \/ bystander' \/ ended' < since'
    BY <2>2, <2>3, <2>4
  <2> QED  BY <2>5 DEF P!OnlyDeadSessionsEnd
<1>6. /\ P!RowsOfTheSearch' /\ P!LoadingIsReal' /\ screen' \in [Window -> P!TabState]
      /\ \A u \in Window :
           /\ screen'[u].at = screen[u].at /\ screen'[u].latest = screen[u].latest
           /\ screen'[u].query = screen[u].query
           /\ screen'[u].loading => screen[u].loading
  BY <1>2, RowsStand
<1>7. calls' \subseteq P!Call /\ \A d \in calls' : d \in calls
  BY <1>1, <1>2 DEF PageType
<1> QED  BY <1>3, <1>4, <1>5, <1>6, <1>7, SideHolds

\* A request is answered, or given up.
LEMMA AnswersHold ==
  ASSUME BrowseInv, P!Assumptions, NEW c \in calls, NEW a \in P!Answer, NEW s \in 0..MaxSessions,
         P!Replaced(c, a, s), UNCHANGED screen, SessionTypes, since' >= since,
         a = "session" => c.as < since, P!OnlyDeadSessionsEnd'
  PROVE  BrowseInv'
<1>1. /\ PageType /\ DeadInv /\ ListInv /\ CheckInv /\ AwayInv /\ P!RowsOfTheSearch
      /\ P!LoadingIsReal
  BY DEF BrowseInv
<1>2. PICK d : d = [c EXCEPT !.answer = a, !.session = s]
  OBVIOUS
<1>3. /\ d \in P!Call /\ d.tab = c.tab /\ d.kind = c.kind /\ d.n = c.n /\ d.query = c.query
      /\ d.as = c.as /\ d.answer = a
  <2>1. c \in P!Call
    BY <1>1, CallIs
  <2> QED  BY <1>2, <2>1 DEF P!Call
<1>4. calls' = (calls \ {c}) \cup {d}
  BY <1>2 DEF P!Replaced
<1>5. PageType'
  BY <1>1, <1>3, <1>4 DEF PageType, SessionTypes
<1>6. DeadInv'
  <2>1. ASSUME NEW e \in calls', e.answer = "session" PROVE e.as < since'
    <3>1. PICK q : q = e.as
      OBVIOUS
    <3>2. q < since /\ q \in Nat
      <4>1. CASE e = d
        BY <1>1, <1>3, <2>1, <3>1, <4>1, CallIs
      <4>2. CASE e # d
        <5>1. e \in calls
          BY <1>4, <4>2
        <5> QED  BY <1>1, <2>1, <3>1, <5>1, CallIs DEF DeadInv
      <4> QED  BY <4>1, <4>2
    <3>3. since \in Nat /\ since' \in Nat
      BY <1>1, <1>5 DEF PageType
    <3> QED  BY <3>1, <3>2, <3>3
  <2> QED  BY <2>1 DEF DeadInv
<1>7. ListInv'
  <2>1. ASSUME NEW e \in calls', e.kind = "list"
        PROVE  /\ e.n >= 1
               /\ screen'[e.tab].at \in P!Listing => e.n <= screen'[e.tab].latest
               /\ e.n = screen'[e.tab].latest => e.query = screen'[e.tab].query
    <3>1. CASE e = d
      BY <1>1, <1>3, <2>1, <3>1 DEF ListInv
    <3>2. CASE e # d
      BY <1>1, <1>4, <2>1, <3>2 DEF ListInv
    <3> QED  BY <3>1, <3>2
  <2> QED  BY <2>1 DEF ListInv
<1>8. CheckInv'
  <2>1. ASSUME NEW e \in calls', e.kind = "me"
        PROVE  /\ screen'[e.tab].at \notin P!Listing
               /\ \A q \in calls' : q.tab = e.tab /\ q.kind \in {"me", "list"} => q = e
    <3>1. CASE e = d
      BY <1>1, <1>3, <1>4, <2>1, <3>1 DEF CheckInv
    <3>2. CASE e # d
      <4>1. e \in calls /\ e # c
        BY <1>4, <3>2
      <4>2. ASSUME NEW q \in calls', q.tab = e.tab, q.kind \in {"me", "list"} PROVE q = e
        <5>1. CASE q = d
          <6>1. c = e
            BY <1>1, <1>3, <2>1, <4>1, <4>2, <5>1 DEF CheckInv
          <6> QED  BY <4>1, <6>1
        <5>2. CASE q # d
          BY <1>1, <1>4, <2>1, <4>1, <4>2, <5>2 DEF CheckInv
        <5> QED  BY <5>1, <5>2
      <4> QED  BY <1>1, <2>1, <4>1, <4>2 DEF CheckInv
    <3> QED  BY <3>1, <3>2
  <2> QED  BY <2>1 DEF CheckInv
<1>9. AwayInv' /\ P!RowsOfTheSearch'
  BY <1>1 DEF AwayInv, P!RowsOfTheSearch
<1>10. P!LoadingIsReal'
  <2>1. ASSUME NEW u \in Window, screen'[u].loading
        PROVE  \E e \in calls' : e.tab = u /\ e.kind = "list" /\ e.n = screen'[u].latest
    <3>1. PICK e \in calls : e.tab = u /\ e.kind = "list" /\ e.n = screen[u].latest
      BY <1>1, <2>1 DEF P!LoadingIsReal
    <3>2. CASE e = c
      BY <1>3, <1>4, <3>1, <3>2
    <3>3. CASE e # c
      BY <1>4, <3>1, <3>3
    <3> QED  BY <3>2, <3>3
  <2> QED  BY <2>1 DEF P!LoadingIsReal
<1> QED  BY <1>5, <1>6, <1>7, <1>8, <1>9, <1>10 DEF BrowseInv

LEMMA ServeHolds ==
  ASSUME BrowseInv, P!Assumptions, NEW c \in calls, P!Serve(c) \/ P!TimeOut(c)
  PROVE  BrowseInv'
<1>1. PageType /\ P!OnlyDeadSessionsEnd /\ since \in Nat /\ issued \in Nat /\ c.as \in Nat
  BY CallIs DEF BrowseInv, PageType
<1>2. {"ok", "session", "refused", "failed"} \subseteq P!Answer /\ 0 \in 0..MaxSessions
  BY BrowseConstants DEF P!Answer
<1>3. CASE UNCHANGED <<token, issued, since, ended, bystander, screen>>
  <2>1. SessionTypes /\ P!OnlyDeadSessionsEnd' /\ since' >= since
    BY <1>3, SessionStands
  <2>2. UNCHANGED screen
    BY <1>3
  <2>3. CASE ~P!Accepted(c) /\ P!Replaced(c, "session", 0)
    <3>1. c.as < since
      BY <1>1, <2>3 DEF P!Accepted
    <3> QED  BY <1>2, <2>1, <2>2, <2>3, <3>1, AnswersHold
  <2>4. ASSUME NEW a \in {"ok", "refused", "failed"}, P!Replaced(c, a, 0) PROVE BrowseInv'
    <3>1. a \in P!Answer /\ a # "session"
      BY <1>2, <2>4
    <3> QED  BY <1>2, <2>1, <2>2, <2>4, <3>1, AnswersHold
  <2>5. CASE P!NewPassword(c)
    BY <1>1, <1>3, <2>5 DEF P!NewPassword
  <2> QED  BY <2>3, <2>4, <2>5 DEF P!Serve, P!TimeOut
<1>4. CASE P!NewPassword(c)
  <2>1. /\ issued < MaxSessions /\ issued' = issued + 1 /\ since' = issued + 1
        /\ UNCHANGED <<token, screen, ended, bystander>>
    BY <1>4 DEF P!NewPassword
  <2>2. PICK s : s = issued + 1
    OBVIOUS
  <2>3. s \in 0..MaxSessions /\ P!Replaced(c, "ok", s)
    BY <1>1, <1>4, <2>1, <2>2, BrowseConstants DEF P!NewPassword
  <2>4. since' >= since
    BY <1>1, <2>1 DEF PageType
  <2>5. SessionTypes
    <3>1. issued' \in 0..MaxSessions /\ since' \in 1..(MaxSessions + 1) /\ since' <= issued' + 1
      BY <1>1, <2>1, BrowseConstants
    <3> QED  BY <1>1, <2>1, <3>1 DEF PageType, SessionTypes
  <2>6. P!OnlyDeadSessionsEnd'
    <3>1. ended \in Nat /\ since' \in Nat
      BY <1>1, <2>1 DEF PageType
    <3>2. ended = 0 \/ bystander \/ ended < since
      BY <1>1 DEF P!OnlyDeadSessionsEnd
    <3>3. ended < since => ended < since'
      BY <1>1, <2>4, <3>1
    <3>4. ended' = 0 \/ bystander' \/ ended' < since'
      BY <2>1, <3>2, <3>3
    <3> QED  BY <3>4 DEF P!OnlyDeadSessionsEnd
  <2>7. "ok" \in P!Answer /\ "ok" # "session" /\ UNCHANGED screen
    BY <1>2, <2>1
  <2> QED  BY <2>3, <2>4, <2>5, <2>6, <2>7, AnswersHold
<1> QED  BY <1>3, <1>4 DEF P!Serve, P!TimeOut, P!Session

LEMMA EndSessionHolds ==
  ASSUME BrowseInv, P!Assumptions, NEW c \in calls, P!EndSession(c)
  PROVE  BrowseInv'
<1>1. PageType /\ DeadInv /\ CheckInv
  BY DEF BrowseInv
<1>2. /\ c.answer = "session" /\ token' = 0 /\ ended' = token /\ bystander' = (c.as # token)
      /\ screen' = [screen EXCEPT ![c.tab] = P!Shut("login", "calls")]
      /\ calls' = {d \in calls : d.tab # c.tab} /\ UNCHANGED <<issued, since>>
  BY DEF P!EndSession, P!SessionEnded
<1>3. PICK v : v = P!Shut("login", "calls")
  OBVIOUS
<1>4. IsShut(v, "login") /\ "login" \notin P!Listing
  <2>1. "login" \in P!Place /\ "calls" \in P!Listing \cup {"settings"} /\ "login" \notin P!Listing
    BY DEF P!Place, P!Listing
  <2> QED  BY <1>3, <2>1, ShutIs
<1>5. PICK w \in Window : w = c.tab
  BY <1>1, CallIs
<1>6. SessionTypes
  <2>1. bystander' \in BOOLEAN
    BY <1>2
  <2> QED  BY <1>1, <1>2, <2>1, BrowseConstants DEF PageType, SessionTypes
<1>7. P!OnlyDeadSessionsEnd'
  <2>1. c.as < since
    BY <1>1, <1>2 DEF DeadInv
  <2>2. CASE c.as = token
    <3>1. ended' < since'
      BY <1>2, <2>1, <2>2
    <3> QED  BY <3>1 DEF P!OnlyDeadSessionsEnd
  <2>3. CASE c.as # token
    <3>1. bystander'
      BY <1>2, <2>3
    <3> QED  BY <3>1 DEF P!OnlyDeadSessionsEnd
  <2> QED  BY <2>2, <2>3
<1>8. /\ calls' \subseteq P!Call /\ \A d \in calls' : d \in calls /\ d.tab # w
      /\ \A d \in calls : d.tab # w => d \in calls'
  BY <1>1, <1>2, <1>5 DEF PageType
<1> QED  BY <1>2, <1>3, <1>4, <1>5, <1>6, <1>7, <1>8, ShutHolds

LEMMA CheckedHolds ==
  ASSUME BrowseInv, P!Assumptions, NEW c \in calls, P!Checked(c)
  PROVE  BrowseInv'
<1>1. PageType /\ CheckInv
  BY DEF BrowseInv
<1>2. c.kind = "me" /\ calls' = calls \ {c} /\ UNCHANGED <<token, issued, since, ended, bystander>>
  BY DEF P!Checked, P!Arrived, P!Session
<1>3. SessionTypes /\ P!OnlyDeadSessionsEnd' /\ since' = since
  BY <1>2, SessionStands
<1>4. PICK w \in Window : w = c.tab
  BY <1>1, CallIs
<1>5. PICK shows : shows = screen[w].wants
  OBVIOUS
<1>6. shows \in P!Listing \cup {"settings"}
  BY <1>1, <1>5 DEF PageType, P!TabState
<1>7. \A d \in calls' : d.tab = w => d.kind \notin {"me", "list"}
  BY <1>1, <1>2, <1>4 DEF CheckInv
<1>8. /\ calls' \subseteq P!Call /\ (\A d \in calls' : d \in calls)
      /\ \A d \in calls : d.tab # w => d \in calls'
  BY <1>1, <1>2, <1>4 DEF PageType
<1>9. PICK v, at : /\ v = P!Shut(at, IF at = "login" THEN "calls" ELSE at)
                   /\ at \in P!Listing \cup {"settings", "login"}
                   /\ screen' = [screen EXCEPT ![w] = v]
  <2>1. CASE c.answer = "session"
    BY <1>4, <2>1 DEF P!Checked
  <2>2. CASE c.answer # "session"
    <3>1. shows # "login"
      BY <1>6 DEF P!Listing
    <3>2. screen' = [screen EXCEPT ![w] = P!Shut(shows, shows)]
      BY <1>4, <1>5, <2>2 DEF P!Checked
    <3> QED  BY <1>6, <3>1, <3>2
  <2> QED  BY <2>1, <2>2
<1>10. IsShut(v, at)
  <2>1. at \in P!Place /\ (IF at = "login" THEN "calls" ELSE at) \in P!Listing \cup {"settings"}
    BY <1>9 DEF P!Place, P!Listing
  <2> QED  BY <1>9, <2>1, ShutIs
<1>11. \A e, d \in calls' :
         e.kind = "me" /\ d.kind \in {"me", "list"} /\ e.tab = w /\ d.tab = w => e = d
  BY <1>7
<1> QED  BY <1>3, <1>7, <1>8, <1>9, <1>10, <1>11, ShutHolds

LEMMA ListArrivesHolds ==
  ASSUME BrowseInv, P!Assumptions, NEW c \in calls, P!ListArrives(c)
  PROVE  BrowseInv'
<1>1. PageType /\ ListInv /\ P!RowsOfTheSearch /\ P!LoadingIsReal
  BY DEF BrowseInv
<1>2. /\ c.kind = "list" /\ calls' = calls \ {c} /\ screen' = P!Listed(c)
      /\ UNCHANGED <<token, issued, since, ended, bystander>>
  BY DEF P!ListArrives, P!Arrived, P!Session
<1>3. SessionTypes /\ P!OnlyDeadSessionsEnd' /\ since' >= since
  BY <1>2, SessionStands
<1>4. PICK w \in Window : w = c.tab
  BY <1>1, CallIs
<1>5. calls' \subseteq P!Call /\ \A d \in calls' : d \in calls
  BY <1>1, <1>2 DEF PageType
<1>6. CASE ~P!Current(c)
  <2>1. screen' = screen
    BY <1>2, <1>6 DEF P!Listed
  <2>2. P!RowsOfTheSearch'
    BY <1>1, <2>1 DEF P!RowsOfTheSearch
  <2>3. P!LoadingIsReal'
    <3>1. ASSUME NEW u \in Window, screen[u].loading
          PROVE  \E d \in calls' : d.tab = u /\ d.kind = "list" /\ d.n = screen[u].latest
      <4>1. PICK d \in calls : d.tab = u /\ d.kind = "list" /\ d.n = screen[u].latest
        BY <1>1, <3>1 DEF P!LoadingIsReal
      <4>2. d # c
        BY <1>6, <4>1 DEF P!Current
      <4> QED  BY <1>2, <4>1, <4>2
    <3> QED  BY <2>1, <3>1 DEF P!LoadingIsReal
  <2>4. /\ screen' \in [Window -> P!TabState]
        /\ \A u \in Window :
             /\ screen'[u].at = screen[u].at /\ screen'[u].latest = screen[u].latest
             /\ screen'[u].query = screen[u].query
             /\ screen'[u].loading => screen[u].loading
    BY <1>1, <2>1 DEF PageType
  <2> QED  BY <1>3, <1>5, <2>2, <2>3, <2>4, SideHolds
<1>7. CASE P!Current(c)
  <2>1. PICK f, t : f = FALSE /\ t = TRUE
    OBVIOUS
  <2>2. f \in BOOLEAN /\ t \in BOOLEAN
    BY <2>1
  <2>3. screen[w] \in P!TabState /\ c.query \in Thing
    BY <1>1, <1>4, CallIs DEF PageType
  <2>4. PICK v : v = IF c.answer = "ok"
                     THEN [screen[w] EXCEPT !.rows = {c.query}, !.loading = f, !.mixed = f]
                     ELSE [screen[w] EXCEPT !.error = t, !.loading = f]
    OBVIOUS
  <2>5. /\ v \in P!TabState /\ v.at = screen[w].at /\ v.latest = screen[w].latest
        /\ v.query = screen[w].query /\ v.loading = f
        /\ v.rows = {c.query} \/ v.error = t
    <3>1. CASE c.answer = "ok"
      <4>1. v = [screen[w] EXCEPT !.rows = {c.query}, !.loading = f, !.mixed = f]
        BY <2>4, <3>1
      <4> QED  BY <2>2, <2>3, <4>1 DEF P!TabState
    <3>2. CASE c.answer # "ok"
      <4>1. v = [screen[w] EXCEPT !.error = t, !.loading = f]
        BY <2>4, <3>2
      <4> QED  BY <2>2, <2>3, <4>1 DEF P!TabState
    <3> QED  BY <3>1, <3>2
  <2>6. ~v.loading
    BY <2>1, <2>5
  <2>7. screen' = [screen EXCEPT ![w] = v]
    BY <1>2, <1>4, <1>7, <2>1, <2>4 DEF P!Listed
  <2>8. /\ screen' \in [Window -> P!TabState] /\ screen'[w] = v
        /\ \A u \in Window \ {w} : screen'[u] = screen[u]
    BY <1>1, <2>5, <2>7, ScreenSet
  <2>9. c.query = screen[w].query
    BY <1>1, <1>2, <1>4, <1>7 DEF ListInv, P!Current
  <2>10. P!RowsOfTheSearch'
    <3>1. ASSUME NEW u \in Window, ~screen'[u].loading, ~screen'[u].error, ~screen'[u].mixed
          PROVE  screen'[u].rows \subseteq {screen'[u].query}
      <4>1. CASE u = w
        BY <2>1, <2>5, <2>8, <2>9, <3>1, <4>1
      <4>2. CASE u # w
        BY <1>1, <2>8, <3>1, <4>2 DEF P!RowsOfTheSearch
      <4> QED  BY <4>1, <4>2
    <3> QED  BY <3>1 DEF P!RowsOfTheSearch
  <2>11. P!LoadingIsReal'
    <3>1. ASSUME NEW u \in Window, screen'[u].loading
          PROVE  \E d \in calls' : d.tab = u /\ d.kind = "list" /\ d.n = screen'[u].latest
      <4>1. u # w /\ screen'[u] = screen[u]
        BY <2>6, <2>8, <3>1
      <4>2. PICK d \in calls : d.tab = u /\ d.kind = "list" /\ d.n = screen[u].latest
        BY <1>1, <3>1, <4>1 DEF P!LoadingIsReal
      <4>3. d # c
        BY <1>4, <4>1, <4>2
      <4> QED  BY <1>2, <4>1, <4>2, <4>3
    <3> QED  BY <3>1 DEF P!LoadingIsReal
  <2>12. \A u \in Window :
           /\ screen'[u].at = screen[u].at /\ screen'[u].latest = screen[u].latest
           /\ screen'[u].query = screen[u].query
           /\ screen'[u].loading => screen[u].loading
    BY <2>5, <2>6, <2>8
  <2> QED  BY <1>3, <1>5, <2>8, <2>10, <2>11, <2>12, SideHolds
<1> QED  BY <1>6, <1>7

\* One tab's rows change while it awaits what it awaited.
LEMMA RowsChange ==
  ASSUME BrowseInv, P!Assumptions, NEW w \in Window, NEW v \in P!TabState,
         screen' = [screen EXCEPT ![w] = v], v.at = screen[w].at, v.latest = screen[w].latest,
         v.query = screen[w].query, v.loading = screen[w].loading,
         ~v.loading /\ ~v.error /\ ~v.mixed => v.rows \subseteq {v.query},
         UNCHANGED <<token, issued, since, ended, bystander>>, calls' \subseteq P!Call,
         \A d \in calls' : d \in calls \/ (d.kind \notin {"me", "list"} /\ d.answer # "session"),
         \A d \in calls : d.kind = "list" => d \in calls'
  PROVE  BrowseInv'
<1>1. PageType /\ P!RowsOfTheSearch /\ P!LoadingIsReal
  BY DEF BrowseInv
<1>2. SessionTypes /\ P!OnlyDeadSessionsEnd' /\ since' >= since
  BY SessionStands
<1>3. /\ screen' \in [Window -> P!TabState] /\ screen'[w] = v
      /\ \A u \in Window \ {w} : screen'[u] = screen[u]
  BY <1>1, ScreenSet
<1>4. P!RowsOfTheSearch'
  BY <1>1, <1>3 DEF P!RowsOfTheSearch
<1>5. \A u \in Window :
        /\ screen'[u].at = screen[u].at /\ screen'[u].latest = screen[u].latest
        /\ screen'[u].query = screen[u].query
        /\ screen'[u].loading => screen[u].loading
  BY <1>3
<1>6. P!LoadingIsReal'
  BY <1>1, <1>5 DEF P!LoadingIsReal
<1> QED  BY <1>2, <1>3, <1>4, <1>5, <1>6, SideHolds

LEMMA MoreArrivesHolds ==
  ASSUME BrowseInv, P!Assumptions, NEW c \in calls, P!MoreArrives(c)
  PROVE  BrowseInv'
<1>1. PageType /\ P!RowsOfTheSearch
  BY DEF BrowseInv
<1>2. /\ c.kind = "more" /\ calls' = calls \ {c} /\ screen' = P!MoreListed(c)
      /\ UNCHANGED <<token, issued, since, ended, bystander>>
  BY DEF P!MoreArrives, P!Arrived, P!Session
<1>3. PICK w \in Window : w = c.tab
  BY <1>1, CallIs
<1>4. screen[w] \in P!TabState /\ c.query \in Thing /\ screen[w].rows \in SUBSET Thing
  BY <1>1, <1>3, CallIs DEF PageType, P!TabState
<1>5. PICK f : f = FALSE
  OBVIOUS
<1>6. f \in BOOLEAN
  BY <1>5
<1>7. PICK m : m = (screen[w].mixed \/ c.query # screen[w].query \/ screen[w].loading)
  OBVIOUS
<1>8. m \in BOOLEAN
  BY <1>7
<1>9. PICK rs : rs = screen[w].rows \cup {c.query}
  OBVIOUS
<1>10. rs \in SUBSET Thing
  BY <1>4, <1>9
<1>11. PICK v : v = IF c.answer = "ok" THEN [screen[w] EXCEPT !.more = f, !.rows = rs, !.mixed = m]
                    ELSE [screen[w] EXCEPT !.more = f]
  OBVIOUS
<1>12. screen' = [screen EXCEPT ![w] = v]
  <2>1. CASE c.answer = "ok"
    <3>1. screen' = [screen EXCEPT ![w] =
            [screen[w] EXCEPT !.more = FALSE, !.rows = screen[w].rows \cup {c.query},
               !.mixed = screen[w].mixed \/ c.query # screen[w].query \/ screen[w].loading]]
      BY <1>2, <1>3, <2>1 DEF P!MoreListed
    <3>2. screen' = [screen EXCEPT ![w] = [screen[w] EXCEPT !.more = f, !.rows = rs, !.mixed = m]]
      BY <1>5, <1>7, <1>9, <3>1
    <3> QED  BY <1>11, <2>1, <3>2
  <2>2. CASE c.answer # "ok"
    BY <1>2, <1>3, <1>5, <1>11, <2>2 DEF P!MoreListed
  <2> QED  BY <2>1, <2>2
<1>13. /\ v \in P!TabState /\ v.at = screen[w].at /\ v.latest = screen[w].latest
       /\ v.query = screen[w].query /\ v.loading = screen[w].loading /\ v.error = screen[w].error
       /\ \/ v.rows = rs /\ v.mixed = m
          \/ v.rows = screen[w].rows /\ v.mixed = screen[w].mixed
  <2>1. CASE c.answer = "ok"
    <3>1. v = [screen[w] EXCEPT !.more = f, !.rows = rs, !.mixed = m]
      BY <1>11, <2>1
    <3> QED  BY <1>4, <1>6, <1>8, <1>10, <3>1 DEF P!TabState
  <2>2. CASE c.answer # "ok"
    <3>1. v = [screen[w] EXCEPT !.more = f]
      BY <1>11, <2>2
    <3> QED  BY <1>4, <1>6, <3>1 DEF P!TabState
  <2> QED  BY <2>1, <2>2
<1>14. ASSUME ~v.loading, ~v.error, ~v.mixed PROVE v.rows \subseteq {v.query}
  <2>1. CASE v.rows = screen[w].rows /\ v.mixed = screen[w].mixed
    BY <1>1, <1>13, <1>14, <2>1 DEF P!RowsOfTheSearch
  <2>2. CASE v.rows = rs /\ v.mixed = m
    <3>1. ~screen[w].mixed /\ c.query = screen[w].query /\ ~screen[w].loading
      BY <1>7, <1>14, <2>2
    <3>2. screen[w].rows \subseteq {screen[w].query}
      BY <1>1, <1>13, <1>14, <3>1 DEF P!RowsOfTheSearch
    <3> QED  BY <1>9, <1>13, <2>2, <3>1, <3>2
  <2> QED  BY <1>13, <2>1, <2>2
<1>15. calls' \subseteq P!Call /\ (\A d \in calls' : d \in calls)
       /\ \A d \in calls : d.kind = "list" => d \in calls'
  BY <1>1, <1>2 DEF PageType
<1> QED  BY <1>2, <1>12, <1>13, <1>14, <1>15, RowsChange

LEMMA ShowMoreHolds ==
  ASSUME BrowseInv, P!Assumptions, NEW w \in Window, P!ShowMore(w)
  PROVE  BrowseInv'
<1>1. PageType /\ P!RowsOfTheSearch
  BY DEF BrowseInv
<1>2. UNCHANGED <<token, issued, since, ended, bystander>>
  BY DEF P!ShowMore, P!Session
<1>3. screen[w] \in P!TabState /\ screen[w].query \in Thing
  BY <1>1 DEF PageType, P!TabState
<1>4. PICK t : t = TRUE
  OBVIOUS
<1>5. t \in BOOLEAN
  BY <1>4
<1>6. PICK v : v = [screen[w] EXCEPT !.more = t]
  OBVIOUS
<1>7. screen' = [screen EXCEPT ![w] = v]
  BY <1>1, <1>4, <1>6 DEF P!ShowMore, PageType
<1>8. /\ v \in P!TabState /\ v.at = screen[w].at /\ v.latest = screen[w].latest
      /\ v.query = screen[w].query /\ v.loading = screen[w].loading /\ v.error = screen[w].error
      /\ v.rows = screen[w].rows /\ v.mixed = screen[w].mixed
  BY <1>3, <1>5, <1>6 DEF P!TabState
<1>9. PICK a : a = P!Ask(w, "more", 0, screen[w].query)
  OBVIOUS
<1>10. a \in P!Call /\ a.kind = "more" /\ a.answer = "none"
  <2>1. "more" \in P!Kind
    BY DEF P!Kind
  <2> QED  BY <1>1, <1>3, <1>9, <2>1, AskIs, BrowseConstants
<1>11. calls' = calls \cup {a}
  BY <1>9 DEF P!ShowMore
<1>12. ~v.loading /\ ~v.error /\ ~v.mixed => v.rows \subseteq {v.query}
  BY <1>1, <1>8 DEF P!RowsOfTheSearch
<1>13. /\ calls' \subseteq P!Call /\ \A d \in calls : d.kind = "list" => d \in calls'
       /\ \A d \in calls' : d \in calls \/ (d.kind \notin {"me", "list"} /\ d.answer # "session")
  BY <1>1, <1>10, <1>11 DEF PageType
<1> QED  BY <1>2, <1>7, <1>8, <1>12, <1>13, RowsChange

\* What is asked for or answered beside the list.
LEMMA BesideHolds ==
  ASSUME BrowseInv, P!Assumptions, SessionTypes, P!OnlyDeadSessionsEnd', since' >= since,
         UNCHANGED screen, calls' \subseteq P!Call,
         \A d \in calls' : d \in calls \/ (d.kind \notin {"me", "list"} /\ d.answer # "session"),
         \A d \in calls : d.kind = "list" => d \in calls'
  PROVE  BrowseInv'
<1>1. /\ P!RowsOfTheSearch' /\ P!LoadingIsReal' /\ screen' \in [Window -> P!TabState]
      /\ \A u \in Window :
           /\ screen'[u].at = screen[u].at /\ screen'[u].latest = screen[u].latest
           /\ screen'[u].query = screen[u].query
           /\ screen'[u].loading => screen[u].loading
  BY RowsStand
<1> QED  BY <1>1, SideHolds

LEMMA AsksHold ==
  ASSUME BrowseInv, P!Assumptions, NEW w \in Window, P!ExportCsv(w) \/ P!ChangePassword(w)
  PROVE  BrowseInv'
<1>1. PageType
  BY DEF BrowseInv
<1>2. PICK kind \in {"export", "password"} : calls' = calls \cup {P!Ask(w, kind, 0, P!FirstSearch)}
  BY DEF P!ExportCsv, P!ChangePassword
<1>3. UNCHANGED <<token, issued, since, ended, bystander, screen>>
  BY DEF P!ExportCsv, P!ChangePassword, P!Session
<1>4. PICK a : a = P!Ask(w, kind, 0, P!FirstSearch)
  OBVIOUS
<1>5. a \in P!Call /\ a.kind \in {"export", "password"} /\ a.answer = "none"
  <2>1. kind \in P!Kind
    BY <1>2 DEF P!Kind
  <2> QED  BY <1>1, <1>2, <1>4, <2>1, AskIs, BrowseConstants
<1>6. SessionTypes /\ P!OnlyDeadSessionsEnd' /\ since' >= since /\ UNCHANGED screen
  BY <1>3, SessionStands
<1>7. /\ calls' \subseteq P!Call /\ \A d \in calls : d.kind = "list" => d \in calls'
      /\ \A d \in calls' : d \in calls \/ (d.kind \notin {"me", "list"} /\ d.answer # "session")
  BY <1>1, <1>2, <1>4, <1>5 DEF PageType
<1> QED  BY <1>6, <1>7, BesideHolds

LEMMA OthersHold ==
  ASSUME BrowseInv, P!Assumptions, NEW c \in calls, P!OtherArrives(c) \/ P!PasswordChanged(c)
  PROVE  BrowseInv'
<1>1. PageType /\ P!OnlyDeadSessionsEnd
  BY DEF BrowseInv
<1>2. /\ c.kind # "list" /\ calls' = calls \ {c} /\ token' \in {token, c.session}
      /\ UNCHANGED <<issued, since, ended, bystander, screen>>
  BY DEF P!OtherArrives, P!PasswordChanged, P!Arrived, P!Session
<1>3. SessionTypes /\ since' >= since
  BY <1>1, <1>2, CallIs DEF PageType, SessionTypes
<1>4. P!OnlyDeadSessionsEnd'
  BY <1>1, <1>2 DEF P!OnlyDeadSessionsEnd
<1>5. /\ calls' \subseteq P!Call /\ (\A d \in calls' : d \in calls)
      /\ \A d \in calls : d.kind = "list" => d \in calls'
  BY <1>1, <1>2 DEF PageType
<1> QED  BY <1>2, <1>3, <1>4, <1>5, BesideHolds

LEMMA BrowseMoves == P!Assumptions /\ BrowseInv /\ P!Next => BrowseInv'
<1> SUFFICES ASSUME P!Assumptions, BrowseInv, P!Next PROVE BrowseInv'  OBVIOUS
<1>1. CASE \E w \in Window :
             \/ P!SignIn(w) \/ P!LogOut(w) \/ P!FirstLoad(w)
             \/ \E shows \in P!Listing \cup {"settings"} : P!OpenPage(w, shows)
             \/ \E q \in Thing :
                  P!FilterCalls(w, q) \/ P!SearchCustomers(w, q) \/ P!SearchBookings(w, q)
             \/ P!SavedBooking(w) \/ P!ShowMore(w) \/ P!ExportCsv(w) \/ P!ChangePassword(w)
  BY <1>1, SignInHolds, LogOutHolds, OpenPageHolds, ListsHold, ShowMoreHolds, AsksHold
<1>2. CASE \E c \in calls :
             \/ P!Serve(c) \/ P!TimeOut(c) \/ P!EndSession(c) \/ P!Checked(c)
             \/ P!ListArrives(c) \/ P!MoreArrives(c) \/ P!OtherArrives(c) \/ P!PasswordChanged(c)
  BY <1>2, ServeHolds, EndSessionHolds, CheckedHolds, ListArrivesHolds, MoreArrivesHolds,
     OthersHold
<1>3. CASE P!EndedElsewhere
  BY <1>3, EndedElsewhereHolds
<1> QED  BY <1>1, <1>2, <1>3 DEF P!Next

LEMMA BrowseStands == BrowseInv /\ UNCHANGED browsing => BrowseInv'
<1> SUFFICES ASSUME BrowseInv, UNCHANGED browsing PROVE BrowseInv'  OBVIOUS
<1>1. UNCHANGED <<token, issued, since, screen, calls, ended, bystander>>
  BY DEF browsing
<1>2. PageType'
  BY <1>1 DEF BrowseInv, PageType
<1>3. DeadInv' /\ ListInv' /\ CheckInv' /\ AwayInv'
  BY <1>1 DEF BrowseInv, DeadInv, ListInv, CheckInv, AwayInv
<1>4. P!RowsOfTheSearch' /\ P!LoadingIsReal' /\ P!OnlyDeadSessionsEnd'
  BY <1>1 DEF BrowseInv, P!RowsOfTheSearch, P!LoadingIsReal, P!OnlyDeadSessionsEnd
<1> QED  BY <1>2, <1>3, <1>4 DEF BrowseInv

-----------------------------------------------------------------------------
(* The parts together.                                                     *)

\* The part that is looked at keeps its invariant.
OfficeInv ==
  /\ part = "entering" => EnterInv
  /\ part = "signing" => SignInv
  /\ part = "closing" => CloseInv
  /\ part = "stocking" => StockInv
  /\ part = "teaching" => TeachInv
  /\ part = "guarding" => GuardInv
  /\ part = "showing" => DemoInv
  /\ part = "setting" => SetInv
  /\ part = "browsing" => BrowseInv
  /\ part = "starting" => GuideInv
  /\ part = "minding" => MindInv

LEMMA OfficeStarts == Init => OfficeInv
<1> SUFFICES ASSUME Init PROVE OfficeInv
  OBVIOUS
<1>1. part = "entering" => EnterInv
  BY Sane, EnterStarts DEF Init
<1>2. part = "signing" => SignInv
  BY Sane, SignStarts DEF Init
<1>3. part = "closing" => CloseInv
  BY Sane, CloseStarts DEF Init
<1>4. part = "stocking" => StockInv
  BY Sane, StockStarts DEF Init
<1>5. part = "teaching" => TeachInv
  BY Sane, TeachStarts DEF Init
<1>6. part = "guarding" => GuardInv
  BY Sane, GuardStarts DEF Init
<1>7. part = "showing" => DemoInv
  BY Sane, DemoStarts DEF Init
<1>8. part = "setting" => SetInv
  BY Sane, SetStarts DEF Init
<1>9. part = "browsing" => BrowseInv
  BY Sane, BrowseStarts DEF Init
<1>10. part = "starting" => GuideInv
  BY Sane, GuideStarts DEF Init
<1>11. part = "minding" => MindInv
  BY Sane, MindStarts DEF Init
<1> QED
  BY <1>1, <1>2, <1>3, <1>4, <1>5, <1>6, <1>7, <1>8, <1>9, <1>10, <1>11 DEF OfficeInv

LEMMA OfficeMoves == OfficeInv /\ Next => OfficeInv'
<1> SUFFICES ASSUME OfficeInv, Next PROVE OfficeInv'
  OBVIOUS
<1>0. part' = part
  BY DEF Next
<1>1. (part = "entering" => EnterInv)'
  BY <1>0, Sane, EnterMoves DEF OfficeInv, Next
<1>2. (part = "signing" => SignInv)'
  BY <1>0, Sane, SignMoves DEF OfficeInv, Next
<1>3. (part = "closing" => CloseInv)'
  BY <1>0, Sane, CloseMoves DEF OfficeInv, Next
<1>4. (part = "stocking" => StockInv)'
  BY <1>0, Sane, StockMoves DEF OfficeInv, Next
<1>5. (part = "teaching" => TeachInv)'
  BY <1>0, Sane, TeachMoves DEF OfficeInv, Next
<1>6. (part = "guarding" => GuardInv)'
  BY <1>0, Sane, GuardMoves DEF OfficeInv, Next
<1>7. (part = "showing" => DemoInv)'
  BY <1>0, Sane, DemoMoves DEF OfficeInv, Next
<1>8. (part = "setting" => SetInv)'
  BY <1>0, Sane, SetMoves DEF OfficeInv, Next
<1>9. (part = "browsing" => BrowseInv)'
  BY <1>0, Sane, BrowseMoves DEF OfficeInv, Next
<1>10. (part = "starting" => GuideInv)'
  BY <1>0, Sane, GuideMoves DEF OfficeInv, Next
<1>11. (part = "minding" => MindInv)'
  BY <1>0, Sane, MindMoves DEF OfficeInv, Next
<1> QED
  BY <1>1, <1>2, <1>3, <1>4, <1>5, <1>6, <1>7, <1>8, <1>9, <1>10, <1>11 DEF OfficeInv

LEMMA OfficeStands == OfficeInv /\ UNCHANGED everything => OfficeInv'
<1> SUFFICES ASSUME OfficeInv, UNCHANGED everything PROVE OfficeInv'
  OBVIOUS
<1>0. /\ part' = part /\ UNCHANGED entering /\ UNCHANGED signing /\ UNCHANGED closing
      /\ UNCHANGED stocking /\ UNCHANGED teaching /\ UNCHANGED guarding
      /\ UNCHANGED showing /\ UNCHANGED setting /\ UNCHANGED browsing
      /\ UNCHANGED starting /\ UNCHANGED minding
  BY DEF everything
<1>1. (part = "entering" => EnterInv)'
  BY <1>0, EnterStands DEF OfficeInv
<1>2. (part = "signing" => SignInv)'
  BY <1>0, SignStands DEF OfficeInv
<1>3. (part = "closing" => CloseInv)'
  BY <1>0, CloseStands DEF OfficeInv
<1>4. (part = "stocking" => StockInv)'
  BY <1>0, StockStands DEF OfficeInv
<1>5. (part = "teaching" => TeachInv)'
  BY <1>0, TeachStands DEF OfficeInv
<1>6. (part = "guarding" => GuardInv)'
  BY <1>0, GuardStands DEF OfficeInv
<1>7. (part = "showing" => DemoInv)'
  BY <1>0, DemoStands DEF OfficeInv
<1>8. (part = "setting" => SetInv)'
  BY <1>0, SetStands DEF OfficeInv
<1>9. (part = "browsing" => BrowseInv)'
  BY <1>0, BrowseStands DEF OfficeInv
<1>10. (part = "starting" => GuideInv)'
  BY <1>0, GuideStands DEF OfficeInv
<1>11. (part = "minding" => MindInv)'
  BY <1>0, MindStands DEF OfficeInv
<1> QED
  BY <1>1, <1>2, <1>3, <1>4, <1>5, <1>6, <1>7, <1>8, <1>9, <1>10, <1>11 DEF OfficeInv

LEMMA OfficeIsInvariant == Spec => []OfficeInv
<1>1. OfficeInv /\ [Next]_everything => OfficeInv'
  BY OfficeMoves, OfficeStands
<1> QED
  BY OfficeStarts, <1>1, PTL DEF Spec

-----------------------------------------------------------------------------
(* Whatever the members, requests, windows and calls of the business's and *)
(* the platform's side do, and in whatever order, each part's state keeps  *)
(* its shape: no counter leaves its bounds, and a request that reached a   *)
(* step carries what that step of its handler needs.                       *)
THEOREM PartsKeepShape == Spec => []Types
<1>1. OfficeInv => Types
  <2> SUFFICES ASSUME OfficeInv PROVE Types
    OBVIOUS
  <2>1. part = "entering" => M!TypeOK
    BY DEF OfficeInv, EnterInv, EnterType
  <2>2. part = "signing" => N!TypeOK
    BY DEF OfficeInv, SignInv
  <2>3. part = "closing" => A!TypeOK
    BY DEF OfficeInv, CloseInv
  <2>4. part = "stocking" => C!TypeOK
    BY DEF OfficeInv, StockInv
  <2>5. part = "teaching" => K!TypeOK
    BY DEF OfficeInv, TeachInv
  <2>6. part = "guarding" => L!TypeOK
    BY Sane, GuardPromises DEF OfficeInv
  <2>7. part = "showing" => D!TypeOK
    BY Sane, DemoPromises DEF OfficeInv
  <2>8. part = "setting" => S!TypeOK
    BY DEF OfficeInv, SetInv
  <2>9. part = "browsing" => P!TypeOK
    BY Sane, BrowsePromises DEF OfficeInv
  <2>10. part = "starting" => O!TypeOK
    BY DEF OfficeInv, GuideInv
  <2>11. part = "minding" => B!TypeOK
    BY DEF OfficeInv, MindInv
  <2> QED
    BY <2>1, <2>2, <2>3, <2>4, <2>5, <2>6, <2>7, <2>8, <2>9, <2>10, <2>11 DEF Types
<1> QED
  BY OfficeIsInvariant, <1>1, PTL

(* A new password ends the sessions opened with the one before, an invite  *)
(* is accepted once and brings back nobody suspended since, unless the     *)
(* suspension came in the middle of the acceptance; the authenticator that *)
(* is asked for is one its owner has shown; the counters of wrong          *)
(* passwords let no more tries through than the limit, send one notice of  *)
(* a lock, and hold only wrong tries against an address; a list shows rows *)
(* of the search it names, one that is awaited is under way, and only a    *)
(* session that is over is ended in the browser. Each with the exception   *)
(* its definition names: two acceptances or two first tries at once, more  *)
(* rows of an earlier search, the answer to a request of an ended session  *)
(* (auth.js, loginHelpers.js, rateLimit.js, routes/team.js,                *)
(* routes/acceptInvite.js, useApi.js, lib/api.js).                         *)
THEOREM AccessIsKept == Spec => []AccessHolds
<1>1. OfficeInv => AccessHolds
  <2> SUFFICES ASSUME OfficeInv PROVE AccessHolds
    OBVIOUS
  <2>1. part = "entering" => M!OldSessionsEnd /\ M!InviteTakenOnce /\ M!ProvedAuthenticator
    BY Sane, EnterPromises DEF OfficeInv
  <2>2. part = "guarding" => L!TriesAreLimited /\ L!ToldOnce /\ L!OnlyWrongOnesCount
    BY Sane, GuardPromises DEF OfficeInv
  <2>3. part = "browsing" => P!RowsOfTheSearch /\ P!LoadingIsReal /\ P!OnlyDeadSessionsEnd
    BY Sane, BrowsePromises DEF OfficeInv
  <2> QED
    BY <2>1, <2>2, <2>3 DEF AccessHolds
<1> QED
  BY OfficeIsInvariant, <1>1, PTL

(* However sign-ups cross, each leaves a whole account or nothing, unless  *)
(* it was cut off; a person's suspension is ended by no payment, closing   *)
(* or reopening, one number is paid for, and of a deleted account nothing  *)
(* is left but what was being written meanwhile; a demo row can be reached *)
(* from a marked business and is gone after a removal, unless two runs     *)
(* crossed, and no real business loses a row whoever crosses whom; a       *)
(* business went live with everything required, unless a service was       *)
(* deleted meanwhile, the guide shows what is stored, and whoever asks for *)
(* test calls from wherever, no more ring than a day's limit and those     *)
(* whose try a crossing first try wrote over (routes/signup.js,            *)
(* routes/settings.js, routes/platform.js, routes/phoneNumber.js,          *)
(* demoData.js, routes/onboarding.js, rateLimit.js).                       *)
THEOREM AccountsAreKept == Spec => []AccountsHold
<1>1. OfficeInv => AccountsHold
  <2> SUFFICES ASSUME OfficeInv PROVE AccountsHold
    OBVIOUS
  <2>1. part = "signing" => N!WholeAccounts
    BY SignPromise DEF OfficeInv
  <2>2. part = "closing" => A!HoldStands /\ A!NumberPaidOnce /\ A!NothingLeft
    BY ClosePromises DEF OfficeInv
  <2>3. part = "showing" => D!Reachable /\ D!RemovedIsGone /\ D!RealStays
    BY Sane, DemoPromises DEF OfficeInv
  <2>4. part = "starting" => O!LiveWasReady /\ O!StatusIsStored /\ O!TestCallsAreFew
    BY Sane, GuidePromises DEF OfficeInv
  <2> QED
    BY <2>1, <2>2, <2>3, <2>4 DEF AccountsHold
<1> QED
  BY OfficeIsInvariant, <1>1, PTL

(* Who will come finds the service and the person booked, and nobody is    *)
(* booked with somebody who is away, unless a deletion or time off crossed *)
(* a request in flight or nobody asked for what is offered (an override, a *)
(* visit of the past moved by the desk to a day to come, a move by the     *)
(* link of a confirmation or by phone); the calendar draws a booking where it *)
(* is stored as soon as nothing of it is under way and it did not change   *)
(* behind the calendar's back, and what the form sends is a time of the    *)
(* day it shows, unless it was picked from the list of another day         *)
(* (routes/services.js, routes/team.js, bookingService.js,                 *)
(* routes/customerPortal.js, routes/myBooking.js, voice/tools.js;          *)
(* calendar/page.jsx, BookingModal.jsx).                                   *)
THEOREM CatalogIsKept == Spec => []CatalogHolds
<1>1. OfficeInv => CatalogHolds
  <2> SUFFICES ASSUME OfficeInv PROVE CatalogHolds
    OBVIOUS
  <2>1. part = "stocking" => C!NobodyOrphaned /\ C!NobodyAway
    BY DEF OfficeInv, StockInv
  <2>2. part = "minding" => B!ShownIsStored /\ B!PickedAsChosen
    BY MindPromise DEF OfficeInv, MindInv
  <2> QED
    BY <2>1, <2>2 DEF CatalogHolds
<1> QED
  BY OfficeIsInvariant, <1>1, PTL

(* Whatever stops half way, what calls use is in the history one can go    *)
(* back to, and a number of the history names one content unless two       *)
(* published at once; what was typed and saved in a section of the         *)
(* settings stands until something else is saved there, whatever other     *)
(* sections save meanwhile, and the point on the map is that of the place  *)
(* beside it, however long its look-up took (routes/knowledge.js,          *)
(* routes/settings.js).                                                    *)
THEOREM KnowledgeIsKept == Spec => []KnowledgeHolds
<1>1. OfficeInv => KnowledgeHolds
  <2> SUFFICES ASSUME OfficeInv PROVE KnowledgeHolds
    OBVIOUS
  <2>1. part = "teaching" => K!LiveIsRecorded
    BY DEF OfficeInv, TeachInv
  <2>2. part = "setting" => S!EditsStand /\ S!PinIsOfThePlace
    BY DEF OfficeInv, SetInv
  <2> QED
    BY <2>1, <2>2 DEF KnowledgeHolds
<1> QED
  BY OfficeIsInvariant, <1>1, PTL
===============================================================================
