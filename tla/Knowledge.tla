----------------------------- MODULE Knowledge -----------------------------
(***************************************************************************)
(* What the voice agent knows: a draft, what calls use, and the versions   *)
(* published so far (routes/knowledge.js), edited on pages that may be     *)
(* open twice (components/settings/KnowledgeBaseSection.jsx).              *)
(*                                                                         *)
(* A content is a number: 0 for the questions an account began with, then  *)
(* each edit a new one.                                                    *)
(***************************************************************************)
EXTENDS Integers, FiniteSets

CONSTANTS
  Request,     \* requests in flight; each has a page of its own
  MaxEdits,    \* bound: edits
  MaxVersions  \* bound: versions published

Assumptions == MaxEdits \in Nat /\ MaxVersions \in Nat

VARIABLES
  draft, live,  \* businesses.knowledge_draft, .knowledge
  versions,     \* knowledge_versions
  form,         \* the form of each page
  work,         \* the request of each page
  edits,
  crossed       \* history: two requests were publishing at the same time

store == <<draft, live, versions>>

vars == <<store, form, work, edits, crossed>>

Content == 0..MaxEdits

Version == [number : 1..MaxVersions, content : Content]

Idle == [pc |-> "idle"]

Work ==
  [pc : {"save", "draft", "target", "number", "insert", "update"}, content : Content,
   number : 0..MaxVersions]

Publishing(r) == work[r].pc \in {"number", "insert", "update"}

Goto(r, pc) == work' = [work EXCEPT ![r].pc = pc]

\* The page is loaded, at first and after every answer: what was typed is replaced.
Load(r) ==
  /\ work[r] = Idle /\ form[r] # draft
  /\ form' = [form EXCEPT ![r] = draft]
  /\ UNCHANGED <<store, work, edits, crossed>>

Edit(r) ==
  /\ edits < MaxEdits /\ edits' = edits + 1
  /\ form' = [form EXCEPT ![r] = edits + 1]
  /\ UNCHANGED <<store, work, crossed>>

\* Save draft: the form.  Publish: whatever the draft is by then.  Roll back: a number of
\* the list, which has the newest fifty.
Press(r) ==
  /\ work[r] = Idle
  /\ \/ work' = [work EXCEPT ![r] = [pc |-> "save", content |-> form[r], number |-> 0]]
     \/ work' = [work EXCEPT ![r] = [pc |-> "draft", content |-> 0, number |-> 0]]
     \/ \E v \in versions :
          work' = [work EXCEPT ![r] = [pc |-> "target", content |-> 0, number |-> v.number]]
  /\ UNCHANGED <<store, form, edits, crossed>>

SaveDraft(r) ==
  /\ work[r].pc = "save"
  /\ draft' = work[r].content /\ work' = [work EXCEPT ![r] = Idle]
  /\ UNCHANGED <<live, versions, form, edits, crossed>>

ReadDraft(r) ==
  /\ work[r].pc = "draft"
  /\ work' = [work EXCEPT ![r].pc = "number", ![r].content = draft]
  /\ crossed' = (crossed \/ \E q \in Request : Publishing(q))
  /\ UNCHANGED <<store, form, edits>>

\* findOne by number: any of them, if two have it.
ReadTarget(r) ==
  /\ work[r].pc = "target"
  /\ \E v \in versions :
       /\ v.number = work[r].number
       /\ work' = [work EXCEPT ![r].pc = "number", ![r].content = v.content]
  /\ crossed' = (crossed \/ \E q \in Request : Publishing(q))
  /\ UNCHANGED <<store, form, edits>>

Latest == CHOOSE n \in 0..MaxVersions :
            /\ \A v \in versions : v.number <= n
            /\ n = 0 \/ \E v \in versions : v.number = n

SameNumber == Latest  \* mutant: the number is not counted up
NextNumber == Latest + 1

ReadLatest(r) ==
  /\ work[r].pc = "number" /\ Latest < MaxVersions
  /\ work' = [work EXCEPT ![r].pc = "insert", ![r].number = NextNumber]
  /\ UNCHANGED <<store, form, edits, crossed>>

\* No index keeps two versions from one number.
InsertVersion(r) ==
  /\ work[r].pc = "insert"
  /\ versions' = versions \cup {[number |-> work[r].number, content |-> work[r].content]}
  /\ Goto(r, "update")
  /\ UNCHANGED <<draft, live, form, edits, crossed>>

FromInsert == {"insert", "update"}  \* mutant: what calls use is changed before it is recorded
Recorded == {"update"}

UpdateBusiness(r) ==
  /\ work[r].pc \in Recorded
  /\ live' = work[r].content /\ draft' = work[r].content
  /\ work' = [work EXCEPT ![r] = Idle]
  /\ UNCHANGED <<versions, form, edits, crossed>>

\* The server stops, the database fails.
Stop(r) ==
  /\ work[r] # Idle /\ work' = [work EXCEPT ![r] = Idle]
  /\ UNCHANGED <<store, form, edits, crossed>>

Init ==
  /\ draft = 0 /\ live = 0 /\ versions = {}
  /\ form = [r \in Request |-> 0] /\ work = [r \in Request |-> Idle]
  /\ edits = 0 /\ crossed = FALSE

Next ==
  \E r \in Request :
    \/ Load(r) \/ Edit(r) \/ Press(r) \/ SaveDraft(r) \/ ReadDraft(r) \/ ReadTarget(r)
    \/ ReadLatest(r) \/ InsertVersion(r) \/ UpdateBusiness(r) \/ Stop(r)

Spec == Init /\ [][Next]_vars

-----------------------------------------------------------------------------
(* Shapes of the contents, the versions and the requests.                    *)
TypeOK ==
  /\ draft \in Content /\ live \in Content /\ versions \subseteq Version
  /\ form \in [Request -> Content] /\ work \in [Request -> Work \cup {Idle}]
  /\ edits \in 0..MaxEdits /\ crossed \in BOOLEAN

(* Whatever stops half way, what calls use is in the history one can go back  *)
(* to, and a number of the history names one content unless two were          *)
(* publishing at the same time.                                               *)
LiveIsRecorded ==
  /\ live # 0 => \E v \in versions : v.content = live
  /\ ~crossed => \A v, w \in versions : v.number = w.number => v = w
=============================================================================
