-------------------------------- MODULE Demo --------------------------------
(***************************************************************************)
(* The demo businesses (services/demoData.js): made-up companies with      *)
(* months of rows, added and removed from the platform's console           *)
(* (/demo-data of routes/platform.js, DemoDataCard.jsx), which does one    *)
(* thing at a time, and from the command line (scripts/demo/seedDemo.mjs), *)
(* which does not know of the console.                                     *)
(*                                                                         *)
(* A row is a collection and the business it belongs to; a demo business   *)
(* is the n-th to be made of its name.  Of the collections with a tenant's *)
(* rows a few stand for all.                                               *)
(***************************************************************************)
EXTENDS Integers, Sequences, FiniteSets

CONSTANTS
  Process,     \* processes that add and remove: a server's console, a script
  Real,        \* a business nobody made up
  Nobody,      \* of a row without a business
  MaxRuns      \* bound: additions and removals begun

\* The flagship, and the one that has not finished its setup; the others in between
\* are like the first, with less.
Name == {"glow", "sunrise"}

Made == [name : Name, nth : 1..MaxRuns]

Assumptions ==
  MaxRuns \in Nat \ {0} /\ Real # Nobody /\ Real \notin Made /\ Nobody \notin Made

Collection ==
  {"businesses", "admins", "bookings", "call_logs", "audit_logs",
   "knowledge_versions", "platform_admins", "leads"}

Row == Collection \X (Made \cup {Real, Nobody})

VARIABLES
  rows,     \* the database
  begun,    \* additions and removals so far: each makes new ids
  run,      \* what each process is doing
  crossed,  \* history: two processes at once, or a visitor during a removal
  emptied   \* history: nothing was added since a removal came to its end

vars == <<rows, begun, run, crossed, emptied>>

Idle == [todo |-> <<>>, nth |-> 0, ids |-> {}]

Businesses == {r[2] : r \in {s \in rows : s[1] = "businesses"}}
Flagged == Businesses \ {Real}

Busy(p) == run[p].todo # <<>>

-----------------------------------------------------------------------------
(* What a removal and an addition consist of, write by write.                *)

Delete(c) == [do |-> "delete", of |-> c, at |-> "sunrise"]
Insert(c, name) == [do |-> "insert", of |-> c, at |-> name]
ReadIds == [do |-> "read", of |-> "businesses", at |-> "sunrise"]

BusinessesFirst ==  \* mutant: the flag goes before what it leads to
  <<ReadIds, Delete("businesses"), Delete("bookings"), Delete("call_logs"),
    Delete("audit_logs"), Delete("admins"), Delete("platform_admins"), Delete("leads")>>

Removal ==
  <<ReadIds, Delete("bookings"), Delete("call_logs"), Delete("audit_logs"),
    Delete("admins"), Delete("businesses"), Delete("platform_admins"), Delete("leads")>>

\* The company and its owner.
Studio == <<Insert("businesses", "glow"), Insert("admins", "glow")>>

\* Its appointments, the calls that made some of them, and what its owner did.
Visits == <<Insert("bookings", "glow")>>
Calls == <<Insert("call_logs", "glow")>>
Trail == <<Insert("audit_logs", "glow")>>

Flagship == Studio \o Visits \o Calls \o Trail

Newcomer == <<Insert("businesses", "sunrise"), Insert("admins", "sunrise")>>

Addition == Removal \o Flagship \o Newcomer \o <<Insert("leads", "sunrise")>>

-----------------------------------------------------------------------------
\* The console answers 409 while it is busy; a script is one run.  Bound: after two
\* runs that crossed, no third begins.
Begin(p, todo) ==
  /\ ~Busy(p) /\ ~crossed /\ begun < MaxRuns /\ begun' = begun + 1
  /\ run' = [run EXCEPT ![p] = [todo |-> todo, nth |-> begun + 1, ids |-> {}]]
  /\ crossed' = (crossed \/ \E q \in Process : Busy(q))
  /\ UNCHANGED rows

\* POST /demo-data, npm run demo:seed (which makes a platform admin last).
Add(p, script) ==
  /\ Begin(p, Addition \o
       (IF script THEN <<Insert("platform_admins", "sunrise")>> ELSE <<>>))
  /\ emptied' = FALSE

\* DELETE /demo-data, npm run demo:remove.
Remove(p) == Begin(p, Removal) /\ UNCHANGED emptied

\* What a delete takes: what the ids read first lead to, or what is marked itself.
Gone(p, c) ==
  CASE c = "businesses" -> {r \in rows : r[1] = c /\ r[2] \in Flagged}
    [] c \in {"leads", "platform_admins"} -> {<<c, Nobody>>}
    [] OTHER -> {<<c, b>> : b \in run[p].ids}

Left(p) == [run EXCEPT ![p].todo = Tail(@)]

Write(p) ==
  /\ Busy(p)
  /\ LET step == Head(run[p].todo)
     IN \/ /\ step.do = "read"
           /\ run' = [Left(p) EXCEPT ![p].ids = Flagged]
           /\ UNCHANGED rows
        \/ /\ step.do = "delete"
           /\ rows' = rows \ Gone(p, step.of)
           /\ run' = Left(p)
  /\ emptied' = (emptied \/ run[p].todo = <<Delete("leads")>>)
  /\ UNCHANGED <<begun, crossed>>

Owner(p, step) ==
  IF step.of \in {"leads", "platform_admins"} THEN Nobody
  ELSE [name |-> step.at, nth |-> run[p].nth]

\* The unique indexes on a link's name and on an e-mail.
Taken(step) ==
  /\ step.of \in {"businesses", "admins", "platform_admins"}
  /\ \E r \in rows : r[1] = step.of /\ (r[2] = Nobody \/ (r[2] # Real /\ r[2].name = step.at))

\* The owner is looked up before what they are said to have done is written down.
Missing(p, step) ==
  step.of = "audit_logs" /\ <<"admins", Owner(p, step)>> \notin rows

\* An insert that fails ends the run: what was written stays.
Store(p) ==
  /\ Busy(p) /\ Head(run[p].todo).do = "insert"
  /\ LET step == Head(run[p].todo)
     IN IF Taken(step) \/ Missing(p, step)
        THEN run' = [run EXCEPT ![p] = Idle] /\ UNCHANGED rows
        ELSE /\ rows' = rows \cup {<<step.of, Owner(p, step)>>}
             /\ run' = Left(p)
  /\ UNCHANGED <<begun, crossed, emptied>>

\* The process stops, or the database fails.
Stop(p) ==
  /\ Busy(p) /\ run' = [run EXCEPT ![p] = Idle]
  /\ UNCHANGED <<rows, begun, crossed, emptied>>

\* Somebody uses a demo business like any other: books on its page, publishes what
\* its agent knows.
Use(b, c) ==
  /\ b \in Flagged /\ rows' = rows \cup {<<c, b>>}
  /\ crossed' = (crossed \/ \E p \in Process : Busy(p))
  /\ UNCHANGED <<begun, run, emptied>>

\* What a real business has.
Init ==
  /\ rows = {<<c, Real>> : c \in {"businesses", "admins", "bookings"}}
  /\ begun = 0 /\ run = [p \in Process |-> Idle]
  /\ crossed = FALSE /\ emptied = TRUE

Next ==
  \/ \E p \in Process :
       \/ \E script \in BOOLEAN : Add(p, script)
       \/ Remove(p) \/ Write(p) \/ Store(p) \/ Stop(p)
  \/ \E b \in Flagged, c \in {"bookings", "knowledge_versions"} :
       b.name = "glow" /\ Use(b, c)

Spec == Init /\ [][Next]_vars

-----------------------------------------------------------------------------
(* Shapes of the rows and of what each process is doing.                     *)
TypeOK ==
  /\ rows \subseteq Row
  /\ begun \in 0..MaxRuns /\ crossed \in BOOLEAN /\ emptied \in BOOLEAN
  /\ \A p \in Process :
       /\ run[p].nth \in 0..MaxRuns /\ run[p].ids \subseteq Made
       /\ \A k \in DOMAIN run[p].todo : run[p].todo[k].of \in Collection

\* What removeDemoData has no delete for.
Kept == "knowledge_versions"

(* Wherever a run stops, and unless two processes work at once, every row    *)
(* can be reached from a business that is marked, so the next removal finds  *)
(* it.                                                                       *)
Reachable ==
  ~crossed => \A r \in rows : r[1] # Kept => r[2] \in Businesses \cup {Nobody}

(* After a removal nothing made up is left, though runs before it stopped    *)
(* half way and visitors used what was there; but what an agent was taught   *)
(* is left.                                                                  *)
RemovedIsGone ==
  emptied /\ ~crossed => \A r \in rows : r[1] # Kept => r[2] = Real

(* A real business keeps every row, whoever crosses whom.                    *)
RealStays ==
  {<<c, Real>> : c \in {"businesses", "admins", "bookings"}} \subseteq rows
=============================================================================
