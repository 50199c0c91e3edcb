---------------------------- MODULE PublicProofs ----------------------------
(***************************************************************************)
(* The promises of what a customer meets on the web, for any requests in   *)
(* flight, codes, tries, times and searches.  A behaviour stays in its     *)
(* part; each part has an inductive invariant of its own, that of the      *)
(* booking page is proved in BookPageProofs.                               *)
(***************************************************************************)
EXTENDS MCPublic, FiniteSetTheorems, TLAPS

-----------------------------------------------------------------------------
(* The directory.                                                          *)

Servers == {"blue", "green"}
Answers == [Actor -> D!Entry \cup {None}]

\* A load that no write crossed has read the businesses as they are.
ReadsCurrent == \A c \in searches : c.pc = "services" => c.crossed \/ c.shows = D!Found

\* The newest search asks for what the page shows as asked.
NewestAsks ==
  \A c \in searches :
    c.mine <= listing.latest /\ (c.mine = listing.latest => c.asked = listing.asked)

DirectoryInv ==
  /\ D!TypeOK /\ D!MemoryIsCurrent /\ ReadsCurrent /\ NewestAsks /\ D!SettledShowsAsked

LEMMA DirectoryStarts ==
  ASSUME D!Assumptions, D!Init PROVE DirectoryInv
<1>1. PICK q \in Actor : listing = [typed |-> q, asked |-> q, latest |-> 0, loading |-> TRUE,
                                    failed |-> FALSE, data |-> None]
  BY DEF D!Init
<1>2. /\ shop = [listed |-> TRUE, hidden |-> FALSE, active |-> TRUE, services |-> TRUE]
      /\ memory = [v \in Servers |-> [p \in Actor |-> None]]
      /\ change = [x \in Other |-> None] /\ searches = {}
  BY DEF D!Init, Servers
<1>3. listing \in D!PageState
  BY <1>1 DEF D!PageState, D!Assumptions
<1>4. D!TypeOK
  BY <1>2, <1>3 DEF D!TypeOK, D!Shop, Servers
<1>5. D!MemoryIsCurrent /\ ReadsCurrent /\ NewestAsks
  BY <1>2 DEF D!MemoryIsCurrent, ReadsCurrent, NewestAsks, Servers
<1>6. D!SettledShowsAsked
  BY <1>1 DEF D!SettledShowsAsked
<1> QED BY <1>4, <1>5, <1>6 DEF DirectoryInv

(* What a write does to the loads: they keep what they ask for.              *)
LEMMA CrossKeeps ==
  ASSUME NEW c \in D!Call
  PROVE  /\ D!Cross(c) \in D!Call
         /\ D!Cross(c).mine = c.mine /\ D!Cross(c).asked = c.asked /\ D!Cross(c).pc = c.pc
         /\ c.pc = "services" => D!Cross(c).crossed
<1> DEFINE x == c.crossed \/ c.pc \in {"services"}
<1>1. x \in BOOLEAN /\ (c.pc = "services" => x = TRUE)
  BY DEF D!Call
<1>2. D!Cross(c) = [c EXCEPT !.crossed = x]
  BY DEF D!Cross
<1> HIDE DEF x
<1> QED BY <1>1, <1>2 DEF D!Call

(* A memory that missed a change says so of every answer it keeps.           *)
LEMMA MissedMarks ==
  ASSUME NEW m \in Answers
  PROVE  /\ D!Missed(m) \in Answers
         /\ \A q \in Actor : D!Missed(m)[q] # None => D!Missed(m)[q].crossed
<1>1. D!Missed(m) = [q \in Actor |-> IF m[q] = None THEN None ELSE [m[q] EXCEPT !.crossed = TRUE]]
  BY DEF D!Missed
<1>2. ASSUME NEW q \in Actor
      PROVE  /\ D!Missed(m)[q] \in D!Entry \cup {None}
             /\ D!Missed(m)[q] # None => D!Missed(m)[q].crossed
  <2>1. CASE m[q] = None
    BY <1>1, <2>1
  <2>2. CASE m[q] # None
    <3>1. m[q] \in D!Entry /\ D!Missed(m)[q] = [m[q] EXCEPT !.crossed = TRUE]
      BY <1>1, <2>2 DEF Answers
    <3> QED BY <3>1 DEF D!Entry
  <2> QED BY <2>1, <2>2
<1> QED BY <1>1, <1>2 DEF Answers

(* One memory changes: the others stay as current as they were.              *)
LEMMA OneMemory ==
  ASSUME DirectoryInv, NEW v \in Servers, NEW m \in Answers,
         memory' = [memory EXCEPT ![v] = m], UNCHANGED shop,
         \A u \in Servers \ {v}, x \in Other : change[x] = u => change'[x] = u,
         \A q \in Actor : m[q] # None =>
           \/ m[q].shows = D!Listed \/ m[q].crossed
           \/ (\E x \in Other : change[x] = v) /\ UNCHANGED change
  PROVE  memory' \in [Servers -> Answers] /\ D!MemoryIsCurrent'
<1>1. memory \in [Servers -> Answers] /\ D!MemoryIsCurrent
  BY DEF DirectoryInv, D!TypeOK, Servers, Answers
<1>2. memory'[v] = m /\ \A u \in Servers \ {v} : memory'[u] = memory[u]
  BY <1>1
<1>3. D!Listed' = D!Listed
  BY DEF D!Listed, D!Found
<1>4. ASSUME NEW u \in Servers, NEW q \in Actor, memory'[u][q] # None
      PROVE  \/ memory'[u][q].shows = D!Listed \/ memory'[u][q].crossed
             \/ \E x \in Other : change'[x] = u
  <2>1. CASE u = v
    BY <1>2, <1>4, <2>1
  <2>2. CASE u # v
    <3>1. memory'[u][q] = memory[u][q]
      BY <1>2, <2>2
    <3>2. \/ memory[u][q].shows = D!Listed \/ memory[u][q].crossed
          \/ \E x \in Other : change[x] = u
      BY <1>1, <1>4, <3>1 DEF D!MemoryIsCurrent, Servers
    <3>3. \A x \in Other : change[x] = u => change'[x] = u
      BY <2>2
    <3> QED BY <3>1, <3>2, <3>3
  <2> QED BY <2>1, <2>2
<1> QED BY <1>1, <1>3, <1>4 DEF D!MemoryIsCurrent, Servers

LEMMA DirectoryStep ==
  ASSUME D!Assumptions, DirectoryInv, D!Next PROVE DirectoryInv'
<1> USE DEF DirectoryInv
<1>0. /\ shop \in D!Shop /\ memory \in [Servers -> Answers]
      /\ change \in [Other -> Servers \cup {None}] /\ searches \subseteq D!Call
      /\ listing \in D!PageState /\ None \notin Servers
  BY DEF D!TypeOK, D!Assumptions, Servers, Answers
<1>1. ASSUME NEW x \in Other, NEW v \in Servers, D!Write(x, v) PROVE DirectoryInv'
  <2>1. /\ change[x] = None /\ shop' \in D!Shop /\ change' = [change EXCEPT ![x] = v]
        /\ memory' = [u \in Servers |-> IF u = v THEN memory[u] ELSE D!Missed(memory[u])]
        /\ searches' = {D!Cross(c) : c \in searches} /\ UNCHANGED listing
    BY <1>1 DEF D!Write, Servers
  <2>2. change'[x] = v /\ change' \in [Other -> Servers \cup {None}]
    BY <1>0, <2>1
  <2>3. \A d \in searches' : \E c \in searches :
          d \in D!Call /\ d.mine = c.mine /\ d.asked = c.asked /\ (d.pc = "services" => d.crossed)
    BY <1>0, <2>1, CrossKeeps
  <2>4. \A u \in Servers : /\ memory'[u] \in Answers
                           /\ u # v => \A q \in Actor : memory'[u][q] # None => memory'[u][q].crossed
    BY <1>0, <2>1, MissedMarks
  <2>5. memory' \in [Servers -> Answers]
    BY <2>1, <2>4
  <2>6. D!TypeOK'
    BY <1>0, <2>1, <2>2, <2>3, <2>5 DEF D!TypeOK, Servers, Answers
  <2>7. D!MemoryIsCurrent'
    <3>1. ASSUME NEW u \in Servers, NEW q \in Actor, memory'[u][q] # None
          PROVE  memory'[u][q].crossed \/ \E y \in Other : change'[y] = u
      BY <2>2, <2>4, <3>1
    <3> QED BY <3>1 DEF D!MemoryIsCurrent, Servers
  <2>8. ReadsCurrent' /\ NewestAsks' /\ D!SettledShowsAsked'
    BY <2>1, <2>3 DEF ReadsCurrent, NewestAsks, D!SettledShowsAsked
  <2> QED BY <2>6, <2>7, <2>8
\* A change is over: the memory of its process is empty, or says that it missed it.
<1>2. ASSUME NEW x \in Other, D!Finish(x) \/ D!FinishBadly(x) PROVE DirectoryInv'
  <2>1. /\ change[x] # None /\ change' = [change EXCEPT ![x] = None]
        /\ UNCHANGED <<shop, searches, listing>>
    BY <1>2 DEF D!Finish, D!FinishBadly
  <2>2. PICK v \in Servers : change[x] = v
    BY <1>0, <2>1
  <2>3. PICK m \in Answers : /\ memory' = [memory EXCEPT ![v] = m]
                             /\ \A q \in Actor : m[q] # None => m[q].crossed
    <3>1. CASE D!Finish(x)
      <4> DEFINE m == [q \in Actor |-> None]
      <4>1. memory' = [memory EXCEPT ![v] = m]
        BY <2>2, <3>1 DEF D!Finish, D!Cleared
      <4>2. m \in Answers /\ \A q \in Actor : m[q] = None
        BY DEF Answers
      <4> QED BY <4>1, <4>2
    <3>2. CASE D!FinishBadly(x)
      <4>1. memory' = [memory EXCEPT ![v] = D!Missed(memory[v])]
        BY <2>2, <3>2 DEF D!FinishBadly
      <4>2. memory[v] \in Answers
        BY <1>0
      <4> QED BY <4>1, <4>2, MissedMarks
    <3> QED BY <1>2, <3>1, <3>2
  <2>4. \A u \in Servers \ {v}, y \in Other : change[y] = u => change'[y] = u
    BY <1>0, <2>1, <2>2
  <2>5. memory' \in [Servers -> Answers] /\ D!MemoryIsCurrent'
    BY <2>1, <2>3, <2>4, OneMemory
  <2>6. change' \in [Other -> Servers \cup {None}]
    BY <1>0, <2>1
  <2>7. D!TypeOK'
    BY <1>0, <2>1, <2>5, <2>6 DEF D!TypeOK, Servers, Answers
  <2>8. ReadsCurrent' /\ NewestAsks' /\ D!SettledShowsAsked'
    BY <2>1 DEF ReadsCurrent, NewestAsks, D!SettledShowsAsked, D!Found
  <2> QED BY <2>5, <2>7, <2>8
<1>3. ASSUME D!WriteElsewhere PROVE DirectoryInv'
  <2>1. /\ shop' = [shop EXCEPT !.active = ~shop.active]
        /\ memory' = [v \in Servers |-> D!Missed(memory[v])]
        /\ searches' = {D!Cross(c) : c \in searches} /\ UNCHANGED <<change, listing>>
    BY <1>3 DEF D!WriteElsewhere, Servers
  <2>2. shop' \in D!Shop
    BY <1>0, <2>1 DEF D!Shop
  <2>3. \A v \in Servers : /\ memory'[v] \in Answers
                           /\ \A q \in Actor : memory'[v][q] # None => memory'[v][q].crossed
    BY <1>0, <2>1, MissedMarks
  <2>4. \A d \in searches' : \E c \in searches :
          d \in D!Call /\ d.mine = c.mine /\ d.asked = c.asked /\ (d.pc = "services" => d.crossed)
    BY <1>0, <2>1, CrossKeeps
  <2>5. memory' \in [Servers -> Answers]
    BY <2>1, <2>3
  <2>6. D!TypeOK'
    BY <1>0, <2>1, <2>2, <2>4, <2>5 DEF D!TypeOK, Servers, Answers
  <2>7. D!MemoryIsCurrent'
    BY <2>3 DEF D!MemoryIsCurrent, Servers
  <2>8. ReadsCurrent' /\ NewestAsks' /\ D!SettledShowsAsked'
    BY <2>1, <2>4 DEF ReadsCurrent, NewestAsks, D!SettledShowsAsked
  <2> QED BY <2>6, <2>7, <2>8
<1>4. ASSUME NEW v \in Servers, D!Ask(v) PROVE DirectoryInv'
  <2> DEFINE new == [mine |-> listing.latest + 1, asked |-> listing.typed, at |-> v,
                     pc |-> "sent", shows |-> FALSE, crossed |-> FALSE]
  <2>1. /\ listing.latest < MaxAsks
        /\ listing' = [listing EXCEPT !.asked = listing.typed, !.latest = listing.latest + 1,
                                      !.loading = TRUE, !.failed = FALSE]
        /\ searches' = searches \cup {new} /\ UNCHANGED <<shop, memory, change>>
    BY <1>4 DEF D!Ask
  <2>2. listing.latest \in 0..MaxAsks /\ MaxAsks \in Nat /\ listing.typed \in Actor
    BY <1>0 DEF D!PageState, D!Assumptions
  <2>3. listing.latest + 1 \in 1..MaxAsks /\ listing.latest + 1 \in 0..MaxAsks
    BY <2>1, <2>2
  <2>4. new \in D!Call /\ new.mine = listing.latest + 1 /\ new.asked = listing.typed
        /\ new.pc = "sent"
    BY <2>2, <2>3 DEF D!Call, Servers
  <2> HIDE DEF new
  <2>5. /\ listing' \in D!PageState /\ listing'.asked = listing.typed
        /\ listing'.latest = listing.latest + 1 /\ listing'.loading = TRUE
    <3> DEFINE n == listing.latest + 1
    <3>1. n \in 0..MaxAsks
      BY <2>3
    <3> HIDE DEF n
    <3>2. listing' = [listing EXCEPT !.asked = listing.typed, !.latest = n,
                                      !.loading = TRUE, !.failed = FALSE]
      BY <2>1 DEF n
    <3>3. /\ listing' \in D!PageState /\ listing'.asked = listing.typed
          /\ listing'.latest = n /\ listing'.loading = TRUE
      BY <1>0, <2>2, <3>1, <3>2 DEF D!PageState
    <3> QED BY <3>3 DEF n
  <2>6. D!TypeOK'
    BY <1>0, <2>1, <2>4, <2>5 DEF D!TypeOK
  <2>7. D!MemoryIsCurrent' /\ ReadsCurrent' /\ D!SettledShowsAsked'
    BY <2>1, <2>4, <2>5
    DEF D!MemoryIsCurrent, ReadsCurrent, D!SettledShowsAsked, D!Listed, D!Found
  <2>8. NewestAsks'
    <3> SUFFICES ASSUME NEW c \in searches'
                 PROVE  /\ c.mine <= listing.latest + 1
                        /\ c.mine = listing.latest + 1 => c.asked = listing.typed
      BY <2>5 DEF NewestAsks
    <3>1. CASE c \in searches
      <4>1. c.mine \in Nat /\ c.mine <= listing.latest
        BY <1>0, <3>1 DEF NewestAsks, D!Call
      <4> QED BY <2>2, <4>1
    <3>2. CASE c = new
      BY <2>2, <2>4, <3>2
    <3> QED BY <2>1, <3>1, <3>2
  <2> QED BY <2>6, <2>7, <2>8
<1>5. ASSUME NEW v \in Servers, NEW q \in Actor, D!Forget(v, q) PROVE DirectoryInv'
  <2>1. /\ memory' = [memory EXCEPT ![v] = [memory[v] EXCEPT ![q] = None]]
        /\ memory[v] \in Answers /\ UNCHANGED <<shop, change, searches, listing>>
    BY <1>0, <1>5 DEF D!Forget
  <2>2. PICK m \in Answers : /\ memory' = [memory EXCEPT ![v] = m]
                             /\ \A p \in Actor : m[p] # None => m[p] = memory[v][p]
    <3> DEFINE e == [memory[v] EXCEPT ![q] = None]
    <3>1. e \in Answers /\ \A p \in Actor : e[p] # None => e[p] = memory[v][p]
      BY <2>1 DEF Answers
    <3> HIDE DEF e
    <3> QED BY <2>1, <3>1 DEF e
  <2>3. \A p \in Actor : m[p] # None =>
          \/ m[p].shows = D!Listed \/ m[p].crossed
          \/ \E x \in Other : change[x] = v
    BY <2>2 DEF D!MemoryIsCurrent, Servers
  <2>4. memory' = [memory EXCEPT ![v] = m] /\ UNCHANGED <<shop, change>>
    BY <2>1, <2>2
  <2>5. memory' \in [Servers -> Answers] /\ D!MemoryIsCurrent'
    BY <2>3, <2>4, OneMemory
  <2>6. D!TypeOK'
    BY <1>0, <2>1, <2>5 DEF D!TypeOK, Servers, Answers
  <2>7. ReadsCurrent' /\ NewestAsks' /\ D!SettledShowsAsked'
    BY <2>1 DEF ReadsCurrent, NewestAsks, D!SettledShowsAsked, D!Found
  <2> QED BY <2>5, <2>6, <2>7
<1>6. ASSUME NEW q \in Actor, D!Type(q) PROVE DirectoryInv'
  <2>1. listing' = [listing EXCEPT !.typed = q] /\ UNCHANGED <<shop, memory, change, searches>>
    BY <1>6 DEF D!Type
  <2>2. /\ listing' \in D!PageState /\ listing'.asked = listing.asked
        /\ listing'.latest = listing.latest /\ listing'.loading = listing.loading
        /\ listing'.failed = listing.failed /\ listing'.data = listing.data
    BY <1>0, <2>1 DEF D!PageState
  <2>3. D!TypeOK'
    BY <1>0, <2>1, <2>2 DEF D!TypeOK
  <2>4. D!MemoryIsCurrent' /\ ReadsCurrent' /\ NewestAsks' /\ D!SettledShowsAsked'
    BY <2>1, <2>2 DEF D!MemoryIsCurrent, ReadsCurrent, NewestAsks, D!SettledShowsAsked,
      D!Listed, D!Found
  <2> QED BY <2>3, <2>4
\* A load on its way goes on: it stays the same search.
<1>7. ASSUME NEW c \in searches, NEW d \in D!Call, D!Becomes(c, d),
             d.mine = c.mine, d.asked = c.asked,
             d.pc = "services" => d.crossed \/ d.shows = D!Found,
             UNCHANGED <<shop, change, listing>>
      PROVE  searches' \subseteq D!Call /\ ReadsCurrent' /\ NewestAsks' /\ D!SettledShowsAsked'
  <2>1. searches' = (searches \ {c}) \cup {d}
    BY <1>7 DEF D!Becomes
  <2>2. searches' \subseteq D!Call
    BY <1>0, <2>1
  <2>3. D!Found' = D!Found
    BY <1>7 DEF D!Found
  <2>4. ReadsCurrent'
    BY <1>7, <2>1, <2>3 DEF ReadsCurrent
  <2>5. NewestAsks' /\ D!SettledShowsAsked'
    BY <1>7, <2>1 DEF NewestAsks, D!SettledShowsAsked
  <2> QED BY <2>2, <2>4, <2>5
<1>8. ASSUME NEW c \in searches, D!Arrive(c) PROVE DirectoryInv'
  <2> DEFINE hit == memory[c.at][c.asked]
             d == IF hit = None THEN [c EXCEPT !.pc = "businesses"]
                  ELSE [c EXCEPT !.pc = "answer", !.shows = hit.shows]
  <2>1. c \in D!Call /\ c.asked \in Actor /\ c.at \in Servers
    BY <1>0 DEF D!Call, Servers
  <2>2. D!Becomes(c, d) /\ UNCHANGED <<shop, memory, change, listing>>
    BY <1>8 DEF D!Arrive
  <2>3. hit \in D!Entry \cup {None}
    BY <1>0, <2>1 DEF Answers
  <2> HIDE DEF hit
  <2>4. d \in D!Call /\ d.mine = c.mine /\ d.asked = c.asked /\ d.pc # "services"
    <3>1. CASE hit = None
      BY <2>1, <3>1 DEF D!Call
    <3>2. CASE hit # None
      <4>1. hit.shows \in BOOLEAN
        BY <2>3, <3>2 DEF D!Entry
      <4> QED BY <2>1, <3>2, <4>1 DEF D!Call
    <3> QED BY <3>1, <3>2
  <2> HIDE DEF d
  <2>5. searches' \subseteq D!Call /\ ReadsCurrent' /\ NewestAsks' /\ D!SettledShowsAsked'
    BY <1>7, <2>2, <2>4
  <2>6. D!TypeOK' /\ D!MemoryIsCurrent'
    BY <1>0, <2>2, <2>5 DEF D!TypeOK, D!MemoryIsCurrent, D!Listed, D!Found
  <2> QED BY <2>5, <2>6
<1>9. ASSUME NEW c \in searches, D!ReadBusinesses(c) PROVE DirectoryInv'
  <2> DEFINE d == [c EXCEPT !.pc = "services", !.shows = D!Found]
  <2>1. c \in D!Call /\ D!Becomes(c, d) /\ UNCHANGED <<shop, memory, change, listing>>
    BY <1>0, <1>9 DEF D!ReadBusinesses
  <2>2. D!Found \in BOOLEAN
    BY DEF D!Found
  <2>3. d \in D!Call /\ d.mine = c.mine /\ d.asked = c.asked /\ d.shows = D!Found
    BY <2>1, <2>2 DEF D!Call
  <2> HIDE DEF d
  <2>4. searches' \subseteq D!Call /\ ReadsCurrent' /\ NewestAsks' /\ D!SettledShowsAsked'
    BY <1>7, <2>1, <2>3
  <2>5. D!TypeOK' /\ D!MemoryIsCurrent'
    BY <1>0, <2>1, <2>4 DEF D!TypeOK, D!MemoryIsCurrent, D!Listed, D!Found
  <2> QED BY <2>4, <2>5
<1>10. ASSUME NEW c \in searches, D!ReadServices(c) PROVE DirectoryInv'
  <2> DEFINE shows == c.shows /\ shop.services
             d == [c EXCEPT !.pc = "answer", !.shows = shows]
             e == [shows |-> shows, crossed |-> c.crossed]
             m == [memory[c.at] EXCEPT ![c.asked] = e]
  <2>1. /\ c \in D!Call /\ c.asked \in Actor /\ c.at \in Servers /\ c.crossed \in BOOLEAN
        /\ c.pc = "services" /\ memory[c.at] \in Answers
    BY <1>0, <1>10 DEF D!ReadServices, D!Call, Servers
  <2>2. D!Becomes(c, d) /\ UNCHANGED <<shop, change, listing>>
    BY <1>10 DEF D!ReadServices
  <2>3. memory' = [memory EXCEPT ![c.at] = m]
    BY <1>0, <1>10, <2>1 DEF D!ReadServices
  <2>4. shows \in BOOLEAN
    BY <2>1 DEF D!Call
  <2>5. c.crossed \/ (c.shows = D!Found /\ shows = D!Listed)
    BY <2>1 DEF ReadsCurrent, D!Listed
  <2> HIDE DEF shows
  <2>6. d \in D!Call /\ d.mine = c.mine /\ d.asked = c.asked /\ d.pc = "answer"
    BY <2>1, <2>4 DEF D!Call
  <2>7. e \in D!Entry /\ e.shows = shows /\ e.crossed = c.crossed
    BY <2>1, <2>4 DEF D!Entry
  <2> HIDE DEF d, e
  <2>8. m \in Answers /\ \A q \in Actor : m[q] = e \/ m[q] = memory[c.at][q]
    BY <2>1, <2>7 DEF Answers
  <2> HIDE DEF m
  <2>9. PICK n \in Answers : n = m
    BY <2>8
  <2>10. PICK v \in Servers : v = c.at
    BY <2>1
  <2>11. ASSUME NEW q \in Actor, n[q] # None
         PROVE  \/ n[q].shows = D!Listed \/ n[q].crossed
                \/ \E x \in Other : change[x] = v
    <3>1. CASE n[q] = e
      BY <2>5, <2>7, <3>1
    <3>2. CASE n[q] = memory[v][q]
      BY <2>11, <3>2 DEF D!MemoryIsCurrent, Servers
    <3> QED BY <2>8, <2>9, <2>10, <3>1, <3>2
  <2>12. memory' = [memory EXCEPT ![v] = n] /\ UNCHANGED <<shop, change>>
    BY <2>2, <2>3, <2>9, <2>10
  <2>13. memory' \in [Servers -> Answers] /\ D!MemoryIsCurrent'
    BY <2>11, <2>12, OneMemory
  <2>14. searches' \subseteq D!Call /\ ReadsCurrent' /\ NewestAsks' /\ D!SettledShowsAsked'
    BY <1>7, <2>2, <2>6
  <2>15. D!TypeOK'
    BY <1>0, <2>2, <2>13, <2>14 DEF D!TypeOK, Servers, Answers
  <2> QED BY <2>13, <2>14, <2>15
<1>11. ASSUME NEW c \in searches, D!Answer(c) PROVE DirectoryInv'
  <2>1. /\ searches' = searches \ {c} /\ UNCHANGED <<shop, memory, change>>
        /\ listing' = IF D!Current(c)
             THEN [listing EXCEPT !.data = [asked |-> c.asked, shows |-> c.shows], !.loading = FALSE]
             ELSE listing
    BY <1>11 DEF D!Answer
  <2> DEFINE a == [asked |-> c.asked, shows |-> c.shows]
  <2>2. a \in [asked : Actor, shows : BOOLEAN] /\ a.asked = c.asked
    BY <1>0 DEF D!Call
  <2>3. a # None
    BY <2>2 DEF D!Assumptions
  <2> HIDE DEF a
  <2>4. /\ listing' \in D!PageState /\ listing'.latest = listing.latest
        /\ listing'.asked = listing.asked
        /\ \/ D!Current(c) /\ listing'.data = a
           \/ listing' = listing
    <3>1. CASE D!Current(c)
      <4>1. listing' = [listing EXCEPT !.data = a, !.loading = FALSE]
        BY <2>1, <3>1 DEF a
      <4> QED BY <1>0, <2>2, <3>1, <4>1 DEF D!PageState
    <3>2. CASE ~D!Current(c)
      BY <1>0, <2>1, <3>2
    <3> QED BY <3>1, <3>2
  <2>5. D!TypeOK'
    BY <1>0, <2>1, <2>4 DEF D!TypeOK
  <2>6. D!MemoryIsCurrent' /\ ReadsCurrent' /\ NewestAsks'
    BY <2>1, <2>4 DEF D!MemoryIsCurrent, ReadsCurrent, NewestAsks, D!Listed, D!Found
  <2>7. D!SettledShowsAsked'
    <3>1. CASE D!Current(c) /\ listing'.data = a
      <4>1. c.asked = listing.asked
        BY <3>1 DEF NewestAsks, D!Current
      <4> QED BY <2>2, <2>3, <2>4, <3>1, <4>1 DEF D!SettledShowsAsked
    <3>2. CASE listing' = listing
      BY <3>2 DEF D!SettledShowsAsked
    <3> QED BY <2>4, <3>1, <3>2
  <2> QED BY <2>5, <2>6, <2>7
<1>12. ASSUME NEW c \in searches, D!Fail(c) PROVE DirectoryInv'
  <2>1. /\ searches' = searches \ {c} /\ UNCHANGED <<shop, memory, change>>
        /\ listing' = IF D!Current(c) THEN [listing EXCEPT !.failed = TRUE, !.loading = FALSE]
                      ELSE listing
    BY <1>12 DEF D!Fail
  <2>2. /\ listing' \in D!PageState /\ listing'.latest = listing.latest
        /\ listing'.asked = listing.asked /\ (listing'.failed = TRUE \/ listing' = listing)
    BY <1>0, <2>1 DEF D!PageState
  <2>3. D!TypeOK'
    BY <1>0, <2>1, <2>2 DEF D!TypeOK
  <2>4. D!MemoryIsCurrent' /\ ReadsCurrent' /\ NewestAsks'
    BY <2>1, <2>2 DEF D!MemoryIsCurrent, ReadsCurrent, NewestAsks, D!Listed, D!Found
  <2>5. D!SettledShowsAsked'
    BY <2>2 DEF D!SettledShowsAsked
  <2> QED BY <2>3, <2>4, <2>5
<1> QED BY <1>1, <1>2, <1>3, <1>4, <1>5, <1>6, <1>8, <1>9, <1>10, <1>11, <1>12 DEF D!Next, Servers

-----------------------------------------------------------------------------
(* The portal.                                                             *)

AppointmentDay == [t \in Slot \cup Instant |-> t \div DayLength]

\* What "My appointments" offers is of the day it shows, unless a list came late.
DayIsShown ==
  LET p == screen["portal"] IN
  /\ p.slots # None => p.late \/ \A s \in p.slots : AppointmentDay[s] = p.date
  /\ p.slot # None => p.late \/ AppointmentDay[p.slot] = p.date

\* A change that was checked is still in order, unless something overtook it.
CheckedHolds ==
  \A r \in Actor : request[r] # P!Idle =>
    /\ request[r].door = "portal" => request[r].shownDay
    /\ request[r].pc \in {"offered", "act"} /\ ~request[r].overtaken => P!InTime(booking.start)
    /\ request[r].pc = "act" /\ request[r].door = "portal" /\ ~request[r].overtaken =>
         request[r].to \in open \cup {None}

PortalInv == P!TypeOK /\ DayIsShown /\ CheckedHolds /\ P!ChangesAreAllowed

Standing == P!Change \cup {P!Idle}

LEMMA IdleIsNoChange == P!Idle \notin P!Change
BY DEF P!Idle, P!Change

\* Requests go on as they are, or end; they may be overtaken or not be waited for.
RequestsStay ==
  /\ request' \in [Actor -> Standing]
  /\ \A r \in Actor : request'[r] # P!Idle =>
       /\ request[r] # P!Idle
       /\ request'[r].pc = request[r].pc /\ request'[r].door = request[r].door
       /\ request'[r].to = request[r].to /\ request'[r].shownDay = request[r].shownDay
       /\ request[r].overtaken => request'[r].overtaken

LEMMA StaysChecked ==
  ASSUME CheckedHolds, RequestsStay,
         \/ UNCHANGED <<now, booking, open>>
         \/ \A r \in Actor : request'[r] # P!Idle => request'[r].overtaken
  PROVE  CheckedHolds'
BY DEF CheckedHolds, RequestsStay, P!InTime

LEMMA OvertakenStay ==
  ASSUME request \in [Actor -> Standing], NEW but, request' = P!Overtaken(but)
  PROVE  /\ RequestsStay
         /\ \A r \in Actor : request'[r] # P!Idle => r = but \/ request'[r].overtaken
<1>1. ASSUME NEW r \in Actor
      PROVE  /\ request'[r] \in Standing
             /\ request'[r] # P!Idle =>
                  /\ request[r] # P!Idle
                  /\ request'[r].pc = request[r].pc /\ request'[r].door = request[r].door
                  /\ request'[r].to = request[r].to
                  /\ request'[r].shownDay = request[r].shownDay
                  /\ request[r].overtaken => request'[r].overtaken
                  /\ r = but \/ request'[r].overtaken
  <2>1. CASE r # but /\ request[r] # P!Idle
    <3>1. request'[r] = [request[r] EXCEPT !.overtaken = TRUE] /\ request[r] \in P!Change
      BY <2>1 DEF P!Overtaken, Standing
    <3> QED BY <2>1, <3>1 DEF P!Change, Standing
  <2>2. CASE ~(r # but /\ request[r] # P!Idle)
    BY <2>2 DEF P!Overtaken
  <2> QED BY <2>1, <2>2
<1>2. request' = [r \in Actor |-> request'[r]]
  BY DEF P!Overtaken
<1> QED BY <1>1, <1>2 DEF RequestsStay

\* A page is left, and what it asked for goes unheard.
LEMMA UnwaitedStay ==
  ASSUME request \in [Actor -> Standing], NEW d,
         request' = [r \in Actor |-> IF request[r] # P!Idle /\ request[r].door = d
                                     THEN [request[r] EXCEPT !.waits = FALSE] ELSE request[r]]
  PROVE  RequestsStay
<1>1. ASSUME NEW r \in Actor
      PROVE  /\ request'[r] \in Standing
             /\ request'[r] # P!Idle =>
                  /\ request[r] # P!Idle
                  /\ request'[r].pc = request[r].pc /\ request'[r].door = request[r].door
                  /\ request'[r].to = request[r].to
                  /\ request'[r].shownDay = request[r].shownDay
                  /\ request[r].overtaken => request'[r].overtaken
  <2>1. CASE request[r] # P!Idle /\ request[r].door = d
    <3>1. request'[r] = [request[r] EXCEPT !.waits = FALSE] /\ request[r] \in P!Change
      BY <2>1 DEF Standing
    <3> QED BY <2>1, <3>1 DEF P!Change, Standing
  <2>2. CASE ~(request[r] # P!Idle /\ request[r].door = d)
    BY <2>2
  <2> QED BY <2>1, <2>2
<1> QED BY <1>1 DEF RequestsStay

\* Of a page, what DayIsShown looks at.
SameDay(p, q) == p.slots = q.slots /\ p.slot = q.slot /\ p.date = q.date /\ p.late = q.late

LEMMA SameDayShown ==
  ASSUME DayIsShown, SameDay(screen'["portal"], screen["portal"])
  PROVE  DayIsShown'
BY DEF DayIsShown, SameDay, AppointmentDay

LEMMA NothingShown ==
  ASSUME screen'["portal"].slots = None, screen'["portal"].slot = None
  PROVE  DayIsShown'
BY DEF DayIsShown

LEMMA FreshPages ==
  ASSUME P!Assumptions, booking.start \in Slot, now \in Instant
  PROVE  /\ P!Fresh \in P!PageState /\ P!Fresh.slots = None /\ P!Fresh.slot = None
         /\ P!Today \in P!PageState
<1> DEFINE d == AppointmentDay[booking.start]
           e == AppointmentDay[now]
<1>1. d \in Day /\ e \in Day
  BY DEF P!Assumptions, AppointmentDay
<1>2. P!Fresh = [mayChange |-> FALSE, mode |-> "view", date |-> d, slots |-> None, slot |-> None,
                 late |-> FALSE]
  BY DEF P!Fresh, AppointmentDay
<1>3. P!Today = [P!Fresh EXCEPT !.date = e, !.slots = {}]
  BY DEF P!Today, AppointmentDay
<1> HIDE DEF d, e
<1>4. P!Fresh \in P!PageState /\ P!Fresh.slots = None /\ P!Fresh.slot = None
  BY <1>1, <1>2 DEF P!PageState
<1>5. P!Today \in P!PageState
  BY <1>1, <1>3, <1>4 DEF P!PageState
<1> QED BY <1>4, <1>5

LEMMA PortalStarts ==
  ASSUME P!Assumptions, P!Init PROVE PortalInv
<1>1. /\ now \in Instant /\ booking \in P!Booking /\ open = Slot /\ taken = {}
      /\ expires = booking.start /\ session = "new"
      /\ screen = [portal |-> P!Fresh, link |-> P!Today] /\ lists = {} /\ asked = 0 /\ moves = 0
      /\ request = [r \in Actor |-> P!Idle] /\ wrong = {}
  BY DEF P!Init, P!Booking
<1>2. booking.start \in Slot
  BY <1>1 DEF P!Booking
<1>3. P!Fresh \in P!PageState /\ P!Fresh.slots = None /\ P!Fresh.slot = None
  BY <1>1, <1>2, FreshPages
<1>4. P!Today \in P!PageState
  BY <1>1, <1>2, FreshPages
<1>5. screen \in [P!Door -> P!PageState] /\ screen["portal"] = P!Fresh
  BY <1>1, <1>3, <1>4 DEF P!Door
<1>6. P!TypeOK
  BY <1>1, <1>2, <1>5 DEF P!TypeOK, P!Assumptions
<1>7. DayIsShown /\ CheckedHolds /\ P!ChangesAreAllowed
  BY <1>1, <1>3, <1>5 DEF DayIsShown, CheckedHolds, P!ChangesAreAllowed
<1> QED BY <1>6, <1>7 DEF PortalInv

LEMMA PortalPages ==
  ASSUME P!Assumptions, PortalInv,
         NEW d \in P!Door, P!Open(d) \/ P!Reschedule(d) \/ P!Back(d) \/ P!AskCancel(d)
                           \/ (\E day \in Day : P!PickDate(d, day))
                           \/ (\E s \in Slot : P!PickSlot(d, s))
  PROVE  PortalInv'
<1>0. /\ screen \in [P!Door -> P!PageState] /\ screen[d] \in P!PageState
      /\ lists \subseteq [door : P!Door, date : Day] /\ request \in [Actor -> Standing]
      /\ asked \in 0..MaxCalls /\ MaxCalls \in Nat /\ P!TypeOK /\ DayIsShown /\ CheckedHolds
      /\ booking.start \in Slot /\ now \in Instant /\ P!ChangesAreAllowed
  BY DEF PortalInv, P!TypeOK, Standing, P!Booking, P!Assumptions
\* What a page step must show.
<1>1. ASSUME NEW p \in P!PageState, screen' = [screen EXCEPT ![d] = p],
             lists' \subseteq [door : P!Door, date : Day], asked' \in 0..MaxCalls,
             RequestsStay, UNCHANGED <<now, booking, open, taken, expires, session, moves, wrong>>,
             d = "portal" => SameDay(p, screen[d]) \/ (p.slots = None /\ p.slot = None) \/ DayIsShown'
      PROVE  PortalInv'
  <2>1. screen' \in [P!Door -> P!PageState]
    BY <1>0, <1>1
  <2>2. P!TypeOK'
    BY <1>0, <1>1, <2>1 DEF P!TypeOK, RequestsStay, Standing
  <2>3. CheckedHolds'
    BY <1>0, <1>1, StaysChecked
  <2>4. P!ChangesAreAllowed'
    BY <1>0, <1>1 DEF P!ChangesAreAllowed
  <2>5. DayIsShown'
    <3>1. CASE d = "portal"
      <4>1. screen'["portal"] = p /\ screen[d] = screen["portal"]
        BY <1>0, <1>1, <3>1
      <4> QED BY <1>0, <1>1, <3>1, <4>1, SameDayShown, NothingShown
    <3>2. CASE d # "portal"
      <4>1. screen'["portal"] = screen["portal"]
        BY <1>0, <1>1, <3>2 DEF P!Door
      <4> QED BY <1>0, <4>1, SameDayShown DEF SameDay
    <3> QED BY <3>1, <3>2
  <2> QED BY <2>2, <2>3, <2>4, <2>5 DEF PortalInv
<1>2. UNCHANGED request => RequestsStay
  BY <1>0 DEF RequestsStay
\* Asking for a list: the portal empties what it shows.
<1>3. ASSUME NEW p \in P!PageState, P!AskSlots(d, p),
             UNCHANGED <<now, booking, open, taken, expires, session, moves, request, wrong>>
      PROVE  PortalInv'
  <2> DEFINE r == IF d = "portal" THEN P!Emptied(p) ELSE p
  <2>1. /\ asked < MaxCalls /\ asked' = asked + 1 /\ screen' = [screen EXCEPT ![d] = r]
        /\ lists' = lists \cup {[door |-> d, date |-> p.date]}
    BY <1>3 DEF P!AskSlots
  <2>2. asked' \in 0..MaxCalls
    BY <1>0, <2>1
  <2>3. p.date \in Day
    BY DEF P!PageState
  <2>4. lists' \subseteq [door : P!Door, date : Day]
    BY <1>0, <2>1, <2>3
  <2>5. r \in P!PageState /\ (d = "portal" => r.slots = None /\ r.slot = None)
    BY DEF P!Emptied, P!PageState
  <2> HIDE DEF r
  <2> QED BY <1>1, <1>2, <1>3, <2>1, <2>2, <2>4, <2>5
<1>4. CASE P!Open(d)
  <2> DEFINE w == IF d = "portal" THEN P!Fresh ELSE P!Today
             m == P!Confirmed /\ (d = "portal" => P!InTime(booking.start))
             p == [w EXCEPT !.mayChange = m]
  <2>1. /\ screen' = [screen EXCEPT ![d] = p] /\ lists' = {c \in lists : c.door # d}
        /\ request' = [r \in Actor |-> IF request[r] # P!Idle /\ request[r].door = d
                                       THEN [request[r] EXCEPT !.waits = FALSE] ELSE request[r]]
        /\ UNCHANGED <<now, booking, open, taken, expires, session, moves, asked, wrong>>
    BY <1>4 DEF P!Open, P!world
  <2>2. m \in BOOLEAN
    BY DEF P!Confirmed, P!InTime
  <2>3. w \in P!PageState /\ (d = "portal" => w.slots = None /\ w.slot = None)
    BY <1>0, FreshPages
  <2> HIDE DEF m, w
  <2>4. p \in P!PageState /\ (d = "portal" => p.slots = None /\ p.slot = None)
    BY <2>2, <2>3 DEF P!PageState
  <2> HIDE DEF p
  <2>5. RequestsStay
    BY <1>0, <2>1, UnwaitedStay
  <2> QED BY <1>0, <1>1, <2>1, <2>4, <2>5
<1>5. CASE P!Reschedule(d)
  <2> DEFINE p == [screen[d] EXCEPT !.mode = "reschedule"]
  <2>1. P!AskSlots(d, p)
        /\ UNCHANGED <<now, booking, open, taken, expires, session, moves, request, wrong>>
    BY <1>5 DEF P!Reschedule, P!world
  <2>2. p \in P!PageState
    BY <1>0 DEF P!PageState
  <2> HIDE DEF p
  <2> QED BY <1>3, <2>1, <2>2
<1>6. ASSUME NEW day \in Day, P!PickDate(d, day) PROVE PortalInv'
  <2> DEFINE p == [screen[d] EXCEPT !.date = day, !.slot = None]
  <2>1. P!AskSlots(d, p)
        /\ UNCHANGED <<now, booking, open, taken, expires, session, moves, request, wrong>>
    BY <1>6 DEF P!PickDate, P!world
  <2>2. p \in P!PageState
    BY <1>0 DEF P!PageState
  <2> HIDE DEF p
  <2> QED BY <1>3, <2>1, <2>2
<1>7. ASSUME NEW s \in Slot, P!PickSlot(d, s) PROVE PortalInv'
  <2> DEFINE p == [screen[d] EXCEPT !.slot = s]
  <2>1. /\ screen[d].slots # None /\ s \in screen[d].slots
        /\ screen' = [screen EXCEPT ![d] = p]
        /\ UNCHANGED <<now, booking, open, taken, expires, session, moves, lists, asked, request,
                       wrong>>
    BY <1>0, <1>7 DEF P!PickSlot, P!world
  <2>2. /\ p \in P!PageState /\ p.slots = screen[d].slots /\ p.slot = s
        /\ p.date = screen[d].date /\ p.late = screen[d].late
    BY <1>0 DEF P!PageState
  <2> HIDE DEF p
  <2>3. d = "portal" => DayIsShown'
    <3> SUFFICES ASSUME d = "portal" PROVE DayIsShown'
      OBVIOUS
    <3>1. screen'["portal"] = p
      BY <1>0, <2>1
    <3>2. p.late \/ \A t \in p.slots : AppointmentDay[t] = p.date
      BY <1>0, <2>1, <2>2 DEF DayIsShown
    <3>3. p.late \/ AppointmentDay[p.slot] = p.date
      BY <2>1, <2>2, <3>2
    <3> QED BY <3>1, <3>2, <3>3 DEF DayIsShown, AppointmentDay
  <2> QED BY <1>0, <1>1, <1>2, <2>1, <2>2, <2>3
<1>8. CASE P!Back(d)
  <2> DEFINE s == IF d = "link" /\ screen[d].mode = "reschedule" THEN None ELSE screen[d].slot
             p == [screen[d] EXCEPT !.mode = "view", !.slot = s]
  <2>1. /\ screen' = [screen EXCEPT ![d] = p]
        /\ UNCHANGED <<now, booking, open, taken, expires, session, moves, lists, asked, request,
                       wrong>>
    BY <1>0, <1>8 DEF P!Back, P!world, P!PageState
  <2>2. s \in Slot \cup {None} /\ (d = "portal" => s = screen[d].slot)
    BY <1>0 DEF P!PageState
  <2> HIDE DEF s
  <2>3. p \in P!PageState /\ (d = "portal" => SameDay(p, screen[d]))
    BY <1>0, <2>2 DEF P!PageState, SameDay
  <2> HIDE DEF p
  <2> QED BY <1>0, <1>1, <1>2, <2>1, <2>3
<1>9. CASE P!AskCancel(d)
  <2> DEFINE p == [screen[d] EXCEPT !.mode = "cancel"]
  <2>1. /\ screen' = [screen EXCEPT ![d] = p]
        /\ UNCHANGED <<now, booking, open, taken, expires, session, moves, lists, asked, request,
                       wrong>>
    BY <1>0, <1>9 DEF P!AskCancel, P!world
  <2>2. p \in P!PageState /\ SameDay(p, screen[d])
    BY <1>0 DEF P!PageState, SameDay
  <2> HIDE DEF p
  <2> QED BY <1>0, <1>1, <1>2, <2>1, <2>2
<1> QED BY <1>4, <1>5, <1>6, <1>7, <1>8, <1>9

\* The lists that come, late or not.
LEMMA PortalLists ==
  ASSUME P!Assumptions, PortalInv, NEW c \in lists, P!Answer(c) \/ P!Refused(c)
  PROVE  PortalInv'
<1>0. /\ screen \in [P!Door -> P!PageState] /\ c.door \in P!Door /\ c.date \in Day
      /\ lists \subseteq [door : P!Door, date : Day] /\ P!TypeOK /\ DayIsShown /\ CheckedHolds
      /\ P!ChangesAreAllowed /\ "portal" \in P!Door /\ open \subseteq Slot
      /\ request \in [Actor -> Standing]
  BY DEF PortalInv, P!TypeOK, P!Door, Standing
<1>1. RequestsStay \/ ~UNCHANGED request
  BY <1>0 DEF RequestsStay
<1>2. ASSUME screen' \in [P!Door -> P!PageState], lists' = lists \ {c}, DayIsShown',
             UNCHANGED <<now, booking, open, taken, expires, session, moves, asked, request, wrong>>
      PROVE  PortalInv'
  <2>1. P!TypeOK'
    BY <1>0, <1>2 DEF P!TypeOK
  <2>2. CheckedHolds'
    BY <1>0, <1>1, <1>2, StaysChecked
  <2>3. P!ChangesAreAllowed'
    BY <1>0, <1>2 DEF P!ChangesAreAllowed
  <2> QED BY <1>2, <2>1, <2>2, <2>3 DEF PortalInv
<1>3. CASE P!Answer(c)
  <2> DEFINE all == P!Offered(c.date)
             some == IF c.door = "portal" THEN {s \in all : s > now} ELSE all
             p == screen[c.door]
             l == p.late \/ (c.door = "portal" /\ c.date # p.date)
             q == [p EXCEPT !.slots = some, !.late = l]
  <2>1. /\ lists' = lists \ {c}
        /\ screen' = [screen EXCEPT ![c.door].slots = some, ![c.door].late = l]
        /\ UNCHANGED <<now, booking, open, taken, expires, session, moves, asked, request, wrong>>
    BY <1>0, <1>3 DEF P!Answer, P!world
  <2>2. some \subseteq Slot /\ \A s \in some : AppointmentDay[s] = c.date
    BY <1>0 DEF P!Offered, AppointmentDay
  <2>3. l \in BOOLEAN /\ p \in P!PageState
    BY <1>0 DEF P!PageState
  <2>4. c.door = "portal" => l \/ c.date = p.date
    OBVIOUS
  <2>5. p.late => l
    OBVIOUS
  <2> HIDE DEF some, l
  <2>6. screen' = [screen EXCEPT ![c.door] = q]
    BY <1>0, <2>1
  <2>7. /\ q \in P!PageState /\ q.slots = some /\ q.late = l /\ q.slot = p.slot
        /\ q.date = p.date
    BY <2>2, <2>3 DEF P!PageState
  <2> HIDE DEF q
  <2>8. screen' \in [P!Door -> P!PageState]
    BY <1>0, <2>6, <2>7
  <2>9. DayIsShown'
    <3>1. CASE c.door = "portal"
      <4>1. screen'["portal"] = q /\ p = screen["portal"]
        BY <1>0, <2>6, <3>1
      <4>2. q.late \/ \A s \in q.slots : AppointmentDay[s] = q.date
        BY <2>2, <2>4, <2>7, <3>1
      <4>3. q.slot # None => q.late \/ AppointmentDay[q.slot] = q.date
        BY <1>0, <2>5, <2>7, <4>1 DEF DayIsShown
      <4> QED BY <4>1, <4>2, <4>3 DEF DayIsShown, AppointmentDay
    <3>2. CASE c.door # "portal"
      <4>1. screen'["portal"] = screen["portal"]
        BY <1>0, <2>6, <3>2
      <4> QED BY <1>0, <4>1, SameDayShown DEF SameDay
    <3> QED BY <3>1, <3>2
  <2> QED BY <1>2, <2>1, <2>8, <2>9
<1>4. CASE P!Refused(c)
  <2> DEFINE q == [screen["portal"] EXCEPT !.slots = {}]
  <2>1. /\ lists' = lists \ {c}
        /\ UNCHANGED <<now, booking, open, taken, expires, session, moves, asked, request, wrong>>
    BY <1>4 DEF P!Refused, P!world
  <2>2. CASE screen' = screen
    <3>1. DayIsShown'
      BY <1>0, <2>2, SameDayShown DEF SameDay
    <3> QED BY <1>0, <1>2, <2>1, <2>2, <3>1
  <2>3. CASE screen' = [screen EXCEPT !["portal"].slots = {}]
    <3>1. screen' = [screen EXCEPT !["portal"] = q]
      BY <1>0, <2>3
    <3>2. /\ q \in P!PageState /\ q.slots = {} /\ q.slot = screen["portal"].slot
          /\ q.date = screen["portal"].date /\ q.late = screen["portal"].late
      <4>1. screen["portal"] \in P!PageState
        BY <1>0
      <4> QED BY <4>1 DEF P!PageState
    <3> HIDE DEF q
    <3>3. screen' \in [P!Door -> P!PageState] /\ screen'["portal"] = q
      BY <1>0, <3>1, <3>2
    <3>4. DayIsShown'
      BY <1>0, <3>2, <3>3 DEF DayIsShown, AppointmentDay
    <3> QED BY <1>2, <2>1, <3>3, <3>4
  <2> QED BY <1>4, <2>2, <2>3 DEF P!Refused
<1> QED BY <1>3, <1>4

\* What everybody else does, and time: whatever was checked is overtaken.
LEMMA PortalWorld ==
  ASSUME P!Assumptions, PortalInv,
         \/ \E s \in Slot : P!StaffMoves(s) \/ P!RivalBooks(s) \/ P!OwnerCloses(s)
         \/ P!StaffCancels \/ P!SignOutEverywhere \/ P!Tick
  PROVE  PortalInv'
<1>0. /\ screen \in [P!Door -> P!PageState] /\ moves \in 0..MaxMoves /\ MaxMoves \in Nat
      /\ lists \subseteq [door : P!Door, date : Day] /\ P!TypeOK /\ DayIsShown /\ CheckedHolds
      /\ P!ChangesAreAllowed /\ "portal" \in P!Door /\ open \subseteq Slot /\ taken \subseteq Slot
      /\ request \in [Actor -> Standing] /\ booking \in P!Booking /\ now \in Instant
      /\ session \in {"new", "old", "ended"} /\ expires \in Slot /\ asked \in 0..MaxCalls
  BY DEF PortalInv, P!TypeOK, P!Door, Standing, P!Assumptions
<1> DEFINE Goal ==
      /\ \/ UNCHANGED screen
         \/ screen' = [screen EXCEPT !["portal"] = P!Fresh]
      /\ lists' \subseteq lists
      /\ moves' \in 0..MaxMoves /\ UNCHANGED <<expires, asked, wrong>>
      /\ booking' \in P!Booking /\ open' \subseteq Slot /\ taken' \subseteq Slot
      /\ session' \in {"new", "old", "ended"} /\ now' \in Instant
      /\ \/ UNCHANGED <<now, booking, open>> /\ RequestsStay
         \/ request' = P!Overtaken(None)
<1>1. Goal
  <2>1. ASSUME NEW s \in Slot, P!StaffMoves(s) PROVE Goal
    <3>1. moves' \in 0..MaxMoves
      BY <1>0, <2>1 DEF P!StaffMoves, P!Meanwhile
    <3>2. booking' \in P!Booking
      BY <1>0, <2>1 DEF P!StaffMoves, P!Booking
    <3> QED BY <1>0, <2>1, <3>1, <3>2 DEF P!StaffMoves, P!Meanwhile
  <2>2. ASSUME NEW s \in Slot, P!RivalBooks(s) PROVE Goal
    <3>1. moves' \in 0..MaxMoves
      BY <1>0, <2>2 DEF P!RivalBooks, P!Meanwhile
    <3> QED BY <1>0, <2>2, <3>1 DEF P!RivalBooks, P!Meanwhile
  <2>3. ASSUME NEW s \in Slot, P!OwnerCloses(s) PROVE Goal
    <3>1. moves' \in 0..MaxMoves
      BY <1>0, <2>3 DEF P!OwnerCloses, P!Meanwhile
    <3> QED BY <1>0, <2>3, <3>1 DEF P!OwnerCloses, P!Meanwhile
  <2>4. ASSUME P!StaffCancels PROVE Goal
    <3>1. moves' \in 0..MaxMoves
      BY <1>0, <2>4 DEF P!StaffCancels, P!Meanwhile
    <3>2. booking' \in P!Booking
      BY <1>0, <2>4 DEF P!StaffCancels, P!Booking
    <3> QED BY <1>0, <2>4, <3>1, <3>2 DEF P!StaffCancels, P!Meanwhile
  <2>5. ASSUME P!SignOutEverywhere PROVE Goal
    <3>1. moves' \in 0..MaxMoves
      BY <1>0, <2>5 DEF P!SignOutEverywhere
    <3>2. RequestsStay
      BY <1>0, <2>5, UnwaitedStay DEF P!SignOutEverywhere
    <3> QED BY <1>0, <2>5, <3>1, <3>2 DEF P!SignOutEverywhere
  <2>6. ASSUME P!Tick PROVE Goal
    BY <1>0, <2>6 DEF P!Tick
  <2> QED BY <2>1, <2>2, <2>3, <2>4, <2>5, <2>6
<1>2. RequestsStay /\ (~UNCHANGED <<now, booking, open>> =>
                         \A r \in Actor : request'[r] # P!Idle => request'[r].overtaken)
  <2>1. CASE request' = P!Overtaken(None)
    <3>1. None \notin Actor
      BY DEF P!Assumptions
    <3> QED BY <1>0, <2>1, <3>1, OvertakenStay
  <2> QED BY <1>1, <2>1
<1>3. CheckedHolds'
  BY <1>0, <1>2, StaysChecked
<1>4. P!ChangesAreAllowed'
  BY <1>0, <1>1 DEF P!ChangesAreAllowed
<1>5. screen' \in [P!Door -> P!PageState] /\ DayIsShown'
  <2>1. CASE UNCHANGED screen
    BY <1>0, <2>1, SameDayShown DEF SameDay
  <2>2. CASE screen' = [screen EXCEPT !["portal"] = P!Fresh]
    <3>1. P!Fresh \in P!PageState /\ P!Fresh.slots = None /\ P!Fresh.slot = None
      BY <1>0, FreshPages DEF P!Booking
    <3>2. screen'["portal"] = P!Fresh
      BY <1>0, <2>2
    <3> QED BY <1>0, <2>2, <3>1, <3>2, NothingShown
  <2> QED BY <1>1, <2>1, <2>2
<1>6. P!TypeOK'
  BY <1>0, <1>1, <1>2, <1>5 DEF P!TypeOK, RequestsStay, Standing
<1> QED BY <1>3, <1>4, <1>5, <1>6 DEF PortalInv

\* One change, checked and carried out, on appointments and pages as they are by then.
LEMMA PortalChanges ==
  ASSUME P!Assumptions, PortalInv, NEW r \in Actor,
         (\E d \in P!Door : P!Confirm(d, r)) \/ P!Check(r) \/ P!CheckOffered(r) \/ P!Act(r)
  PROVE  PortalInv'
<1>0. /\ screen \in [P!Door -> P!PageState] /\ P!TypeOK /\ DayIsShown /\ CheckedHolds
      /\ P!ChangesAreAllowed /\ wrong = {} /\ "portal" \in P!Door
      /\ request \in [Actor -> Standing] /\ booking \in P!Booking
  BY DEF PortalInv, P!TypeOK, P!Door, Standing, P!ChangesAreAllowed
<1>1. ASSUME request[r] # P!Idle PROVE request[r] \in P!Change
  BY <1>0, <1>1 DEF Standing
\* One request changes, nothing else.
<1>2. ASSUME NEW q \in Standing, request' = [request EXCEPT ![r] = q],
             UNCHANGED <<screen, P!world, lists, asked, wrong>>,
             q # P!Idle =>
               /\ q.door = "portal" => q.shownDay
               /\ q.pc \in {"offered", "act"} /\ ~q.overtaken => P!InTime(booking.start)
               /\ q.pc = "act" /\ q.door = "portal" /\ ~q.overtaken => q.to \in open \cup {None}
      PROVE  PortalInv'
  <2>1. UNCHANGED <<now, booking, open, taken, expires, session, moves>>
    BY <1>2 DEF P!world
  <2>2. /\ request' \in [Actor -> Standing]
        /\ \A t \in Actor : request'[t] = IF t = r THEN q ELSE request[t]
    BY <1>0, <1>2
  <2>3. P!TypeOK'
    BY <1>0, <1>2, <2>1, <2>2 DEF P!TypeOK, Standing
  <2>4. CheckedHolds'
    BY <1>0, <1>2, <2>1, <2>2 DEF CheckedHolds, P!InTime
  <2>5. DayIsShown' /\ P!ChangesAreAllowed'
    BY <1>0, <1>2, SameDayShown DEF SameDay, P!ChangesAreAllowed
  <2> QED BY <2>3, <2>4, <2>5 DEF PortalInv
<1>3. ASSUME NEW d \in P!Door, P!Confirm(d, r) PROVE PortalInv'
  <2> DEFINE p == screen[d]
             to == IF p.mode = "cancel" THEN None ELSE p.slot
             shown == to = None \/ p.late \/ AppointmentDay[to] = p.date
             q == [pc |-> "check", door |-> d, to |-> to, waits |-> TRUE, overtaken |-> FALSE,
                   shownDay |-> shown]
  <2>1. /\ request' = [request EXCEPT ![r] = q] /\ UNCHANGED <<screen, P!world, lists, asked, wrong>>
    BY <1>3 DEF P!Confirm, AppointmentDay
  <2>2. p \in P!PageState
    BY <1>0
  <2>3. to \in Slot \cup {None}
    BY <2>2 DEF P!PageState
  <2>4. d = "portal" => shown
    BY <1>0 DEF DayIsShown
  <2>5. shown \in BOOLEAN
    BY <2>2 DEF P!PageState
  <2> HIDE DEF to, shown
  <2>6. q \in P!Change /\ q.pc = "check" /\ q.door = d /\ q.shownDay = shown
    BY <2>3, <2>5 DEF P!Change
  <2> HIDE DEF q
  <2> QED BY <1>2, <2>1, <2>4, <2>6 DEF Standing
<1>4. CASE P!Check(r)
  <2>1. request[r].pc = "check" /\ request[r] \in P!Change
    BY <1>1, <1>4 DEF P!Check, P!Idle
  <2>2. CASE UNCHANGED screen /\ request' = [request EXCEPT ![r] = P!Idle]
    <3>1. UNCHANGED <<screen, P!world, lists, asked, wrong>>
      BY <1>4, <2>2 DEF P!Check
    <3> QED BY <1>2, <2>2, <3>1 DEF Standing
  <2>3. CASE ~(UNCHANGED screen /\ request' = [request EXCEPT ![r] = P!Idle])
    <3> DEFINE to == request[r].to
               n == IF request[r].door = "portal" /\ to # None THEN "offered" ELSE "act"
               q == [request[r] EXCEPT !.pc = n, !.overtaken = FALSE]
    <3>1. /\ P!InTime(booking.start) /\ UNCHANGED <<screen, P!world, lists, asked, wrong>>
          /\ request' = [request EXCEPT ![r].pc = n, ![r].overtaken = FALSE]
      BY <1>4, <2>3 DEF P!Check, P!Hears, P!AssertWithinCutoff
    <3>2. /\ n \in {"offered", "act"}
          /\ n = "act" => request[r].door # "portal" \/ request[r].to = None
      OBVIOUS
    <3> HIDE DEF n
    <3>3. request' = [request EXCEPT ![r] = q]
      BY <1>0, <3>1
    <3>4. /\ q \in P!Change /\ q.pc = n /\ q.door = request[r].door /\ q.to = request[r].to
          /\ q.shownDay = request[r].shownDay
      BY <2>1, <3>2 DEF P!Change
    <3> HIDE DEF q
    <3>5. request[r].door = "portal" => request[r].shownDay
      BY <1>0, <2>1, IdleIsNoChange DEF CheckedHolds
    <3> QED BY <1>2, <3>1, <3>2, <3>3, <3>4, <3>5 DEF Standing
  <2> QED BY <2>2, <2>3
<1>5. CASE P!CheckOffered(r)
  <2>1. request[r].pc = "offered" /\ request[r] \in P!Change
    BY <1>1, <1>5 DEF P!CheckOffered, P!Idle
  <2>2. CASE UNCHANGED screen /\ request' = [request EXCEPT ![r] = P!Idle]
    <3>1. UNCHANGED <<screen, P!world, lists, asked, wrong>>
      BY <1>5, <2>2 DEF P!CheckOffered
    <3> QED BY <1>2, <2>2, <3>1 DEF Standing
  <2>3. CASE ~(UNCHANGED screen /\ request' = [request EXCEPT ![r] = P!Idle])
    <3> DEFINE q == [request[r] EXCEPT !.pc = "act"]
    <3>1. /\ request[r].to \in open /\ UNCHANGED <<screen, P!world, lists, asked, wrong>>
          /\ request' = [request EXCEPT ![r].pc = "act"]
      BY <1>5, <2>3 DEF P!CheckOffered, P!Hears
    <3>2. request' = [request EXCEPT ![r] = q]
      BY <1>0, <3>1
    <3>3. /\ q \in P!Change /\ q.pc = "act" /\ q.door = request[r].door /\ q.to = request[r].to
          /\ q.shownDay = request[r].shownDay /\ q.overtaken = request[r].overtaken
      BY <2>1 DEF P!Change
    <3> HIDE DEF q
    <3>4. /\ request[r].door = "portal" => request[r].shownDay
          /\ ~request[r].overtaken => P!InTime(booking.start)
      BY <1>0, <2>1, IdleIsNoChange DEF CheckedHolds
    <3> QED BY <1>2, <3>1, <3>2, <3>3, <3>4 DEF Standing
  <2> QED BY <2>2, <2>3
<1>6. CASE P!Act(r)
  <2>0. request[r].pc = "act" /\ request[r] # P!Idle
    <3>1. request[r].pc = "act"
      BY <1>6 DEF P!Act
    <3>2. P!Idle.pc = "idle"
      BY DEF P!Idle
    <3> QED BY <3>1, <3>2
  <2> DEFINE q == request[r]
             does == IF q.to = None THEN P!Confirmed ELSE P!StillConfirmed /\ q.to \notin taken
             rest == IF does THEN P!Overtaken(r) ELSE request
             ok == does \/ q.to = None
             m == IF q.door = "portal" THEN "view" ELSE "done"
             p == [screen[q.door] EXCEPT !.mode = m]
  <2>1. q.pc = "act" /\ q \in P!Change
    BY <1>1, <2>0
  <2>2. q.door \in P!Door /\ q.to \in Slot \cup {None}
    BY <2>1 DEF P!Change
  <2>3. /\ q.door = "portal" => q.shownDay
        /\ ~q.overtaken => P!InTime(booking.start)
        /\ q.door = "portal" /\ ~q.overtaken => q.to \in open \cup {None}
    BY <1>0, <2>1, IdleIsNoChange DEF CheckedHolds
  <2>4. does => P!Confirmed
    BY DEF P!StillConfirmed
  <2>5. /\ booking' = IF ~does THEN booking
                      ELSE IF q.to = None THEN [booking EXCEPT !.status = "cancelled"]
                      ELSE [start |-> q.to, status |-> "confirmed"]
        /\ wrong' = (wrong \cup
             (IF does /\ ~q.overtaken /\ ~P!InTime(booking.start) THEN {"too late"} ELSE {})
             \cup (IF does /\ ~P!Confirmed THEN {"cancelled before"} ELSE {})
             \cup (IF does /\ q.door = "portal" /\ ~q.overtaken /\ q.to \notin open \cup {None}
                   THEN {"closed"} ELSE {})
             \cup (IF does /\ q.door = "portal" /\ ~q.shownDay THEN {"another day"} ELSE {}))
    BY <1>6 DEF P!Act
  <2>6. /\ request' = [rest EXCEPT ![r] = P!Idle]
        /\ screen' = IF ok /\ q.waits THEN [screen EXCEPT ![q.door].mode = m] ELSE screen
        /\ UNCHANGED <<now, open, taken, expires, session, moves, lists, asked>>
    BY <1>6 DEF P!Act
  <2>7. wrong' = {}
    <3> HIDE DEF does, q
    <3> QED BY <1>0, <2>3, <2>4, <2>5
  <2>8. booking' \in P!Booking
    <3> HIDE DEF does
    <3> QED BY <1>0, <2>2, <2>5 DEF P!Booking
  <2>9. screen' \in [P!Door -> P!PageState] /\ SameDay(screen'["portal"], screen["portal"])
    <3>1. CASE screen' = screen
      BY <1>0, <3>1 DEF SameDay
    <3>2. CASE screen' = [screen EXCEPT ![q.door].mode = m]
      <4>1. screen' = [screen EXCEPT ![q.door] = p]
        BY <1>0, <2>2, <3>2
      <4>2. p \in P!PageState /\ SameDay(p, screen[q.door])
        BY <1>0, <2>2 DEF P!PageState, SameDay
      <4> HIDE DEF p, q
      <4> QED BY <1>0, <2>2, <4>1, <4>2 DEF SameDay
    <3> HIDE DEF does, q, m
    <3> QED BY <2>6, <3>1, <3>2
  <2>10. DayIsShown'
    BY <1>0, <2>9, SameDayShown
  <2>11. request' \in [Actor -> Standing] /\ CheckedHolds'
    <3>1. CASE does
      <4> DEFINE over == P!Overtaken(r)
      <4>1. request' = [over EXCEPT ![r] = P!Idle]
        BY <2>6, <3>1
      <4>2. /\ over \in [Actor -> Standing]
            /\ \A t \in Actor : over[t] # P!Idle =>
                 /\ request[t] # P!Idle
                 /\ over[t].door = request[t].door /\ over[t].shownDay = request[t].shownDay
                 /\ t = r \/ over[t].overtaken
        <5>1. ASSUME NEW t \in Actor
              PROVE  /\ over[t] \in Standing
                     /\ over[t] # P!Idle =>
                          /\ request[t] # P!Idle
                          /\ over[t].door = request[t].door
                          /\ over[t].shownDay = request[t].shownDay
                          /\ t = r \/ over[t].overtaken
          <6>1. CASE t # r /\ request[t] # P!Idle
            <7>1. over[t] = [request[t] EXCEPT !.overtaken = TRUE] /\ request[t] \in P!Change
              BY <1>0, <6>1 DEF P!Overtaken, Standing
            <7> HIDE DEF over
            <7> QED BY <6>1, <7>1 DEF P!Change, Standing
          <6>2. CASE ~(t # r /\ request[t] # P!Idle)
            <7>1. over[t] = request[t]
              BY <6>2 DEF P!Overtaken
            <7> QED BY <1>0, <6>2, <7>1
          <6> QED BY <6>1, <6>2
        <5>2. over = [t \in Actor |-> over[t]]
          BY DEF P!Overtaken
        <5> HIDE DEF over
        <5> QED BY <5>1, <5>2
      <4> HIDE DEF over
      <4>3. /\ request' \in [Actor -> Standing]
            /\ \A t \in Actor : request'[t] = IF t = r THEN P!Idle ELSE over[t]
        BY <4>1, <4>2 DEF Standing
      <4> QED BY <1>0, <4>2, <4>3 DEF CheckedHolds
    <3>2. CASE ~does
      <4>1. request' = [request EXCEPT ![r] = P!Idle] /\ booking' = booking
        BY <2>5, <2>6, <3>2
      <4>2. /\ request' \in [Actor -> Standing]
            /\ \A t \in Actor : request'[t] = IF t = r THEN P!Idle ELSE request[t]
        BY <1>0, <4>1 DEF Standing
      <4> QED BY <1>0, <2>6, <4>1, <4>2 DEF CheckedHolds, P!InTime
    <3> QED BY <3>1, <3>2
  <2>12. P!TypeOK'
    BY <1>0, <2>6, <2>8, <2>9, <2>11 DEF P!TypeOK, Standing
  <2> QED BY <2>7, <2>10, <2>11, <2>12 DEF PortalInv, P!ChangesAreAllowed
<1> QED BY <1>3, <1>4, <1>5, <1>6

LEMMA PortalStep ==
  ASSUME P!Assumptions, PortalInv, P!Next PROVE PortalInv'
BY PortalPages, PortalLists, PortalWorld, PortalChanges DEF P!Next

-----------------------------------------------------------------------------
(* The codes.                                                              *)

SenderState == [pc : {"idle", "write", "send"}, code : 0..MaxCodes, via : K!Via]
CheckerState ==
  [pc : {"idle", "compare", "use", "consume"}, code : 0..MaxCodes, typed : 0..MaxCodes,
   via : K!Via]

CodeShapes ==
  /\ K!TypeOK
  /\ made \in 0..MaxCodes /\ row.code <= made
  /\ sender \in [Actor -> SenderState] /\ checker \in [Other -> CheckerState]
  /\ inbox \in Seq(0..MaxCodes)
  /\ compared \in [K!Code -> [K!Via -> Nat]] /\ used \in [K!Code -> Nat]
  /\ \A s \in Actor : sender[s].pc # "idle" => sender[s].code >= 1
  /\ \A c \in Other : checker[c].pc # "idle" => checker[c].code >= 1

Comparing(k, v) ==
  {c \in Other : checker[c].pc = "compare" /\ checker[c].code = k /\ checker[c].via = v}

AtMost(n) == IF n <= MAX_ATTEMPTS THEN n ELSE MAX_ATTEMPTS

\* Every comparison that is made or under way was counted in the row.
TriesCounted ==
  \A k \in K!Code, v \in K!Via :
    LET n == compared[k][v] + Cardinality(Comparing(k, v)) IN
    /\ n <= MAX_ATTEMPTS
    /\ row.code = k => n <= row.tries[v] /\ (~row.expired => n = AtMost(row.tries[v]))

\* A code that is not written yet is known to nobody; two that are sent differ.
NotYetKnown ==
  \A s \in Actor : sender[s].pc = "write" =>
    LET k == sender[s].code IN
    /\ row.code # k /\ used[k] = 0
    /\ \A v \in K!Via : compared[k][v] = 0
    /\ \A c \in Other : checker[c].pc # "idle" => checker[c].code # k
CodesDiffer ==
  \A s, t \in Actor : s # t /\ sender[s].pc # "idle" /\ sender[t].pc # "idle" =>
    sender[s].code # sender[t].code

\* A code that was never checked twice at a time has one check at most; once it is used,
\* its row is gone, or the check that used it is about to delete it.
OneCheck ==
  \A k \in K!Code : k \notin atOnce =>
    /\ \A c, d \in Other : c # d /\ checker[c].pc # "idle" /\ checker[d].pc # "idle"
                           /\ checker[c].code = k => checker[d].code # k
    /\ used[k] <= 1
    /\ used[k] = 1 =>
         \/ \E c \in Other : checker[c].pc = "consume" /\ checker[c].code = k
         \/ row.code # k /\ \A c \in Other : checker[c].pc # "idle" => checker[c].code # k

\* The newest code, when its sending crossed nothing and it is not used: it waits to be
\* written with nothing else under way, or it is in the row, and what is under way is about it.
NewestStands ==
  \A k \in K!Code : k = made /\ used[k] = 0 /\ k \notin crossed =>
    \/ /\ \A c \in Other : checker[c].pc = "idle"
       /\ \E s \in Actor : /\ sender[s].pc = "write" /\ sender[s].code = k
                           /\ \A t \in Actor \ {s} : sender[t].pc = "idle"
    \/ /\ row.code = k
       /\ \A s \in Actor : sender[s].pc # "idle" => sender[s].pc = "send" /\ sender[s].code = k
       /\ \A c \in Other : checker[c].pc # "idle" =>
            checker[c].code = k /\ checker[c].pc # "consume"

\* A code that is not made yet is known to nobody either.
Unmade ==
  \A k \in K!Code : k > made => used[k] = 0 /\ \A v \in K!Via : compared[k][v] = 0

CodesInv ==
  /\ CodeShapes /\ Unmade /\ TriesCounted /\ NotYetKnown /\ CodesDiffer /\ OneCheck /\ NewestStands

LEMMA ComparingCounts ==
  ASSUME K!Assumptions, NEW k, NEW v
  PROVE  IsFiniteSet(Comparing(k, v)) /\ Cardinality(Comparing(k, v)) \in Nat
<1>1. Comparing(k, v) \in SUBSET Other
  BY DEF Comparing
<1>2. IsFiniteSet(Other)
  BY DEF K!Assumptions, K!IsFiniteSet, IsFiniteSet
<1> QED BY <1>1, <1>2, FS_Subset, FS_CardinalityType

(* The promises follow from the invariant.                                   *)
LEMMA CodesPromised ==
  ASSUME K!Assumptions, CodesInv
  PROVE  K!TypeOK /\ K!GuessesLimited /\ K!UsedOnceUnlessAtOnce /\ K!NewestCodeWorks
<1>1. K!TypeOK
  BY DEF CodesInv, CodeShapes
<1>2. K!GuessesLimited
  <2> SUFFICES ASSUME NEW k \in K!Code, NEW v \in K!Via
               PROVE  compared[k][v] <= MAX_ATTEMPTS
    BY DEF K!GuessesLimited
  <2>1. compared[k][v] \in Nat /\ MAX_ATTEMPTS \in Nat
    BY DEF CodesInv, CodeShapes, K!Assumptions
  <2>2. compared[k][v] + Cardinality(Comparing(k, v)) <= MAX_ATTEMPTS
    BY DEF CodesInv, TriesCounted
  <2> QED BY <2>1, <2>2, ComparingCounts
<1>3. K!UsedOnceUnlessAtOnce
  BY DEF CodesInv, OneCheck, CodeShapes, K!UsedOnceUnlessAtOnce
<1>4. K!NewestCodeWorks
  <2> SUFFICES ASSUME NEW k \in K!Code, K!Quiet, k = made, used[k] = 0, k \notin crossed
               PROVE  /\ row.code = k
                      /\ ~row.expired => \A v \in K!Via : compared[k][v] =
                           IF row.tries[v] <= MAX_ATTEMPTS THEN row.tries[v] ELSE MAX_ATTEMPTS
    BY DEF K!NewestCodeWorks
  <2>1. row.code = k
    BY DEF CodesInv, NewestStands, K!Quiet
  <2>2. ASSUME NEW v \in K!Via, ~row.expired PROVE compared[k][v] = AtMost(row.tries[v])
    <3>1. Comparing(k, v) = {}
      BY DEF Comparing, K!Quiet
    <3>2. compared[k][v] \in Nat /\ Cardinality(Comparing(k, v)) = 0
      BY <3>1, FS_EmptySet DEF CodesInv, CodeShapes
    <3>3. compared[k][v] + Cardinality(Comparing(k, v)) = AtMost(row.tries[v])
      BY <2>1, <2>2 DEF CodesInv, TriesCounted
    <3> QED BY <3>2, <3>3
  <2> QED BY <2>1, <2>2 DEF AtMost
<1> QED BY <1>1, <1>2, <1>3, <1>4

LEMMA NoCodeIsARow ==
  ASSUME K!Assumptions PROVE K!NoCode \in K!Row /\ K!NoCode.code = 0
<1> DEFINE t == [v \in K!Via |-> 0]
<1>1. t \in [K!Via -> Nat] /\ 0 \in 0..MaxCodes
  BY DEF K!Assumptions
<1>2. K!NoCode = [code |-> 0, tries |-> t, fresh |-> FALSE, expired |-> FALSE, link |-> FALSE]
  BY DEF K!NoCode
<1> HIDE DEF t
<1> QED BY <1>1, <1>2 DEF K!Row

LEMMA NewRowIsARow ==
  ASSUME K!Assumptions, NEW k \in 0..MaxCodes, NEW b \in BOOLEAN
  PROVE  /\ K!NewRow(k, b) \in K!Row /\ K!NewRow(k, b).code = k
         /\ \A v \in K!Via : K!NewRow(k, b).tries[v] = 0
<1> DEFINE t == [v \in K!Via |-> 0]
<1>1. t \in [K!Via -> Nat] /\ \A v \in K!Via : t[v] = 0
  OBVIOUS
<1>2. K!NoCode = [code |-> 0, tries |-> t, fresh |-> FALSE, expired |-> FALSE, link |-> FALSE]
  BY DEF K!NoCode
<1> HIDE DEF t
<1>3. K!NewRow(k, b) = [code |-> k, tries |-> t, fresh |-> TRUE, expired |-> FALSE, link |-> b]
  <2>1. K!NewRow(k, b) =
          [[code |-> 0, tries |-> t, fresh |-> FALSE, expired |-> FALSE, link |-> FALSE]
             EXCEPT !.code = k, !.fresh = TRUE, !.link = b]
    BY ONLY <1>2 DEF K!NewRow
  <2> QED BY <2>1
<1> QED BY <1>1, <1>3 DEF K!Row

LEMMA CodesStart ==
  ASSUME K!Assumptions, K!Init PROVE CodesInv
<1>1. /\ row = K!NoCode /\ made = 0 /\ inbox = <<>>
      /\ sender = [s \in Actor |-> [pc |-> "idle", code |-> 0, via |-> "typed"]]
      /\ checker = [c \in Other |-> K!Resting]
      /\ compared = [k \in K!Code |-> [v \in K!Via |-> 0]] /\ used = [k \in K!Code |-> 0]
  BY DEF K!Init
<1>2. 0 \in 0..MaxCodes /\ "typed" \in K!Via /\ MaxCodes \in Nat
  BY DEF K!Assumptions, K!Via
<1>3. /\ \A s \in Actor : sender[s] \in SenderState /\ sender[s].pc = "idle" /\ sender[s].code = 0
      /\ \A c \in Other : checker[c] \in CheckerState /\ checker[c].pc = "idle"
                          /\ checker[c].code = 0 /\ checker[c].via \in K!Via
  BY <1>1, <1>2 DEF SenderState, CheckerState, K!Resting
<1>4. CodeShapes
  <2>1. K!TypeOK
    BY <1>1, <1>3, NoCodeIsARow DEF K!TypeOK
  <2> QED BY <1>1, <1>2, <1>3, <2>1, NoCodeIsARow DEF CodeShapes
<1>5. Unmade /\ NotYetKnown /\ CodesDiffer /\ OneCheck /\ NewestStands
  BY <1>1, <1>3 DEF Unmade, NotYetKnown, CodesDiffer, OneCheck, NewestStands, K!Code
<1>6. TriesCounted
  <2> SUFFICES ASSUME NEW k \in K!Code, NEW v \in K!Via
               PROVE  /\ compared[k][v] + Cardinality(Comparing(k, v)) <= MAX_ATTEMPTS
                      /\ row.code # k
    BY DEF TriesCounted
  <2>1. Comparing(k, v) = {} /\ compared[k][v] = 0
    BY <1>1, <1>3 DEF Comparing
  <2> QED BY <1>1, <2>1, FS_EmptySet, NoCodeIsARow DEF K!Assumptions, K!Code
<1> QED BY <1>4, <1>5, <1>6 DEF CodesInv

\* What every step knows.
CodeFacts ==
  /\ row \in K!Row /\ made \in 0..MaxCodes /\ row.code \in 0..made
  /\ row.tries \in [K!Via -> Nat]
  /\ sender \in [Actor -> SenderState] /\ checker \in [Other -> CheckerState]
  /\ inbox \in Seq(0..MaxCodes) /\ \A i \in DOMAIN inbox : inbox[i] \in 1..made
  /\ compared \in [K!Code -> [K!Via -> Nat]] /\ used \in [K!Code -> Nat]
  /\ \A s \in Actor : sender[s].code \in 0..made /\ (sender[s].pc # "idle" => sender[s].code \in 1..made)
  /\ \A c \in Other : checker[c].code \in 0..made /\ (checker[c].pc # "idle" => checker[c].code \in 1..made)
  /\ 1..made \subseteq K!Code /\ MAX_ATTEMPTS \in Nat /\ MaxCodes \in Nat

LEMMA FactsOfCodes == ASSUME K!Assumptions PROVE CodeShapes <=> CodeFacts
<1>1. ASSUME CodeShapes PROVE CodeFacts
  <2>1. row \in K!Row /\ made \in 0..MaxCodes /\ row.code \in 0..made
    BY <1>1 DEF CodeShapes, K!TypeOK, K!Row, K!Assumptions
  <2>2. row.tries \in [K!Via -> Nat] /\ 1..made \subseteq K!Code
    BY <2>1 DEF K!Row, K!Code, K!Assumptions
  <2>3. \A s \in Actor : sender[s].code \in 0..made
                         /\ (sender[s].pc # "idle" => sender[s].code \in 1..made)
    BY <1>1, <2>1 DEF CodeShapes, K!TypeOK, SenderState, K!Assumptions
  <2>4. \A c \in Other : checker[c].code \in 0..made
                         /\ (checker[c].pc # "idle" => checker[c].code \in 1..made)
    BY <1>1, <2>1 DEF CodeShapes, K!TypeOK, CheckerState, K!Assumptions
  <2> QED BY <1>1, <2>1, <2>2, <2>3, <2>4 DEF CodeFacts, CodeShapes, K!TypeOK, K!Assumptions
<1>2. ASSUME CodeFacts PROVE CodeShapes
  <2>1. K!TypeOK
    BY <1>2 DEF CodeFacts, K!TypeOK, SenderState, CheckerState
  <2> QED BY <1>2, <2>1 DEF CodeFacts, CodeShapes
<1> QED BY <1>1, <1>2

\* Seven parts, named once.
LEMMA CodesInvParts ==
  ASSUME K!Assumptions,
         CodeFacts', Unmade', TriesCounted', NotYetKnown', CodesDiffer', OneCheck', NewestStands'
  PROVE  CodesInv'
BY FactsOfCodes DEF CodesInv, CodeFacts, CodeShapes, K!TypeOK, SenderState, CheckerState,
  K!Assumptions

\* The checks go on as they are.
LEMMA SameComparing ==
  ASSUME UNCHANGED checker PROVE \A k, v : Comparing(k, v)' = Comparing(k, v)
BY DEF Comparing

LEMMA TimeKeepsCodes ==
  ASSUME K!Assumptions, CodesInv, K!Time PROVE CodesInv'
<1>0. CodeFacts
  BY FactsOfCodes DEF CodesInv
<1>1. /\ UNCHANGED <<door, made, sender, checker, inbox, compared, used, atOnce, crossed>>
      /\ row' \in K!Row /\ row'.code = row.code /\ row'.tries = row.tries
      /\ row.expired => row'.expired
  BY <1>0 DEF K!Time, K!Cool, K!Expire, CodeFacts, K!Row
<1>2. CodeFacts'
  BY <1>0, <1>1 DEF CodeFacts
<1>3. TriesCounted'
  BY <1>1, SameComparing DEF CodesInv, TriesCounted, AtMost
<1>4. Unmade' /\ NotYetKnown' /\ CodesDiffer' /\ OneCheck' /\ NewestStands'
  BY <1>1 DEF CodesInv, Unmade, NotYetKnown, CodesDiffer, OneCheck, NewestStands
<1> QED BY <1>2, <1>3, <1>4, CodesInvParts

LEMMA LookKeepsCodes ==
  ASSUME K!Assumptions, CodesInv, NEW s \in Actor, K!Look(s) PROVE CodesInv'
<1>0. CodeFacts
  BY FactsOfCodes DEF CodesInv
<1>1. PICK byEmail \in BOOLEAN : sender' = [sender EXCEPT ![s] =
        [pc |-> "write", code |-> made', via |-> IF byEmail THEN "link" ELSE "typed"]]
  BY DEF K!Look
<1> DEFINE k == made + 1
           q == [pc |-> "write", code |-> k, via |-> IF byEmail THEN "link" ELSE "typed"]
<1>2. /\ sender[s].pc = "idle" /\ made < MaxCodes /\ made' = k
      /\ crossed' = IF K!Quiet THEN crossed ELSE crossed \cup K!Sending \cup {k}
      /\ UNCHANGED <<door, row, checker, inbox, compared, used, atOnce>>
      /\ sender' = [sender EXCEPT ![s] = q]
  BY <1>1 DEF K!Look
<1>3. k \in 1..MaxCodes /\ k > made /\ k \in 0..MaxCodes /\ made \in 0..MaxCodes
      /\ 1..k \subseteq K!Code /\ k \in K!Code
  BY <1>0, <1>2 DEF CodeFacts, K!Code
<1>4. q \in SenderState /\ q.pc = "write" /\ q.code = k
  BY <1>3 DEF SenderState, K!Via
<1> HIDE DEF q
<1>5. /\ sender' \in [Actor -> SenderState]
      /\ \A t \in Actor : sender'[t] = IF t = s THEN q ELSE sender[t]
  BY <1>0, <1>2, <1>4 DEF CodeFacts
<1>6. 0..made \subseteq 0..k /\ 1..made \subseteq 1..k /\ k \in 1..k /\ k \in 0..k
  BY <1>3
<1> HIDE DEF k
<1>7. CodeFacts'
  <2>1. ASSUME NEW t \in Actor
        PROVE  sender'[t].code \in 0..k /\ (sender'[t].pc # "idle" => sender'[t].code \in 1..k)
    <3>1. CASE t = s
      <4>1. sender'[t].code = k
        BY <1>4, <1>5, <3>1
      <4> QED BY <1>6, <4>1
    <3>2. CASE t # s
      <4>1. sender'[t] = sender[t]
        BY <1>5, <3>2
      <4>2. sender[t].code \in 0..made /\ (sender[t].pc # "idle" => sender[t].code \in 1..made)
        BY <1>0 DEF CodeFacts
      <4> QED BY <1>6, <4>1, <4>2
    <3> QED BY <3>1, <3>2
  <2>2. /\ row.code \in 0..k /\ \A i \in DOMAIN inbox : inbox[i] \in 1..k
        /\ \A c \in Other : checker[c].code \in 0..k /\ (checker[c].pc # "idle" => checker[c].code \in 1..k)
    BY <1>0, <1>6 DEF CodeFacts
  <2> QED BY <1>0, <1>2, <1>3, <1>5, <2>1, <2>2 DEF CodeFacts
<1>8. Unmade'
  BY <1>2, <1>3 DEF CodesInv, Unmade, K!Code, k
<1>9. TriesCounted'
  BY <1>2, SameComparing DEF CodesInv, TriesCounted, AtMost
\* Nobody knows the code that is made now.
<1>10. /\ row.code # k /\ used[k] = 0 /\ \A v \in K!Via : compared[k][v] = 0
       /\ \A t \in Actor : sender[t].code # k
       /\ \A c \in Other : checker[c].code # k
  BY <1>0, <1>3 DEF CodeFacts, CodesInv, Unmade
<1>11. NotYetKnown'
  <2> SUFFICES ASSUME NEW t \in Actor, sender'[t].pc = "write"
               PROVE  /\ row.code # sender'[t].code /\ used[sender'[t].code] = 0
                      /\ \A v \in K!Via : compared[sender'[t].code][v] = 0
                      /\ \A c \in Other : checker[c].pc # "idle" => checker[c].code # sender'[t].code
    BY <1>2 DEF NotYetKnown
  <2>1. CASE t = s
    BY <1>4, <1>5, <1>10, <2>1
  <2>2. CASE t # s
    BY <1>5, <2>2 DEF CodesInv, NotYetKnown
  <2> QED BY <2>1, <2>2
<1>12. CodesDiffer'
  BY <1>4, <1>5, <1>10 DEF CodesInv, CodesDiffer
<1>13. OneCheck'
  BY <1>2 DEF CodesInv, OneCheck
<1>14. NewestStands'
  <2> SUFFICES ASSUME k \notin crossed'
               PROVE  /\ \A c \in Other : checker[c].pc = "idle"
                      /\ \E t \in Actor : /\ sender'[t].pc = "write" /\ sender'[t].code = k
                                          /\ \A u \in Actor \ {t} : sender'[u].pc = "idle"
    BY <1>2 DEF NewestStands
  <2>1. K!Quiet
    BY <1>2
  <2> QED BY <1>4, <1>5, <2>1 DEF K!Quiet
<1> QED BY <1>7, <1>8, <1>9, <1>11, <1>12, <1>13, <1>14, CodesInvParts

LEMMA WriteKeepsCodes ==
  ASSUME K!Assumptions, CodesInv, NEW s \in Actor, K!Write(s) PROVE CodesInv'
<1>0. CodeFacts
  BY FactsOfCodes DEF CodesInv
<1> DEFINE k == sender[s].code
           q == [sender[s] EXCEPT !.pc = "send"]
           new == K!NewRow(k, sender[s].via = "link")
<1>1. /\ sender[s].pc = "write" /\ row' = new /\ sender' = [sender EXCEPT ![s].pc = "send"]
      /\ UNCHANGED <<door, made, checker, inbox, compared, used, atOnce, crossed>>
  BY DEF K!Write, K!Replacement
<1>2. k \in 1..made /\ k \in 0..made /\ k \in K!Code /\ k \in 0..MaxCodes
  BY <1>0, <1>1 DEF CodeFacts, K!Code
<1>3. new \in K!Row /\ new.code = k /\ \A v \in K!Via : new.tries[v] = 0
  BY <1>2, NewRowIsARow
<1>4. /\ sender' \in [Actor -> SenderState]
      /\ \A t \in Actor : /\ sender'[t].code = sender[t].code
                          /\ sender'[t].pc = IF t = s THEN "send" ELSE sender[t].pc
  <2>1. q \in SenderState /\ q.pc = "send" /\ q.code = k
    BY <1>0 DEF SenderState, CodeFacts
  <2>2. sender' = [sender EXCEPT ![s] = q]
    BY <1>0, <1>1 DEF CodeFacts
  <2> HIDE DEF q
  <2> QED BY <1>0, <2>1, <2>2 DEF CodeFacts
<1>5. /\ row.code # k /\ used[k] = 0 /\ \A v \in K!Via : compared[k][v] = 0
      /\ \A c \in Other : checker[c].pc # "idle" => checker[c].code # k
  BY <1>1 DEF CodesInv, NotYetKnown
<1> HIDE DEF new, q
<1>6. CodeFacts'
  <2>1. row' \in K!Row /\ row'.code \in 0..made /\ row'.tries \in [K!Via -> Nat]
    BY <1>1, <1>2, <1>3 DEF K!Row
  <2>2. \A t \in Actor : sender'[t].code \in 0..made
                         /\ (sender'[t].pc # "idle" => sender'[t].code \in 1..made)
    BY <1>0, <1>2, <1>4 DEF CodeFacts
  <2> QED BY <1>0, <1>1, <1>4, <2>1, <2>2 DEF CodeFacts
<1>7. Unmade' /\ CodesDiffer'
  BY <1>1, <1>4 DEF CodesInv, Unmade, CodesDiffer
<1>8. TriesCounted'
  <2> SUFFICES ASSUME NEW j \in K!Code, NEW v \in K!Via
               PROVE  /\ compared[j][v] + Cardinality(Comparing(j, v)) <= MAX_ATTEMPTS
                      /\ row'.code = j =>
                           /\ compared[j][v] + Cardinality(Comparing(j, v)) = 0
                           /\ row'.tries[v] = 0
    BY <1>0, <1>1, SameComparing DEF TriesCounted, AtMost, CodeFacts
  <2>1. compared[j][v] + Cardinality(Comparing(j, v)) <= MAX_ATTEMPTS
    BY DEF CodesInv, TriesCounted
  <2>2. ASSUME j = k PROVE compared[j][v] = 0 /\ Comparing(j, v) = {}
    BY <1>5, <2>2 DEF Comparing
  <2> QED BY <1>1, <1>3, <2>1, <2>2, FS_EmptySet
<1>9. NotYetKnown'
  <2> SUFFICES ASSUME NEW t \in Actor, sender'[t].pc = "write"
               PROVE  /\ row'.code # sender'[t].code /\ used[sender'[t].code] = 0
                      /\ \A v \in K!Via : compared[sender'[t].code][v] = 0
                      /\ \A c \in Other : checker[c].pc # "idle" => checker[c].code # sender'[t].code
    BY <1>1 DEF NotYetKnown
  <2>1. t # s /\ sender[t].pc = "write" /\ sender'[t].code = sender[t].code
    BY <1>4
  <2>2. sender[t].code # k
    BY <1>1, <2>1 DEF CodesInv, CodesDiffer
  <2> QED BY <1>1, <1>3, <2>1, <2>2 DEF CodesInv, NotYetKnown
<1>10. OneCheck'
  <2> SUFFICES ASSUME NEW j \in K!Code, j \notin atOnce, used[j] = 1,
                      ~\E c \in Other : checker[c].pc = "consume" /\ checker[c].code = j
               PROVE  row'.code # j
                      /\ \A c \in Other : checker[c].pc # "idle" => checker[c].code # j
    BY <1>1 DEF CodesInv, OneCheck
  <2> QED BY <1>1, <1>3, <1>5 DEF CodesInv, OneCheck
<1>11. NewestStands'
  <2> SUFFICES ASSUME NEW j \in K!Code, j = made, used[j] = 0, j \notin crossed
               PROVE  /\ row'.code = j
                      /\ \A t \in Actor : sender'[t].pc # "idle" =>
                           sender'[t].pc = "send" /\ sender'[t].code = j
                      /\ \A c \in Other : checker[c].pc = "idle"
    BY <1>1 DEF NewestStands
  <2>1. CASE /\ \A c \in Other : checker[c].pc = "idle"
             /\ \E t \in Actor : /\ sender[t].pc = "write" /\ sender[t].code = j
                                 /\ \A u \in Actor \ {t} : sender[u].pc = "idle"
    <3>1. k = j /\ \A u \in Actor \ {s} : sender[u].pc = "idle"
      BY <1>1, <2>1
    <3> QED BY <1>1, <1>3, <1>4, <2>1, <3>1
  <2>2. CASE \A t \in Actor : sender[t].pc # "idle" => sender[t].pc = "send"
    BY <1>1, <2>2
  <2> QED BY <2>1, <2>2 DEF CodesInv, NewestStands
<1> QED BY <1>6, <1>7, <1>8, <1>9, <1>10, <1>11, CodesInvParts

LEMMA SendKeepsCodes ==
  ASSUME K!Assumptions, CodesInv, NEW s \in Actor, K!Send(s) PROVE CodesInv'
<1>0. CodeFacts
  BY FactsOfCodes DEF CodesInv
<1> DEFINE q == [pc |-> "idle", code |-> 0, via |-> "typed"]
<1>1. /\ sender[s].pc = "send" /\ sender' = [sender EXCEPT ![s] = q]
      /\ inbox' = Append(inbox, sender[s].code) \/ inbox' = inbox
      /\ UNCHANGED <<door, row, made, checker, compared, used, atOnce, crossed>>
  BY DEF K!Send
<1>2. q \in SenderState /\ q.pc = "idle" /\ q.code = 0
  BY <1>0 DEF SenderState, K!Via, CodeFacts
<1> HIDE DEF q
<1>3. /\ sender' \in [Actor -> SenderState]
      /\ \A t \in Actor : sender'[t] = IF t = s THEN q ELSE sender[t]
  BY <1>0, <1>1, <1>2 DEF CodeFacts
<1>4. inbox' \in Seq(0..MaxCodes) /\ \A i \in DOMAIN inbox' : inbox'[i] \in 1..made
  <2>1. CASE inbox' = inbox
    BY <1>0, <2>1 DEF CodeFacts
  <2>2. CASE inbox' = Append(inbox, sender[s].code)
    <3> DEFINE k == sender[s].code
    <3>1. k \in 1..made /\ k \in 0..MaxCodes /\ inbox \in Seq(0..MaxCodes)
          /\ \A i \in DOMAIN inbox : inbox[i] \in 1..made
      BY <1>0, <1>1 DEF CodeFacts
    <3>2. inbox' = Append(inbox, k)
      BY <2>2
    <3> HIDE DEF k
    <3>3. inbox' \in Seq(0..MaxCodes)
      BY <3>1, <3>2
    <3>4. \A i \in DOMAIN inbox' : inbox'[i] \in 1..made
      BY <3>1, <3>2
    <3> QED BY <3>3, <3>4
  <2> QED BY <1>1, <2>1, <2>2
<1>5. CodeFacts'
  <2>1. 0 \in 0..made
    BY <1>0 DEF CodeFacts
  <2> QED BY <1>0, <1>1, <1>2, <1>3, <1>4, <2>1 DEF CodeFacts
<1>6. Unmade' /\ CodesDiffer' /\ OneCheck'
  BY <1>1, <1>2, <1>3 DEF CodesInv, Unmade, CodesDiffer, OneCheck
<1>7. TriesCounted'
  BY <1>1, SameComparing DEF CodesInv, TriesCounted, AtMost
<1>8. NotYetKnown'
  BY <1>1, <1>2, <1>3 DEF CodesInv, NotYetKnown
<1>9. NewestStands'
  <2> SUFFICES ASSUME NEW j \in K!Code, j = made, used[j] = 0, j \notin crossed
               PROVE  /\ row.code = j
                      /\ \A t \in Actor : sender'[t].pc # "idle" =>
                           sender'[t].pc = "send" /\ sender'[t].code = j
                      /\ \A c \in Other : checker[c].pc # "idle" =>
                           checker[c].code = j /\ checker[c].pc # "consume"
    BY <1>1 DEF NewestStands
  <2>1. \A t \in Actor : ~(sender[t].pc = "write" /\ \A u \in Actor \ {t} : sender[u].pc = "idle")
    BY <1>1
  <2> QED BY <1>2, <1>3, <2>1 DEF CodesInv, NewestStands
<1> QED BY <1>5, <1>6, <1>7, <1>8, <1>9, CodesInvParts

\* One check changes.
LEMMA OneCheckMoves ==
  ASSUME CodeFacts, NEW c \in Other, NEW r \in CheckerState,
         r.code \in 0..made, r.pc # "idle" => r.code \in 1..made,
         checker' = [checker EXCEPT ![c] = r], UNCHANGED made
  PROVE  /\ checker' \in [Other -> CheckerState]
         /\ \A d \in Other : checker'[d] = IF d = c THEN r ELSE checker[d]
         /\ \A d \in Other : checker'[d].code \in 0..made'
                             /\ (checker'[d].pc # "idle" => checker'[d].code \in 1..made')
<1>1. /\ checker' \in [Other -> CheckerState]
      /\ \A d \in Other : checker'[d] = IF d = c THEN r ELSE checker[d]
  BY DEF CodeFacts
<1>2. ASSUME NEW d \in Other
      PROVE  checker'[d].code \in 0..made'
             /\ (checker'[d].pc # "idle" => checker'[d].code \in 1..made')
  <2>1. CASE d = c
    BY <1>1, <2>1
  <2>2. CASE d # c
    <3>1. checker'[d] = checker[d]
      BY <1>1, <2>2
    <3> QED BY <3>1 DEF CodeFacts
  <2> QED BY <2>1, <2>2
<1> QED BY <1>1, <1>2

LEMMA RestingIsACheck ==
  ASSUME K!Assumptions, CodeFacts
  PROVE  K!Resting \in CheckerState /\ K!Resting.pc = "idle" /\ K!Resting.code \in 0..made
<1>1. 0 \in 0..MaxCodes /\ 0 \in 0..made /\ "typed" \in K!Via
  BY DEF K!Via, CodeFacts
<1> QED BY <1>1 DEF K!Resting, CheckerState

\* A check that will use its code, when no other was under way with it, is its first use.
LEMMA FirstUse ==
  ASSUME CodesInv, CodeFacts, NEW c \in Other, checker[c].pc = "use",
         checker[c].code \notin atOnce
  PROVE  /\ used[checker[c].code] = 0
         /\ \A d \in Other \ {c} : checker[d].pc # "idle" => checker[d].code # checker[c].code
<1> DEFINE k == checker[c].code
<1>1. k \in K!Code /\ used[k] \in Nat
  BY DEF CodeFacts
<1>2. \A d \in Other \ {c} : checker[d].pc # "idle" => checker[d].code # k
  BY <1>1 DEF CodesInv, OneCheck
<1>3. used[k] <= 1 /\ used[k] # 1
  BY <1>1, <1>2 DEF CodesInv, OneCheck
<1> QED BY <1>1, <1>2, <1>3

LEMMA CountKeepsCodes ==
  ASSUME K!Assumptions, CodesInv, NEW c \in Other, NEW v \in K!Via,
         NEW typed \in {0} \cup {inbox[i] : i \in DOMAIN inbox}, K!Count(c, typed, v)
  PROVE  CodesInv'
<1>0. CodeFacts
  BY FactsOfCodes DEF CodesInv
<1> DEFINE k == row.code
           r == [pc |-> "compare", code |-> k, typed |-> typed, via |-> v]
<1>1. /\ checker[c].pc = "idle" /\ k # 0 /\ row.tries[v] <= MAX_ATTEMPTS
      /\ row' = [row EXCEPT !.tries[v] = row.tries[v] + 1]
      /\ crossed' = crossed \cup K!Sending
      /\ UNCHANGED <<door, made, sender, inbox, compared, used>>
  BY DEF K!Count, K!Tries
<1>2. \/ /\ row.tries[v] + 1 > MAX_ATTEMPTS \/ row.expired
         /\ UNCHANGED <<checker, atOnce>>
      \/ /\ row.tries[v] + 1 <= MAX_ATTEMPTS /\ ~row.expired
         /\ checker' = [checker EXCEPT ![c] = r]
         /\ atOnce' = IF K!Others(c, k) # {} THEN atOnce \cup {k} ELSE atOnce
  <2>1. row.tries[v] \in Nat /\ MAX_ATTEMPTS \in Nat
    BY <1>0 DEF CodeFacts
  <2> QED BY <2>1 DEF K!Count, K!Tries
<1>3. k \in 1..made /\ k \in 0..made /\ k \in K!Code /\ k \in 0..MaxCodes
  BY <1>0, <1>1 DEF CodeFacts, K!Code
<1>4. row' \in K!Row /\ row'.code = k /\ row'.expired = row.expired
      /\ row'.tries \in [K!Via -> Nat]
      /\ \A w \in K!Via : row'.tries[w] = IF w = v THEN row.tries[v] + 1 ELSE row.tries[w]
  <2> DEFINE new == [row.tries EXCEPT ![v] = row.tries[v] + 1]
  <2>1. /\ new \in [K!Via -> Nat]
        /\ \A w \in K!Via : new[w] = IF w = v THEN row.tries[v] + 1 ELSE row.tries[w]
    BY <1>0 DEF CodeFacts
  <2>2. row' = [row EXCEPT !.tries = new] /\ row \in K!Row
    BY <1>0, <1>1 DEF CodeFacts
  <2> HIDE DEF new
  <2> QED BY <2>1, <2>2 DEF K!Row
<1>5. typed \in 0..MaxCodes
  BY <1>0 DEF CodeFacts, K!Code
<1>6. r \in CheckerState /\ r.pc = "compare" /\ r.code = k /\ r.via = v
  BY <1>3, <1>5 DEF CheckerState
<1> HIDE DEF r
<1>7. CASE UNCHANGED <<checker, atOnce>>
           /\ (row.tries[v] + 1 > MAX_ATTEMPTS \/ row.expired)
  <2>1. CodeFacts'
    BY <1>0, <1>1, <1>3, <1>4, <1>7 DEF CodeFacts
  <2>2. Unmade' /\ NotYetKnown' /\ CodesDiffer' /\ OneCheck' /\ NewestStands'
    BY <1>1, <1>4, <1>7 DEF CodesInv, Unmade, NotYetKnown, CodesDiffer, OneCheck, NewestStands
  <2>3. TriesCounted'
    <3> SUFFICES ASSUME NEW j \in K!Code, NEW w \in K!Via
                 PROVE  LET n == compared[j][w] + Cardinality(Comparing(j, w)) IN
                        /\ n <= MAX_ATTEMPTS
                        /\ row'.code = j =>
                             /\ n <= row'.tries[w]
                             /\ ~row'.expired => n = AtMost(row'.tries[w])
      BY <1>1, <1>7, SameComparing DEF TriesCounted, AtMost
    <3> DEFINE n == compared[j][w] + Cardinality(Comparing(j, w))
    <3>1. /\ n <= MAX_ATTEMPTS
          /\ row.code = j => n <= row.tries[w] /\ (~row.expired => n = AtMost(row.tries[w]))
      BY DEF CodesInv, TriesCounted
    <3>2. n \in Nat /\ row.tries[w] \in Nat /\ MAX_ATTEMPTS \in Nat
      BY <1>0, ComparingCounts DEF CodeFacts
    <3> HIDE DEF n
    <3>3. CASE w = v
      BY <1>1, <1>4, <1>7, <3>1, <3>2, <3>3 DEF AtMost, n
    <3>4. CASE w # v
      BY <1>4, <3>1, <3>2, <3>4 DEF n
    <3> QED BY <3>3, <3>4
  <2> QED BY <2>1, <2>2, <2>3, CodesInvParts
<1>8. CASE /\ row.tries[v] + 1 <= MAX_ATTEMPTS /\ ~row.expired
           /\ checker' = [checker EXCEPT ![c] = r]
           /\ atOnce' = IF K!Others(c, k) # {} THEN atOnce \cup {k} ELSE atOnce
  <2>0. /\ checker' \in [Other -> CheckerState]
        /\ \A d \in Other : checker'[d] = IF d = c THEN r ELSE checker[d]
        /\ \A d \in Other : checker'[d].code \in 0..made'
                            /\ (checker'[d].pc # "idle" => checker'[d].code \in 1..made')
    BY <1>0, <1>1, <1>3, <1>6, <1>8, OneCheckMoves
  <2>1. CodeFacts'
    BY <1>0, <1>1, <1>3, <1>4, <2>0 DEF CodeFacts
  <2>2. Unmade' /\ CodesDiffer'
    BY <1>1 DEF CodesInv, Unmade, CodesDiffer
  <2>3. NotYetKnown'
    BY <1>1, <1>4, <1>6, <2>0 DEF CodesInv, NotYetKnown
  <2>4. TriesCounted'
    <3> SUFFICES ASSUME NEW j \in K!Code, NEW w \in K!Via
                 PROVE  LET n == compared[j][w] + Cardinality(Comparing(j, w)') IN
                        /\ n <= MAX_ATTEMPTS
                        /\ row'.code = j =>
                             /\ n <= row'.tries[w]
                             /\ ~row'.expired => n = AtMost(row'.tries[w])
      BY <1>1 DEF TriesCounted, AtMost
    <3> DEFINE m == compared[j][w] + Cardinality(Comparing(j, w))
               n == compared[j][w] + Cardinality(Comparing(j, w)')
    <3>1. /\ m <= MAX_ATTEMPTS
          /\ row.code = j => m <= row.tries[w] /\ (~row.expired => m = AtMost(row.tries[w]))
      BY DEF CodesInv, TriesCounted
    <3>2. m \in Nat /\ row.tries[w] \in Nat /\ MAX_ATTEMPTS \in Nat /\ row.tries[v] \in Nat
          /\ compared[j][w] \in Nat /\ Cardinality(Comparing(j, w)) \in Nat
      BY <1>0, ComparingCounts DEF CodeFacts
    <3>3. CASE j = k /\ w = v
      <4>1. Comparing(j, w)' = Comparing(j, w) \cup {c} /\ c \notin Comparing(j, w)
        BY <1>1, <1>6, <2>0, <3>3 DEF Comparing
      <4>2. n = m + 1
        <5>1. Cardinality(Comparing(j, w)') = Cardinality(Comparing(j, w)) + 1
          BY <4>1, ComparingCounts, FS_AddElement
        <5> QED BY <3>2, <5>1
      <4> HIDE DEF m, n
      <4>3. row.code = j => m = row.tries[v]
        BY <1>8, <3>1, <3>2, <3>3 DEF AtMost
      <4>4. row'.tries[w] = row.tries[v] + 1 /\ row'.code = row.code /\ row.code = j
        BY <1>4, <3>3
      <4>5. n <= MAX_ATTEMPTS /\ n = row'.tries[w] /\ n = AtMost(row'.tries[w])
        BY <1>8, <3>2, <4>2, <4>3, <4>4 DEF AtMost
      <4>6. n \in Nat
        BY <3>2, <4>2
      <4> QED BY <4>5, <4>6 DEF n
    <3>4. CASE ~(j = k /\ w = v)
      <4>1. Comparing(j, w)' = Comparing(j, w)
        BY <1>1, <1>6, <2>0, <3>4 DEF Comparing
      <4> QED BY <1>4, <3>1, <3>4, <4>1
    <3> QED BY <3>3, <3>4
  <2>5. OneCheck'
    <3> SUFFICES ASSUME NEW j \in K!Code, j \notin atOnce'
                 PROVE  /\ \A x, d \in Other :
                             x # d /\ checker'[x].pc # "idle" /\ checker'[d].pc # "idle"
                               /\ checker'[x].code = j => checker'[d].code # j
                        /\ used[j] <= 1
                        /\ used[j] = 1 =>
                             \/ \E x \in Other : checker'[x].pc = "consume" /\ checker'[x].code = j
                             \/ row'.code # j
                                /\ \A x \in Other : checker'[x].pc # "idle" => checker'[x].code # j
      BY <1>1 DEF OneCheck
    <3>1. j \notin atOnce
      BY <1>8
    <3>2. CASE j = k
      <4>1. \A d \in Other \ {c} : checker[d].pc # "idle" => checker[d].code # k
        BY <1>8, <3>2 DEF K!Others
      <4>2. used[k] # 1 /\ used[k] <= 1
        BY <1>1, <3>1, <3>2, <4>1 DEF CodesInv, OneCheck
      <4> QED BY <2>0, <3>2, <4>1, <4>2
    <3>3. CASE j # k
      <4>1. \A d \in Other : checker'[d].pc # "idle" /\ checker'[d].code = j =>
              d # c /\ checker[d] = checker'[d]
        BY <1>6, <2>0, <3>3
      <4>2. \A d \in Other : checker[d].pc = "consume" => checker'[d] = checker[d]
        BY <1>1, <2>0
      <4> QED BY <1>4, <3>1, <3>3, <4>1, <4>2 DEF CodesInv, OneCheck
    <3> QED BY <3>2, <3>3
  <2>6. NewestStands'
    <3> SUFFICES ASSUME NEW j \in K!Code, j = made, used[j] = 0, j \notin crossed'
                 PROVE  /\ row'.code = j
                        /\ \A t \in Actor : sender[t].pc # "idle" =>
                             sender[t].pc = "send" /\ sender[t].code = j
                        /\ \A d \in Other : checker'[d].pc # "idle" =>
                             checker'[d].code = j /\ checker'[d].pc # "consume"
      BY <1>1 DEF NewestStands
    <3>1. \A t \in Actor : sender[t].pc # "idle" => sender[t].code # j
      BY <1>1 DEF K!Sending
    <3>2. /\ row.code = j
          /\ \A t \in Actor : sender[t].pc # "idle" => sender[t].pc = "send" /\ sender[t].code = j
          /\ \A d \in Other : checker[d].pc # "idle" =>
               checker[d].code = j /\ checker[d].pc # "consume"
      BY <1>1, <3>1 DEF CodesInv, NewestStands
    <3> QED BY <1>4, <1>6, <2>0, <3>2
  <2> QED BY <2>1, <2>2, <2>3, <2>4, <2>5, <2>6, CodesInvParts
<1> QED BY <1>2, <1>7, <1>8

LEMMA CompareKeepsCodes ==
  ASSUME K!Assumptions, CodesInv, NEW c \in Other, K!Compare(c) PROVE CodesInv'
<1>0. CodeFacts
  BY FactsOfCodes DEF CodesInv
<1> DEFINE k == checker[c].code
           v == checker[c].via
           r == IF checker[c].typed = k THEN [checker[c] EXCEPT !.pc = "use"] ELSE K!Resting
<1>1. /\ checker[c].pc = "compare"
      /\ compared' = [compared EXCEPT ![k][v] = @ + 1]
      /\ checker' = [checker EXCEPT ![c] = r]
      /\ UNCHANGED <<door, row, made, sender, inbox, used, atOnce, crossed>>
  BY <1>0 DEF K!Compare, CodeFacts
<1>2. k \in 1..made /\ k \in 0..made /\ k \in K!Code /\ v \in K!Via
  BY <1>0, <1>1 DEF CodeFacts, CheckerState
<1>3. r \in CheckerState /\ r.code \in 0..made /\ r.pc \in {"idle", "use"}
      /\ (r.pc # "idle" => r.code = k)
  BY <1>0, <1>2, RestingIsACheck DEF CodeFacts, CheckerState
<1> HIDE DEF r
<1>4. /\ checker' \in [Other -> CheckerState]
      /\ \A d \in Other : checker'[d] = IF d = c THEN r ELSE checker[d]
      /\ \A d \in Other : checker'[d].code \in 0..made'
                          /\ (checker'[d].pc # "idle" => checker'[d].code \in 1..made')
  BY <1>0, <1>1, <1>2, <1>3, OneCheckMoves
<1>5. /\ compared' \in [K!Code -> [K!Via -> Nat]]
      /\ \A j \in K!Code, w \in K!Via : compared'[j][w] =
           IF j = k /\ w = v THEN compared[j][w] + 1 ELSE compared[j][w]
  <2>1. compared[k] \in [K!Via -> Nat] /\ compared \in [K!Code -> [K!Via -> Nat]]
    BY <1>0, <1>2 DEF CodeFacts
  <2>2. [compared[k] EXCEPT ![v] = @ + 1] \in [K!Via -> Nat]
    BY <1>2, <2>1
  <2>3. compared' = [compared EXCEPT ![k] = [compared[k] EXCEPT ![v] = @ + 1]]
    BY <1>1
  <2> HIDE DEF k, v
  <2> QED BY <1>2, <2>1, <2>2, <2>3
<1>6. \A d \in Other : checker'[d].pc # "idle" =>
        /\ checker[d].pc # "idle" /\ checker[d].code = checker'[d].code
        /\ checker'[d].pc = "consume" => checker[d].pc = "consume"
  BY <1>1, <1>3, <1>4
<1> HIDE DEF k, v
<1>7. CodeFacts'
  BY <1>0, <1>1, <1>4, <1>5 DEF CodeFacts
<1>8. CodesDiffer'
  BY <1>1 DEF CodesInv, CodesDiffer
<1>9. Unmade'
  BY <1>0, <1>1, <1>2, <1>5 DEF CodesInv, Unmade, CodeFacts
<1>10. NotYetKnown'
  <2> SUFFICES ASSUME NEW t \in Actor, sender[t].pc = "write"
               PROVE  /\ row.code # sender[t].code /\ used[sender[t].code] = 0
                      /\ \A w \in K!Via : compared'[sender[t].code][w] = 0
                      /\ \A d \in Other : checker'[d].pc # "idle" => checker'[d].code # sender[t].code
    BY <1>1 DEF NotYetKnown
  <2>1. sender[t].code \in K!Code /\ sender[t].code # k
    BY <1>0, <1>1 DEF CodesInv, NotYetKnown, CodeFacts, k
  <2> QED BY <1>5, <1>6, <2>1 DEF CodesInv, NotYetKnown
<1>11. TriesCounted'
  <2> SUFFICES ASSUME NEW j \in K!Code, NEW w \in K!Via
               PROVE  compared'[j][w] + Cardinality(Comparing(j, w)')
                        = compared[j][w] + Cardinality(Comparing(j, w))
    BY <1>1 DEF CodesInv, TriesCounted, AtMost
  <2>1. compared[j][w] \in Nat /\ IsFiniteSet(Comparing(j, w))
        /\ Cardinality(Comparing(j, w)) \in Nat
    BY <1>0, ComparingCounts DEF CodeFacts
  <2>2. CASE j = k /\ w = v
    <3>1. Comparing(j, w)' = Comparing(j, w) \ {c} /\ c \in Comparing(j, w)
      BY <1>1, <1>3, <1>4, <2>2 DEF Comparing, k, v
    <3>2. Cardinality(Comparing(j, w)') = Cardinality(Comparing(j, w)) - 1
      BY <2>1, <3>1, FS_RemoveElement
    <3> QED BY <1>5, <2>1, <2>2, <3>2
  <2>3. CASE ~(j = k /\ w = v)
    <3>1. Comparing(j, w)' = Comparing(j, w)
      BY <1>1, <1>3, <1>4, <2>3 DEF Comparing, k, v
    <3> QED BY <1>5, <2>3, <3>1
  <2> QED BY <2>2, <2>3
<1>12. OneCheck'
  <2>1. \A d \in Other : checker[d].pc = "consume" => checker'[d] = checker[d]
    BY <1>1, <1>4
  <2> QED BY <1>1, <1>6, <2>1 DEF CodesInv, OneCheck
<1>13. NewestStands'
  BY <1>1, <1>6 DEF CodesInv, NewestStands
<1> QED BY <1>7, <1>8, <1>9, <1>10, <1>11, <1>12, <1>13, CodesInvParts

LEMMA UseKeepsCodes ==
  ASSUME K!Assumptions, CodesInv, NEW c \in Other, K!Use(c) PROVE CodesInv'
<1>0. CodeFacts
  BY FactsOfCodes DEF CodesInv
<1> DEFINE k == checker[c].code
<1>1. /\ checker[c].pc = "use" /\ row' = K!NoCode
      /\ used' = [used EXCEPT ![k] = @ + 1]
      /\ checker' = [checker EXCEPT ![c] = K!Resting]
      /\ UNCHANGED <<door, made, sender, inbox, compared, atOnce, crossed>>
  BY DEF K!Use, K!WithoutCode
<1>2. k \in 1..made /\ k \in K!Code /\ 0 \in 0..made
  BY <1>0, <1>1 DEF CodeFacts
<1>3. /\ checker' \in [Other -> CheckerState]
      /\ \A d \in Other : checker'[d] = IF d = c THEN K!Resting ELSE checker[d]
      /\ \A d \in Other : checker'[d].code \in 0..made'
                          /\ (checker'[d].pc # "idle" => checker'[d].code \in 1..made')
  BY <1>0, <1>1, RestingIsACheck, OneCheckMoves
<1>4. \A d \in Other : checker'[d].pc # "idle" => d # c /\ checker'[d] = checker[d]
  BY <1>0, <1>3, RestingIsACheck
<1>5. /\ used' \in [K!Code -> Nat]
      /\ \A j \in K!Code : used'[j] = IF j = k THEN used[k] + 1 ELSE used[j]
  BY <1>0, <1>1, <1>2 DEF CodeFacts
<1>6. row' \in K!Row /\ row'.code = 0 /\ row'.tries \in [K!Via -> Nat]
  BY <1>1, NoCodeIsARow DEF K!Row
<1>7. CodeFacts'
  BY <1>0, <1>1, <1>2, <1>3, <1>5, <1>6 DEF CodeFacts
<1>8. Unmade' /\ CodesDiffer'
  BY <1>0, <1>1, <1>2, <1>5 DEF CodesInv, Unmade, CodesDiffer, CodeFacts
<1>9. NotYetKnown'
  <2> SUFFICES ASSUME NEW s \in Actor, sender[s].pc = "write"
               PROVE  /\ row'.code # sender[s].code /\ used'[sender[s].code] = 0
                      /\ \A v \in K!Via : compared[sender[s].code][v] = 0
                      /\ \A d \in Other : checker'[d].pc # "idle" => checker'[d].code # sender[s].code
    BY <1>1 DEF NotYetKnown
  <2>1. sender[s].code \in K!Code /\ sender[s].code # k /\ sender[s].code # 0
    BY <1>0, <1>1 DEF CodesInv, NotYetKnown, CodeFacts
  <2> QED BY <1>4, <1>5, <1>6, <2>1 DEF CodesInv, NotYetKnown
<1>10. TriesCounted'
  <2>1. \A j, v : Comparing(j, v)' = Comparing(j, v)
    BY <1>1, <1>3, <1>4 DEF Comparing
  <2> QED BY <1>1, <1>6, <2>1 DEF CodesInv, TriesCounted, K!Code
<1>11. OneCheck'
  <2> SUFFICES ASSUME NEW j \in K!Code, j \notin atOnce
               PROVE  /\ \A x, d \in Other :
                           x # d /\ checker'[x].pc # "idle" /\ checker'[d].pc # "idle"
                             /\ checker'[x].code = j => checker'[d].code # j
                      /\ used'[j] <= 1
                      /\ used'[j] = 1 =>
                           \/ \E x \in Other : checker'[x].pc = "consume" /\ checker'[x].code = j
                           \/ row'.code # j
                              /\ \A x \in Other : checker'[x].pc # "idle" => checker'[x].code # j
    BY <1>1 DEF OneCheck
  <2>1. CASE j = k
    BY <1>0, <1>1, <1>2, <1>4, <1>5, <1>6, <2>1, FirstUse
  <2>2. CASE j # k
    <3>1. \A d \in Other : checker[d].pc = "consume" => checker'[d] = checker[d]
      BY <1>1, <1>3
    <3>2. row'.code # j /\ used'[j] = used[j]
      BY <1>5, <1>6, <2>2 DEF K!Code
    <3> QED BY <1>4, <3>1, <3>2 DEF CodesInv, OneCheck
  <2> QED BY <2>1, <2>2
<1>12. NewestStands'
  <2> SUFFICES ASSUME NEW j \in K!Code, j = made, used'[j] = 0, j \notin crossed PROVE FALSE
    BY <1>1 DEF NewestStands
  <2>1. j # k /\ used[j] = 0
    BY <1>0, <1>2, <1>5 DEF CodeFacts
  <2> QED BY <1>1, <2>1 DEF CodesInv, NewestStands
<1> QED BY <1>7, <1>8, <1>9, <1>10, <1>11, <1>12, CodesInvParts

LEMMA BookKeepsCodes ==
  ASSUME K!Assumptions, CodesInv, NEW c \in Other, K!Book(c) PROVE CodesInv'
<1>0. CodeFacts
  BY FactsOfCodes DEF CodesInv
<1> DEFINE k == checker[c].code
           r == [checker[c] EXCEPT !.pc = "consume"]
<1>1. /\ checker[c].pc = "use"
      /\ UNCHANGED <<door, row, made, sender, inbox, compared, atOnce, crossed>>
      /\ \/ used' = [used EXCEPT ![k] = @ + 1] /\ checker' = [checker EXCEPT ![c] = r]
         \/ UNCHANGED used /\ checker' = [checker EXCEPT ![c] = K!Resting]
  BY <1>0 DEF K!Book, CodeFacts
<1>2. k \in 1..made /\ k \in 0..made /\ k \in K!Code
  BY <1>0, <1>1 DEF CodeFacts
<1>3. r \in CheckerState /\ r.pc = "consume" /\ r.code = k
  BY <1>0 DEF CodeFacts, CheckerState
<1> HIDE DEF r
<1>4. /\ checker' \in [Other -> CheckerState]
      /\ \A d \in Other : d # c => checker'[d] = checker[d]
      /\ \A d \in Other : checker'[d].code \in 0..made'
                          /\ (checker'[d].pc # "idle" => checker'[d].code \in 1..made')
  <2>1. CASE checker' = [checker EXCEPT ![c] = r]
    BY <1>0, <1>1, <1>2, <1>3, <2>1, OneCheckMoves
  <2>2. CASE checker' = [checker EXCEPT ![c] = K!Resting]
    BY <1>0, <1>1, <2>2, RestingIsACheck, OneCheckMoves
  <2> QED BY <1>1, <2>1, <2>2
<1>5. \/ /\ checker'[c] = r
         /\ used' \in [K!Code -> Nat]
         /\ \A j \in K!Code : used'[j] = IF j = k THEN used[k] + 1 ELSE used[j]
      \/ checker'[c].pc = "idle" /\ UNCHANGED used
  <2>1. /\ checker \in [Other -> CheckerState] /\ used \in [K!Code -> Nat]
        /\ K!Resting.pc = "idle"
    BY <1>0, RestingIsACheck DEF CodeFacts
  <2>2. CASE used' = [used EXCEPT ![k] = @ + 1] /\ checker' = [checker EXCEPT ![c] = r]
    BY <1>2, <2>1, <2>2
  <2>3. CASE UNCHANGED used /\ checker' = [checker EXCEPT ![c] = K!Resting]
    BY <2>1, <2>3
  <2> QED BY <1>1, <2>2, <2>3
<1>6. \A d \in Other : checker'[d].pc # "idle" => checker'[d].code = checker[d].code
                                                 /\ checker[d].pc # "idle"
  BY <1>1, <1>3, <1>4, <1>5
<1> HIDE DEF k
<1>7. CodeFacts'
  BY <1>0, <1>1, <1>4, <1>5 DEF CodeFacts
<1>8. Unmade' /\ CodesDiffer'
  BY <1>0, <1>1, <1>2, <1>5 DEF CodesInv, Unmade, CodesDiffer, CodeFacts
<1>9. NotYetKnown'
  <2> SUFFICES ASSUME NEW s \in Actor, sender[s].pc = "write"
               PROVE  /\ row.code # sender[s].code /\ used'[sender[s].code] = 0
                      /\ \A v \in K!Via : compared[sender[s].code][v] = 0
                      /\ \A d \in Other : checker'[d].pc # "idle" => checker'[d].code # sender[s].code
    BY <1>1 DEF NotYetKnown
  <2>1. sender[s].code \in K!Code /\ sender[s].code # k
    BY <1>0, <1>1 DEF CodesInv, NotYetKnown, CodeFacts, k
  <2> QED BY <1>5, <1>6, <2>1 DEF CodesInv, NotYetKnown
<1>10. TriesCounted'
  <2>1. \A j, v : Comparing(j, v)' = Comparing(j, v)
    BY <1>1, <1>3, <1>4, <1>5 DEF Comparing
  <2> QED BY <1>1, <2>1 DEF CodesInv, TriesCounted, AtMost
<1>11. OneCheck'
  <2> SUFFICES ASSUME NEW j \in K!Code, j \notin atOnce
               PROVE  /\ \A x, d \in Other :
                           x # d /\ checker'[x].pc # "idle" /\ checker'[d].pc # "idle"
                             /\ checker'[x].code = j => checker'[d].code # j
                      /\ used'[j] <= 1
                      /\ used'[j] = 1 =>
                           \/ \E x \in Other : checker'[x].pc = "consume" /\ checker'[x].code = j
                           \/ row.code # j
                              /\ \A x \in Other : checker'[x].pc # "idle" => checker'[x].code # j
    BY <1>1 DEF OneCheck
  <2>1. \A d \in Other : checker[d].pc = "consume" => checker'[d] = checker[d]
    BY <1>1, <1>4
  <2>2. CASE j = k /\ checker'[c] = r
    <3>1. used[j] = 0
      BY <1>0, <1>1, <2>2, FirstUse DEF k
    <3>2. used'[j] <= 1
      BY <1>5, <2>2, <3>1
    <3> QED BY <1>3, <1>6, <2>2, <3>2 DEF CodesInv, OneCheck
  <2>3. CASE ~(j = k /\ checker'[c] = r)
    <3>1. used'[j] = used[j]
      BY <1>5, <2>3
    <3> QED BY <1>6, <2>1, <3>1 DEF CodesInv, OneCheck
  <2> QED BY <2>2, <2>3
<1>12. NewestStands'
  <2> SUFFICES ASSUME NEW j \in K!Code, j = made, used'[j] = 0, j \notin crossed
               PROVE  /\ row.code = j
                      /\ \A s \in Actor : sender[s].pc # "idle" =>
                           sender[s].pc = "send" /\ sender[s].code = j
                      /\ \A d \in Other : checker'[d].pc # "idle" =>
                           checker'[d].code = j /\ checker'[d].pc # "consume"
    BY <1>1 DEF NewestStands
  <2>1. used[j] = 0 /\ (checker'[c] = r => j # k)
    BY <1>0, <1>2, <1>3, <1>5 DEF CodeFacts
  <2>2. /\ row.code = j
        /\ \A s \in Actor : sender[s].pc # "idle" => sender[s].pc = "send" /\ sender[s].code = j
        /\ \A d \in Other : checker[d].pc # "idle" =>
             checker[d].code = j /\ checker[d].pc # "consume"
    BY <1>1, <2>1 DEF CodesInv, NewestStands
  <2>3. checker'[c].pc = "idle"
    BY <1>1, <1>5, <2>1, <2>2 DEF k
  <2> QED BY <1>4, <2>2, <2>3
<1> QED BY <1>7, <1>8, <1>9, <1>10, <1>11, <1>12, CodesInvParts

LEMMA ConsumeKeepsCodes ==
  ASSUME K!Assumptions, CodesInv, NEW c \in Other, K!Consume(c) PROVE CodesInv'
<1>0. CodeFacts
  BY FactsOfCodes DEF CodesInv
<1> DEFINE k == checker[c].code
<1>1. /\ checker[c].pc = "consume" /\ row' = K!NoCode
      /\ checker' = [checker EXCEPT ![c] = K!Resting]
      /\ UNCHANGED <<door, made, sender, inbox, compared, used, atOnce, crossed>>
  BY DEF K!Consume, K!WithoutCode
<1>2. k \in 1..made /\ k \in K!Code /\ 0 \in 0..made
  BY <1>0, <1>1 DEF CodeFacts
<1>3. /\ checker' \in [Other -> CheckerState]
      /\ \A d \in Other : checker'[d] = IF d = c THEN K!Resting ELSE checker[d]
      /\ \A d \in Other : checker'[d].code \in 0..made'
                          /\ (checker'[d].pc # "idle" => checker'[d].code \in 1..made')
  BY <1>0, <1>1, RestingIsACheck, OneCheckMoves
<1>4. \A d \in Other : checker'[d].pc # "idle" => d # c /\ checker'[d] = checker[d]
  BY <1>0, <1>3, RestingIsACheck
<1>5. row' \in K!Row /\ row'.code = 0 /\ row'.tries \in [K!Via -> Nat]
  BY <1>1, NoCodeIsARow DEF K!Row
<1>6. CodeFacts'
  BY <1>0, <1>1, <1>2, <1>3, <1>5 DEF CodeFacts
<1>7. Unmade' /\ CodesDiffer'
  BY <1>1 DEF CodesInv, Unmade, CodesDiffer
<1>8. NotYetKnown'
  <2>1. \A s \in Actor : sender[s].pc = "write" => sender[s].code # 0
    BY <1>0 DEF CodeFacts
  <2> QED BY <1>1, <1>4, <1>5, <2>1 DEF CodesInv, NotYetKnown
<1>9. TriesCounted'
  <2>1. \A j, v : Comparing(j, v)' = Comparing(j, v)
    BY <1>1, <1>3, <1>4 DEF Comparing
  <2> QED BY <1>1, <1>5, <2>1 DEF CodesInv, TriesCounted, K!Code
<1>10. OneCheck'
  <2> SUFFICES ASSUME NEW j \in K!Code, j \notin atOnce
               PROVE  /\ \A x, d \in Other :
                           x # d /\ checker'[x].pc # "idle" /\ checker'[d].pc # "idle"
                             /\ checker'[x].code = j => checker'[d].code # j
                      /\ used[j] <= 1
                      /\ used[j] = 1 =>
                           \/ \E x \in Other : checker'[x].pc = "consume" /\ checker'[x].code = j
                           \/ row'.code # j
                              /\ \A x \in Other : checker'[x].pc # "idle" => checker'[x].code # j
    BY <1>1 DEF OneCheck
  <2>1. row'.code # j
    BY <1>5 DEF K!Code
  <2>2. CASE j = k
    BY <1>1, <1>4, <2>1, <2>2 DEF CodesInv, OneCheck
  <2>3. CASE j # k
    <3>1. \A d \in Other : checker[d].pc = "consume" /\ checker[d].code = j =>
            checker'[d] = checker[d]
      BY <1>3, <2>3
    <3> QED BY <1>4, <2>1, <3>1 DEF CodesInv, OneCheck
  <2> QED BY <2>2, <2>3
<1>11. NewestStands'
  <2> SUFFICES ASSUME NEW j \in K!Code, j = made, used[j] = 0, j \notin crossed PROVE FALSE
    BY <1>1 DEF NewestStands
  <2> QED BY <1>1 DEF CodesInv, NewestStands
<1> QED BY <1>6, <1>7, <1>8, <1>9, <1>10, <1>11, CodesInvParts

LEMMA CodesStep ==
  ASSUME K!Assumptions, CodesInv, K!Next PROVE CodesInv'
BY TimeKeepsCodes, LookKeepsCodes, WriteKeepsCodes, SendKeepsCodes, CountKeepsCodes,
   CompareKeepsCodes, UseKeepsCodes, BookKeepsCodes, ConsumeKeepsCodes DEF K!Next

-----------------------------------------------------------------------------
(* The visits.  Each is the one BookPageProofs is about, under other names.  *)

WideProofs == INSTANCE BookPageProofs WITH
  Service <- {"cut"}, Staff <- People, Location <- {"north", "south"}, Date <- {"mon"},
  Today <- "mon", Offers <- Skills,
  WorksAt <- {<<"ann", "north">>, <<"bob", "north">>, <<"bob", "south">>},
  MaxCalls <- 2, MaxPosts <- 1, MaxRivals <- 1, Any <- Anyone

DaysProofs == INSTANCE BookPageProofs WITH
  Service <- {"cut"}, Staff <- People, Location <- {"north"}, Date <- {"mon", "tue"},
  Today <- "mon", Offers <- Skills, WorksAt <- People \X {"north"},
  MaxCalls <- 1, MaxPosts <- 2, MaxRivals <- 1, Any <- Anyone

DeepProofs == INSTANCE BookPageProofs WITH
  Service <- {"cut"}, Staff <- People, Location <- {"north"}, Date <- {"mon"},
  Today <- "mon", Offers <- Skills, WorksAt <- People \X {"north"},
  MaxCalls <- 1, MaxPosts <- 3, MaxRivals <- 0, Any <- Anyone

LEMMA WideStarts == ASSUME Deep!Init PROVE WideProofs!Inv
<1>1. WideProofs!Assumptions
  BY Sane DEF Wide!Assumptions, WideProofs!Assumptions
<1>2. WideProofs!Init
  BY DEF Deep!Init, Deep!FreshPage, WideProofs!Init, WideProofs!FreshPage
<1> QED BY <1>1, <1>2, WideProofs!InvInit

LEMMA WideStep == ASSUME WideProofs!Inv, Wide!Next PROVE WideProofs!Inv'
<1>1. WideProofs!Assumptions
  BY Sane DEF Wide!Assumptions, WideProofs!Assumptions
<1>2. WideProofs!Next
  BY DEF Wide!Next, WideProofs!Next,
    Wide!multi, Wide!inFlow, Wide!Question, Wide!Asks, Wide!Render, Wide!server,
    Wide!ChooseLocation, Wide!ChangeLocation, Wide!PickService, Wide!StaffFor,
    Wide!Candidates, Wide!Free, Wide!Offered, Wide!StaffArrive, Wide!PickStaff,
    Wide!PickDate, Wide!SlotsArrive, Wide!PickSlot, Wide!Continue, Wide!Back, Wide!KeyFor,
    Wide!PostOf, Wide!Filled, Wide!Submit, Wide!OpenWith, Wide!DropKey, Wide!HearBooked,
    Wide!HearError, Wide!HearTaken, Wide!client, Wide!Ends, Wide!Check, Wide!InTurn,
    Wide!TryNext, Wide!Booked, Wide!Recorded, Wide!TryStaff, Wide!SkipStaff,
    Wide!RivalBooks, Wide!Cardinality, WideProofs!multi, WideProofs!inFlow,
    WideProofs!Question, WideProofs!Asks, WideProofs!Render, WideProofs!server,
    WideProofs!ChooseLocation, WideProofs!ChangeLocation, WideProofs!PickService,
    WideProofs!StaffFor, WideProofs!Candidates, WideProofs!Free, WideProofs!Offered,
    WideProofs!StaffArrive, WideProofs!PickStaff, WideProofs!PickDate,
    WideProofs!SlotsArrive, WideProofs!PickSlot, WideProofs!Continue, WideProofs!Back,
    WideProofs!KeyFor, WideProofs!PostOf, WideProofs!Filled, WideProofs!Submit,
    WideProofs!OpenWith, WideProofs!DropKey, WideProofs!HearBooked, WideProofs!HearError,
    WideProofs!HearTaken, WideProofs!client, WideProofs!Ends, WideProofs!Check,
    WideProofs!InTurn, WideProofs!TryNext, WideProofs!Booked, WideProofs!Recorded,
    WideProofs!TryStaff, WideProofs!SkipStaff, WideProofs!RivalBooks, WideProofs!Cardinality
<1> QED BY <1>1, <1>2, WideProofs!InvNext

LEMMA WidePromised ==
  ASSUME WideProofs!Inv
  PROVE  /\ Wide!TypeOK /\ Wide!DoneByWhoDoesIt
         /\ Wide!BookedOnceUnlessGivenUp /\ Wide!ConsentedBeforeBooking
BY DEF WideProofs!Inv, WideProofs!Shapes,
  Wide!TypeOK, Wide!DoneByWhoDoesIt, Wide!BookedOnceUnlessGivenUp,
  Wide!ConsentedBeforeBooking, Wide!mine, Wide!PageState, Wide!Call, Wide!Post,
  Wide!Booking, Wide!Keys, WideProofs!TypeOK, WideProofs!DoneByWhoDoesIt,
  WideProofs!BookedOnceUnlessGivenUp, WideProofs!ConsentedBeforeBooking, WideProofs!mine,
  WideProofs!PageState, WideProofs!Call, WideProofs!Post, WideProofs!Booking,
  WideProofs!Keys

LEMMA DaysStarts == ASSUME Deep!Init PROVE DaysProofs!Inv
<1>1. DaysProofs!Assumptions
  BY Sane DEF Days!Assumptions, DaysProofs!Assumptions
<1>2. DaysProofs!Init
  BY DEF Deep!Init, Deep!FreshPage, DaysProofs!Init, DaysProofs!FreshPage
<1> QED BY <1>1, <1>2, DaysProofs!InvInit

LEMMA DaysStep == ASSUME DaysProofs!Inv, Days!Next PROVE DaysProofs!Inv'
<1>1. DaysProofs!Assumptions
  BY Sane DEF Days!Assumptions, DaysProofs!Assumptions
<1>2. DaysProofs!Next
  BY DEF Days!Next, DaysProofs!Next,
    Days!multi, Days!inFlow, Days!Question, Days!Asks, Days!Render, Days!server,
    Days!ChooseLocation, Days!ChangeLocation, Days!PickService, Days!StaffFor,
    Days!Candidates, Days!Free, Days!Offered, Days!StaffArrive, Days!PickStaff,
    Days!PickDate, Days!SlotsArrive, Days!PickSlot, Days!Continue, Days!Back, Days!KeyFor,
    Days!PostOf, Days!Filled, Days!Submit, Days!OpenWith, Days!DropKey, Days!HearBooked,
    Days!HearError, Days!HearTaken, Days!client, Days!Ends, Days!Check, Days!InTurn,
    Days!TryNext, Days!Booked, Days!Recorded, Days!TryStaff, Days!SkipStaff,
    Days!RivalBooks, Days!Cardinality, DaysProofs!multi, DaysProofs!inFlow,
    DaysProofs!Question, DaysProofs!Asks, DaysProofs!Render, DaysProofs!server,
    DaysProofs!ChooseLocation, DaysProofs!ChangeLocation, DaysProofs!PickService,
    DaysProofs!StaffFor, DaysProofs!Candidates, DaysProofs!Free, DaysProofs!Offered,
    DaysProofs!StaffArrive, DaysProofs!PickStaff, DaysProofs!PickDate,
    DaysProofs!SlotsArrive, DaysProofs!PickSlot, DaysProofs!Continue, DaysProofs!Back,
    DaysProofs!KeyFor, DaysProofs!PostOf, DaysProofs!Filled, DaysProofs!Submit,
    DaysProofs!OpenWith, DaysProofs!DropKey, DaysProofs!HearBooked, DaysProofs!HearError,
    DaysProofs!HearTaken, DaysProofs!client, DaysProofs!Ends, DaysProofs!Check,
    DaysProofs!InTurn, DaysProofs!TryNext, DaysProofs!Booked, DaysProofs!Recorded,
    DaysProofs!TryStaff, DaysProofs!SkipStaff, DaysProofs!RivalBooks, DaysProofs!Cardinality
<1> QED BY <1>1, <1>2, DaysProofs!InvNext

LEMMA DaysPromised ==
  ASSUME DaysProofs!Inv
  PROVE  /\ Days!TypeOK /\ Days!DoneByWhoDoesIt
         /\ Days!BookedOnceUnlessGivenUp /\ Days!ConsentedBeforeBooking
BY DEF DaysProofs!Inv, DaysProofs!Shapes,
  Days!TypeOK, Days!DoneByWhoDoesIt, Days!BookedOnceUnlessGivenUp,
  Days!ConsentedBeforeBooking, Days!mine, Days!PageState, Days!Call, Days!Post,
  Days!Booking, Days!Keys, DaysProofs!TypeOK, DaysProofs!DoneByWhoDoesIt,
  DaysProofs!BookedOnceUnlessGivenUp, DaysProofs!ConsentedBeforeBooking, DaysProofs!mine,
  DaysProofs!PageState, DaysProofs!Call, DaysProofs!Post, DaysProofs!Booking,
  DaysProofs!Keys

LEMMA DeepStarts == ASSUME Deep!Init PROVE DeepProofs!Inv
<1>1. DeepProofs!Assumptions
  BY Sane DEF Deep!Assumptions, DeepProofs!Assumptions
<1>2. DeepProofs!Init
  BY DEF Deep!Init, Deep!FreshPage, DeepProofs!Init, DeepProofs!FreshPage
<1> QED BY <1>1, <1>2, DeepProofs!InvInit

LEMMA DeepStep == ASSUME DeepProofs!Inv, Deep!Next PROVE DeepProofs!Inv'
<1>1. DeepProofs!Assumptions
  BY Sane DEF Deep!Assumptions, DeepProofs!Assumptions
<1>2. DeepProofs!Next
  BY DEF Deep!Next, DeepProofs!Next,
    Deep!multi, Deep!inFlow, Deep!Question, Deep!Asks, Deep!Render, Deep!server,
    Deep!ChooseLocation, Deep!ChangeLocation, Deep!PickService, Deep!StaffFor,
    Deep!Candidates, Deep!Free, Deep!Offered, Deep!StaffArrive, Deep!PickStaff,
    Deep!PickDate, Deep!SlotsArrive, Deep!PickSlot, Deep!Continue, Deep!Back, Deep!KeyFor,
    Deep!PostOf, Deep!Filled, Deep!Submit, Deep!OpenWith, Deep!DropKey, Deep!HearBooked,
    Deep!HearError, Deep!HearTaken, Deep!client, Deep!Ends, Deep!Check, Deep!InTurn,
    Deep!TryNext, Deep!Booked, Deep!Recorded, Deep!TryStaff, Deep!SkipStaff,
    Deep!RivalBooks, Deep!Cardinality, DeepProofs!multi, DeepProofs!inFlow,
    DeepProofs!Question, DeepProofs!Asks, DeepProofs!Render, DeepProofs!server,
    DeepProofs!ChooseLocation, DeepProofs!ChangeLocation, DeepProofs!PickService,
    DeepProofs!StaffFor, DeepProofs!Candidates, DeepProofs!Free, DeepProofs!Offered,
    DeepProofs!StaffArrive, DeepProofs!PickStaff, DeepProofs!PickDate,
    DeepProofs!SlotsArrive, DeepProofs!PickSlot, DeepProofs!Continue, DeepProofs!Back,
    DeepProofs!KeyFor, DeepProofs!PostOf, DeepProofs!Filled, DeepProofs!Submit,
    DeepProofs!OpenWith, DeepProofs!DropKey, DeepProofs!HearBooked, DeepProofs!HearError,
    DeepProofs!HearTaken, DeepProofs!client, DeepProofs!Ends, DeepProofs!Check,
    DeepProofs!InTurn, DeepProofs!TryNext, DeepProofs!Booked, DeepProofs!Recorded,
    DeepProofs!TryStaff, DeepProofs!SkipStaff, DeepProofs!RivalBooks, DeepProofs!Cardinality
<1> QED BY <1>1, <1>2, DeepProofs!InvNext

LEMMA DeepPromised ==
  ASSUME DeepProofs!Inv
  PROVE  /\ Deep!TypeOK /\ Deep!DoneByWhoDoesIt
         /\ Deep!BookedOnceUnlessGivenUp /\ Deep!ConsentedBeforeBooking
BY DEF DeepProofs!Inv, DeepProofs!Shapes,
  Deep!TypeOK, Deep!DoneByWhoDoesIt, Deep!BookedOnceUnlessGivenUp,
  Deep!ConsentedBeforeBooking, Deep!mine, Deep!PageState, Deep!Call, Deep!Post,
  Deep!Booking, Deep!Keys, DeepProofs!TypeOK, DeepProofs!DoneByWhoDoesIt,
  DeepProofs!BookedOnceUnlessGivenUp, DeepProofs!ConsentedBeforeBooking, DeepProofs!mine,
  DeepProofs!PageState, DeepProofs!Call, DeepProofs!Post, DeepProofs!Booking,
  DeepProofs!Keys

-----------------------------------------------------------------------------
(* All parts.                                                              *)

PublicInv ==
  /\ part = "wide" => WideProofs!Inv
  /\ part = "days" => DaysProofs!Inv
  /\ part = "deep" => DeepProofs!Inv
  /\ part = "codes" => CodesInv
  /\ part = "portal" => PortalInv
  /\ part = "directory" => DirectoryInv

LEMMA PublicStarts == ASSUME Init PROVE PublicInv
BY Sane, WideStarts, DaysStarts, DeepStarts, CodesStart, PortalStarts, DirectoryStarts
DEF Init, InVisit, PublicInv

LEMMA PublicStep == ASSUME PublicInv, Next PROVE PublicInv'
BY Sane, WideStep, DaysStep, DeepStep, CodesStep, PortalStep, DirectoryStep
DEF Next, PublicInv

LEMMA PublicStays == ASSUME PublicInv, UNCHANGED everything PROVE PublicInv'
<1>1. UNCHANGED <<part, visit, codes, portal, directory>>
  BY DEF everything
<1>2. /\ WideProofs!Inv => WideProofs!Inv'
      /\ DaysProofs!Inv => DaysProofs!Inv'
      /\ DeepProofs!Inv => DeepProofs!Inv'
  <2>1. WideProofs!Assumptions /\ DaysProofs!Assumptions /\ DeepProofs!Assumptions
    BY Sane DEF Wide!Assumptions, WideProofs!Assumptions, Days!Assumptions,
      DaysProofs!Assumptions, Deep!Assumptions, DeepProofs!Assumptions
  <2>2. UNCHANGED <<WideProofs!vars, DaysProofs!vars, DeepProofs!vars>>
    BY <1>1 DEF visit, WideProofs!vars, DaysProofs!vars, DeepProofs!vars
  <2> QED BY <2>1, <2>2, WideProofs!InvNext, DaysProofs!InvNext, DeepProofs!InvNext
<1>3. CodesInv => CodesInv'
  BY <1>1 DEF codes, CodesInv, CodeShapes, K!TypeOK, Unmade, TriesCounted, Comparing,
    NotYetKnown, CodesDiffer, OneCheck, NewestStands
<1>4. PortalInv => PortalInv'
  BY <1>1 DEF portal, PortalInv, P!TypeOK, DayIsShown, CheckedHolds, P!InTime,
    P!ChangesAreAllowed
<1>5. DirectoryInv => DirectoryInv'
  BY <1>1 DEF directory, DirectoryInv, D!TypeOK, D!MemoryIsCurrent, D!Listed, D!Found,
    D!SettledShowsAsked, ReadsCurrent, NewestAsks
<1> QED BY <1>1, <1>2, <1>3, <1>4, <1>5 DEF PublicInv

(* Every state of every part satisfies its invariant.                        *)
THEOREM PublicInvHolds == Spec => []PublicInv
<1>1. Init => PublicInv
  BY PublicStarts
<1>2. PublicInv /\ [Next]_everything => PublicInv'
  BY PublicStep, PublicStays
<1> QED BY <1>1, <1>2, PTL DEF Spec

(* The state keeps its shape in every part.                                  *)
THEOREM TypesHold == Spec => []Types
<1>1. PublicInv => Types
  BY Sane, WidePromised, DaysPromised, DeepPromised, CodesPromised
  DEF PublicInv, Types, PortalInv, DirectoryInv
<1> QED BY <1>1, PublicInvHolds, PTL

(* A visit at two locations books nobody with somebody who does not do the   *)
(* service or does not work there, however late an answer comes.             *)
THEOREM ServedByWhoDoesIt == Spec => []DoneByWhoDoesIt
<1>1. PublicInv => DoneByWhoDoesIt
  BY WidePromised DEF PublicInv, DoneByWhoDoesIt
<1> QED BY <1>1, PublicInvHolds, PTL

(* Retries and double clicks make a second booking only after the page let   *)
(* go of a key whose outcome it did not know.                                *)
THEOREM NoSecondBooking == Spec => []BookedOnceUnlessGivenUp
<1>1. PublicInv => BookedOnceUnlessGivenUp
  BY DaysPromised, DeepPromised DEF PublicInv, BookedOnceUnlessGivenUp
<1> QED BY <1>1, PublicInvHolds, PTL

(* Whatever a visit books, its customer's consent was recorded before.       *)
THEOREM ConsentComesFirst == Spec => []ConsentedBeforeBooking
<1>1. PublicInv => ConsentedBeforeBooking
  BY WidePromised, DaysPromised, DeepPromised
  DEF PublicInv, ConsentedBeforeBooking, InVisit, Wide!ConsentedBeforeBooking, Wide!mine,
    Days!ConsentedBeforeBooking, Days!mine, Deep!ConsentedBeforeBooking, Deep!mine
<1> QED BY <1>1, PublicInvHolds, PTL

(* At every door, however sendings and checks cross: guesses are limited, a  *)
(* code opens one thing unless two checks of it were under way at a time,    *)
(* and the newest code works with the tries it has left.                     *)
THEOREM CodesKeepPromises == Spec => []CodesHold
<1>1. PublicInv => CodesHold
  BY Sane, CodesPromised DEF PublicInv, CodesHold
<1> QED BY <1>1, PublicInvHolds, PTL

(* However the two pages, the business and the clock interleave: an           *)
(* appointment is changed in time unless something overtook the request       *)
(* between check and change, never moved once it is cancelled, and a move on  *)
(* "My appointments" is to an open time of the day shown unless a list came   *)
(* late.                                                                      *)
THEOREM OnlyAllowedChanges == Spec => []ChangesAreAllowed
<1>1. PublicInv => ChangesAreAllowed
  BY DEF PublicInv, ChangesAreAllowed, PortalInv
<1> QED BY <1>1, PublicInvHolds, PTL

(* What a process remembers of the directory is what the database says, but  *)
(* for a change of its own not answered yet, a load that a write crossed, a  *)
(* change that another process served or that ended in an error, and what    *)
(* billing wrote; a page that has settled shows what was asked for last.     *)
THEOREM DirectoryKeepsPromises == Spec => []DirectoryHolds
<1>1. PublicInv => DirectoryHolds
  BY DEF PublicInv, DirectoryHolds, DirectoryInv
<1> QED BY <1>1, PublicInvHolds, PTL
=============================================================================
