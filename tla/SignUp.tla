------------------------------- MODULE SignUp -------------------------------
(***************************************************************************)
(* How an account comes to be: an owner signs up (routes/signup.js, the    *)
(* page dashboard/app/signup/page.jsx) or the platform registers a company *)
(* (POST /businesses of routes/platform.js, RegisterCompanyForm.jsx).      *)
(* Several inserts without a transaction, cleaned up by hand; the booking  *)
(* link's name is looked for first and claimed later (services/slug.js).   *)
(*                                                                         *)
(* An Attempt is one press of the button; pressed again it is another.  All*)
(* want the same name: the n-th candidate is n.                            *)
(***************************************************************************)
EXTENDS Integers, FiniteSets

CONSTANTS
  Attempt,
  Email,
  NoEmail,
  MaxSlug   \* bound: candidates for the link's name (98 and a time stamp in the code)

Assumptions ==
  /\ NoEmail \notin Email
  /\ IsFiniteSet(Attempt) /\ MaxSlug \in Nat /\ MaxSlug > Cardinality(Attempt)

VARIABLES
  slug,     \* businesses: the name of its booking link, 0 without a business
  owner,    \* admins: the owner's e-mail
  rest,     \* location or services, and the codes sent
  attempt,  \* attempts under way
  answer,   \* what the page was told; 0: nothing
  cut       \* history: the server stopped, or the database failed, in the middle

vars == <<slug, owner, rest, attempt, answer, cut>>

AttemptState ==
  [pc : {"form", "business", "owner", "undo", "rest", "over"}, slug : 0..MaxSlug,
   email : Email \cup {NoEmail}]

Blank == [pc |-> "form", slug |-> 0, email |-> NoEmail]

Taken == {slug[a] : a \in Attempt} \ {0}

Goto(a, pc) == attempt' = [attempt EXCEPT ![a].pc = pc]

Tell(a, status) == answer' = [answer EXCEPT ![a] = status]

-----------------------------------------------------------------------------
\* The form is whole, the limits and the bot check pass.  uniqueSlug looks for the
\* first name that is free.
Submit(a, e) ==
  /\ attempt[a].pc = "form"
  /\ LET free == {n \in 1..MaxSlug : n \notin Taken}
     IN attempt' = [attempt EXCEPT ![a] =
          [pc |-> "business", email |-> e,
           slug |-> CHOOSE n \in free : \A k \in free : n <= k]]
  /\ UNCHANGED <<slug, owner, rest, answer, cut>>

\* The unique index on the name: nobody tries another, the answer is an error.
InsertBusiness(a) ==
  /\ attempt[a].pc = "business"
  /\ IF attempt[a].slug \in Taken
     THEN Goto(a, "over") /\ Tell(a, 500) /\ UNCHANGED slug
     ELSE /\ slug' = [slug EXCEPT ![a] = attempt[a].slug]
          /\ Goto(a, "owner") /\ UNCHANGED answer
  /\ UNCHANGED <<owner, rest, cut>>

\* The unique index on the e-mail.
InsertOwner(a) ==
  /\ attempt[a].pc = "owner"
  /\ IF \E b \in Attempt : owner[b] = attempt[a].email
     THEN Goto(a, "undo") /\ UNCHANGED owner
     ELSE owner' = [owner EXCEPT ![a] = attempt[a].email] /\ Goto(a, "rest")
  /\ UNCHANGED <<slug, rest, answer, cut>>

KeepBusiness(a) == slug  \* mutant: the catch does not clean up
Undone(a) == [slug EXCEPT ![a] = 0]

\* 409, or the error that was not about the e-mail.
Undo(a) ==
  /\ attempt[a].pc = "undo"
  /\ slug' = Undone(a)
  /\ \E status \in {409, 500} : Tell(a, status)
  /\ Goto(a, "over")
  /\ UNCHANGED <<owner, rest, cut>>

\* An e-mail or a text that is not delivered is no error here.
InsertRest(a) ==
  /\ attempt[a].pc = "rest"
  /\ rest' = [rest EXCEPT ![a] = TRUE]
  /\ Tell(a, 201) /\ Goto(a, "over")
  /\ UNCHANGED <<slug, owner, cut>>

\* Another error of the owner's insert is cleaned up like a taken e-mail.
OwnerFails(a) ==
  /\ attempt[a].pc = "owner" /\ Goto(a, "undo")
  /\ UNCHANGED <<slug, owner, rest, answer, cut>>

\* The database fails in another place, or the server stops.
Fails(a) ==
  /\ attempt[a].pc \in {"business", "owner", "undo", "rest"}
  /\ \E status \in {0, 500} : Tell(a, status)
  /\ Goto(a, "over") /\ cut' = cut \cup {a}
  /\ UNCHANGED <<slug, owner, rest>>

\* PUT /business/listing: the owner picks another name for the link, if it is free.
Rename(a, n) ==
  /\ owner[a] # NoEmail /\ n \notin Taken
  /\ slug' = [slug EXCEPT ![a] = n]
  /\ UNCHANGED <<owner, rest, attempt, answer, cut>>

Init ==
  /\ slug = [a \in Attempt |-> 0] /\ owner = [a \in Attempt |-> NoEmail]
  /\ rest = [a \in Attempt |-> FALSE]
  /\ attempt = [a \in Attempt |-> Blank]
  /\ answer = [a \in Attempt |-> 0]
  /\ cut = {}

Next ==
  \E a \in Attempt :
    \/ \E e \in Email : Submit(a, e)
    \/ InsertBusiness(a) \/ InsertOwner(a) \/ Undo(a) \/ InsertRest(a)
    \/ OwnerFails(a) \/ Fails(a)
    \/ \E n \in 1..MaxSlug : Rename(a, n)

Spec == Init /\ [][Next]_vars

-----------------------------------------------------------------------------
(* Shapes of the rows and of the attempts.                                   *)
TypeOK ==
  /\ slug \in [Attempt -> 0..MaxSlug] /\ owner \in [Attempt -> Email \cup {NoEmail}]
  /\ rest \in [Attempt -> BOOLEAN]
  /\ attempt \in [Attempt -> AttemptState]
  /\ answer \in [Attempt -> {0, 201, 409, 500}]

(* However attempts cross, each leaves a whole account or nothing: a business *)
(* with its owner and the answer 201, or neither and an error.  Only a stop   *)
(* or a failing database leaves half of one.                                  *)
WholeAccounts ==
  \A a \in Attempt : attempt[a].pc = "over" /\ a \notin cut =>
    LET whole == slug[a] # 0 /\ owner[a] # NoEmail /\ rest[a] /\ answer[a] = 201
        none  == slug[a] = 0 /\ owner[a] = NoEmail /\ ~rest[a] /\ answer[a] # 201
    IN whole \/ none
=============================================================================
