----------------------------- MODULE Retention -----------------------------
(***************************************************************************)
(* Recordings go after the days the business set (services/retentionWorker *)
(* .js): the sweep asks Twilio to delete each, remembers which are gone,   *)
(* and forgets those.  Twilio may fail, and the server may stop between.   *)
(* A recording that ends late is written by Twilio's callback (webhooks/   *)
(* twilio.js) while a sweep runs.                                          *)
(***************************************************************************)
EXTENDS FiniteSets

CONSTANT Call  \* call_logs of a business that keeps recordings for a time

VARIABLES
  age,    \* within the time, or past it
  row,    \* of the recording: its sid is stored
  words,  \* the transcript is stored
  audio,  \* at Twilio
  sweep,  \* what the sweep has still to delete, has deleted, and has still to write
  told    \* Twilio's callback for the recording has come

vars == <<age, row, words, audio, sweep, told>>

NoSweep == [on |-> FALSE, todo |-> {}, gone |-> {}]

\* handleRecordingStatus
Callback(c) ==
  /\ audio[c] /\ ~told[c]
  /\ told' = [told EXCEPT ![c] = TRUE] /\ row' = [row EXCEPT ![c] = TRUE]
  /\ UNCHANGED <<age, words, audio, sweep>>

Record(c) ==
  /\ ~audio[c] /\ ~told[c] /\ words' = [words EXCEPT ![c] = TRUE]
  /\ audio' = [audio EXCEPT ![c] = TRUE]
  /\ UNCHANGED <<age, row, sweep, told>>

Ages(c) ==
  /\ age[c] = "kept" /\ age' = [age EXCEPT ![c] = "old"]
  /\ UNCHANGED <<row, words, audio, sweep, told>>

Old == {c \in Call : age[c] = "old"}

\* running: one sweep at a time.
StartSweep ==
  /\ ~sweep.on
  /\ sweep' = [on |-> TRUE, todo |-> {c \in Old : row[c]}, gone |-> {}]
  /\ UNCHANGED <<age, row, words, audio, told>>

EveryAnswer(heard, left) == TRUE  \* mutant: a failure counts as deleted
CountsAsGone(heard, left) == heard /\ ~left

\* deleteTwilioRecording: gone, gone before (404), or a failure, after which it may be
\* gone all the same.
AskTwilio(c) ==
  /\ c \in sweep.todo
  /\ \E heard \in BOOLEAN, does \in BOOLEAN :
       /\ audio' = IF does THEN [audio EXCEPT ![c] = FALSE] ELSE audio
       /\ sweep' = [sweep EXCEPT !.todo = @ \ {c},
                                 !.gone = IF CountsAsGone(heard, audio'[c]) THEN @ \cup {c}
                                          ELSE @]
  /\ UNCHANGED <<age, row, words, told>>

\* The three updateMany.
Forget ==
  /\ sweep.on /\ sweep.todo = {}
  /\ row' = [c \in Call |-> row[c] /\ c \notin sweep.gone]
  /\ words' = [c \in Call |-> words[c] /\ c \notin Old]
  /\ sweep' = NoSweep
  /\ UNCHANGED <<age, audio, told>>

Stop ==
  /\ sweep.on /\ sweep' = NoSweep
  /\ UNCHANGED <<age, row, words, audio, told>>

Init ==
  /\ age = [c \in Call |-> "kept"] /\ row = [c \in Call |-> FALSE]
  /\ words = [c \in Call |-> FALSE] /\ audio = [c \in Call |-> FALSE]
  /\ sweep = NoSweep /\ told = [c \in Call |-> FALSE]

Next ==
  \/ StartSweep \/ Forget \/ Stop
  \/ \E c \in Call : Callback(c) \/ Record(c) \/ Ages(c) \/ AskTwilio(c)

Spec == Init /\ [][Next]_vars

-----------------------------------------------------------------------------
(* Shapes of the rows and of the sweep.                                      *)
TypeOK ==
  /\ age \in [Call -> {"kept", "old"}]
  /\ row \in [Call -> BOOLEAN] /\ words \in [Call -> BOOLEAN]
  /\ audio \in [Call -> BOOLEAN] /\ told \in [Call -> BOOLEAN]
  /\ sweep \in [on : BOOLEAN, todo : SUBSET Call, gone : SUBSET Call]

(* "A recording is only forgotten once Twilio confirmed it is gone": a        *)
(* recording Twilio keeps, and has told of, is one a later sweep can find,    *)
(* and what is not yet past its time is still there.                          *)
AudioIsFindable ==
  \A c \in Call : told[c] =>
    /\ audio[c] => row[c]
    /\ age[c] = "kept" => audio[c] /\ row[c]
=============================================================================
