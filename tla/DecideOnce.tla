------------------------------ MODULE DecideOnce ------------------------------
(***************************************************************************)
(* What a hold promises about the questions it takes, whoever keeps it: a    *)
(* question is decided at most once; the decision is recorded at most once,  *)
(* as it was made, and before the asker hears it; the asker hears that       *)
(* decision and no other; and the log is not sealed while a decision is      *)
(* still unrecorded.  A record the log could not take is waived.             *)
(***************************************************************************)
CONSTANTS Questions, Verdicts, None

VARIABLES verdict, record, told, waived, sealed

vars == <<verdict, record, told, waived, sealed>>

Init ==
  /\ verdict = [q \in Questions |-> None]
  /\ record = [q \in Questions |-> None]
  /\ told = [q \in Questions |-> None]
  /\ waived = {}
  /\ sealed = FALSE

\* Questions may be decided together: the end of a session decides every open one.
Decide(S, v) ==
  /\ ~sealed
  /\ \A q \in S : verdict[q] = None
  /\ verdict' = [q \in Questions |-> IF q \in S THEN v ELSE verdict[q]]
  /\ UNCHANGED <<record, told, waived, sealed>>

Record(q) ==
  /\ ~sealed
  /\ verdict[q] # None /\ record[q] = None
  /\ record' = [record EXCEPT ![q] = verdict[q]]
  /\ UNCHANGED <<verdict, told, waived, sealed>>

\* A failed append, or the end of the process that was to make it.
Waive(S) ==
  /\ \A q \in S : record[q] = None
  /\ waived' = waived \cup S
  /\ UNCHANGED <<verdict, record, told, sealed>>

Tell(q) ==
  /\ verdict[q] # None /\ told[q] = None
  /\ record[q] # None \/ q \in waived
  /\ told' = [told EXCEPT ![q] = verdict[q]]
  /\ UNCHANGED <<verdict, record, waived, sealed>>

Seal ==
  /\ ~sealed
  /\ \A q \in Questions : verdict[q] # None => record[q] # None \/ q \in waived
  /\ sealed' = TRUE
  /\ UNCHANGED <<verdict, record, told, waived>>

Next ==
  \/ \E S \in SUBSET Questions, v \in Verdicts : Decide(S, v)
  \/ \E q \in Questions : Record(q) \/ Tell(q)
  \/ \E S \in SUBSET Questions : Waive(S)
  \/ Seal

Spec == Init /\ [][Next]_vars
===============================================================================
