---------------------------- MODULE OwedContract ----------------------------
(***************************************************************************)
(* What the queues that carry ids promise, and nothing about how: a debt   *)
(* stops being due because it has been heard, because there is nobody to   *)
(* tell any more, or because the process lost its memory.  It never stops  *)
(* being due for any other reason.                                         *)
(***************************************************************************)
CONSTANTS Key, News

VARIABLES due,      \* debts to be attempted
          saved,    \* those that survive the process
          heard     \* debts that have reached the far side

Debt == Key \X News

Init == due = {} /\ saved = {} /\ heard = {}

Incur == /\ \E D \in SUBSET Debt : due' = due \cup D
         /\ UNCHANGED <<saved, heard>>

Hear == /\ \E D \in SUBSET Debt : heard' = heard \cup D
        /\ UNCHANGED <<due, saved>>

Settle == /\ \E D \in SUBSET heard : due' = due \ D
          /\ UNCHANGED <<saved, heard>>

WriteOff(k) == /\ due' = {d \in due : d[1] # k}
               /\ UNCHANGED <<saved, heard>>

StartOver == due' = {} /\ UNCHANGED <<saved, heard>>

Save == saved' = due /\ UNCHANGED <<due, heard>>

\* The process ends: due again is what was saved, or nothing.
Reload == due' \in {saved, {}} /\ UNCHANGED <<saved, heard>>

Next == \/ Incur \/ Hear \/ Settle \/ StartOver \/ Save \/ Reload
        \/ \E k \in Key : WriteOff(k)

Spec == Init /\ [][Next]_<<due, saved, heard>>
=============================================================================
