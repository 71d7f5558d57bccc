----------------------------- MODULE OwedProofs -----------------------------
(***************************************************************************)
(* Theorems about Owed, for every set of queues, targets and news.         *)
(***************************************************************************)
EXTENDS Owed, TLAPS

(***************************************************************************)
(* The map.                                                                *)
(***************************************************************************)

\* What membership in Maps says of a map.
LEMMA MapFacts ==
  ASSUME NEW m \in Maps
  PROVE  /\ DOMAIN m \subseteq Key
         /\ \A k \in DOMAIN m : m[k] \subseteq News
BY DEF Maps

\* A function from some keys to sets of news is a map.
LEMMA MapIntro ==
  ASSUME NEW m, NEW D \in SUBSET Key, m \in [D -> SUBSET News]
  PROVE  m \in Maps
BY DEF Maps

\* Put keeps a map a map.
LEMMA PutType ==
  ASSUME NEW m \in Maps, NEW k \in Key, NEW ids \in SUBSET News
  PROVE  Put(m, k, ids) \in Maps
<1>1. Put(m, k, ids) \in [DOMAIN m \cup {k} -> SUBSET News]
  BY MapFacts DEF Put
<1>2. DOMAIN m \cup {k} \in SUBSET Key
  BY MapFacts
<1> QED BY <1>1, <1>2, MapIntro

\* Without keeps a map a map.
LEMMA WithoutType ==
  ASSUME NEW m \in Maps, NEW k
  PROVE  Without(m, k) \in Maps
<1>1. Without(m, k) \in [DOMAIN m \ {k} -> SUBSET News]
  BY MapFacts DEF Without
<1>2. DOMAIN m \ {k} \in SUBSET Key
  BY MapFacts
<1> QED BY <1>1, <1>2, MapIntro

\* The empty queue is a map.
LEMMA NothingType == Nothing \in Maps
<1>1. Nothing \in [{} -> SUBSET News]
  BY DEF Nothing
<1> QED BY <1>1, MapIntro

\* owe keeps a map a map.
LEMMA AfterOweType ==
  ASSUME NEW m \in Maps, NEW k \in Key, NEW ids \in SUBSET News
  PROVE  AfterOwe(m, k, ids) \in Maps
<1>1. Held(m, k) \cup ids \in SUBSET News
  BY MapFacts DEF Held
<1> QED BY <1>1, PutType DEF AfterOwe

\* paid keeps a map a map.
LEMMA AfterPaidType ==
  ASSUME NEW m \in Maps, NEW k \in Key, NEW ids \in SUBSET News
  PROVE  AfterPaid(m, k, ids) \in Maps
<1>1. CASE k \notin DOMAIN m
  BY <1>1 DEF AfterPaid
<1>2. CASE k \in DOMAIN m
  <2>1. m[k] \ ids \in SUBSET News
    BY <1>2, MapFacts
  <2> QED BY <1>2, <2>1, PutType, WithoutType DEF AfterPaid
<1> QED BY <1>1, <1>2

\* owe forgets nothing: what was outstanding still is.
LEMMA OweKeeps ==
  ASSUME NEW m \in Maps, NEW k \in Key, NEW ids, NEW p \in Debt, Outstanding(m, p)
  PROVE  Outstanding(AfterOwe(m, k, ids), p)
BY DEF Outstanding, AfterOwe, Put, Held

\* owe takes on every id it is given.
LEMMA OweTakes ==
  ASSUME NEW m \in Maps, NEW k \in Key, NEW ids, NEW n \in ids
  PROVE  Outstanding(AfterOwe(m, k, ids), <<k, n>>)
BY DEF Outstanding, AfterOwe, Put, Held

\* paid retires, in a queue with ids, only what it is told went out.
LEMMA PaidRetiresWhatWent ==
  ASSUME NEW m \in Maps, NEW k \in Key, NEW ids, NEW p \in Debt,
         Outstanding(m, p), ~Outstanding(AfterPaid(m, k, ids), p),
         CarriesIds(p[1][1])
  PROVE  p[1] = k /\ p[2] \in ids
BY DEF Outstanding, AfterPaid, Put, Without

\* paid touches no other target, in any queue.
LEMMA PaidTouchesOneTarget ==
  ASSUME NEW m \in Maps, NEW k \in Key, NEW ids, NEW p \in Debt,
         Outstanding(m, p), ~Outstanding(AfterPaid(m, k, ids), p)
  PROVE  p[1] = k
BY DEF Outstanding, AfterPaid, Put, Without

(***************************************************************************)
(* Type correctness.                                                       *)
(***************************************************************************)

LEMMA InitType == Init => TypeOK
BY NothingType DEF Init, TypeOK

LEMMA NextType == TypeOK /\ [Next]_vars => TypeOK'
<1> SUFFICES ASSUME TypeOK, [Next]_vars PROVE TypeOK'
  OBVIOUS
<1> USE DEF TypeOK
<1>1. ASSUME NEW k \in Key, NEW news \in SUBSET News, Owe(k, news)
      PROVE  TypeOK'
  <2>1. {k} \X news \subseteq Debt
    BY DEF Debt
  <2>2. entries' \in Maps
    BY <1>1, AfterOweType DEF Owe
  <2> QED BY <1>1, <2>1, <2>2 DEF Owe
<1>2. ASSUME NEW k \in Key, Forget(k) PROVE TypeOK'
  BY <1>2, WithoutType DEF Forget, AfterForget
<1>3. ASSUME NEW k \in Key, Send(k) PROVE TypeOK'
  <2>1. PICK work \in WorkOf(entries) :
          /\ work.key = k
          /\ inflight' = inflight \cup
               {[key |-> k, ids |-> work.ids, arrived |-> FALSE,
                 news |-> IF CarriesIds(k[1])
                          THEN work.ids
                          ELSE {n \in News : <<k, n>> \in promised}]}
    BY <1>3 DEF Send
  <2>2. work.ids \in SUBSET News
    BY <2>1, MapFacts DEF WorkOf
  <2> DEFINE content == IF CarriesIds(k[1])
                        THEN work.ids
                        ELSE {n \in News : <<k, n>> \in promised}
  <2>3. content \in SUBSET News
    BY <2>2
  <2>4. [key |-> k, ids |-> work.ids, arrived |-> FALSE, news |-> content]
          \in Deposit
    <3> HIDE DEF content
    <3> QED BY <2>2, <2>3 DEF Deposit
  <2>5. inflight' \in SUBSET Deposit
    BY <2>1, <2>4
  <2> QED BY <1>3, <2>5 DEF Send
<1>4. CASE Clear
  BY <1>4, NothingType DEF Clear
<1>5. ASSUME NEW d \in inflight, Arrive(d) PROVE TypeOK'
  <2>1. {d.key} \X d.news \subseteq Debt
    BY DEF Debt, Deposit
  <2>2. [d EXCEPT !.arrived = TRUE] \in Deposit
    BY DEF Deposit
  <2> QED BY <1>5, <2>1, <2>2 DEF Arrive
<1>6. ASSUME NEW d \in inflight, Confirm(d) PROVE TypeOK'
  <2>1. entries' \in Maps
    BY <1>6, AfterPaidType DEF Confirm, Deposit
  <2> QED BY <1>6, <2>1 DEF Confirm
<1>7. ASSUME NEW d \in inflight, Fail(d) PROVE TypeOK'
  BY <1>7 DEF Fail
<1>8. CASE Save
  BY <1>8 DEF Save
<1>9. ASSUME NEW readable \in BOOLEAN, Restart(readable) PROVE TypeOK'
  BY <1>9, NothingType DEF Restart, FromJson
<1>10. CASE UNCHANGED vars
  BY <1>10 DEF vars
<1> QED
  BY <1>1, <1>2, <1>3, <1>4, <1>5, <1>6, <1>7, <1>8, <1>9, <1>10 DEF Next

\* Every state of Owed is well typed: the map, the file and the deposits under
\* way hold only what the queues can hold (owed.rs Owed).
THEOREM TypeCorrect == Spec => []TypeOK
<1>1. Init => TypeOK
  BY InitType
<1>2. TypeOK /\ [Next]_vars => TypeOK'
  BY NextType
<1> QED BY <1>1, <1>2, PTL DEF Spec

(***************************************************************************)
(* Nothing promised is lost.  NothingLost is not inductive: Confirm keeps  *)
(* it only because a deposit names the ids it carried and an arrived one   *)
(* has been heard, which is CarriedIsNamed.                                *)
(***************************************************************************)

IInv == TypeOK /\ CarriedIsNamed /\ NothingLost

LEMMA NextCarried == TypeOK /\ CarriedIsNamed /\ [Next]_vars => CarriedIsNamed'
<1> SUFFICES ASSUME TypeOK, CarriedIsNamed, [Next]_vars PROVE CarriedIsNamed'
  OBVIOUS
<1> USE DEF CarriedIsNamed
<1>1. ASSUME NEW k \in Key, NEW news \in SUBSET News, Owe(k, news)
      PROVE  CarriedIsNamed'
  BY <1>1 DEF Owe
<1>2. ASSUME NEW k \in Key, Forget(k) PROVE CarriedIsNamed'
  BY <1>2 DEF Forget
<1>3. ASSUME NEW k \in Key, Send(k) PROVE CarriedIsNamed'
  BY <1>3 DEF Send
<1>4. CASE Clear
  BY <1>4 DEF Clear
<1>5. ASSUME NEW d \in inflight, Arrive(d) PROVE CarriedIsNamed'
  <2> DEFINE e == [d EXCEPT !.arrived = TRUE]
  <2>1. e.key = d.key /\ e.ids = d.ids /\ e.news = d.news
    BY DEF TypeOK, Deposit
  <2>2. heard' = heard \cup ({d.key} \X d.news)
    BY <1>5 DEF Arrive
  <2>3. inflight' = (inflight \ {d}) \cup {e}
    BY <1>5 DEF Arrive
  <2> HIDE DEF e
  <2> QED BY <2>1, <2>2, <2>3
<1>6. ASSUME NEW d \in inflight, Confirm(d) PROVE CarriedIsNamed'
  BY <1>6 DEF Confirm
<1>7. ASSUME NEW d \in inflight, Fail(d) PROVE CarriedIsNamed'
  BY <1>7 DEF Fail
<1>8. CASE Save
  BY <1>8 DEF Save
<1>9. ASSUME NEW readable \in BOOLEAN, Restart(readable) PROVE CarriedIsNamed'
  BY <1>9 DEF Restart
<1>10. CASE UNCHANGED vars
  BY <1>10 DEF vars
<1> QED
  BY <1>1, <1>2, <1>3, <1>4, <1>5, <1>6, <1>7, <1>8, <1>9, <1>10 DEF Next

LEMMA NextNothingLost == IInv /\ [Next]_vars => NothingLost'
<1> SUFFICES ASSUME TypeOK, CarriedIsNamed, NothingLost, [Next]_vars,
                    NEW p \in promised', CarriesIds(p[1][1])
             PROVE  Outstanding(entries', p) \/ p \in heard'
  BY DEF IInv, NothingLost
<1>1. ASSUME NEW k \in Key, NEW news \in SUBSET News, Owe(k, news)
      PROVE  Outstanding(entries', p) \/ p \in heard'
  <2>1. CASE p \in promised
    BY <1>1, <2>1, OweKeeps DEF Owe, NothingLost, TypeOK
  <2>2. CASE p \in {k} \X news
    <3>1. PICK n \in news : p = <<k, n>>
      BY <2>2
    <3>2. entries' = AfterOwe(entries, k, news)
      BY <1>1, <3>1 DEF Owe
    <3> QED BY <3>1, <3>2, OweTakes DEF TypeOK
  <2> QED BY <1>1, <2>1, <2>2 DEF Owe
<1>2. ASSUME NEW k \in Key, Forget(k)
      PROVE  Outstanding(entries', p) \/ p \in heard'
  BY <1>2 DEF Forget, AfterForget, Without, Outstanding, NothingLost
<1>3. ASSUME NEW k \in Key, Send(k)
      PROVE  Outstanding(entries', p) \/ p \in heard'
  BY <1>3 DEF Send, NothingLost
<1>4. ASSUME Clear PROVE Outstanding(entries', p) \/ p \in heard'
  BY <1>4 DEF Clear
<1>5. ASSUME NEW d \in inflight, Arrive(d)
      PROVE  Outstanding(entries', p) \/ p \in heard'
  BY <1>5 DEF Arrive, NothingLost
<1>6. ASSUME NEW d \in inflight, Confirm(d)
      PROVE  Outstanding(entries', p) \/ p \in heard'
  <2>1. p \in promised /\ heard' = heard /\ p \in Debt
    BY <1>6 DEF Confirm, TypeOK
  <2>2. d.key \in Key /\ d.ids \in SUBSET News /\ entries \in Maps
    BY DEF TypeOK, Deposit
  <2>3. ASSUME Outstanding(entries, p), ~Outstanding(entries', p)
        PROVE  p \in heard
    <3>1. p[1] = d.key /\ p[2] \in d.ids
      BY <1>6, <2>1, <2>2, <2>3, PaidRetiresWhatWent DEF Confirm
    <3>2. d.news = d.ids /\ {d.key} \X d.news \subseteq heard
      BY <1>6, <3>1 DEF Confirm, CarriedIsNamed
    <3> QED BY <2>1, <3>1, <3>2 DEF Debt
  <2> QED BY <2>1, <2>3 DEF NothingLost
<1>7. ASSUME NEW d \in inflight, Fail(d)
      PROVE  Outstanding(entries', p) \/ p \in heard'
  BY <1>7 DEF Fail, NothingLost
<1>8. ASSUME Save PROVE Outstanding(entries', p) \/ p \in heard'
  BY <1>8 DEF Save, NothingLost
<1>9. ASSUME NEW readable \in BOOLEAN, Restart(readable)
      PROVE  Outstanding(entries', p) \/ p \in heard'
  BY <1>9 DEF Restart
<1>10. ASSUME UNCHANGED vars PROVE Outstanding(entries', p) \/ p \in heard'
  BY <1>10 DEF vars, NothingLost
<1> QED
  BY <1>1, <1>2, <1>3, <1>4, <1>5, <1>6, <1>7, <1>8, <1>9, <1>10 DEF Next

LEMMA Inductive == Spec => []IInv
<1>1. Init => IInv
  BY InitType DEF Init, IInv, CarriedIsNamed, NothingLost
<1>2. IInv /\ [Next]_vars => IInv'
  BY NextType, NextCarried, NextNothingLost DEF IInv
<1> QED BY <1>1, <1>2, PTL DEF Spec

\* In the queues that carry ids, whatever was promised is still held or has been
\* heard: "what is retired is exactly what went out" (owed.rs paid, 164-187).
THEOREM NoPromiseLost == Spec => []NothingLost
<1>1. IInv => NothingLost
  BY DEF IInv
<1> QED BY <1>1, Inductive, PTL

(***************************************************************************)
(* The only way any queue drops an unheard debt.                           *)
(***************************************************************************)

LEMMA StepLosesOnlyOvertaken ==
  ASSUME IInv, [Next]_vars, NEW p \in promised \cap promised',
         Outstanding(entries, p), ~Outstanding(entries', p), p \notin heard
  PROVE  \E d \in inflight : d.arrived /\ d.key = p[1] /\ p[2] \notin d.news
<1> USE DEF IInv
<1>0. p \in Debt /\ entries \in Maps
  BY DEF TypeOK
<1>1. ASSUME NEW k \in Key, NEW news \in SUBSET News, Owe(k, news) PROVE FALSE
  BY <1>0, <1>1, OweKeeps DEF Owe
<1>2. ASSUME NEW k \in Key, Forget(k) PROVE FALSE
  BY <1>2 DEF Forget, AfterForget, Without, Outstanding
<1>3. ASSUME NEW k \in Key, Send(k) PROVE FALSE
  BY <1>3 DEF Send
<1>4. ASSUME Clear PROVE FALSE
  BY <1>4 DEF Clear
<1>5. ASSUME NEW d \in inflight, Arrive(d) PROVE FALSE
  BY <1>5 DEF Arrive
<1>6. ASSUME NEW d \in inflight, Confirm(d)
      PROVE  d.arrived /\ d.key = p[1] /\ p[2] \notin d.news
  <2>1. d.key \in Key /\ d.ids \in SUBSET News /\ d.arrived
    BY <1>6 DEF TypeOK, Deposit, Confirm
  <2>2. p[1] = d.key
    BY <1>0, <1>6, <2>1, PaidTouchesOneTarget DEF Confirm
  <2>3. {d.key} \X d.news \subseteq heard
    BY <2>1 DEF CarriedIsNamed
  <2> QED BY <1>0, <2>1, <2>2, <2>3 DEF Debt
<1>7. ASSUME NEW d \in inflight, Fail(d) PROVE FALSE
  BY <1>7 DEF Fail
<1>8. ASSUME Save PROVE FALSE
  BY <1>8 DEF Save
<1>9. ASSUME NEW readable \in BOOLEAN, Restart(readable) PROVE FALSE
  BY <1>9 DEF Restart
<1>10. ASSUME UNCHANGED vars PROVE FALSE
  BY <1>10 DEF vars
<1> QED
  BY <1>1, <1>2, <1>3, <1>4, <1>5, <1>6, <1>7, <1>8, <1>9, <1>10 DEF Next

\* A debt of any queue is dropped unheard only by the confirmation of a deposit
\* to its own target that left before the debt was taken on (owed.rs paid).
THEOREM LossNeedsOvertaking == Spec => LostOnlyWhenOvertaken
<1>1. IInv /\ [Next]_vars =>
        [\A p \in promised \cap promised' :
           (Outstanding(entries, p) /\ ~Outstanding(entries', p) /\ p \notin heard)
             => \E d \in inflight : d.arrived /\ d.key = p[1] /\ p[2] \notin d.news]_vars
  BY StepLosesOnlyOvertaken
<1> QED BY <1>1, Inductive, PTL DEF Spec, LostOnlyWhenOvertaken

(***************************************************************************)
(* The contract.                                                           *)
(***************************************************************************)

\* paid makes nothing outstanding that was not.
LEMMA PaidAddsNothing ==
  ASSUME NEW m \in Maps, NEW k \in Key, NEW ids, NEW p \in Debt,
         Outstanding(AfterPaid(m, k, ids), p)
  PROVE  Outstanding(m, p)
BY DEF Outstanding, AfterPaid, Put, Without

\* Nothing is due in an empty map.
LEMMA NothingDue == DueIn(Nothing) = {}
BY DEF DueIn, Outstanding, Nothing

LEMMA ContractStep ==
  ASSUME IInv, [Next]_vars
  PROVE  [Contract!Next]_<<DueIn(entries), DueIn(stored), heard>>
<1> USE DEF IInv
<1> DEFINE due == DueIn(entries)
           saved == DueIn(stored)
<1>0. /\ entries \in Maps /\ due \subseteq Debt /\ due' \subseteq Debt
      /\ Contract!Debt = Debt
  BY DEF TypeOK, DueIn, Debt, Contract!Debt
<1>1. ASSUME NEW k \in Key, NEW news \in SUBSET News, Owe(k, news)
      PROVE  Contract!Incur
  <2>1. due \subseteq due'
    BY <1>0, <1>1, OweKeeps DEF Owe, DueIn
  <2>2. due' = due \cup due'
    BY <2>1
  <2>3. saved' = saved /\ heard' = heard
    BY <1>1 DEF Owe, DueIn
  <2> HIDE DEF due, saved
  <2>4. \E D \in SUBSET Contract!Debt : due' = due \cup D
    BY <1>0, <2>2
  <2> QED BY <2>3, <2>4 DEF Contract!Incur, due, saved
<1>2. ASSUME NEW k \in Key, Forget(k) PROVE Contract!WriteOff(k)
  BY <1>2 DEF Forget, AfterForget, Without, DueIn, Outstanding, Contract!WriteOff
<1>3. ASSUME NEW k \in Key, Send(k)
      PROVE  UNCHANGED <<due, saved, heard>>
  BY <1>3 DEF Send, DueIn
<1>4. ASSUME Clear PROVE Contract!StartOver
  BY <1>4, NothingDue DEF Clear, Contract!StartOver, DueIn
<1>5. ASSUME NEW d \in inflight, Arrive(d) PROVE Contract!Hear
  <2>1. {d.key} \X d.news \in SUBSET Debt
    BY DEF TypeOK, Deposit, Debt
  <2>2. heard' = heard \cup ({d.key} \X d.news)
    BY <1>5 DEF Arrive
  <2>3. due' = due /\ saved' = saved
    BY <1>5 DEF Arrive, DueIn
  <2> QED BY <1>0, <2>1, <2>2, <2>3 DEF Contract!Hear
<1>6. ASSUME NEW d \in inflight, Confirm(d) PROVE Contract!Settle
  <2>1. d.key \in Key /\ d.ids \in SUBSET News
    BY DEF TypeOK, Deposit
  <2>2. due' \subseteq due
    BY <1>0, <1>6, <2>1, PaidAddsNothing DEF Confirm, DueIn
  <2>3. ASSUME NEW p \in due \ due' PROVE p \in heard
    <3>1. /\ p \in Debt /\ CarriesIds(p[1][1])
          /\ Outstanding(entries, p) /\ ~Outstanding(entries', p)
      BY <2>3 DEF DueIn
    <3>2. p[1] = d.key /\ p[2] \in d.ids
      BY <1>0, <1>6, <2>1, <3>1, PaidRetiresWhatWent DEF Confirm
    <3>3. d.news = d.ids /\ {d.key} \X d.news \subseteq heard
      BY <1>6, <3>1, <3>2 DEF Confirm, CarriedIsNamed
    <3> QED BY <3>1, <3>2, <3>3 DEF Debt
  <2>4. saved' = saved /\ heard' = heard
    BY <1>6 DEF Confirm, DueIn
  <2> HIDE DEF due, saved
  <2>5. due' = due \ (due \ due')
    BY <2>2
  <2>6. due \ due' \in SUBSET heard
    BY <2>3
  <2> QED BY <2>4, <2>5, <2>6 DEF Contract!Settle, due, saved
<1>7. ASSUME NEW d \in inflight, Fail(d)
      PROVE  UNCHANGED <<due, saved, heard>>
  BY <1>7 DEF Fail, DueIn
<1>8. ASSUME Save PROVE Contract!Save
  BY <1>8 DEF Save, Contract!Save, DueIn
<1>9. ASSUME NEW readable \in BOOLEAN, Restart(readable) PROVE Contract!Reload
  <2>1. entries' = stored \/ entries' = Nothing
    BY <1>9 DEF Restart, FromJson
  <2>2. due' \in {saved, {}}
    BY <2>1, NothingDue DEF DueIn
  <2>3. saved' = saved /\ heard' = heard
    BY <1>9 DEF Restart, DueIn
  <2> QED BY <2>2, <2>3 DEF Contract!Reload
<1>10. ASSUME UNCHANGED vars PROVE UNCHANGED <<due, saved, heard>>
  BY <1>10 DEF vars, DueIn
<1> QED
  BY <1>1, <1>2, <1>3, <1>4, <1>5, <1>6, <1>7, <1>8, <1>9, <1>10
  DEF Next, Contract!Next

\* Owed implements OwedContract: in the queues with ids a debt stops being due
\* because it was heard, written off, or was not on disk at a restart.
THEOREM ImplementsContract == Spec => KeepsContract
<1>1. Init => Contract!Init
  BY NothingDue DEF Init, Contract!Init
<1>2. IInv /\ [Next]_vars
        => [Contract!Next]_<<DueIn(entries), DueIn(stored), heard>>
  BY ContractStep
<1> QED BY <1>1, <1>2, Inductive, PTL DEF Spec, KeepsContract, Contract!Spec
=============================================================================
