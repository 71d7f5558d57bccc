-------------------------------- MODULE Owed --------------------------------
(***************************************************************************)
(* What a device owes somebody else and has not managed to deliver         *)
(* (src/chat/owed.rs), together with the client loop the file describes:   *)
(* take an item of work, deposit it over a network that may lose the       *)
(* request or the answer, and retire it when the deposit is confirmed.     *)
(*                                                                         *)
(* An entry is keyed by <<queue, target>>.  Queues that carry ids name the *)
(* messages they are about; in the other four the debt is the target       *)
(* itself and what is sent is whatever is current when the deposit leaves. *)
(***************************************************************************)
EXTENDS Naturals, FiniteSets

CONSTANTS Queues,        \* the queues of Owes in use
          Targets,       \* contact indices, room ids, handle rotations
          News,          \* message ids; successive contents for the others
          MaxOwes,       \* bound: calls of owe in a behaviour
          MaxInFlight    \* bound: deposits under way at once

Owes == {"destroy", "acknowledge", "retract",
         "reintroduce", "reprofile", "reannounce"}

ASSUME QueuesAssumption == Queues \subseteq Owes

CarriesIds(queue) == queue \in {"acknowledge", "retract"}

Key == Queues \X Targets
Debt == Key \X News

(***************************************************************************)
(* The map of owed.rs: DOMAIN m is the set of keys held.                   *)
(***************************************************************************)
Nothing == [k \in {} |-> {}]

Held(m, k) == IF k \in DOMAIN m THEN m[k] ELSE {}
Put(m, k, ids) == [x \in DOMAIN m \cup {k} |-> IF x = k THEN ids ELSE m[x]]
Without(m, k) == [x \in DOMAIN m \ {k} |-> m[x]]

\* Mutant of AfterOwe: what was owed before is replaced.
AfterOweAnew(m, k, ids) == Put(m, k, ids)

AfterOwe(m, k, ids) == Put(m, k, Held(m, k) \cup ids)

WorkOf(m) == {[key |-> k, ids |-> m[k]] : k \in DOMAIN m}

\* Mutants of AfterPaid: the key is retired whatever was owed since; the target
\* is retired in every queue; an empty target is kept.
AfterPaidByKey(m, k, ids) == Without(m, k)
AfterPaidByTarget(m, k, ids) == [x \in {y \in DOMAIN m : y[2] # k[2]} |-> m[x]]
AfterPaidToEmpty(m, k, ids) ==
  IF k \notin DOMAIN m THEN m
  ELSE IF ~CarriesIds(k[1]) THEN Without(m, k) ELSE Put(m, k, m[k] \ ids)

\* Retire what went out: the whole target in a queue without ids, otherwise
\* the ids sent, and the target once none of its ids is left.
AfterPaid(m, k, ids) ==
  IF k \notin DOMAIN m THEN m
  ELSE IF ~CarriesIds(k[1]) \/ m[k] \subseteq ids
       THEN Without(m, k)
       ELSE Put(m, k, m[k] \ ids)

AfterForget(m, k) == Without(m, k)

\* An unreadable file is an empty queue.
FromJson(file, readable) == IF readable THEN file ELSE Nothing

VARIABLES entries,    \* Owed.entries, in memory
          stored,     \* the file the platform keeps (to_json)
          inflight,   \* deposits whose outcome is not known yet
          heard,      \* what has reached the far side's box
          promised,   \* debts the device took on and was never excused from
          owes        \* calls of owe so far, bounded by MaxOwes

vars == <<entries, stored, inflight, heard, promised, owes>>

Deposit == [key : Key, ids : SUBSET News, news : SUBSET News, arrived : BOOLEAN]

Maps == UNION {[D -> SUBSET News] : D \in SUBSET Key}

TypeOK == /\ entries \in Maps
          /\ stored \in Maps
          /\ inflight \in SUBSET Deposit
          /\ heard \in SUBSET Debt
          /\ promised \in SUBSET Debt
          /\ owes \in Nat

Init == /\ entries = Nothing
        /\ stored = Nothing
        /\ inflight = {}
        /\ heard = {}
        /\ promised = {}
        /\ owes = 0

\* Is the debt still to be attempted, as far as the map m knows?
Outstanding(m, debt) ==
  /\ debt[1] \in DOMAIN m
  /\ CarriesIds(debt[1][1]) => debt[2] \in m[debt[1]]

(***************************************************************************)
(* The operations of Owed.                                                 *)
(***************************************************************************)

\* owe.  In a queue without ids every call is a change nobody has heard of.
Owe(k, news) ==
  /\ owes < MaxOwes
  /\ ~CarriesIds(k[1]) => ({k} \X news) \cap (promised \cup heard) = {}
  /\ entries' = AfterOwe(entries, k, IF CarriesIds(k[1]) THEN news ELSE {})
  /\ promised' = promised \cup ({k} \X news)
  /\ owes' = owes + 1
  /\ UNCHANGED <<stored, inflight, heard>>

\* forget: there is nobody to tell any more.
Forget(k) ==
  /\ k \in DOMAIN entries
  /\ entries' = AfterForget(entries, k)
  /\ promised' = {p \in promised : p[1] # k}
  /\ UNCHANGED <<stored, inflight, heard, owes>>

\* clear: the identity that owed all of it is being replaced.
Clear ==
  /\ entries # Nothing
  /\ entries' = Nothing
  /\ promised' = {}
  /\ UNCHANGED <<stored, inflight, heard, owes>>

(***************************************************************************)
(* The client around it: the loop that drains the queues, and the file.    *)
(***************************************************************************)

\* A deposit leaves for one item of work, with the ids it names, or with the
\* content that is current now.
Send(k) ==
  /\ Cardinality(inflight) < MaxInFlight
  /\ \A d \in inflight : d.key # k
  /\ \E work \in WorkOf(entries) :
       /\ work.key = k
       /\ inflight' = inflight \cup
            {[key |-> k, ids |-> work.ids, arrived |-> FALSE,
              news |-> IF CarriesIds(k[1])
                       THEN work.ids
                       ELSE {n \in News : <<k, n>> \in promised}]}
  /\ UNCHANGED <<entries, stored, heard, promised, owes>>

\* The deposit reaches the box; the answer is still on its way back.
Arrive(d) ==
  /\ d \in inflight /\ ~d.arrived
  /\ heard' = heard \cup ({d.key} \X d.news)
  /\ inflight' = (inflight \ {d}) \cup {[d EXCEPT !.arrived = TRUE]}
  /\ UNCHANGED <<entries, stored, promised, owes>>

\* The answer came back: paid(queue, target, ids) with what was sent.
Confirm(d) ==
  /\ d \in inflight /\ d.arrived
  /\ entries' = AfterPaid(entries, d.key, d.ids)
  /\ inflight' = inflight \ {d}
  /\ UNCHANGED <<stored, heard, promised, owes>>

\* The request or its answer is lost: the loop catches its own failure and
\* the debt stays for the next collection.
Fail(d) ==
  /\ d \in inflight
  /\ inflight' = inflight \ {d}
  /\ UNCHANGED <<entries, stored, heard, promised, owes>>

Save ==
  /\ stored # entries
  /\ stored' = entries
  /\ UNCHANGED <<entries, inflight, heard, promised, owes>>

\* The process ends and starts again from the file.  Debts the file does not
\* hold are excused; an answer under way is never seen.
Restart(readable) ==
  /\ entries' = FromJson(stored, readable)
  /\ inflight' = {}
  /\ promised' = {p \in promised : Outstanding(entries', p) \/ p \in heard}
  /\ UNCHANGED <<stored, heard, owes>>

Next ==
  \/ \E k \in Key :
       \/ \E news \in SUBSET News : Owe(k, news)
       \/ Forget(k)
       \/ Send(k)
  \/ Clear
  \/ \E d \in inflight : Arrive(d) \/ Confirm(d) \/ Fail(d)
  \/ Save
  \/ \E readable \in BOOLEAN : Restart(readable)

Spec == Init /\ [][Next]_vars

(***************************************************************************)
(* Fairness: the loop comes back on every collection (Send), and a deposit *)
(* that can get through or be answered again and again does, once.         *)
(***************************************************************************)
ArriveOn(k) == \E d \in inflight : d.key = k /\ Arrive(d)
ConfirmOn(k) == \E d \in inflight : d.key = k /\ Confirm(d)

Fairness == \A k \in Key : /\ SF_vars(Send(k))
                           /\ SF_vars(ArriveOn(k))
                           /\ SF_vars(ConfirmOn(k))

FairSpec == Spec /\ Fairness

(***************************************************************************)
(* Properties.                                                             *)
(***************************************************************************)

\* A deposit under way in a queue with ids names what it carries, and what has
\* arrived has been heard.
CarriedIsNamed ==
  \A d \in inflight :
    /\ CarriesIds(d.key[1]) => d.news = d.ids
    /\ d.arrived => {d.key} \X d.news \subseteq heard

\* "What is retired is exactly what went out" for the queues that carry ids:
\* an id the device promised to send is still held or has been heard, however
\* appends, deposits, lost answers and restarts interleave (owed.rs paid).
NothingLost ==
  \A p \in promised : CarriesIds(p[1][1]) => Outstanding(entries, p) \/ p \in heard

\* The debts with ids that a map holds.
DueIn(m) == {p \in Debt : CarriesIds(p[1][1]) /\ Outstanding(m, p)}

\* The queues with ids keep the promise OwedContract states: a debt stops
\* being due because it was heard, written off, or not on disk at a restart
\* (owed.rs owe, paid, forget, clear, from_json).
Contract == INSTANCE OwedContract
              WITH due <- DueIn(entries), saved <- DueIn(stored)
KeepsContract == Contract!Spec

\* A debt is dropped unheard in one way only: it was owed while a deposit to
\* the same target was under way, and that deposit did not carry it.
LostOnlyWhenOvertaken ==
  [][\A p \in promised \cap promised' :
       (Outstanding(entries, p) /\ ~Outstanding(entries', p) /\ p \notin heard)
         => \E d \in inflight : d.arrived /\ d.key = p[1] /\ p[2] \notin d.news]_vars

\* A target is not retried for the life of the install: what is owed to it is
\* retired in the end, by payment or because there is nobody to tell.
DebtsAreRetired ==
  \A k \in Key : (k \in DOMAIN entries) ~> (k \notin DOMAIN entries)

\* A receipt or an unsend the device took on is heard in the end, unless the
\* device is excused from it.
PromisesAreHeard ==
  \A p \in Debt : CarriesIds(p[1][1]) =>
    ((p \in promised) ~> (p \in heard \/ p \notin promised))
=============================================================================
