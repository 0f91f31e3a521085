------------------------------ MODULE TaskLedger ------------------------------
(* What the durable store of a Task promises its clients: a ledger that only  *)
(* grows, takes each request once, at the version the request named, and      *)
(* reports no success that is not in it.                                      *)
EXTENDS Naturals, SequencesExt

CONSTANTS Key,  \* clients' requests, by idempotency key
          What, \* what an entry may establish, so that asking again is settled
          None

VARIABLES log,     \* the entries: whose request, None for the store's own
          asked,   \* what each key was first used for, or None
          answered \* requests reported to have succeeded

vars == <<log, asked, answered>>

Entries == [who : Key \cup {None}, what : What \cup {None}]
Requests == [version : Nat, what : What \cup {None}]

Init ==
  /\ log \in Seq(Entries) /\ \A e \in ToSet(log) : e = [who |-> None, what |-> None]
  /\ asked = [k \in Key |-> None]
  /\ answered = {}

Ask(k) ==
  /\ asked[k] = None
  /\ asked'[k] \in Requests
  /\ asked' = [asked EXCEPT ![k] = asked'[k]]
  /\ UNCHANGED <<log, answered>>

Accept(k) ==
  /\ asked[k] # None /\ asked[k].version = Len(log)
  /\ \A e \in ToSet(log) : e.who # k
  /\ log' = Append(log, [who |-> k, what |-> asked[k].what])
  /\ UNCHANGED <<asked, answered>>

(* The store records something of its own accord.                             *)
Record ==
  /\ log' = Append(log, [who |-> None, what |-> None])
  /\ UNCHANGED <<asked, answered>>

Answer(k) ==
  /\ asked[k] # None
  /\ \E e \in ToSet(log) :
       e.who = k \/ (e.what # None /\ e.what = asked[k].what)
  /\ answered' = answered \cup {k}
  /\ UNCHANGED <<log, asked>>

Next ==
  \/ \E k \in Key : Ask(k) \/ Accept(k) \/ Answer(k)
  \/ Record

Spec == Init /\ [][Next]_vars
================================================================================
