------------------------------- MODULE Ledger -------------------------------
(***************************************************************************)
(* What buying time promises, seen from the books of the store and of the  *)
(* backend: a purchase is bought once, and not while another of its kind   *)
(* is owned; the backend is told only of what was bought; what is consumed *)
(* was owned, and the backend was told of it.  Billing implements this     *)
(* specification.                                                          *)
(***************************************************************************)
CONSTANTS Purchase, SkuOf

VARIABLES
  owned,     \* at the store: bought and not consumed
  consumed,  \* at the store: bought and consumed
  credited,  \* at the backend: paid
  mixed      \* an answer may have been taken for another purchase's

books == <<owned, consumed, credited, mixed>>

OnePerSku(P) == \A p, q \in P : SkuOf[p] = SkuOf[q] => p = q

BooksInit ==
  /\ owned \in {P \in SUBSET Purchase : OnePerSku(P)}
  /\ consumed = {} /\ credited \in SUBSET owned /\ mixed = FALSE

Buy(p) ==
  /\ p \notin owned \cup consumed /\ \A q \in owned : SkuOf[q] # SkuOf[p]
  /\ owned' = owned \cup {p} /\ UNCHANGED <<consumed, credited, mixed>>

Credit(p) ==
  /\ p \in owned \cup consumed
  /\ credited' = credited \cup {p} /\ UNCHANGED <<owned, consumed, mixed>>

Consume(p) ==
  /\ p \in owned /\ (p \in credited \/ mixed)
  /\ owned' = owned \ {p} /\ consumed' = consumed \cup {p}
  /\ UNCHANGED <<credited, mixed>>

\* Two threads have used one field for their answers; nothing is promised of the
\* order of telling and consuming any more.
Mix == mixed' = TRUE /\ UNCHANGED <<owned, consumed, credited>>

BooksNext == Mix \/ \E p \in Purchase : Buy(p) \/ Credit(p) \/ Consume(p)

BooksSpec == BooksInit /\ [][BooksNext]_books

=============================================================================
