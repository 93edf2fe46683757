--------------------------- MODULE MCClerkWebhook ---------------------------
(* Small instances of ClerkWebhook for TLC. *)
EXTENDS ClerkWebhook

CONSTANTS i1, i2, h1, h2

MCIdentities == {i1, i2}
TwoHandlers == {h1, h2}

Ev(type, id, version) ==
  [type |-> type, id |-> id, version |-> version, taken |-> FALSE]

\* A user signs up, changes and leaves.
OneLife == {<<Ev("created", i1, 1), Ev("updated", i1, 2), Ev("deleted", i1, 0)>>,
            <<Ev("created", i1, 1), Ev("updated", i1, 2)>>}

\* A user leaves and signs up again with the same email; or takes the email of
\* another row.
TwoLives == OneLife \cup
  {<<Ev("created", i1, 1), Ev("deleted", i1, 0), Ev("created", i2, 1)>>,
   <<Ev("created", i1, 1), [Ev("updated", i1, 2) EXCEPT !.taken = TRUE]>>}
=============================================================================
