--------------------------- MODULE BindingContract ---------------------------
(***************************************************************************)
(* What Beckon promises about its keys, without files, snapshots or tokens: *)
(* each logical key belongs to at most one pane and each pane to at most    *)
(* one key; a key changes hands only by being freed first; the keys of a    *)
(* session that nobody observes are freed one at a time on request, or all  *)
(* of them together, and never because their panes cannot be seen.          *)
(***************************************************************************)
EXTENDS Integers

CONSTANTS Keys,      \* the logical keys
          Panes,     \* pane references
          Sessions,  \* the Herdr sessions
          SessionOf, \* the session of each pane
          Nobody     \* the owner of a free key

VARIABLES owner,       \* owner[k]: the pane key k is bound to, or Nobody
          established, \* a ledger exists: keys are never taken from elsewhere again
          observed     \* the sessions whose panes can be told gone
vars == <<owner, established, observed>>

Exclusive(f) == \A j, k \in Keys : f[j] = f[k] /\ f[j] # Nobody => j = k

Init == /\ owner = [k \in Keys |-> Nobody]
        /\ established = FALSE
        /\ observed \in SUBSET Sessions

\* The first ledger may start from any exclusive assignment.
Start == /\ ~established
         /\ established' = TRUE
         /\ owner' \in [Keys -> Panes \cup {Nobody}]
         /\ Exclusive(owner')
         /\ UNCHANGED observed

Freed(K) == [k \in Keys |-> IF k \in K THEN Nobody ELSE owner[k]]

\* Keys whose panes were seen to be gone.
Gone(K) == K \subseteq {k \in Keys : owner[k] # Nobody /\ SessionOf[owner[k]] \in observed}

\* Panes disappear; a request may then free one key, or all of them.
Free(K, R) == /\ Gone(K)
              /\ R = {} \/ R = Keys \/ \E k \in Keys : R = {k}
              /\ owner' = Freed(K \cup R)

\* Panes disappear; then a free key goes to an observed pane, which gives up
\* the key it had.
Grant(K, k, p) == /\ Gone(K)
                  /\ Freed(K)[k] = Nobody
                  /\ SessionOf[p] \in observed
                  /\ owner' = [j \in Keys |-> IF j = k THEN p
                                              ELSE IF owner[j] = p THEN Nobody
                                              ELSE Freed(K)[j]]

Serve == /\ established
         /\ \E K \in SUBSET Keys : \/ \E R \in SUBSET Keys : Free(K, R)
                                   \/ \E k \in Keys, p \in Panes : Grant(K, k, p)
         /\ UNCHANGED <<established, observed>>

\* A new daemon observes the sessions it finds.
Observe == /\ observed' \in SUBSET Sessions
           /\ UNCHANGED <<owner, established>>

Next == Start \/ Serve \/ Observe

Spec == Init /\ [][Next]_vars
=============================================================================
