--------------------------- MODULE RequestLedger ---------------------------
(***************************************************************************)
(* What a measured window promises about its requests, whatever the users, *)
(* the clock and the server do: requests are numbered as they are issued,  *)
(* no more are open at once than there are users, a closed request is      *)
(* never opened again, and the window publishes every request it issued or *)
(* nothing at all.  bench/driver.py states the promise in pieces: the      *)
(* closed loop, "no retry", the dedupe, the void window.                   *)
(***************************************************************************)
EXTENDS Integers

CONSTANT Fleet    \* the virtual users of the closed loop

VARIABLES issued,   \* how many requests were issued: they are 0 .. issued - 1
          open,     \* those in flight
          closed,   \* those a record accounts for
          verdict   \* "running", then "published" or "void"

ledger == <<issued, open, closed, verdict>>

LedgerInit ==
    /\ issued = 0
    /\ open = {}
    /\ closed = {}
    /\ verdict = "running"

\* Every request of S is held by a user of its own: S is no larger than the fleet.
HeldApart(S) == \E holder \in [S -> Fleet] :
                   \A i, j \in S : holder[i] = holder[j] => i = j

\* A user gets its answer, issues its next request, or does both without
\* yielding in between.
Exchange ==
    /\ verdict = "running"
    /\ \E ended \in {{}} \cup {{i} : i \in open}, new \in {{}, {issued}} :
          /\ open' = (open \ ended) \cup new
          /\ closed' = closed \cup ended
          /\ issued' = IF new = {} THEN issued ELSE issued + 1
    /\ HeldApart(open')
    /\ UNCHANGED verdict

\* An adapter that broke its contract leaves a request nobody accounts for.
Lose ==
    /\ verdict = "running"
    /\ \E i \in open : open' = open \ {i}
    /\ verdict' \in {"running", "void"}
    /\ UNCHANGED <<issued, closed>>

Publish ==
    /\ verdict = "running"
    /\ open = {}
    /\ closed = 0 .. issued - 1
    /\ verdict' = "published"
    /\ UNCHANGED <<issued, open, closed>>

Void ==
    /\ verdict = "running"
    /\ verdict' = "void"
    /\ UNCHANGED <<issued, open, closed>>

LedgerNext == Exchange \/ Lose \/ Publish \/ Void

LedgerSpec == LedgerInit /\ [][LedgerNext]_ledger
=============================================================================
