----------------------------- MODULE AtLeastOnce -----------------------------
(***************************************************************************)
(* What durable delivery promises one subscriber (docs/SPEC.md, sections    *)
(* 9.4 and 10): the events it wants are handled in the order of their seq,  *)
(* none is passed over unless the subscriber was told that it is lost, and  *)
(* a restart may make it handle some again.  No log, no connection, no      *)
(* queue.                                                                   *)
(***************************************************************************)
EXTENDS Integers

VARIABLES
  wanted,    \* seqs of the matching events committed so far
  told,      \* seqs announced as lost
  handled,   \* seqs the subscriber's handler finished at least once
  cursor     \* the subscriber's position

aloVars == <<wanted, told, handled, cursor>>

Init == wanted = {} /\ told = {} /\ handled = {} /\ cursor = 0

\* New events come after the old ones.
Commit ==
  /\ wanted \subseteq wanted' /\ wanted' \subseteq Nat \ {0}
  /\ \A r \in wanted, s \in wanted' \ wanted : r < s
  /\ UNCHANGED <<told, handled, cursor>>

Tell ==
  /\ told \subseteq told'
  /\ UNCHANGED <<wanted, handled, cursor>>

\* s is the next one: everything wanted between the cursor and s is lost, and
\* the subscriber knows.
Handle(s) ==
  /\ s > cursor
  /\ \A r \in wanted : cursor < r /\ r < s => r \in told
  /\ handled' = handled \cup {s}
  /\ UNCHANGED <<wanted, told, cursor>>

Advance(s) ==
  /\ s \in handled /\ s > cursor
  /\ \A r \in wanted : cursor < r /\ r < s => r \in told
  /\ cursor' = s
  /\ UNCHANGED <<wanted, told, handled>>

\* A restart resumes from an earlier position.
Rewind(s) ==
  /\ s < cursor
  /\ cursor' = s
  /\ UNCHANGED <<wanted, told, handled>>

Next ==
  \/ Commit
  \/ Tell
  \/ \E s \in wanted : Handle(s)
  \/ \E s \in handled : Advance(s)
  \/ \E s \in handled \cup {0} : Rewind(s)

Spec == Init /\ [][Next]_aloVars

\* Every wanted event at or below the cursor was handled or announced lost.
NoSkip == \A r \in wanted : r <= cursor => r \in handled \cup told
=============================================================================
