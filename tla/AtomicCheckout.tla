-------------------------- MODULE AtomicCheckout --------------------------
(***************************************************************************)
(* What two-phase commit promises for every checkout, with no coordinator  *)
(* and no messages: each participant votes, and the votes bind.  A         *)
(* participant commits only when every participant of the checkout has     *)
(* voted yes, and gives up only while none has committed.                  *)
(***************************************************************************)
CONSTANTS
  Tx,           \* the checkouts
  Participant   \* the services that take part in each of them

VARIABLE state  \* state[t][p], where participant p stands in checkout t

ParticipantState == {"working", "prepared", "committed", "aborted"}

Init == state = [t \in Tx |-> [p \in Participant |-> "working"]]

Moves(t, p, to) == state' = [state EXCEPT ![t][p] = to]

\* p votes yes: from here on it may no longer fail to commit by itself.
VoteYes(t, p) ==
  /\ state[t][p] = "working"
  /\ Moves(t, p, "prepared")

\* p makes its part of the checkout permanent.
Commit(t, p) ==
  /\ state[t][p] = "prepared"
  /\ \A q \in Participant : state[t][q] \in {"prepared", "committed"}
  /\ Moves(t, p, "committed")

\* p votes no, or undoes what it had prepared.
Abort(t, p) ==
  /\ state[t][p] \in {"working", "prepared"}
  /\ \A q \in Participant : state[t][q] # "committed"
  /\ Moves(t, p, "aborted")

Next == \E t \in Tx, p \in Participant :
          VoteYes(t, p) \/ Commit(t, p) \/ Abort(t, p)

Spec == Init /\ [][Next]_state

\* No checkout ends half done: committed by one service, given up by another.
Atomic ==
  \A t \in Tx : \A p, q \in Participant :
    ~(state[t][p] = "committed" /\ state[t][q] = "aborted")
=============================================================================
