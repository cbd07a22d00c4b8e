----------------------------- MODULE EvidenceLog -----------------------------
(***************************************************************************)
(* What the evidence of a run is to those who use it ("evidence_events is  *)
(* append-only at the API boundary and ordered"): a list that grows at its *)
(* end while the run is active, in which a key occurs once.  A call that   *)
(* is answered gets the place of its key's entry, whether the call made    *)
(* the entry or came after it.  No locks, statements or transactions:      *)
(* ExperimentRun is shown to promise all this with them.                   *)
(***************************************************************************)
EXTENDS Naturals, Sequences

CONSTANTS Calls,      \* the calls that append
          Keys,       \* what a client calls its event
          Items,      \* what an event is about
          Unanswered  \* a call that was not answered yet, or failed

VARIABLES state,   \* of the run: none, ACTIVE, COMPLETED
          trials,  \* how many trials it has
          log,     \* its evidence, in order
          reply    \* [Calls -> Unanswered or the key and the place answered]

vars == <<state, trials, log, reply>>

Init == /\ state = "none"
        /\ trials = 0
        /\ log = << >>
        /\ reply = [r \in Calls |-> Unanswered]

Move(from, to) == state = from /\ state' = to /\ UNCHANGED <<trials, log, reply>>

Try == /\ state = "ACTIVE"
       /\ trials' = trials + 1
       /\ UNCHANGED <<state, log, reply>>

Answer(r, key, place) ==
    /\ reply[r] = Unanswered
    /\ reply' = [reply EXCEPT ![r] = [key |-> key, place |-> place]]

\* A new key: the entry takes the next place.
Record(r) ==
    /\ state = "ACTIVE"
    /\ \E key \in Keys, item \in Items, trial \in 0..trials :
         /\ \A n \in 1..Len(log) : log[n].key # key
         /\ log' = log \o << [key |-> key, item |-> item, trial |-> trial] >>
         /\ Answer(r, key, Len(log) + 1)
    /\ UNCHANGED <<state, trials>>

\* A key that is there: the answer is its place, whatever has become of the run.
Repeat(r) ==
    /\ \E n \in 1..Len(log) : Answer(r, log[n].key, n)
    /\ UNCHANGED <<state, trials, log>>

Next == \/ Move("none", "ACTIVE")
        \/ Move("ACTIVE", "COMPLETED")
        \/ Try
        \/ \E r \in Calls : Record(r) \/ Repeat(r)

Spec == Init /\ [][Next]_vars
=============================================================================
