------------------------------ MODULE AccessGate ------------------------------
(***************************************************************************)
(* What the cached membership check promises to its callers, without a     *)
(* word about caches: a student's membership of a course changes, and the  *)
(* requests that ask for it are told a value that is or was true and that  *)
(* somebody still remembers.  A value that is forgotten can only come back *)
(* by becoming true again.  CACHE-ASIDE with a TTL promises no more than   *)
(* this, and MembershipCache is shown to promise no less.                  *)
(***************************************************************************)
CONSTANTS Requests,  \* who asks
          Answers,   \* the memberships there are
          Unasked    \* what a request knows before it is first told anything

VARIABLES truth,  \* the membership
          live,   \* the values that may still be told
          told    \* [Requests -> the last value each was told]

vars == <<truth, live, told>>

Init == /\ truth \in Answers
        /\ live = {truth}
        /\ told = [r \in Requests |-> Unasked]

\* The membership changes; old values are remembered or not.
Change == /\ truth' \in Answers
          /\ live' \subseteq live \cup {truth'}
          /\ truth' \in live'
          /\ UNCHANGED told

\* A remembered value is told to any number of requests, and some are forgotten.
Tell == /\ \E v \in live, S \in SUBSET Requests :
              told' = [r \in Requests |-> IF r \in S THEN v ELSE told[r]]
        /\ live' \subseteq live
        /\ truth' = truth /\ truth \in live'

Next == Change \/ Tell

Spec == Init /\ [][Next]_vars
=============================================================================
