-------------------------- MODULE MCMembershipCache --------------------------
(* Instances of MembershipCache for TLC. *)
EXTENDS MembershipCache

CONSTANTS r1, r2,  \* requests
          a,       \* the loader of one service object
          w1, w2   \* enrollment handlers

\* The requests share a loader, so that one can wait for the other's load; a load
\* that a write overtakes needs no second loader.
MCLoaderOf == [r \in Requests |-> a]
=============================================================================
