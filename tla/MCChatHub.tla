------------------------------ MODULE MCChatHub ------------------------------
(* Instances of ChatHub for TLC. *)
EXTENDS ChatHub, TLC

CONSTANTS c1, c2, general, course, m1, m2, m3, m4, w1, w2

\* c1 is in both channels, the others in `general` only.
MCSubs == [c \in Clients |-> IF c = c1 THEN Channels ELSE {general}]
MCChannelOf == [m \in Messages |-> IF m = m2 THEN CHOOSE ch \in Channels :
                                       Channels # {general} => ch # general
                                   ELSE general]
WorkerSymmetry == Permutations(Workers)
=============================================================================
