---------------------------- MODULE MCSupportChat ----------------------------
(***************************************************************************)
(* Instances of SupportChat for TLC: one instance of the API, which hears  *)
(* its own messages from Redis as well, a guest and a user who is linked   *)
(* with him, each with a session; and connections of one of them with a    *)
(* channel of one place.                                                   *)
(***************************************************************************)
EXTENDS SupportChat, TLC

CONSTANTS i1, guest, user, admin

MCMessages == 1 .. 2
MCHome == [x \in Clients \cup Sessions |-> i1]
MCIdentity == [c \in Clients |-> guest]

Interchangeable == Permutations(Sessions) \cup Permutations(Conversations)
=============================================================================
