--------------------------- MODULE MCJournalSync ---------------------------
(* Instances of JournalSync: a user with two apps, and a user with two     *)
(* boxes that share a room.                                                *)
EXTENDS JournalSync, TLC

CONSTANTS c1, c2, a1, a2, room, desk

\* Nobody manages a conversation of the user's own.
Ownerless == [c \in Convos |-> NoDevice]

\* a1 manages the room; the desk is the journal's own conversation.
RoomOwner == [c \in Convos |-> IF c = room THEN a1 ELSE NoDevice]

\* Sockets are interchangeable.
Symmetry == Permutations(Conns)

\* Bound: the desk speaks once at most, before anything else is written.
DeskFirst == \A n \in DOMAIN log : log[n].convo = desk => n = 1
=============================================================================
