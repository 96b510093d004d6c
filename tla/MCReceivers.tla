----------------------------- MODULE MCReceivers -----------------------------
EXTENDS Receivers

Event(type, channel, message, thread) ==
    [type |-> type, channel |-> channel, message |-> message, thread |-> thread]

(* A reply, an edit of the thread's root, a reaction to it, an event of    *)
(* nothing that is served, one of both catalogues.                         *)
MCEvents ==
    {Event("NEW_MESSAGE", "c", "reply", "root"),
     Event("UPDATED_MESSAGE", "c", "root", None),
     Event("REACTION_ADDED", "c", "root", None),
     Event("WORKSPACE_USER_JOINED", None, None, None),
     Event("APP_UNAUTHORIZED", None, None, None)}

Symmetry == Permutations(Deliveries)
=============================================================================
