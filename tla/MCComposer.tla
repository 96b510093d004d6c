----------------------------- MODULE MCComposer -----------------------------
(* One channel, one text and one thread root, each of which can be edited  *)
(* away and back; a message and a reply give two requests to preview.      *)
EXTENDS Composer

CONSTANTS c1, t1, r1

MCChannels == {Blank, c1}
MCTexts == {Blank, t1}
MCRoots == {r1}
=============================================================================
