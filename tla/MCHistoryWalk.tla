---------------------------- MODULE MCHistoryWalk ----------------------------
EXTENDS HistoryWalk

MCIds == 1 .. 5
MCRepeated == 1 .. 3
MCSeconds == {1, 2, 3}
MCInitially == {4, 5}
=============================================================================
