---------------------------- MODULE MCSuperloop ----------------------------
EXTENDS Superloop
MCCount == <<1, 5, 10, 100>>
MCSlot == 1..4
=============================================================================
