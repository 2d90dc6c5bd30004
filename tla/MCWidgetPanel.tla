---------------------------- MODULE MCWidgetPanel ----------------------------
(* A small instance of WidgetPanel for TLC.                                   *)
EXTENDS WidgetPanel, TLC

CONSTANTS s1, s2, f1

TwoSlots    == {s1, s2}
OneFile     == {f1}
ToTickets   == {"tickets"}
SavedAndNot  == {"subject", "reply"}
EarlierOne  == {1}

PanelSymmetry == Permutations(TwoSlots)
=============================================================================
