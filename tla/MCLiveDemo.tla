----------------------------- MODULE MCLiveDemo -----------------------------
(***************************************************************************)
(* A bounded instance of LiveDemo: two demos whose events are built within *)
(* one second, so that the file may hold a record of the case already.     *)
(***************************************************************************)
EXTENDS LiveDemo

MCCases == {"c1"}
MCEvents == {BuildDemoEvent(c) : c \in MCCases}
=============================================================================
