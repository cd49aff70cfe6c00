------------------------ MODULE MCCounterfeiterFake ------------------------
(***************************************************************************)
(* Two goroutines call the faked method once each while the test makes up *)
(* to two configuration calls.                                            *)
(***************************************************************************)
EXTENDS CounterfeiterFake

=============================================================================
