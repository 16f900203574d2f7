-------------------------- MODULE MCMatchingEngine --------------------------
(***************************************************************************)
(* Small instances of MatchingEngine for TLC.                              *)
(***************************************************************************)
EXTENDS MatchingEngine, TLC

CONSTANTS s1, s2, o1, o2, o3, a, b

NoStp(tifs) == tifs \X {"None"}

AllStyles == NoStp(TimeInForce) \cup {<<"GTC", "CancelAggressor">>, <<"GTC", "CancelPassive">>,
                                      <<"GTC", "CancelBoth">>}
FokSelfStyles == NoStp({"GTC"}) \cup {<<"FOK", "CancelPassive">>}
GtcStyles == NoStp({"GTC"})

AddCancel == {"add", "cancel"}
AddOnly == {"add"}
AllCalls == {"add", "cancel", "replace", "reject", "snapshot", "load"}

IdSymmetry == Permutations(Ids)
=============================================================================
