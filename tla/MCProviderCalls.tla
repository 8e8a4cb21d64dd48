-------------------------- MODULE MCProviderCalls --------------------------
(* ProviderCalls on small instances.                                       *)
EXTENDS ProviderCalls, TLC

CONSTANTS c1, c2, c3, p1, p2

MCOneCaller == {c1}
MCTwoCallers == {c1, c2}
MCThreeCallers == {c1, c2, c3}
MCThird == {c3}
MCNobody == {}
MCNothing == {}
MCOneProfile == <<p1>>
MCTwoProfiles == <<p1, p2>>
MCFirst == {p1}
MCSecond == {p2}
MCSecondCaller == {c2}
=============================================================================
