---------------------------- MODULE MCLLMDispatch ----------------------------
(* Calls to a primary endpoint and its fallback.                             *)
EXTENDS LLMDispatch, TLC

CONSTANTS c1, c2, c3, c4, e1, e2

FourCalls == {c1, c2, c3, c4}
TwoEndpoints == {e1, e2}

\* c3 and c4 have no fallback.
PrimaryOf  == c1 :> e1 @@ c2 :> e1 @@ c3 :> e1 @@ c4 :> e1
FallbackOf == c1 :> e2 @@ c2 :> e2 @@ c3 :> NoEndpoint @@ c4 :> NoEndpoint

\* c2 fits the halved limit no more, c4 not even the configured one.
EstOf == c1 :> 1 @@ c2 :> 3 @@ c3 :> 1 @@ c4 :> 5
=============================================================================
