----------------------------- MODULE MCJoinToken -----------------------------
(* The codec on strings of up to seven characters over K, 1, ":" and a,   *)
(* with the two-character prefix "K1" standing for "K10".                 *)
EXTENDS JoinToken

CONSTANTS NoCA, CA1

MCPrefix == <<"K", "1">>
MCHashCA == [b \in {NoCA, CA1} |-> IF b = NoCA THEN <<"a", "1">> ELSE <<"1", "a">>]
MCUsers == {<<>>, <<"a">>, <<"1", "K">>, <<"a", ":">>}
MCPasswords == {<<>>, <<"a">>, <<":", ":">>, <<"a", ":", "K">>, <<"K", "1">>}
=============================================================================
