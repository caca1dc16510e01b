------------------------------ MODULE MCSession ------------------------------
(***************************************************************************)
(* Session with a short and a long encoded session: a short one written    *)
(* over a long one without truncation is none of them.                     *)
(***************************************************************************)
EXTENDS Session

MCByte == {"a", "b"}
MCVal  == {<<"a">>, <<"b", "b">>}
=============================================================================
