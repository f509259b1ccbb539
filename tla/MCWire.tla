------------------------------- MODULE MCWire -------------------------------
(***************************************************************************)
(* Every payload of the protocol, one message after the other.             *)
(***************************************************************************)
EXTENDS Wire

MCMessages == PayloadNames
MCPosition == <<4, 5, 6>>
MCLook == <<7, 8, 9>>
MCName == <<65, 75>>

(* Shots from five places, at players behind and above one another.        *)
MCOrigins == {<<-6, 0, 0>>, <<-6, 2, 3>>, <<-9, 1, -3>>, <<1, 1, -6>>, <<5, -6, 2>>}
MCDirections ==
    {<<1, 0, 0>>, <<2, 0, 1>>, <<2, -1, -1>>, <<1, 1, 1>>, <<0, 0, 1>>, <<-1, 0, 0>>, <<0, 1, 0>>}
Standing(pos) == [pos |-> pos, facing |-> <<0, 1>>]
MCOthers == 1 :> Standing(<<0, 0, 0>>) @@ 2 :> Standing(<<5, 0, 1>>) @@ 3 :> Standing(<<1, 0, 9>>)
=============================================================================
