---------------------------- MODULE MCBufferView ----------------------------
(* TLC instance of BufferView. *)
EXTENDS BufferView

MCNeedles == {<<"a">>, <<"b">>, <<"a", "b">>, <<"a", "a", "b">>}
MCInts == {-128, -127, -100, -9, -1, 0, 9, 10, 100, 127}
=============================================================================
