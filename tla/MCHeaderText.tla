---------------------------- MODULE MCHeaderText ----------------------------
(* HeaderText on a small instance. *)
EXTENDS HeaderText

(* The content type in both cases, a longer name and another one. *)
MCNames == {<<"content-type">>, <<"Content-Type">>, <<"Content-Type", "x">>,
            <<"X", "x">>}
(* No value, "application/json" in both cases and after a colon, and       *)
(* another type.                                                           *)
MCValues == {<<>>, <<"j">>, <<"J">>, <<":", "j">>, <<"x", ":", "X">>}
(* Nothing, and one type. *)
MCFewValues == {<<>>, <<"j">>}
MCBodies == {<<>>, <<"x">>, <<"x", "LF">>}
=============================================================================
