-------------------------- MODULE MCHttpsExchange --------------------------
(* HttpsExchange on a small instance. *)
EXTENDS HttpsExchange

(* A head with and one without header lines. *)
SomeHeads == {<<"status", "Date", "Content-Type", "empty">>,
              <<"status", "empty">>}
=============================================================================
