----------------------------- MODULE MCProcess ------------------------------
(***************************************************************************)
(* A small process for TLC: one user, announced by the user generator, by  *)
(* a producer that speaks the consumer's schema, and in a message that     *)
(* does not decode.                                                        *)
(***************************************************************************)
EXTENDS Process

CONSTANT alice

MCMessages == {Generated(alice, TRUE),
               [Generated(alice, FALSE) EXCEPT !.deletedAt = TRUE],
               [Generated(alice, FALSE) EXCEPT !.form = "plain"]}
MCHeaders == {"bare", "good"}
=============================================================================
