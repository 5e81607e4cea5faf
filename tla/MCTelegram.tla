----------------------------- MODULE MCTelegram -----------------------------
(***************************************************************************)
(* A small instance of Telegram for TLC: a TV and a box whose name ends in *)
(* an action word, a name that both may get, and typed commands that use   *)
(* each parser.                                                            *)
(***************************************************************************)
EXTENDS Telegram

MCDevice == {"id1", "id2"}
MCName == {<<"tv">>, <<"tv", "up">>, <<"den", "tv">>}
MCFactoryName == ("id1" :> <<"tv">>) @@ ("id2" :> <<"tv", "up">>)
MCText == {<<"/tv", "tv", "up">>, <<"/remote", "id1">>, <<"/scan">>}
MCDigest == ("id1" :> "h1") @@ ("id2" :> "h2")
=============================================================================
