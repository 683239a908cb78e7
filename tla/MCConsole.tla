----------------------------- MODULE MCConsole ------------------------------
(* The console on a small screen.                                          *)
EXTENDS Console

MCMessages ==
    {<<"a">>, <<"a", "b", "NL">>, <<"b", "a", "b", "b">>, <<"BS", "b">>, <<"CR", "a">>, <<"NL">>}

=============================================================================
