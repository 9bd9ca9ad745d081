---------------------------- MODULE MCTextStream ----------------------------
(* Tokens that end inside a character, a marker or a stop sequence, and     *)
(* that run past the end of one.                                            *)
EXTENDS TextStream

MCTokens ==
  {<<"a">>, <<"L">>, <<"C">>, <<"<">>, <<"/">>, <<">">>, <<">", "a">>, Opener, Marker,
   <<"s">>, <<"t">>, <<"t", "a">>}
OneStop == << <<"s", "t">> >>
=============================================================================
