-------------------------------- MODULE MCUi --------------------------------
(* Instances of Ui for TLC.                                                 *)
EXTENDS Ui

Small == [w |-> 6, h |-> 25]
Large == [w |-> 7, h |-> 26]

BothDims == {Small, Large}

ShortCodeWindow == {<<"code", 3>>}

TwoWords == {<<"u", "u">>, <<"u", "u", "u">>}

OneLine == {<<"h", " ", "c">>}
=============================================================================
