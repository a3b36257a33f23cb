------------------------------ MODULE MC_TypeCodec ------------------------------
(* TypeCodec with decimal widths and scales at the edges of the valid      *)
(* range, and catalog strings that are malformed or out of range.          *)
EXTENDS TypeCodec

MCWidths == {0, 1, 18, 38}
MCScales == {0, 3, 38}

Dec(w, s) == <<"decimal(">> \o w \o <<",">> \o s \o <<")">>

(* decimal(300,2), decimal(-1,0), decimal(2x,1), decimal( +5,2),           *)
(* decimal(5,), decimal(,5), decimal(), bare decimal, timestamp_us, json.  *)
MCStoredTexts ==
  { Dec(<<"3", "0", "0">>, <<"2">>), Dec(<<"-", "1">>, <<"0">>),
    Dec(<<"2", "x">>, <<"1">>), Dec(<<" ", "+", "5">>, <<"2">>),
    <<"decimal(", "5", ",", ")">>, <<"decimal(", ",", "5", ")">>,
    <<"decimal(", ")">>, <<"decimal">>, <<"timestamp_us">>, <<"json">> }

(* Only decimal strings, each canonical except for its members' spelling. *)
MCDecimalTexts ==
  { Dec(<<"3", "0", "0">>, <<"2">>), Dec(<<"-", "1">>, <<"0">>), Dec(<<"1", "8">>, <<"3">>) }
=============================================================================
