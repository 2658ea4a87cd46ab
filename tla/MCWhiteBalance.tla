--------------------------- MODULE MCWhiteBalance ---------------------------
(* WhiteBalance on three sources, two timings and three modes with slots for *)
(* two: the default source has every row but that of mode 2, source 1 has    *)
(* rows of its own on the Dolby timing, one of them without a colour         *)
(* temperature.                                                              *)
EXTENDS WhiteBalance
CONSTANTS user, absent

MCDbRows == {<<0, 0, 0>>, <<0, 0, 1>>, <<1, 1, 1>>, <<2, 0, 2>>}
MCPartial == {<<1, 1, 1>>}
MCRowTemp == [x \in MCDbRows |-> IF x[3] = 0 THEN 1 ELSE 0]
MCDbTemps == {<<0, 0, 0>>, <<0, 0, 1>>, <<1, 1, 1>>}
=============================================================================
