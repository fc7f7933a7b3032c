---------------------------- MODULE MCDelivery ----------------------------
(* Two clients and a pair: its two channels, and one without a second part. *)
EXTENDS Delivery

CONSTANTS c1, c2

Depth  == <<"A", "depth">>
Kline  == <<"A", "kline">>
NoPart == <<"A">>

OneChannel    == {Depth}
ThreeChannels == {Depth, Kline, NoPart}
=============================================================================
