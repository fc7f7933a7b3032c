---------------------------- MODULE MCDepthFeed -----------------------------
(* Small instances of DepthFeed.tla, with the pairs and orders of MCZex. *)
EXTENDS DepthFeed, MCZex

\* One pair that trades, and the one every deposit would need.
FeedMarkets == {BTCUSDT, <<MCUSDT, MCUSDT>>}

\* Sell orders of two sizes, one of them for nothing, and buy orders at two
\* prices: levels are shared, left at 0, crossed and taken away.
FeedOffers ==
    {[f EXCEPT !.side = "sell"] : f \in Payload({BTCUSDT}, {0, 2}, {1})}
        \cup {[f EXCEPT !.side = "buy"] : f \in Payload({BTCUSDT}, {1}, {1, 2})}
=============================================================================
