---------------------------- MODULE MC_MarketFeed ----------------------------
(* The streams of the feed (MarketFeed), and the candles of one of them on their way
   to a bot (CandleFlow).  Of a stream CandleFlow keeps that it is delivered or is
   not, so that the two are checked one beside the other: `part` tells which one
   runs, the other stays where it starts, and no step belongs to both.  Rows with
   partial values come from the downloads of the run.                               *)
EXTENDS MarketFeed, CandleFlow

CONSTANTS
  BTC, ETH,
  Parts  \* which parts run: "feed", "candles"
TwoPairs == {BTC, ETH}
OnePair == {BTC}
TwoFrames == {"1m", "1h"}
BothFrames == {<<BTC, "1m">>, <<BTC, "1h">>}
HourBot == {<<BTC, "1h">>}
TwoRequests == {"r1", "r2"}

VARIABLE part
allVars == <<part, feedVars, vars>>

FeedOnly == part = "feed" /\ UNCHANGED <<part, vars>>
CandlesOnly == part = "candles" /\ UNCHANGED <<part, feedVars>>

MCInit ==
  /\ part \in Parts /\ FeedInit /\ Init
  /\ part # "feed" => watch = {}
  /\ \A t \in Times : db[t] \in (IF part = "candles" THEN {"none", "final"} ELSE {"none"})
MCNext == (FeedOnly /\ FeedNext) \/ (CandlesOnly /\ Next)
MCSpec ==
  /\ MCInit /\ [][MCNext]_allVars
  /\ WF_allVars(FeedOnly /\ FeedLoop)
  /\ WF_allVars(FeedOnly /\ Autopause)
=============================================================================
