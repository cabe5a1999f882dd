------------------------------ MODULE MCCrawler --------------------------------
(* Instances of Crawler for TLC: the seed and its neighbour a know each      *)
(* other, so that each probe writes the other's entry; a also knows b, whose *)
(* port is closed.                                                           *)
EXTENDS Crawler, TLC

CONSTANTS s, a, b

MCAnswers == (s :> {{a}}) @@ (a :> {{s, b}}) @@ (b :> {})
================================================================================
