----------------------------- MODULE MCIngestion -----------------------------
(***************************************************************************)
(* A small instance of Ingestion for TLC.                                  *)
(***************************************************************************)
EXTENDS Ingestion

Pairs == {"CONCERT/ROCK", "concert/rock", "SPORTS/UFC", "sports/ufc",
          "CONCERT/OPERA", "concert/opera", ""}

Registered == {"CONCERT/ROCK", "SPORTS/UFC"}

Upper == [n \in Pairs |-> CASE n = "concert/rock"  -> "CONCERT/ROCK"
                            [] n = "sports/ufc"    -> "SPORTS/UFC"
                            [] n = "concert/opera" -> "CONCERT/OPERA"
                            [] OTHER               -> n]

Lower == [n \in Pairs |-> CASE n = "CONCERT/ROCK"  -> "concert/rock"
                            [] n = "SPORTS/UFC"    -> "sports/ufc"
                            [] n = "CONCERT/OPERA" -> "concert/opera"
                            [] OTHER               -> n]

Request(s, k, n) == [source |-> s, clientKey |-> k, name |-> n]

\* One order twice, the second time under a client key and another event type;
\* one more; and one that is not registered.
FewRequests ==
  {Request(<<"a">>, <<>>, "concert/rock"), Request(<<"a">>, <<"k">>, "SPORTS/UFC"),
   Request(<<"b">>, <<>>, "CONCERT/ROCK"), Request(<<"b">>, <<>>, "concert/opera")}
=============================================================================
