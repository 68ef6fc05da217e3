------------------------------- MODULE MCNetif --------------------------------
(* A station, an access point and a bridge with the default priorities' order. *)
EXTENDS Netif

CONSTANTS sta, ap, br

MCPrio == [i \in Netifs |-> CASE i = sta -> 100 [] i = br -> 70 [] i = ap -> 10]

MCMaxStale == [i \in Netifs |-> IF i = sta THEN 1 ELSE 0]

===============================================================================
