-------------------------------- MODULE KeyMap --------------------------------
(***************************************************************************)
(* What the schema expects of the tables it keeps its records in: one      *)
(* request at a time, each carried out once, and no key but the one asked  *)
(* about changes.                                                          *)
(***************************************************************************)
CONSTANTS Keys, Values, Null

VARIABLES
    map,   \* map[k]: the value under key k, or Null
    asked  \* the request at hand, or Null

Node == [key : Keys, value : Values]
Requests == [do : {"put"}, node : Node] \union [do : {"delete"}, key : Keys]

MapInit == map = [k \in Keys |-> Null] /\ asked = Null

Request ==
    /\ asked = Null
    /\ asked' \in Requests
    /\ UNCHANGED map

CarryOut ==
    /\ asked # Null
    /\ asked' = Null
    /\ map' = IF asked.do = "put"
              THEN [map EXCEPT ![asked.node.key] = asked.node.value]
              ELSE [map EXCEPT ![asked.key] = Null]

MapNext == Request \/ CarryOut

Map == MapInit /\ [][MapNext]_<<map, asked>>
=============================================================================
