--------------------------- MODULE FeedPublication ---------------------------
(***************************************************************************)
(* What the publisher seam promises, without generations, gates, snapshots *)
(* or processes that render in between:                                    *)
(*                                                                         *)
(*   - a feed is always filled from the configuration in force;            *)
(*   - changing the configuration empties every feed at once, and cannot   *)
(*     happen while a hub is being told about one;                         *)
(*   - a hub is told about a feed only while that hub is the configured    *)
(*     one and the feed is there.                                          *)
(*                                                                         *)
(* This is the behaviour docs/adr/0173-publisher-generation-gate.md asks   *)
(* for.  Publisher implements it.                                          *)
(***************************************************************************)
CONSTANTS Workers, Paths, Configs, Hubs, NoRow, NoPing

VARIABLES
    current,   \* the configuration in force
    served,    \* path -> configuration its cached row was rendered under
    pinging    \* worker -> the ping it has outstanding, or NoPing

pvars == <<current, served, pinging>>

Pings == [hub: Hubs, path: Paths]

PubInit ==
    /\ current \in Configs
    /\ served = [p \in Paths |-> NoRow]
    /\ pinging = [w \in Workers |-> NoPing]

(* A new configuration, or the old one written again.                      *)
PubConfigure ==
    /\ \A w \in Workers : pinging[w] = NoPing
    /\ current' \in Configs
    /\ served' = [p \in Paths |-> NoRow]
    /\ UNCHANGED pinging

PubFill(p) ==
    /\ served' = [served EXCEPT ![p] = current]
    /\ UNCHANGED <<current, pinging>>

PubPing(w, p) ==
    /\ current.hub \in Hubs
    /\ served[p] = current
    /\ pinging[w] = NoPing
    /\ pinging' = [pinging EXCEPT ![w] = [hub |-> current.hub, path |-> p]]
    /\ UNCHANGED <<current, served>>

PubPong(w) ==
    /\ pinging' = [pinging EXCEPT ![w] = NoPing]
    /\ UNCHANGED <<current, served>>

PubNext ==
    \/ PubConfigure
    \/ \E p \in Paths : PubFill(p)
    \/ \E w \in Workers, p \in Paths : PubPing(w, p)
    \/ \E w \in Workers : PubPong(w)

PubSpec == PubInit /\ [][PubNext]_pvars

==============================================================================
