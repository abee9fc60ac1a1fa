------------------------------ MODULE MCFleet ------------------------------
(* Two groups, a bundle of two components and a name nobody knows.         *)
EXTENDS Fleet, TLC

CONSTANTS g, h, c, d, web, unknown

MCBundle == web :> <<c, d>>

Def(group, count, provision) ==
  [group |-> group, count |-> count, provision |-> provision]

Scene(f, p, b) == [file |-> f, parallel |-> p, beside |-> b]

Pair == <<Def(g, 2, c)>>
Bundled == <<Def(h, 1, web)>>
Mixed == <<Def(h, 1, unknown), Def(g, 1, NoProvision)>>
Three == <<Def(g, 1, c), Def(h, 2, c)>>

MCScenes ==
  {Scene(Pair, 2, {"destroy", r}) : r \in {"stderr", "fleetDestroy", "provision"}}
    \cup {Scene(Pair, 0, {"destroy", "stderr"}),
          Scene(Bundled, 2, {"destroy", "provision"}),
          Scene(Mixed, 2, {"destroy", "stderr", "fleetDestroy"}),
          Scene(Three, 2, {"stderr"}),
          Scene(Three, 0, {})}

MCWorker == 1 .. 4
MCRequests == {<<d, web>>}
=============================================================================
