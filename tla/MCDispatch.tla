----------------------------- MODULE MCDispatch -----------------------------
(***************************************************************************)
(* Two small instances of Dispatch.  In both, m1 and m2 belong to one      *)
(* thread t1 of channel c1.                                                *)
(*                                                                         *)
(* MCDispatch.cfg: m1 is delivered at p1 and again at p2, m2 at p2; the    *)
(* lock is scoped to the channel and every task takes it.                  *)
(*                                                                         *)
(* MCDispatchLive.cfg: both messages arrive at p1, which takes the lock,   *)
(* and m1 again at p2, whose Chat is configured "concurrent".              *)
(***************************************************************************)
EXTENDS Dispatch, TLC

CONSTANTS d1, d2, d3, m1, m2, t1, c1, p1, p2

MCMessageOf  == d1 :> m1 @@ d2 :> m1 @@ d3 :> m2
MCProcessOf  == d1 :> p1 @@ d2 :> p2 @@ d3 :> p2
MCThreadOf   == m1 :> t1 @@ m2 :> t1
MCChannelOf  == t1 :> c1
MCScopeOf    == t1 :> "channel"
MCStrategyOf == p1 :> "drop" @@ p2 :> "queue"
MCHandlersOf == [r \in Routes |-> IF r = "direct" THEN 0 ELSE 1]

LiveProcessOf  == d1 :> p1 @@ d2 :> p2 @@ d3 :> p1
LiveScopeOf    == t1 :> "thread"
LiveStrategyOf == p1 :> "drop" @@ p2 :> "concurrent"
LiveHandlersOf == [r \in Routes |-> 1]
=============================================================================
