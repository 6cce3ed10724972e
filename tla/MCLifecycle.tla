---------------------------- MODULE MCLifecycle ----------------------------
(* Instances of Lifecycle for TLC: three requests, two workers.            *)
EXTENDS Lifecycle, TLC

CONSTANTS h1, h2, h3, w1, w2

MCHandlers == {h1, h2, h3}
MCPool == {w1, w2}
=============================================================================
