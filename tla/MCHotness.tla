------------------------------ MODULE MCHotness ------------------------------
(* Small instances of HotnessTracker for TLC. *)
EXTENDS HotnessTracker

CONSTANTS k1, k2, k3

ThreeKeys == {k1, k2, k3}
Ranks == (k1 :> 1) @@ (k2 :> 2) @@ (k3 :> 3)

Config(keys, slots, alphaNum, scale, promotion, demotion, hotWindows, cooldown, count, lags) ==
  [keys |-> keys, maxTrackedKeys |-> slots, alphaNum |-> alphaNum, alphaDen |-> 2,
   scale |-> scale, promotionThreshold |-> promotion, demotionThreshold |-> demotion,
   minimumHotWindows |-> hotWindows, cooldown |-> cooldown, maxCount |-> count,
   maxLag |-> lags]

\* More keys than slots; as many slots as keys, with coarse scores; one key with fine scores and a
\* long catch-up; one key with an EWMA that forgets at once (alpha = 1).
SmallConfigs ==
  {Config(ThreeKeys, 2, 1, 2, 2, 1, 2, 1, 2, 1),
   Config(ThreeKeys, 3, 1, 1, 2, 1, 1, 1, 1, 1),
   Config({k1}, 1, 1, 8, 8, 3, 3, 2, 3, 6),
   Config({k1}, 1, 2, 2, 4, 2, 3, 2, 3, 4)}
=============================================================================
