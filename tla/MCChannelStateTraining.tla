----------------------- MODULE MCChannelStateTraining -----------------------
(* Instance of ChannelStateTraining: two ranks with two rows each.            *)
EXTENDS ChannelStateTraining

Config(recipe, relative, warmup, saveFreq) ==
  [recipe |-> recipe, relative |-> relative, warmup |-> warmup, saveFreq |-> saveFreq]

\* Every recipe, both kinds of score, saving every step and every other one.
MCConfigs ==
  UNION {{Config("rarity", FALSE, 0, f), Config("relative_update", FALSE, 1, f),
          Config("consistency", FALSE, 0, f), Config("consistency", TRUE, 0, f)} : f \in {1, 2}}
    \cup {Config("relative_update", FALSE, 0, 2)}

=============================================================================
