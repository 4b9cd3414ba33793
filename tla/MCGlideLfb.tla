----------------------------- MODULE MCGlideLfb -----------------------------
(* A small instance of GlideLfb: two pixels, two values, and the options    *)
(* that the device combines.  LfbHandler with LfbNoAux is left out: the      *)
(* pointer that it gives for an auxiliary buffer is nowhere.                 *)
EXTENDS GlideLfb, TLC

Config(mode, dirty, merge, noaux) == [mode |-> mode, dirty |-> dirty, merge |-> merge, noaux |-> noaux]

MCConfigs ==
  {Config("mmio", FALSE, FALSE, FALSE)}
    \cup {Config("zero", FALSE, FALSE, noaux) : noaux \in BOOLEAN}
    \cup {Config("copy", dirty, merge, noaux) : dirty, merge, noaux \in BOOLEAN}

\* The pixels may be exchanged: all properties are safety properties.
SymmetricPixels == Permutations(Pixels)
=============================================================================
