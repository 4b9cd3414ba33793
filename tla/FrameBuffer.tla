---------------------------- MODULE FrameBuffer ----------------------------
(***************************************************************************)
(* What Glide promises of its linear frame buffer: a program that holds a  *)
(* lock reads the pixels of the buffer itself, and writes into it.         *)
(***************************************************************************)
CONSTANTS Buffers, Front, Back, Pixels, Values, Blank

Nothing == "nothing"

VARIABLES
  buf,   \* the pixels of each buffer
  held,  \* the buffer that a lock to "read" or to "write" is held on
  seen   \* the pixel that was read last

vars == <<buf, held, seen>>

Init ==
  /\ buf = [b \in Buffers |-> [x \in Pixels |-> Blank]]
  /\ held = [t \in {"read", "write"} |-> Nothing]
  /\ seen = Blank

\* The window is opened again.
Clear == buf' = [b \in Buffers |-> [x \in Pixels |-> Blank]] /\ UNCHANGED <<held, seen>>

Draw(b, x, v) == buf' = [buf EXCEPT ![b][x] = v] /\ UNCHANGED <<held, seen>>

Swap == buf' = [buf EXCEPT ![Front] = buf[Back]] /\ UNCHANGED <<held, seen>>

Lock(t, b) == held[t] = Nothing /\ held' = [held EXCEPT ![t] = b] /\ UNCHANGED <<buf, seen>>

Unlock(t) == held' = [held EXCEPT ![t] = Nothing] /\ UNCHANGED <<buf, seen>>

Read(x) ==
  /\ held["read"] # Nothing
  /\ seen' = buf[held["read"]][x]
  /\ UNCHANGED <<buf, held>>

Write(x, v) ==
  /\ held["write"] # Nothing
  /\ buf' = [buf EXCEPT ![held["write"]][x] = v]
  /\ UNCHANGED <<held, seen>>

Next ==
  \/ Clear \/ Swap
  \/ \E b \in Buffers, x \in Pixels, v \in Values : Draw(b, x, v)
  \/ \E t \in {"read", "write"} : Unlock(t) \/ \E b \in Buffers : Lock(t, b)
  \/ \E x \in Pixels : Read(x) \/ \E v \in Values : Write(x, v)

Spec == Init /\ [][Next]_vars
=============================================================================
