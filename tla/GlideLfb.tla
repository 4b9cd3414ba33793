------------------------------ MODULE GlideLfb ------------------------------
(***************************************************************************)
(* The linear frame buffer of Glide 2.43 and 3: glidept_mm.c, grLfbLock of *)
(* glidedll.c.  A locked buffer reaches the program in one of three ways:  *)
(*   "mmio"  each access traps and goes through the library's pointer,     *)
(*   "copy"  through shared memory, copied from the library at the lock    *)
(*           and to the library at the unlock, as far as lfb_dirty says,   *)
(*   "zero"  the library's pages are mapped into the guest.                *)
(* The front and the back buffer share one copy.  LfbNoAux keeps depth and *)
(* alpha buffers away from the library, in the other half of the copy.     *)
(*                                                                         *)
(* Traps drain the FIFO, so that rendering is one step here.  The library  *)
(* gives the same pointer to a buffer as long as the window is open, and   *)
(* swaps by copying.                                                       *)
(***************************************************************************)
EXTENDS FiniteSets

CONSTANTS
  Pixels,
  Values,
  Configs,  \* of [mode, dirty, merge, noaux]: LfbHandler and LfbMapBufo, LfbLockDirty, ...
  Orderly   \* TRUE: programs keep the rules MayDraw, MayLock, MayFlush and MaySwap

Front == "front"
Back == "back"
Aux == "aux"
Buffers == {Front, Back, Aux}
Color == "color"     \* the half of the copy for Front and Back
Nothing == "nothing"
Types == {"read", "write"}

CONSTANT Blank       \* a pixel of a new window

ASSUME ConstantsAssumption ==
  /\ Blank \in Values /\ Nothing \notin Values
  /\ Configs \subseteq [mode : {"mmio", "copy", "zero"}, dirty : BOOLEAN, merge : BOOLEAN, noaux : BOOLEAN]
  /\ Orderly \in BOOLEAN

VARIABLES
  cfg,
  \* the library
  fb,         \* the pixels of its buffers
  \* the device
  glfb,       \* the copies
  lfb_dirty,  \* "stale": bit 0, the copy is read at the next lock; "merge": bit 7, written at the swap
  lfbPtr,     \* lfbPtr[1]: the buffer last locked for writing
  lockedW,    \* lock[1]
  grBuffer,   \* the buffer last locked; with bit 7 when LfbNoAux keeps it away
  mbufo,      \* for each type of lock, the buffer whose pages it mapped
  slot,       \* how the pages of each buffer are mapped: "no", "ro" or "rw"
  \* the program
  held,       \* for each type, the buffer that is locked
  rest,       \* the pixels that it must write before the buffer goes back
  looked,     \* the buffer locked last, while rendering to it would pass unnoticed
  seen        \* the pixel that was read last

library == fb
device == <<glfb, lfb_dirty, lfbPtr, lockedW, grBuffer, mbufo, slot>>
program == <<held, rest, looked, seen>>
vars == <<cfg, library, device, program>>

Black == [x \in Pixels |-> Blank]
NotHeld == [t \in Types |-> Nothing]
NotMapped == [b \in Buffers |-> "no"]

Init ==
  /\ cfg \in Configs
  /\ fb = [b \in Buffers |-> Black] /\ glfb = [h \in {Color, Aux} |-> Black]
  /\ lfb_dirty = {"stale"} /\ lfbPtr = Nothing /\ lockedW = FALSE /\ grBuffer = Back
  /\ mbufo = NotHeld /\ slot = NotMapped
  /\ held = NotHeld /\ rest = {} /\ looked = Nothing /\ seen = Blank

-----------------------------------------------------------------------------
(* The device.                                                             *)

Half(b) == IF b = Aux THEN Aux ELSE Color
Other(t) == IF t = "read" THEN "write" ELSE "read"

\* The buffer never reaches the library.
Kept(b) == cfg.noaux /\ b = Aux

\* What the device compares with: kept away, it has another number.
Number(b) == IF Kept(b) THEN "kept" ELSE b

\* vgLfbFlush, from half h of the copy: what the library has then.
vgLfbFlush(h) ==
  IF cfg.mode = "zero" \/ lfbPtr \notin Buffers THEN fb ELSE [fb EXCEPT ![lfbPtr] = glfb[h]]

\* Mutation: another buffer than the last is not noticed.
NeverOther(b) == IF cfg.dirty THEN lfb_dirty \cup {"stale"} ELSE lfb_dirty

\* lfb_dirty as processArgs leaves it at the lock of b.
DirtyAtLock(b) ==
  IF grBuffer # b THEN {"stale"} ELSE IF cfg.dirty THEN lfb_dirty \cup {"stale"} ELSE lfb_dirty

\* Mutation: the pages stay.
StaysMapped(m, t) == slot

\* glide_mapbufo takes the pages out that m says.
Unmapped(m, t) == IF m[t] = Nothing THEN slot ELSE [slot EXCEPT ![m[t]] = "no"]

\* Mutation: pages are mapped for writing only.
MappedToWrite(t, b) ==
  /\ mbufo' = [mbufo EXCEPT ![t] = b]
  /\ slot' = (IF t = "write" THEN [slot EXCEPT ![b] = "rw"] ELSE slot)

\* processFRet of a lock, pages mapped: of the two locks of a buffer only one counts.
Mapped(t, b) ==
  LET same == mbufo[Other(t)] = b
  IN  /\ mbufo' = [mbufo EXCEPT ![t] = b, ![Other(t)] = IF same THEN Nothing ELSE @]
      /\ slot' = [slot EXCEPT ![b] = IF t = "write" THEN "rw" ELSE "ro"]

\* The same with a copy: it is read when it is stale, a wide one not.
Copied(b, wide) ==
  LET dirty == DirtyAtLock(b)
      stale == "stale" \in dirty /\ ~Kept(b)
  IN  /\ lfb_dirty' = (IF stale THEN {} ELSE dirty)
      /\ glfb' = (IF stale /\ ~wide THEN [glfb EXCEPT ![Half(b)] = fb[b]] ELSE glfb)

-----------------------------------------------------------------------------
(* The program.                                                            *)

Locked == {t \in Types : held[t] # Nothing}

\* With copies, it does not render while it holds a lock, nor, without LfbLockDirty,
\* to a buffer that it locked, until the swap or the end of its writing, nor to what is
\* to be merged.
MayDraw(b) ==
  Orderly /\ cfg.mode = "copy" =>
    Locked = {} /\ (cfg.dirty \/ looked # b) /\ ("merge" \in lfb_dirty => b # Back)

\* One lock at a time; a second one for the same buffer where accesses trap or, until
\* the swap, the copy stays.  What is to be merged waits for the swap.
MayLock(t, b, wide) ==
  /\ held[t] = Nothing
  /\ Orderly =>
       /\ Locked = {} \/ (held[Other(t)] = b /\ ~wide /\ rest = {}
                            /\ (cfg.mode = "mmio" \/ (cfg.mode = "copy" /\ ~cfg.dirty /\ looked = b)))
       /\ "merge" \in lfb_dirty => b = Back /\ ~cfg.dirty /\ ~wide

\* A buffer locked for a format of 32 bits is written as a whole.
MayFlush == rest = {}

\* A front buffer is not held over the swap.
MaySwap == Orderly /\ cfg.mode = "copy" => MayFlush /\ \A t \in Locked : held[t] # Front

\* grSstWinOpen after a grSstWinClose, with grGlideInit before it when init holds.
Open(init) ==
  /\ Locked = {}
  /\ fb' = [b \in Buffers |-> Black]
  /\ glfb' = (IF cfg.mode = "mmio" THEN glfb ELSE [glfb EXCEPT ![Aux] = Black])
  /\ lfb_dirty' = (IF cfg.mode = "mmio" THEN lfb_dirty ELSE {"stale"})
  /\ IF init THEN lfbPtr' = Nothing /\ lockedW' = FALSE /\ grBuffer' = Back
     ELSE UNCHANGED <<lfbPtr, lockedW, grBuffer>>
  /\ looked' = Nothing
  /\ UNCHANGED <<cfg, mbufo, slot, held, rest, seen>>

\* Rendering, clearing and grLfbWriteRegion.
Draw(b, x, v) ==
  /\ MayDraw(b)
  /\ fb' = [fb EXCEPT ![b][x] = v]
  /\ UNCHANGED <<cfg, device, program>>

\* grBufferSwap: a color buffer locked for writing is flushed, what is to be merged is
\* written.
BufferSwap ==
  /\ MaySwap
  /\ LET flushed == IF lockedW /\ grBuffer \in {Front, Back} THEN vgLfbFlush(Color) ELSE fb
         merged == IF "merge" \in lfb_dirty THEN [flushed EXCEPT ![Back] = glfb[Color]] ELSE flushed
         done == IF cfg.mode = "mmio" THEN fb ELSE merged
     IN  fb' = [done EXCEPT ![Front] = done[Back]]
  /\ lfb_dirty' = (IF cfg.mode = "mmio" THEN lfb_dirty ELSE {"stale"})
  /\ looked' = Nothing
  /\ UNCHANGED <<cfg, glfb, lfbPtr, lockedW, grBuffer, mbufo, slot, held, rest, seen>>

\* grLfbLock; wide: for writing, in a format of 32 bits.
LfbLock(t, b, wide) ==
  /\ MayLock(t, b, wide) /\ (wide => t = "write" /\ cfg.mode = "copy" /\ ~Kept(b))
  /\ held' = [held EXCEPT ![t] = b]
  /\ rest' = (IF wide THEN Pixels ELSE rest)
  /\ looked' = b
  /\ grBuffer' = Number(b)
  /\ lfbPtr' = (IF t = "write" THEN Number(b) ELSE lfbPtr)
  /\ lockedW' = (lockedW \/ t = "write")
  /\ CASE cfg.mode = "mmio" -> lfb_dirty' = DirtyAtLock(b) /\ UNCHANGED <<glfb, mbufo, slot>>
       [] cfg.mode = "copy" -> Copied(b, wide) /\ UNCHANGED <<mbufo, slot>>
       [] cfg.mode = "zero" -> /\ lfb_dirty' = DirtyAtLock(b) /\ UNCHANGED glfb
                               /\ IF Kept(b) THEN UNCHANGED <<mbufo, slot>> ELSE Mapped(t, b)
  /\ UNCHANGED <<cfg, fb, seen>>

\* grLfbUnlock
LfbUnlock(t) ==
  LET b == held[t]
      writes == t = "write" /\ cfg.mode # "mmio" /\ ~Kept(b)
      merges == cfg.merge /\ b = Back
  IN  /\ b # Nothing /\ (t = "write" => MayFlush)
      /\ fb' = (IF writes /\ ~merges THEN vgLfbFlush(Half(b)) ELSE fb)
      /\ lfb_dirty' = (IF writes THEN IF merges THEN {"merge"} ELSE {"stale"} ELSE lfb_dirty)
      /\ slot' = Unmapped(mbufo, t)
      /\ mbufo' = [mbufo EXCEPT ![t] = Nothing]
      /\ lockedW' = (lockedW /\ t = "read")
      /\ held' = [held EXCEPT ![t] = Nothing]
      /\ looked' = (IF writes /\ ~merges /\ Locked = {t} THEN Nothing ELSE looked)
      /\ UNCHANGED <<cfg, glfb, lfbPtr, grBuffer, rest, seen>>

\* Where the pointer leads that grLfbLock returns to the program.
Where(b) == IF Kept(b) THEN "copy" ELSE cfg.mode

\* A load through it.
Read(x) ==
  /\ held["read"] # Nothing
  /\ LET b == held["read"]
     IN  seen' = CASE Where(b) = "copy" -> glfb[Half(b)][x]
                   [] Where(b) = "mmio" -> fb[b][x]
                   [] Where(b) = "zero" -> IF slot[b] = "no" THEN Nothing ELSE fb[b][x]
  /\ rest = {}
  /\ UNCHANGED <<cfg, library, device, held, rest, looked>>

\* A store; one to a page that is not there, or only to be read, is lost.
Write(x, v) ==
  /\ held["write"] # Nothing
  /\ LET b == held["write"]
     IN  IF Where(b) = "copy"
         THEN glfb' = [glfb EXCEPT ![Half(b)][x] = v] /\ UNCHANGED fb
         ELSE /\ fb' = (IF cfg.mode = "zero" /\ slot[b] # "rw" THEN fb ELSE [fb EXCEPT ![b][x] = v])
              /\ UNCHANGED glfb
  /\ rest' = rest \ {x}
  /\ UNCHANGED <<cfg, lfb_dirty, lfbPtr, lockedW, grBuffer, mbufo, slot, held, looked, seen>>

Next ==
  \/ BufferSwap
  \/ \E init \in BOOLEAN : Open(init)
  \/ \E t \in Types : LfbUnlock(t)
  \/ \E t \in Types, b \in Buffers, wide \in BOOLEAN : LfbLock(t, b, wide)
  \/ \E x \in Pixels : Read(x)
  \/ \E x \in Pixels, v \in Values : Write(x, v) \/ \E b \in Buffers : Draw(b, x, v)

Spec == Init /\ [][Next]_vars

-----------------------------------------------------------------------------
(* Properties.                                                             *)

\* The variables have the types of the C declarations, and a load finds a page.
TypeOK ==
  /\ cfg \in Configs
  /\ fb \in [Buffers -> [Pixels -> Values]] /\ glfb \in [{Color, Aux} -> [Pixels -> Values]]
  /\ lfb_dirty \subseteq {"stale", "merge"} /\ lockedW \in BOOLEAN
  /\ {lfbPtr, grBuffer} \subseteq Buffers \cup {"kept", Nothing}
  /\ mbufo \in [Types -> Buffers \cup {Nothing}] /\ slot \in [Buffers -> {"no", "ro", "rw"}]
  /\ held \in [Types -> Buffers \cup {Nothing}] /\ rest \subseteq Pixels
  /\ looked \in Buffers \cup {Nothing} /\ seen \in Values

\* The pages of the library are the guest's exactly as long as it holds the lock, and
\* with the rights of the lock.
MapsHeld ==
  cfg.mode = "zero" =>
    \A b \in Buffers :
      slot[b] = IF Kept(b) THEN "no" ELSE IF held["write"] = b THEN "rw"
                ELSE IF held["read"] = b THEN "ro" ELSE "no"

\* What the program takes for the pixels of buffer b.
Visible(b) ==
  IF Kept(b) THEN glfb[Aux]
  ELSE IF cfg.mode = "copy" /\ (held["write"] = b \/ (b = Back /\ "merge" \in lfb_dirty))
       THEN [x \in Pixels |-> IF x \in rest THEN fb[b][x] ELSE glfb[Half(b)][x]]
       ELSE fb[b]

\* Whatever the way, the program finds the frame buffer that Glide promises: a lock
\* shows what was rendered, what it writes is there at the unlock or the swap, and
\* takes nothing of the rendering away.
Promised == INSTANCE FrameBuffer WITH buf <- [b \in Buffers |-> Visible(b)]
ImplementsFrameBuffer == Promised!Spec
=============================================================================
