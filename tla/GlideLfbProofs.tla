---------------------------- MODULE GlideLfbProofs ----------------------------
(***************************************************************************)
(* Proofs about GlideLfb for every size of the buffers, every pixel value  *)
(* and every set of options: a program that keeps the rules finds the      *)
(* frame buffer that Glide promises, however the device provides it.       *)
(***************************************************************************)
EXTENDS GlideLfb, TLAPS

-----------------------------------------------------------------------------
(* What the constants have to satisfy.                                     *)

\* LfbMapBufo overrides LfbWriteMerge (glide_lfbmerge), and LfbHandler is not combined
\* with LfbNoAux.
Combined ==
  \A c \in Configs : (c.mode = "zero" => ~c.merge) /\ (c.mode = "mmio" => ~c.noaux)

-----------------------------------------------------------------------------
(* The inductive invariant.                                                *)

\* What the device knows of the locks that the program holds.
LockInv ==
  /\ lockedW = (held["write"] # Nothing)
  /\ held["read"] # Nothing /\ held["write"] # Nothing => held["read"] = held["write"]
  /\ \A t \in Types : held[t] # Nothing => grBuffer = Number(held[t])
  /\ held["write"] # Nothing => lfbPtr = Number(held["write"])
  /\ rest # {} => /\ cfg.mode = "copy" /\ held["write"] # Nothing /\ ~Kept(held["write"])
                  /\ held["read"] = Nothing
  /\ cfg.noaux => grBuffer # Aux

\* What waits to be merged is the back buffer's, and is not taken for stale.
MergeInv ==
  "merge" \in lfb_dirty =>
    /\ lfb_dirty = {"merge"} /\ cfg.merge /\ cfg.mode = "copy" /\ grBuffer = Back /\ rest = {}
    /\ \A t \in Types : held[t] \in {Nothing, Back}

\* A copy that is locked for reading is the library's; one that is being written is not
\* read again; one that passes for fresh is.
CopyInv ==
  cfg.mode = "copy" =>
    /\ held["read"] # Nothing /\ ~Kept(held["read"]) =>
         \/ held["write"] # Nothing \/ "merge" \in lfb_dirty
         \/ glfb[Half(held["read"])] = fb[held["read"]]
    /\ held["write"] # Nothing /\ ~Kept(held["write"]) /\ ~cfg.dirty /\ looked = held["write"] =>
         "stale" \notin lfb_dirty
    /\ ~cfg.dirty /\ lfb_dirty = {} =>
         /\ grBuffer \in Buffers
         /\ held["write"] = Nothing => looked = grBuffer /\ glfb[Half(grBuffer)] = fb[grBuffer]

\* With the library's pages mapped, there is one lock, and mbufo is its.
MapInv ==
  cfg.mode = "zero" =>
    /\ held["read"] = Nothing \/ held["write"] = Nothing
    /\ \A t \in Types : mbufo[t] = IF held[t] # Nothing /\ ~Kept(held[t]) THEN held[t] ELSE Nothing

LInv == TypeOK /\ LockInv /\ MergeInv /\ CopyInv /\ MapInv /\ MapsHeld

-----------------------------------------------------------------------------
(* The buffers that a program sees.                                        *)

LEMMA Names ==
  /\ Front \in Buffers /\ Back \in Buffers /\ Aux \in Buffers
  /\ Front # Back /\ Front # Aux /\ Back # Aux
  /\ Nothing \notin Buffers /\ "kept" \notin Buffers /\ Nothing # "kept"
  /\ Buffers = {Front, Back, Aux}
  /\ Types = {"read", "write"} /\ "read" # "write"
  /\ \A b : Half(b) \in {Color, Aux} /\ Color # Aux
  /\ \A b \in Buffers : Number(b) \in Buffers \cup {"kept"} /\ (~Kept(b) => Number(b) = b)
  /\ \A b \in Buffers : Kept(b) => b = Aux /\ Number(b) = "kept" /\ cfg.noaux
  /\ \A b \in Buffers : ~Kept(b) /\ cfg.noaux => Half(b) = Color
BY DEF Front, Back, Aux, Buffers, Nothing, Types, Half, Color, Number, Kept

LEMMA VisibleType ==
  ASSUME TypeOK, NEW b \in Buffers
  PROVE  Visible(b) \in [Pixels -> Values]
<1>1. glfb[Aux] \in [Pixels -> Values] /\ fb[b] \in [Pixels -> Values]
      /\ glfb[Half(b)] \in [Pixels -> Values]
  BY Names DEF TypeOK
<1> QED  BY <1>1 DEF Visible

\* Before anything but whole pixels is missing, what is seen is a buffer or a copy.
LEMMA VisibleIs ==
  ASSUME TypeOK, rest = {}, NEW b \in Buffers
  PROVE  Visible(b) =
           IF Kept(b) THEN glfb[Aux]
           ELSE IF cfg.mode = "copy" /\ (held["write"] = b \/ (b = Back /\ "merge" \in lfb_dirty))
                THEN glfb[Half(b)] ELSE fb[b]
<1>1. glfb[Half(b)] \in [Pixels -> Values]
  BY Names DEF TypeOK
<1>2. glfb[Half(b)] = [x \in Pixels |-> glfb[Half(b)][x]]
  BY <1>1
<1> QED  BY <1>2 DEF Visible

\* The same after a step that leaves the options alone.
LEMMA VisibleThen ==
  ASSUME TypeOK', rest' = {}, cfg' = cfg, NEW b \in Buffers
  PROVE  Visible(b)' =
           IF Kept(b) THEN glfb'[Aux]
           ELSE IF cfg.mode = "copy" /\ (held'["write"] = b \/ (b = Back /\ "merge" \in lfb_dirty'))
                THEN glfb'[Half(b)] ELSE fb'[b]
<1>1. glfb'[Half(b)] \in [Pixels -> Values]
  BY Names DEF TypeOK
<1>2. glfb'[Half(b)] = [x \in Pixels |-> glfb'[Half(b)][x]]
  BY <1>1
<1>3. (Kept(b)' <=> Kept(b)) /\ Half(b)' = Half(b)
  BY DEF Kept, Half
<1> QED  BY <1>2, <1>3 DEF Visible

\* What the options allow.
LEMMA Options ==
  ASSUME TypeOK, Combined
  PROVE  /\ cfg.mode \in {"mmio", "copy", "zero"}
         /\ cfg.mode = "zero" => ~cfg.merge
         /\ cfg.mode = "mmio" => ~cfg.noaux
BY ConstantsAssumption DEF TypeOK, Combined, ConstantsAssumption

-----------------------------------------------------------------------------
(* The invariant is inductive: one lemma for each action.                  *)

LEMMA InitLInv == Init => LInv
<1> SUFFICES ASSUME Init  PROVE LInv
  OBVIOUS
<1>1. TypeOK
  <2>1. Black \in [Pixels -> Values] /\ Blank \in Values
    BY ConstantsAssumption DEF ConstantsAssumption, Black
  <2> QED  BY <2>1, Names DEF Init, TypeOK, NotHeld, NotMapped
<1>2. held["read"] = Nothing /\ held["write"] = Nothing
  BY Names DEF Init, NotHeld
<1>3. LockInv /\ MergeInv /\ CopyInv
  BY <1>2, Names DEF Init, LockInv, MergeInv, CopyInv
<1>4. MapInv /\ MapsHeld
  BY <1>2, Names DEF Init, MapInv, MapsHeld, NotHeld, NotMapped
<1> QED  BY <1>1, <1>3, <1>4 DEF LInv

LEMMA OpenStep ==
  ASSUME LInv, NEW init \in BOOLEAN, Open(init)
  PROVE  LInv'
<1>1. held["read"] = Nothing /\ held["write"] = Nothing /\ rest = {}
  BY Names DEF Open, Locked, LInv, LockInv
<1>2. UNCHANGED <<cfg, mbufo, slot, held, rest, seen>>
  BY DEF Open
<1>3. TypeOK'
  <2>1. Black \in [Pixels -> Values]
    BY ConstantsAssumption DEF ConstantsAssumption, Black
  <2> QED  BY <1>2, <2>1, Names DEF Open, LInv, TypeOK
<1>4. LockInv'
  BY <1>1, <1>2, Names DEF Open, LInv, LockInv, Kept, Number
<1>5. MergeInv' /\ CopyInv'
  BY <1>1, <1>2 DEF Open, LInv, MergeInv, CopyInv
<1>6. MapInv' /\ MapsHeld'
  BY <1>2 DEF LInv, MapInv, MapsHeld, Kept
<1> QED  BY <1>3, <1>4, <1>5, <1>6 DEF LInv

LEMMA DrawStep ==
  ASSUME LInv, Orderly, NEW b \in Buffers, NEW x \in Pixels, NEW v \in Values, Draw(b, x, v)
  PROVE  LInv'
<1>1. /\ UNCHANGED <<cfg, glfb, lfb_dirty, lfbPtr, lockedW, grBuffer, mbufo, slot, held, rest, looked, seen>>
      /\ fb' = [fb EXCEPT ![b][x] = v]
  BY DEF Draw, device, program
<1>2. TypeOK'
  BY <1>1 DEF LInv, TypeOK
<1>3. LockInv' /\ MergeInv' /\ MapInv' /\ MapsHeld'
  BY <1>1 DEF LInv, LockInv, MergeInv, MapInv, MapsHeld, Kept, Number
<1>4. CopyInv'
  <2> SUFFICES ASSUME cfg.mode = "copy"  PROVE CopyInv'
    BY <1>1 DEF CopyInv
  <2>1. held["read"] = Nothing /\ held["write"] = Nothing /\ (cfg.dirty \/ looked # b)
    BY Names DEF Draw, MayDraw, Locked
  <2>2. \A c \in Buffers : c # b => fb'[c] = fb[c]
    BY <1>1 DEF LInv, TypeOK
  <2> QED  BY <1>1, <2>1, <2>2 DEF LInv, CopyInv, Half
<1> QED  BY <1>2, <1>3, <1>4 DEF LInv

\* What the swap leaves in the library's buffers.
LEMMA SwapFacts ==
  ASSUME LInv, Orderly, Combined, BufferSwap
  PROVE  /\ UNCHANGED <<cfg, glfb, lfbPtr, lockedW, grBuffer, mbufo, slot, held, rest, seen>>
         /\ rest = {}
         /\ cfg.mode = "copy" => \A t \in Types : held[t] # Front
         /\ fb' \in [Buffers -> [Pixels -> Values]]
         /\ fb'[Front] = fb'[Back] /\ fb'[Aux] = fb[Aux]
         /\ fb'[Back] = IF cfg.mode = "copy" /\ (held["write"] = Back \/ "merge" \in lfb_dirty)
                        THEN glfb[Color] ELSE fb[Back]
<1> DEFINE flushed == IF lockedW /\ grBuffer \in {Front, Back} THEN vgLfbFlush(Color) ELSE fb
           merged == IF "merge" \in lfb_dirty THEN [flushed EXCEPT ![Back] = glfb[Color]] ELSE flushed
           done == IF cfg.mode = "mmio" THEN fb ELSE merged
<1>1. /\ UNCHANGED <<cfg, glfb, lfbPtr, lockedW, grBuffer, mbufo, slot, held, rest, seen>>
      /\ MaySwap /\ fb' = [done EXCEPT ![Front] = done[Back]]
  BY DEF BufferSwap
<1>2. /\ fb \in [Buffers -> [Pixels -> Values]] /\ glfb[Color] \in [Pixels -> Values]
  BY Names DEF LInv, TypeOK
<1>3. rest = {} /\ (cfg.mode = "copy" => \A t \in Types : held[t] # Front)
  <2>1. CASE cfg.mode = "copy"
    <3>1. MayFlush /\ \A t \in Locked : held[t] # Front
      BY <1>1, <2>1 DEF MaySwap
    <3> QED  BY <3>1, Names DEF MayFlush, Locked
  <2>2. CASE cfg.mode # "copy"
    BY <2>2 DEF LInv, LockInv
  <2> QED  BY <2>1, <2>2
<1>4. cfg.mode = "copy" =>
        flushed = IF held["write"] = Back THEN [fb EXCEPT ![Back] = glfb[Color]] ELSE fb
  <2> SUFFICES ASSUME cfg.mode = "copy"
               PROVE  flushed = IF held["write"] = Back THEN [fb EXCEPT ![Back] = glfb[Color]] ELSE fb
    OBVIOUS
  <2>1. lockedW = (held["write"] # Nothing) /\ held["write"] # Front
        /\ held["write"] \in Buffers \cup {Nothing}
        /\ (held["write"] # Nothing => grBuffer = Number(held["write"]) /\ lfbPtr = Number(held["write"]))
    BY <1>3, Names DEF LInv, LockInv, TypeOK
  <2>2. CASE held["write"] = Back
    <3>1. lockedW /\ grBuffer = Back /\ lfbPtr = Back
      BY <2>1, <2>2, Names
    <3> QED  BY <2>2, <3>1, Names DEF vgLfbFlush
  <2>3. CASE held["write"] = Aux
    <3>1. grBuffer \notin {Front, Back}
      BY <2>1, <2>3, Names DEF Number
    <3> QED  BY <2>3, <3>1, Names
  <2>4. CASE held["write"] = Nothing
    BY <2>1, <2>4, Names
  <2> QED  BY <2>1, <2>2, <2>3, <2>4, Names
<1>5. cfg.mode = "zero" => flushed = fb /\ "merge" \notin lfb_dirty
  BY DEF vgLfbFlush, LInv, MergeInv
<1>6. cfg.mode = "copy" =>
        done = IF held["write"] = Back \/ "merge" \in lfb_dirty
               THEN [fb EXCEPT ![Back] = glfb[Color]] ELSE fb
  <2> HIDE DEF flushed
  <2>1. [[fb EXCEPT ![Back] = glfb[Color]] EXCEPT ![Back] = glfb[Color]] = [fb EXCEPT ![Back] = glfb[Color]]
    BY <1>2, Names
  <2> QED  BY <1>4, <2>1
<1>7. cfg.mode # "copy" => done = fb
  <2>1. cfg.mode \in {"mmio", "zero", "copy"}
    BY Options DEF LInv
  <2> HIDE DEF flushed
  <2> QED  BY <1>5, <2>1
<1> HIDE DEF done
<1> QED  BY <1>1, <1>2, <1>3, <1>6, <1>7, Names

LEMMA SwapStep ==
  ASSUME LInv, Orderly, Combined, BufferSwap
  PROVE  LInv'
<1>1. /\ UNCHANGED <<cfg, glfb, lfbPtr, lockedW, grBuffer, mbufo, slot, held, rest, seen>>
      /\ rest = {}
      /\ cfg.mode = "copy" => \A t \in Types : held[t] # Front
      /\ fb' \in [Buffers -> [Pixels -> Values]]
      /\ fb'[Front] = fb'[Back] /\ fb'[Aux] = fb[Aux]
      /\ fb'[Back] = IF cfg.mode = "copy" /\ (held["write"] = Back \/ "merge" \in lfb_dirty)
                     THEN glfb[Color] ELSE fb[Back]
  BY SwapFacts
<1>2. /\ lfb_dirty' = (IF cfg.mode = "mmio" THEN lfb_dirty ELSE {"stale"})
      /\ looked' = Nothing
  BY DEF BufferSwap
<1>3. TypeOK'
  BY <1>1, <1>2 DEF LInv, TypeOK
<1>4. LockInv' /\ MergeInv' /\ MapInv' /\ MapsHeld'
  BY <1>1, <1>2 DEF LInv, LockInv, MergeInv, MapInv, MapsHeld, Kept, Number
<1>5. CopyInv'
  <2> SUFFICES ASSUME cfg.mode = "copy"  PROVE CopyInv'
    BY <1>1 DEF CopyInv
  <2>1. held["read"] \in {Back, Aux, Nothing} /\ held["write"] \in {Back, Aux, Nothing}
    BY <1>1, Names DEF LInv, TypeOK
  <2>2. held["read"] # Nothing /\ ~Kept(held["read"]) /\ held["write"] = Nothing
          => glfb[Half(held["read"])] = fb'[held["read"]]
    <3>1. "merge" \in lfb_dirty => held["read"] # Aux
      BY Names DEF LInv, MergeInv
    <3> QED  BY <1>1, <2>1, <3>1, Names DEF LInv, CopyInv, Half
  <2> QED  BY <1>1, <1>2, <2>1, <2>2, Names DEF CopyInv, Half, Kept
<1> QED  BY <1>3, <1>4, <1>5 DEF LInv

LEMMA ReadStep ==
  ASSUME LInv, NEW x \in Pixels, Read(x)
  PROVE  LInv'
<1>1. UNCHANGED <<cfg, fb, glfb, lfb_dirty, lfbPtr, lockedW, grBuffer, mbufo, slot, held, rest, looked>>
  BY DEF Read, library, device
<1>2. LockInv' /\ MergeInv' /\ CopyInv' /\ MapInv' /\ MapsHeld'
  BY <1>1 DEF LInv, LockInv, MergeInv, CopyInv, MapInv, MapsHeld, Kept, Number, Half
<1>3. seen' \in Values
  <2> DEFINE b == held["read"]
  <2>1. b \in Buffers /\ held["read"] # Nothing
    BY Names DEF Read, LInv, TypeOK
  <2>2. glfb[Half(b)][x] \in Values /\ fb[b][x] \in Values
    BY <2>1, Names DEF LInv, TypeOK
  <2>3. cfg.mode = "zero" /\ ~Kept(b) => slot[b] # "no"
    BY <2>1 DEF LInv, MapsHeld
  <2>4. cfg.mode \in {"mmio", "copy", "zero"}
    BY ConstantsAssumption DEF LInv, TypeOK, ConstantsAssumption
  <2>5. Where(b) \in {"mmio", "copy", "zero"} /\ (Where(b) = "zero" => cfg.mode = "zero" /\ ~Kept(b))
    BY <2>4 DEF Where
  <2>6. /\ Where(b) = "copy" => seen' = glfb[Half(b)][x]
        /\ Where(b) = "mmio" => seen' = fb[b][x]
        /\ Where(b) = "zero" => seen' = fb[b][x]
    BY <2>3, <2>5 DEF Read
  <2> QED  BY <2>2, <2>5, <2>6
<1>4. TypeOK'
  BY <1>1, <1>3 DEF LInv, TypeOK
<1> QED  BY <1>2, <1>4 DEF LInv

LEMMA WriteStep ==
  ASSUME LInv, NEW x \in Pixels, NEW v \in Values, Write(x, v)
  PROVE  LInv'
<1> DEFINE b == held["write"]
<1>1. UNCHANGED <<cfg, lfb_dirty, lfbPtr, lockedW, grBuffer, mbufo, slot, held, looked, seen>>
  BY DEF Write
<1>2. held["write"] # Nothing /\ b \in Buffers /\ rest' = rest \ {x}
  BY Names DEF Write, LInv, TypeOK
<1>3. TypeOK'
  <2>1. fb' \in [Buffers -> [Pixels -> Values]] /\ glfb' \in [{Color, Aux} -> [Pixels -> Values]]
    <3>1. fb' = fb \/ fb' = [fb EXCEPT ![b][x] = v]
      BY DEF Write
    <3>2. glfb' = glfb \/ glfb' = [glfb EXCEPT ![Half(b)][x] = v]
      BY DEF Write
    <3> QED  BY <1>2, <3>1, <3>2, Names DEF LInv, TypeOK
  <2> QED  BY <1>1, <1>2, <2>1 DEF LInv, TypeOK
<1>4. LockInv' /\ MergeInv' /\ MapInv' /\ MapsHeld'
  BY <1>1, <1>2 DEF LInv, LockInv, MergeInv, MapInv, MapsHeld, Kept, Number
<1>5. CopyInv'
  BY <1>1, <1>2 DEF LInv, CopyInv, Kept
<1> QED  BY <1>3, <1>4, <1>5 DEF LInv

\* What a lock starts from, by the rules.
LEMMA LockFacts ==
  ASSUME LInv, Orderly, NEW t \in Types, NEW b \in Buffers, NEW wide \in BOOLEAN, LfbLock(t, b, wide)
  PROVE  /\ held[t] = Nothing /\ held' = [held EXCEPT ![t] = b]
         /\ held'[t] = b /\ held'[Other(t)] = held[Other(t)]
         /\ held[Other(t)] \in {Nothing, b}
         /\ held[Other(t)] = b => /\ ~wide /\ cfg.mode # "zero"
                                  /\ cfg.mode = "copy" => ~cfg.dirty /\ looked = b
         /\ "merge" \in lfb_dirty => b = Back /\ ~cfg.dirty /\ ~wide
         /\ wide => t = "write" /\ cfg.mode = "copy" /\ ~Kept(b)
         /\ rest = {} /\ rest' = (IF wide THEN Pixels ELSE {})
<1>1. held[t] = Nothing /\ held' = [held EXCEPT ![t] = b] /\ MayLock(t, b, wide)
      /\ (wide => t = "write" /\ cfg.mode = "copy" /\ ~Kept(b))
      /\ rest' = (IF wide THEN Pixels ELSE rest)
  BY DEF LfbLock, MayLock
<1>2. Other(t) \in Types /\ Other(t) # t /\ Types = {t, Other(t)}
  BY Names DEF Other
<1>3. held'[t] = b /\ held'[Other(t)] = held[Other(t)]
  BY <1>1, <1>2 DEF LInv, TypeOK
<1>4. held[Other(t)] = Nothing \/
        (held[Other(t)] = b /\ ~wide /\ rest = {}
           /\ (cfg.mode = "mmio" \/ (cfg.mode = "copy" /\ ~cfg.dirty /\ looked = b)))
  BY <1>1, <1>2 DEF MayLock, Locked
<1>5. "merge" \in lfb_dirty => b = Back /\ ~cfg.dirty /\ ~wide
  BY <1>1 DEF MayLock
<1>6. rest = {}
  <2>1. held[Other(t)] = Nothing => held["write"] = Nothing
    BY <1>1, <1>2, Names
  <2> QED  BY <1>4, <2>1 DEF LInv, LockInv
<1> QED  BY <1>1, <1>3, <1>4, <1>5, <1>6, Names

\* What it does to a copy.
LEMMA CopiedFacts ==
  ASSUME LInv, Orderly, NEW t \in Types, NEW b \in Buffers, NEW wide \in BOOLEAN,
         LfbLock(t, b, wide), cfg.mode = "copy", ~Kept(b)
  PROVE  /\ "stale" \notin lfb_dirty'
         /\ ("merge" \in lfb_dirty') <=> ("merge" \in lfb_dirty)
         /\ "merge" \in lfb_dirty => lfb_dirty' = lfb_dirty /\ glfb' = glfb
         /\ held["write"] # Nothing => glfb' = glfb /\ lfb_dirty' = lfb_dirty
         /\ held["write"] = Nothing /\ "merge" \notin lfb_dirty =>
              \/ glfb' = (IF wide THEN glfb ELSE [glfb EXCEPT ![Half(b)] = fb[b]])
              \/ glfb[Half(b)] = fb[b] /\ glfb' = glfb
<1>0. /\ held[t] = Nothing
      /\ held[Other(t)] \in {Nothing, b}
      /\ held[Other(t)] = b => ~wide /\ (cfg.mode = "copy" => ~cfg.dirty /\ looked = b)
      /\ "merge" \in lfb_dirty => b = Back /\ ~cfg.dirty /\ ~wide
  BY LockFacts
<1>1. Copied(b, wide)
  BY DEF LfbLock
<1> DEFINE dirty == DirtyAtLock(b)
           stale == "stale" \in dirty
<1>2. /\ lfb_dirty' = (IF stale THEN {} ELSE dirty)
      /\ glfb' = (IF stale /\ ~wide THEN [glfb EXCEPT ![Half(b)] = fb[b]] ELSE glfb)
  BY <1>1 DEF Copied
<1>3. dirty \subseteq {"stale", "merge"}
  BY DEF DirtyAtLock, LInv, TypeOK
<1>4. "merge" \in lfb_dirty => dirty = {"merge"}
  BY <1>0, Names DEF LInv, MergeInv, DirtyAtLock
<1>5. "merge" \notin lfb_dirty => "merge" \notin dirty
  BY DEF DirtyAtLock
<1>6. ~stale => grBuffer = b /\ ~cfg.dirty /\ dirty = lfb_dirty
  BY DEF DirtyAtLock
<1>7. held["write"] # Nothing => /\ held["write"] = b /\ ~cfg.dirty /\ looked = b /\ grBuffer = b
                                 /\ dirty = lfb_dirty
  <2> SUFFICES ASSUME held["write"] # Nothing
               PROVE  /\ held["write"] = b /\ ~cfg.dirty /\ looked = b /\ grBuffer = b
                      /\ dirty = lfb_dirty
    OBVIOUS
  <2>1. Other(t) = "write"
    BY <1>0, Names DEF Other
  <2>2. held["write"] = b /\ ~cfg.dirty /\ looked = b
    BY <1>0, <2>1
  <2>3. grBuffer = b
    BY <2>2, Names DEF LInv, LockInv
  <2> QED  BY <2>2, <2>3 DEF DirtyAtLock
<1>8. held["write"] # Nothing => ~stale
  BY <1>7 DEF LInv, CopyInv
<1>9. ~stale /\ held["write"] = Nothing /\ "merge" \notin lfb_dirty => glfb[Half(b)] = fb[b]
  <2> SUFFICES ASSUME ~stale, held["write"] = Nothing, "merge" \notin lfb_dirty
               PROVE  glfb[Half(b)] = fb[b]
    OBVIOUS
  <2>1. lfb_dirty = {} /\ grBuffer = b /\ ~cfg.dirty
    BY <1>3, <1>6
  <2> QED  BY <2>1 DEF LInv, CopyInv
<1> HIDE DEF dirty
<1> QED  BY <1>2, <1>3, <1>4, <1>5, <1>6, <1>7, <1>8, <1>9

LEMMA LockStep ==
  ASSUME LInv, Orderly, Combined,
         NEW t \in Types, NEW b \in Buffers, NEW wide \in BOOLEAN, LfbLock(t, b, wide)
  PROVE  LInv'
<1>0. /\ held[t] = Nothing /\ held' = [held EXCEPT ![t] = b]
      /\ held'[t] = b /\ held'[Other(t)] = held[Other(t)]
      /\ held[Other(t)] \in {Nothing, b}
      /\ held[Other(t)] = b => /\ ~wide /\ cfg.mode # "zero"
                               /\ cfg.mode = "copy" => ~cfg.dirty /\ looked = b
      /\ "merge" \in lfb_dirty => b = Back /\ ~cfg.dirty /\ ~wide
      /\ wide => t = "write" /\ cfg.mode = "copy" /\ ~Kept(b)
      /\ rest = {} /\ rest' = (IF wide THEN Pixels ELSE {})
  BY LockFacts
<1>1. /\ UNCHANGED <<cfg, fb, seen>>
      /\ looked' = b /\ grBuffer' = Number(b)
      /\ lfbPtr' = (IF t = "write" THEN Number(b) ELSE lfbPtr)
      /\ lockedW' = (lockedW \/ t = "write")
  BY DEF LfbLock
<1>2. Other(t) \in Types /\ Types = {t, Other(t)} /\ t \in {"read", "write"} /\ Other(t) # t
  BY Names DEF Other
<1>3. cfg.mode \in {"mmio", "copy", "zero"} /\ (cfg.mode = "zero" => ~cfg.merge)
      /\ (cfg.mode = "mmio" => ~cfg.noaux)
  BY Options DEF LInv
<1>4. /\ cfg.mode = "mmio" => lfb_dirty' = DirtyAtLock(b) /\ UNCHANGED <<glfb, mbufo, slot>>
      /\ cfg.mode = "copy" => Copied(b, wide) /\ UNCHANGED <<mbufo, slot>>
      /\ cfg.mode = "zero" => lfb_dirty' = DirtyAtLock(b) /\ UNCHANGED glfb
      /\ cfg.mode = "zero" /\ Kept(b) => UNCHANGED <<mbufo, slot>>
      /\ cfg.mode = "zero" /\ ~Kept(b) => Mapped(t, b)
  BY DEF LfbLock
<1>5. TypeOK'
  <2>1. lfb_dirty' \subseteq {"stale", "merge"} /\ glfb' \in [{Color, Aux} -> [Pixels -> Values]]
    <3>1. glfb' = glfb \/ glfb' = [glfb EXCEPT ![Half(b)] = fb[b]]
      BY <1>3, <1>4 DEF Copied
    <3>2. lfb_dirty' \in {{}, DirtyAtLock(b)}
      BY <1>3, <1>4 DEF Copied
    <3>3. glfb' \in [{Color, Aux} -> [Pixels -> Values]]
      BY <3>1, Names DEF LInv, TypeOK
    <3>4. DirtyAtLock(b) \subseteq {"stale", "merge"}
      BY DEF DirtyAtLock, LInv, TypeOK
    <3> QED  BY <3>2, <3>3, <3>4
  <2>2. mbufo' \in [Types -> Buffers \cup {Nothing}] /\ slot' \in [Buffers -> {"no", "ro", "rw"}]
    BY <1>2, <1>3, <1>4, Names DEF Mapped, LInv, TypeOK
  <2>3. held' \in [Types -> Buffers \cup {Nothing}] /\ rest' \subseteq Pixels
    BY <1>0 DEF LInv, TypeOK
  <2>4. {lfbPtr', grBuffer'} \subseteq Buffers \cup {"kept", Nothing} /\ lockedW' \in BOOLEAN
    BY <1>1, Names DEF LInv, TypeOK
  <2> QED  BY <1>1, <2>1, <2>2, <2>3, <2>4 DEF LInv, TypeOK
<1>6. LockInv'
  <2>1. lockedW' = (held'["write"] # Nothing)
    BY <1>0, <1>1, <1>2, Names DEF LInv, LockInv
  <2>2. held'["read"] # Nothing /\ held'["write"] # Nothing => held'["read"] = held'["write"]
    BY <1>0, <1>2, Names
  <2>3. \A u \in Types : held'[u] # Nothing => held'[u] = b
    BY <1>0, <1>2
  <2>4. held'["write"] # Nothing => lfbPtr' = Number(b)
    BY <1>0, <1>1, <1>2, <2>3, Names DEF LInv, LockInv, Other
  <2>5. rest' # {} => /\ cfg.mode = "copy" /\ held'["write"] # Nothing /\ ~Kept(b)
                      /\ held'["read"] = Nothing
    BY <1>0, <1>2, Names DEF Other
  <2>6. cfg.noaux => grBuffer' # Aux
    BY <1>1, Names DEF Number, Kept
  <2> QED  BY <1>1, <2>1, <2>2, <2>3, <2>4, <2>5, <2>6, Names DEF LockInv, Kept, Number
<1>7. MergeInv'
  <2> SUFFICES ASSUME "merge" \in lfb_dirty'
               PROVE  /\ lfb_dirty' = {"merge"} /\ cfg.merge /\ cfg.mode = "copy" /\ b = Back /\ ~wide
    BY <1>0, <1>1, <1>2, Names DEF MergeInv
  <2>1. "merge" \in lfb_dirty /\ (cfg.mode = "copy" => lfb_dirty' \in {{}, DirtyAtLock(b)})
    BY <1>3, <1>4 DEF Copied, DirtyAtLock
  <2>2. lfb_dirty = {"merge"} /\ cfg.merge /\ cfg.mode = "copy" /\ b = Back /\ ~wide /\ ~cfg.dirty
    BY <1>0, <2>1 DEF LInv, MergeInv
  <2>3. DirtyAtLock(b) = {"merge"}
    BY <2>1, <2>2 DEF LInv, MergeInv, DirtyAtLock
  <2> QED  BY <2>1, <2>2, <2>3
<1>8. CopyInv'
  <2> SUFFICES ASSUME cfg.mode = "copy"  PROVE CopyInv'
    BY <1>1 DEF CopyInv
  <2>1. CASE Kept(b)
    <3>1. b = Aux /\ cfg.noaux /\ lfb_dirty' = DirtyAtLock(b) /\ grBuffer # Aux
      BY <1>4, <2>1, Names DEF Copied, LInv, LockInv
    <3>2. lfb_dirty' = {"stale"}
      BY <3>1 DEF DirtyAtLock
    <3>3. \A u \in Types : held'[u] \in {Nothing, b}
      BY <1>0, <1>2
    <3>4. \A u \in Types : held'[u] # Nothing => Kept(held'[u])
      BY <2>1, <3>3
    <3> QED  BY <1>1, <3>2, <3>4, Names DEF CopyInv, Kept
  <2>2. CASE ~Kept(b)
    <3>1. /\ "stale" \notin lfb_dirty'
          /\ ("merge" \in lfb_dirty') <=> ("merge" \in lfb_dirty)
          /\ "merge" \in lfb_dirty => lfb_dirty' = lfb_dirty /\ glfb' = glfb
          /\ held["write"] # Nothing => glfb' = glfb /\ lfb_dirty' = lfb_dirty
          /\ held["write"] = Nothing /\ "merge" \notin lfb_dirty =>
               \/ glfb' = (IF wide THEN glfb ELSE [glfb EXCEPT ![Half(b)] = fb[b]])
               \/ glfb[Half(b)] = fb[b] /\ glfb' = glfb
      BY <2>2, CopiedFacts
    <3>2. held'["write"] = Nothing /\ "merge" \notin lfb_dirty => glfb'[Half(b)] = fb[b]
      <4>1. held'["write"] = Nothing => t = "read" /\ ~wide /\ held["write"] = Nothing
        BY <1>0, <1>2, Names
      <4>2. [glfb EXCEPT ![Half(b)] = fb[b]][Half(b)] = fb[b]
        BY Names DEF LInv, TypeOK
      <4> QED  BY <3>1, <4>1, <4>2
    <3>3. \A u \in Types : held'[u] \in {Nothing, b}
      BY <1>0, <1>2
    <3>4. Number(b) = b
      BY <2>2, Names
    <3>5. /\ held'["read"] # Nothing =>
               held'["write"] # Nothing \/ "merge" \in lfb_dirty' \/ glfb'[Half(held'["read"])] = fb[held'["read"]]
          /\ lfb_dirty' = {} /\ held'["write"] = Nothing => glfb'[Half(b)] = fb[b]
      BY <3>1, <3>2, <3>3, Names
    <3> QED  BY <1>1, <3>1, <3>4, <3>5 DEF CopyInv, Half
  <2> QED  BY <2>1, <2>2
<1>9. MapInv' /\ MapsHeld'
  <2> SUFFICES ASSUME cfg.mode = "zero"  PROVE MapInv' /\ MapsHeld'
    BY <1>1 DEF MapInv, MapsHeld
  <2>1. held[Other(t)] = Nothing
    BY <1>0
  <2>2. mbufo[t] = Nothing /\ mbufo[Other(t)] = Nothing
    BY <1>0, <1>2, <2>1 DEF LInv, MapInv
  <2>3. \A c \in Buffers : slot[c] = "no"
    BY <1>0, <1>2, <2>1, Names DEF LInv, MapsHeld
  <2>4. CASE Kept(b)
    <3>1. mbufo' = mbufo /\ slot' = slot
      BY <1>4, <2>4
    <3>2. \A c \in Buffers : ~Kept(c) => c # b
      BY <2>4
    <3> QED  BY <1>0, <1>1, <1>2, <2>1, <2>2, <2>3, <2>4, <3>1, <3>2, Names DEF MapInv, MapsHeld, Kept
  <2>5. CASE ~Kept(b)
    <3>1. /\ mbufo'[t] = b /\ mbufo'[Other(t)] = Nothing
          /\ slot'[b] = (IF t = "write" THEN "rw" ELSE "ro")
          /\ \A c \in Buffers : c # b => slot'[c] = "no"
      BY <1>2, <1>4, <2>2, <2>3, <2>5, Names DEF Mapped, LInv, TypeOK
    <3> QED  BY <1>0, <1>1, <1>2, <2>1, <2>5, <3>1, Names DEF MapInv, MapsHeld, Kept
  <2> QED  BY <2>4, <2>5
<1> QED  BY <1>5, <1>6, <1>7, <1>8, <1>9 DEF LInv

\* What an unlock writes to the library: all of the copy, which is whole.
LEMMA UnlockFacts ==
  ASSUME LInv, Combined, NEW t \in Types, LfbUnlock(t), NEW b, b = held[t]
  PROVE  /\ b \in Buffers /\ held' = [held EXCEPT ![t] = Nothing]
         /\ held'[t] = Nothing /\ held'[Other(t)] = held[Other(t)]
         /\ held[Other(t)] \in {Nothing, b}
         /\ rest' = rest /\ (t = "write" => rest = {})
         /\ UNCHANGED <<cfg, glfb, lfbPtr, grBuffer, seen>>
         /\ fb' = (IF t = "write" /\ cfg.mode = "copy" /\ ~Kept(b) /\ ~(cfg.merge /\ b = Back)
                   THEN [fb EXCEPT ![b] = glfb[Half(b)]] ELSE fb)
         /\ cfg.mode = "copy" =>
              lfb_dirty' = (IF t = "write" /\ ~Kept(b)
                            THEN IF cfg.merge /\ b = Back THEN {"merge"} ELSE {"stale"}
                            ELSE lfb_dirty)
         /\ lfb_dirty' \in {lfb_dirty, {"stale"}} \/ (cfg.mode = "copy" /\ lfb_dirty' = {"merge"})
<1>1. /\ held[t] # Nothing /\ held' = [held EXCEPT ![t] = Nothing]
      /\ rest' = rest /\ (t = "write" => rest = {})
      /\ UNCHANGED <<cfg, glfb, lfbPtr, grBuffer, seen>>
  BY DEF LfbUnlock, MayFlush
<1>2. b \in Buffers
  BY <1>1 DEF LInv, TypeOK
<1>3. Other(t) \in Types /\ Other(t) # t /\ Types = {t, Other(t)} /\ t \in {"read", "write"}
  BY Names DEF Other
<1>4. held'[t] = Nothing /\ held'[Other(t)] = held[Other(t)]
  BY <1>1, <1>3 DEF LInv, TypeOK
<1>5. held[Other(t)] \in {Nothing, b}
  BY <1>1, <1>3, Names DEF LInv, LockInv
<1>6. cfg.mode \in {"mmio", "copy", "zero"} /\ (cfg.mode = "zero" => ~cfg.merge)
  BY Options DEF LInv
<1> DEFINE writes == t = "write" /\ cfg.mode # "mmio" /\ ~Kept(b)
           merges == cfg.merge /\ b = Back
<1>7. /\ fb' = (IF writes /\ ~merges THEN vgLfbFlush(Half(b)) ELSE fb)
      /\ lfb_dirty' = (IF writes THEN IF merges THEN {"merge"} ELSE {"stale"} ELSE lfb_dirty)
  BY DEF LfbUnlock
<1>8. cfg.mode = "zero" => vgLfbFlush(Half(b)) = fb
  BY DEF vgLfbFlush
<1>9. t = "write" /\ ~Kept(b) => lfbPtr = b
  BY <1>2, Names DEF LInv, LockInv
<1>10. t = "write" /\ cfg.mode = "copy" /\ ~Kept(b) => vgLfbFlush(Half(b)) = [fb EXCEPT ![b] = glfb[Half(b)]]
  BY <1>2, <1>9 DEF vgLfbFlush
<1>11. fb' = (IF t = "write" /\ cfg.mode = "copy" /\ ~Kept(b) /\ ~(cfg.merge /\ b = Back)
              THEN [fb EXCEPT ![b] = glfb[Half(b)]] ELSE fb)
  BY <1>6, <1>7, <1>8, <1>10
<1>12. /\ cfg.mode = "copy" =>
            lfb_dirty' = (IF t = "write" /\ ~Kept(b)
                          THEN IF cfg.merge /\ b = Back THEN {"merge"} ELSE {"stale"}
                          ELSE lfb_dirty)
       /\ lfb_dirty' \in {lfb_dirty, {"stale"}} \/ (cfg.mode = "copy" /\ lfb_dirty' = {"merge"})
  BY <1>6, <1>7
<1> QED  BY <1>1, <1>2, <1>4, <1>5, <1>11, <1>12

LEMMA UnlockStep ==
  ASSUME LInv, Combined, NEW t \in Types, LfbUnlock(t)
  PROVE  LInv'
<1> SUFFICES ASSUME NEW b, b = held[t]  PROVE LInv'
  OBVIOUS
<1>0. /\ b \in Buffers /\ held' = [held EXCEPT ![t] = Nothing]
      /\ held'[t] = Nothing /\ held'[Other(t)] = held[Other(t)]
      /\ held[Other(t)] \in {Nothing, b}
      /\ rest' = rest /\ (t = "write" => rest = {})
      /\ UNCHANGED <<cfg, glfb, lfbPtr, grBuffer, seen>>
      /\ fb' = (IF t = "write" /\ cfg.mode = "copy" /\ ~Kept(b) /\ ~(cfg.merge /\ b = Back)
                THEN [fb EXCEPT ![b] = glfb[Half(b)]] ELSE fb)
      /\ cfg.mode = "copy" =>
           lfb_dirty' = (IF t = "write" /\ ~Kept(b)
                         THEN IF cfg.merge /\ b = Back THEN {"merge"} ELSE {"stale"}
                         ELSE lfb_dirty)
      /\ lfb_dirty' \in {lfb_dirty, {"stale"}} \/ (cfg.mode = "copy" /\ lfb_dirty' = {"merge"})
  BY UnlockFacts
<1>1. /\ lockedW' = (lockedW /\ t = "read")
      /\ slot' = Unmapped(mbufo, t) /\ mbufo' = [mbufo EXCEPT ![t] = Nothing]
      /\ looked' \in {Nothing, looked}
      /\ looked' = looked \/ (cfg.mode # "mmio" /\ t = "write" /\ ~Kept(b) /\ Locked = {t})
  BY DEF LfbUnlock
<1>2. Other(t) \in Types /\ Other(t) # t /\ Types = {t, Other(t)} /\ t \in {"read", "write"}
  BY Names DEF Other
<1>3. TypeOK'
  <2>1. fb' \in [Buffers -> [Pixels -> Values]]
    BY <1>0, Names DEF LInv, TypeOK
  <2>2. mbufo' \in [Types -> Buffers \cup {Nothing}] /\ slot' \in [Buffers -> {"no", "ro", "rw"}]
    BY <1>1, <1>2, Names DEF Unmapped, LInv, TypeOK
  <2>3. held' \in [Types -> Buffers \cup {Nothing}]
    BY <1>0 DEF LInv, TypeOK
  <2>4. lfb_dirty' \subseteq {"stale", "merge"} /\ lockedW' \in BOOLEAN
        /\ looked' \in Buffers \cup {Nothing}
    BY <1>0, <1>1 DEF LInv, TypeOK
  <2> QED  BY <1>0, <2>1, <2>2, <2>3, <2>4 DEF LInv, TypeOK
<1>4. LockInv'
  <2>1. lockedW' = (held'["write"] # Nothing)
    BY <1>0, <1>1, <1>2, Names DEF LInv, LockInv
  <2>2. \A u \in Types : held'[u] # Nothing => u = Other(t) /\ held'[u] = held[u]
    BY <1>0, <1>2
  <2>3. rest' # {} => t = "read" /\ held["read"] = Nothing
    BY <1>0, <1>2 DEF LInv, LockInv
  <2>4. rest' = {}
    BY <1>0, <1>2, <2>3, Names
  <2> QED  BY <1>0, <1>2, <2>1, <2>2, <2>4, Names DEF LInv, LockInv, Kept, Number
<1>5. MergeInv'
  <2> SUFFICES ASSUME "merge" \in lfb_dirty'  PROVE MergeInv'
    BY DEF MergeInv
  <2>1. cfg.mode = "copy"
    BY <1>0 DEF LInv, MergeInv
  <2>2. CASE t = "write" /\ ~Kept(b)
    <3>1. lfb_dirty' = {"merge"} /\ cfg.merge /\ b = Back /\ rest' = {}
      BY <1>0, <2>1, <2>2
    <3>2. grBuffer' = Back
      BY <1>0, <2>2, <3>1, Names DEF LInv, LockInv
    <3> QED  BY <1>0, <1>2, <2>1, <3>1, <3>2 DEF MergeInv
  <2>3. CASE ~(t = "write" /\ ~Kept(b))
    <3>1. lfb_dirty' = lfb_dirty
      BY <1>0, <2>1, <2>3
    <3> QED  BY <1>0, <1>2, <3>1 DEF LInv, MergeInv
  <2> QED  BY <2>2, <2>3
<1>6. CopyInv'
  <2> SUFFICES ASSUME cfg.mode = "copy"  PROVE CopyInv'
    BY <1>0 DEF CopyInv
  <2>1. CASE t = "write" /\ ~Kept(b)
    <3>1. lfb_dirty' # {} /\ held'["write"] = Nothing /\ held'["read"] \in {Nothing, b}
      BY <1>0, <1>2, <2>1, Names DEF Other
    <3>2. "merge" \notin lfb_dirty' => fb'[b] = glfb[Half(b)]
      BY <1>0, <2>1 DEF LInv, TypeOK
    <3> QED  BY <1>0, <3>1, <3>2 DEF CopyInv, Half
  <2>2. CASE t = "write" /\ Kept(b)
    <3>1. UNCHANGED <<fb, lfb_dirty, looked, glfb, grBuffer>>
      BY <1>0, <1>1, <2>2
    <3>2. held'["write"] = Nothing /\ held'["read"] \in {Nothing, b}
      BY <1>0, <1>2, <2>2, Names DEF Other
    <3>3. grBuffer = "kept" /\ b = Aux
      BY <1>0, <2>2, Names DEF LInv, LockInv
    <3>4. lfb_dirty # {} \/ cfg.dirty
      <4> SUFFICES ASSUME lfb_dirty = {}, ~cfg.dirty  PROVE FALSE
        OBVIOUS
      <4> QED  BY <3>3, Names DEF LInv, CopyInv
    <3> QED  BY <1>0, <2>2, <3>1, <3>2, <3>3, <3>4 DEF CopyInv, Half, Kept
  <2>3. CASE t = "read"
    <3>1. UNCHANGED <<fb, lfb_dirty, looked, glfb, grBuffer>> /\ held'["read"] = Nothing
          /\ held'["write"] = held["write"]
      BY <1>0, <1>1, <1>2, <2>3, Names DEF Other
    <3> QED  BY <1>0, <3>1 DEF LInv, CopyInv, Half, Kept
  <2> QED  BY <1>2, <2>1, <2>2, <2>3
<1>7. MapInv' /\ MapsHeld'
  <2> SUFFICES ASSUME cfg.mode = "zero"  PROVE MapInv' /\ MapsHeld'
    BY <1>0 DEF MapInv, MapsHeld
  <2>1. held[Other(t)] = Nothing /\ held[t] = b /\ b # Nothing
    BY <1>0, <1>2, Names DEF LInv, MapInv
  <2>2. mbufo[t] = (IF Kept(b) THEN Nothing ELSE b) /\ mbufo[Other(t)] = Nothing
    BY <1>0, <1>2, <2>1 DEF LInv, MapInv
  <2>3. \A c \in Buffers : slot[c] # "no" => c = b /\ ~Kept(b)
    BY <1>0, <1>2, <2>1, Names DEF LInv, MapsHeld
  <2>4. \A c \in Buffers : slot'[c] = "no"
    BY <1>0, <1>1, <2>2, <2>3, Names DEF Unmapped, LInv, TypeOK
  <2>5. \A u \in Types : held'[u] = Nothing /\ mbufo'[u] = Nothing
    BY <1>0, <1>1, <1>2, <2>1, <2>2 DEF LInv, TypeOK
  <2> QED  BY <1>0, <2>4, <2>5, Names DEF MapInv, MapsHeld, Kept
<1> QED  BY <1>3, <1>4, <1>5, <1>6, <1>7 DEF LInv

-----------------------------------------------------------------------------
(* The theorems.                                                           *)

LEMMA NextLInv ==
  ASSUME LInv, Orderly, Combined, [Next]_vars
  PROVE  LInv'
<1>1. CASE BufferSwap
  BY <1>1, SwapStep
<1>2. CASE \E init \in BOOLEAN : Open(init)
  BY <1>2, OpenStep
<1>3. CASE \E t \in Types : LfbUnlock(t)
  BY <1>3, UnlockStep
<1>4. CASE \E t \in Types, b \in Buffers, wide \in BOOLEAN : LfbLock(t, b, wide)
  BY <1>4, LockStep
<1>5. CASE \E x \in Pixels : Read(x)
  BY <1>5, ReadStep
<1>6. CASE \E x \in Pixels, v \in Values : Write(x, v)
  BY <1>6, WriteStep
<1>7. CASE \E x \in Pixels, v \in Values, b \in Buffers : Draw(b, x, v)
  BY <1>7, DrawStep
<1>8. CASE UNCHANGED vars
  BY <1>8 DEF vars, library, device, program, LInv, TypeOK, LockInv, MergeInv, CopyInv, MapInv,
              MapsHeld, Kept, Number, Half
<1> QED  BY <1>1, <1>2, <1>3, <1>4, <1>5, <1>6, <1>7, <1>8 DEF Next

\* The copies and what the device thinks of them agree with the library's buffers and
\* with the locks of the program.
THEOREM Inductive ==
  ASSUME Orderly, Combined
  PROVE  Spec => []LInv
<1>1. LInv /\ [Next]_vars => LInv'
  BY NextLInv
<1> QED  BY <1>1, InitLInv, PTL DEF Spec

\* The device's variables keep their types, and no load goes to a page that is not
\* there (seen would be Nothing).
THEOREM TypeCorrect ==
  ASSUME Orderly, Combined
  PROVE  Spec => []TypeOK
<1>1. LInv => TypeOK
  BY DEF LInv
<1> QED  BY <1>1, Inductive, PTL

\* Whatever the number of pixels: glide_mapbufo has the library's pages mapped exactly
\* as long as the program holds the lock, with the rights of the lock.
THEOREM PagesFollowLocks ==
  ASSUME Orderly, Combined
  PROVE  Spec => []MapsHeld
<1>1. LInv => MapsHeld
  BY DEF LInv
<1> QED  BY <1>1, Inductive, PTL

-----------------------------------------------------------------------------
(* Each step of the device is one of FrameBuffer.                          *)

\* What the program sees, as the refinement mapping of GlideLfb gives it.
Seen == [b \in Buffers |-> Visible(b)]

LEMMA OpenClears ==
  ASSUME LInv, Combined, NEW init \in BOOLEAN, Open(init)
  PROVE  Promised!Clear
<1>1. held["read"] = Nothing /\ held["write"] = Nothing /\ rest = {}
  BY Names DEF Open, Locked, LInv, LockInv
<1>2. /\ UNCHANGED <<cfg, held, rest, seen>> /\ fb' = [b \in Buffers |-> Black]
      /\ cfg.mode # "mmio" => glfb'[Aux] = Black
      /\ cfg.mode # "mmio" => "merge" \notin lfb_dirty'
  BY Names DEF Open, LInv, TypeOK
<1>3. cfg.mode = "mmio" => ~cfg.noaux
  BY Options DEF LInv
<1>4. ASSUME NEW b \in Buffers  PROVE Visible(b)' = Black
  <2>1. CASE Kept(b)
    <3>1. cfg.mode # "mmio" /\ Kept(b)'
      BY <1>2, <1>3, <2>1, Names DEF Kept
    <3> QED  BY <1>2, <3>1 DEF Visible
  <2>2. CASE ~Kept(b)
    <3>1. ~Kept(b)' /\ held'["write"] # b /\ (cfg'.mode = "copy" => "merge" \notin lfb_dirty')
      BY <1>1, <1>2, <2>2, Names DEF Kept
    <3> QED  BY <1>2, <3>1 DEF Visible
  <2> QED  BY <2>1, <2>2
<1> QED  BY <1>2, <1>4 DEF Promised!Clear, Black

\* Rendering is seen as it is drawn, except in an auxiliary buffer that LfbNoAux keeps
\* away.
LEMMA DrawDraws ==
  ASSUME LInv, Orderly, NEW b \in Buffers, NEW x \in Pixels, NEW v \in Values, Draw(b, x, v)
  PROVE  IF Kept(b) THEN UNCHANGED Promised!vars ELSE Promised!Draw(b, x, v)
<1>1. /\ UNCHANGED <<cfg, glfb, lfb_dirty, held, rest, looked, seen>>
      /\ fb' = [fb EXCEPT ![b][x] = v] /\ MayDraw(b)
  BY DEF Draw, device, program
<1>2. cfg.mode = "copy" => /\ held["write"] = Nothing /\ rest = {}
                           /\ "merge" \in lfb_dirty => b # Back
  BY <1>1, Names DEF MayDraw, Locked, LInv, LockInv
<1>3. rest = {} /\ rest' = {}
  BY <1>1, <1>2 DEF LInv, LockInv
<1>4. TypeOK'
  BY DrawStep DEF LInv
<1>5. /\ \A c \in Buffers : c # b => fb'[c] = fb[c]
      /\ fb'[b] = [fb[b] EXCEPT ![x] = v]
  BY <1>1 DEF LInv, TypeOK
<1>6. ASSUME NEW c \in Buffers
      PROVE  Visible(c)' = IF c = b /\ ~Kept(b) THEN [Visible(b) EXCEPT ![x] = v] ELSE Visible(c)
  <2>1. Visible(c) = IF Kept(c) THEN glfb[Aux]
                     ELSE IF cfg.mode = "copy" /\ (held["write"] = c \/ (c = Back /\ "merge" \in lfb_dirty))
                          THEN glfb[Half(c)] ELSE fb[c]
    BY <1>3, VisibleIs DEF LInv
  <2>2. Visible(c)' = IF Kept(c) THEN glfb[Aux]
                      ELSE IF cfg.mode = "copy" /\ (held["write"] = c \/ (c = Back /\ "merge" \in lfb_dirty))
                           THEN glfb[Half(c)] ELSE fb'[c]
    BY <1>1, <1>3, <1>4, VisibleThen
  <2> QED  BY <1>2, <1>5, <2>1, <2>2, Names
<1>7. UNCHANGED <<held, seen>>
  BY <1>1
<1>8. CASE Kept(b)
  <2>1. Seen' = Seen
    BY <1>6, <1>8 DEF Seen
  <2> QED  BY <1>7, <1>8, <2>1 DEF Seen, Promised!vars
<1>9. CASE ~Kept(b)
  <2>1. Seen' = [Seen EXCEPT ![b][x] = v]
    BY <1>6, <1>9 DEF Seen
  <2> QED  BY <1>7, <1>9, <2>1 DEF Seen, Promised!Draw
<1> QED  BY <1>8, <1>9

\* grBufferSwap shows the back buffer as the program sees it: what it wrote and did not
\* give back, and what was to be merged, included.
LEMMA SwapSwaps ==
  ASSUME LInv, Orderly, Combined, BufferSwap
  PROVE  Promised!Swap
<1>1. /\ UNCHANGED <<cfg, glfb, lfbPtr, lockedW, grBuffer, mbufo, slot, held, rest, seen>>
      /\ rest = {}
      /\ cfg.mode = "copy" => \A t \in Types : held[t] # Front
      /\ fb' \in [Buffers -> [Pixels -> Values]]
      /\ fb'[Front] = fb'[Back] /\ fb'[Aux] = fb[Aux]
      /\ fb'[Back] = IF cfg.mode = "copy" /\ (held["write"] = Back \/ "merge" \in lfb_dirty)
                     THEN glfb[Color] ELSE fb[Back]
  BY SwapFacts
<1>2. cfg.mode = "copy" => "merge" \notin lfb_dirty'
  BY DEF BufferSwap
<1>3. ASSUME NEW b \in Buffers
      PROVE  /\ Visible(b) = IF Kept(b) THEN glfb[Aux]
                             ELSE IF cfg.mode = "copy" /\ (held["write"] = b \/ (b = Back /\ "merge" \in lfb_dirty))
                                  THEN glfb[Half(b)] ELSE fb[b]
             /\ Visible(b)' = IF Kept(b) THEN glfb[Aux]
                              ELSE IF cfg.mode = "copy" /\ held["write"] = b
                                   THEN glfb[Half(b)] ELSE fb'[b]
  <2>1. TypeOK'
    BY SwapStep DEF LInv
  <2> QED  BY <1>1, <1>2, <2>1, VisibleIs, VisibleThen DEF LInv
<1>4. Half(Back) = Color /\ ~Kept(Back) /\ ~Kept(Front)
  BY Names DEF Half
<1>5. Visible(Front)' = Visible(Back) /\ Visible(Back)' = Visible(Back)
  BY <1>1, <1>3, <1>4, Names
<1>6. Visible(Aux)' = Visible(Aux)
  BY <1>1, <1>3, Names
<1>7. Seen' = [Seen EXCEPT ![Front] = Seen[Back]]
  BY <1>5, <1>6, Names DEF Seen
<1> QED  BY <1>1, <1>7 DEF Seen, Promised!Swap

\* A lock changes nothing of what is seen.
LEMMA LockLocks ==
  ASSUME LInv, Orderly, Combined,
         NEW t \in Types, NEW b \in Buffers, NEW wide \in BOOLEAN, LfbLock(t, b, wide)
  PROVE  Promised!Lock(t, b)
<1>0. /\ held[t] = Nothing /\ held' = [held EXCEPT ![t] = b]
      /\ held'[t] = b /\ held'[Other(t)] = held[Other(t)]
      /\ held[Other(t)] \in {Nothing, b}
      /\ "merge" \in lfb_dirty => b = Back /\ ~cfg.dirty /\ ~wide
      /\ wide => t = "write" /\ cfg.mode = "copy" /\ ~Kept(b)
      /\ rest = {} /\ rest' = (IF wide THEN Pixels ELSE {})
  BY LockFacts
<1>1. UNCHANGED <<cfg, fb, seen>>
  BY DEF LfbLock
<1>2. Types = {t, Other(t)} /\ t \in {"read", "write"} /\ Other(t) # t
  BY Names DEF Other
<1>3. ASSUME NEW c \in Buffers
      PROVE  Visible(c) = IF Kept(c) THEN glfb[Aux]
                          ELSE IF cfg.mode = "copy" /\ (held["write"] = c \/ (c = Back /\ "merge" \in lfb_dirty))
                               THEN glfb[Half(c)] ELSE fb[c]
  BY <1>0, VisibleIs DEF LInv
<1>4. LInv'
  BY LockStep
<1>5. cfg.mode # "copy" => glfb' = glfb
  <2>1. cfg.mode \in {"mmio", "copy", "zero"}
    BY Options DEF LInv
  <2> QED  BY <2>1 DEF LfbLock
<1>6. Kept(b) => glfb' = glfb /\ lfb_dirty' = DirtyAtLock(b)
  <2>1. cfg.mode \in {"mmio", "copy", "zero"}
    BY Options DEF LInv
  <2> QED  BY <2>1 DEF LfbLock, Copied
<1>7. cfg.mode = "copy" /\ ~Kept(b) =>
        /\ ("merge" \in lfb_dirty') <=> ("merge" \in lfb_dirty)
        /\ "merge" \in lfb_dirty => glfb' = glfb
        /\ held["write"] # Nothing => glfb' = glfb
        /\ held["write"] = Nothing /\ "merge" \notin lfb_dirty =>
             \/ glfb' = (IF wide THEN glfb ELSE [glfb EXCEPT ![Half(b)] = fb[b]])
             \/ glfb[Half(b)] = fb[b] /\ glfb' = glfb
  BY CopiedFacts
<1>8. \A c \in Buffers : Kept(c) => glfb'[Aux] = glfb[Aux]
  <2> SUFFICES ASSUME NEW c \in Buffers, Kept(c), cfg.mode = "copy", ~Kept(b)
               PROVE  glfb'[Aux] = glfb[Aux]
    BY <1>5, <1>6
  <2>1. Half(b) # Aux
    BY Names
  <2>2. glfb' = glfb \/ glfb' = [glfb EXCEPT ![Half(b)] = fb[b]]
    BY <1>7
  <2> QED  BY <2>1, <2>2 DEF LInv, TypeOK
<1>9. ASSUME NEW c \in Buffers  PROVE Visible(c)' = Visible(c)
  <2>1. CASE wide
    <3>1. /\ cfg.mode = "copy" /\ ~Kept(b) /\ "merge" \notin lfb_dirty /\ rest' = Pixels
          /\ t = "write" /\ held["write"] = Nothing /\ held'["write"] = b
      BY <1>0, <2>1
    <3>2. "merge" \notin lfb_dirty'
      BY <1>7, <3>1
    <3>3. Visible(c) = IF Kept(c) THEN glfb[Aux] ELSE fb[c]
      BY <1>3, <3>1, Names
    <3>4. fb[c] = [x \in Pixels |-> fb[c][x]]
      BY DEF LInv, TypeOK
    <3>5. Visible(c)' = IF Kept(c) THEN glfb'[Aux] ELSE fb[c]
      <4>1. (Kept(c)' <=> Kept(c)) /\ cfg'.mode = cfg.mode /\ fb' = fb
        BY <1>1 DEF Kept
      <4>2. CASE Kept(c)
        BY <4>1, <4>2 DEF Visible
      <4>3. CASE ~Kept(c) /\ c = b
        BY <3>1, <3>4, <4>1, <4>3 DEF Visible
      <4>4. CASE ~Kept(c) /\ c # b
        BY <3>1, <3>2, <4>1, <4>4 DEF Visible
      <4> QED  BY <4>2, <4>3, <4>4
    <3> QED  BY <1>8, <3>3, <3>5
  <2>2. CASE ~wide
    <3>1. Visible(c)' = IF Kept(c) THEN glfb'[Aux]
                        ELSE IF cfg.mode = "copy" /\ (held'["write"] = c \/ (c = Back /\ "merge" \in lfb_dirty'))
                             THEN glfb'[Half(c)] ELSE fb[c]
      BY <1>0, <1>1, <1>4, <2>2, VisibleThen DEF LInv
    <3>2. CASE Kept(c) \/ cfg.mode # "copy"
      BY <1>3, <1>8, <3>1, <3>2
    <3>3. CASE ~Kept(c) /\ cfg.mode = "copy" /\ Kept(b)
      <4>1. b = Aux /\ c # b /\ "merge" \notin lfb_dirty /\ glfb' = glfb
        BY <1>0, <1>6, <3>3, Names
      <4>2. "merge" \notin lfb_dirty'
        BY <1>6, <3>3, <4>1 DEF DirtyAtLock
      <4>3. held'["write"] # c /\ held["write"] # c
        BY <1>0, <1>2, <4>1, Names
      <4> QED  BY <1>3, <3>1, <3>3, <4>1, <4>2, <4>3
    <3>4. CASE ~Kept(c) /\ cfg.mode = "copy" /\ ~Kept(b) /\ "merge" \in lfb_dirty
      <4>1. b = Back /\ glfb' = glfb /\ "merge" \in lfb_dirty'
        BY <1>0, <1>7, <3>4
      <4>2. c # Back => held'["write"] # c /\ held["write"] # c
        BY <1>0, <1>2, <4>1, Names
      <4> QED  BY <1>3, <3>1, <3>4, <4>1, <4>2
    <3>5. CASE ~Kept(c) /\ cfg.mode = "copy" /\ ~Kept(b) /\ "merge" \notin lfb_dirty
      <4>1. "merge" \notin lfb_dirty'
        BY <1>7, <3>5
      <4>2. CASE c # b
        <5>1. held'["write"] # c /\ held["write"] # c
          BY <1>0, <1>2, <4>2, Names
        <5> QED  BY <1>3, <3>1, <3>5, <4>1, <5>1
      <4>3. CASE c = b /\ held["write"] # Nothing
        <5>0. Other(t) = "write"
          BY <1>0, <1>2, <4>3, Names
        <5>1. held["write"] = b /\ held'["write"] = b /\ glfb' = glfb
          BY <1>0, <1>7, <3>5, <4>3, <5>0
        <5> QED  BY <1>3, <3>1, <3>5, <4>1, <4>3, <5>1
      <4>4. CASE c = b /\ held["write"] = Nothing
        <5>1. glfb'[Half(b)] = fb[b]
          BY <1>7, <2>2, <3>5, <4>4, Names DEF LInv, TypeOK
        <5>2. held["write"] # b
          BY <4>4, Names
        <5> QED  BY <1>3, <3>1, <3>5, <4>1, <4>4, <5>1, <5>2
      <4> QED  BY <4>2, <4>3, <4>4
    <3> QED  BY <3>2, <3>3, <3>4, <3>5
  <2> QED  BY <2>1, <2>2
<1>10. Seen' = Seen
  BY <1>9 DEF Seen
<1> QED  BY <1>0, <1>1, <1>10 DEF Seen, Promised!Lock, Promised!Nothing, Nothing

\* Nor does an unlock: what was written is the library's, or waits to be.
LEMMA UnlockUnlocks ==
  ASSUME LInv, Orderly, Combined, NEW t \in Types, LfbUnlock(t)
  PROVE  Promised!Unlock(t)
<1> SUFFICES ASSUME NEW b, b = held[t]  PROVE Promised!Unlock(t)
  OBVIOUS
<1>0. /\ b \in Buffers /\ held' = [held EXCEPT ![t] = Nothing]
      /\ held'[t] = Nothing /\ held'[Other(t)] = held[Other(t)]
      /\ held[Other(t)] \in {Nothing, b}
      /\ rest' = rest /\ (t = "write" => rest = {})
      /\ UNCHANGED <<cfg, glfb, lfbPtr, grBuffer, seen>>
      /\ fb' = (IF t = "write" /\ cfg.mode = "copy" /\ ~Kept(b) /\ ~(cfg.merge /\ b = Back)
                THEN [fb EXCEPT ![b] = glfb[Half(b)]] ELSE fb)
      /\ cfg.mode = "copy" =>
           lfb_dirty' = (IF t = "write" /\ ~Kept(b)
                         THEN IF cfg.merge /\ b = Back THEN {"merge"} ELSE {"stale"}
                         ELSE lfb_dirty)
  BY UnlockFacts
<1>1. Types = {t, Other(t)} /\ t \in {"read", "write"} /\ Other(t) # t
  BY Names DEF Other
<1>2. rest = {}
  BY <1>0, <1>1, Names DEF LInv, LockInv
<1>3. LInv'
  BY UnlockStep
<1>4. ASSUME NEW c \in Buffers  PROVE Visible(c)' = Visible(c)
  <2>1. /\ Visible(c) = IF Kept(c) THEN glfb[Aux]
                        ELSE IF cfg.mode = "copy" /\ (held["write"] = c \/ (c = Back /\ "merge" \in lfb_dirty))
                             THEN glfb[Half(c)] ELSE fb[c]
        /\ Visible(c)' = IF Kept(c) THEN glfb[Aux]
                         ELSE IF cfg.mode = "copy" /\ (held'["write"] = c \/ (c = Back /\ "merge" \in lfb_dirty'))
                              THEN glfb[Half(c)] ELSE fb'[c]
    BY <1>0, <1>2, <1>3, VisibleIs, VisibleThen DEF LInv
  <2>2. CASE Kept(c) \/ cfg.mode # "copy"
    BY <1>0, <2>1, <2>2
  <2>3. CASE ~Kept(c) /\ cfg.mode = "copy" /\ t = "read"
    <3>1. held'["write"] = held["write"] /\ lfb_dirty' = lfb_dirty /\ fb' = fb
      BY <1>0, <1>1, <2>3, Names
    <3> QED  BY <2>1, <3>1
  <2>4. CASE ~Kept(c) /\ cfg.mode = "copy" /\ t = "write"
    <3>1. held["write"] = b /\ held'["write"] = Nothing
      BY <1>0, <2>4
    <3>2. "merge" \in lfb_dirty => b = Back /\ cfg.merge
      BY <1>0, <2>4, Names DEF LInv, MergeInv
    <3>3. fb \in [Buffers -> [Pixels -> Values]]
      BY DEF LInv, TypeOK
    <3>4. CASE Kept(b)
      <4>1. fb' = fb /\ lfb_dirty' = lfb_dirty /\ c # b
        BY <1>0, <2>4, <3>4
      <4> QED  BY <2>1, <2>4, <3>1, <4>1, Names
    <3>5. CASE ~Kept(b) /\ cfg.merge /\ b = Back
      <4>1. fb' = fb /\ lfb_dirty' = {"merge"}
        BY <1>0, <2>4, <3>5
      <4> QED  BY <2>1, <2>4, <3>1, <3>5, <4>1, Names
    <3>6. CASE ~Kept(b) /\ ~(cfg.merge /\ b = Back)
      <4>1. fb' = [fb EXCEPT ![b] = glfb[Half(b)]] /\ "merge" \notin lfb_dirty'
            /\ "merge" \notin lfb_dirty
        BY <1>0, <2>4, <3>2, <3>6
      <4>2. fb'[b] = glfb[Half(b)] /\ (c # b => fb'[c] = fb[c])
        BY <1>0, <3>3, <4>1
      <4> QED  BY <2>1, <2>4, <3>1, <4>1, <4>2, Names
    <3> QED  BY <3>4, <3>5, <3>6
  <2> QED  BY <1>1, <2>2, <2>3, <2>4
<1>5. Seen' = Seen
  BY <1>4 DEF Seen
<1> QED  BY <1>0, <1>5 DEF Seen, Promised!Unlock, Promised!Nothing, Nothing

\* A load reads what is seen.
LEMMA ReadReads ==
  ASSUME LInv, NEW x \in Pixels, Read(x)
  PROVE  Promised!Read(x)
<1> DEFINE b == held["read"]
<1>1. /\ held["read"] # Nothing /\ b \in Buffers /\ rest = {} /\ rest' = rest
      /\ UNCHANGED <<cfg, fb, glfb, lfb_dirty, held>>
  BY Names DEF Read, library, device, LInv, TypeOK
<1>2. \A c \in Buffers : Visible(c)' = Visible(c)
  BY <1>1 DEF Visible, Kept, Half
<1>3. Visible(b) = IF Kept(b) THEN glfb[Aux]
                   ELSE IF cfg.mode = "copy" /\ (held["write"] = b \/ (b = Back /\ "merge" \in lfb_dirty))
                        THEN glfb[Half(b)] ELSE fb[b]
  BY <1>1, VisibleIs DEF LInv
<1>4. cfg.mode \in {"mmio", "copy", "zero"}
  BY ConstantsAssumption DEF LInv, TypeOK, ConstantsAssumption
<1>5. cfg.mode = "zero" /\ ~Kept(b) => slot[b] # "no"
  BY <1>1 DEF LInv, MapsHeld
<1>6. seen' = Visible(b)[x]
  <2>1. CASE Kept(b)
    <3>1. Where(b) = "copy" /\ Half(b) = Aux
      BY <1>1, <2>1, Names DEF Where, Half
    <3>2. seen' = glfb[Half(b)][x]
      BY <3>1 DEF Read
    <3> QED  BY <1>3, <2>1, <3>1, <3>2
  <2>2. CASE ~Kept(b) /\ cfg.mode = "copy"
    <3>1. seen' = glfb[Half(b)][x]
      BY <2>2 DEF Read, Where
    <3>2. held["write"] # Nothing => held["write"] = b
      BY <1>1 DEF LInv, LockInv
    <3>3. "merge" \in lfb_dirty => b = Back
      BY <1>1, Names DEF LInv, MergeInv
    <3>4. held["write"] # b /\ "merge" \notin lfb_dirty => glfb[Half(b)] = fb[b]
      BY <1>1, <2>2, <3>2 DEF LInv, CopyInv
    <3> QED  BY <1>3, <2>2, <3>1, <3>3, <3>4
  <2>3. CASE ~Kept(b) /\ cfg.mode # "copy"
    <3>1. seen' = fb[b][x]
      BY <1>4, <1>5, <2>3 DEF Read, Where
    <3> QED  BY <1>3, <2>3, <3>1
  <2> QED  BY <2>1, <2>2, <2>3
<1>7. Seen' = Seen /\ Seen[b] = Visible(b)
  BY <1>1, <1>2 DEF Seen
<1> QED  BY <1>1, <1>6, <1>7 DEF Seen, Promised!Read, Promised!Nothing, Nothing

\* A store writes to it, and to nothing else.
LEMMA WriteWrites ==
  ASSUME LInv, NEW x \in Pixels, NEW v \in Values, Write(x, v)
  PROVE  Promised!Write(x, v)
<1> SUFFICES ASSUME NEW b, b = held["write"]  PROVE Promised!Write(x, v)
  OBVIOUS
<1>1. /\ b # Nothing /\ b \in Buffers /\ rest' = rest \ {x}
      /\ UNCHANGED <<cfg, lfb_dirty, held, seen>>
  BY Names DEF Write, LInv, TypeOK
<1>2. cfg.mode \in {"mmio", "copy", "zero"}
  BY ConstantsAssumption DEF LInv, TypeOK, ConstantsAssumption
<1>3. cfg.mode = "zero" /\ ~Kept(b) => slot[b] = "rw"
  BY <1>1 DEF LInv, MapsHeld
<1>4. IF Kept(b) \/ cfg.mode = "copy"
      THEN glfb' = [glfb EXCEPT ![Half(b)][x] = v] /\ fb' = fb
      ELSE fb' = [fb EXCEPT ![b][x] = v] /\ glfb' = glfb
  BY <1>2, <1>3 DEF Write, Where
<1>5. /\ fb \in [Buffers -> [Pixels -> Values]] /\ glfb \in [{Color, Aux} -> [Pixels -> Values]]
      /\ Half(b) \in {Color, Aux}
  BY Names DEF LInv, TypeOK
<1>6. ASSUME NEW c \in Buffers
      PROVE  Visible(c)' = IF c = b THEN [Visible(b) EXCEPT ![x] = v] ELSE Visible(c)
  <2>0. (Kept(c)' <=> Kept(c)) /\ Half(c)' = Half(c)
    BY <1>1 DEF Kept, Half
  <2>1. CASE c = b /\ Kept(b)
    <3>1. Half(b) = Aux /\ glfb' = [glfb EXCEPT ![Aux][x] = v]
      BY <1>1, <1>4, <2>1, Names DEF Half
    <3>2. glfb'[Aux] = [glfb[Aux] EXCEPT ![x] = v]
      BY <1>5, <3>1
    <3> QED  BY <2>0, <2>1, <3>2 DEF Visible
  <2>2. CASE c = b /\ ~Kept(b) /\ cfg.mode = "copy"
    <3>1. glfb' = [glfb EXCEPT ![Half(b)][x] = v] /\ fb' = fb
      BY <1>4, <2>2
    <3>2. glfb'[Half(b)] = [glfb[Half(b)] EXCEPT ![x] = v] /\ glfb[Half(b)] \in [Pixels -> Values]
      BY <1>5, <3>1
    <3>3. /\ Visible(b) = [y \in Pixels |-> IF y \in rest THEN fb[b][y] ELSE glfb[Half(b)][y]]
          /\ Visible(c)' = [y \in Pixels |-> IF y \in rest' THEN fb[b][y] ELSE glfb'[Half(b)][y]]
      BY <1>1, <2>0, <2>2, <3>1 DEF Visible
    <3> QED  BY <1>1, <2>2, <3>2, <3>3
  <2>3. CASE c = b /\ ~Kept(b) /\ cfg.mode # "copy"
    <3>1. fb'[b] = [fb[b] EXCEPT ![x] = v]
      BY <1>1, <1>4, <1>5, <2>3
    <3> QED  BY <1>1, <2>0, <2>3, <3>1 DEF Visible
  <2>4. CASE c # b
    <3>1. "merge" \in lfb_dirty => b = Back
      BY <1>1, Names DEF LInv, MergeInv
    <3>2. held["write"] # c /\ ~(c = Back /\ "merge" \in lfb_dirty)
      BY <2>4, <3>1
    <3>3. Kept(c) => glfb'[Aux] = glfb[Aux]
      <4> SUFFICES ASSUME Kept(c)  PROVE glfb'[Aux] = glfb[Aux]
        OBVIOUS
      <4>1. c = Aux /\ ~Kept(b) /\ Half(b) # Aux
        BY <1>1, <2>4, Names
      <4> QED  BY <1>4, <1>5, <4>1
    <3>4. fb'[c] = fb[c]
      BY <1>1, <1>4, <1>5, <2>4
    <3> QED  BY <1>1, <2>0, <2>4, <3>2, <3>3, <3>4 DEF Visible
  <2> QED  BY <2>1, <2>2, <2>3, <2>4
<1>7. Seen' = [Seen EXCEPT ![b][x] = v]
  BY <1>1, <1>6 DEF Seen
<1> QED  BY <1>1, <1>7 DEF Seen, Promised!Write, Promised!Nothing, Nothing

\* The device's frame buffer is the one that Glide promises, for every size of it and
\* every combination of LfbHandler, LfbMapBufo, LfbLockDirty, LfbWriteMerge and LfbNoAux
\* that Combined allows.
THEOREM ImplementsPromise ==
  ASSUME Orderly, Combined
  PROVE  Spec => ImplementsFrameBuffer
<1>1. Init => Promised!Init
  <2> SUFFICES ASSUME Init  PROVE Promised!Init
    OBVIOUS
  <2>1. \A b \in Buffers : Visible(b) = Black
    <3>1. "merge" \notin lfb_dirty /\ held["write"] = Nothing
          /\ glfb[Aux] = Black /\ \A b \in Buffers : fb[b] = Black
      BY Names DEF Init, NotHeld
    <3> QED  BY <3>1, Names DEF Visible
  <2> QED  BY <2>1 DEF Init, Promised!Init, Promised!Nothing, Nothing, Black, NotHeld, Types
<1>2. LInv /\ [Next]_vars => [Promised!Next]_(Promised!vars)
  <2> SUFFICES ASSUME LInv, [Next]_vars  PROVE Promised!Next \/ UNCHANGED Promised!vars
    OBVIOUS
  <2>1. CASE BufferSwap
    BY <2>1, SwapSwaps DEF Promised!Next
  <2>2. ASSUME NEW init \in BOOLEAN, Open(init)  PROVE Promised!Next
    BY <2>2, OpenClears DEF Promised!Next
  <2>3. ASSUME NEW t \in Types, LfbUnlock(t)  PROVE Promised!Next
    BY <2>3, UnlockUnlocks DEF Promised!Next, Types
  <2>4. ASSUME NEW t \in Types, NEW b \in Buffers, NEW wide \in BOOLEAN, LfbLock(t, b, wide)
        PROVE  Promised!Next
    BY <2>4, LockLocks DEF Promised!Next, Types
  <2>5. ASSUME NEW x \in Pixels, Read(x)  PROVE Promised!Next
    BY <2>5, ReadReads DEF Promised!Next
  <2>6. ASSUME NEW x \in Pixels, NEW v \in Values, Write(x, v)  PROVE Promised!Next
    BY <2>6, WriteWrites DEF Promised!Next
  <2>7. ASSUME NEW x \in Pixels, NEW v \in Values, NEW b \in Buffers, Draw(b, x, v)
        PROVE  Promised!Next \/ UNCHANGED Promised!vars
    BY <2>7, DrawDraws DEF Promised!Next
  <2>8. CASE UNCHANGED vars
    BY <2>8 DEF vars, library, device, program, Promised!vars, Visible, Kept, Half
  <2> QED  BY <2>1, <2>2, <2>3, <2>4, <2>5, <2>6, <2>7, <2>8 DEF Next
<1> QED  BY <1>1, <1>2, Inductive, PTL DEF Spec, Promised!Spec, ImplementsFrameBuffer
===============================================================================
