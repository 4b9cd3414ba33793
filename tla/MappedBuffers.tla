--------------------------- MODULE MappedBuffers ---------------------------
(***************************************************************************)
(* Buffer objects mapped into the guest: the table of mglmapbo.c, the      *)
(* handlers of glBindBuffer, glMapBuffer(Range), glFlushMappedBufferRange, *)
(* glUnmapBuffer and glDeleteBuffers in mesapt_mm.c, and the two ways a    *)
(* mapping is shown to the guest.                                          *)
(*                                                                         *)
(* One-copy: the buffer is copied into a region of the window fbtm_ptr     *)
(* that the guest has mapped; regions are stacked from the window's end,   *)
(* szUsedBuf is the height of the stack.  What the guest wrote is copied   *)
(* back by a flush or by the unmap.  Zero-copy: the host pages of the      *)
(* mapping become a KVM memory slot of the guest-physical area MBUFO, at   *)
(* an address that MapBufObjGpa chooses.                                   *)
(*                                                                         *)
(* The calls arrive one at a time and in order: that is CallFifo's part.   *)
(* A word of memory is <<buffer, version of its contents>>; a mapping is   *)
(* always of the whole buffer.                                             *)
(***************************************************************************)
EXTENDS Integers, FiniteSets, FiniteSetsExt, Functions

CONSTANTS
  Buffers,     \* names of buffer objects, positive numbers
  Targets,     \* binding points
  Unpack,      \* GL_PIXEL_UNPACK_BUFFER
  Size,        \* [Buffers -> Nat \ {0}]
  Accels,      \* the configurations: "none", "unpack" (bufo_accel_en) or "all" (GetBufOAccelEN)
  Bo,          \* alignment of ALIGNBO
  FbtSize,     \* MGLFBT_SIZE
  FbtBase,     \* fbtm_ptr, a host address beyond the MBUFO area
  Page,        \* host page size
  MbufoSize,   \* MBUFO_SIZE
  Hvas,        \* [Buffers -> SUBSET Nat]  host addresses the library may map a buffer at
  LastBound,   \* TRUE: a program maps, flushes and unmaps the buffer it bound last,
               \* through one target
  Programs,    \* the kinds of program: a "tidy" one unmaps a buffer before it deletes it
               \* or its context, a "careless" one may not
  MaxMaps,     \* bound on the mappings of a behaviour
  MaxWrites    \* bound on the writes of a behaviour

NoTarget == "none"

ASSUME ConstantsAssumption ==
  /\ IsFiniteSet(Buffers) /\ Buffers \subseteq Nat \ {0}
  /\ Unpack \in Targets /\ NoTarget \notin Targets
  /\ Size \in [Buffers -> Nat \ {0}]
  /\ Accels \subseteq {"none", "unpack", "all"}
  /\ Bo \in Nat \ {0} /\ Page \in Nat \ {0} /\ Page % Bo = 0
  /\ FbtSize \in Nat /\ MbufoSize \in Nat \ {0} /\ FbtBase \in Nat /\ FbtBase >= MbufoSize
  /\ Hvas \in [Buffers -> SUBSET (Nat \ {0})]
  /\ LastBound \in BOOLEAN /\ Programs \subseteq {"tidy", "careless"}
  /\ MaxMaps \in Nat /\ MaxWrites \in Nat

Idx == Buffers \cup {0}      \* 0 is bound to a target that has no buffer
None == -1                   \* no address, or contents that nobody wrote

-----------------------------------------------------------------------------
VARIABLES
  accel,      \* how the host and the program are configured
  program,    \* the kind of program
  bound,      \* the library's bindings
  mapped,     \* the library's mappings: host address, or None
  value,      \* the library's contents of the buffers that are not mapped
  hostMem,    \* host memory at the addresses of mappings
  BufIdx,     \* s->BufIdx
  listed,     \* the buffers that have an entry in pbufo
  ahead,      \* the entries in front of an entry
  bufo,       \* the entries
  szUsedBuf,  \* s->szUsedBuf
  slots,      \* KVM memory slots of the MBUFO area
  window,     \* the words of fbtm_ptr
  guest,      \* the guest's pointers and what it may do with them
  written,    \* the version the guest wrote last
  maps,       \* mappings made
  writes      \* writes made

config == <<accel, program>>
library == <<bound, mapped, value>>
table == <<listed, ahead, bufo>>
vars == <<config, library, hostMem, BufIdx, table, szUsedBuf, slots, window, guest, written, maps, writes>>

Word == Idx \X (Nat \cup {None})
\* GL_MAP_WRITE_BIT and GL_MAP_FLUSH_EXPLICIT_BIT, which needs the former.
Access == {acc \in [write : BOOLEAN, explicit : BOOLEAN] : acc.explicit => acc.write}
Blank == [tgt |-> NoTarget, hva |-> 0, gpa |-> 0, mused |-> 0, mapsz |-> 0,
          write |-> FALSE, explicit |-> FALSE, ocpy |-> FALSE]
NoPointer == [area |-> "none", at |-> 0, tgt |-> NoTarget, write |-> FALSE,
              explicit |-> FALSE, unflushed |-> FALSE]

Init ==
  /\ accel \in Accels /\ program \in Programs
  /\ bound = [t \in Targets |-> 0]
  /\ mapped = [b \in Buffers |-> None]
  /\ value = [b \in Buffers |-> 0]
  /\ hostMem = <<>>
  /\ BufIdx = 0
  /\ listed = {} /\ ahead = [x \in Idx |-> {}] /\ bufo = [x \in Idx |-> Blank]
  /\ szUsedBuf = 0
  /\ slots = {}
  /\ window = [a \in 0 .. FbtSize - 1 |-> <<0, 0>>]
  /\ guest = [b \in Buffers |-> NoPointer]
  /\ written = [b \in Buffers |-> 0]
  /\ maps = 0 /\ writes = 0

-----------------------------------------------------------------------------
(* Helpers of the code.                                                    *)

Align(x) == IF x % Bo # 0 THEN ((x \div Bo) + 1) * Bo ELSE x      \* ALIGNBO
PageOffset(x) == x % Page
PageFloor(x) == x - PageOffset(x)
PageCeil(x) == PageFloor(x + Page - 1)

\* MGLUpdateGuestBufo(bufo, _) # 0 and MGLUpdateGuestBufo(0, 0) # 0.
ZeroCopy(tgt) == accel = "all" \/ (accel = "unpack" /\ tgt = Unpack)
NoCopies == accel = "all"

\* LookupBufObj: the entry of x, and the table with it appended if it was missing.
Found(x) == IF x \in listed THEN bufo[x] ELSE Blank
Inserted(x, entry) ==
  /\ listed' = listed \cup {x}
  /\ ahead' = (IF x \in listed THEN ahead ELSE [ahead EXCEPT ![x] = listed])
  /\ bufo' = [bufo EXCEPT ![x] = entry]

\* Mutation: the entry stays in the table.
Blanked(x) == UNCHANGED <<listed, ahead>> /\ bufo' = [bufo EXCEPT ![x] = Blank]

\* FreeBufObj
Freed(x) ==
  /\ listed' = listed \ {x}
  /\ ahead' = [y \in Idx |-> IF y = x THEN {} ELSE ahead[y] \ {x}]
  /\ bufo' = [bufo EXCEPT ![x] = Blank]

\* Mutation: the mapping goes where its host address says.
BlindMapBufObjGpa(x, hva, mapsz) == hva % MbufoSize

\* MapBufObjGpa: where the mapping of entry x goes in the MBUFO area.  The result
\* is 0 when there is no room below nor above the entries in front of it.
MapBufObjGpa(x, hva, mapsz) ==
  LET front == IF x \in listed THEN ahead[x] ELSE listed
      size == Align(mapsz) + PageOffset(hva)
      lo == Min({MbufoSize - 1} \cup {PageFloor(bufo[y].gpa) : y \in front})
      hi == Max({0} \cup {PageFloor(bufo[y].gpa + bufo[y].mapsz + PageOffset(bufo[y].hva)) :
                            y \in front})
      gpa == hva % MbufoSize
  IN  IF front = {} \/ gpa + size < lo \/ gpa >= hi THEN gpa
      ELSE IF lo > size THEN lo - size
      ELSE IF hi + size < MbufoSize THEN hi ELSE 0

\* The slot kvm_update_guest_pa_range is called for.
Slot(e) == [start |-> PageFloor(e.gpa % MbufoSize), size |-> PageCeil(e.mapsz + PageOffset(e.hva)),
            host |-> PageFloor(e.hva)]

\* Mutation: the copy ends where the region ends.
UnalignedFilled(b, tgt, used) ==
  LET at == FbtSize - used - Size[b]
  IN  [a \in DOMAIN window |->
         IF tgt # Unpack /\ a \in at .. at + Size[b] - 1 THEN <<b, value[b]>> ELSE window[a]]

\* Mutation: the contents go above the region.
FilledAbove(b, tgt, used) ==
  LET at == FbtSize - used
  IN  [a \in DOMAIN window |->
         IF tgt # Unpack /\ a \in at .. at + Size[b] - 1 THEN <<b, value[b]>> ELSE window[a]]

\* wrFillBufObj: the words of the window after the contents of buffer b were
\* copied to its end, `used` words below the top.
Filled(b, tgt, used) ==
  LET at == FbtSize - used - Align(Size[b])
  IN  IF NoCopies \/ tgt = Unpack THEN window
      ELSE [a \in DOMAIN window |->
              IF a \in at .. at + Size[b] - 1 THEN <<b, value[b]>> ELSE window[a]]

\* Mutation: nothing is written back for a pixel-unpack buffer, which is not filled either.
UnpackNotFlushed(e) ==
  IF e.tgt = Unpack \/ ~e.ocpy THEN hostMem
  ELSE LET at == e.gpa - FbtBase - Align(e.mapsz)
       IN  [a \in DOMAIN hostMem |->
              IF a - e.hva \in 0 .. e.mapsz - 1 THEN window[at + a - e.hva] ELSE hostMem[a]]

\* Mutation: what is above the region is written back.
FlushedAbove(e) ==
  IF e.hva = 0 \/ ~e.ocpy THEN hostMem
  ELSE [a \in DOMAIN hostMem |->
          IF a - e.hva \in 0 .. e.mapsz - 1 /\ (e.gpa - FbtBase + a - e.hva) \in DOMAIN window
          THEN window[e.gpa - FbtBase + a - e.hva] ELSE hostMem[a]]

\* wrFlushBufObj: host memory after the guest's copy was written back.
Flushed(e) ==
  IF NoCopies \/ e.hva = 0 \/ ~e.ocpy THEN hostMem
  ELSE LET at == e.gpa - FbtBase - Align(e.mapsz)
       IN  [a \in DOMAIN hostMem |->
              IF a - e.hva \in 0 .. e.mapsz - 1 /\ (at + a - e.hva) \in DOMAIN window
              THEN window[at + a - e.hva] ELSE hostMem[a]]

\* Mutation: the region is popped wherever it is in the stack.
AlwaysPopped(e) == szUsedBuf - Align(e.mapsz)

\* Mutation: a region remembers the height above it and pops one too many.
PoppedTwice(e) ==
  IF szUsedBuf = e.mused + Align(e.mapsz) THEN e.mused - Align(e.mapsz) ELSE szUsedBuf

\* szUsedBuf after the unmap: only the topmost region is given back.
Popped(e) ==
  IF szUsedBuf = e.mused + Align(e.mapsz) THEN e.mused ELSE szUsedBuf

\* The contents of buffer b when the library unmaps it from host address hva.
Contents(b, hva, mem) ==
  LET words == {mem[a] : a \in hva .. hva + Size[b] - 1}
  IN  IF \E w \in words : words = {w} /\ w[1] = b THEN (CHOOSE w \in words : TRUE)[2] ELSE None

-----------------------------------------------------------------------------
(* The calls, with what the library does in between (processArgs, the call, *)
(* processFRet).                                                            *)

Bind(t, b) ==
  /\ bound' = [bound EXCEPT ![t] = b]
  /\ BufIdx' = b
  /\ UNCHANGED <<config, mapped, value, hostMem, table, szUsedBuf, slots, window, guest, written, maps, writes>>

\* The buffer a call on target t is about; the device takes it to be BufIdx.
Usable(t) == bound[t] # 0 /\ (LastBound => BufIdx = bound[t])

\* Host addresses at which the library can map a buffer of n words.
Free(h, n) == (h .. h + n - 1) \cap DOMAIN hostMem = {}

\* glMapBuffer and glMapBufferRange of the buffer bound to t; the library maps it at hva.
Map(t, acc, hva) ==
  LET b == bound[t]
      used == IF szUsedBuf > FbtSize THEN FbtSize ELSE szUsedBuf    \* SZFBT_VALID
      entry == [tgt |-> t, hva |-> hva, mused |-> szUsedBuf, mapsz |-> Size[b],
                write |-> acc.write, explicit |-> acc.explicit,
                gpa |-> IF ZeroCopy(t) THEN MapBufObjGpa(BufIdx, hva, Size[b])
                        ELSE FbtBase + FbtSize - used,
                ocpy |-> Found(BufIdx).ocpy \/ ~ZeroCopy(t)]
      pointer == [area |-> IF ZeroCopy(t) THEN "mbufo" ELSE "window",
                  at |-> IF ZeroCopy(t) THEN entry.gpa ELSE FbtSize - (used + Align(Size[b])),
                  tgt |-> t, write |-> acc.write, explicit |-> acc.explicit, unflushed |-> FALSE]
  IN  /\ Usable(t) /\ mapped[b] = None /\ maps < MaxMaps
      /\ hva \in Hvas[b] /\ Free(hva, Size[b])
      /\ window' = Filled(b, t, szUsedBuf)
      /\ Inserted(BufIdx, entry)
      /\ slots' = (IF ZeroCopy(t) THEN slots \cup {Slot(entry)} ELSE slots)
      /\ szUsedBuf' = (IF ZeroCopy(t) THEN used ELSE used + Align(Size[b]))
      /\ guest' = [guest EXCEPT ![b] = pointer]
      /\ mapped' = [mapped EXCEPT ![b] = hva]
      /\ hostMem' = [a \in DOMAIN hostMem \cup hva .. hva + Size[b] - 1 |->
                       IF a \in DOMAIN hostMem THEN hostMem[a] ELSE <<b, value[b]>>]
      /\ maps' = maps + 1
      /\ UNCHANGED <<config, bound, value, BufIdx, written, writes>>

\* glFlushMappedBufferRange of an explicitly flushed mapping, and the APPLE one,
\* after which an unmap copies nothing.
FlushRange(t, apple) ==
  LET b == bound[t]
      entry == [Found(BufIdx) EXCEPT !.tgt = t, !.explicit = @ \/ apple]
  IN  /\ Usable(t) /\ mapped[b] # None /\ guest[b].unflushed
      /\ apple \/ guest[b].explicit
      /\ LastBound => guest[b].tgt = t
      /\ hostMem' = Flushed(Found(BufIdx))
      /\ Inserted(BufIdx, entry)
      /\ guest' = [guest EXCEPT ![b].unflushed = FALSE, ![b].explicit = @ \/ apple]
      /\ UNCHANGED <<config, library, BufIdx, szUsedBuf, slots, window, written, maps, writes>>

\* A program that flushes itself has flushed what it wrote; one that maps a
\* pixel-unpack buffer for writing writes it (the device does not fill it).
MayUnmap(b) ==
  /\ mapped[b] # None
  /\ guest[b].explicit => ~guest[b].unflushed
  /\ (guest[b].tgt = Unpack /\ guest[b].write) => guest[b].unflushed \/ guest[b].explicit

\* glUnmapBuffer
Unmap(t) ==
  LET b == bound[t]
      entry == Found(BufIdx)
      mem == IF entry.write /\ ~entry.explicit THEN Flushed(entry) ELSE hostMem
      used == IF ZeroCopy(entry.tgt) THEN szUsedBuf ELSE Popped(entry)
  IN  /\ Usable(t) /\ MayUnmap(b)
      /\ value' = [value EXCEPT ![b] = Contents(b, mapped[b], mem)]
      /\ hostMem' = [a \in DOMAIN mem \ (mapped[b] .. mapped[b] + Size[b] - 1) |-> mem[a]]
      /\ mapped' = [mapped EXCEPT ![b] = None]
      /\ guest' = [guest EXCEPT ![b] = NoPointer]
      /\ slots' = (IF ZeroCopy(entry.tgt)
                   THEN {s \in slots : s.start # Slot(entry).start \/ s.size # Slot(entry).size}
                   ELSE slots)
      /\ Freed(BufIdx)
      /\ szUsedBuf' = (IF listed \ {BufIdx} = {} THEN 0 ELSE used)
      /\ UNCHANGED <<config, bound, BufIdx, window, written, maps, writes>>

\* Where the library has buffer b mapped.
HostRange(b) == mapped[b] .. mapped[b] + Size[b] - 1

\* What the library forgets when buffer names cs go away.
Forget(cs) ==
  /\ bound' = [t \in Targets |-> IF bound[t] \in cs THEN 0 ELSE bound[t]]
  /\ mapped' = [b \in Buffers |-> IF b \in cs THEN None ELSE mapped[b]]
  /\ value' = [b \in Buffers |-> IF b \in cs THEN 0 ELSE value[b]]
  /\ written' = [b \in Buffers |-> IF b \in cs THEN 0 ELSE written[b]]
  /\ guest' = [b \in Buffers |-> IF b \in cs THEN NoPointer ELSE guest[b]]
  /\ hostMem' = [a \in DOMAIN hostMem \ UNION {HostRange(b) : b \in {c \in cs : mapped[c] # None}}
                  |-> hostMem[a]]

MayForget(cs) == program = "tidy" => \A b \in cs : mapped[b] = None

\* glDeleteBuffers: the table keeps the entry of a buffer that was still mapped.
Delete(b) ==
  /\ MayForget({b})
  /\ Forget({b})
  /\ UNCHANGED <<config, BufIdx, table, szUsedBuf, slots, window, maps, writes>>

\* ContextCreateCommon: a new context, the buffers of the old one are gone.
NewContext ==
  /\ MayForget(Buffers)
  /\ Forget(Buffers)
  /\ szUsedBuf' = 0
  /\ listed' = {} /\ ahead' = [x \in Idx |-> {}] /\ bufo' = [x \in Idx |-> Blank]   \* InitBufObj
  /\ UNCHANGED <<config, BufIdx, slots, window, maps, writes>>

-----------------------------------------------------------------------------
(* The guest's own loads and stores.                                       *)

\* The host addresses behind word k of a guest pointer into the MBUFO area.
Behind(b, k) ==
  {s.host + guest[b].at + k - s.start :
     s \in {x \in slots : guest[b].at + k \in x.start .. x.start + x.size - 1}}

\* The words the guest reads through its pointer.
Seen(b) ==
  LET words == 0 .. Size[b] - 1
  IN  IF guest[b].area = "window"
      THEN {window[guest[b].at + k] : k \in {x \in words : guest[b].at + x \in DOMAIN window}}
      ELSE {hostMem[a] : a \in DOMAIN hostMem \cap UNION {Behind(b, k) : k \in words}}

\* A program writes the whole of a buffer that it has mapped.
Write(b) ==
  LET word == <<b, writes + 1>>
      words == 0 .. Size[b] - 1
  IN  /\ mapped[b] # None /\ guest[b].write /\ writes < MaxWrites
      /\ IF guest[b].area = "window"
         THEN /\ window' = [a \in DOMAIN window |->
                              IF a - guest[b].at \in words THEN word ELSE window[a]]
              /\ UNCHANGED hostMem
         ELSE /\ hostMem' = [a \in DOMAIN hostMem |->
                               IF a \in UNION {Behind(b, k) : k \in words} THEN word
                               ELSE hostMem[a]]
              /\ UNCHANGED window
      /\ written' = [written EXCEPT ![b] = writes + 1]
      /\ guest' = [guest EXCEPT ![b].unflushed = TRUE]
      /\ writes' = writes + 1
      /\ UNCHANGED <<config, library, BufIdx, table, szUsedBuf, slots, maps>>

Next ==
  \/ \E t \in Targets, b \in Idx : Bind(t, b)
  \/ \E t \in Targets, acc \in Access, hva \in UNION Range(Hvas) : Map(t, acc, hva)
  \/ \E t \in Targets, apple \in BOOLEAN : FlushRange(t, apple)
  \/ \E t \in Targets : Unmap(t)
  \/ \E b \in Buffers : Delete(b) \/ Write(b)
  \/ NewContext

Spec == Init /\ [][Next]_vars

-----------------------------------------------------------------------------
(* Properties.                                                             *)

\* The variables have the types of the C declarations.
TypeOK ==
  /\ accel \in Accels /\ program \in Programs
  /\ bound \in [Targets -> Idx] /\ BufIdx \in Idx
  /\ mapped \in [Buffers -> Nat \cup {None}]
  /\ value \in [Buffers -> Nat \cup {None}]
  /\ DOMAIN hostMem \subseteq Nat /\ \A a \in DOMAIN hostMem : hostMem[a] \in Word
  /\ listed \subseteq Idx
  /\ ahead \in [Idx -> SUBSET Idx]
  /\ bufo \in [Idx -> [tgt : Targets \cup {NoTarget}, hva : Nat, gpa : Nat, mused : Nat, mapsz : Nat,
                       write : BOOLEAN, explicit : BOOLEAN, ocpy : BOOLEAN]]
  /\ szUsedBuf \in Nat
  /\ slots \subseteq [start : Nat, size : Nat, host : Nat]
  /\ window \in [0 .. FbtSize - 1 -> Word]
  /\ guest \in [Buffers -> [area : {"none", "window", "mbufo"}, at : Int,
                            tgt : Targets \cup {NoTarget}, write : BOOLEAN,
                            explicit : BOOLEAN, unflushed : BOOLEAN]]
  /\ written \in [Buffers -> Nat]
  /\ maps \in Nat /\ writes \in Nat

InWindow(b) == guest[b].area = "window"
Region(b) == guest[b].at .. guest[b].at + Align(Size[b]) - 1

\* Two buffers mapped at the same time never share words of the window: szUsedBuf
\* stays at or above every live region, in whatever order they are unmapped.
OwnRegion ==
  \A b, c \in Buffers :
    (b # c /\ InWindow(b) /\ InWindow(c)) => Region(b) \cap Region(c) = {}

\* What the guest reads through the pointer of glMapBuffer is the buffer, with its
\* own last writes; a pixel-unpack buffer is not filled in one-copy mode.
ReadsCurrent ==
  \A b \in Buffers :
    (guest[b].area # "none" /\ (InWindow(b) /\ guest[b].tgt = Unpack => guest[b].unflushed))
      => Seen(b) = {<<b, written[b]>>}

\* What the guest wrote before it unmapped a buffer is in the buffer.
NoLostWrite == \A b \in Buffers : mapped[b] = None => value[b] = written[b]

\* When a tidy program has nothing mapped, nothing of the window, of the table or of
\* the guest's physical memory is still taken.
Reclaimed ==
  (program = "tidy" /\ \A b \in Buffers : mapped[b] = None)
    => szUsedBuf = 0 /\ listed = {} /\ slots = {}

\* Two KVM slots never overlap (KVM refuses such a slot and QEMU aborts), and they
\* stay inside the MBUFO area.
SlotsDisjoint ==
  \A s \in slots :
    /\ s.start + s.size <= MbufoSize
    /\ \A r \in slots : s # r => s.start + s.size <= r.start \/ r.start + r.size <= s.start

\* What processFRet reports as "GL buffer object contention": the entry a buffer is
\* mapped through is that of another mapping.
NoContention == [][\A t \in Targets, acc \in Access, h \in UNION Range(Hvas) :
                     Map(t, acc, h) => Found(BufIdx).hva = 0]_vars

=============================================================================
