------------------------ MODULE MappedBuffersProofs ------------------------
(***************************************************************************)
(* Proofs about MappedBuffers, for any buffers, sizes and host addresses.  *)
(* Types hold of every program.  The rest is for programs that map the     *)
(* buffer they bound last (LastBound) and, as far as one-copy mappings are *)
(* concerned, for a window that has room for them all; zero-copy mappings  *)
(* are those of tidy programs, at page-aligned host addresses (Paged), for *)
(* which MapBufObjGpa found a place (HasPlace).                            *)
(*                                                                         *)
(* OwnRegion is not inductive: an unmap gives a region back only when it   *)
(* is the topmost one of the stack, and what keeps the others apart from   *)
(* the next is that all of them end below szUsedBuf and that the entry of  *)
(* the table remembers where each one began.  SlotsDisjoint needs every    *)
(* slot to be that of a mapping, which a tidy program's table lists, so    *)
(* that MapBufObjGpa has seen them all.  ReadsCurrent and NoLostWrite need *)
(* each other, and both the host memory behind the mappings.               *)
(***************************************************************************)
EXTENDS MappedBuffers, FiniteSetTheorems, WellFoundedInduction, TLAPS

-----------------------------------------------------------------------------
(* The inductive invariants.                                               *)

Targeted == Targets \union {NoTarget}
Entries == [tgt : Targeted, hva : Nat, gpa : Nat, mused : Nat, mapsz : Nat,
            write : BOOLEAN, explicit : BOOLEAN, ocpy : BOOLEAN]
Pointers == [area : {"none", "window", "mbufo"}, at : Int, tgt : Targeted,
             write : BOOLEAN, explicit : BOOLEAN, unflushed : BOOLEAN]
SlotType == [start : Nat, size : Nat, host : Nat]

LibraryTypes ==
  /\ bound \in [Targets -> Idx] /\ BufIdx \in Idx
  /\ mapped \in [Buffers -> Nat \union {None}]
  /\ value \in [Buffers -> Nat \union {None}]
  /\ written \in [Buffers -> Nat]
TableTypes ==
  /\ listed \subseteq Idx /\ ahead \in [Idx -> SUBSET Idx] /\ bufo \in [Idx -> Entries]
  /\ szUsedBuf \in Nat /\ slots \subseteq SlotType
MemoryTypes ==
  /\ DOMAIN hostMem \subseteq Nat /\ \A a \in DOMAIN hostMem : hostMem[a] \in Word
  /\ window \in [0 .. FbtSize - 1 -> Word]
GuestTypes ==
  /\ guest \in [Buffers -> Pointers]
  /\ maps \in Nat /\ writes \in Nat
  /\ accel \in Accels /\ program \in Programs

\* The library's mappings are apart, and in host memory.
Live(b) == mapped[b] # None
HostInv ==
  \A b \in Buffers : Live(b) =>
    /\ HostRange(b) \subseteq DOMAIN hostMem
    /\ \A c \in Buffers : b # c /\ Live(c) => HostRange(b) \cap HostRange(c) = {}

TInv == LibraryTypes /\ TableTypes /\ MemoryTypes /\ GuestTypes /\ HostInv

\* Of a program that calls about the buffer it bound last, the table's entry of a
\* mapped buffer is that of its mapping, and the guest holds no other pointers.
EntryIsMapping(b) ==
  /\ b \in listed /\ mapped[b] # 0
  /\ bufo[b].hva = mapped[b] /\ bufo[b].mapsz = Size[b] /\ bufo[b].tgt = guest[b].tgt
  /\ bufo[b].write = guest[b].write /\ bufo[b].explicit = guest[b].explicit
  /\ guest[b].area = (IF ZeroCopy(bufo[b].tgt) THEN "mbufo" ELSE "window")
  /\ ~ZeroCopy(bufo[b].tgt) => bufo[b].ocpy = TRUE
  /\ guest[b].unflushed = TRUE => guest[b].write = TRUE
LiveInv ==
  \A b \in Buffers : IF Live(b) THEN EntryIsMapping(b) ELSE guest[b] = NoPointer

\* A region of the window is between mused and Top, counted from the window's end;
\* regions are apart and below szUsedBuf.
Top(b) == bufo[b].mused + Align(Size[b])
Stacked(b) ==
  /\ Top(b) <= szUsedBuf
  /\ guest[b].at = FbtSize - Top(b)
  /\ bufo[b].gpa = FbtBase + FbtSize - bufo[b].mused
StackInv ==
  \A b \in Buffers : InWindow(b) =>
    /\ Stacked(b)
    /\ \A c \in Buffers :
         b # c /\ InWindow(c) => Top(b) <= bufo[c].mused \/ Top(c) <= bufo[b].mused

\* A tidy program's table holds its mappings and nothing else.
Slotted == {b \in Buffers : Live(b) /\ ZeroCopy(bufo[b].tgt)}
TidyInv ==
  program = "tidy" =>
    /\ \A b \in listed : b \in Buffers /\ Live(b)
    /\ \A s \in slots : \E b \in Slotted : s = Slot(bufo[b])

\* The stack goes with the last entry.
Grounded == listed = {} => szUsedBuf = 0

EInv == LiveInv /\ TidyInv /\ Grounded

\* The window has room for what is mapped.  Only the regions need it.
HasRoom == szUsedBuf <= FbtSize

\* No zero-copy mapping is at the start of the MBUFO area, the answer of MapBufObjGpa
\* when it finds no room.
HasPlace == \A b \in Slotted : bufo[b].gpa # 0

\* A zero-copy mapping has whole pages of the MBUFO area for itself, and a slot there.
OwnSlot(b) == [start |-> bufo[b].gpa, size |-> Size[b], host |-> mapped[b]]
WellPlaced(b) ==
  /\ bufo[b].gpa % Page = 0 /\ mapped[b] % Page = 0
  /\ bufo[b].gpa + Size[b] <= MbufoSize
  /\ bufo[b].ocpy = FALSE /\ guest[b].at = bufo[b].gpa
  /\ OwnSlot(b) \in slots
PlaceInv ==
  \A b \in Slotted :
    /\ WellPlaced(b)
    /\ \A c \in Slotted : b # c => \/ bufo[b].gpa + Size[b] <= bufo[c].gpa
                                   \/ bufo[c].gpa + Size[c] <= bufo[b].gpa

\* Both copies of a buffer hold what the guest wrote last, except where the other one
\* is about to be copied over it: the library's after a store to the window, until it is
\* flushed; the window of a pixel-unpack buffer, which is not filled, until a store.
HostIs(b) == \A a \in HostRange(b) : hostMem[a] = <<b, written[b]>>
WindowIs(b) == \A k \in 0 .. Size[b] - 1 : window[guest[b].at + k] = <<b, written[b]>>
MemInv ==
  \A b \in Buffers :
    /\ Live(b) /\ (InWindow(b) => guest[b].unflushed = FALSE) => HostIs(b)
    /\ InWindow(b) /\ (guest[b].tgt = Unpack => guest[b].unflushed = TRUE) => WindowIs(b)
    /\ ~Live(b) => value[b] = written[b]

\* What a step keeps.
Kept == EInv' /\ (HasRoom /\ StackInv => StackInv')

\* The parts are TypeOK.
LEMMA TypesAreTypeOK == TInv => TypeOK
  BY DEF TInv, LibraryTypes, TableTypes, MemoryTypes, GuestTypes, TypeOK, Targeted, Entries,
         Pointers, SlotType

-----------------------------------------------------------------------------
(* Arithmetic of the code.                                                 *)

\* A set of numbers has a least one.
LEMMA LeastOf ==
  ASSUME NEW S \in SUBSET Nat, S # {}
  PROVE  \E x \in S : \A y \in S : x <= y
<1> DEFINE less == OpToRel(<, Nat)
<1>1. IsWellFoundedOn(less, Nat)
  BY NatLessThanWellFounded
<1>2. PICK x \in S : \A y \in S : <<y, x>> \notin less
  <2> HIDE DEF less
  <2> QED
    BY <1>1, WFMin
<1>3. \A m, n \in Nat : m < n => <<m, n>> \in less
  BY DEF OpToRel
<1> HIDE DEF less
<1>4. ASSUME NEW y \in S PROVE x <= y
  <2>1. x \in Nat /\ y \in Nat /\ ~(y < x)
    BY <1>2, <1>3
  <2> QED
    BY <2>1
<1> QED
  BY <1>4

\* A finite one has a greatest one.
LEMMA GreatestOf ==
  ASSUME NEW S \in SUBSET Nat, S # {}, IsFiniteSet(S)
  PROVE  \E x \in S : \A y \in S : x >= y
<1> DEFINE Has(T) == \E x \in T : \A y \in T : x >= y
           Bad(n) == \E T \in SUBSET Nat :
                       T # {} /\ IsFiniteSet(T) /\ Cardinality(T) = n /\ ~Has(T)
           bad == {n \in Nat : Bad(n)}
<1>1. SUFFICES ASSUME ~Has(S) PROVE FALSE
  OBVIOUS
<1>2. bad # {}
  <2>1. Cardinality(S) \in Nat
    BY FS_CardinalityType
  <2> QED
    BY <1>1, <2>1
<1>3. PICK n \in bad : \A m \in bad : n <= m
  <2> HIDE DEF bad
  <2>1. bad \in SUBSET Nat
    BY DEF bad
  <2> QED
    BY <1>2, <2>1, LeastOf
<1>4. PICK T \in SUBSET Nat : T # {} /\ IsFiniteSet(T) /\ Cardinality(T) = n /\ ~Has(T)
  BY <1>3
<1>5. PICK x \in T : TRUE
  BY <1>4
<1> DEFINE U == T \ {x}
<1>6. IsFiniteSet(U) /\ Cardinality(U) = n - 1 /\ Cardinality(U) \in Nat
  BY <1>4, <1>5, FS_RemoveElement, FS_CardinalityType
<1>7. CASE U = {}
  BY <1>4, <1>5, <1>7
<1>8. CASE U # {}
  <2>1. Has(U)
    <3>1. n - 1 \in Nat /\ ~(n <= n - 1)
      BY <1>3, <1>6
    <3> QED
      BY <1>3, <1>6, <1>8, <3>1
  <2>2. PICK y \in U : \A z \in U : y >= z
    BY <2>1
  <2>3. x >= y \/ y >= x
    BY <1>5, <2>2
  <2>4. \A z \in T : z = x \/ z \in U
    OBVIOUS
  <2>5. CASE x >= y
    <3>1. \A z \in T : x >= z
      BY <1>5, <2>2, <2>4, <2>5
    <3> QED
      BY <1>4, <1>5, <3>1
  <2>6. CASE y >= x
    <3>1. \A z \in T : y >= z
      BY <1>5, <2>2, <2>4, <2>6
    <3> QED
      BY <1>4, <2>2, <3>1
  <2> QED
    BY <2>3, <2>5, <2>6
<1> QED
  BY <1>7, <1>8

\* What the rounding does.
LEMMA Rounding ==
  ASSUME NEW x \in Nat
  PROVE  /\ Align(x) \in Nat /\ Align(x) >= x
         /\ PageOffset(x) \in Nat /\ PageFloor(x) \in Nat /\ PageCeil(x) \in Nat
<1>1. Bo \in Nat \ {0} /\ Page \in Nat \ {0}
  BY ConstantsAssumption
<1>2. Align(x) \in Nat /\ Align(x) >= x
  <2>1. \A q, r, n \in Nat : x = n * q + r /\ r < n => (q + 1) * n \in Nat /\ (q + 1) * n >= x
    OBVIOUS
  <2>2. x \div Bo \in Nat /\ x % Bo \in Nat /\ x % Bo < Bo /\ x = Bo * (x \div Bo) + (x % Bo)
    BY <1>1
  <2> QED
    BY <1>1, <2>1, <2>2 DEF Align
<1>3. \A y \in Nat : y % Page \in Nat /\ y - (y % Page) \in Nat
  BY <1>1
<1>4. x + Page - 1 \in Nat
  BY <1>1
<1> QED
  BY <1>2, <1>3, <1>4 DEF PageOffset, PageFloor, PageCeil

\* Where the mappings in front of entry x begin and end in the MBUFO area.
Front(x) == IF x \in listed THEN ahead[x] ELSE listed
Starts(x) == {MbufoSize - 1} \cup {PageFloor(bufo[y].gpa) : y \in Front(x)}
EndOf(y) == PageFloor(bufo[y].gpa + bufo[y].mapsz + PageOffset(bufo[y].hva))
Ends(x) == {0} \cup {EndOf(y) : y \in Front(x)}
Length(hva, mapsz) == Align(mapsz) + PageOffset(hva)
Own(hva) == hva % MbufoSize
PlaceBetween(x, lo, hi, hva, mapsz) ==
  IF Front(x) = {} \/ Own(hva) + Length(hva, mapsz) < lo \/ Own(hva) >= hi THEN Own(hva)
  ELSE IF lo > Length(hva, mapsz) THEN lo - Length(hva, mapsz)
  ELSE IF hi + Length(hva, mapsz) < MbufoSize THEN hi ELSE 0

\* MapBufObjGpa finds the least of the one and the greatest of the other.
LEMMA GpaIs ==
  ASSUME TableTypes, NEW x \in Idx
  PROVE  \E lo \in Starts(x), hi \in Ends(x) :
           /\ lo \in Nat /\ \A s \in Starts(x) : s \in Nat /\ lo <= s
           /\ hi \in Nat /\ \A e \in Ends(x) : e \in Nat /\ hi >= e
           /\ \A hva, mapsz : MapBufObjGpa(x, hva, mapsz) = PlaceBetween(x, lo, hi, hva, mapsz)
<1> DEFINE front == Front(x)
           below == Starts(x)
           above == Ends(x)
<1>1. MbufoSize \in Nat \ {0}
  BY ConstantsAssumption
<1>2. front \subseteq Idx /\ \A y \in front : bufo[y] \in Entries
  BY DEF TableTypes, Front
<1>3. \A y \in front : bufo[y].gpa \in Nat /\ bufo[y].mapsz \in Nat /\ bufo[y].hva \in Nat
  BY <1>2 DEF Entries
<1>4. IsFiniteSet(front)
  <2>1. IsFiniteSet(Buffers)
    BY ConstantsAssumption
  <2>2. IsFiniteSet(Idx)
    BY <2>1, FS_AddElement DEF Idx
  <2> QED
    BY <1>2, <2>2, FS_Subset
<1>5. \A y \in front : PageFloor(bufo[y].gpa) \in Nat /\ EndOf(y) \in Nat
  <2> TAKE y \in front
  <2> HIDE DEF front
  <2>1. PageOffset(bufo[y].hva) \in Nat
    BY <1>3, Rounding
  <2>2. bufo[y].gpa + bufo[y].mapsz + PageOffset(bufo[y].hva) \in Nat
    BY <1>3, <2>1
  <2> QED
    BY <1>3, <2>2, Rounding DEF EndOf
<1>6. below \in SUBSET Nat /\ MbufoSize - 1 \in below
  BY <1>1, <1>5 DEF Starts
<1>7. above \in SUBSET Nat /\ 0 \in above
  BY <1>5 DEF Ends
<1>8. Min(below) \in below /\ \A v \in below : Min(below) <= v
  <2> HIDE DEF below
  <2>1. \E v \in below : \A w \in below : v <= w
    BY <1>6, LeastOf
  <2> QED
    BY <2>1 DEF Min
<1>9. Max(above) \in above /\ \A v \in above : Max(above) >= v
  <2>1. IsFiniteSet(above)
    <3> DEFINE fn == [y \in front |-> EndOf(y)]
               image == {fn[y] : y \in front}
    <3>1. IsFiniteSet(image)
      <4> HIDE DEF fn, front
      <4>1. fn \in Surjection(front, image)
        BY DEF Surjection, fn
      <4> QED
        BY <1>4, <4>1, FS_Surjection
    <3>2. above = image \cup {0}
      BY DEF Ends
    <3> HIDE DEF image, above
    <3> QED
      BY <3>1, <3>2, FS_AddElement
  <2> HIDE DEF above
  <2>2. \E v \in above : \A w \in above : v >= w
    BY <1>7, <2>1, GreatestOf
  <2> QED
    BY <2>2 DEF Max
<1>10. \A hva, mapsz :
         MapBufObjGpa(x, hva, mapsz) = PlaceBetween(x, Min(below), Max(above), hva, mapsz)
  BY DEF MapBufObjGpa, PlaceBetween, Front, Starts, Ends, EndOf, Length, Own
<1> HIDE DEF below, above
<1>11. \A v \in below : v \in Nat /\ Min(below) <= v
  BY <1>6, <1>8
<1>12. \A v \in above : v \in Nat /\ Max(above) >= v
  BY <1>7, <1>9
<1>13. below = Starts(x) /\ above = Ends(x)
  BY DEF below, above
<1>14. Min(below) \in Nat /\ Max(above) \in Nat
  BY <1>8, <1>9, <1>11, <1>12
<1> QED
  BY <1>8, <1>9, <1>10, <1>11, <1>12, <1>13, <1>14

\* The result is an address.
LEMMA GpaTypes ==
  ASSUME TableTypes, NEW x \in Idx, NEW hva \in Nat, NEW mapsz \in Nat
  PROVE  MapBufObjGpa(x, hva, mapsz) \in Nat
<1>1. PICK lo \in Nat, hi \in Nat :
        MapBufObjGpa(x, hva, mapsz) = PlaceBetween(x, lo, hi, hva, mapsz)
  BY GpaIs
<1>2. Length(hva, mapsz) \in Nat
  <2>1. Align(mapsz) \in Nat /\ PageOffset(hva) \in Nat
    BY Rounding
  <2> QED
    BY <2>1 DEF Length
<1>3. Own(hva) \in Nat /\ MbufoSize \in Nat
  BY ConstantsAssumption DEF Own
<1> QED
  BY <1>1, <1>2, <1>3 DEF PlaceBetween

\* The remainder is the only one.
LEMMA RemainderIs ==
  ASSUME NEW n \in Nat \ {0}, NEW q \in Int, NEW r \in Nat, r < n, n * q + r \in Nat
  PROVE  (n * q + r) % n = r
<1> DEFINE x == n * q + r
           k == x \div n
           m == x % n
<1>1. x \in Nat /\ k \in Int /\ m \in Nat /\ m < n /\ x = n * k + m
  OBVIOUS
<1> HIDE DEF k, m
<1>2. n * q + r = n * k + m
  BY <1>1
<1>3. CASE k = q
  BY <1>1, <1>2, <1>3 DEF m
<1>4. ASSUME NEW d \in Nat, k = q + 1 + d PROVE FALSE
  <2>1. n * k = n * q + n + n * d /\ n * d \in Nat
    BY <1>4
  <2> QED
    BY <1>1, <1>2, <2>1
<1>5. ASSUME NEW d \in Nat, q = k + 1 + d PROVE FALSE
  <2>1. n * q = n * k + n + n * d /\ n * d \in Nat
    BY <1>1, <1>5
  <2> QED
    BY <1>1, <1>2, <2>1
<1>6. CASE k > q
  <2>1. k - q - 1 \in Nat /\ k = q + 1 + (k - q - 1)
    BY <1>1, <1>6
  <2> QED
    BY <1>4, <2>1
<1>7. CASE q > k
  <2>1. q - k - 1 \in Nat /\ q = k + 1 + (q - k - 1)
    BY <1>1, <1>7
  <2> QED
    BY <1>5, <2>1
<1> QED
  BY <1>1, <1>3, <1>6, <1>7

\* Multiples of n: what makes one, and what it is made of.
LEMMA Multiples ==
  ASSUME NEW n \in Nat \ {0}, NEW x \in Nat
  PROVE  /\ \A q \in Int : x = n * q => x % n = 0
         /\ x % n = 0 => x = n * (x \div n) /\ x \div n \in Int
         /\ (x - (x % n)) % n = 0 /\ x - (x % n) \in Nat /\ x - (x % n) <= x
<1>1. \A q \in Int : x = n * q => x % n = 0
  <2> TAKE q \in Int
  <2> HAVE x = n * q
  <2>1. n * q + 0 = x
    OBVIOUS
  <2>2. (n * q + 0) % n = 0
    BY <2>1, RemainderIs
  <2> QED
    BY <2>1, <2>2
<1>2. x = n * (x \div n) + (x % n) /\ x \div n \in Int /\ x % n \in Nat
  OBVIOUS
<1>3. x - (x % n) = n * (x \div n) + 0 /\ x - (x % n) \in Nat /\ x - (x % n) <= x
  BY <1>2
<1>4. (n * (x \div n) + 0) % n = 0
  BY <1>2, <1>3, RemainderIs
<1>5. x % n = 0 => x = n * (x \div n)
  BY <1>2
<1> QED
  BY <1>1, <1>2, <1>3, <1>4, <1>5

\* Sums and differences of whole pages.
LEMMA WholePages ==
  ASSUME NEW n \in Nat \ {0}, NEW x \in Nat, NEW y \in Nat, x % n = 0, y % n = 0
  PROVE  (x + y) % n = 0 /\ (x >= y => (x - y) % n = 0)
<1>1. PICK p \in Int, q \in Int : x = n * p /\ y = n * q
  BY Multiples
<1>2. x + y = n * (p + q) /\ x - y = n * (p - q) /\ p + q \in Int /\ p - q \in Int
  BY <1>1
<1>3. x + y \in Nat /\ (x >= y => x - y \in Nat)
  OBVIOUS
<1>4. (x + y) % n = 0
  BY <1>2, <1>3, Multiples
<1>5. x >= y => (x - y) % n = 0
  BY <1>2, <1>3, Multiples
<1> QED
  BY <1>4, <1>5

\* What is whole pages is not rounded.
LEMMA PagesStay ==
  ASSUME NEW x \in Nat, x % Page = 0
  PROVE  PageOffset(x) = 0 /\ PageFloor(x) = x /\ PageCeil(x) = x /\ Align(x) = x
<1>1. Bo \in Nat \ {0} /\ Page \in Nat \ {0} /\ Page % Bo = 0
  BY ConstantsAssumption
<1>2. PageOffset(x) = 0 /\ PageFloor(x) = x
  BY DEF PageOffset, PageFloor
<1>3. PageCeil(x) = x
  <2>1. x = Page * (x \div Page) /\ x \div Page \in Int
    BY <1>1, Multiples
  <2>2. Page * (x \div Page) + (Page - 1) = x + Page - 1
    BY <1>1, <2>1
  <2>3. (x + Page - 1) % Page = Page - 1
    <3>1. Page - 1 \in Nat /\ Page - 1 < Page /\ x + Page - 1 \in Nat
      BY <1>1
    <3>2. (Page * (x \div Page) + (Page - 1)) % Page = Page - 1
      BY <1>1, <2>1, <2>2, <3>1, RemainderIs
    <3> QED
      BY <2>2, <3>2
  <2> QED
    BY <1>1, <2>3 DEF PageCeil, PageFloor, PageOffset
<1>4. x % Bo = 0
  <2>1. PICK p \in Int, q \in Int : x = Page * p /\ Page = Bo * q
    BY <1>1, Multiples
  <2>2. x = Bo * (q * p) /\ q * p \in Int
    BY <1>1, <2>1
  <2> QED
    BY <1>1, <2>2, Multiples
<1> QED
  BY <1>2, <1>3, <1>4 DEF Align

-----------------------------------------------------------------------------
(* The calls, field by field.                                              *)

\* The entry of a buffer name, a blank one if it has none.
LEMMA FoundTypes ==
  ASSUME TableTypes, NEW x \in Idx
  PROVE  Found(x) \in Entries
<1>1. Blank \in Entries
  BY DEF Blank, Entries, Targeted
<1> QED
  BY <1>1 DEF Found, TableTypes

Used == IF szUsedBuf > FbtSize THEN FbtSize ELSE szUsedBuf
MapGpa(t, hva) ==
  IF ZeroCopy(t) THEN MapBufObjGpa(BufIdx, hva, Size[bound[t]]) ELSE FbtBase + FbtSize - Used
MapEntry(t, acc, hva) ==
  [tgt |-> t, hva |-> hva, gpa |-> MapGpa(t, hva), mused |-> szUsedBuf,
   mapsz |-> Size[bound[t]], write |-> acc.write, explicit |-> acc.explicit,
   ocpy |-> Found(BufIdx).ocpy \/ ~ZeroCopy(t)]
MapPointer(t, acc, hva) ==
  [area |-> IF ZeroCopy(t) THEN "mbufo" ELSE "window",
   at |-> IF ZeroCopy(t) THEN MapGpa(t, hva)
          ELSE FbtSize - (Used + Align(Size[bound[t]])),
   tgt |-> t, write |-> acc.write, explicit |-> acc.explicit, unflushed |-> FALSE]

\* What glMapBuffer writes into the table and hands to the guest.
LEMMA MapIs ==
  ASSUME TInv, NEW t \in Targets, NEW acc \in Access, NEW hva, Map(t, acc, hva)
  PROVE  /\ bufo' = [bufo EXCEPT ![BufIdx] = MapEntry(t, acc, hva)]
         /\ listed' = listed \union {BufIdx}
         /\ ahead' = (IF BufIdx \in listed THEN ahead ELSE [ahead EXCEPT ![BufIdx] = listed])
         /\ guest' = [guest EXCEPT ![bound[t]] = MapPointer(t, acc, hva)]
         /\ slots' = (IF ZeroCopy(t) THEN slots \union {Slot(MapEntry(t, acc, hva))} ELSE slots)
         /\ szUsedBuf' = (IF ZeroCopy(t) THEN Used ELSE Used + Align(Size[bound[t]]))
<1> DEFINE b == bound[t]
           entry == [tgt |-> t, hva |-> hva, mused |-> szUsedBuf, mapsz |-> Size[b],
                     write |-> acc.write, explicit |-> acc.explicit,
                     gpa |-> IF ZeroCopy(t) THEN MapBufObjGpa(BufIdx, hva, Size[b])
                             ELSE FbtBase + FbtSize - Used,
                     ocpy |-> Found(BufIdx).ocpy \/ ~ZeroCopy(t)]
           pointer == [area |-> IF ZeroCopy(t) THEN "mbufo" ELSE "window",
                       at |-> IF ZeroCopy(t) THEN entry.gpa
                              ELSE FbtSize - (Used + Align(Size[b])),
                       tgt |-> t, write |-> acc.write, explicit |-> acc.explicit,
                       unflushed |-> FALSE]
<1>2. entry = MapEntry(t, acc, hva)
  BY DEF MapEntry, MapGpa
<1>3. pointer = MapPointer(t, acc, hva)
  <2> HIDE DEF entry
  <2>1. entry.gpa = MapGpa(t, hva)
    BY <1>2 DEF MapEntry
  <2> QED
    BY <2>1 DEF MapPointer
<1>4. /\ Inserted(BufIdx, entry)
      /\ guest' = [guest EXCEPT ![b] = pointer]
      /\ slots' = (IF ZeroCopy(t) THEN slots \union {Slot(entry)} ELSE slots)
      /\ szUsedBuf' = (IF ZeroCopy(t) THEN Used ELSE Used + Align(Size[b]))
  BY DEF Map, Used
<1> HIDE DEF entry, pointer
<1> QED
  BY <1>2, <1>3, <1>4 DEF Inserted

\* Its types.
LEMMA MapEntryTypes ==
  ASSUME TInv, NEW t \in Targets, NEW acc \in Access, NEW hva \in Nat, bound[t] \in Buffers
  PROVE  /\ MapEntry(t, acc, hva) \in Entries
         /\ MapPointer(t, acc, hva) \in Pointers
         /\ Slot(MapEntry(t, acc, hva)) \in SlotType
         /\ Used \in Nat /\ Used + Align(Size[bound[t]]) \in Nat
<1>1. /\ Size[bound[t]] \in Nat /\ FbtSize \in Nat /\ FbtBase \in Nat
      /\ MbufoSize \in Nat \ {0}
  BY ConstantsAssumption
<1>2. Used \in Nat /\ Used <= FbtSize /\ szUsedBuf \in Nat
  BY <1>1 DEF Used, TInv, TableTypes
<1>3. Align(Size[bound[t]]) \in Nat
  BY <1>1, Rounding
<1>4. BufIdx \in Idx
  BY DEF TInv, LibraryTypes
<1>5. MapGpa(t, hva) \in Nat
  <2>1. MapBufObjGpa(BufIdx, hva, Size[bound[t]]) \in Nat
    BY <1>1, <1>4, GpaTypes DEF TInv
  <2> QED
    BY <1>1, <1>2, <2>1 DEF MapGpa
<1>6. acc.write \in BOOLEAN /\ acc.explicit \in BOOLEAN
  BY DEF Access
<1>7. Found(BufIdx).ocpy \in BOOLEAN
  BY <1>4, FoundTypes DEF TInv, Entries
<1> DEFINE entry == MapEntry(t, acc, hva)
<1>8. entry \in Entries
  BY <1>1, <1>2, <1>5, <1>6, <1>7 DEF MapEntry, Entries, Targeted
<1>9. MapPointer(t, acc, hva) \in Pointers
  BY <1>1, <1>2, <1>3, <1>5, <1>6 DEF MapPointer, Pointers, Targeted
<1>10. Slot(entry) \in SlotType
  <2> HIDE DEF entry
  <2>1. entry.gpa \in Nat /\ entry.mapsz \in Nat /\ entry.hva \in Nat
    BY <1>8 DEF Entries
  <2>2. entry.gpa % MbufoSize \in Nat
    BY <1>1, <2>1
  <2>3. PageOffset(entry.hva) \in Nat
    BY <2>1, Rounding
  <2>4. entry.mapsz + PageOffset(entry.hva) \in Nat
    BY <2>1, <2>3
  <2>5. /\ PageFloor(entry.gpa % MbufoSize) \in Nat
        /\ PageCeil(entry.mapsz + PageOffset(entry.hva)) \in Nat
        /\ PageFloor(entry.hva) \in Nat
    BY <2>1, <2>2, <2>4, Rounding
  <2> QED
    BY <2>5 DEF Slot, SlotType
<1> QED
  BY <1>2, <1>3, <1>8, <1>9, <1>10

\* What a flush writes is words of the window; it maps nothing.
LEMMA FlushedTypes ==
  ASSUME MemoryTypes, NEW e
  PROVE  /\ DOMAIN Flushed(e) = DOMAIN hostMem
         /\ \A a \in DOMAIN hostMem : Flushed(e)[a] \in Word
<1> DEFINE at == e.gpa - FbtBase - Align(e.mapsz)
           new == [a \in DOMAIN hostMem |->
                     IF a - e.hva \in 0 .. e.mapsz - 1 /\ (at + a - e.hva) \in DOMAIN window
                     THEN window[at + a - e.hva] ELSE hostMem[a]]
<1>1. Flushed(e) = hostMem \/ Flushed(e) = new
  BY DEF Flushed
<1>2. \A k \in DOMAIN window : window[k] \in Word
  BY DEF MemoryTypes
<1>3. \A a \in DOMAIN hostMem : hostMem[a] \in Word
  BY DEF MemoryTypes
<1>4. DOMAIN new = DOMAIN hostMem /\ \A a \in DOMAIN hostMem : new[a] \in Word
  <2> HIDE DEF at
  <2> QED
    BY <1>2, <1>3
<1> HIDE DEF new
<1> QED
  BY <1>1, <1>3, <1>4

\* So is what a mapping is filled with.
LEMMA FilledTypes ==
  ASSUME MemoryTypes, LibraryTypes, NEW b \in Buffers, NEW t, NEW used
  PROVE  Filled(b, t, used) \in [0 .. FbtSize - 1 -> Word]
<1> DEFINE at == FbtSize - used - Align(Size[b])
<1>1. <<b, value[b]>> \in Word
  BY DEF Word, Idx, LibraryTypes
<1>2. window \in [0 .. FbtSize - 1 -> Word]
  BY DEF MemoryTypes
<1> QED
  BY <1>1, <1>2 DEF Filled

\* The contents the library keeps of a buffer.
LEMMA ContentsTypes ==
  ASSUME NEW b \in Buffers, NEW hva, NEW mem,
         \A a \in hva .. hva + Size[b] - 1 : mem[a] \in Word
  PROVE  Contents(b, hva, mem) \in Nat \union {None}
<1> DEFINE words == {mem[a] : a \in hva .. hva + Size[b] - 1}
<1>1. \A w \in words : w \in Word
  OBVIOUS
<1>2. Contents(b, hva, mem) =
        IF \E w \in words : words = {w} /\ w[1] = b THEN (CHOOSE w \in words : TRUE)[2] ELSE None
  BY DEF Contents
<1> HIDE DEF words
<1>3. ASSUME NEW w \in words PROVE (CHOOSE v \in words : TRUE)[2] \in Nat \union {None}
  <2>1. (CHOOSE v \in words : TRUE) \in words
    BY <1>3
  <2> QED
    BY <1>1, <2>1 DEF Word
<1> QED
  BY <1>2, <1>3

-----------------------------------------------------------------------------
(* Types, and the library's mappings, whatever the program does.           *)

\* A call finds a buffer.
LEMMA UsableIs ==
  ASSUME TInv, NEW t \in Targets, Usable(t)
  PROVE  bound[t] \in Buffers /\ BufIdx \in Idx /\ (LastBound => BufIdx = bound[t])
  BY DEF TInv, LibraryTypes, Usable, Idx

LEMMA TypesInit == Init => TInv
<1> SUFFICES ASSUME Init PROVE TInv
  OBVIOUS
<1>1. LibraryTypes
  BY DEF Init, LibraryTypes, Idx, None
<1>2. TableTypes
  <2>1. Blank \in Entries
    BY DEF Blank, Entries, Targeted
  <2> QED
    BY <2>1 DEF Init, TableTypes, Idx
<1>3. MemoryTypes
  <2>1. <<0, 0>> \in Word
    BY DEF Word, Idx
  <2>2. DOMAIN hostMem = {}
    BY DEF Init
  <2> QED
    BY <2>1, <2>2 DEF Init, MemoryTypes
<1>4. GuestTypes
  <2>1. NoPointer \in Pointers
    BY DEF NoPointer, Pointers, Targeted
  <2> QED
    BY <2>1 DEF Init, GuestTypes
<1>5. HostInv
  BY DEF Init, HostInv, Live
<1> QED
  BY <1>1, <1>2, <1>3, <1>4, <1>5 DEF TInv

LEMMA TypesBind ==
  ASSUME TInv, NEW t \in Targets, NEW b \in Idx, Bind(t, b)
  PROVE  TInv'
<1>1. LibraryTypes'
  BY DEF Bind, TInv, LibraryTypes
<1>2. TableTypes'
  BY DEF Bind, TInv, TableTypes, table
<1>3. MemoryTypes'
  BY DEF Bind, TInv, MemoryTypes
<1>4. GuestTypes'
  BY DEF Bind, TInv, GuestTypes, config
<1>5. HostInv'
  BY DEF Bind, TInv, HostInv, Live, HostRange
<1> QED
  BY <1>1, <1>2, <1>3, <1>4, <1>5 DEF TInv

LEMMA TypesMap ==
  ASSUME TInv, NEW t \in Targets, NEW acc \in Access, NEW hva, Map(t, acc, hva)
  PROVE  TInv'
<1> DEFINE b == bound[t]
           range == hva .. hva + Size[b] - 1
<1>1. b \in Buffers /\ BufIdx \in Idx
  BY UsableIs DEF Map
<1>2. hva \in Nat /\ Size[b] \in Nat
  BY <1>1, ConstantsAssumption DEF Map
<1>3. /\ MapEntry(t, acc, hva) \in Entries /\ MapPointer(t, acc, hva) \in Pointers
      /\ Slot(MapEntry(t, acc, hva)) \in SlotType
      /\ Used \in Nat /\ Used + Align(Size[b]) \in Nat
  BY <1>1, <1>2, MapEntryTypes
<1>4. /\ mapped' = [mapped EXCEPT ![b] = hva] /\ mapped[b] = None
      /\ hostMem' = [a \in DOMAIN hostMem \cup range |->
                       IF a \in DOMAIN hostMem THEN hostMem[a] ELSE <<b, value[b]>>]
      /\ range \cap DOMAIN hostMem = {}
      /\ window' = Filled(b, t, szUsedBuf)
      /\ maps' = maps + 1
      /\ UNCHANGED <<config, bound, value, BufIdx, written, writes>>
  BY DEF Map, Free
<1>5. LibraryTypes'
  BY <1>1, <1>2, <1>4 DEF TInv, LibraryTypes
<1>6. TableTypes'
  BY <1>1, <1>3, MapIs DEF TInv, TableTypes
<1>7. MemoryTypes'
  <2>1. <<b, value[b]>> \in Word
    BY <1>1 DEF TInv, LibraryTypes, Word, Idx
  <2>2. range \subseteq Nat
    BY <1>2
  <2>3. DOMAIN hostMem \subseteq Nat /\ \A a \in DOMAIN hostMem : hostMem[a] \in Word
    BY DEF TInv, MemoryTypes
  <2> HIDE DEF range
  <2>4. DOMAIN hostMem' \subseteq Nat /\ \A a \in DOMAIN hostMem' : hostMem'[a] \in Word
    BY <1>4, <2>1, <2>2, <2>3
  <2>5. window' \in [0 .. FbtSize - 1 -> Word]
    BY <1>1, <1>4, FilledTypes DEF TInv
  <2> QED
    BY <2>4, <2>5 DEF MemoryTypes
<1>8. GuestTypes'
  BY <1>1, <1>3, <1>4, MapIs DEF TInv, GuestTypes, config
<1>9. HostInv'
  <2>1. SUFFICES ASSUME NEW c \in Buffers, Live(c)'
                 PROVE  /\ HostRange(c)' \subseteq DOMAIN hostMem'
                        /\ \A d \in Buffers : c # d /\ Live(d)' =>
                             HostRange(c)' \cap HostRange(d)' = {}
    BY DEF HostInv
  <2>2. \A d \in Buffers : d # b => /\ HostRange(d)' = HostRange(d)
                                    /\ (Live(d)' <=> Live(d))
    BY <1>1, <1>4 DEF HostRange, Live, TInv, LibraryTypes
  <2>3. \A d \in Buffers : d = b => HostRange(d)' = range
    BY <1>1, <1>4 DEF HostRange, TInv, LibraryTypes
  <2>4. \A d \in Buffers : d # b /\ Live(d)' =>
          HostRange(d)' \subseteq DOMAIN hostMem /\ HostRange(d)' \cap range = {}
    BY <1>4, <2>2 DEF TInv, HostInv
  <2>5. DOMAIN hostMem' = DOMAIN hostMem \cup range
    BY <1>4
  <2> HIDE DEF range
  <2>6. \A d, e \in Buffers : d # b /\ e # b /\ d # e /\ Live(d)' /\ Live(e)' =>
          HostRange(d)' \cap HostRange(e)' = {}
    BY <2>2 DEF TInv, HostInv
  <2>7. HostRange(c)' \subseteq DOMAIN hostMem'
    BY <1>1, <2>1, <2>3, <2>4, <2>5
  <2>8. ASSUME NEW d \in Buffers, c # d, Live(d)' PROVE HostRange(c)' \cap HostRange(d)' = {}
    <3>1. CASE c = b
      <4>1. HostRange(d)' \cap range = {}
        BY <2>4, <2>8, <3>1
      <4> QED
        BY <2>3, <3>1, <4>1
    <3>2. CASE d = b
      <4>1. HostRange(c)' \cap range = {}
        BY <2>1, <2>4, <2>8, <3>2
      <4> QED
        BY <2>3, <3>2, <4>1
    <3>3. CASE c # b /\ d # b
      BY <2>1, <2>6, <2>8, <3>3
    <3> QED
      BY <3>1, <3>2, <3>3
  <2> QED
    BY <2>7, <2>8
<1> QED
  BY <1>5, <1>6, <1>7, <1>8, <1>9 DEF TInv

FlushEntry(t, apple) ==
  [Found(BufIdx) EXCEPT !.tgt = t, !.explicit = @ \/ apple]
FlushPointer(b, apple) ==
  [guest[b] EXCEPT !.unflushed = FALSE, !.explicit = @ \/ apple]

\* The pointer after glFlushMappedBufferRange.
LEMMA FlushIs ==
  ASSUME TInv, NEW t \in Targets, NEW apple \in BOOLEAN, FlushRange(t, apple)
  PROVE  /\ guest' = [guest EXCEPT ![bound[t]] = FlushPointer(bound[t], apple)]
         /\ FlushPointer(bound[t], apple) \in Pointers
         /\ FlushEntry(t, apple) \in Entries
<1> DEFINE b == bound[t]
<1>1. b \in Buffers /\ BufIdx \in Idx
  BY UsableIs DEF FlushRange
<1>2. guest \in [Buffers -> Pointers]
  BY DEF TInv, GuestTypes
<1>3. Found(BufIdx) \in Entries
  BY <1>1, FoundTypes DEF TInv
<1>4. FlushPointer(b, apple) \in Pointers
  <2>1. guest[b] \in Pointers
    BY <1>1, <1>2
  <2> QED
    BY <2>1 DEF FlushPointer, Pointers
<1>5. FlushEntry(t, apple) \in Entries
  BY <1>3 DEF FlushEntry, Entries, Targeted
<1>6. guest' = [guest EXCEPT ![b].unflushed = FALSE, ![b].explicit = @ \/ apple]
  BY DEF FlushRange
<1> HIDE DEF b
<1>7. guest' = [guest EXCEPT ![b] = FlushPointer(b, apple)]
  BY <1>1, <1>2, <1>6 DEF FlushPointer
<1> QED
  BY <1>4, <1>5, <1>7 DEF b

LEMMA TypesFlush ==
  ASSUME TInv, NEW t \in Targets, NEW apple \in BOOLEAN, FlushRange(t, apple)
  PROVE  TInv'
<1>1. bound[t] \in Buffers /\ BufIdx \in Idx
  BY UsableIs DEF FlushRange
<1>2. /\ hostMem' = Flushed(Found(BufIdx)) /\ Inserted(BufIdx, FlushEntry(t, apple))
      /\ UNCHANGED <<config, library, BufIdx, szUsedBuf, slots, window, written, maps, writes>>
  BY DEF FlushRange, FlushEntry
<1>3. LibraryTypes'
  BY <1>2 DEF TInv, LibraryTypes, library
<1>4. TableTypes'
  BY <1>1, <1>2, FlushIs DEF TInv, TableTypes, Inserted
<1>5. MemoryTypes' /\ DOMAIN hostMem' = DOMAIN hostMem
  BY <1>2, FlushedTypes DEF TInv, MemoryTypes
<1>6. GuestTypes'
  BY <1>1, <1>2, FlushIs DEF TInv, GuestTypes, config
<1>7. HostInv'
  BY <1>2, <1>5 DEF TInv, HostInv, HostRange, Live, library
<1> QED
  BY <1>3, <1>4, <1>5, <1>6, <1>7 DEF TInv

UnmapMem(entry) == IF entry.write /\ ~entry.explicit THEN Flushed(entry) ELSE hostMem

\* Taking a buffer's words out of host memory.
LEMMA HostShrinks ==
  ASSUME TInv, NEW cs \in SUBSET Buffers,
         \A c \in Buffers : mapped'[c] = IF c \in cs THEN None ELSE mapped[c],
         DOMAIN hostMem' =
           DOMAIN hostMem \ UNION {HostRange(c) : c \in {d \in cs : mapped[d] # None}}
  PROVE  HostInv'
<1> DEFINE gone == UNION {HostRange(c) : c \in {d \in cs : mapped[d] # None}}
<1>1. \A c \in Buffers : Live(c)' => c \notin cs /\ Live(c) /\ HostRange(c)' = HostRange(c)
  BY DEF Live, HostRange
<1>2. \A c \in Buffers : Live(c)' => HostRange(c) \cap gone = {}
  <2> TAKE c \in Buffers
  <2> HAVE Live(c)'
  <2>1. c \notin cs /\ Live(c)
    BY <1>1
  <2>2. \A d \in cs : mapped[d] # None => HostRange(c) \cap HostRange(d) = {}
    BY <2>1 DEF TInv, HostInv, Live
  <2> QED
    BY <2>2
<1> HIDE DEF gone
<1>3. \A c \in Buffers : Live(c)' => HostRange(c)' \subseteq DOMAIN hostMem'
  BY <1>1, <1>2 DEF TInv, HostInv, gone
<1>4. \A c, d \in Buffers : c # d /\ Live(c)' /\ Live(d)' => HostRange(c)' \cap HostRange(d)' = {}
  BY <1>1 DEF TInv, HostInv
<1> QED
  BY <1>3, <1>4 DEF HostInv

LEMMA TypesUnmap ==
  ASSUME TInv, NEW t \in Targets, Unmap(t)
  PROVE  TInv'
<1> DEFINE b == bound[t]
           entry == Found(BufIdx)
           mem == UnmapMem(entry)
           range == mapped[b] .. mapped[b] + Size[b] - 1
<1>1. b \in Buffers /\ BufIdx \in Idx
  BY UsableIs DEF Unmap
<1>2. /\ value' = [value EXCEPT ![b] = Contents(b, mapped[b], mem)]
      /\ hostMem' = [a \in DOMAIN mem \ range |-> mem[a]]
      /\ mapped' = [mapped EXCEPT ![b] = None]
      /\ guest' = [guest EXCEPT ![b] = NoPointer]
      /\ slots' \subseteq slots
      /\ Freed(BufIdx)
      /\ szUsedBuf' \in {0, szUsedBuf, Popped(entry)}
      /\ UNCHANGED <<config, bound, BufIdx, window, written, maps, writes>>
      /\ mapped[b] # None
  BY DEF Unmap, UnmapMem, MayUnmap
<1>3. entry \in Entries
  BY <1>1, FoundTypes DEF TInv
<1>4. DOMAIN mem = DOMAIN hostMem /\ \A a \in DOMAIN mem : mem[a] \in Word
  <2>1. \A a \in DOMAIN hostMem : hostMem[a] \in Word
    BY DEF TInv, MemoryTypes
  <2> HIDE DEF entry
  <2> QED
    BY <2>1, FlushedTypes DEF TInv, UnmapMem
<1> HIDE DEF mem, entry
<1>5. range \subseteq DOMAIN mem
  BY <1>1, <1>2, <1>4 DEF TInv, HostInv, Live, HostRange
<1>6. Contents(b, mapped[b], mem) \in Nat \union {None}
  BY <1>1, <1>4, <1>5, ContentsTypes
<1>7. LibraryTypes'
  BY <1>1, <1>2, <1>6 DEF TInv, LibraryTypes
<1>8. TableTypes'
  <2>1. Blank \in Entries
    BY DEF Blank, Entries, Targeted
  <2>2. Popped(entry) \in Nat
    BY <1>3 DEF Popped, Entries, TInv, TableTypes
  <2>3. szUsedBuf' \in Nat
    BY <1>2, <2>2 DEF TInv, TableTypes
  <2>4. listed' \subseteq Idx /\ ahead' \in [Idx -> SUBSET Idx] /\ bufo' \in [Idx -> Entries]
    BY <1>1, <1>2, <2>1 DEF TInv, TableTypes, Freed
  <2>5. slots' \subseteq SlotType
    BY <1>2 DEF TInv, TableTypes
  <2> QED
    BY <2>3, <2>4, <2>5 DEF TableTypes
<1>9. MemoryTypes'
  <2> HIDE DEF range
  <2>1. DOMAIN hostMem' = DOMAIN mem \ range /\ \A a \in DOMAIN hostMem' : hostMem'[a] = mem[a]
    BY <1>2
  <2> QED
    BY <1>2, <1>4, <2>1 DEF TInv, MemoryTypes
<1>10. GuestTypes'
  <2>1. NoPointer \in Pointers
    BY DEF NoPointer, Pointers, Targeted
  <2> QED
    BY <1>1, <1>2, <2>1 DEF TInv, GuestTypes, config
<1>11. HostInv'
  <2>1. \A c \in Buffers : mapped'[c] = IF c \in {b} THEN None ELSE mapped[c]
    BY <1>1, <1>2 DEF TInv, LibraryTypes
  <2>2. UNION {HostRange(c) : c \in {d \in {b} : mapped[d] # None}} = range
    <3>1. {d \in {b} : mapped[d] # None} = {b}
      BY <1>2
    <3>2. HostRange(b) = range
      BY DEF HostRange
    <3> HIDE DEF range, b
    <3> QED
      BY <3>1, <3>2
  <2> HIDE DEF range
  <2>3. DOMAIN hostMem' = DOMAIN hostMem \ range
    BY <1>2, <1>4
  <2> QED
    BY <1>1, <2>1, <2>2, <2>3, HostShrinks
<1> QED
  BY <1>7, <1>8, <1>9, <1>10, <1>11 DEF TInv

\* The buffer names cs go away, with the library's mappings of them.
LEMMA TypesForget ==
  ASSUME TInv, NEW cs \in SUBSET Buffers, Forget(cs), BufIdx' = BufIdx, window' = window,
         config' = config, maps' = maps, writes' = writes
  PROVE  LibraryTypes' /\ MemoryTypes' /\ GuestTypes' /\ HostInv'
<1>1. LibraryTypes'
  BY DEF Forget, TInv, LibraryTypes, Idx
<1>2. /\ DOMAIN hostMem' =
           DOMAIN hostMem \ UNION {HostRange(c) : c \in {d \in cs : mapped[d] # None}}
      /\ \A a \in DOMAIN hostMem' : hostMem'[a] = hostMem[a]
  BY DEF Forget
<1>3. MemoryTypes'
  BY <1>2 DEF TInv, MemoryTypes
<1>4. GuestTypes'
  <2>1. NoPointer \in Pointers
    BY DEF NoPointer, Pointers, Targeted
  <2> QED
    BY <2>1 DEF Forget, TInv, GuestTypes, config
<1>5. HostInv'
  <2>1. \A c \in Buffers : mapped'[c] = IF c \in cs THEN None ELSE mapped[c]
    BY DEF Forget
  <2> QED
    BY <1>2, <2>1, HostShrinks
<1> QED
  BY <1>1, <1>3, <1>4, <1>5

LEMMA TypesDelete ==
  ASSUME TInv, NEW b \in Buffers, Delete(b)
  PROVE  TInv'
<1>1. LibraryTypes' /\ MemoryTypes' /\ GuestTypes' /\ HostInv'
  BY TypesForget DEF Delete
<1>2. TableTypes'
  BY DEF Delete, TInv, TableTypes, table
<1> QED
  BY <1>1, <1>2 DEF TInv

LEMMA TypesNewContext ==
  ASSUME TInv, NewContext
  PROVE  TInv'
<1>1. LibraryTypes' /\ MemoryTypes' /\ GuestTypes' /\ HostInv'
  BY TypesForget DEF NewContext
<1>2. TableTypes'
  <2>1. Blank \in Entries
    BY DEF Blank, Entries, Targeted
  <2> QED
    BY <2>1 DEF NewContext, TInv, TableTypes
<1> QED
  BY <1>1, <1>2 DEF TInv

\* A store of the guest.
LEMMA TypesWrite ==
  ASSUME TInv, NEW b \in Buffers, Write(b)
  PROVE  TInv'
<1> DEFINE word == <<b, writes + 1>>
<1>1. /\ written' = [written EXCEPT ![b] = writes + 1]
      /\ guest' = [guest EXCEPT ![b].unflushed = TRUE]
      /\ writes' = writes + 1
      /\ UNCHANGED <<config, library, BufIdx, table, szUsedBuf, slots, maps>>
  BY DEF Write
<1>2. writes + 1 \in Nat /\ word \in Word
  BY DEF TInv, GuestTypes, Word, Idx
<1>3. LibraryTypes'
  BY <1>1, <1>2 DEF TInv, LibraryTypes, library
<1>4. TableTypes'
  BY <1>1 DEF TInv, TableTypes, table
<1>5. MemoryTypes' /\ DOMAIN hostMem' = DOMAIN hostMem
  <2> DEFINE words == 0 .. Size[b] - 1
             behind == UNION {Behind(b, k) : k \in words}
  <2>1. \/ /\ window' = [a \in DOMAIN window |->
                           IF a - guest[b].at \in words THEN word ELSE window[a]]
           /\ hostMem' = hostMem
        \/ /\ hostMem' = [a \in DOMAIN hostMem |->
                            IF a \in behind THEN word ELSE hostMem[a]]
           /\ window' = window
    BY DEF Write
  <2> HIDE DEF words, behind, word
  <2> QED
    BY <1>2, <2>1 DEF TInv, MemoryTypes
<1>6. GuestTypes'
  <2>1. guest \in [Buffers -> Pointers]
    BY DEF TInv, GuestTypes
  <2>2. guest' \in [Buffers -> Pointers]
    BY <1>1, <2>1 DEF Pointers
  <2> QED
    BY <1>1, <1>2, <2>2 DEF TInv, GuestTypes, config
<1>7. HostInv'
  BY <1>1, <1>5 DEF TInv, HostInv, HostRange, Live, library
<1> QED
  BY <1>3, <1>4, <1>5, <1>6, <1>7 DEF TInv

LEMMA TypesNext == TInv /\ [Next]_vars => TInv'
<1> SUFFICES ASSUME TInv, [Next]_vars PROVE TInv'
  OBVIOUS
<1>1. ASSUME NEW t \in Targets, NEW b \in Idx, Bind(t, b) PROVE TInv'
  BY <1>1, TypesBind
<1>2. ASSUME NEW t \in Targets, NEW acc \in Access, NEW hva, Map(t, acc, hva) PROVE TInv'
  BY <1>2, TypesMap
<1>3. ASSUME NEW t \in Targets, NEW apple \in BOOLEAN, FlushRange(t, apple) PROVE TInv'
  BY <1>3, TypesFlush
<1>4. ASSUME NEW t \in Targets, Unmap(t) PROVE TInv'
  BY <1>4, TypesUnmap
<1>5. ASSUME NEW b \in Buffers, Delete(b) PROVE TInv'
  BY <1>5, TypesDelete
<1>6. ASSUME NEW b \in Buffers, Write(b) PROVE TInv'
  BY <1>6, TypesWrite
<1>7. CASE NewContext
  BY <1>7, TypesNewContext
<1>8. CASE UNCHANGED vars
  BY <1>8 DEF vars, config, library, table, TInv, LibraryTypes, TableTypes, MemoryTypes,
              GuestTypes, HostInv, HostRange, Live
<1> QED
  BY <1>1, <1>2, <1>3, <1>4, <1>5, <1>6, <1>7, <1>8 DEF Next

\* TInv holds of every behaviour.
LEMMA TypesAlways == Spec => []TInv
<1>1. Init => TInv
  BY TypesInit
<1>2. TInv /\ [Next]_vars => TInv'
  BY TypesNext
<1> QED
  BY <1>1, <1>2, PTL DEF Spec

\* The table, the memory and the guest's pointers keep their types, and a mapping
\* always lies in host memory: for every program, tidy or not, and every sequence of
\* the calls.
THEOREM TypeCorrect == Spec => []TypeOK
<1>1. Spec => []TInv
  BY TypesAlways
<1>2. TInv => TypeOK
  BY TypesAreTypeOK
<1> QED
  BY <1>1, <1>2, PTL

-----------------------------------------------------------------------------
(* The table and the stack of regions, for a program that calls about the  *)
(* buffer it bound last.                                                   *)

LEMMA SizeIs ==
  ASSUME NEW b \in Buffers
  PROVE  /\ Size[b] \in Nat /\ Size[b] > 0
         /\ Align(Size[b]) \in Nat /\ Align(Size[b]) >= Size[b]
  BY ConstantsAssumption, Rounding

\* The entry and the pointer of a buffer are an entry and a pointer.
LEMMA FieldsAre ==
  ASSUME TInv, NEW b \in Buffers
  PROVE  /\ b \in Idx /\ bufo[b] \in Entries /\ guest[b] \in Pointers
         /\ bufo[b].mused \in Nat /\ bufo[b].hva \in Nat /\ bufo[b].mapsz \in Nat
         /\ bufo[b].gpa \in Nat /\ Top(b) \in Nat /\ guest[b].at \in Int
         /\ szUsedBuf \in Nat /\ mapped[b] \in Nat \union {None}
<1>1. b \in Idx /\ bufo[b] \in Entries /\ guest[b] \in Pointers
  BY DEF TInv, TableTypes, GuestTypes, Idx
<1>2. szUsedBuf \in Nat /\ mapped[b] \in Nat \union {None}
  BY DEF TInv, TableTypes, LibraryTypes
<1>3. guest[b].at \in Int
  BY <1>1 DEF Pointers
<1>4. /\ bufo[b].mused \in Nat /\ bufo[b].hva \in Nat /\ bufo[b].mapsz \in Nat
      /\ bufo[b].gpa \in Nat
  BY <1>1 DEF Entries
<1>5. Top(b) \in Nat
  BY <1>4, SizeIs DEF Top
<1> QED
  BY <1>1, <1>2, <1>3, <1>4, <1>5

\* A buffer with a pointer is mapped.
LEMMA PointerIsLive ==
  ASSUME LiveInv, NEW b \in Buffers, guest[b].area # "none"
  PROVE  Live(b) /\ EntryIsMapping(b)
  BY DEF LiveInv, NoPointer

LEMMA EntriesInit == Init => EInv /\ StackInv
<1> SUFFICES ASSUME Init PROVE EInv /\ StackInv
  OBVIOUS
<1>1. \A b \in Buffers : ~Live(b) /\ guest[b] = NoPointer
  BY DEF Init, Live
<1>2. \A b \in Buffers : ~InWindow(b)
  BY <1>1 DEF InWindow, NoPointer
<1>3. LiveInv
  BY <1>1 DEF LiveInv
<1>4. StackInv
  BY <1>2 DEF StackInv
<1>5. TidyInv /\ Grounded
  BY DEF Init, TidyInv, Grounded
<1> QED
  BY <1>3, <1>4, <1>5 DEF EInv

\* Steps that leave the table, the mappings and the guest's pointers alone.
LEMMA EntriesUnchanged ==
  ASSUME EInv, UNCHANGED <<config, mapped, table, szUsedBuf, slots, guest>>
  PROVE  Kept
<1>1. LiveInv'
  BY DEF EInv, LiveInv, Live, EntryIsMapping, ZeroCopy, config, table, NoPointer, Align
<1>2. StackInv => StackInv'
  BY DEF StackInv, Stacked, InWindow, Top, table, Align
<1>3. TidyInv'
  BY DEF EInv, TidyInv, Slotted, Live, ZeroCopy, config, table, Slot, PageFloor, PageCeil,
         PageOffset
<1>4. Grounded'
  BY DEF EInv, Grounded, table
<1> QED
  BY <1>1, <1>2, <1>3, <1>4 DEF EInv, Kept

\* A mapping stacks its region on top of the others.
LEMMA EntriesMap ==
  ASSUME LastBound, TInv, EInv,
         NEW t \in Targets, NEW acc \in Access, NEW hva, Map(t, acc, hva)
  PROVE  Kept
<1>1. PICK b \in Buffers : b = bound[t] /\ b = BufIdx
  BY UsableIs DEF Map
<1>2. /\ mapped[b] = None /\ mapped' = [mapped EXCEPT ![b] = hva]
      /\ hva \in Nat \ {0}
      /\ UNCHANGED <<accel, program>>
  BY <1>1, ConstantsAssumption DEF Map, config
<1>3. hva # None
  BY <1>2 DEF None
<1>4. HasRoom => Used = szUsedBuf
  BY ConstantsAssumption DEF Used, HasRoom, TInv, TableTypes
<1> DEFINE entry == MapEntry(t, acc, hva)
           pointer == MapPointer(t, acc, hva)
<1>14. /\ bufo' = [bufo EXCEPT ![BufIdx] = entry]
       /\ listed' = listed \union {BufIdx}
       /\ guest' = [guest EXCEPT ![bound[t]] = pointer]
       /\ slots' = (IF ZeroCopy(t) THEN slots \union {Slot(entry)} ELSE slots)
       /\ szUsedBuf' = (IF ZeroCopy(t) THEN Used ELSE Used + Align(Size[bound[t]]))
  BY MapIs
<1>5. /\ bufo' = [bufo EXCEPT ![b] = entry]
      /\ listed' = listed \union {b}
      /\ guest' = [guest EXCEPT ![b] = pointer]
      /\ slots' = (IF ZeroCopy(t) THEN slots \union {Slot(entry)} ELSE slots)
      /\ szUsedBuf' = (IF ZeroCopy(t) THEN Used ELSE Used + Align(Size[b]))
  <2> HIDE DEF entry, pointer
  <2> QED
    BY <1>1, <1>14
<1>6. /\ entry.tgt = t /\ entry.hva = hva /\ entry.mused = szUsedBuf /\ entry.mapsz = Size[b]
      /\ entry.write = acc.write /\ entry.explicit = acc.explicit
      /\ ~ZeroCopy(t) => entry.ocpy = TRUE /\ entry.gpa = FbtBase + FbtSize - Used
  BY <1>1 DEF MapEntry, MapGpa
<1>7. /\ pointer.area = (IF ZeroCopy(t) THEN "mbufo" ELSE "window") /\ pointer.tgt = t
      /\ ~ZeroCopy(t) => pointer.at = FbtSize - (Used + Align(Size[b]))
      /\ pointer.write = acc.write /\ pointer.explicit = acc.explicit
      /\ pointer.unflushed = FALSE
  BY <1>1 DEF MapPointer
<1> HIDE DEF entry, pointer
<1>8. /\ bufo \in [Idx -> Entries] /\ guest \in [Buffers -> Pointers] /\ b \in Idx
      /\ mapped \in [Buffers -> Nat \union {None}]
  BY DEF TInv, TableTypes, GuestTypes, LibraryTypes, Idx
<1>9. /\ bufo'[b] = entry /\ guest'[b] = pointer /\ mapped'[b] = hva
      /\ \A c \in Buffers : c # b => /\ bufo'[c] = bufo[c] /\ guest'[c] = guest[c]
                                     /\ mapped'[c] = mapped[c]
  <2>1. \A c \in Buffers : c \in Idx
    BY DEF Idx
  <2> QED
    BY <1>2, <1>5, <1>8, <2>1
<1>10. \A t2 : ZeroCopy(t2)' <=> ZeroCopy(t2)
  BY <1>2 DEF ZeroCopy
<1>11. LiveInv'
  <2>1. SUFFICES ASSUME NEW c \in Buffers
                 PROVE IF Live(c)' THEN EntryIsMapping(c)' ELSE guest'[c] = NoPointer
    BY DEF LiveInv, NoPointer
  <2>2. CASE c = b
    <3>1. EntryIsMapping(c)'
      BY <1>2, <1>5, <1>6, <1>7, <1>9, <1>10, <2>2 DEF EntryIsMapping
    <3>2. Live(c)'
      BY <1>3, <1>9, <2>2 DEF Live
    <3> QED
      BY <3>1, <3>2
  <2>3. CASE c # b
    <3>1. Live(c)' <=> Live(c)
      BY <1>9, <2>3 DEF Live
    <3>2. Live(c) => EntryIsMapping(c)'
      <4>1. Live(c) => EntryIsMapping(c)
        BY DEF EInv, LiveInv
      <4> QED
        BY <1>5, <1>9, <1>10, <2>3, <4>1 DEF EntryIsMapping
    <3>3. ~Live(c) => guest'[c] = NoPointer
      BY <1>9, <2>3 DEF EInv, LiveInv
    <3> QED
      BY <3>1, <3>2, <3>3
  <2> QED
    BY <2>2, <2>3
<1>12. ASSUME HasRoom, StackInv PROVE StackInv'
  <2>10. Used = szUsedBuf
    BY <1>4, <1>12
  <2>1. \A c \in Buffers : c # b => (InWindow(c)' <=> InWindow(c)) /\ Top(c)' = Top(c)
    BY <1>9 DEF InWindow, Top, Align
  <2>2. szUsedBuf' >= szUsedBuf /\ szUsedBuf' \in Nat /\ szUsedBuf \in Nat
    BY <1>5, <2>10, FieldsAre, SizeIs
  <2>3. \A c \in Buffers : InWindow(c) => Stacked(c) /\ Top(c) \in Nat
    BY <1>12, FieldsAre DEF StackInv
  <2>4. \A c \in Buffers : c # b /\ InWindow(c) => Stacked(c)'
    BY <1>9, <2>1, <2>2, <2>3 DEF Stacked
  <2>5. InWindow(b)' => ~ZeroCopy(t)
    BY <1>7, <1>9 DEF InWindow
  <2>6. InWindow(b)' => Stacked(b)' /\ Top(b)' = szUsedBuf'
    <3> HAVE InWindow(b)'
    <3>1. Top(b)' = szUsedBuf + Align(Size[b])
      BY <1>6, <1>9 DEF Top, Align
    <3>2. szUsedBuf' = szUsedBuf + Align(Size[b])
      BY <1>5, <2>5, <2>10
    <3>3. guest'[b].at = FbtSize - (szUsedBuf + Align(Size[b]))
      BY <1>7, <1>9, <2>5, <2>10
    <3>4. bufo'[b].mused = szUsedBuf /\ bufo'[b].gpa = FbtBase + FbtSize - szUsedBuf
      BY <1>6, <1>9, <2>5, <2>10
    <3> QED
      BY <2>2, <3>1, <3>2, <3>3, <3>4 DEF Stacked
  <2>7. ASSUME NEW c \in Buffers, NEW d \in Buffers, c # d, InWindow(c)', InWindow(d)'
        PROVE  Top(c)' <= bufo'[d].mused \/ Top(d)' <= bufo'[c].mused
    <3>1. bufo'[b].mused = szUsedBuf
      BY <1>6, <1>9
    <3>2. CASE c = b
      <4>1. Top(d)' <= szUsedBuf
        BY <2>1, <2>3, <2>7, <3>2 DEF Stacked
      <4> QED
        BY <3>1, <3>2, <4>1
    <3>3. CASE d = b
      <4>1. Top(c)' <= szUsedBuf
        BY <2>1, <2>3, <2>7, <3>3 DEF Stacked
      <4> QED
        BY <3>1, <3>3, <4>1
    <3>4. CASE c # b /\ d # b
      <4>1. InWindow(c) /\ InWindow(d) /\ Top(c)' = Top(c) /\ Top(d)' = Top(d)
        BY <2>1, <2>7, <3>4
      <4>2. Top(c) <= bufo[d].mused \/ Top(d) <= bufo[c].mused
        BY <1>12, <2>7, <4>1 DEF StackInv
      <4> QED
        BY <1>9, <3>4, <4>1, <4>2
    <3> QED
      BY <3>2, <3>3, <3>4
  <2>9. \A c \in Buffers : InWindow(c)' => Stacked(c)'
    BY <2>1, <2>4, <2>6
  <2> QED
    BY <2>7, <2>9 DEF StackInv
<1>13. TidyInv'
  <2>1. SUFFICES ASSUME program = "tidy"
                 PROVE  /\ \A c \in listed' : c \in Buffers /\ Live(c)'
                        /\ \A s \in slots' : \E c \in Slotted' : s = Slot(bufo'[c])
    BY <1>2 DEF TidyInv, Slot, PageFloor, PageCeil, PageOffset
  <2>2. \A c \in Buffers : Live(c) => c # b /\ Live(c)'
    BY <1>2, <1>9 DEF Live
  <2>3. Live(b)'
    BY <1>3, <1>9 DEF Live
  <2>4. \A c \in Slotted : c \in Slotted' /\ c # b
    BY <1>9, <1>10, <2>2 DEF Slotted
  <2>5. \A s \in slots : \E c \in Slotted' : s = Slot(bufo'[c])
    <3> TAKE s \in slots
    <3>1. PICK c \in Slotted : s = Slot(bufo[c])
      BY <2>1 DEF EInv, TidyInv
    <3>2. c \in Slotted' /\ bufo'[c] = bufo[c]
      BY <1>9, <2>4 DEF Slotted
    <3> QED
      BY <3>1, <3>2
  <2>6. ZeroCopy(t) => b \in Slotted'
    BY <1>6, <1>9, <1>10, <2>3 DEF Slotted
  <2>7. \A s \in slots' : \E c \in Slotted' : s = Slot(bufo'[c])
    <3> TAKE s \in slots'
    <3>1. CASE s \in slots
      BY <2>5, <3>1
    <3>2. CASE s \notin slots
      <4>1. ZeroCopy(t) /\ s = Slot(entry)
        BY <1>5, <3>2
      <4> QED
        BY <1>9, <2>6, <4>1
    <3> QED
      BY <3>1, <3>2
  <2>8. \A c \in listed' : c \in Buffers /\ Live(c)'
    BY <1>5, <2>1, <2>2, <2>3 DEF EInv, TidyInv
  <2> QED
    BY <2>7, <2>8
<1>15. Grounded'
  BY <1>5 DEF Grounded
<1> QED
  BY <1>11, <1>12, <1>13, <1>15 DEF EInv, Kept

\* A flush leaves the entry of the mapping what it is.
LEMMA EntriesFlush ==
  ASSUME LastBound, TInv, EInv, NEW t \in Targets, NEW apple \in BOOLEAN, FlushRange(t, apple)
  PROVE  Kept
<1>1. PICK b \in Buffers : b = bound[t] /\ b = BufIdx
  BY UsableIs DEF FlushRange
<1>2. /\ mapped[b] # None /\ guest[b].tgt = t
      /\ Inserted(b, FlushEntry(t, apple))
      /\ guest' = [guest EXCEPT ![b] = FlushPointer(b, apple)]
      /\ UNCHANGED <<accel, program, mapped, szUsedBuf, slots>>
  BY <1>1, FlushIs DEF FlushRange, config, library, FlushEntry
<1>3. EntryIsMapping(b)
  BY <1>2 DEF EInv, LiveInv, Live
<1>4. Found(b) = bufo[b] /\ b \in listed
  BY <1>3 DEF EntryIsMapping, Found
<1>5. bufo[b] \in Entries /\ guest[b] \in Pointers /\ b \in Idx
  BY FieldsAre
<1> DEFINE entry == FlushEntry(t, apple)
           pointer == FlushPointer(b, apple)
<1>6. /\ entry.tgt = t /\ entry.explicit = (bufo[b].explicit \/ apple)
      /\ entry.hva = bufo[b].hva /\ entry.mused = bufo[b].mused /\ entry.mapsz = bufo[b].mapsz
      /\ entry.gpa = bufo[b].gpa /\ entry.write = bufo[b].write /\ entry.ocpy = bufo[b].ocpy
  BY <1>1, <1>4, <1>5 DEF FlushEntry, Entries
<1>7. /\ pointer.area = guest[b].area /\ pointer.tgt = guest[b].tgt
      /\ pointer.at = guest[b].at /\ pointer.write = guest[b].write
      /\ pointer.explicit = (guest[b].explicit \/ apple) /\ pointer.unflushed = FALSE
  BY <1>5 DEF FlushPointer, Pointers
<1> HIDE DEF entry, pointer
<1>8. /\ bufo' = [bufo EXCEPT ![b] = entry] /\ listed' = listed
      /\ guest' = [guest EXCEPT ![b] = pointer]
  BY <1>2, <1>4 DEF Inserted, entry, pointer
<1>9. bufo \in [Idx -> Entries] /\ guest \in [Buffers -> Pointers]
  BY DEF TInv, TableTypes, GuestTypes
<1>10. /\ bufo'[b] = entry /\ guest'[b] = pointer
       /\ \A c \in Buffers : c # b => bufo'[c] = bufo[c] /\ guest'[c] = guest[c]
  <2>1. \A c \in Buffers : c \in Idx
    BY DEF Idx
  <2> QED
    BY <1>5, <1>8, <1>9, <2>1
<1>11. \A t2 : ZeroCopy(t2)' <=> ZeroCopy(t2)
  BY <1>2 DEF ZeroCopy
<1>12. \A c \in Buffers : (Live(c)' <=> Live(c)) /\ mapped'[c] = mapped[c]
  BY <1>2 DEF Live
<1>13. LiveInv'
  <2>1. SUFFICES ASSUME NEW c \in Buffers
                 PROVE IF Live(c)' THEN EntryIsMapping(c)' ELSE guest'[c] = NoPointer
    BY DEF LiveInv, NoPointer
  <2>2. CASE c = b
    <3>1. EntryIsMapping(c)'
      <4>1. /\ bufo'[c].tgt = bufo[c].tgt /\ bufo'[c].hva = bufo[c].hva
            /\ bufo'[c].mapsz = bufo[c].mapsz /\ bufo'[c].write = bufo[c].write
            /\ bufo'[c].ocpy = bufo[c].ocpy
        BY <1>2, <1>3, <1>6, <1>10, <2>2 DEF EntryIsMapping
      <4>2. bufo'[c].explicit = guest'[c].explicit
        BY <1>3, <1>6, <1>7, <1>10, <2>2 DEF EntryIsMapping
      <4>3. /\ guest'[c].area = guest[c].area /\ guest'[c].tgt = guest[c].tgt
            /\ guest'[c].write = guest[c].write /\ guest'[c].unflushed = FALSE
        BY <1>7, <1>10, <2>2
      <4> QED
        BY <1>3, <1>8, <1>11, <1>12, <2>2, <4>1, <4>2, <4>3 DEF EntryIsMapping
    <3> QED
      BY <1>2, <1>12, <2>2, <3>1 DEF Live
  <2>3. CASE c # b
    <3>1. Live(c) => EntryIsMapping(c)'
      <4>1. Live(c) => EntryIsMapping(c)
        BY DEF EInv, LiveInv
      <4> QED
        BY <1>8, <1>10, <1>11, <1>12, <2>3, <4>1 DEF EntryIsMapping
    <3>2. ~Live(c) => guest'[c] = NoPointer
      BY <1>10, <2>3 DEF EInv, LiveInv
    <3> QED
      BY <1>12, <3>1, <3>2
  <2> QED
    BY <2>2, <2>3
<1>14. ASSUME StackInv PROVE StackInv'
  <2>1. \A c \in Buffers : /\ InWindow(c)' <=> InWindow(c)
                           /\ bufo'[c].mused = bufo[c].mused /\ bufo'[c].gpa = bufo[c].gpa
                           /\ guest'[c].at = guest[c].at
    BY <1>6, <1>7, <1>10 DEF InWindow
  <2>2. \A c \in Buffers : Top(c)' = Top(c)
    BY <2>1 DEF Top, Align
  <2> QED
    BY <1>2, <1>14, <2>1, <2>2 DEF StackInv, Stacked
<1>15. TidyInv'
  <2>1. SUFFICES ASSUME program = "tidy"
                 PROVE  /\ \A c \in listed' : c \in Buffers /\ Live(c)'
                        /\ \A s \in slots' : \E c \in Slotted' : s = Slot(bufo'[c])
    BY <1>2 DEF TidyInv, Slot, PageFloor, PageCeil, PageOffset
  <2>2. \A c \in Buffers : Slot(bufo'[c]) = Slot(bufo[c]) /\ bufo'[c].tgt = bufo[c].tgt
    BY <1>2, <1>3, <1>6, <1>10 DEF Slot, EntryIsMapping
  <2>3. \A c \in Slotted : c \in Slotted' /\ c \in Buffers
    BY <1>11, <1>12, <2>2 DEF Slotted
  <2>4. \A s \in slots' : \E c \in Slotted' : s = Slot(bufo'[c])
    <3> TAKE s \in slots'
    <3>1. PICK c \in Slotted : s = Slot(bufo[c])
      BY <1>2, <2>1 DEF EInv, TidyInv
    <3> QED
      BY <2>2, <2>3, <3>1
  <2> QED
    BY <1>8, <1>12, <2>1, <2>4 DEF EInv, TidyInv
<1>16. Grounded'
  BY <1>2, <1>8 DEF EInv, Grounded
<1> QED
  BY <1>13, <1>14, <1>15, <1>16 DEF EInv, Kept

\* An unmap gives back the region on top of the stack, and the whole stack with the
\* last entry.
LEMMA EntriesUnmap ==
  ASSUME LastBound, TInv, EInv, NEW t \in Targets, Unmap(t)
  PROVE  Kept
<1>1. PICK b \in Buffers : b = bound[t] /\ b = BufIdx
  BY UsableIs DEF Unmap
<1> DEFINE entry == Found(b)
           used == IF ZeroCopy(entry.tgt) THEN szUsedBuf ELSE Popped(entry)
<1>2. /\ mapped[b] # None /\ mapped' = [mapped EXCEPT ![b] = None]
      /\ guest' = [guest EXCEPT ![b] = NoPointer]
      /\ slots' = (IF ZeroCopy(entry.tgt)
                   THEN {s \in slots : s.start # Slot(entry).start \/ s.size # Slot(entry).size}
                   ELSE slots)
      /\ Freed(b)
      /\ szUsedBuf' = (IF listed \ {b} = {} THEN 0 ELSE used)
      /\ UNCHANGED <<accel, program>>
  BY <1>1 DEF Unmap, MayUnmap, config
<1>3. EntryIsMapping(b)
  BY <1>2 DEF EInv, LiveInv, Live
<1>4. entry = bufo[b] /\ b \in listed
  BY <1>3 DEF EntryIsMapping, Found
<1> HIDE DEF entry
<1>5. /\ guest \in [Buffers -> Pointers] /\ mapped \in [Buffers -> Nat \union {None}]
      /\ bufo \in [Idx -> Entries] /\ b \in Idx
  BY DEF TInv, GuestTypes, LibraryTypes, TableTypes, Idx
<1>6. /\ guest'[b] = NoPointer /\ mapped'[b] = None
      /\ listed' = listed \ {b}
      /\ \A c \in Buffers : c # b => /\ guest'[c] = guest[c] /\ mapped'[c] = mapped[c]
                                     /\ bufo'[c] = bufo[c]
  <2>1. \A c \in Buffers : c \in Idx
    BY DEF Idx
  <2> QED
    BY <1>2, <1>5, <2>1 DEF Freed
<1>7. \A t2 : ZeroCopy(t2)' <=> ZeroCopy(t2)
  BY <1>2 DEF ZeroCopy
<1>8. LiveInv'
  <2>1. SUFFICES ASSUME NEW c \in Buffers
                 PROVE IF Live(c)' THEN EntryIsMapping(c)' ELSE guest'[c] = NoPointer
    BY DEF LiveInv, NoPointer
  <2>2. CASE c = b
    BY <1>6, <2>2 DEF Live
  <2>3. CASE c # b
    <3>1. Live(c)' <=> Live(c)
      BY <1>6, <2>3 DEF Live
    <3>2. Live(c) => EntryIsMapping(c)'
      <4>1. Live(c) => EntryIsMapping(c)
        BY DEF EInv, LiveInv
      <4> QED
        BY <1>6, <1>7, <2>3, <4>1 DEF EntryIsMapping
    <3>3. ~Live(c) => guest'[c] = NoPointer
      BY <1>6, <2>3 DEF EInv, LiveInv
    <3> QED
      BY <3>1, <3>2, <3>3
  <2> QED
    BY <2>2, <2>3
<1>9. ASSUME StackInv PROVE StackInv'
  <2>1. ~InWindow(b)'
    BY <1>6 DEF InWindow, NoPointer
  <2>2. \A c \in Buffers : InWindow(c)' =>
          /\ c # b /\ InWindow(c) /\ Top(c)' = Top(c) /\ c \in listed'
          /\ bufo'[c].mused = bufo[c].mused
    <3> TAKE c \in Buffers
    <3> HAVE InWindow(c)'
    <3>1. c # b
      BY <2>1
    <3>2. InWindow(c)
      BY <1>6, <3>1 DEF InWindow
    <3>3. c \in listed
      BY <3>2, PointerIsLive DEF InWindow, EntryIsMapping, EInv
    <3> QED
      BY <1>6, <3>1, <3>2, <3>3 DEF Top, Align
  <2>3. \A c \in Buffers : InWindow(c) =>
          /\ Stacked(c) /\ Top(c) \in Nat /\ bufo[c].mused \in Nat
          /\ Top(c) > bufo[c].mused /\ szUsedBuf \in Nat
    BY <1>9, FieldsAre, SizeIs DEF StackInv, Top
  <2>4. ASSUME NEW c \in Buffers, InWindow(c)' PROVE Top(c) <= szUsedBuf'
    <3>1. szUsedBuf' = used
      BY <1>2, <1>6, <2>2, <2>4
    <3>2. c # b /\ InWindow(c) /\ Stacked(c) /\ Top(c) > bufo[c].mused
      BY <2>2, <2>3, <2>4
    <3>3. Top(c) <= szUsedBuf
      BY <3>2 DEF Stacked
    <3>4. CASE used = szUsedBuf
      BY <3>1, <3>3, <3>4
    <3>5. CASE used # szUsedBuf
      <4>1. ~ZeroCopy(entry.tgt) /\ szUsedBuf = entry.mused + Align(entry.mapsz)
            /\ used = entry.mused
        BY <3>5 DEF Popped
      <4>2. InWindow(b) /\ szUsedBuf = Top(b) /\ used = bufo[b].mused
        BY <1>3, <1>4, <4>1 DEF EntryIsMapping, InWindow, Top
      <4>3. Top(b) <= bufo[c].mused \/ Top(c) <= bufo[b].mused
        BY <1>9, <3>2, <4>2 DEF StackInv
      <4>4. ~(Top(b) <= bufo[c].mused)
        BY <2>3, <3>2, <3>3, <4>2
      <4> QED
        BY <3>1, <4>2, <4>3, <4>4
    <3> QED
      BY <3>4, <3>5
  <2>5. ASSUME NEW c \in Buffers, InWindow(c)' PROVE Stacked(c)'
    <3>1. Stacked(c) /\ Top(c)' = Top(c) /\ c # b
      BY <2>2, <2>3, <2>5
    <3> QED
      BY <1>6, <2>4, <2>5, <3>1 DEF Stacked
  <2>6. \A c, d \in Buffers : c # d /\ InWindow(c)' /\ InWindow(d)' =>
          Top(c)' <= bufo'[d].mused \/ Top(d)' <= bufo'[c].mused
    BY <1>9, <2>2 DEF StackInv
  <2> QED
    BY <2>5, <2>6 DEF StackInv
<1>10. TidyInv'
  <2>1. SUFFICES ASSUME program = "tidy"
                 PROVE  /\ \A c \in listed' : c \in Buffers /\ Live(c)'
                        /\ \A s \in slots' : \E c \in Slotted' : s = Slot(bufo'[c])
    BY <1>2 DEF TidyInv, Slot, PageFloor, PageCeil, PageOffset
  <2>2. \A c \in listed' : c \in Buffers /\ Live(c)'
    BY <1>6, <2>1 DEF EInv, TidyInv, Live
  <2>3. ASSUME NEW s \in slots' PROVE \E c \in Slotted' : s = Slot(bufo'[c])
    <3>1. s \in slots
      BY <1>2
    <3>2. PICK c \in Slotted : s = Slot(bufo[c])
      BY <2>1, <3>1 DEF EInv, TidyInv
    <3>3. c # b
      <4>1. SUFFICES ASSUME c = b PROVE FALSE
        OBVIOUS
      <4>2. ZeroCopy(entry.tgt)
        BY <1>4, <4>1 DEF Slotted
      <4>3. s = Slot(entry)
        BY <1>4, <3>2, <4>1
      <4> QED
        BY <1>2, <2>3, <4>2, <4>3
    <3>4. c \in Slotted'
      BY <1>6, <1>7, <3>3 DEF Slotted, Live
    <3> QED
      BY <1>6, <3>2, <3>3, <3>4 DEF Slotted
  <2> QED
    BY <2>2, <2>3
<1>11. Grounded'
  BY <1>2, <1>6 DEF Grounded
<1> QED
  BY <1>8, <1>9, <1>10, <1>11 DEF EInv, Kept

\* Buffers that go away leave the regions of the others alone.
LEMMA EntriesForget ==
  ASSUME TInv, EInv, NEW cs \in SUBSET Buffers, Forget(cs), UNCHANGED <<config, bufo>>,
         szUsedBuf' = szUsedBuf, listed' = listed
  PROVE  LiveInv' /\ (StackInv => StackInv')
<1>1. /\ \A c \in Buffers : mapped'[c] = IF c \in cs THEN None ELSE mapped[c]
      /\ \A c \in Buffers : guest'[c] = IF c \in cs THEN NoPointer ELSE guest[c]
  BY DEF Forget
<1>2. LiveInv'
  <2>1. SUFFICES ASSUME NEW c \in Buffers
                 PROVE IF Live(c)' THEN EntryIsMapping(c)' ELSE guest'[c] = NoPointer
    BY DEF LiveInv, NoPointer
  <2>2. CASE c \in cs
    BY <1>1, <2>2 DEF Live
  <2>3. CASE c \notin cs
    <3>1. IF Live(c) THEN EntryIsMapping(c) ELSE guest[c] = NoPointer
      BY DEF EInv, LiveInv
    <3>2. mapped'[c] = mapped[c] /\ guest'[c] = guest[c]
      BY <1>1, <2>3
    <3> QED
      BY <3>1, <3>2 DEF Live, EntryIsMapping, ZeroCopy, config
  <2> QED
    BY <2>2, <2>3
<1>3. ASSUME StackInv PROVE StackInv'
  <2>1. \A c \in Buffers : InWindow(c)' => InWindow(c) /\ guest'[c] = guest[c]
    BY <1>1 DEF InWindow, NoPointer
  <2>2. \A c \in Buffers : Top(c)' = Top(c)
    BY DEF Top, Align
  <2> QED
    BY <1>3, <2>1, <2>2 DEF StackInv, Stacked
<1> QED
  BY <1>2, <1>3

LEMMA EntriesDelete ==
  ASSUME TInv, EInv, NEW b \in Buffers, Delete(b)
  PROVE  Kept
<1>1. /\ Forget({b}) /\ MayForget({b})
      /\ UNCHANGED <<config, table, szUsedBuf, slots>>
  BY DEF Delete
<1>2. LiveInv' /\ (StackInv => StackInv')
  BY <1>1, EntriesForget DEF table
<1>3. TidyInv'
  <2>1. SUFFICES ASSUME program = "tidy"
                 PROVE  /\ \A c \in listed' : c \in Buffers /\ Live(c)'
                        /\ \A s \in slots' : \E c \in Slotted' : s = Slot(bufo'[c])
    BY <1>1 DEF TidyInv, Slot, PageFloor, PageCeil, PageOffset, config
  <2>2. \A c \in Buffers : mapped'[c] = mapped[c]
    BY <1>1, <2>1 DEF Forget, MayForget
  <2>3. Slotted' = Slotted
    BY <1>1, <2>2 DEF Slotted, Live, ZeroCopy, config, table
  <2> QED
    BY <1>1, <2>1, <2>2, <2>3 DEF EInv, TidyInv, Live, table
<1>4. Grounded'
  BY <1>1 DEF EInv, Grounded, table
<1> QED
  BY <1>2, <1>3, <1>4 DEF EInv, Kept

LEMMA EntriesNewContext ==
  ASSUME TInv, EInv, NewContext
  PROVE  Kept
<1>1. \A c \in Buffers : ~Live(c)' /\ guest'[c] = NoPointer
  BY DEF NewContext, Forget, Live
<1>2. LiveInv'
  BY <1>1 DEF LiveInv, NoPointer
<1>3. StackInv'
  BY <1>1 DEF StackInv, InWindow, NoPointer
<1>4. TidyInv'
  <2>1. SUFFICES ASSUME program = "tidy" PROVE slots' = {} /\ listed' = {}
    BY DEF TidyInv, NewContext, config
  <2>2. Slotted = {}
    BY <2>1 DEF NewContext, MayForget, Slotted, Live
  <2> QED
    BY <2>1, <2>2 DEF NewContext, EInv, TidyInv
<1>5. Grounded'
  BY DEF NewContext, Grounded
<1> QED
  BY <1>2, <1>3, <1>4, <1>5 DEF EInv, Kept

LEMMA EntriesWrite ==
  ASSUME TInv, EInv, NEW b \in Buffers, Write(b)
  PROVE  Kept
<1>1. /\ guest' = [guest EXCEPT ![b].unflushed = TRUE]
      /\ UNCHANGED <<accel, program, mapped, listed, bufo, szUsedBuf, slots>>
      /\ mapped[b] # None /\ guest[b].write
  BY DEF Write, config, library, table
<1>2. guest \in [Buffers -> Pointers]
  BY DEF TInv, GuestTypes
<1>3. \A c \in Buffers :
        /\ guest'[c].area = guest[c].area /\ guest'[c].at = guest[c].at
        /\ guest'[c].tgt = guest[c].tgt /\ guest'[c].write = guest[c].write
        /\ guest'[c].explicit = guest[c].explicit
        /\ c # b => guest'[c] = guest[c]
  BY <1>1, <1>2 DEF Pointers
<1>4. \A t : ZeroCopy(t)' <=> ZeroCopy(t)
  BY <1>1 DEF ZeroCopy
<1>5. LiveInv'
  <2>1. SUFFICES ASSUME NEW c \in Buffers
                 PROVE IF Live(c)' THEN EntryIsMapping(c)' ELSE guest'[c] = NoPointer
    BY DEF LiveInv, NoPointer
  <2>2. IF Live(c) THEN EntryIsMapping(c) ELSE guest[c] = NoPointer
    BY DEF EInv, LiveInv
  <2>3. Live(c)' <=> Live(c)
    BY <1>1 DEF Live
  <2>4. guest[b].write = TRUE
    BY <1>1, <1>2 DEF Pointers
  <2>5. Live(c) => EntryIsMapping(c)'
    BY <1>1, <1>3, <1>4, <2>2, <2>4 DEF EntryIsMapping
  <2>6. ~Live(c) => c # b
    BY <1>1 DEF Live
  <2> QED
    BY <1>3, <2>2, <2>3, <2>5, <2>6
<1>6. ASSUME StackInv PROVE StackInv'
  <2>1. \A c \in Buffers : Top(c)' = Top(c) /\ (InWindow(c)' <=> InWindow(c))
    BY <1>1, <1>3 DEF Top, Align, InWindow
  <2> QED
    BY <1>1, <1>3, <1>6, <2>1 DEF StackInv, Stacked
<1>7. TidyInv'
  <2>1. Slotted' = Slotted
    BY <1>1 DEF Slotted, Live, ZeroCopy
  <2> QED
    BY <1>1, <2>1 DEF EInv, TidyInv, Live, Slot, PageFloor, PageCeil, PageOffset
<1>8. Grounded'
  BY <1>1 DEF EInv, Grounded
<1> QED
  BY <1>5, <1>6, <1>7, <1>8 DEF EInv, Kept

LEMMA EntriesNext ==
  ASSUME LastBound
  PROVE  TInv /\ EInv /\ [Next]_vars => Kept
<1> SUFFICES ASSUME TInv, EInv, [Next]_vars PROVE Kept
  OBVIOUS
<1>1. ASSUME NEW t \in Targets, NEW b \in Idx, Bind(t, b) PROVE Kept
  BY <1>1, EntriesUnchanged DEF Bind
<1>2. ASSUME NEW t \in Targets, NEW acc \in Access, NEW hva, Map(t, acc, hva) PROVE Kept
  BY <1>2, EntriesMap
<1>3. ASSUME NEW t \in Targets, NEW apple \in BOOLEAN, FlushRange(t, apple) PROVE Kept
  BY <1>3, EntriesFlush
<1>4. ASSUME NEW t \in Targets, Unmap(t) PROVE Kept
  BY <1>4, EntriesUnmap
<1>5. ASSUME NEW b \in Buffers, Delete(b) PROVE Kept
  BY <1>5, EntriesDelete
<1>6. ASSUME NEW b \in Buffers, Write(b) PROVE Kept
  BY <1>6, EntriesWrite
<1>7. CASE NewContext
  BY <1>7, EntriesNewContext
<1>8. CASE UNCHANGED vars
  BY <1>8, EntriesUnchanged DEF vars, library
<1> QED
  BY <1>1, <1>2, <1>3, <1>4, <1>5, <1>6, <1>7, <1>8 DEF Next

-----------------------------------------------------------------------------
(* Regions are apart, and what a tidy program took is given back.          *)

\* Regions that are stacked are apart.
LEMMA StackedApart ==
  ASSUME TInv, EInv, StackInv, NEW b \in Buffers, NEW c \in Buffers, b # c,
         InWindow(b), InWindow(c)
  PROVE  Region(b) \cap Region(c) = {}
<1>1. /\ Top(b) = bufo[b].mused + Align(Size[b]) /\ guest[b].at = FbtSize - Top(b)
      /\ Top(c) = bufo[c].mused + Align(Size[c]) /\ guest[c].at = FbtSize - Top(c)
  BY DEF StackInv, Stacked, Top
<1>2. /\ bufo[b].mused \in Nat /\ bufo[c].mused \in Nat /\ FbtSize \in Nat
      /\ Align(Size[b]) \in Nat /\ Align(Size[c]) \in Nat
  BY FieldsAre, SizeIs, ConstantsAssumption
<1>3. Top(b) <= bufo[c].mused \/ Top(c) <= bufo[b].mused
  BY DEF StackInv
<1>4. \A m, n, x, y, a \in Int :
        (m + x <= n \/ n + y <= m)
          => ~(/\ a >= FbtSize - (m + x) /\ a <= FbtSize - (m + x) + x - 1
               /\ a >= FbtSize - (n + y) /\ a <= FbtSize - (n + y) + y - 1)
  BY <1>2
<1>5. SUFFICES ASSUME NEW a \in Region(b), a \in Region(c) PROVE FALSE
  OBVIOUS
<1>6. /\ a \in Int
      /\ a >= guest[b].at /\ a <= guest[b].at + Align(Size[b]) - 1
      /\ a >= guest[c].at /\ a <= guest[c].at + Align(Size[c]) - 1
  BY <1>1, <1>2, <1>5 DEF Region
<1> QED
  BY <1>1, <1>2, <1>3, <1>4, <1>6

\* A tidy program that has nothing mapped has nothing left.
LEMMA NothingTaken == EInv => Reclaimed
<1> SUFFICES ASSUME EInv, program = "tidy", \A b \in Buffers : mapped[b] = None
             PROVE  szUsedBuf = 0 /\ listed = {} /\ slots = {}
  BY DEF Reclaimed
<1>1. listed = {}
  BY DEF EInv, TidyInv, Live
<1>2. Slotted = {}
  BY DEF Slotted, Live
<1> QED
  BY <1>1, <1>2 DEF EInv, TidyInv, Grounded

LEMMA EntriesAlways ==
  ASSUME LastBound
  PROVE  Spec => []EInv
<1>1. Init => TInv /\ EInv
  BY TypesInit, EntriesInit
<1>2. TInv /\ EInv /\ [Next]_vars => TInv' /\ EInv'
  BY TypesNext, EntriesNext DEF Kept
<1> QED
  BY <1>1, <1>2, PTL DEF Spec

LEMMA StackAlways ==
  ASSUME LastBound
  PROVE  Spec /\ []HasRoom => []StackInv
<1>1. Init => StackInv
  BY EntriesInit
<1>2. TInv /\ EInv /\ HasRoom /\ StackInv /\ [Next]_vars => StackInv'
  BY EntriesNext DEF Kept
<1>3. Spec => []TInv /\ []EInv
  BY TypesAlways, EntriesAlways, PTL
<1> QED
  BY <1>1, <1>2, <1>3, PTL DEF Spec

\* When a program that unmaps before it deletes has nothing mapped, the window, the
\* table and the guest's physical memory are free again (glUnmapBuffer and FreeBufObj
\* undo glMapBuffer whatever the order of the unmaps), however full the window was.
THEOREM Reclaims ==
  ASSUME LastBound
  PROVE  Spec => []Reclaimed
<1>1. Spec => []EInv
  BY EntriesAlways
<1>2. EInv => Reclaimed
  BY NothingTaken
<1> QED
  BY <1>1, <1>2, PTL

\* As long as szUsedBuf stays inside the window, no two mapped buffers share a word
\* of it, though an unmap below the top of the stack leaves a hole and the next
\* mapping goes on top: for tidy and careless programs, one-copy and mixed hosts.
THEOREM RegionsApart ==
  ASSUME LastBound
  PROVE  Spec /\ []HasRoom => []OwnRegion
<1>1. Spec => []TInv /\ []EInv
  BY TypesAlways, EntriesAlways, PTL
<1>2. Spec /\ []HasRoom => []StackInv
  BY StackAlways
<1>3. TInv /\ EInv /\ StackInv => OwnRegion
  BY StackedApart DEF OwnRegion
<1> QED
  BY <1>1, <1>2, <1>3, PTL

-----------------------------------------------------------------------------
(* Room.                                                                   *)

\* Every mapping takes at most M words.
RoomInv(M) == szUsedBuf <= maps * M /\ maps <= MaxMaps

LEMMA RoomNext ==
  ASSUME NEW M \in Nat, \A b \in Buffers : Align(Size[b]) <= M
  PROVE  TInv /\ RoomInv(M) /\ [Next]_vars => RoomInv(M)'
<1> SUFFICES ASSUME TInv, RoomInv(M), [Next]_vars PROVE RoomInv(M)'
  OBVIOUS
<1>1. szUsedBuf \in Nat /\ maps \in Nat /\ MaxMaps \in Nat
  BY ConstantsAssumption DEF TInv, TableTypes, GuestTypes
<1>2. \A m \in Nat : m * M \in Nat /\ (m + 1) * M = m * M + M
  OBVIOUS
<1>3. ASSUME szUsedBuf' \in Nat, szUsedBuf' <= szUsedBuf, maps' = maps PROVE RoomInv(M)'
  BY <1>1, <1>2, <1>3 DEF RoomInv
<1>4. ASSUME NEW t \in Targets, NEW b \in Idx, Bind(t, b) PROVE RoomInv(M)'
  BY <1>1, <1>3, <1>4 DEF Bind
<1>5. ASSUME NEW t \in Targets, NEW acc \in Access, NEW hva, Map(t, acc, hva)
      PROVE  RoomInv(M)'
  <2>1. PICK b \in Buffers : b = bound[t]
    BY <1>5, UsableIs DEF Map
  <2>2. szUsedBuf' = (IF ZeroCopy(t) THEN Used ELSE Used + Align(Size[b]))
    BY <1>5, <2>1, MapIs
  <2>3. Used \in Nat /\ Used <= szUsedBuf
    BY <1>1, ConstantsAssumption DEF Used
  <2>4. Align(Size[b]) \in Nat /\ Align(Size[b]) <= M
    BY SizeIs
  <2>5. szUsedBuf' <= szUsedBuf + M /\ szUsedBuf' \in Nat
    BY <1>1, <2>2, <2>3, <2>4
  <2>6. maps' = maps + 1 /\ maps < MaxMaps
    BY <1>5 DEF Map
  <2>7. (maps + 1) * M = maps * M + M /\ maps * M \in Nat
    BY <1>1, <1>2
  <2>8. szUsedBuf' <= maps' * M
    BY <1>1, <2>5, <2>6, <2>7 DEF RoomInv
  <2> QED
    BY <1>1, <2>6, <2>8 DEF RoomInv
<1>6. ASSUME NEW t \in Targets, NEW apple \in BOOLEAN, FlushRange(t, apple) PROVE RoomInv(M)'
  BY <1>1, <1>3, <1>6 DEF FlushRange
<1>7. ASSUME NEW t \in Targets, Unmap(t) PROVE RoomInv(M)'
  <2> DEFINE entry == Found(BufIdx)
  <2>1. szUsedBuf' \in {0, szUsedBuf, Popped(entry)} /\ maps' = maps
    BY <1>7 DEF Unmap
  <2>2. entry \in Entries
    BY FoundTypes DEF TInv, LibraryTypes
  <2>3. entry.mused \in Nat /\ Align(entry.mapsz) \in Nat
    BY <2>2, Rounding DEF Entries
  <2> HIDE DEF entry
  <2>4. Popped(entry) \in Nat /\ Popped(entry) <= szUsedBuf
    BY <1>1, <2>3 DEF Popped
  <2> QED
    BY <1>1, <1>3, <2>1, <2>4
<1>8. ASSUME NEW b \in Buffers, Delete(b) PROVE RoomInv(M)'
  BY <1>1, <1>3, <1>8 DEF Delete
<1>9. ASSUME NEW b \in Buffers, Write(b) PROVE RoomInv(M)'
  BY <1>1, <1>3, <1>9 DEF Write
<1>10. CASE NewContext
  BY <1>1, <1>3, <1>10 DEF NewContext
<1>11. CASE UNCHANGED vars
  BY <1>1, <1>3, <1>11 DEF vars
<1> QED
  BY <1>4, <1>5, <1>6, <1>7, <1>8, <1>9, <1>10, <1>11 DEF Next

\* A window as large as all the mappings of a behaviour together has room.
THEOREM RoomSuffices ==
  ASSUME NEW M \in Nat, \A b \in Buffers : Align(Size[b]) <= M, MaxMaps * M <= FbtSize
  PROVE  Spec => []HasRoom
<1>1. Init => RoomInv(M)
  BY ConstantsAssumption DEF Init, RoomInv
<1>2. TInv /\ RoomInv(M) /\ [Next]_vars => RoomInv(M)'
  BY RoomNext
<1>3. TInv /\ RoomInv(M) => HasRoom
  <2> SUFFICES ASSUME TInv, RoomInv(M) PROVE HasRoom
    OBVIOUS
  <2>1. /\ maps \in Nat /\ MaxMaps \in Nat /\ maps <= MaxMaps /\ FbtSize \in Nat
        /\ szUsedBuf \in Nat
    BY ConstantsAssumption DEF TInv, TableTypes, GuestTypes, RoomInv
  <2>2. PICK d \in Nat : MaxMaps = maps + d
    <3>1. MaxMaps - maps \in Nat /\ MaxMaps = maps + (MaxMaps - maps)
      BY <2>1
    <3> QED
      BY <3>1
  <2>3. d * M \in Nat /\ maps * M \in Nat /\ MaxMaps * M = maps * M + d * M
    BY <2>1, <2>2
  <2> QED
    BY <2>1, <2>3 DEF RoomInv, HasRoom
<1> QED
  BY <1>1, <1>2, <1>3, TypesAlways, PTL DEF Spec

-----------------------------------------------------------------------------
(* Zero-copy: places in the MBUFO area, for tidy programs and mappings of  *)
(* whole pages.                                                            *)

Paged ==
  /\ Programs \subseteq {"tidy"} /\ MbufoSize % Page = 0
  /\ \A b \in Buffers :
       /\ Size[b] % Page = 0
       /\ \A h \in Hvas[b] : h % Page = 0 /\ (h % MbufoSize) + Size[b] < MbufoSize - 1
OneCopy == Accels \subseteq {"none"}

\* The slot of an entry of whole pages.
LEMMA SlotIs ==
  ASSUME NEW e \in Entries, e.gpa % Page = 0, e.hva % Page = 0, e.mapsz % Page = 0,
         e.gpa < MbufoSize
  PROVE  Slot(e) = [start |-> e.gpa, size |-> e.mapsz, host |-> e.hva]
<1>1. e.gpa \in Nat /\ e.hva \in Nat /\ e.mapsz \in Nat
  BY DEF Entries
<1>2. MbufoSize \in Nat \ {0}
  BY ConstantsAssumption
<1>3. e.gpa % MbufoSize = e.gpa
  <2>1. MbufoSize * 0 + e.gpa = e.gpa
    BY <1>1, <1>2
  <2>2. (MbufoSize * 0 + e.gpa) % MbufoSize = e.gpa
    BY <1>1, <1>2, <2>1, RemainderIs
  <2> QED
    BY <2>1, <2>2
<1>4. PageFloor(e.gpa) = e.gpa /\ PageFloor(e.hva) = e.hva /\ PageOffset(e.hva) = 0
  BY <1>1, PagesStay
<1>5. PageCeil(e.mapsz + PageOffset(e.hva)) = e.mapsz
  BY <1>1, <1>4, PagesStay
<1> QED
  BY <1>3, <1>4, <1>5 DEF Slot

\* What MapBufObjGpa chooses is whole pages, inside the area and apart from what is there.
LEMMA PlaceIs ==
  ASSUME Paged, TInv, EInv, PlaceInv, program = "tidy",
         NEW b \in Buffers, ~Live(b), NEW h \in Hvas[b],
         NEW g, g = MapBufObjGpa(b, h, Size[b]), g # 0
  PROVE  /\ g \in Nat /\ g % Page = 0 /\ g + Size[b] <= MbufoSize
         /\ \A c \in Slotted : \/ g + Size[b] <= bufo[c].gpa
                               \/ bufo[c].gpa + Size[c] <= g
<1>1. /\ b \in Idx /\ b \notin listed /\ TableTypes
      /\ \A c \in Slotted : c \in listed /\ c \in Buffers /\ c \in Idx
  BY FieldsAre DEF TInv, EInv, TidyInv, Slotted, LiveInv, EntryIsMapping, Idx
<1>2. Front(b) = listed
  BY <1>1 DEF Front
<1>3. PICK lo \in Starts(b), hi \in Ends(b) :
        /\ lo \in Nat /\ \A s \in Starts(b) : s \in Nat /\ lo <= s
        /\ hi \in Nat /\ \A e \in Ends(b) : e \in Nat /\ hi >= e
        /\ g = PlaceBetween(b, lo, hi, h, Size[b])
  BY <1>1, GpaIs
<1>4. /\ MbufoSize \in Nat \ {0} /\ Page \in Nat \ {0} /\ h \in Nat
      /\ Size[b] \in Nat /\ Size[b] > 0 /\ Size[b] % Page = 0
  BY SizeIs, ConstantsAssumption DEF Paged
<1>5. Length(h, Size[b]) = Size[b]
  <2>1. h % Page = 0
    BY DEF Paged
  <2>2. Align(Size[b]) = Size[b] /\ PageOffset(h) = 0
    BY <1>4, <2>1, PagesStay
  <2> QED
    BY <1>4, <2>2 DEF Length
<1>6. Own(h) \in Nat /\ Own(h) % Page = 0 /\ Own(h) + Size[b] < MbufoSize - 1
  <2>1. Own(h) \in Nat /\ Own(h) + Size[b] < MbufoSize - 1
    BY <1>4 DEF Own, Paged
  <2>2. PICK p \in Int, q \in Int : h = Page * p /\ MbufoSize = Page * q
    BY <1>4, Multiples DEF Paged
  <2>3. h = MbufoSize * (h \div MbufoSize) + Own(h) /\ h \div MbufoSize \in Int
    BY <1>4 DEF Own
  <2> DEFINE k == h \div MbufoSize
  <2>4. k \in Int /\ h = MbufoSize * k + Own(h)
    BY <2>3
  <2> HIDE DEF k
  <2>5. MbufoSize * k = Page * (q * k)
    BY <1>4, <2>2, <2>4
  <2>6. Own(h) = Page * p - Page * (q * k)
    BY <2>1, <2>2, <2>4, <2>5
  <2>7. Own(h) = Page * (p - q * k) /\ p - q * k \in Int
    BY <1>4, <2>2, <2>4, <2>6
  <2> QED
    BY <1>4, <2>1, <2>7, Multiples
<1>7. \A c \in Slotted :
        /\ bufo[c].gpa \in Nat /\ Size[c] \in Nat
        /\ lo <= bufo[c].gpa /\ hi >= bufo[c].gpa + Size[c]
  <2> TAKE c \in Slotted
  <2>1. /\ bufo[c].gpa \in Nat /\ Size[c] \in Nat /\ Size[c] % Page = 0
        /\ bufo[c].gpa % Page = 0 /\ bufo[c].mapsz = Size[c]
        /\ bufo[c].hva = mapped[c] /\ mapped[c] % Page = 0 /\ bufo[c].hva \in Nat
    BY <1>1, FieldsAre, SizeIs
       DEF Slotted, EInv, LiveInv, EntryIsMapping, PlaceInv, WellPlaced, Paged
  <2>2. PageFloor(bufo[c].gpa) = bufo[c].gpa /\ PageOffset(bufo[c].hva) = 0
    BY <2>1, PagesStay
  <2>3. EndOf(c) = bufo[c].gpa + Size[c]
    <3>1. (bufo[c].gpa + Size[c]) % Page = 0 /\ bufo[c].gpa + Size[c] \in Nat
      BY <1>4, <2>1, WholePages
    <3>2. PageFloor(bufo[c].gpa + Size[c]) = bufo[c].gpa + Size[c]
      BY <3>1, PagesStay
    <3>3. bufo[c].gpa + bufo[c].mapsz + PageOffset(bufo[c].hva) = bufo[c].gpa + Size[c]
      BY <2>1, <2>2
    <3> QED
      BY <3>2, <3>3 DEF EndOf
  <2>4. bufo[c].gpa \in Starts(b) /\ EndOf(c) \in Ends(b)
    <3>1. c \in Front(b)
      BY <1>1, <1>2
    <3>2. PageFloor(bufo[c].gpa) \in Starts(b) /\ EndOf(c) \in Ends(b)
      BY <3>1 DEF Starts, Ends
    <3> QED
      BY <2>2, <3>2
  <2> QED
    BY <1>3, <2>1, <2>3, <2>4
<1>8. lo <= MbufoSize - 1 /\ (lo # MbufoSize - 1 => lo % Page = 0)
  <2>1. MbufoSize - 1 \in Starts(b)
    BY DEF Starts
  <2>2. \A y \in listed : bufo[y].gpa \in Nat
    BY DEF TInv, TableTypes, Entries
  <2>3. lo # MbufoSize - 1 => \E y \in listed : lo = PageFloor(bufo[y].gpa)
    BY <1>2, <1>3 DEF Starts
  <2> QED
    BY <1>3, <1>4, <2>1, <2>2, <2>3, Multiples DEF PageFloor, PageOffset
<1>9. hi % Page = 0
  <2>1. \A y \in listed : /\ bufo[y].gpa \in Nat /\ bufo[y].mapsz \in Nat
                          /\ bufo[y].hva \in Nat
    BY DEF TInv, TableTypes, Entries
  <2>2. \A y \in listed :
          bufo[y].gpa + bufo[y].mapsz + PageOffset(bufo[y].hva) \in Nat
    <3> TAKE y \in listed
    <3>1. PageOffset(bufo[y].hva) \in Nat
      BY <2>1, Rounding
    <3> QED
      BY <2>1, <3>1
  <2>3. \A y \in listed : EndOf(y) % Page = 0
    BY <1>4, <2>2, Multiples DEF EndOf, PageFloor, PageOffset
  <2>4. 0 % Page = 0
    BY <1>4
  <2>5. hi = 0 \/ \E y \in listed : hi = EndOf(y)
    BY <1>2, <1>3 DEF Ends
  <2> QED
    BY <2>3, <2>4, <2>5
<1>10. \/ g = Own(h) /\ (listed = {} \/ g + Size[b] < lo \/ g >= hi)
       \/ g = lo - Size[b] /\ lo > Size[b] /\ ~(Own(h) + Size[b] < lo)
       \/ g = hi /\ hi + Size[b] < MbufoSize
  BY <1>2, <1>3, <1>5 DEF PlaceBetween
<1>11. CASE g = Own(h) /\ (listed = {} \/ g + Size[b] < lo \/ g >= hi)
  BY <1>1, <1>3, <1>4, <1>6, <1>7, <1>11
<1>12. CASE g = lo - Size[b] /\ lo > Size[b] /\ ~(Own(h) + Size[b] < lo)
  <2>1. lo # MbufoSize - 1
    BY <1>6, <1>12
  <2>2. g % Page = 0
    BY <1>3, <1>4, <1>8, <1>12, <2>1, WholePages
  <2>3. g \in Nat /\ g + Size[b] = lo
    BY <1>3, <1>4, <1>12
  <2> QED
    BY <1>4, <1>7, <1>8, <2>2, <2>3
<1>13. CASE g = hi /\ hi + Size[b] < MbufoSize
  BY <1>3, <1>4, <1>7, <1>9, <1>13
<1> QED
  BY <1>10, <1>11, <1>12, <1>13

\* One-copy hosts have no zero-copy mappings; else programs are tidy.
LEMMA OneCopyOrTidy ==
  ASSUME OneCopy \/ Paged, TInv
  PROVE  /\ OneCopy => accel = "none" /\ (\A t : ZeroCopy(t) = FALSE) /\ Slotted = {}
         /\ ~OneCopy => Paged /\ program = "tidy"
<1>1. OneCopy => accel = "none" /\ (\A t : ZeroCopy(t) = FALSE)
  BY DEF OneCopy, TInv, GuestTypes, ZeroCopy
<1>2. OneCopy => Slotted = {}
  BY <1>1 DEF Slotted
<1> QED
  BY <1>1, <1>2 DEF Paged, TInv, GuestTypes

\* Steps that add no zero-copy mapping and move none.
LEMMA PlacesSame ==
  ASSUME PlaceInv, \A c \in Slotted' : c \in Slotted,
         \A c \in Slotted' : /\ bufo'[c].gpa = bufo[c].gpa /\ mapped'[c] = mapped[c]
                             /\ bufo'[c].ocpy = bufo[c].ocpy /\ guest'[c].at = guest[c].at
                             /\ OwnSlot(c) \in slots'
  PROVE  PlaceInv'
<1>1. \A c \in Slotted' : WellPlaced(c)' /\ OwnSlot(c)' = OwnSlot(c)
  BY DEF PlaceInv, WellPlaced, OwnSlot
<1> QED
  BY <1>1 DEF PlaceInv

\* The slot of a mapping is its own.
LEMMA SlotIsOwn ==
  ASSUME Paged, TInv, EInv, PlaceInv, NEW b \in Slotted
  PROVE  /\ Slot(bufo[b]) = OwnSlot(b) /\ bufo[b].gpa \in Nat /\ mapped[b] \in Nat
         /\ Size[b] \in Nat /\ Size[b] > 0 /\ b \in Buffers /\ EntryIsMapping(b)
<1>1. b \in Buffers /\ EntryIsMapping(b) /\ WellPlaced(b)
  BY DEF Slotted, EInv, LiveInv, PlaceInv
<1>2. /\ bufo[b] \in Entries /\ bufo[b].hva = mapped[b] /\ bufo[b].mapsz = Size[b]
      /\ bufo[b].gpa \in Nat /\ bufo[b].hva \in Nat /\ Size[b] \in Nat /\ Size[b] > 0
  BY <1>1, FieldsAre, SizeIs DEF EntryIsMapping
<1>3. /\ bufo[b].gpa % Page = 0 /\ bufo[b].hva % Page = 0 /\ bufo[b].mapsz % Page = 0
      /\ bufo[b].gpa + Size[b] <= MbufoSize
  BY <1>1, <1>2 DEF WellPlaced, Paged
<1>4. bufo[b].gpa < MbufoSize
  BY <1>2, <1>3, ConstantsAssumption
<1>5. Slot(bufo[b]) = OwnSlot(b)
  BY <1>2, <1>3, <1>4, SlotIs DEF OwnSlot
<1> QED
  BY <1>1, <1>2, <1>5

LEMMA PlacesMap ==
  ASSUME LastBound, Paged, TInv, EInv, PlaceInv, HasPlace', EInv', TInv',
         NEW t \in Targets, NEW acc \in Access, NEW hva, Map(t, acc, hva)
  PROVE  PlaceInv'
<1>1. PICK b \in Buffers : b = bound[t] /\ b = BufIdx
  BY UsableIs DEF Map
<1> DEFINE entry == MapEntry(t, acc, hva)
           pointer == MapPointer(t, acc, hva)
<1>2. /\ mapped[b] = None /\ mapped' = [mapped EXCEPT ![b] = hva] /\ hva \in Hvas[b]
      /\ UNCHANGED <<accel, program>>
  BY <1>1 DEF Map, config
<1>3. /\ bufo' = [bufo EXCEPT ![BufIdx] = entry]
      /\ guest' = [guest EXCEPT ![bound[t]] = pointer]
      /\ slots' = (IF ZeroCopy(t) THEN slots \union {Slot(entry)} ELSE slots)
  BY MapIs
<1>4. hva \in Nat /\ ~Live(b) /\ program = "tidy"
  BY <1>2, OneCopyOrTidy, ConstantsAssumption DEF Live, Paged, TInv, GuestTypes
<1>5. entry \in Entries
  BY <1>1, <1>4, MapEntryTypes
<1>6. /\ entry.tgt = t /\ entry.hva = hva /\ entry.mapsz = Size[b]
      /\ entry.gpa = MapGpa(t, hva)
  BY <1>1 DEF MapEntry
<1>7. entry.ocpy = ~ZeroCopy(t)
  <2>1. b \notin listed
    BY <1>4 DEF EInv, TidyInv
  <2>2. Found(BufIdx).ocpy = FALSE
    BY <1>1, <2>1 DEF Found, Blank
  <2> QED
    BY <2>2 DEF MapEntry
<1>8. ZeroCopy(t) => pointer.at = MapGpa(t, hva) /\ MapGpa(t, hva) = MapBufObjGpa(b, hva, Size[b])
  BY <1>1 DEF MapPointer, MapGpa
<1> HIDE DEF entry, pointer
<1>9. /\ bufo'[b] = entry /\ guest'[b] = pointer /\ mapped'[b] = hva
      /\ \A c \in Buffers : c # b => /\ bufo'[c] = bufo[c] /\ guest'[c] = guest[c]
                                     /\ mapped'[c] = mapped[c]
  <2>1. \A c \in Buffers : c \in Idx
    BY DEF Idx
  <2> QED
    BY <1>1, <1>2, <1>3, <2>1 DEF TInv, TableTypes, GuestTypes, LibraryTypes
<1>10. \A t2 : ZeroCopy(t2)' <=> ZeroCopy(t2)
  BY <1>2 DEF ZeroCopy
<1>11. \A c \in Slotted' : c # b => c \in Slotted
  BY <1>9, <1>10 DEF Slotted, Live
<1>12. CASE ~ZeroCopy(t)
  <2>1. b \notin Slotted'
    BY <1>6, <1>9, <1>10, <1>12 DEF Slotted
  <2>2. \A c \in Slotted' : c \in Slotted /\ c # b /\ c \in Buffers /\ OwnSlot(c) \in slots
    BY <1>11, <2>1 DEF PlaceInv, WellPlaced, Slotted
  <2> QED
    BY <1>3, <1>9, <1>12, <2>2, PlacesSame
<1>13. CASE ZeroCopy(t)
  <2> DEFINE g == entry.gpa
  <2>1. b \in Slotted'
    <3>1. hva # None
      BY <1>4 DEF None
    <3> QED
      BY <1>6, <1>9, <1>10, <1>13, <3>1 DEF Slotted, Live
  <2>2. g = MapBufObjGpa(b, hva, Size[b]) /\ g # 0
    BY <1>6, <1>8, <1>9, <1>13, <2>1 DEF HasPlace
  <2>3. /\ g \in Nat /\ g % Page = 0 /\ g + Size[b] <= MbufoSize
        /\ \A c \in Slotted : g + Size[b] <= bufo[c].gpa \/ bufo[c].gpa + Size[c] <= g
    BY <1>2, <1>4, <2>2, PlaceIs
  <2>4. /\ Size[b] \in Nat /\ Size[b] > 0 /\ Size[b] % Page = 0 /\ hva % Page = 0
        /\ g < MbufoSize
    <3>1. Size[b] \in Nat /\ Size[b] > 0 /\ Size[b] % Page = 0 /\ hva % Page = 0
      BY <1>2, SizeIs DEF Paged
    <3> QED
      BY <2>3, <3>1, ConstantsAssumption
  <2>5. Slot(entry) = [start |-> g, size |-> Size[b], host |-> hva]
    BY <1>5, <1>6, <2>3, <2>4, SlotIs
  <2>6. WellPlaced(b)'
    <3>1. OwnSlot(b)' = Slot(entry)
      BY <1>9, <2>5 DEF OwnSlot
    <3>2. OwnSlot(b)' \in slots'
      BY <1>3, <1>13, <3>1
    <3>3. guest'[b].at = g
      BY <1>6, <1>8, <1>9, <1>13
    <3> QED
      BY <1>7, <1>9, <1>13, <2>3, <2>4, <3>2, <3>3 DEF WellPlaced
  <2>7. \A c \in Slotted' : c # b =>
          /\ WellPlaced(c)' /\ bufo'[c] = bufo[c] /\ c \in Slotted /\ c \in Buffers
    <3> TAKE c \in Slotted'
    <3> HAVE c # b
    <3>1. c \in Slotted /\ c \in Buffers
      BY <1>11 DEF Slotted
    <3>2. bufo'[c] = bufo[c] /\ guest'[c] = guest[c] /\ mapped'[c] = mapped[c]
      BY <1>9, <3>1
    <3>3. OwnSlot(c)' = OwnSlot(c) /\ slots \subseteq slots'
      BY <1>3, <3>2 DEF OwnSlot
    <3> QED
      BY <3>1, <3>2, <3>3 DEF PlaceInv, WellPlaced
  <2>8. ASSUME NEW c \in Slotted', NEW d \in Slotted', c # d
        PROVE  \/ bufo'[c].gpa + Size[c] <= bufo'[d].gpa
               \/ bufo'[d].gpa + Size[d] <= bufo'[c].gpa
    <3>1. CASE c = b
      BY <1>9, <2>3, <2>7, <2>8, <3>1
    <3>2. CASE d = b
      BY <1>9, <2>3, <2>7, <2>8, <3>2
    <3>3. CASE c # b /\ d # b
      BY <2>7, <2>8, <3>3 DEF PlaceInv
    <3> QED
      BY <3>1, <3>2, <3>3
  <2>9. \A c \in Slotted' : WellPlaced(c)'
    BY <2>6, <2>7
  <2> QED
    BY <2>8, <2>9 DEF PlaceInv
<1> QED
  BY <1>12, <1>13

LEMMA PlacesFlush ==
  ASSUME LastBound, TInv, EInv, PlaceInv,
         NEW t \in Targets, NEW apple \in BOOLEAN, FlushRange(t, apple)
  PROVE  PlaceInv'
<1>1. PICK b \in Buffers : b = bound[t] /\ b = BufIdx
  BY UsableIs DEF FlushRange
<1>2. /\ mapped[b] # None /\ guest[b].tgt = t
      /\ Inserted(b, FlushEntry(t, apple))
      /\ guest' = [guest EXCEPT ![b] = FlushPointer(b, apple)]
      /\ UNCHANGED <<accel, mapped, slots>>
  BY <1>1, FlushIs DEF FlushRange, config, library, FlushEntry
<1>3. EntryIsMapping(b)
  BY <1>2 DEF EInv, LiveInv, Live
<1>4. Found(b) = bufo[b] /\ bufo[b] \in Entries /\ guest[b] \in Pointers /\ b \in Idx
  BY <1>3, FieldsAre DEF EntryIsMapping, Found
<1>5. /\ FlushEntry(t, apple).tgt = t
      /\ FlushEntry(t, apple).gpa = bufo[b].gpa /\ FlushEntry(t, apple).ocpy = bufo[b].ocpy
      /\ FlushPointer(b, apple).at = guest[b].at
  BY <1>1, <1>4 DEF FlushEntry, FlushPointer, Entries, Pointers
<1>6. \A c \in Buffers : /\ bufo'[c].gpa = bufo[c].gpa /\ bufo'[c].ocpy = bufo[c].ocpy
                         /\ bufo'[c].tgt = bufo[c].tgt /\ guest'[c].at = guest[c].at
  <2>1. \A c \in Buffers : c \in Idx
    BY DEF Idx
  <2>2. bufo[b].tgt = t
    BY <1>2, <1>3 DEF EntryIsMapping
  <2> QED
    BY <1>2, <1>4, <1>5, <2>1, <2>2 DEF Inserted, TInv, TableTypes, GuestTypes
<1>7. \A c \in Slotted' : c \in Slotted /\ c \in Buffers
  BY <1>2, <1>6 DEF Slotted, Live, ZeroCopy
<1>8. \A c \in Slotted' : OwnSlot(c) \in slots'
  BY <1>2, <1>7 DEF PlaceInv, WellPlaced
<1> QED
  BY <1>2, <1>6, <1>7, <1>8, PlacesSame

\* An unmap takes no slot but its own.
LEMMA PlacesUnmap ==
  ASSUME LastBound, Paged, TInv, EInv, PlaceInv, NEW t \in Targets, Unmap(t)
  PROVE  PlaceInv'
<1>1. PICK b \in Buffers : b = bound[t] /\ b = BufIdx
  BY UsableIs DEF Unmap
<1>2. /\ mapped[b] # None /\ mapped' = [mapped EXCEPT ![b] = None]
      /\ guest' = [guest EXCEPT ![b] = NoPointer]
      /\ slots' = (IF ZeroCopy(Found(b).tgt)
                   THEN {s \in slots : \/ s.start # Slot(Found(b)).start
                                       \/ s.size # Slot(Found(b)).size}
                   ELSE slots)
      /\ Freed(b)
      /\ UNCHANGED <<accel, program>>
  BY <1>1 DEF Unmap, MayUnmap, config
<1>3. EntryIsMapping(b) /\ Live(b)
  BY <1>2 DEF EInv, LiveInv, Live
<1>4. Found(b) = bufo[b] /\ b \in Idx
  BY <1>3 DEF EntryIsMapping, Found, Idx
<1>5. /\ mapped'[b] = None
      /\ \A c \in Buffers : c # b => /\ guest'[c] = guest[c] /\ mapped'[c] = mapped[c]
                                     /\ bufo'[c] = bufo[c]
  <2>1. \A c \in Buffers : c \in Idx
    BY DEF Idx
  <2> QED
    BY <1>2, <1>4, <2>1 DEF Freed, TInv, TableTypes, GuestTypes, LibraryTypes
<1>6. \A c \in Slotted' : c # b /\ c \in Slotted /\ c \in Buffers
  BY <1>2, <1>5 DEF Slotted, Live, ZeroCopy
<1>7. ASSUME NEW c \in Slotted' PROVE OwnSlot(c) \in slots'
  <2>1. c # b /\ c \in Slotted /\ OwnSlot(c) \in slots
    BY <1>6 DEF PlaceInv, WellPlaced
  <2>2. CASE ~ZeroCopy(bufo[b].tgt)
    BY <1>2, <1>4, <2>1, <2>2
  <2>3. CASE ZeroCopy(bufo[b].tgt)
    <3>1. b \in Slotted
      BY <1>3, <2>3 DEF Slotted
    <3>2. Slot(bufo[b]) = OwnSlot(b)
      BY <3>1, SlotIsOwn
    <3>3. bufo[c].gpa # bufo[b].gpa
      <4>1. /\ bufo[c].gpa \in Nat /\ bufo[b].gpa \in Nat
            /\ Size[b] \in Nat /\ Size[b] > 0 /\ Size[c] \in Nat /\ Size[c] > 0
        BY <2>1, <3>1, SlotIsOwn
      <4>2. \/ bufo[b].gpa + Size[b] <= bufo[c].gpa
            \/ bufo[c].gpa + Size[c] <= bufo[b].gpa
        BY <2>1, <3>1 DEF PlaceInv
      <4> QED
        BY <4>1, <4>2
    <3>4. OwnSlot(c).start # Slot(Found(b)).start
      BY <1>4, <3>2, <3>3 DEF OwnSlot
    <3> QED
      BY <1>2, <2>1, <3>4
  <2> QED
    BY <2>2, <2>3
<1> QED
  BY <1>5, <1>6, <1>7, PlacesSame

LEMMA PlacesNext ==
  ASSUME LastBound, OneCopy \/ Paged
  PROVE  TInv /\ EInv /\ PlaceInv /\ TInv' /\ EInv' /\ HasPlace' /\ [Next]_vars => PlaceInv'
<1> SUFFICES ASSUME TInv, EInv, PlaceInv, TInv', EInv', HasPlace', [Next]_vars
             PROVE  PlaceInv'
  OBVIOUS
<1>1. CASE OneCopy
  <2>1. Slotted' = {}
    BY <1>1 DEF OneCopy, TInv, GuestTypes, Slotted, ZeroCopy
  <2> QED
    BY <2>1 DEF PlaceInv
<1>2. CASE ~OneCopy
  <2>1. Paged /\ program = "tidy"
    BY <1>2, OneCopyOrTidy
  <2>2. ASSUME UNCHANGED <<accel, mapped, bufo, slots>>,
               \A c \in Buffers : guest'[c].at = guest[c].at
        PROVE  PlaceInv'
    <3>1. \A c \in Slotted' : c \in Slotted /\ c \in Buffers
      BY <2>2 DEF Slotted, Live, ZeroCopy
    <3>2. \A c \in Slotted' : OwnSlot(c) \in slots'
      BY <2>2, <3>1 DEF PlaceInv, WellPlaced
    <3> QED
      BY <2>2, <3>1, <3>2, PlacesSame
  <2>3. ASSUME NEW t \in Targets, NEW b \in Idx, Bind(t, b) PROVE PlaceInv'
    BY <2>2, <2>3 DEF Bind, config, table
  <2>4. ASSUME NEW t \in Targets, NEW acc \in Access, NEW hva, Map(t, acc, hva)
        PROVE  PlaceInv'
    BY <2>1, <2>4, PlacesMap
  <2>5. ASSUME NEW t \in Targets, NEW apple \in BOOLEAN, FlushRange(t, apple) PROVE PlaceInv'
    BY <2>5, PlacesFlush
  <2>6. ASSUME NEW t \in Targets, Unmap(t) PROVE PlaceInv'
    BY <2>1, <2>6, PlacesUnmap
  <2>7. ASSUME NEW b \in Buffers, Delete(b) PROVE PlaceInv'
    <3>1. mapped[b] = None
      BY <2>1, <2>7 DEF Delete, MayForget
    <3>2. guest[b] = NoPointer
      BY <3>1 DEF EInv, LiveInv, Live
    <3>3. mapped' = mapped /\ \A c \in Buffers : guest'[c] = guest[c]
      BY <2>7, <3>1, <3>2 DEF Delete, Forget, TInv, LibraryTypes
    <3> QED
      BY <2>2, <2>7, <3>3 DEF Delete, config, table
  <2>8. ASSUME NEW b \in Buffers, Write(b) PROVE PlaceInv'
    <3>1. \A c \in Buffers : guest'[c].at = guest[c].at
      BY <2>8 DEF Write, TInv, GuestTypes, Pointers
    <3> QED
      BY <2>2, <2>8, <3>1 DEF Write, config, table, library
  <2>9. CASE NewContext
    <3>1. Slotted' = {}
      BY <2>9 DEF NewContext, Forget, Slotted, Live
    <3> QED
      BY <3>1 DEF PlaceInv
  <2>10. CASE UNCHANGED vars
    BY <2>2, <2>10 DEF vars, config, library, table
  <2> QED
    BY <2>3, <2>4, <2>5, <2>6, <2>7, <2>8, <2>9, <2>10 DEF Next
<1> QED
  BY <1>1, <1>2

LEMMA PlacesAlways ==
  ASSUME LastBound, OneCopy \/ Paged
  PROVE  Spec /\ []HasPlace => []PlaceInv
<1>1. Init => PlaceInv
  BY DEF Init, PlaceInv, Slotted, Live
<1>2. TInv /\ EInv /\ PlaceInv /\ TInv' /\ EInv' /\ HasPlace' /\ [Next]_vars => PlaceInv'
  BY PlacesNext
<1>3. Spec => []TInv /\ []EInv
  BY TypesAlways, EntriesAlways, PTL
<1> QED
  BY <1>1, <1>2, <1>3, PTL DEF Spec

\* Two KVM slots never overlap and none leaves the MBUFO area, for tidy programs and
\* mappings of whole pages, as long as MapBufObjGpa finds room: whatever the order of
\* the mappings, the addresses below and above those in front of it are free.
THEOREM SlotsApart ==
  ASSUME LastBound, Paged
  PROVE  Spec /\ []HasPlace => []SlotsDisjoint
<1>1. Spec => []TInv /\ []EInv
  BY TypesAlways, EntriesAlways, PTL
<1>2. Spec /\ []HasPlace => []PlaceInv
  BY PlacesAlways
<1>3. TInv /\ EInv /\ PlaceInv => SlotsDisjoint
  <2> SUFFICES ASSUME TInv, EInv, PlaceInv, NEW s \in slots
               PROVE  /\ s.start + s.size <= MbufoSize
                      /\ \A r \in slots : s # r => \/ s.start + s.size <= r.start
                                                   \/ r.start + r.size <= s.start
    BY DEF SlotsDisjoint
  <2>1. \A r \in slots : \E c \in Slotted : r = OwnSlot(c)
    <3> TAKE r \in slots
    <3>1. program = "tidy"
      BY DEF Paged, TInv, GuestTypes
    <3>2. PICK c \in Slotted : r = Slot(bufo[c])
      BY <3>1 DEF EInv, TidyInv
    <3> QED
      BY <3>2, SlotIsOwn
  <2>2. PICK b \in Slotted : s = OwnSlot(b)
    BY <2>1
  <2>3. s.start + s.size <= MbufoSize
    BY <2>2 DEF OwnSlot, PlaceInv, WellPlaced
  <2>4. ASSUME NEW r \in slots, s # r
        PROVE  s.start + s.size <= r.start \/ r.start + r.size <= s.start
    <3>1. PICK c \in Slotted : r = OwnSlot(c)
      BY <2>1
    <3>2. b # c
      BY <2>2, <2>4, <3>1
    <3>3. \/ bufo[b].gpa + Size[b] <= bufo[c].gpa
          \/ bufo[c].gpa + Size[c] <= bufo[b].gpa
      BY <3>2 DEF PlaceInv
    <3> QED
      BY <2>2, <3>1, <3>3 DEF OwnSlot
  <2> QED
    BY <2>3, <2>4
<1> QED
  BY <1>1, <1>2, <1>3, PTL

-----------------------------------------------------------------------------
(* Places for all the mappings of a behaviour.                             *)

\* The lowest entry is at most M lower than it was before the last mapping.
DepthInv(M) ==
  /\ maps <= MaxMaps
  /\ \A c \in listed : PageFloor(bufo[c].gpa) + maps * M > MaxMaps * M

\* Addresses beyond the area lie on pages beyond the area.
LEMMA PagesBeyond ==
  ASSUME MbufoSize % Page = 0, NEW x \in Nat, x >= MbufoSize
  PROVE  PageFloor(x) \in Nat /\ PageFloor(x) >= MbufoSize
<1>1. Page \in Nat \ {0} /\ MbufoSize \in Nat
  BY ConstantsAssumption
<1>2. PageFloor(x) \in Nat /\ PageFloor(x) % Page = 0 /\ x < PageFloor(x) + Page
  BY <1>1, Multiples DEF PageFloor, PageOffset
<1>3. PICK p \in Int, q \in Int : PageFloor(x) = Page * p /\ MbufoSize = Page * q
  BY <1>1, <1>2, Multiples
<1>4. Page * q < Page * (p + 1)
  BY <1>1, <1>2, <1>3
<1>5. q < p + 1
  BY <1>1, <1>3, <1>4
<1>6. PICK d \in Nat : p = q + d
  <2>1. p - q \in Nat /\ p = q + (p - q)
    BY <1>3, <1>5
  <2> QED
    BY <2>1
<1>7. Page * p = Page * q + Page * d /\ Page * d \in Nat
  BY <1>1, <1>3, <1>6
<1> QED
  BY <1>1, <1>2, <1>3, <1>7

\* A mapping has the place of its own address or lies just below the lowest entry.
LEMMA PlaceIsHigh ==
  ASSUME TableTypes, NEW b \in Buffers, b \notin listed, NEW h \in Nat,
         PageOffset(h) = 0, Align(Size[b]) = Size[b],
         NEW low \in Nat, h % MbufoSize > low, MbufoSize - 1 > low + Size[b],
         \A c \in listed : PageFloor(bufo[c].gpa) > low + Size[b]
  PROVE  MapBufObjGpa(b, h, Size[b]) > low
<1>1. b \in Idx /\ Front(b) = listed /\ Size[b] \in Nat /\ Length(h, Size[b]) = Size[b]
  BY SizeIs DEF Idx, Front, Length
<1>2. PICK lo \in Starts(b), hi \in Ends(b) :
        lo \in Nat /\ MapBufObjGpa(b, h, Size[b]) = PlaceBetween(b, lo, hi, h, Size[b])
  BY <1>1, GpaIs
<1>3. lo > low + Size[b]
  BY <1>1 DEF Starts
<1>4. /\ lo > Size[b] /\ lo - Size[b] > low
      /\ PlaceBetween(b, lo, hi, h, Size[b]) \in {Own(h), lo - Size[b]}
  BY <1>1, <1>2, <1>3 DEF PlaceBetween
<1> QED
  BY <1>2, <1>4 DEF Own

LEMMA DepthMap ==
  ASSUME LastBound, Paged, TInv, EInv, PlaceInv,
         NEW M \in Nat, \A b \in Buffers : Size[b] <= M,
         \A b \in Buffers : \A h \in Hvas[b] : h % MbufoSize > MaxMaps * M,
         DepthInv(M), NEW t \in Targets, NEW acc \in Access, NEW hva, Map(t, acc, hva)
  PROVE  DepthInv(M)'
<1>1. PICK b \in Buffers : b = bound[t] /\ b = BufIdx
  BY UsableIs DEF Map
<1>2. /\ mapped[b] = None /\ hva \in Hvas[b]
      /\ maps' = maps + 1 /\ maps < MaxMaps
  BY <1>1 DEF Map
<1>3. hva \in Nat /\ ~Live(b) /\ program = "tidy"
  BY <1>2, ConstantsAssumption DEF Live, Paged, TInv, GuestTypes
<1>4. b \notin listed /\ b \in Idx
  BY <1>3 DEF EInv, TidyInv, Idx
<1>5. /\ listed' = listed \union {b}
      /\ bufo' = [bufo EXCEPT ![b] = MapEntry(t, acc, hva)]
  BY <1>1, MapIs
<1>6. MapEntry(t, acc, hva).gpa = MapGpa(t, hva)
  BY DEF MapEntry
<1>7. /\ bufo'[b].gpa = MapGpa(t, hva)
      /\ \A c \in listed : c # b /\ bufo'[c] = bufo[c] /\ PageFloor(bufo[c].gpa) \in Nat
  <2>1. \A c \in listed : c \in Idx /\ bufo[c].gpa \in Nat
    BY DEF TInv, TableTypes, Entries
  <2>2. \A c \in listed : PageFloor(bufo[c].gpa) \in Nat
    BY <2>1, Rounding
  <2> QED
    BY <1>4, <1>5, <1>6, <2>1, <2>2 DEF TInv, TableTypes
<1>8. /\ maps \in Nat /\ MaxMaps \in Nat /\ MbufoSize \in Nat \ {0} /\ Size[b] \in Nat
      /\ Size[b] <= M /\ hva % MbufoSize \in Nat /\ hva % MbufoSize > MaxMaps * M
      /\ hva % MbufoSize < MbufoSize
  BY <1>2, <1>3, SizeIs, ConstantsAssumption DEF TInv, GuestTypes
<1>9. PICK k \in Nat : MaxMaps = maps + 1 + k
  <2>1. MaxMaps - maps - 1 \in Nat /\ MaxMaps = maps + 1 + (MaxMaps - maps - 1)
    BY <1>2, <1>8
  <2> QED
    BY <2>1
<1> DEFINE low == k * M
           used == maps * M
<1>10. /\ low \in Nat /\ used \in Nat
       /\ MaxMaps * M = used + M + low /\ (maps + 1) * M = used + M
  BY <1>8, <1>9
<1> HIDE DEF low, used
<1>11. \A c \in listed : PageFloor(bufo[c].gpa) + used > used + M + low
  BY <1>10 DEF DepthInv, used
<1>12. \A c \in listed : PageFloor(bufo'[c].gpa) + (used + M) > used + M + low
  BY <1>7, <1>10, <1>11
<1>13. PageFloor(bufo'[b].gpa) > low
  <2>1. CASE ZeroCopy(t)
    <3>1. MapGpa(t, hva) = MapBufObjGpa(b, hva, Size[b])
      BY <1>1, <2>1 DEF MapGpa
    <3>2. /\ hva % Page = 0 /\ (hva % MbufoSize) + Size[b] < MbufoSize - 1
          /\ Size[b] % Page = 0
      BY <1>2 DEF Paged
    <3>3. PageOffset(hva) = 0 /\ Align(Size[b]) = Size[b]
      BY <1>3, <1>8, <3>2, PagesStay
    <3>4. \A c \in listed : PageFloor(bufo[c].gpa) > low + Size[b]
      BY <1>7, <1>8, <1>10, <1>11
    <3>5. hva % MbufoSize > low /\ MbufoSize - 1 > low + Size[b]
      BY <1>8, <1>10, <3>2
    <3>6. MapBufObjGpa(b, hva, Size[b]) > low
      BY <1>3, <1>4, <1>10, <3>3, <3>4, <3>5, PlaceIsHigh DEF TInv
    <3>7. MapBufObjGpa(b, hva, Size[b]) # 0
      BY <1>10, <3>6
    <3>8. MapBufObjGpa(b, hva, Size[b]) \in Nat /\ MapBufObjGpa(b, hva, Size[b]) % Page = 0
      BY <1>2, <1>3, <3>7, PlaceIs
    <3> QED
      BY <1>7, <3>1, <3>6, <3>8, PagesStay
  <2>2. CASE ~ZeroCopy(t)
    <3>1. MapGpa(t, hva) \in Nat /\ MapGpa(t, hva) >= MbufoSize
      BY <2>2, ConstantsAssumption DEF MapGpa, Used, TInv, TableTypes
    <3>2. PageFloor(MapGpa(t, hva)) \in Nat /\ PageFloor(MapGpa(t, hva)) >= MbufoSize
      BY <3>1, PagesBeyond DEF Paged
    <3> QED
      BY <1>7, <1>8, <1>10, <3>2
  <2> QED
    BY <2>1, <2>2
<1>14. PageFloor(bufo'[b].gpa) \in Int
  <2>1. bufo'[b].gpa = MapGpa(t, hva)
    BY <1>7
  <2>2. MapEntry(t, acc, hva) \in Entries
    BY <1>1, <1>3, MapEntryTypes
  <2>3. MapGpa(t, hva) \in Nat
    BY <1>6, <2>2 DEF Entries
  <2> QED
    BY <2>1, <2>3, Rounding
<1>15. PageFloor(bufo'[b].gpa) + (used + M) > used + M + low
  BY <1>10, <1>13, <1>14
<1>16. \A c \in listed' : PageFloor(bufo'[c].gpa) + maps' * M > MaxMaps * M
  BY <1>2, <1>5, <1>10, <1>12, <1>15
<1>17. maps' <= MaxMaps
  BY <1>2, <1>8
<1> QED
  BY <1>16, <1>17 DEF DepthInv, PageFloor, PageOffset

LEMMA DepthNext ==
  ASSUME LastBound, Paged, NEW M \in Nat, \A b \in Buffers : Size[b] <= M,
         \A b \in Buffers : \A h \in Hvas[b] : h % MbufoSize > MaxMaps * M
  PROVE  TInv /\ EInv /\ PlaceInv /\ DepthInv(M) /\ [Next]_vars => DepthInv(M)'
<1> SUFFICES ASSUME TInv, EInv, PlaceInv, DepthInv(M), [Next]_vars PROVE DepthInv(M)'
  OBVIOUS
<1>1. ASSUME maps' = maps, \A c \in listed' : c \in listed /\ bufo'[c].gpa = bufo[c].gpa
      PROVE  DepthInv(M)'
  BY <1>1 DEF DepthInv, PageFloor, PageOffset
<1>2. ASSUME NEW t \in Targets, NEW b \in Idx, Bind(t, b) PROVE DepthInv(M)'
  BY <1>1, <1>2 DEF Bind, table
<1>3. ASSUME NEW t \in Targets, NEW acc \in Access, NEW hva, Map(t, acc, hva)
      PROVE  DepthInv(M)'
  BY <1>3, DepthMap
<1>4. ASSUME NEW t \in Targets, NEW apple \in BOOLEAN, FlushRange(t, apple)
      PROVE  DepthInv(M)'
  <2>1. PICK b \in Buffers : b = bound[t] /\ b = BufIdx
    BY <1>4, UsableIs DEF FlushRange
  <2>2. Inserted(b, FlushEntry(t, apple)) /\ maps' = maps /\ mapped[b] # None
    BY <1>4, <2>1 DEF FlushRange, FlushEntry
  <2>3. b \in listed /\ Found(b) = bufo[b] /\ bufo[b] \in Entries /\ b \in Idx
    BY <2>2, FieldsAre DEF EInv, LiveInv, Live, EntryIsMapping, Found
  <2>4. FlushEntry(t, apple).gpa = bufo[b].gpa
    BY <2>1, <2>3 DEF FlushEntry, Entries
  <2>5. listed' = listed /\ \A c \in listed : bufo'[c].gpa = bufo[c].gpa
    BY <2>2, <2>3, <2>4 DEF Inserted, TInv, TableTypes
  <2> QED
    BY <1>1, <2>2, <2>5
<1>5. ASSUME NEW t \in Targets, Unmap(t) PROVE DepthInv(M)'
  <2>1. Freed(BufIdx) /\ maps' = maps
    BY <1>5 DEF Unmap
  <2>2. \A c \in listed' : c \in listed /\ bufo'[c] = bufo[c]
    BY <2>1 DEF Freed, TInv, TableTypes
  <2> QED
    BY <1>1, <2>1, <2>2
<1>6. ASSUME NEW b \in Buffers, Delete(b) PROVE DepthInv(M)'
  BY <1>1, <1>6 DEF Delete, table
<1>7. ASSUME NEW b \in Buffers, Write(b) PROVE DepthInv(M)'
  BY <1>1, <1>7 DEF Write, table
<1>8. CASE NewContext
  BY <1>1, <1>8 DEF NewContext
<1>9. CASE UNCHANGED vars
  BY <1>1, <1>9 DEF vars, table
<1> QED
  BY <1>2, <1>3, <1>4, <1>5, <1>6, <1>7, <1>8, <1>9 DEF Next

\* MapBufObjGpa finds a place for every mapping of a behaviour when the host addresses
\* lie, modulo the area, above all its mappings together: it goes below the lowest entry
\* when the address of the mapping itself is taken, and never reaches the start.
THEOREM PlaceSuffices ==
  ASSUME LastBound, Paged, NEW M \in Nat, \A b \in Buffers : Size[b] <= M,
         \A b \in Buffers : \A h \in Hvas[b] : h % MbufoSize > MaxMaps * M
  PROVE  Spec => []HasPlace
<1>1. Init => PlaceInv /\ DepthInv(M)
  BY ConstantsAssumption DEF Init, PlaceInv, Slotted, Live, DepthInv
<1>2. TInv /\ EInv /\ DepthInv(M) => HasPlace
  <2> SUFFICES ASSUME TInv, EInv, DepthInv(M), NEW b \in Slotted PROVE bufo[b].gpa # 0
    BY DEF HasPlace
  <2>1. b \in listed
    BY DEF Slotted, EInv, LiveInv, EntryIsMapping
  <2>2. PICK k \in Nat : MaxMaps = maps + k
    <3>1. MaxMaps - maps \in Nat /\ MaxMaps = maps + (MaxMaps - maps)
      BY ConstantsAssumption DEF DepthInv, TInv, GuestTypes
    <3> QED
      BY <3>1
  <2> DEFINE used == maps * M
             left == k * M
  <2>3. used \in Nat /\ left \in Nat /\ MaxMaps * M = used + left
    BY <2>2 DEF TInv, GuestTypes
  <2> HIDE DEF used, left
  <2>4. PageFloor(bufo[b].gpa) + used > used + left
    BY <2>1, <2>3 DEF DepthInv, used
  <2>5. PageFloor(0) = 0
    BY PagesStay, ConstantsAssumption
  <2> QED
    BY <2>3, <2>4, <2>5
<1>3. TInv /\ EInv /\ PlaceInv /\ DepthInv(M) /\ TInv' /\ EInv' /\ [Next]_vars
        => PlaceInv' /\ DepthInv(M)'
  BY <1>2, DepthNext, PlacesNext, PTL
<1>4. Spec => []TInv /\ []EInv
  BY TypesAlways, EntriesAlways, PTL
<1> QED
  BY <1>1, <1>2, <1>3, <1>4, PTL DEF Spec

-----------------------------------------------------------------------------
(* The copies of a buffer.                                                 *)

All == TInv /\ EInv /\ HasRoom /\ StackInv /\ PlaceInv

\* A mapping is one-copy or zero-copy.
LEMMA MappingIs ==
  ASSUME OneCopy \/ Paged, All, NEW b \in Buffers
  PROVE  /\ InWindow(b) => /\ Live(b) /\ EntryIsMapping(b) /\ NoCopies = FALSE
                           /\ ~ZeroCopy(bufo[b].tgt) /\ bufo[b].ocpy = TRUE
         /\ Live(b) /\ ~InWindow(b) => /\ b \in Slotted /\ EntryIsMapping(b) /\ ~OneCopy
                                       /\ Paged /\ program = "tidy"
                                       /\ bufo[b].ocpy = FALSE /\ guest[b].area = "mbufo"
<1>1. InWindow(b) => Live(b)
  BY PointerIsLive DEF InWindow, All, EInv
<1>2. Live(b) => EntryIsMapping(b)
  BY DEF All, EInv, LiveInv
<1>3. Live(b) => (InWindow(b) <=> ~ZeroCopy(bufo[b].tgt))
  BY <1>2 DEF EntryIsMapping, InWindow
<1>4. InWindow(b) => NoCopies = FALSE /\ bufo[b].ocpy = TRUE
  BY <1>1, <1>2, <1>3 DEF NoCopies, ZeroCopy, EntryIsMapping
<1>5. Live(b) /\ ~InWindow(b) => /\ b \in Slotted /\ bufo[b].ocpy = FALSE
                                 /\ guest[b].area = "mbufo"
  BY <1>2, <1>3 DEF Slotted, All, PlaceInv, WellPlaced, EntryIsMapping
<1>6. b \in Slotted => ~OneCopy /\ Paged /\ program = "tidy"
  BY OneCopyOrTidy DEF All
<1> QED
  BY <1>1, <1>2, <1>3, <1>4, <1>5, <1>6

\* A region is inside the window.
LEMMA RegionInside ==
  ASSUME All, NEW b \in Buffers, InWindow(b)
  PROVE  /\ guest[b].at \in Nat /\ guest[b].at + Size[b] <= FbtSize
         /\ DOMAIN window = 0 .. FbtSize - 1
         /\ \A k \in 0 .. Size[b] - 1 : /\ guest[b].at + k \in DOMAIN window
                                        /\ guest[b].at + k \in Region(b)
<1>1. /\ Top(b) = bufo[b].mused + Align(Size[b]) /\ Top(b) <= szUsedBuf
      /\ guest[b].at = FbtSize - Top(b) /\ szUsedBuf <= FbtSize
  BY DEF All, StackInv, Stacked, Top, HasRoom
<1>2. /\ bufo[b].mused \in Nat /\ FbtSize \in Nat /\ szUsedBuf \in Nat
      /\ Align(Size[b]) \in Nat /\ Align(Size[b]) >= Size[b] /\ Size[b] \in Nat
  BY FieldsAre, SizeIs, ConstantsAssumption DEF All
<1>3. guest[b].at \in Nat /\ guest[b].at + Align(Size[b]) <= FbtSize
  BY <1>1, <1>2
<1>4. DOMAIN window = 0 .. FbtSize - 1
  BY DEF All, TInv, MemoryTypes
<1>5. ASSUME NEW k \in 0 .. Size[b] - 1
      PROVE  guest[b].at + k \in 0 .. FbtSize - 1 /\ guest[b].at + k \in Region(b)
  <2> DEFINE g == guest[b].at
             n == Align(Size[b])
  <2>1. /\ g \in Nat /\ n \in Nat /\ n >= Size[b] /\ g + n <= FbtSize
        /\ Region(b) = g .. g + n - 1
    BY <1>2, <1>3 DEF Region
  <2> HIDE DEF g, n
  <2>2. g + k \in 0 .. FbtSize - 1 /\ g + k \in g .. g + n - 1
    BY <1>2, <2>1
  <2> QED
    BY <2>1, <2>2 DEF g
<1> QED
  BY <1>2, <1>3, <1>4, <1>5

\* What the guest stored reaches the host pages of the mapping and no others.
LEMMA FlushCopies ==
  ASSUME OneCopy \/ Paged, All, NEW b \in Buffers, InWindow(b), NEW e,
         e.hva = bufo[b].hva, e.mapsz = bufo[b].mapsz, e.gpa = bufo[b].gpa, e.ocpy = TRUE
  PROVE  /\ DOMAIN Flushed(e) = DOMAIN hostMem
         /\ WindowIs(b) => \A a \in HostRange(b) : Flushed(e)[a] = <<b, written[b]>>
         /\ \A a \in DOMAIN hostMem : a \notin HostRange(b) => Flushed(e)[a] = hostMem[a]
<1>1. EntryIsMapping(b) /\ Live(b) /\ NoCopies = FALSE
  BY MappingIs
<1>2. /\ e.hva = mapped[b] /\ e.mapsz = Size[b] /\ e.hva # 0
      /\ e.gpa = FbtBase + FbtSize - bufo[b].mused
      /\ guest[b].at = FbtSize - (bufo[b].mused + Align(Size[b]))
  BY <1>1 DEF EntryIsMapping, All, StackInv, Stacked, Top
<1>3. /\ bufo[b].mused \in Nat /\ FbtSize \in Nat /\ FbtBase \in Nat
      /\ Align(Size[b]) \in Nat /\ Size[b] \in Nat /\ mapped[b] \in Nat
  BY <1>1, <1>2, FieldsAre, SizeIs, ConstantsAssumption DEF All, Live
<1> DEFINE at == e.gpa - FbtBase - Align(e.mapsz)
<1>4. at = guest[b].at
  BY <1>2, <1>3
<1>5. Flushed(e) = [a \in DOMAIN hostMem |->
                      IF a - e.hva \in 0 .. e.mapsz - 1 /\ (at + a - e.hva) \in DOMAIN window
                      THEN window[at + a - e.hva] ELSE hostMem[a]]
  BY <1>1, <1>2 DEF Flushed
<1> HIDE DEF at
<1>6. Flushed(e) = [a \in DOMAIN hostMem |->
                      IF /\ a - mapped[b] \in 0 .. Size[b] - 1
                         /\ (guest[b].at + a - mapped[b]) \in DOMAIN window
                      THEN window[guest[b].at + a - mapped[b]] ELSE hostMem[a]]
  BY <1>2, <1>4, <1>5
<1>7. HostRange(b) \subseteq DOMAIN hostMem /\ DOMAIN hostMem \subseteq Nat
  BY <1>1 DEF All, TInv, HostInv, MemoryTypes
<1>8. ASSUME WindowIs(b), NEW a \in HostRange(b) PROVE Flushed(e)[a] = <<b, written[b]>>
  <2>1. a \in Nat /\ a - mapped[b] \in 0 .. Size[b] - 1
    BY <1>3 DEF HostRange
  <2>2. PICK k \in 0 .. Size[b] - 1 : a - mapped[b] = k
    BY <2>1
  <2>3. /\ guest[b].at + k \in DOMAIN window /\ guest[b].at \in Nat
        /\ window[guest[b].at + k] = <<b, written[b]>>
    BY <1>8, RegionInside DEF WindowIs
  <2>4. guest[b].at + a - mapped[b] = guest[b].at + k
    BY <1>3, <2>1, <2>2, <2>3
  <2> QED
    BY <1>6, <1>7, <2>1, <2>3, <2>4
<1>9. ASSUME NEW a \in DOMAIN hostMem, a \notin HostRange(b)
      PROVE  Flushed(e)[a] = hostMem[a]
  <2>1. a \in Nat /\ ~(a - mapped[b] \in 0 .. Size[b] - 1)
    BY <1>3, <1>7, <1>9 DEF HostRange
  <2> QED
    BY <1>6, <2>1
<1> QED
  BY <1>6, <1>8, <1>9

\* A zero-copy mapping has nothing to flush.
LEMMA NothingToFlush ==
  ASSUME OneCopy \/ Paged, All, NEW b \in Buffers, Live(b), ~InWindow(b)
  PROVE  Flushed(bufo[b]) = hostMem
  BY MappingIs DEF Flushed

LEMMA MemoryInit == Init => MemInv
  BY DEF Init, MemInv, Live, InWindow, NoPointer

\* A buffer about which the step changes nothing.
LEMMA MemorySame ==
  ASSUME MemInv, NEW c \in Buffers,
         mapped'[c] = mapped[c], guest'[c] = guest[c], written'[c] = written[c],
         value'[c] = value[c],
         Live(c) => \A a \in HostRange(c) : hostMem'[a] = hostMem[a],
         InWindow(c) => \A k \in 0 .. Size[c] - 1 :
                          window'[guest[c].at + k] = window[guest[c].at + k]
  PROVE  /\ Live(c)' /\ (InWindow(c)' => guest'[c].unflushed = FALSE) => HostIs(c)'
         /\ (InWindow(c)' /\ (guest'[c].tgt = Unpack => guest'[c].unflushed = TRUE))
              => WindowIs(c)'
         /\ ~Live(c)' => value'[c] = written'[c]
<1>1. (Live(c)' <=> Live(c)) /\ (InWindow(c)' <=> InWindow(c)) /\ HostRange(c)' = HostRange(c)
  BY DEF Live, InWindow, HostRange
<1>2. Live(c) /\ (InWindow(c) => guest[c].unflushed = FALSE) => HostIs(c)'
  BY <1>1 DEF MemInv, HostIs
<1>3. (InWindow(c) /\ (guest[c].tgt = Unpack => guest[c].unflushed = TRUE)) => WindowIs(c)'
  BY DEF MemInv, WindowIs
<1> QED
  BY <1>1, <1>2, <1>3 DEF MemInv

LEMMA MemoryMap ==
  ASSUME LastBound, OneCopy \/ Paged, All, HasRoom', StackInv', TInv', EInv', MemInv,
         NEW t \in Targets, NEW acc \in Access, NEW hva, Map(t, acc, hva)
  PROVE  MemInv'
<1>1. PICK b \in Buffers : b = bound[t] /\ b = BufIdx
  BY UsableIs DEF Map, All
<1> DEFINE range == hva .. hva + Size[b] - 1
           at == FbtSize - szUsedBuf - Align(Size[b])
           pointer == MapPointer(t, acc, hva)
<1>2. /\ mapped' = [mapped EXCEPT ![b] = hva] /\ mapped[b] = None
      /\ hostMem' = [a \in DOMAIN hostMem \cup range |->
                       IF a \in DOMAIN hostMem THEN hostMem[a] ELSE <<b, value[b]>>]
      /\ range \cap DOMAIN hostMem = {}
      /\ window' = Filled(b, t, szUsedBuf)
      /\ UNCHANGED <<value, written>>
  BY <1>1 DEF Map, Free
<1>3. guest' = [guest EXCEPT ![b] = pointer]
  BY <1>1, MapIs DEF All
<1>4. /\ ~ZeroCopy(t) => NoCopies = FALSE
      /\ ZeroCopy(t) => NoCopies = TRUE \/ t = Unpack
  BY DEF NoCopies, ZeroCopy
<1>5. Used = szUsedBuf /\ szUsedBuf \in Nat /\ FbtSize \in Nat
  BY ConstantsAssumption DEF Used, HasRoom, All, TInv, TableTypes
<1>6. Size[b] \in Nat /\ Align(Size[b]) \in Nat /\ Align(Size[b]) >= Size[b]
  BY SizeIs
<1>7. /\ pointer.area = (IF ZeroCopy(t) THEN "mbufo" ELSE "window")
      /\ ~ZeroCopy(t) => pointer.at = at
      /\ pointer.tgt = t /\ pointer.unflushed = FALSE
  BY <1>1, <1>5, <1>6 DEF MapPointer
<1> HIDE DEF pointer
<1>8. /\ guest'[b] = pointer /\ mapped'[b] = hva
      /\ \A c \in Buffers : c # b => guest'[c] = guest[c] /\ mapped'[c] = mapped[c]
  BY <1>2, <1>3 DEF All, TInv, GuestTypes, LibraryTypes
<1>9. value[b] = written[b]
  BY <1>2 DEF MemInv, Live
<1>10. IF ZeroCopy(t) \/ t = Unpack THEN window' = window
       ELSE window' = [a \in DOMAIN window |->
                         IF a \in at .. at + Size[b] - 1 THEN <<b, value[b]>> ELSE window[a]]
  BY <1>2, <1>4 DEF Filled
<1>11. ~ZeroCopy(t) => szUsedBuf + Align(Size[b]) <= FbtSize
  <2>1. ~ZeroCopy(t) => szUsedBuf' = szUsedBuf + Align(Size[b])
    BY <1>1, <1>5, MapIs DEF All
  <2> QED
    BY <2>1 DEF HasRoom
<1>12. at \in Int /\ (~ZeroCopy(t) => at \in Nat /\ at + Size[b] <= FbtSize)
  BY <1>5, <1>6, <1>11
<1>13. DOMAIN window = 0 .. FbtSize - 1
  BY DEF All, TInv, MemoryTypes
<1> SUFFICES ASSUME NEW c \in Buffers
             PROVE  /\ Live(c)' /\ (InWindow(c)' => guest'[c].unflushed = FALSE) => HostIs(c)'
                    /\ (InWindow(c)' /\ (guest'[c].tgt = Unpack => guest'[c].unflushed = TRUE))
                         => WindowIs(c)'
                    /\ ~Live(c)' => value'[c] = written'[c]
  BY DEF MemInv
<1>14. CASE c = b
  <2>1. HostIs(c)'
    <3>1. HostRange(c)' = range
      BY <1>8, <1>14 DEF HostRange
    <3> HIDE DEF range
    <3>2. \A a \in range : hostMem'[a] = <<b, value[b]>>
      BY <1>2
    <3> QED
      BY <1>2, <1>9, <1>14, <3>1, <3>2 DEF HostIs
  <2>2. t # Unpack /\ ~ZeroCopy(t) => WindowIs(c)'
    <3> HAVE t # Unpack /\ ~ZeroCopy(t)
    <3>1. \A k \in 0 .. Size[b] - 1 : /\ at + k \in DOMAIN window
                                      /\ at + k \in at .. at + Size[b] - 1
      BY <1>5, <1>6, <1>12, <1>13
    <3>2. \A k \in 0 .. Size[b] - 1 : window'[at + k] = <<b, value[b]>>
      <4> HIDE DEF at
      <4> QED
        BY <1>10, <3>1
    <3> HIDE DEF at
    <3> QED
      BY <1>2, <1>7, <1>8, <1>9, <1>14, <3>2 DEF WindowIs
  <2>3. guest'[c].tgt = t /\ guest'[c].unflushed = FALSE
    BY <1>7, <1>8, <1>14
  <2>4. Live(c)'
    <3>1. hva \in Nat
      BY <1>1, ConstantsAssumption DEF Map
    <3> QED
      BY <1>8, <1>14, <3>1 DEF Live, None
  <2>5. InWindow(c)' => ~ZeroCopy(t)
    BY <1>7, <1>8, <1>14 DEF InWindow
  <2> QED
    BY <2>1, <2>2, <2>3, <2>4, <2>5
<1>15. CASE c # b
  <2>1. mapped'[c] = mapped[c] /\ guest'[c] = guest[c]
    BY <1>8, <1>15
  <2>2. Live(c) => \A a \in HostRange(c) : hostMem'[a] = hostMem[a]
    <3>1. Live(c) => HostRange(c) \subseteq DOMAIN hostMem
      BY DEF All, TInv, HostInv
    <3> HIDE DEF range
    <3> QED
      BY <1>2, <3>1
  <2>3. ASSUME InWindow(c), NEW k \in 0 .. Size[c] - 1
        PROVE  window'[guest[c].at + k] = window[guest[c].at + k]
    <3>1. guest[c].at + k \in DOMAIN window /\ guest[c].at \in Nat
      BY <2>3, RegionInside
    <3>2. guest[c].at = FbtSize - Top(c) /\ Top(c) <= szUsedBuf /\ Top(c) \in Nat
      BY <2>3, FieldsAre DEF All, StackInv, Stacked
    <3>3. Size[c] \in Nat
      BY SizeIs
    <3>4. ~ZeroCopy(t) => ~(guest[c].at + k \in at .. at + Size[b] - 1)
      BY <1>5, <1>6, <1>12, <3>2, <3>3
    <3> HIDE DEF at
    <3> QED
      BY <1>10, <3>1, <3>4
  <2> QED
    BY <1>2, <2>1, <2>2, <2>3, MemorySame
<1> QED
  BY <1>14, <1>15

LEMMA MemoryFlush ==
  ASSUME LastBound, OneCopy \/ Paged, All, MemInv,
         NEW t \in Targets, NEW apple \in BOOLEAN, FlushRange(t, apple)
  PROVE  MemInv'
<1>1. PICK b \in Buffers : b = bound[t] /\ b = BufIdx
  BY UsableIs DEF FlushRange, All
<1>2. /\ mapped[b] # None /\ guest[b].unflushed
      /\ hostMem' = Flushed(Found(b))
      /\ guest' = [guest EXCEPT ![b] = FlushPointer(b, apple)]
      /\ UNCHANGED <<mapped, value, written, window>>
  BY <1>1, FlushIs DEF FlushRange, library, All
<1>3. guest \in [Buffers -> Pointers]
  BY DEF All, TInv, GuestTypes
<1>4. Live(b) /\ EntryIsMapping(b)
  BY <1>2 DEF Live, All, EInv, LiveInv
<1>5. Found(b) = bufo[b]
  BY <1>4 DEF EntryIsMapping, Found
<1>6. InWindow(b) => WindowIs(b)
  BY <1>2, <1>3 DEF MemInv, Pointers
<1>7. /\ \A a \in HostRange(b) : hostMem'[a] = <<b, written[b]>>
      /\ \A a \in DOMAIN hostMem : a \notin HostRange(b) => hostMem'[a] = hostMem[a]
  <2>1. CASE InWindow(b)
    <3>1. bufo[b].ocpy = TRUE
      BY <2>1, MappingIs
    <3>2. /\ DOMAIN Flushed(bufo[b]) = DOMAIN hostMem
          /\ \A a \in HostRange(b) : Flushed(bufo[b])[a] = <<b, written[b]>>
          /\ \A a \in DOMAIN hostMem : a \notin HostRange(b) => Flushed(bufo[b])[a] = hostMem[a]
      BY <1>6, <2>1, <3>1, FlushCopies
    <3>3. hostMem' = Flushed(bufo[b])
      BY <1>2, <1>5
    <3> QED
      BY <3>2, <3>3
  <2>2. CASE ~InWindow(b)
    <3>1. hostMem' = hostMem
      BY <1>2, <1>4, <1>5, <2>2, NothingToFlush
    <3>2. HostIs(b)
      BY <1>4, <2>2 DEF MemInv
    <3> QED
      BY <3>1, <3>2 DEF HostIs
  <2> QED
    BY <2>1, <2>2
<1>8. /\ guest'[b].at = guest[b].at /\ guest'[b].unflushed = FALSE
      /\ guest'[b].area = guest[b].area
      /\ \A c \in Buffers : c # b => guest'[c] = guest[c]
  BY <1>2, <1>3 DEF FlushPointer, Pointers
<1> SUFFICES ASSUME NEW c \in Buffers
             PROVE  /\ Live(c)' /\ (InWindow(c)' => guest'[c].unflushed = FALSE) => HostIs(c)'
                    /\ (InWindow(c)' /\ (guest'[c].tgt = Unpack => guest'[c].unflushed = TRUE))
                         => WindowIs(c)'
                    /\ ~Live(c)' => value'[c] = written'[c]
  BY DEF MemInv
<1>9. CASE c = b
  <2>1. HostIs(c)'
    BY <1>2, <1>7, <1>9 DEF HostIs, HostRange
  <2>2. InWindow(c) => WindowIs(c)'
    BY <1>2, <1>6, <1>8, <1>9 DEF WindowIs
  <2>3. Live(c)' /\ (InWindow(c)' => InWindow(c))
    BY <1>2, <1>8, <1>9 DEF Live, InWindow
  <2> QED
    BY <2>1, <2>2, <2>3
<1>10. CASE c # b
  <2>1. Live(c) => \A a \in HostRange(c) : hostMem'[a] = hostMem[a]
    <3> HAVE Live(c)
    <3>1. HostRange(c) \subseteq DOMAIN hostMem /\ HostRange(c) \cap HostRange(b) = {}
      BY <1>4, <1>10 DEF All, TInv, HostInv
    <3> QED
      BY <1>7, <3>1
  <2> QED
    BY <1>2, <1>8, <1>10, <2>1, MemorySame
<1> QED
  BY <1>9, <1>10

\* An unmap copies back what was stored and not flushed, and the library keeps it.
LEMMA MemoryUnmap ==
  ASSUME LastBound, OneCopy \/ Paged, All, MemInv, NEW t \in Targets, Unmap(t)
  PROVE  MemInv'
<1>1. PICK b \in Buffers : b = bound[t] /\ b = BufIdx
  BY UsableIs DEF Unmap, All
<1> DEFINE mem == UnmapMem(bufo[b])
           range == mapped[b] .. mapped[b] + Size[b] - 1
<1>2. Live(b)
  BY <1>1 DEF Unmap, MayUnmap, Live
<1>3. EntryIsMapping(b)
  BY <1>2 DEF All, EInv, LiveInv
<1>4. Found(b) = bufo[b] /\ (InWindow(b) => bufo[b].ocpy = TRUE)
  BY <1>3, MappingIs DEF EntryIsMapping, Found
<1>5. /\ value' = [value EXCEPT ![b] = Contents(b, mapped[b], mem)]
      /\ hostMem' = [a \in DOMAIN mem \ range |-> mem[a]]
      /\ mapped' = [mapped EXCEPT ![b] = None]
      /\ guest' = [guest EXCEPT ![b] = NoPointer]
      /\ UNCHANGED <<written, window>>
      /\ guest[b].explicit => ~guest[b].unflushed
      /\ (guest[b].tgt = Unpack /\ guest[b].write) => guest[b].unflushed \/ guest[b].explicit
  BY <1>1, <1>4 DEF Unmap, UnmapMem, MayUnmap
<1>6. /\ bufo[b].write = guest[b].write /\ bufo[b].explicit = guest[b].explicit
      /\ guest[b].unflushed = TRUE => guest[b].write = TRUE
      /\ guest[b].write \in BOOLEAN /\ guest[b].explicit \in BOOLEAN
      /\ guest[b].unflushed \in BOOLEAN
  BY <1>3, FieldsAre DEF EntryIsMapping, Pointers, All
<1>7. /\ DOMAIN mem = DOMAIN hostMem
      /\ \A a \in DOMAIN hostMem : a \notin HostRange(b) => mem[a] = hostMem[a]
      /\ \A a \in HostRange(b) : mem[a] = <<b, written[b]>>
  <2>1. CASE InWindow(b) /\ bufo[b].write /\ ~bufo[b].explicit
    <3>1. mem = Flushed(bufo[b])
      BY <2>1 DEF UnmapMem
    <3>2. guest[b].tgt = Unpack => guest[b].unflushed = TRUE
      BY <1>5, <1>6, <2>1
    <3>3. WindowIs(b)
      BY <2>1, <3>2 DEF MemInv
    <3> HIDE DEF mem
    <3> QED
      BY <1>4, <2>1, <3>1, <3>3, FlushCopies
  <2>2. CASE ~(InWindow(b) /\ bufo[b].write /\ ~bufo[b].explicit)
    <3>1. mem = hostMem
      BY <1>2, <2>2, NothingToFlush DEF UnmapMem
    <3>2. InWindow(b) => guest[b].unflushed = FALSE
      BY <1>5, <1>6, <2>2
    <3>3. HostIs(b)
      BY <1>2, <3>2 DEF MemInv
    <3> HIDE DEF mem
    <3> QED
      BY <3>1, <3>3 DEF HostIs
  <2> QED
    BY <2>1, <2>2
<1> HIDE DEF mem
<1>8. HostRange(b) = range
  BY DEF HostRange
<1>9. Contents(b, mapped[b], mem) = written[b]
  <2> DEFINE words == {mem[a] : a \in range}
             w == <<b, written[b]>>
  <2>1. Size[b] \in Nat /\ Size[b] > 0 /\ mapped[b] \in Nat
    BY <1>2, SizeIs, FieldsAre DEF All, Live
  <2>2. mapped[b] \in range
    BY <2>1
  <2>3. words = {w}
    <3> HIDE DEF range, w
    <3>1. \A a \in range : mem[a] = w
      BY <1>7, <1>8 DEF w
    <3> QED
      BY <2>2, <3>1
  <2>4. (CHOOSE v \in words : TRUE) = w
    <3> HIDE DEF w, words
    <3>1. (CHOOSE v \in words : TRUE) \in words
      BY <2>3
    <3> QED
      BY <2>3, <3>1
  <2>5. w[1] = b /\ w[2] = written[b] /\ w \in words
    BY <2>3
  <2>6. Contents(b, mapped[b], mem) =
          IF \E v \in words : words = {v} /\ v[1] = b
          THEN (CHOOSE v \in words : TRUE)[2] ELSE None
    BY DEF Contents
  <2> HIDE DEF words, w
  <2> QED
    BY <2>3, <2>4, <2>5, <2>6
<1>10. /\ mapped'[b] = None /\ guest'[b] = NoPointer /\ value'[b] = written[b]
       /\ \A c \in Buffers : c # b => /\ guest'[c] = guest[c] /\ mapped'[c] = mapped[c]
                                      /\ value'[c] = value[c]
  BY <1>5, <1>9 DEF All, TInv, GuestTypes, LibraryTypes
<1> SUFFICES ASSUME NEW c \in Buffers
             PROVE  /\ Live(c)' /\ (InWindow(c)' => guest'[c].unflushed = FALSE) => HostIs(c)'
                    /\ (InWindow(c)' /\ (guest'[c].tgt = Unpack => guest'[c].unflushed = TRUE))
                         => WindowIs(c)'
                    /\ ~Live(c)' => value'[c] = written'[c]
  BY DEF MemInv
<1>11. CASE c = b
  BY <1>5, <1>10, <1>11 DEF Live, InWindow, NoPointer
<1>12. CASE c # b
  <2>1. Live(c) => \A a \in HostRange(c) : hostMem'[a] = hostMem[a]
    <3> HAVE Live(c)
    <3>1. HostRange(c) \subseteq DOMAIN hostMem /\ HostRange(c) \cap HostRange(b) = {}
      BY <1>2, <1>12 DEF All, TInv, HostInv
    <3> HIDE DEF range
    <3> QED
      BY <1>5, <1>7, <1>8, <3>1
  <2> QED
    BY <1>5, <1>10, <1>12, <2>1, MemorySame
<1> QED
  BY <1>11, <1>12

\* Buffers that go away take their words with them, and nobody else's.
LEMMA MemoryForget ==
  ASSUME All, HostInv', MemInv, NEW cs \in SUBSET Buffers, Forget(cs), window' = window
  PROVE  MemInv'
<1>1. \A c \in Buffers :
        /\ c \in cs => /\ mapped'[c] = None /\ guest'[c] = NoPointer
                       /\ value'[c] = 0 /\ written'[c] = 0
        /\ c \notin cs => /\ mapped'[c] = mapped[c] /\ guest'[c] = guest[c]
                          /\ value'[c] = value[c] /\ written'[c] = written[c]
  BY DEF Forget
<1>2. \A a \in DOMAIN hostMem' : hostMem'[a] = hostMem[a]
  BY DEF Forget
<1> SUFFICES ASSUME NEW c \in Buffers
             PROVE  /\ Live(c)' /\ (InWindow(c)' => guest'[c].unflushed = FALSE) => HostIs(c)'
                    /\ (InWindow(c)' /\ (guest'[c].tgt = Unpack => guest'[c].unflushed = TRUE))
                         => WindowIs(c)'
                    /\ ~Live(c)' => value'[c] = written'[c]
  BY DEF MemInv
<1>3. CASE c \in cs
  BY <1>1, <1>3 DEF Live, InWindow, NoPointer
<1>4. CASE c \notin cs
  <2>1. Live(c) => \A a \in HostRange(c) : hostMem'[a] = hostMem[a]
    <3> HAVE Live(c)
    <3>1. Live(c)' /\ HostRange(c)' = HostRange(c)
      BY <1>1, <1>4 DEF Live, HostRange
    <3>2. HostRange(c) \subseteq DOMAIN hostMem'
      BY <3>1 DEF HostInv
    <3> QED
      BY <1>2, <3>2
  <2> QED
    BY <1>1, <1>4, <2>1, MemorySame
<1> QED
  BY <1>3, <1>4

\* A store to a one-copy mapping goes to the region of its own buffer.
LEMMA MemoryWriteWindow ==
  ASSUME OneCopy \/ Paged, All, MemInv, NEW b \in Buffers, Write(b), InWindow(b)
  PROVE  MemInv'
<1> DEFINE word == <<b, writes + 1>>
           words == 0 .. Size[b] - 1
<1>1. Live(b)
  BY DEF Write, Live
<1>2. /\ window' = [a \in DOMAIN window |->
                      IF a - guest[b].at \in words THEN word ELSE window[a]]
      /\ hostMem' = hostMem
      /\ written' = [written EXCEPT ![b] = writes + 1]
      /\ guest' = [guest EXCEPT ![b].unflushed = TRUE]
      /\ UNCHANGED <<mapped, value>>
  BY DEF Write, InWindow, library
<1>3. /\ written'[b] = writes + 1 /\ guest'[b].unflushed = TRUE /\ guest'[b].at = guest[b].at
      /\ guest'[b].area = guest[b].area
      /\ \A c \in Buffers : c # b => guest'[c] = guest[c] /\ written'[c] = written[c]
  BY <1>2 DEF All, TInv, GuestTypes, LibraryTypes, Pointers
<1> SUFFICES ASSUME NEW c \in Buffers
             PROVE  /\ Live(c)' /\ (InWindow(c)' => guest'[c].unflushed = FALSE) => HostIs(c)'
                    /\ (InWindow(c)' /\ (guest'[c].tgt = Unpack => guest'[c].unflushed = TRUE))
                         => WindowIs(c)'
                    /\ ~Live(c)' => value'[c] = written'[c]
  BY DEF MemInv
<1>4. CASE c = b
  <2>1. ASSUME NEW k \in words PROVE window'[guest[b].at + k] = word
    <3>1. guest[b].at + k \in DOMAIN window /\ guest[b].at \in Nat
      BY <1>1, <2>1, RegionInside
    <3>2. (guest[b].at + k) - guest[b].at = k
      BY <2>1, <3>1
    <3> HIDE DEF words, word
    <3> QED
      BY <1>2, <2>1, <3>1, <3>2
  <2>2. WindowIs(c)'
    BY <1>3, <1>4, <2>1 DEF WindowIs
  <2>3. Live(c)' /\ InWindow(c)'
    BY <1>1, <1>2, <1>3, <1>4 DEF Live, InWindow
  <2> QED
    BY <1>3, <1>4, <2>2, <2>3
<1>5. CASE c # b
  <2>1. ASSUME InWindow(c), NEW k \in 0 .. Size[c] - 1
        PROVE  window'[guest[c].at + k] = window[guest[c].at + k]
    <3>1. guest[c].at + k \in DOMAIN window /\ guest[c].at + k \in Region(c)
      BY <2>1, RegionInside
    <3>2. guest[c].at + k \notin Region(b)
      BY <1>1, <1>5, <2>1, <3>1, StackedApart DEF All
    <3>3. guest[b].at \in Nat /\ guest[c].at \in Nat
      BY <1>1, <2>1, RegionInside
    <3>4. ~((guest[c].at + k) - guest[b].at \in words)
      <4>1. Align(Size[b]) \in Nat /\ Align(Size[b]) >= Size[b] /\ Size[b] \in Nat
        BY SizeIs
      <4> QED
        BY <3>2, <3>3, <4>1 DEF Region
    <3> HIDE DEF words, word
    <3> QED
      BY <1>2, <3>1, <3>4
  <2> QED
    BY <1>2, <1>3, <1>5, <2>1, MemorySame
<1> QED
  BY <1>4, <1>5

\* A zero-copy pointer leads to the pages of its own mapping.
LEMMA BehindIs ==
  ASSUME OneCopy \/ Paged, All, NEW b \in Buffers, Live(b), ~InWindow(b),
         NEW k \in 0 .. Size[b] - 1
  PROVE  Behind(b, k) = {mapped[b] + k}
<1>1. b \in Slotted /\ Paged /\ program = "tidy"
  BY MappingIs
<1>2. /\ OwnSlot(b) \in slots /\ guest[b].at = bufo[b].gpa
      /\ bufo[b].gpa \in Nat /\ mapped[b] \in Nat /\ Size[b] \in Nat
  BY <1>1, SlotIsOwn DEF All, PlaceInv, WellPlaced
<1> DEFINE a == bufo[b].gpa + k
           here == {x \in slots : a \in x.start .. x.start + x.size - 1}
<1>3. a \in OwnSlot(b).start .. OwnSlot(b).start + OwnSlot(b).size - 1
  BY <1>2 DEF OwnSlot
<1>4. ASSUME NEW s \in here PROVE s = OwnSlot(b)
  <2>1. PICK c \in Slotted : s = Slot(bufo[c])
    BY <1>1, <1>4 DEF All, EInv, TidyInv
  <2>2. s = OwnSlot(c) /\ bufo[c].gpa \in Nat /\ Size[c] \in Nat
    BY <1>1, <2>1, SlotIsOwn DEF All
  <2>3. a \in bufo[c].gpa .. bufo[c].gpa + Size[c] - 1
    BY <1>4, <2>2 DEF OwnSlot
  <2>4. c # b => \/ bufo[b].gpa + Size[b] <= bufo[c].gpa
                 \/ bufo[c].gpa + Size[c] <= bufo[b].gpa
    BY <1>1 DEF All, PlaceInv
  <2>5. c = b
    BY <1>2, <2>2, <2>3, <2>4
  <2> QED
    BY <2>2, <2>5
<1>5. here = {OwnSlot(b)}
  <2>1. OwnSlot(b) \in here
    BY <1>2, <1>3
  <2> HIDE DEF here
  <2> QED
    BY <1>4, <2>1
<1>6. Behind(b, k) = {s.host + guest[b].at + k - s.start : s \in here}
  BY <1>2 DEF Behind
<1> HIDE DEF here
<1>7. Behind(b, k) = {OwnSlot(b).host + guest[b].at + k - OwnSlot(b).start}
  BY <1>5, <1>6
<1>8. OwnSlot(b).host + guest[b].at + k - OwnSlot(b).start = mapped[b] + k
  BY <1>2 DEF OwnSlot
<1> QED
  BY <1>7, <1>8

\* Word by word these are the mapping.
LEMMA BehindAll ==
  ASSUME OneCopy \/ Paged, All, NEW b \in Buffers, Live(b), ~InWindow(b)
  PROVE  UNION {Behind(b, k) : k \in 0 .. Size[b] - 1} = HostRange(b)
<1> DEFINE words == 0 .. Size[b] - 1
           behind == UNION {Behind(b, k) : k \in words}
<1>1. mapped[b] \in Nat /\ Size[b] \in Nat
  BY FieldsAre, SizeIs DEF All, Live
<1>2. \A k \in words : Behind(b, k) = {mapped[b] + k}
  BY BehindIs
<1>3. \A k \in words : mapped[b] + k \in HostRange(b)
  BY <1>1 DEF HostRange
<1>4. \A a \in HostRange(b) : a - mapped[b] \in words /\ mapped[b] + (a - mapped[b]) = a
  BY <1>1 DEF HostRange
<1> HIDE DEF words
<1>5. \A a \in behind : a \in HostRange(b)
  BY <1>2, <1>3
<1>6. \A a \in HostRange(b) : a \in behind
  BY <1>2, <1>4
<1> QED
  BY <1>5, <1>6 DEF words

\* A store to a zero-copy mapping goes to its own pages.
LEMMA MemoryWritePages ==
  ASSUME OneCopy \/ Paged, All, MemInv, NEW b \in Buffers, Write(b), ~InWindow(b)
  PROVE  MemInv'
<1> DEFINE word == <<b, writes + 1>>
<1>1. Live(b)
  BY DEF Write, Live
<1>2. /\ hostMem' = [a \in DOMAIN hostMem |->
                       IF a \in UNION {Behind(b, k) : k \in 0 .. Size[b] - 1}
                       THEN word ELSE hostMem[a]]
      /\ window' = window
      /\ written' = [written EXCEPT ![b] = writes + 1]
      /\ guest' = [guest EXCEPT ![b].unflushed = TRUE]
      /\ UNCHANGED <<mapped, value>>
  BY DEF Write, InWindow, library
<1>3. hostMem' = [a \in DOMAIN hostMem |-> IF a \in HostRange(b) THEN word ELSE hostMem[a]]
  BY <1>1, <1>2, BehindAll
<1>4. /\ written'[b] = writes + 1 /\ guest'[b].area = guest[b].area
      /\ \A c \in Buffers : c # b => guest'[c] = guest[c] /\ written'[c] = written[c]
  BY <1>2 DEF All, TInv, GuestTypes, LibraryTypes, Pointers
<1>5. \A c \in Buffers : Live(c) =>
        /\ HostRange(c) \subseteq DOMAIN hostMem
        /\ c # b => HostRange(c) \cap HostRange(b) = {}
  BY <1>1 DEF All, TInv, HostInv
<1> SUFFICES ASSUME NEW c \in Buffers
             PROVE  /\ Live(c)' /\ (InWindow(c)' => guest'[c].unflushed = FALSE) => HostIs(c)'
                    /\ (InWindow(c)' /\ (guest'[c].tgt = Unpack => guest'[c].unflushed = TRUE))
                         => WindowIs(c)'
                    /\ ~Live(c)' => value'[c] = written'[c]
  BY DEF MemInv
<1>6. CASE c = b
  <2>1. HostRange(c)' = HostRange(b)
    BY <1>2, <1>6 DEF HostRange
  <2>2. \A a \in HostRange(b) : hostMem'[a] = word
    BY <1>1, <1>3, <1>5
  <2>3. HostIs(c)'
    BY <1>4, <1>6, <2>1, <2>2 DEF HostIs
  <2>4. Live(c)' /\ ~InWindow(c)'
    BY <1>1, <1>2, <1>4, <1>6 DEF Live, InWindow
  <2> QED
    BY <2>3, <2>4
<1>7. CASE c # b
  <2> HIDE DEF word
  <2>1. Live(c) => \A a \in HostRange(c) : hostMem'[a] = hostMem[a]
    BY <1>3, <1>5, <1>7
  <2> QED
    BY <1>2, <1>4, <1>7, <2>1, MemorySame
<1> QED
  BY <1>6, <1>7

LEMMA MemoryNext ==
  ASSUME LastBound, OneCopy \/ Paged
  PROVE  All /\ All' /\ MemInv /\ [Next]_vars => MemInv'
<1> SUFFICES ASSUME All, All', MemInv, [Next]_vars PROVE MemInv'
  OBVIOUS
<1>1. TInv' /\ EInv' /\ HasRoom' /\ StackInv' /\ HostInv'
  BY DEF All, TInv
<1>2. ASSUME UNCHANGED <<mapped, value, written, guest, hostMem, window>> PROVE MemInv'
  BY <1>2 DEF MemInv, HostIs, WindowIs, Live, InWindow, HostRange
<1>3. ASSUME NEW t \in Targets, NEW b \in Idx, Bind(t, b) PROVE MemInv'
  BY <1>2, <1>3 DEF Bind
<1>4. ASSUME NEW t \in Targets, NEW acc \in Access, NEW hva, Map(t, acc, hva) PROVE MemInv'
  BY <1>1, <1>4, MemoryMap
<1>5. ASSUME NEW t \in Targets, NEW apple \in BOOLEAN, FlushRange(t, apple) PROVE MemInv'
  BY <1>5, MemoryFlush
<1>6. ASSUME NEW t \in Targets, Unmap(t) PROVE MemInv'
  BY <1>6, MemoryUnmap
<1>7. ASSUME NEW b \in Buffers, Delete(b) PROVE MemInv'
  BY <1>1, <1>7, MemoryForget DEF Delete
<1>8. ASSUME NEW b \in Buffers, Write(b) PROVE MemInv'
  BY <1>8, MemoryWriteWindow, MemoryWritePages
<1>9. CASE NewContext
  BY <1>1, <1>9, MemoryForget DEF NewContext
<1>10. CASE UNCHANGED vars
  BY <1>2, <1>10 DEF vars, library
<1> QED
  BY <1>3, <1>4, <1>5, <1>6, <1>7, <1>8, <1>9, <1>10 DEF Next

LEMMA MemoryAlways ==
  ASSUME LastBound, OneCopy \/ Paged
  PROVE  Spec /\ []HasRoom /\ []HasPlace => [](All /\ MemInv)
<1>1. Init => MemInv
  BY MemoryInit
<1>2. All /\ All' /\ MemInv /\ [Next]_vars => MemInv'
  BY MemoryNext
<1>3. Spec => []TInv /\ []EInv
  BY TypesAlways, EntriesAlways, PTL
<1>4. Spec /\ []HasRoom => []StackInv
  BY StackAlways
<1>5. Spec /\ []HasPlace => []PlaceInv
  BY PlacesAlways
<1>6. TInv /\ EInv /\ HasRoom /\ StackInv /\ PlaceInv => All
  BY DEF All
<1> QED
  BY <1>1, <1>2, <1>3, <1>4, <1>5, <1>6, PTL DEF Spec

\* What the guest reads through the pointer of glMapBuffer is the buffer with its own
\* last writes, whatever other buffers were mapped, flushed, unmapped or deleted since
\* (wrFillBufObj copies in and no other region reaches these words; no other slot
\* reaches those pages).
THEOREM GuestReadsCurrent ==
  ASSUME LastBound, OneCopy \/ Paged
  PROVE  Spec /\ []HasRoom /\ []HasPlace => []ReadsCurrent
<1>1. Spec /\ []HasRoom /\ []HasPlace => [](All /\ MemInv)
  BY MemoryAlways
<1>2. All /\ MemInv => ReadsCurrent
  <2> SUFFICES ASSUME All, MemInv, NEW b \in Buffers, guest[b].area # "none",
                      InWindow(b) /\ guest[b].tgt = Unpack => guest[b].unflushed
               PROVE  Seen(b) = {<<b, written[b]>>}
    BY DEF ReadsCurrent
  <2> DEFINE words == 0 .. Size[b] - 1
             inside == {x \in words : guest[b].at + x \in DOMAIN window}
             all == UNION {Behind(b, k) : k \in words}
             behind == DOMAIN hostMem \cap all
  <2>1. Live(b) /\ guest[b].unflushed \in BOOLEAN
    BY PointerIsLive, FieldsAre DEF All, EInv, Pointers
  <2>2. 0 \in words /\ Size[b] \in Nat /\ Size[b] > 0
    BY SizeIs
  <2>3. CASE InWindow(b)
    <3>1. Seen(b) = {window[guest[b].at + k] : k \in inside}
      BY <2>3 DEF Seen, InWindow
    <3>2. inside = words
      BY <2>3, RegionInside
    <3>3. \A k \in words : window[guest[b].at + k] = <<b, written[b]>>
      BY <2>1, <2>3 DEF MemInv, WindowIs
    <3> HIDE DEF words, inside
    <3> QED
      BY <2>2, <3>1, <3>2, <3>3
  <2>4. CASE ~InWindow(b)
    <3>1. Seen(b) = {hostMem[a] : a \in behind}
      BY <2>4 DEF Seen, InWindow
    <3>2. behind = HostRange(b)
      <4>1. HostRange(b) \subseteq DOMAIN hostMem
        BY <2>1 DEF All, TInv, HostInv
      <4>2. all = HostRange(b)
        BY <2>1, <2>4, BehindAll
      <4> HIDE DEF all
      <4> QED
        BY <4>1, <4>2
    <3>3. \A a \in HostRange(b) : hostMem[a] = <<b, written[b]>>
      BY <2>1, <2>4 DEF MemInv, HostIs
    <3>4. mapped[b] \in HostRange(b)
      BY <2>1, <2>2, FieldsAre DEF All, Live, HostRange
    <3> HIDE DEF words, behind
    <3> QED
      BY <3>1, <3>2, <3>3, <3>4
  <2> QED
    BY <2>3, <2>4
<1> QED
  BY <1>1, <1>2, PTL

\* What the guest wrote before it unmapped a buffer is in the buffer: the implicit flush
\* of glUnmapBuffer, or the explicit ones before it, copied it back; stores to a
\* zero-copy mapping went there at once.
THEOREM NoWriteLost ==
  ASSUME LastBound, OneCopy \/ Paged
  PROVE  Spec /\ []HasRoom /\ []HasPlace => []NoLostWrite
<1>1. Spec /\ []HasRoom /\ []HasPlace => [](All /\ MemInv)
  BY MemoryAlways
<1>2. All /\ MemInv => NoLostWrite
  BY DEF MemInv, NoLostWrite, Live
<1> QED
  BY <1>1, <1>2, PTL

\* Hosts without zero-copy put nothing into the MBUFO area.
THEOREM OneCopyNeedsNoPlace ==
  ASSUME OneCopy
  PROVE  Spec => []HasPlace
<1>1. TInv => HasPlace
  BY OneCopyOrTidy DEF HasPlace
<1> QED
  BY <1>1, TypesAlways, PTL

=============================================================================
