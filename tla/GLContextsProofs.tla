-------------------------- MODULE GLContextsProofs --------------------------
(***************************************************************************)
(* Proofs about GLContexts, for a stack of any depth, any number of        *)
(* pbuffers, attribute lists and contexts.  Types hold whatever the        *)
(* program does; the rest for programs that keep the rules (Orderly).      *)
(*                                                                         *)
(* HandleDenotes and CurrentHonoured are not inductive: what keeps them is *)
(* that the guest's level is the last place that is taken on the host's    *)
(* stack, that what the DLL remembers (currDC, currGLRC, currPixFmt) tells *)
(* what the device has, and that both sides forget a pbuffer together.     *)
(***************************************************************************)
EXTENDS GLContexts, WellFoundedInduction, TLAPS

-----------------------------------------------------------------------------
(* The inductive invariant.                                                *)

\* Between two programs nothing is left on either side.
Unattached ==
  ~loaded => /\ ctx = Empty /\ ~window /\ ~mglContext /\ \A i \in Slots : PBRC[i] = 0
             /\ program = <<>> /\ using = 0 /\ pbuffers = {} /\ currPB = {}

\* There is a pixel format when there is a window, and no context before.
Formatted ==
  loaded => /\ window <=> currPixFmt
            /\ ~window => ctx = Empty /\ level = 0 /\ program = <<>> /\ ~currDC

\* The guest's level is the last place that is taken on the host's stack.
StackInv == loaded => \A n \in Levels \ {0} : ctx[n] # 0 <=> n <= level

\* What the DLL remembers of the device.
DcInv ==
  loaded => /\ currDC => mglContext
            /\ ~currDC => currGLRC = NoHandle
            /\ level # 0 => currGLRC # NoHandle

\* The pbuffers of the program are those that the host has a context for, and the DLL
\* knows no others.
PbInv ==
  /\ \A i \in Slots : PBRC[i] # 0 <=> i \in pbuffers
  /\ currPB \subseteq pbuffers

\* The program's contexts are real, on the stack or of its pbuffers.
HeldInv ==
  \A p \in DOMAIN program :
    /\ program[p].glx # 0
    /\ Latest(p) => /\ program[p].handle \in Levels => program[p].handle <= level
                    /\ \A i \in Slots : program[p].handle = Pb(i) => i \in pbuffers

\* The DLL knows when the program has a current context.
UsingInv == (using # 0 /\ Latest(using)) => currGLRC # NoHandle

SidesAgree == Unattached /\ Formatted /\ StackInv /\ DcInv /\ PbInv
ProgramServed == HeldInv /\ UsingInv /\ HandleDenotes /\ CurrentHonoured

GInv == TypeOK /\ SidesAgree /\ ProgramServed

-----------------------------------------------------------------------------
(* Types.                                                                  *)

Handles == Levels \cup PbHandles
Entries == [handle : Handles, glx : Nat, owned : BOOLEAN]

\* TypeOK in four parts.
Flags ==
  {loaded, currPixFmt, currDC, mglContext, mglCntxCurrent, unhandled, window, active}
     \subseteq BOOLEAN
GuestTypes == currGLRC \in Handles \cup {NoHandle} /\ level \in Levels
HostTypes ==
  /\ created \in Nat /\ PBRC \in [Slots -> 0 .. created]
  /\ ctx \in [Levels -> 0 .. created] /\ glxCurrent \in 0 .. created
  /\ attribs \in Attribs \cup {NoAttribs}
SlotTypes ==
  kit \in Kits /\ currPB \union pbuffers \subseteq hPbuffer /\ hPbuffer \subseteq Slots
ProgramTypes == program \in Seq(Entries) /\ using \in 0 .. Len(program)

\* The parts are the whole, before a step and after it.
LEMMA TypesAreTypeOK ==
  TypeOK <=> Flags /\ GuestTypes /\ HostTypes /\ SlotTypes /\ ProgramTypes
  BY DEF TypeOK, Flags, GuestTypes, HostTypes, SlotTypes, ProgramTypes, Handles, Entries

LEMMA TypesAreTypeOKNext ==
  TypeOK' <=> Flags' /\ GuestTypes' /\ HostTypes' /\ SlotTypes' /\ ProgramTypes'
  BY DEF TypeOK, Flags, GuestTypes, HostTypes, SlotTypes, ProgramTypes, Handles, Entries

\* The tuples of variables are always expanded.
USE DEF vars, guestDll, device, host, pbufs

\* The numbers of the two kinds of handle.
LEMMA HandleNumbers ==
  /\ 0 \in Levels /\ Levels \subseteq Nat
  /\ \A h \in PbHandles : h - MaxLevel \in Slots /\ h = Pb(h - MaxLevel) /\ h \notin Levels
  /\ \A i \in Slots : Pb(i) \in PbHandles /\ Pb(i) - MaxLevel = i
  /\ NoHandle \notin Handles /\ 0 \in Handles /\ 0 # NoHandle /\ 0 \notin PbHandles
  BY ConstantsAssumption DEF Levels, PbHandles, Pb, Slots, Handles, NoHandle

\* A new context is one more entry of the program.
LEMMA GetsTypes ==
  ASSUME ProgramTypes, NEW h \in Handles, NEW id \in Nat, Gets(h, id)
  PROVE  /\ program' \in Seq(Entries) /\ Len(program') = Len(program) + 1
         /\ program'[Len(program) + 1] = [handle |-> h, glx |-> id, owned |-> TRUE]
         /\ \A p \in DOMAIN program : program'[p] = program[p]
         /\ DOMAIN program = 1 .. Len(program) /\ DOMAIN program' = 1 .. Len(program) + 1
         /\ using \in 0 .. Len(program')
<1>1. [handle |-> h, glx |-> id, owned |-> TRUE] \in Entries
  BY DEF Entries
<1> QED
  BY <1>1 DEF ProgramTypes, Gets

\* With its pbuffers the program loses the entries of their contexts.
LEMMA LosesTypes ==
  ASSUME ProgramTypes, NEW slots
  PROVE  /\ Loses(slots) \in Seq(Entries) /\ Len(Loses(slots)) = Len(program)
         /\ DOMAIN Loses(slots) = DOMAIN program /\ DOMAIN program = 1 .. Len(program)
         /\ \A p \in DOMAIN program :
              /\ Loses(slots)[p].handle = program[p].handle /\ Loses(slots)[p].glx = program[p].glx
              /\ Loses(slots)[p].owned <=>
                   program[p].owned /\ program[p].handle \notin {Pb(i) : i \in slots}
<1> DEFINE lost(p) == [program[p] EXCEPT !.owned =
                        @ /\ program[p].handle \notin {Pb(i) : i \in slots}]
<1>1. DOMAIN program = 1 .. Len(program) /\ Len(program) \in Nat
  BY DEF ProgramTypes
<1>2. \A p \in DOMAIN program : program[p] \in Entries
  BY DEF ProgramTypes
<1>3. \A p \in DOMAIN program :
        /\ lost(p) \in Entries /\ lost(p).handle = program[p].handle /\ lost(p).glx = program[p].glx
        /\ lost(p).owned <=> program[p].owned /\ program[p].handle \notin {Pb(i) : i \in slots}
  BY <1>2 DEF Entries
<1>4. Loses(slots) = [p \in 1 .. Len(program) |-> lost(p)]
  BY <1>1 DEF Loses
<1> HIDE DEF lost
<1>5. Loses(slots) \in Seq(Entries) /\ Len(Loses(slots)) = Len(program)
  BY <1>1, <1>3, <1>4
<1> QED
  BY <1>1, <1>3, <1>4, <1>5

\* The host's operations keep its types.
LEMMA FreshTypes ==
  ASSUME HostTypes
  PROVE  /\ 0 .. created \subseteq 0 .. created + 1 /\ created + 1 \in Nat
         /\ OnlyFirst(ctx) \in [Levels -> 0 .. created]
         /\ [OnlyFirst(ctx) EXCEPT ![0] = created + 1] \in [Levels -> 0 .. created + 1]
         /\ [Empty EXCEPT ![0] = created + 1] \in [Levels -> 0 .. created + 1]
         /\ [Empty EXCEPT ![0] = created + 1][0] = created + 1
         /\ [OnlyFirst(ctx) EXCEPT ![0] = created + 1][0] = created + 1
         /\ OnlyFirst(ctx)[0] = ctx[0] /\ ctx[0] \in 0 .. created
<1>1. 0 .. created \subseteq 0 .. created + 1 /\ created + 1 \in Nat
  BY DEF HostTypes
<1>2. OnlyFirst(ctx) \in [Levels -> 0 .. created] /\ OnlyFirst(ctx) \in [Levels -> 0 .. created + 1]
  BY HandleNumbers DEF HostTypes, OnlyFirst
<1>3. Empty \in [Levels -> 0 .. created + 1]
  BY <1>1 DEF Empty
<1>4. created + 1 \in 0 .. created + 1
  BY <1>1
<1>5. OnlyFirst(ctx)[0] = ctx[0] /\ ctx[0] \in 0 .. created
  BY HandleNumbers DEF HostTypes, OnlyFirst
<1> QED
  BY <1>1, <1>2, <1>3, <1>4, <1>5, HandleNumbers

LEMMA DeactivatedTypes ==
  ASSUME NEW a \in Attribs \cup {NoAttribs}
  PROVE  Deactivated(a) \in Attribs \cup {NoAttribs}
  BY DEF Deactivated

LEMMA DeleteSharedTypes ==
  ASSUME TypeOK, DeleteShared, UNCHANGED PBRC
  PROVE  /\ HostTypes'
         /\ {window', active'} \subseteq BOOLEAN
<1>1. HostTypes
  BY TypesAreTypeOK
<1>2. attribs' \in Attribs \cup {NoAttribs}
  BY DeactivatedTypes DEF TypeOK, DeleteShared
<1>3. 0 \in 0 .. created
  BY <1>1 DEF HostTypes
<1> QED
  BY <1>1, <1>2, <1>3, FreshTypes DEF HostTypes, DeleteShared, TypeOK

\* MGLCreateContext and the two kinds of wglCreateContextAttribsARB.
LEMMA HostCreateTypes ==
  ASSUME TypeOK, HostCreate, UNCHANGED PBRC
  PROVE  /\ HostTypes'
         /\ {window', active'} \subseteq BOOLEAN /\ ctx'[0] \in Nat \ {0}
<1>1. HostTypes
  BY TypesAreTypeOK
<1>2. created' \in Nat /\ 0 .. created \subseteq 0 .. created'
  BY <1>1, FreshTypes DEF HostTypes, HostCreate
<1>3. ctx' \in [Levels -> 0 .. created'] /\ ctx'[0] # 0
  <2>1. CASE ctx[0] = 0
    BY <1>1, <2>1, FreshTypes DEF HostCreate, HostTypes
  <2>2. CASE ctx[0] # 0
    BY <1>1, <2>2, FreshTypes DEF HostCreate
  <2> QED
    BY <2>1, <2>2
<1>4. PBRC' \in [Slots -> 0 .. created'] /\ glxCurrent' \in 0 .. created'
  BY <1>1, <1>2 DEF HostTypes, HostCreate
<1>5. ctx'[0] \in Nat \ {0}
  BY <1>2, <1>3, HandleNumbers
<1> QED
  BY <1>1, <1>2, <1>3, <1>4, <1>5 DEF HostTypes, HostCreate, TypeOK

LEMMA HostCreateFirstTypes ==
  ASSUME TypeOK, NEW a \in Attribs, HostCreateFirst(a), UNCHANGED PBRC
  PROVE  /\ HostTypes'
         /\ {window', active'} \subseteq BOOLEAN /\ ctx'[0] \in Nat
<1>1. HostTypes
  BY TypesAreTypeOK
<1>2. created' \in Nat /\ 0 .. created \subseteq 0 .. created'
  BY <1>1, FreshTypes DEF HostTypes, HostCreateFirst
<1>3. ctx' \in [Levels -> 0 .. created']
  BY <1>1, FreshTypes DEF HostCreateFirst, HostTypes
<1>4. PBRC' \in [Slots -> 0 .. created'] /\ glxCurrent' \in 0 .. created'
  BY <1>1, <1>2 DEF HostTypes, HostCreateFirst
<1>5. attribs' \in Attribs \cup {NoAttribs}
  BY <1>1, DeactivatedTypes DEF HostTypes, HostCreateFirst
<1>6. ctx'[0] \in Nat
  BY <1>2, <1>3, HandleNumbers
<1> QED
  BY <1>1, <1>2, <1>3, <1>4, <1>5, <1>6 DEF HostTypes, HostCreateFirst, TypeOK

LEMMA HostCreateSharedTypes ==
  ASSUME TypeOK, HostCreateShared, UNCHANGED PBRC
  PROVE  /\ HostTypes'
         /\ {window', active'} \subseteq BOOLEAN /\ created + 1 \in Nat
<1>1. HostTypes
  BY TypesAreTypeOK
<1>2. created' \in Nat /\ 0 .. created \subseteq 0 .. created' /\ created + 1 \in 0 .. created'
  BY <1>1, FreshTypes DEF HostTypes, HostCreateShared
<1>3. ctx' \in [Levels -> 0 .. created']
  <2>1. CASE FirstFree < MaxLevel
    BY <1>1, <1>2, <2>1 DEF HostCreateShared, HostTypes
  <2>2. CASE ~(FirstFree < MaxLevel)
    <3>1. \A n \in Levels : n # 0 /\ n # MaxLevel - 1 => n + 1 \in Levels
      BY ConstantsAssumption DEF Levels
    <3>2. \A n \in Levels : (IF n = 0 THEN ctx[0] ELSE IF n = MaxLevel - 1 THEN created + 1
                             ELSE ctx[n + 1]) \in 0 .. created'
      BY <1>1, <1>2, <3>1, HandleNumbers DEF HostTypes
    <3> QED
      BY <2>2, <3>2 DEF HostCreateShared
  <2> QED
    BY <2>1, <2>2
<1>4. PBRC' \in [Slots -> 0 .. created'] /\ glxCurrent' \in 0 .. created'
  BY <1>1, <1>2 DEF HostTypes, HostCreateShared
<1> QED
  BY <1>1, <1>2, <1>3, <1>4, FreshTypes DEF HostTypes, HostCreateShared, TypeOK

\* The contexts that handles denote.
LEMMA DenotedTypes ==
  ASSUME HostTypes, NEW h \in Handles
  PROVE  (IF h \in PbHandles THEN PBRC[h - MaxLevel] ELSE ctx[h]) \in 0 .. created
  BY HandleNumbers DEF HostTypes, Handles

LEMMA HostMakeCurrentTypes ==
  ASSUME TypeOK, NEW h \in Handles, HostMakeCurrent(h), UNCHANGED PBRC
  PROVE  /\ HostTypes'
         /\ {window', active'} \subseteq BOOLEAN
<1>1. HostTypes
  BY TypesAreTypeOK
<1> QED
  BY <1>1, DenotedTypes DEF HostTypes, HostMakeCurrent, TypeOK

LEMMA RegisterDeleteTypes ==
  ASSUME TypeOK, NEW h, RegisterDelete(h), UNCHANGED PBRC
  PROVE  /\ HostTypes'
         /\ {window', active', mglContext', mglCntxCurrent', unhandled'} \subseteq BOOLEAN
<1>1. HostTypes
  BY TypesAreTypeOK
<1>2. {mglContext', mglCntxCurrent', unhandled'} \subseteq BOOLEAN
  BY DEF RegisterDelete, TypeOK
<1>3. HostTypes' /\ {window', active'} \subseteq BOOLEAN
  <2>1. CASE h # 0
    BY <1>1, <2>1 DEF RegisterDelete, HostTypes, TypeOK
  <2>2. CASE h = 0
    BY <2>2, DeleteSharedTypes DEF RegisterDelete
  <2> QED
    BY <2>1, <2>2
<1> QED
  BY <1>2, <1>3

\* The levels of the DLL, and the handle it remembers.
LEMMA LevelTypes ==
  ASSUME TypeOK
  PROVE  /\ NextLevel \in Levels
         /\ \A h \in Handles \cup {NoHandle} : CurrAfter(h) \in Handles \cup {NoHandle}
<1>1. level + 1 \in Int /\ MaxLevel \in Nat /\ MaxLevel > 1
  BY ConstantsAssumption DEF TypeOK, Levels
<1>2. (level + 1) % MaxLevel \in 0 .. MaxLevel - 1
  BY <1>1
<1>3. NextLevel \in Levels
  BY <1>1, <1>2 DEF NextLevel, Levels
<1>4. \A h \in Handles \cup {NoHandle} : CurrAfter(h) \in Handles \cup {NoHandle}
  BY HandleNumbers DEF CurrAfter
<1> QED
  BY <1>3, <1>4

\* mglMakeCurrent keeps the types.
LEMMA DllMakeCurrentTypes ==
  ASSUME TypeOK, NEW h \in Handles \cup {NoHandle}, DllMakeCurrent(h), UNCHANGED PBRC
  PROVE  Flags' /\ GuestTypes' /\ HostTypes'
<1>1. HostTypes /\ Flags /\ GuestTypes
  BY TypesAreTypeOK
<1>2. CASE currDC
  <2>1. GuestTypes'
    BY <1>1, <1>2, LevelTypes DEF DllMakeCurrent, GuestTypes
  <2>2. CASE h = NoHandle
    BY <1>1, <1>2, <2>1, <2>2 DEF DllMakeCurrent, RegisterMakeCurrent, Flags, HostTypes
  <2>3. CASE h # NoHandle
    <3>1. h \in Handles /\ HostMakeCurrent(h) /\ mglCntxCurrent' = (mglCntxCurrent \/ mglContext)
      BY <1>2, <2>3 DEF DllMakeCurrent, RegisterMakeCurrent
    <3>2. HostTypes' /\ {window', active'} \subseteq BOOLEAN
      BY <3>1, HostMakeCurrentTypes
    <3>3. Flags'
      BY <1>1, <1>2, <2>3, <3>1, <3>2 DEF DllMakeCurrent, RegisterMakeCurrent, Flags
    <3> QED
      BY <2>1, <3>2, <3>3
  <2> QED
    BY <2>2, <2>3
<1>3. CASE ~currDC /\ currPixFmt /\ currGLRC = NoHandle
  <2>1. GuestTypes'
    BY <1>1, <1>3, LevelTypes DEF DllMakeCurrent, GuestTypes
  <2>2. Flags'
    BY <1>1, <1>3 DEF DllMakeCurrent, Flags
  <2>3. created' \in Nat /\ 0 .. created \subseteq 0 .. created'
    BY <1>1, <1>3, FreshTypes DEF DllMakeCurrent, HostTypes
  <2>4. ctx' \in [Levels -> 0 .. created']
    <3>1. CASE h \in PbHandles
      BY <1>1, <1>3, <3>1 DEF DllMakeCurrent, HostTypes
    <3>2. CASE h \notin PbHandles /\ ctx[0] = 0
      BY <1>1, <1>3, <3>2, FreshTypes DEF DllMakeCurrent
    <3>3. CASE h \notin PbHandles /\ ctx[0] # 0
      BY <1>1, <1>3, <3>3, FreshTypes DEF DllMakeCurrent
    <3> QED
      BY <3>1, <3>2, <3>3
  <2>5. PBRC' \in [Slots -> 0 .. created'] /\ attribs' \in Attribs \cup {NoAttribs}
    BY <1>1, <1>3, <2>3 DEF DllMakeCurrent, HostTypes
  <2>6. glxCurrent' \in 0 .. created'
    <3>1. CASE h = NoHandle
      BY <1>3, <2>3, <3>1 DEF DllMakeCurrent
    <3>2. CASE h \in PbHandles
      BY <1>1, <1>3, <2>3, <3>2, HandleNumbers DEF DllMakeCurrent, HostTypes, Handles
    <3>3. CASE h # NoHandle /\ h \notin PbHandles
      BY <1>3, <2>4, <3>3, HandleNumbers DEF DllMakeCurrent, Handles
    <3> QED
      BY <3>1, <3>2, <3>3
  <2> QED
    BY <2>1, <2>2, <2>3, <2>4, <2>5, <2>6 DEF HostTypes
<1>4. CASE ~currDC /\ ~(currPixFmt /\ currGLRC = NoHandle)
  BY <1>1, <1>4 DEF DllMakeCurrent, Flags, GuestTypes, HostTypes
<1> QED
  BY <1>2, <1>3, <1>4

\* Destroyed pbuffers leave no type broken.
LEMMA PbuffersDestroyedTypes ==
  ASSUME TypeOK, NEW slots, PbuffersDestroyed(slots)
  PROVE  /\ PBRC' \in [Slots -> 0 .. created]
         /\ hPbuffer' \subseteq Slots /\ currPB' \subseteq hPbuffer'
         /\ pbuffers \ slots \subseteq hPbuffer'
<1>1. 0 \in 0 .. created /\ PBRC \in [Slots -> 0 .. created]
  BY DEF TypeOK
<1>2. PBRC' \in [Slots -> 0 .. created]
  BY <1>1 DEF PbuffersDestroyed
<1> QED
  BY <1>2 DEF PbuffersDestroyed, TypeOK

\* Each operation keeps the types, DllMain's first.
LEMMA AttachTypes ==
  ASSUME TypeOK, Attach, UNCHANGED kit
  PROVE  TypeOK'
<1>1. Flags' /\ GuestTypes'
  BY HandleNumbers, TypesAreTypeOK DEF Attach, Flags, GuestTypes
<1>2. HostTypes' /\ ProgramTypes' /\ SlotTypes'
  BY TypesAreTypeOK DEF Attach, HostTypes, ProgramTypes, SlotTypes
<1> QED
  BY <1>1, <1>2, TypesAreTypeOKNext

LEMMA DetachTypes ==
  ASSUME TypeOK, Detach, UNCHANGED kit
  PROVE  TypeOK'
<1> DEFINE slots == IF Ends THEN currPB ELSE {}
           left == IF mglContext \/ Ends THEN OnlyFirst(ctx) ELSE ctx
<1>1. HostTypes /\ Flags /\ GuestTypes /\ SlotTypes
  BY TypesAreTypeOK
<1>2. PbuffersDestroyed(slots) /\ UNCHANGED created /\ glxCurrent' = 0
  BY DEF Detach
<1>3. PBRC' \in [Slots -> 0 .. created]
  BY <1>2, PbuffersDestroyedTypes
<1>4. ctx' \in [Levels -> 0 .. created]
  <2>1. left \in [Levels -> 0 .. created]
    BY <1>1, FreshTypes DEF HostTypes
  <2>2. 0 \in 0 .. created
    BY <1>1 DEF HostTypes
  <2> QED
    BY <2>1, <2>2 DEF Detach
<1>5. HostTypes'
  BY <1>1, <1>2, <1>3, <1>4 DEF HostTypes, Detach
<1>6. SlotTypes'
  BY <1>1, <1>2, PbuffersDestroyedTypes DEF SlotTypes, Detach
<1>7. Flags'
  BY <1>1 DEF Flags, Detach
<1>8. GuestTypes' /\ ProgramTypes'
  BY <1>1 DEF GuestTypes, ProgramTypes, Detach
<1> QED
  BY <1>5, <1>6, <1>7, <1>8, TypesAreTypeOKNext

LEMMA SetPixelFormatTypes ==
  ASSUME TypeOK, SetPixelFormat, UNCHANGED kit
  PROVE  TypeOK'
<1> DEFINE slots == IF Ends THEN currPB ELSE {}
           left == IF Ends THEN OnlyFirst(ctx) ELSE ctx
<1>1. HostTypes /\ Flags /\ GuestTypes /\ SlotTypes /\ ProgramTypes
  BY TypesAreTypeOK
<1>2. PbuffersDestroyed(slots) /\ UNCHANGED created /\ pbuffers' = pbuffers \ slots
  BY DEF SetPixelFormat
<1>3. PBRC' \in [Slots -> 0 .. created]
  BY <1>2, PbuffersDestroyedTypes
<1>4. ctx' \in [Levels -> 0 .. created]
  <2>1. left \in [Levels -> 0 .. created] /\ 0 \in 0 .. created
    BY <1>1, FreshTypes DEF HostTypes
  <2>2. Purged(left) \in [Levels -> 0 .. created]
    BY <2>1 DEF Purged
  <2> QED
    BY <2>2 DEF SetPixelFormat
<1>5. HostTypes'
  BY <1>1, <1>2, <1>3, <1>4, DeactivatedTypes DEF HostTypes, SetPixelFormat
<1>6. SlotTypes'
  BY <1>1, <1>2, PbuffersDestroyedTypes DEF SlotTypes
<1>7. Flags'
  BY <1>1 DEF Flags, SetPixelFormat
<1>8. GuestTypes'
  BY <1>1, LevelTypes DEF GuestTypes, SetPixelFormat
<1>9. ProgramTypes'
  BY <1>1, LosesTypes DEF ProgramTypes, SetPixelFormat
<1> QED
  BY <1>5, <1>6, <1>7, <1>8, <1>9, TypesAreTypeOKNext

\* The entry points that create.
LEMMA CreateContextTypes ==
  ASSUME TypeOK, CreateContext, UNCHANGED kit
  PROVE  TypeOK'
<1>1. HostTypes /\ Flags /\ GuestTypes /\ SlotTypes /\ ProgramTypes
  BY TypesAreTypeOK
<1>2. HostCreate /\ UNCHANGED PBRC
  BY DEF CreateContext, RegisterCreate
<1>3. HostTypes' /\ {window', active'} \subseteq BOOLEAN /\ ctx'[0] \in Nat
  BY <1>2, HostCreateTypes
<1>4. Flags'
  BY <1>1, <1>3 DEF Flags, CreateContext, RegisterCreate
<1>5. ProgramTypes'
  <2>1. CASE currGLRC = NoHandle
    BY <1>1, <1>3, <2>1, GetsTypes, HandleNumbers DEF ProgramTypes, CreateContext
  <2>2. CASE currGLRC # NoHandle
    BY <1>1, <2>2 DEF ProgramTypes, CreateContext
  <2> QED
    BY <2>1, <2>2
<1>6. GuestTypes' /\ SlotTypes'
  BY <1>1 DEF GuestTypes, SlotTypes, CreateContext
<1> QED
  BY <1>3, <1>4, <1>5, <1>6, TypesAreTypeOKNext

LEMMA CreateAttribsTypes ==
  ASSUME TypeOK, NEW a \in Attribs, CreateAttribs(a), UNCHANGED kit
  PROVE  TypeOK'
<1>1. HostTypes /\ Flags /\ GuestTypes /\ SlotTypes /\ ProgramTypes
  BY TypesAreTypeOK
<1>2. HostTypes' /\ {window', active'} \subseteq BOOLEAN /\ ctx'[0] \in Nat
  BY HostCreateFirstTypes DEF CreateAttribs
<1>3. Flags' /\ GuestTypes'
  BY <1>1, <1>2, HandleNumbers DEF Flags, GuestTypes, CreateAttribs
<1>4. ProgramTypes'
  <2>1. CASE ctx'[0] = 0
    BY <1>1, <2>1 DEF ProgramTypes, CreateAttribs
  <2>2. CASE ctx'[0] # 0
    BY <1>1, <1>2, <2>2, GetsTypes, HandleNumbers DEF ProgramTypes, CreateAttribs
  <2> QED
    BY <2>1, <2>2
<1>5. SlotTypes'
  BY <1>1 DEF SlotTypes, CreateAttribs
<1> QED
  BY <1>2, <1>3, <1>4, <1>5, TypesAreTypeOKNext

LEMMA CreateSharedTypes ==
  ASSUME TypeOK, CreateShared, UNCHANGED kit
  PROVE  TypeOK'
<1>1. HostTypes /\ Flags /\ GuestTypes /\ SlotTypes /\ ProgramTypes
  BY TypesAreTypeOK
<1>2. HostTypes' /\ {window', active'} \subseteq BOOLEAN /\ created + 1 \in Nat
  BY HostCreateSharedTypes DEF CreateShared
<1>3. level' \in Levels
  BY LevelTypes, HandleNumbers DEF CreateShared
<1>4. Flags' /\ GuestTypes'
  BY <1>1, <1>2, <1>3 DEF Flags, GuestTypes, CreateShared
<1>5. ProgramTypes'
  BY <1>1, <1>2, <1>3, GetsTypes DEF ProgramTypes, CreateShared, Handles
<1>6. SlotTypes'
  BY <1>1 DEF SlotTypes, CreateShared
<1> QED
  BY <1>2, <1>4, <1>5, <1>6, TypesAreTypeOKNext

\* A set of slots has a least one.
LEMMA LeastOf ==
  ASSUME NEW S \in SUBSET Slots, S # {}
  PROVE  \E x \in S : \A y \in S : x <= y
<1> DEFINE less == OpToRel(<, Nat)
<1>0. S \subseteq Nat
  BY ConstantsAssumption DEF Slots
<1>1. IsWellFoundedOn(less, Nat)
  BY NatLessThanWellFounded
<1>2. PICK x \in S : \A y \in S : <<y, x>> \notin less
  <2> HIDE DEF less
  <2> QED
    BY <1>1, <1>0, WFMin
<1>3. \A m, n \in Nat : m < n => <<m, n>> \in less
  BY DEF OpToRel
<1> HIDE DEF less
<1>4. ASSUME NEW y \in S PROVE x <= y
  <2>1. x \in Nat /\ y \in Nat /\ ~(y < x)
    BY <1>0, <1>2, <1>3
  <2> QED
    BY <2>1
<1> QED
  BY <1>4

\* The place of a new pbuffer, when there is one.
LEMMA FreeSlotTypes ==
  ASSUME NEW free \in SUBSET Slots, free # {}
  PROVE  (CHOOSE x \in free : \A y \in free : x <= y) \in free
  BY LeastOf

LEMMA CreatePbufferTypes ==
  ASSUME TypeOK, NEW configured \in BOOLEAN, NEW w \in Slots, CreatePbuffer(configured, w),
         UNCHANGED kit
  PROVE  TypeOK'
<1> DEFINE free == Slots \ hPbuffer
           i == IF free = {} THEN w ELSE CHOOSE x \in free : \A y \in free : x <= y
           done == free # {} /\ configured
<1>1. HostTypes /\ Flags /\ GuestTypes /\ SlotTypes /\ ProgramTypes
  BY TypesAreTypeOK
<1>2. i \in Slots
  BY FreeSlotTypes
<1>3. /\ hPbuffer' = hPbuffer \union {i}
      /\ currPB' = (IF done THEN currPB \union {i} ELSE currPB \ {i})
      /\ done => /\ PBRC' = [PBRC EXCEPT ![i] = created + 1]
                 /\ created' = created + 1 /\ pbuffers' = pbuffers \union {i}
      /\ ~done => UNCHANGED <<PBRC, created, pbuffers>>
  BY DEF CreatePbuffer
<1> HIDE DEF i, done
<1>4. SlotTypes'
  BY <1>1, <1>2, <1>3 DEF SlotTypes
<1>5. HostTypes'
  <2>1. UNCHANGED <<ctx, glxCurrent, attribs>>
    BY DEF CreatePbuffer
  <2>2. CASE done
    BY <1>1, <1>2, <1>3, <2>1, <2>2, FreshTypes DEF HostTypes
  <2>3. CASE ~done
    BY <1>1, <1>3, <2>1, <2>3 DEF HostTypes
  <2> QED
    BY <2>2, <2>3
<1>6. Flags' /\ GuestTypes' /\ ProgramTypes'
  BY <1>1 DEF Flags, GuestTypes, ProgramTypes, CreatePbuffer
<1> QED
  BY <1>4, <1>5, <1>6, TypesAreTypeOKNext

LEMMA CreatePbufferContextTypes ==
  ASSUME TypeOK, NEW i \in Slots, CreatePbufferContext(i), UNCHANGED kit
  PROVE  TypeOK'
<1>1. HostTypes /\ Flags /\ GuestTypes /\ SlotTypes /\ ProgramTypes
  BY TypesAreTypeOK
<1>2. PBRC[i] \in Nat
  BY <1>1 DEF HostTypes
<1>3. ProgramTypes'
  <2>1. CASE currGLRC = NoHandle
    BY <1>1, <1>2, <2>1, GetsTypes, HandleNumbers DEF ProgramTypes, CreatePbufferContext
  <2>2. CASE currGLRC # NoHandle
    <3>1. Pb(i) \in Handles
      BY HandleNumbers DEF Handles
    <3> QED
      BY <1>1, <1>2, <2>2, <3>1, GetsTypes DEF ProgramTypes, CreatePbufferContext
  <2> QED
    BY <2>1, <2>2
<1>4. Flags' /\ GuestTypes' /\ HostTypes' /\ SlotTypes'
  BY <1>1 DEF Flags, GuestTypes, HostTypes, SlotTypes, CreatePbufferContext
<1> QED
  BY <1>3, <1>4, TypesAreTypeOKNext

LEMMA DestroyPbufferTypes ==
  ASSUME TypeOK, NEW i \in Slots, DestroyPbuffer(i), UNCHANGED kit
  PROVE  TypeOK'
<1>1. HostTypes /\ Flags /\ GuestTypes /\ SlotTypes /\ ProgramTypes
  BY TypesAreTypeOK
<1>2. PbuffersDestroyed({i}) /\ pbuffers' = pbuffers \ {i} /\ program' = Loses({i})
  BY DEF DestroyPbuffer
<1>3. HostTypes' /\ SlotTypes'
  BY <1>1, <1>2, PbuffersDestroyedTypes DEF HostTypes, SlotTypes, DestroyPbuffer
<1>4. ProgramTypes'
  BY <1>1, <1>2, LosesTypes DEF ProgramTypes, DestroyPbuffer
<1>5. Flags' /\ GuestTypes'
  BY <1>1 DEF Flags, GuestTypes, DestroyPbuffer
<1> QED
  BY <1>3, <1>4, <1>5, TypesAreTypeOKNext

\* The entry points that make current and delete.
LEMMA ProgramHandles ==
  ASSUME TypeOK, NEW p \in DOMAIN program
  PROVE  /\ program[p].handle \in Handles /\ program[p].glx \in Nat /\ program[p].owned \in BOOLEAN
         /\ p \in 1 .. Len(program) /\ Len(program) \in Nat
<1>1. program \in Seq(Entries) /\ DOMAIN program = 1 .. Len(program) /\ Len(program) \in Nat
  BY TypesAreTypeOK DEF ProgramTypes
<1>2. program[p] \in Entries
  BY <1>1
<1> QED
  BY <1>1, <1>2 DEF Entries

LEMMA MakeCurrentTypes ==
  ASSUME TypeOK, NEW p, MakeCurrent(p), UNCHANGED kit
  PROVE  TypeOK'
<1>1. HostTypes /\ Flags /\ GuestTypes /\ SlotTypes /\ ProgramTypes
  BY TypesAreTypeOK
<1>2. p \in DOMAIN program /\ DllMakeCurrent(program[p].handle) /\ UNCHANGED PBRC
  BY DEF MakeCurrent
<1>3. Flags' /\ GuestTypes' /\ HostTypes'
  BY <1>2, ProgramHandles, DllMakeCurrentTypes
<1>4. ProgramTypes' /\ SlotTypes'
  BY <1>1, <1>2, ProgramHandles DEF ProgramTypes, SlotTypes, MakeCurrent
<1> QED
  BY <1>3, <1>4, TypesAreTypeOKNext

LEMMA MakeNoneCurrentTypes ==
  ASSUME TypeOK, MakeNoneCurrent, UNCHANGED kit
  PROVE  TypeOK'
<1>1. HostTypes /\ Flags /\ GuestTypes /\ SlotTypes /\ ProgramTypes
  BY TypesAreTypeOK
<1>2. Flags' /\ GuestTypes' /\ HostTypes'
  BY DllMakeCurrentTypes DEF MakeNoneCurrent
<1>3. ProgramTypes' /\ SlotTypes'
  BY <1>1 DEF ProgramTypes, SlotTypes, MakeNoneCurrent
<1> QED
  BY <1>2, <1>3, TypesAreTypeOKNext

LEMMA DeleteContextTypes ==
  ASSUME TypeOK, NEW p, DeleteContext(p), UNCHANGED kit
  PROVE  TypeOK'
<1> DEFINE h == program[p].handle
<1>1. HostTypes /\ Flags /\ GuestTypes /\ SlotTypes /\ ProgramTypes
  BY TypesAreTypeOK
<1>2. p \in DOMAIN program /\ DllDelete(h)
      /\ pbuffers' = (IF DeletesFirst(h) THEN pbuffers \ currPB ELSE pbuffers)
  BY DEF DeleteContext
<1>3. ProgramTypes'
  <2> DEFINE kept == Loses(pbuffers \ pbuffers')
  <2>1. kept \in Seq(Entries) /\ Len(kept) = Len(program) /\ p \in DOMAIN kept
    BY <1>1, <1>2, LosesTypes
  <2>2. program' = [kept EXCEPT ![p].owned = FALSE]
    BY DEF DeleteContext
  <2> HIDE DEF kept
  <2>3. [kept[p] EXCEPT !.owned = FALSE] \in Entries
    <3>1. kept[p] \in Entries
      BY <2>1
    <3> QED
      BY <3>1 DEF Entries
  <2>4. program' = [kept EXCEPT ![p] = [kept[p] EXCEPT !.owned = FALSE]]
    BY <2>1, <2>2
  <2>5. program' \in Seq(Entries) /\ Len(program') = Len(program)
    BY <2>1, <2>3, <2>4
  <2> QED
    BY <1>1, <2>5 DEF ProgramTypes, DeleteContext
<1>4. Flags' /\ GuestTypes' /\ HostTypes' /\ SlotTypes'
  <2>1. CASE level # 0 /\ h = level
    <3>1. RegisterDelete(h) /\ UNCHANGED <<guestDll, pbufs>> /\ ~DeletesFirst(h)
      BY <1>2, <2>1 DEF DllDelete, DeletesFirst
    <3>2. HostTypes'
      BY <3>1, RegisterDeleteTypes
    <3>3. {window', active', mglContext', mglCntxCurrent', unhandled'} \subseteq BOOLEAN
      BY <3>1, RegisterDeleteTypes
    <3> QED
      BY <1>1, <1>2, <3>1, <3>2, <3>3 DEF Flags, GuestTypes, SlotTypes, DeleteContext
  <2>2. CASE ~(level # 0 /\ h = level) /\ DeletesFirst(h)
    <3>1. /\ RegisterDelete(0) /\ PbuffersDestroyed(currPB)
          /\ currDC' = FALSE /\ UNCHANGED <<loaded, currPixFmt, currGLRC, level>>
      BY <1>2, <2>2 DEF DllDelete
    <3>2. SlotTypes' /\ PBRC' \in [Slots -> 0 .. created]
      BY <1>1, <1>2, <2>2, <3>1, PbuffersDestroyedTypes DEF SlotTypes
    <3>3. DeleteShared
      BY <3>1 DEF RegisterDelete
    <3>4. HostTypes'
      BY <1>1, <3>2, <3>3, FreshTypes, DeactivatedTypes DEF HostTypes, DeleteShared
    <3>5. Flags'
      BY <1>1, <3>1, <3>3 DEF Flags, RegisterDelete, DeleteShared
    <3> QED
      BY <1>1, <3>1, <3>2, <3>4, <3>5 DEF GuestTypes
  <2>3. CASE ~(level # 0 /\ h = level) /\ ~DeletesFirst(h)
    BY <1>1, <1>2, <2>3 DEF DllDelete, Flags, GuestTypes, HostTypes, SlotTypes, DeleteContext
  <2> QED
    BY <2>1, <2>2, <2>3
<1> QED
  BY <1>3, <1>4, TypesAreTypeOKNext

\* The window's messages.
LEMMA ActivateTypes ==
  ASSUME TypeOK, NEW i \in BOOLEAN, Activate(i), UNCHANGED kit
  PROVE  TypeOK'
<1>1. HostTypes /\ Flags /\ GuestTypes /\ SlotTypes /\ ProgramTypes
  BY TypesAreTypeOK
<1>2. HostTypes'
  BY <1>1, DeactivatedTypes DEF HostTypes, Activate
<1>3. Flags' /\ GuestTypes' /\ SlotTypes' /\ ProgramTypes'
  BY <1>1 DEF Flags, GuestTypes, SlotTypes, ProgramTypes, Activate
<1> QED
  BY <1>2, <1>3, TypesAreTypeOKNext

LEMMA SwapBuffersTypes ==
  ASSUME TypeOK, SwapBuffers, UNCHANGED kit
  PROVE  TypeOK'
<1>1. HostTypes /\ Flags /\ GuestTypes /\ SlotTypes /\ ProgramTypes
  BY TypesAreTypeOK
<1>2. Flags' /\ HostTypes' /\ GuestTypes' /\ SlotTypes' /\ ProgramTypes'
  BY <1>1 DEF Flags, GuestTypes, HostTypes, SlotTypes, ProgramTypes, SwapBuffers
<1> QED
  BY <1>2, TypesAreTypeOKNext

LEMMA InitTypes == Init => TypeOK
  BY HandleNumbers DEF Init, TypeOK, Empty

LEMMA NextTypes ==
  ASSUME TypeOK, [Next]_vars
  PROVE  TypeOK'
<1>1. CASE UNCHANGED vars
  BY <1>1 DEF TypeOK
<1>2. CASE Next
  <2>1. Uses /\ UNCHANGED kit
    BY <1>2 DEF Next
  <2>2. CASE Attach \/ Detach \/ SetPixelFormat \/ CreateContext \/ CreateShared
    BY <2>1, <2>2, AttachTypes, DetachTypes, SetPixelFormatTypes, CreateContextTypes,
       CreateSharedTypes
  <2>3. CASE \E a \in Attribs : CreateAttribs(a)
    BY <2>1, <2>3, CreateAttribsTypes
  <2>4. CASE \E configured \in BOOLEAN, w \in Slots : CreatePbuffer(configured, w)
    BY <2>1, <2>4, CreatePbufferTypes
  <2>5. CASE \E i \in Slots : CreatePbufferContext(i) \/ DestroyPbuffer(i)
    BY <2>1, <2>5, CreatePbufferContextTypes, DestroyPbufferTypes
  <2>6. CASE \E p \in 1 .. MaxCreated : MakeCurrent(p) \/ DeleteContext(p)
    BY <2>1, <2>6, MakeCurrentTypes, DeleteContextTypes
  <2>7. CASE MakeNoneCurrent \/ SwapBuffers \/ \E i \in BOOLEAN : Activate(i)
    BY <2>1, <2>7, MakeNoneCurrentTypes, SwapBuffersTypes, ActivateTypes
  <2> QED
    BY <2>1, <2>2, <2>3, <2>4, <2>5, <2>6, <2>7 DEF Uses
<1> QED
  BY <1>1, <1>2

-----------------------------------------------------------------------------
(* The program's contexts.                                                 *)

\* What a handle denotes, with the contexts pb of the pbuffers and the stack c.
Denoted(h, pb, c) == IF h \in PbHandles THEN pb[h - MaxLevel] ELSE c[h]

\* Of an entry that is not changed but for its owner, none becomes the latest.
LEMMA FewerLatest ==
  ASSUME Len(program') = Len(program),
         \A q \in DOMAIN program : /\ program'[q].handle = program[q].handle
                                   /\ program'[q].owned => program[q].owned,
         TypeOK
  PROVE  \A p \in DOMAIN program : Latest(p)' => Latest(p)
<1>1. DOMAIN program = 1 .. Len(program) /\ Len(program) \in Nat
  BY TypesAreTypeOK DEF ProgramTypes
<1>2. ASSUME NEW p \in DOMAIN program, Latest(p)'
      PROVE  Latest(p)
  <2>1. \A q \in p + 1 .. Len(program) : q \in DOMAIN program
    BY <1>1
  <2> QED
    BY <1>2, <2>1 DEF Latest
<1> QED
  BY <1>2

\* What the program loses with pbuffers is not the latest.
LEMMA LosesLatest ==
  ASSUME TypeOK, NEW slots, program' = Loses(slots)
  PROVE  /\ DOMAIN program' = DOMAIN program
         /\ \A p \in DOMAIN program :
              /\ program'[p].handle = program[p].handle /\ program'[p].glx = program[p].glx
              /\ Latest(p)' => Latest(p) /\ \A i \in slots : program[p].handle # Pb(i)
<1>1. ProgramTypes
  BY TypesAreTypeOK
<1>2. /\ Len(program') = Len(program) /\ DOMAIN program' = DOMAIN program
      /\ \A p \in DOMAIN program :
           /\ program'[p].handle = program[p].handle /\ program'[p].glx = program[p].glx
           /\ program'[p].owned <=>
                program[p].owned /\ program[p].handle \notin {Pb(i) : i \in slots}
  BY <1>1, LosesTypes
<1>3. \A p \in DOMAIN program : Latest(p)' => Latest(p)
  BY <1>2, FewerLatest
<1>4. \A p \in DOMAIN program : Latest(p)' => program'[p].owned
  BY DEF Latest
<1> QED
  BY <1>2, <1>3, <1>4

\* A new entry is the latest, and none of the same handle.
LEMMA GetsLatest ==
  ASSUME TypeOK, NEW h \in Handles, NEW id \in Nat, Gets(h, id)
  PROVE  /\ DOMAIN program' = DOMAIN program \cup {Len(program) + 1}
         /\ program'[Len(program) + 1] = [handle |-> h, glx |-> id, owned |-> TRUE]
         /\ using # Len(program) + 1 /\ (using # 0 => using \in DOMAIN program)
         /\ \A p \in DOMAIN program : /\ program'[p] = program[p]
                                      /\ Latest(p)' => Latest(p) /\ program[p].handle # h
<1> DEFINE n == Len(program) + 1
<1>1. ProgramTypes /\ Len(program) \in Nat
  BY TypesAreTypeOK DEF ProgramTypes
<1>2. /\ Len(program') = n /\ program'[n] = [handle |-> h, glx |-> id, owned |-> TRUE]
      /\ \A p \in DOMAIN program : program'[p] = program[p]
      /\ DOMAIN program = 1 .. Len(program) /\ DOMAIN program' = 1 .. n
  BY <1>1, GetsTypes
<1>3. ASSUME NEW p \in DOMAIN program, Latest(p)'
      PROVE  Latest(p) /\ program[p].handle # h
  <2>1. n \in p + 1 .. Len(program') /\ \A q \in p + 1 .. Len(program) :
                                           q \in DOMAIN program /\ q \in p + 1 .. Len(program')
    BY <1>1, <1>2
  <2>2. program[p].handle # h
    BY <1>2, <1>3, <2>1 DEF Latest
  <2>3. Latest(p)
    BY <1>2, <1>3, <2>1 DEF Latest
  <2> QED
    BY <2>2, <2>3
<1>4. using # n /\ (using # 0 => using \in DOMAIN program)
  BY <1>1, <1>2 DEF ProgramTypes
<1>5. DOMAIN program' = DOMAIN program \cup {n}
  BY <1>1, <1>2
<1> QED
  BY <1>2, <1>3, <1>4, <1>5

\* The entries that are there stay true when the host keeps what they denote.
LEMMA EntriesKept ==
  ASSUME HeldInv, HandleDenotes, DOMAIN program' = DOMAIN program,
         \A p \in DOMAIN program :
           /\ program'[p].handle = program[p].handle /\ program'[p].glx = program[p].glx
           /\ Latest(p)' => /\ Latest(p)
                            /\ Denoted(program[p].handle, PBRC', ctx')
                                 = Denoted(program[p].handle, PBRC, ctx)
                            /\ program[p].handle \in Levels => program[p].handle <= level'
                            /\ \A i \in Slots : program[p].handle = Pb(i) => i \in pbuffers'
  PROVE  HeldInv' /\ HandleDenotes'
<1>1. \A p \in DOMAIN program : Latest(p) => program[p].glx = Denoted(program[p].handle, PBRC, ctx)
  BY DEF HandleDenotes, Denoted
<1>2. \A p \in DOMAIN program :
        Latest(p)' => program'[p].glx = Denoted(program[p].handle, PBRC', ctx')
  BY <1>1
<1>3. HandleDenotes'
  BY <1>2 DEF HandleDenotes, Denoted
<1>4. HeldInv'
  BY DEF HeldInv
<1> QED
  BY <1>3, <1>4

\* So do they when one more is made, true as well.
LEMMA EntriesGet ==
  ASSUME TypeOK, HeldInv, HandleDenotes,
         NEW h \in Handles, NEW id \in Nat \ {0}, Gets(h, id), id = Denoted(h, PBRC', ctx'),
         h \in Levels => h <= level', \A i \in Slots : h = Pb(i) => i \in pbuffers',
         \A p \in DOMAIN program :
           Latest(p) /\ program[p].handle # h =>
             /\ Denoted(program[p].handle, PBRC', ctx') = Denoted(program[p].handle, PBRC, ctx)
             /\ program[p].handle \in Levels => program[p].handle <= level'
             /\ \A i \in Slots : program[p].handle = Pb(i) => i \in pbuffers'
  PROVE  HeldInv' /\ HandleDenotes'
<1> DEFINE n == Len(program) + 1
<1>1. /\ DOMAIN program' = DOMAIN program \cup {n}
      /\ program'[n] = [handle |-> h, glx |-> id, owned |-> TRUE]
      /\ \A p \in DOMAIN program : /\ program'[p] = program[p]
                                   /\ Latest(p)' => Latest(p) /\ program[p].handle # h
  BY GetsLatest
<1>2. \A p \in DOMAIN program : Latest(p) => program[p].glx = Denoted(program[p].handle, PBRC, ctx)
  BY DEF HandleDenotes, Denoted
<1>3. \A p \in DOMAIN program' :
        Latest(p)' => program'[p].glx = Denoted(program'[p].handle, PBRC', ctx')
  <2>1. \A p \in DOMAIN program :
          Latest(p)' => program'[p].glx = Denoted(program'[p].handle, PBRC', ctx')
    BY <1>1, <1>2
  <2>2. program'[n].glx = id /\ program'[n].handle = h
    BY <1>1
  <2> QED
    BY <1>1, <2>1, <2>2
<1>4. HandleDenotes'
  BY <1>3 DEF HandleDenotes, Denoted
<1>5. HeldInv'
  <2>1. program'[n].glx = id /\ program'[n].handle = h
    BY <1>1
  <2> QED
    BY <1>1, <2>1 DEF HeldInv
<1> QED
  BY <1>4, <1>5

-----------------------------------------------------------------------------
(* Each operation keeps the invariant.                                     *)

\* While no context is shared, a deletion of the shared ones changes nothing.
LEMMA NoneShared ==
  ASSUME TypeOK, StackInv, loaded, level = 0
  PROVE  OnlyFirst(ctx) = ctx /\ \A n \in Levels \ {0} : ctx[n] = 0
<1>1. \A n \in Levels \ {0} : ctx[n] = 0
  <2>1. \A n \in Levels \ {0} : ~(n <= level)
    BY DEF Levels
  <2> QED
    BY <2>1 DEF StackInv
<1>2. ctx \in [Levels -> 0 .. created]
  BY DEF TypeOK
<1> QED
  BY <1>1, <1>2 DEF OnlyFirst

LEMMA AttachKeeps ==
  ASSUME GInv, Attach
  PROVE  SidesAgree' /\ ProgramServed'
<1>1. /\ ctx' = Empty /\ program' = <<>> /\ using' = 0 /\ window' = FALSE /\ loaded' = TRUE
      /\ currPixFmt' = FALSE /\ currDC' = FALSE /\ currGLRC' = NoHandle /\ level' = 0
      /\ currPB' = {} /\ pbuffers' = pbuffers /\ PBRC' = PBRC
  BY DEF GInv, SidesAgree, Unattached, Attach
<1>2. \A n \in Levels \ {0} : Empty[n] = 0 /\ ~(n <= 0)
  BY DEF Empty, Levels
<1>3. StackInv'
  BY <1>1, <1>2 DEF StackInv
<1>4. Unattached' /\ Formatted' /\ DcInv' /\ PbInv'
  BY <1>1 DEF GInv, SidesAgree, Unattached, Formatted, DcInv, PbInv
<1>5. DOMAIN program' = {}
  BY <1>1
<1>6. ProgramServed'
  BY <1>1, <1>5 DEF ProgramServed, HeldInv, UsingInv, HandleDenotes, CurrentHonoured
<1> QED
  BY <1>3, <1>4, <1>6 DEF SidesAgree

\* DLL_PROCESS_DETACH leaves nothing: NothingLeft.
LEMMA DetachKeeps ==
  ASSUME Orderly, GInv, Detach
  PROVE  SidesAgree' /\ ProgramServed'
<1> DEFINE slots == IF Ends THEN currPB ELSE {}
           left == IF mglContext \/ Ends THEN OnlyFirst(ctx) ELSE ctx
<1>1. /\ loaded /\ loaded' = FALSE /\ mglContext' = FALSE /\ window' = FALSE
      /\ program' = <<>> /\ using' = 0 /\ pbuffers' = {} /\ pbuffers \subseteq slots
      /\ PbuffersDestroyed(slots)
      /\ ctx' = (IF window THEN [left EXCEPT ![0] = 0] ELSE left)
  BY DEF Detach, MayDetach
<1>2. TypeOK /\ SidesAgree
  BY DEF GInv
<1>3. \A i \in Slots : PBRC'[i] = 0
  BY <1>1, <1>2 DEF SidesAgree, PbInv, PbuffersDestroyed
<1>4. currPB' = {}
  BY <1>1, <1>2 DEF SidesAgree, PbInv, PbuffersDestroyed
<1>5. ctx' = Empty
  <2>1. left \in [Levels -> 0 .. created] /\ \A n \in Levels \ {0} : left[n] = 0
    <3>1. CASE mglContext \/ Ends
      BY <1>2, <3>1, FreshTypes, TypesAreTypeOK DEF OnlyFirst
    <3>2. CASE ~(mglContext \/ Ends)
      <4>1. level = 0
        BY <1>1, <1>2, <3>2 DEF SidesAgree, DcInv
      <4> QED
        BY <1>1, <1>2, <3>2, <4>1, NoneShared DEF SidesAgree, TypeOK
    <3> QED
      BY <3>1, <3>2
  <2>2. CASE window
    BY <1>1, <2>1, <2>2 DEF Empty
  <2>3. CASE ~window
    <3>1. ctx = Empty
      BY <1>1, <1>2, <2>3 DEF SidesAgree, Formatted
    <3>2. left = Empty
      BY <3>1 DEF Empty, OnlyFirst
    <3> QED
      BY <1>1, <2>3, <3>2
  <2> QED
    BY <2>2, <2>3
<1>6. SidesAgree'
  BY <1>1, <1>3, <1>4, <1>5 DEF SidesAgree, Unattached, Formatted, StackInv, DcInv, PbInv
<1>7. DOMAIN program' = {}
  BY <1>1
<1>8. ProgramServed'
  BY <1>1, <1>7 DEF ProgramServed, HeldInv, UsingInv, HandleDenotes, CurrentHonoured
<1> QED
  BY <1>6, <1>8

\* No handle of the program is left to denote anything.
LEMMA SetPixelFormatKeeps ==
  ASSUME Orderly, GInv, SetPixelFormat
  PROVE  SidesAgree' /\ ProgramServed'
<1> DEFINE slots == IF Ends THEN currPB ELSE {}
           left == IF Ends THEN OnlyFirst(ctx) ELSE ctx
<1>1. TypeOK /\ SidesAgree /\ ProgramServed
  BY DEF GInv
<1>2. /\ loaded /\ loaded' = TRUE /\ window' = TRUE /\ currPixFmt' = TRUE /\ level' = level
      /\ PbuffersDestroyed(slots) /\ pbuffers' = pbuffers \ slots
      /\ program' = Loses(pbuffers \ pbuffers') /\ ctx' = Purged(left)
      /\ using' = (IF currGLRC = NoHandle THEN using ELSE 0)
      /\ \A p \in DOMAIN program : ~Latest(p)
  BY <1>1 DEF SetPixelFormat, MaySetFormat, TypeOK
<1>3. PbInv'
  BY <1>1, <1>2 DEF SidesAgree, PbInv, PbuffersDestroyed
<1>4. StackInv'
  <2>1. left = ctx
    BY <1>1, <1>2, NoneShared DEF Ends, SidesAgree
  <2>2. \A n \in Levels \ {0} : ctx'[n] = ctx[n]
    BY <1>1, <1>2, <2>1 DEF Purged, TypeOK
  <2> QED
    BY <1>1, <1>2, <2>2 DEF StackInv, SidesAgree
<1>5. DcInv'
  <2>1. /\ currDC' = (currDC /\ ~Ends) /\ mglContext' = (mglContext /\ ~(Ends /\ mglCntxCurrent))
        /\ currGLRC' = (IF currGLRC = NoHandle THEN NoHandle ELSE CurrAfter(NoHandle))
    BY DEF SetPixelFormat
  <2>2. CurrAfter(NoHandle) = IF level # 0 THEN 0 ELSE NoHandle
    BY DEF CurrAfter
  <2> QED
    BY <1>1, <1>2, <2>1, <2>2, HandleNumbers DEF SidesAgree, DcInv, Ends
<1>6. Unattached' /\ Formatted'
  BY <1>2 DEF Unattached, Formatted
<1>7. /\ DOMAIN program' = DOMAIN program
      /\ \A p \in DOMAIN program : program'[p].glx = program[p].glx /\ ~Latest(p)'
  BY <1>1, <1>2, LosesLatest
<1>8. using' # 0 => using' \in DOMAIN program
  BY <1>1, <1>2 DEF TypeOK
<1>9. ProgramServed'
  <2>1. HeldInv'
    BY <1>1, <1>7 DEF ProgramServed, HeldInv
  <2>2. HandleDenotes'
    BY <1>7 DEF HandleDenotes
  <2>3. using' # 0 => ~Latest(using)'
    <3>1. using' = 0 \/ using' = using
      BY <1>2
    <3>2. \A u : u = using' /\ u # 0 => ~Latest(u)'
      BY <1>7, <1>8
    <3> QED
      BY <3>2 DEF Latest
  <2> QED
    BY <2>1, <2>2, <2>3 DEF ProgramServed, UsingInv, CurrentHonoured
<1> QED
  BY <1>3, <1>4, <1>5, <1>6, <1>9 DEF SidesAgree

\* The window's context is the first, and the only one.
LEMMA CreateContextKeeps ==
  ASSUME Orderly, GInv, CreateContext
  PROVE  SidesAgree' /\ ProgramServed'
<1>1. TypeOK /\ SidesAgree /\ ProgramServed
  BY DEF GInv
<1>2. /\ loaded /\ currPixFmt /\ currGLRC = NoHandle /\ level = 0
      /\ \A p \in DOMAIN program : ~Latest(p)
      /\ HostCreate /\ mglContext' = TRUE /\ currDC' = TRUE /\ Gets(0, ctx'[0])
      /\ UNCHANGED <<loaded, currPixFmt, currGLRC, level, pbufs, pbuffers, using, window>>
  BY DEF CreateContext, MayCreate, RegisterCreate, HostCreate, Asks
<1>3. window
  BY <1>1, <1>2 DEF SidesAgree, Formatted
<1>4. ctx'[0] \in Nat \ {0}
  BY <1>1, <1>2, HostCreateTypes
<1>5. StackInv'
  <2>1. \A n \in Levels \ {0} : ctx'[n] = 0 /\ ~(n <= 0)
    <3>1. \A n \in Levels \ {0} : OnlyFirst(ctx)[n] = 0 /\ ~(n <= 0)
      BY DEF OnlyFirst, Levels
    <3> QED
      BY <1>2, <3>1 DEF HostCreate, OnlyFirst
  <2> QED
    BY <1>2, <2>1 DEF StackInv
<1>6. SidesAgree'
  BY <1>1, <1>2, <1>3, <1>5 DEF SidesAgree, Unattached, Formatted, DcInv, PbInv
<1>7. HeldInv' /\ HandleDenotes'
  <2>1. ctx'[0] = Denoted(0, PBRC', ctx') /\ 0 <= level' /\ \A i \in Slots : 0 # Pb(i)
    BY <1>2, HandleNumbers DEF Denoted
  <2> QED
    BY <1>1, <1>2, <1>4, <2>1, EntriesGet, HandleNumbers DEF ProgramServed
<1>8. using # 0 => ~Latest(using)'
  BY <1>1, <1>2, <1>4, GetsLatest, HandleNumbers
<1> QED
  BY <1>2, <1>6, <1>7, <1>8 DEF ProgramServed, UsingInv, CurrentHonoured, Latest

\* A context with attributes is the first as well, when it is made.
LEMMA CreateAttribsKeeps ==
  ASSUME Orderly, GInv, NEW a \in Attribs, CreateAttribs(a)
  PROVE  SidesAgree' /\ ProgramServed'
<1>1. TypeOK /\ SidesAgree /\ ProgramServed
  BY DEF GInv
<1>2. /\ loaded /\ window /\ HostCreateFirst(a) /\ glxCurrent' = 0
      /\ \A p \in DOMAIN program : Latest(p) => program[p].handle \in {0} \union PbHandles
      /\ level = 0 \/ a # attribs
      /\ using # 0 => program[using].handle = 0
      /\ UNCHANGED <<loaded, currPixFmt, window, pbufs, pbuffers, using>>
  BY DEF CreateAttribs, MayReplace, Asks, HostCreateFirst
<1>3. using # 0 => using \in DOMAIN program
  BY <1>1 DEF TypeOK
<1>4. CASE ctx'[0] = 0
  <2>1. /\ UNCHANGED <<guestDll, device, program>> /\ UNCHANGED ctx
    <3>1. created + 1 # 0 /\ [Empty EXCEPT ![0] = created + 1][0] = created + 1
      BY <1>1, FreshTypes, TypesAreTypeOK DEF HostTypes
    <3> QED
      BY <1>4, <3>1 DEF CreateAttribs, HostCreateFirst
  <2>2. SidesAgree'
    BY <1>1, <1>2, <2>1 DEF SidesAgree, Unattached, Formatted, StackInv, DcInv, PbInv
  <2>3. HeldInv' /\ HandleDenotes' /\ UsingInv'
    BY <1>1, <1>2, <2>1 DEF ProgramServed, HeldInv, HandleDenotes, UsingInv, Latest
  <2>4. ~(using # 0 /\ Latest(using))
    <3>1. ASSUME using # 0, Latest(using) PROVE FALSE
      <4>1. program[using].glx = ctx[0] /\ program[using].glx # 0
        BY <1>1, <1>2, <1>3, <3>1, HandleNumbers DEF ProgramServed, HeldInv, HandleDenotes
      <4> QED
        BY <1>4, <2>1, <4>1
    <3> QED
      BY <3>1
  <2>5. CurrentHonoured'
    BY <1>2, <2>1, <2>4 DEF CurrentHonoured, Latest
  <2> QED
    BY <2>2, <2>3, <2>5 DEF ProgramServed
<1>5. CASE ctx'[0] # 0
  <2>1. /\ mglContext' = TRUE /\ currDC' = TRUE /\ currGLRC' = NoHandle /\ level' = 0
        /\ Gets(0, ctx'[0])
    BY <1>5 DEF CreateAttribs
  <2>2. ctx'[0] \in Nat \ {0}
    BY <1>1, <1>2, <1>5, HostCreateFirstTypes
  <2>3. StackInv'
    <3>1. \A n \in Levels \ {0} : ~(n <= 0) /\ [Empty EXCEPT ![0] = created + 1][n] = 0
      BY DEF Levels, Empty
    <3>2. \A n \in Levels \ {0} : ctx'[n] = 0
      BY <1>1, <1>2, <3>1, NoneShared DEF HostCreateFirst, SidesAgree
    <3> QED
      BY <2>1, <3>1, <3>2 DEF StackInv
  <2>4. SidesAgree'
    BY <1>1, <1>2, <2>1, <2>3 DEF SidesAgree, Unattached, Formatted, DcInv, PbInv
  <2>5. HeldInv' /\ HandleDenotes'
    <3>1. ctx'[0] = Denoted(0, PBRC', ctx') /\ 0 <= level' /\ \A i \in Slots : 0 # Pb(i)
      BY <2>1, HandleNumbers DEF Denoted
    <3>2. \A p \in DOMAIN program : Latest(p) /\ program[p].handle # 0 =>
            /\ program[p].handle \in PbHandles /\ program[p].handle \notin Levels
            /\ Denoted(program[p].handle, PBRC', ctx') = Denoted(program[p].handle, PBRC, ctx)
            /\ \A i \in Slots : program[p].handle = Pb(i) => i \in pbuffers'
      BY <1>1, <1>2, HandleNumbers DEF Denoted, ProgramServed, HeldInv
    <3> QED
      BY <1>1, <2>1, <2>2, <3>1, <3>2, EntriesGet, HandleNumbers DEF ProgramServed
  <2>6. using # 0 => ~Latest(using)'
    BY <1>1, <1>2, <1>3, <2>1, <2>2, GetsLatest, HandleNumbers
  <2> QED
    BY <1>2, <2>4, <2>5, <2>6 DEF ProgramServed, UsingInv, CurrentHonoured, Latest
<1> QED
  BY <1>4, <1>5

\* The first free place is the one after the level.
LEMMA FirstFreeIsNext ==
  ASSUME TypeOK, StackInv, loaded, FirstFree > 0, level + 1 < MaxLevel
  PROVE  FirstFree = level + 1 /\ level + 1 \in Levels \ {0}
<1> DEFINE Free(n) == (n = MaxLevel \/ ctx[n] = 0) /\ \A m \in 0 .. n - 1 : ctx[m] # 0
<1>1. level \in Nat /\ MaxLevel \in Nat /\ level + 1 \in Levels \ {0} /\ Levels = 0 .. MaxLevel - 1
  BY ConstantsAssumption DEF TypeOK, Levels
<1>2. FirstFree = CHOOSE n \in 0 .. MaxLevel : Free(n)
  BY DEF FirstFree
<1>3. ctx[0] # 0
  <2>1. SUFFICES ASSUME ctx[0] = 0 PROVE FALSE
    OBVIOUS
  <2>2. 0 \in 0 .. MaxLevel /\ Free(0)
    BY <1>1, <2>1
  <2>3. FirstFree \in 0 .. MaxLevel /\ Free(FirstFree)
    BY <1>2, <2>2
  <2>4. 0 \in 0 .. FirstFree - 1
    BY <2>3
  <2> QED
    BY <2>1, <2>3, <2>4
<1>4. ctx[level + 1] = 0 /\ \A m \in 0 .. level : ctx[m] # 0
  BY <1>1, <1>3 DEF StackInv
<1>5. level + 1 \in 0 .. MaxLevel /\ Free(level + 1)
  BY <1>1, <1>4
<1>6. FirstFree \in 0 .. MaxLevel /\ Free(FirstFree)
  BY <1>2, <1>5
<1>7. ~(FirstFree < level + 1)
  <2>1. SUFFICES ASSUME FirstFree < level + 1 PROVE FALSE
    OBVIOUS
  <2>2. FirstFree \in 0 .. level /\ FirstFree # MaxLevel
    BY <1>1, <1>6, <2>1
  <2> QED
    BY <1>4, <1>6, <2>2
<1>8. ~(level + 1 < FirstFree)
  <2>1. SUFFICES ASSUME level + 1 < FirstFree PROVE FALSE
    OBVIOUS
  <2>2. level + 1 \in 0 .. FirstFree - 1
    BY <1>1, <1>6, <2>1
  <2> QED
    BY <1>4, <1>6, <2>2
<1>9. FirstFree = level + 1
  <2> HIDE DEF Free
  <2> QED
    BY <1>1, <1>6, <1>7, <1>8
<1> QED
  BY <1>1, <1>9

\* A shared context has the same number on both sides.
LEMMA CreateSharedKeeps ==
  ASSUME Orderly, GInv, CreateShared
  PROVE  SidesAgree' /\ ProgramServed'
<1>1. TypeOK /\ SidesAgree /\ ProgramServed
  BY DEF GInv
<1>2. /\ loaded /\ window /\ FirstFree > 0 /\ using # 0 /\ Latest(using) /\ level + 1 < MaxLevel
      /\ HostCreateShared /\ currDC' = TRUE /\ Gets(level', created + 1)
      /\ level' = (IF currGLRC # NoHandle THEN NextLevel ELSE 0)
      /\ UNCHANGED <<loaded, window, currPixFmt, currGLRC, glxCurrent, device, pbufs, pbuffers,
                     using>>
  BY DEF CreateShared, MayShare, Asks, HostCreateShared
<1>3. FirstFree = level + 1 /\ level + 1 \in Levels \ {0} /\ level + 1 \in Handles
  BY <1>1, <1>2, FirstFreeIsNext DEF SidesAgree, Handles
<1>4. currGLRC # NoHandle /\ mglContext /\ level \in Nat
  BY <1>1, <1>2 DEF ProgramServed, UsingInv, CurrentHonoured, TypeOK, Levels
<1>5. level' = level + 1
  <2>1. (level + 1) % MaxLevel = level + 1 /\ level + 1 # 0
    BY <1>2, <1>4, ConstantsAssumption
  <2> QED
    BY <1>2, <1>4, <2>1 DEF NextLevel
<1>6. ctx' = [ctx EXCEPT ![level + 1] = created + 1] /\ created + 1 \in Nat \ {0}
      /\ ctx \in [Levels -> 0 .. created]
  BY <1>1, <1>2, <1>3 DEF HostCreateShared, TypeOK
<1>7. StackInv'
  <2>1. \A n \in Levels \ {0} : ctx'[n] # 0 <=> n <= level + 1
    <3>1. \A n \in Levels \ {0} : n # level + 1 => (n <= level + 1 <=> n <= level)
      BY <1>4 DEF Levels
    <3> QED
      BY <1>1, <1>2, <1>4, <1>6, <3>1 DEF SidesAgree, StackInv
  <2> QED
    BY <1>5, <2>1 DEF StackInv
<1>8. SidesAgree'
  BY <1>1, <1>2, <1>4, <1>7 DEF SidesAgree, Unattached, Formatted, DcInv, PbInv
<1>9. HeldInv' /\ HandleDenotes'
  <2>1. created + 1 = Denoted(level + 1, PBRC', ctx') /\ level + 1 <= level'
        /\ \A i \in Slots : level + 1 # Pb(i)
    BY <1>3, <1>5, <1>6, HandleNumbers DEF Denoted
  <2>2. \A p \in DOMAIN program : Latest(p) /\ program[p].handle # level + 1 =>
          /\ Denoted(program[p].handle, PBRC', ctx') = Denoted(program[p].handle, PBRC, ctx)
          /\ program[p].handle \in Levels => program[p].handle <= level'
          /\ \A i \in Slots : program[p].handle = Pb(i) => i \in pbuffers'
    <3> SUFFICES ASSUME NEW p \in DOMAIN program, Latest(p), program[p].handle # level + 1
                 PROVE  /\ Denoted(program[p].handle, PBRC', ctx')
                             = Denoted(program[p].handle, PBRC, ctx)
                        /\ program[p].handle \in Levels => program[p].handle <= level'
                        /\ \A i \in Slots : program[p].handle = Pb(i) => i \in pbuffers'
      OBVIOUS
    <3>1. program[p].handle \in Handles
      BY <1>1, ProgramHandles
    <3>2. Denoted(program[p].handle, PBRC', ctx') = Denoted(program[p].handle, PBRC, ctx)
      BY <1>2, <1>6, <3>1 DEF Denoted, Handles
    <3>3. program[p].handle \in Levels => program[p].handle <= level'
      <4>1. \A h \in Levels : h <= level => h <= level + 1
        BY <1>4 DEF Levels
      <4> QED
        BY <1>1, <1>5, <4>1 DEF ProgramServed, HeldInv
    <3> QED
      BY <1>1, <1>2, <3>2, <3>3 DEF ProgramServed, HeldInv
  <2> QED
    BY <1>1, <1>2, <1>3, <1>5, <1>6, <2>1, <2>2, EntriesGet DEF ProgramServed
<1>10. UsingInv' /\ CurrentHonoured'
  <2>1. using \in DOMAIN program /\ program'[using] = program[using]
    BY <1>1, <1>2, <1>3, <1>5, <1>6, GetsLatest
  <2> QED
    BY <1>1, <1>2, <1>4, <2>1 DEF ProgramServed, UsingInv, CurrentHonoured
<1> QED
  BY <1>8, <1>9, <1>10 DEF ProgramServed

\* A pbuffer takes a free slot on both sides.
LEMMA CreatePbufferKeeps ==
  ASSUME Orderly, GInv, NEW configured \in BOOLEAN, NEW w \in Slots, CreatePbuffer(configured, w)
  PROVE  SidesAgree' /\ ProgramServed'
<1> DEFINE free == Slots \ hPbuffer
           i == IF free = {} THEN w ELSE CHOOSE x \in free : \A y \in free : x <= y
           done == free # {} /\ configured
<1>1. TypeOK /\ SidesAgree /\ ProgramServed
  BY DEF GInv
<1>2. /\ currPB' = (IF done THEN currPB \union {i} ELSE currPB \ {i})
      /\ done => /\ PBRC' = [PBRC EXCEPT ![i] = created + 1] /\ pbuffers' = pbuffers \union {i}
      /\ ~done => UNCHANGED <<PBRC, pbuffers>>
      /\ UNCHANGED <<guestDll, device, window, ctx, glxCurrent, program, using>> /\ loaded
  BY DEF CreatePbuffer, Asks
<1>3. i \in Slots /\ (done => i \notin hPbuffer)
  BY FreeSlotTypes
<1> HIDE DEF i, done
<1>4. PbInv' /\ \A x \in pbuffers : PBRC'[x] = PBRC[x] /\ x \in pbuffers'
  <2>1. PBRC \in [Slots -> 0 .. created] /\ created + 1 # 0 /\ pbuffers \subseteq hPbuffer
    BY <1>1 DEF TypeOK
  <2>2. CASE done
    <3>1. PBRC'[i] = created + 1 /\ \A x \in Slots : x # i => PBRC'[x] = PBRC[x]
      BY <1>2, <1>3, <2>1, <2>2
    <3>2. i \notin pbuffers /\ pbuffers \subseteq Slots /\ pbuffers' = pbuffers \union {i}
      BY <1>1, <1>2, <1>3, <2>1, <2>2 DEF TypeOK
    <3> QED
      BY <1>1, <1>2, <2>1, <2>2, <3>1, <3>2 DEF SidesAgree, PbInv
  <2>3. CASE ~done
    BY <1>1, <1>2, <2>3 DEF SidesAgree, PbInv
  <2> QED
    BY <2>2, <2>3
<1>5. SidesAgree'
  BY <1>1, <1>2, <1>4 DEF SidesAgree, Unattached, Formatted, StackInv, DcInv
<1>6. HeldInv' /\ HandleDenotes'
  <2>1. \A p \in DOMAIN program : Latest(p) =>
          /\ Denoted(program[p].handle, PBRC', ctx') = Denoted(program[p].handle, PBRC, ctx)
          /\ program[p].handle \in Levels => program[p].handle <= level'
          /\ \A x \in Slots : program[p].handle = Pb(x) => x \in pbuffers'
    BY <1>1, <1>2, <1>4, HandleNumbers DEF ProgramServed, HeldInv, Denoted
  <2>2. \A p \in DOMAIN program : Latest(p)' => Latest(p)
    BY <1>2 DEF Latest
  <2> QED
    BY <1>1, <1>2, <2>1, <2>2, EntriesKept DEF ProgramServed
<1>7. UsingInv' /\ CurrentHonoured'
  BY <1>1, <1>2 DEF ProgramServed, UsingInv, CurrentHonoured, Latest
<1> QED
  BY <1>5, <1>6, <1>7 DEF ProgramServed

\* The handle of a pbuffer's context is the number of its slot.
LEMMA CreatePbufferContextKeeps ==
  ASSUME Orderly, GInv, NEW i \in Slots, CreatePbufferContext(i)
  PROVE  SidesAgree' /\ ProgramServed'
<1>1. TypeOK /\ SidesAgree /\ ProgramServed
  BY DEF GInv
<1>2. currGLRC # NoHandle
  BY <1>1 DEF CreatePbufferContext, MayCreatePb, ProgramServed, UsingInv
<1>3. /\ loaded /\ currPixFmt /\ i \in pbuffers /\ mglContext' = TRUE /\ Gets(Pb(i), PBRC[i])
      /\ UNCHANGED <<currDC, loaded, currPixFmt, currGLRC, level, mglCntxCurrent, host, pbufs,
                     pbuffers, using>>
  BY <1>2 DEF CreatePbufferContext
<1>4. Pb(i) \in PbHandles /\ Pb(i) - MaxLevel = i /\ Pb(i) \notin Levels /\ Pb(i) \in Handles
      /\ PBRC[i] \in Nat \ {0} /\ \A x \in Slots : Pb(i) = Pb(x) => x = i
  <2>1. PBRC[i] \in Nat \ {0}
    BY <1>1, <1>3 DEF TypeOK, SidesAgree, PbInv
  <2> QED
    BY <2>1, HandleNumbers DEF Handles
<1>5. SidesAgree'
  BY <1>1, <1>3 DEF SidesAgree, Unattached, Formatted, StackInv, DcInv, PbInv
<1>6. HeldInv' /\ HandleDenotes'
  <2>1. PBRC[i] = Denoted(Pb(i), PBRC', ctx')
    BY <1>3, <1>4 DEF Denoted
  <2>2. \A p \in DOMAIN program : Latest(p) =>
          /\ Denoted(program[p].handle, PBRC', ctx') = Denoted(program[p].handle, PBRC, ctx)
          /\ program[p].handle \in Levels => program[p].handle <= level'
          /\ \A x \in Slots : program[p].handle = Pb(x) => x \in pbuffers'
    BY <1>1, <1>3 DEF ProgramServed, HeldInv, Denoted
  <2> QED
    BY <1>1, <1>3, <1>4, <2>1, <2>2, EntriesGet DEF ProgramServed
<1>7. UsingInv' /\ CurrentHonoured'
  <2>1. using # 0 => program'[using] = program[using] /\ (Latest(using)' => Latest(using))
    BY <1>1, <1>3, <1>4, GetsLatest
  <2> QED
    BY <1>1, <1>2, <1>3, <2>1 DEF ProgramServed, UsingInv, CurrentHonoured
<1> QED
  BY <1>5, <1>6, <1>7 DEF ProgramServed

\* The DLL, the host and the program forget a pbuffer together.
LEMMA DestroyPbufferKeeps ==
  ASSUME GInv, NEW i \in Slots, DestroyPbuffer(i)
  PROVE  SidesAgree' /\ ProgramServed'
<1>1. TypeOK /\ SidesAgree /\ ProgramServed
  BY DEF GInv
<1>2. /\ loaded /\ PbuffersDestroyed({i}) /\ pbuffers' = pbuffers \ {i} /\ program' = Loses({i})
      /\ using' \in {0, using} /\ UNCHANGED <<guestDll, device, host>>
  BY DEF DestroyPbuffer
<1>3. /\ DOMAIN program' = DOMAIN program
      /\ \A p \in DOMAIN program :
           /\ program'[p].handle = program[p].handle /\ program'[p].glx = program[p].glx
           /\ Latest(p)' => Latest(p) /\ program[p].handle # Pb(i)
  BY <1>1, <1>2, LosesLatest
<1>4. PbInv' /\ \A x \in Slots : x # i => PBRC'[x] = PBRC[x]
  BY <1>1, <1>2 DEF SidesAgree, PbInv, PbuffersDestroyed
<1>5. program = <<>> => program' = <<>>
  BY <1>2 DEF Loses
<1>6. SidesAgree'
  BY <1>1, <1>2, <1>4, <1>5 DEF SidesAgree, Unattached, Formatted, StackInv, DcInv
<1>7. HeldInv' /\ HandleDenotes'
  <2>1. \A p \in DOMAIN program : Latest(p) /\ program[p].handle # Pb(i) =>
          /\ Denoted(program[p].handle, PBRC', ctx') = Denoted(program[p].handle, PBRC, ctx)
          /\ program[p].handle \in Levels => program[p].handle <= level'
          /\ \A x \in Slots : program[p].handle = Pb(x) => x \in pbuffers'
    BY <1>1, <1>2, <1>4, HandleNumbers DEF ProgramServed, HeldInv, Denoted
  <2> QED
    BY <1>1, <1>3, <2>1, EntriesKept DEF ProgramServed
<1>8. UsingInv' /\ CurrentHonoured'
  <2>1. using # 0 => using \in DOMAIN program
    BY <1>1 DEF TypeOK
  <2>2. using # 0 => program'[using].glx = program[using].glx
    BY <1>3, <2>1
  <2>3. \A u : u = using /\ u # 0 => (Latest(u)' => Latest(u))
    BY <1>3, <2>1
  <2>4. CASE using' = 0
    BY <2>4 DEF UsingInv, CurrentHonoured
  <2>5. CASE using' = using
    <3>1. (using # 0 /\ Latest(using)') => Latest(using)
      BY <2>3, <2>5 DEF Latest
    <3> QED
      BY <1>1, <1>2, <2>2, <2>5, <3>1 DEF ProgramServed, UsingInv, CurrentHonoured
  <2> QED
    BY <1>2, <2>4, <2>5
<1> QED
  BY <1>6, <1>7, <1>8 DEF ProgramServed

\* mglMakeCurrent with a handle of the program makes current what it denotes.
LEMMA MakeCurrentKeeps ==
  ASSUME GInv, NEW p, MakeCurrent(p)
  PROVE  SidesAgree' /\ ProgramServed'
<1> DEFINE h == program[p].handle
<1>1. TypeOK /\ SidesAgree /\ ProgramServed
  BY DEF GInv
<1>2. /\ loaded /\ p \in DOMAIN program /\ Latest(p) /\ DllMakeCurrent(h) /\ using' = p
      /\ UNCHANGED <<pbufs, pbuffers, program>>
  BY DEF MakeCurrent
<1>3. h \in Handles /\ program[p].glx # 0 /\ program[p].glx = Denoted(h, PBRC, ctx)
      /\ (h \in Levels => h <= level) /\ h # NoHandle
  BY <1>1, <1>2, ProgramHandles, HandleNumbers DEF ProgramServed, HeldInv, HandleDenotes, Denoted
<1>4. window /\ currPixFmt
  <2>1. program # <<>>
    BY <1>2
  <2> QED
    BY <1>1, <1>2, <2>1 DEF SidesAgree, Formatted
<1>5. CurrAfter(h) # NoHandle
  BY <1>3, HandleNumbers DEF CurrAfter
<1>6. /\ ctx' = ctx /\ glxCurrent' = Denoted(h, PBRC, ctx) /\ mglContext' = TRUE
      /\ mglCntxCurrent' = TRUE /\ currDC' = TRUE /\ currGLRC' = CurrAfter(h)
      /\ UNCHANGED <<loaded, currPixFmt, level, window>>
  <2>1. CASE currDC
    <3>1. RegisterMakeCurrent(h) /\ currGLRC' = CurrAfter(h)
          /\ UNCHANGED <<loaded, currPixFmt, currDC, level>>
      BY <1>2, <2>1 DEF DllMakeCurrent
    <3>2. HostMakeCurrent(h) /\ mglCntxCurrent' = (mglCntxCurrent \/ mglContext)
          /\ UNCHANGED mglContext
      BY <1>3, <3>1 DEF RegisterMakeCurrent
    <3>3. mglContext = TRUE
      BY <1>1, <1>2, <2>1 DEF SidesAgree, DcInv, TypeOK
    <3> QED
      BY <1>1, <2>1, <3>1, <3>2, <3>3 DEF HostMakeCurrent, Denoted, TypeOK
  <2>2. CASE ~currDC
    <3>1. currGLRC = NoHandle /\ level = 0
      BY <1>1, <1>2, <2>2 DEF SidesAgree, DcInv
    <3>2. h \in PbHandles \/ h = 0
      <4>1. \A n \in Levels : n <= 0 => n = 0
        BY DEF Levels
      <4> QED
        BY <1>3, <3>1, <4>1 DEF Handles
    <3>3. ctx' = ctx
      <4>1. OnlyFirst(ctx) = ctx
        BY <1>1, <1>2, <3>1, NoneShared DEF SidesAgree
      <4>2. h = 0 => ctx[0] # 0
        BY <1>3, HandleNumbers DEF Denoted
      <4> QED
        BY <1>2, <1>4, <2>2, <3>1, <3>2, <4>1, <4>2 DEF DllMakeCurrent
    <3>4. /\ mglContext' = TRUE /\ mglCntxCurrent' = TRUE /\ currDC' = TRUE
          /\ currGLRC' = CurrAfter(h) /\ UNCHANGED <<loaded, currPixFmt, level, window>>
      BY <1>1, <1>2, <1>3, <1>4, <2>2, <3>1 DEF DllMakeCurrent, TypeOK
    <3>5. glxCurrent' = Denoted(h, PBRC, ctx)
      BY <1>2, <1>3, <1>4, <2>2, <3>1, <3>3 DEF DllMakeCurrent, Denoted
    <3> QED
      BY <3>3, <3>4, <3>5
  <2> QED
    BY <2>1, <2>2
<1> HIDE DEF h
<1>7. SidesAgree'
  BY <1>1, <1>2, <1>4, <1>5, <1>6 DEF SidesAgree, Unattached, Formatted, StackInv, DcInv, PbInv
<1>8. HeldInv' /\ HandleDenotes'
  BY <1>1, <1>2, <1>6 DEF ProgramServed, HeldInv, HandleDenotes, Latest
<1>9. UsingInv' /\ CurrentHonoured'
  BY <1>2, <1>3, <1>5, <1>6 DEF UsingInv, CurrentHonoured
<1> QED
  BY <1>7, <1>8, <1>9 DEF ProgramServed

\* Without a handle it may make a context that is not the program's.
LEMMA MakeNoneCurrentKeeps ==
  ASSUME GInv, MakeNoneCurrent
  PROVE  SidesAgree' /\ ProgramServed'
<1>1. TypeOK /\ SidesAgree /\ ProgramServed
  BY DEF GInv
<1>2. /\ loaded /\ DllMakeCurrent(NoHandle) /\ using' = 0
      /\ UNCHANGED <<pbufs, pbuffers, program>>
  BY DEF MakeNoneCurrent
<1>3. CurrAfter(NoHandle) = IF level # 0 THEN 0 ELSE NoHandle
  BY DEF CurrAfter
<1>4. NoHandle \notin PbHandles
  BY HandleNumbers DEF Handles
<1>5. UsingInv' /\ CurrentHonoured'
  BY <1>2 DEF UsingInv, CurrentHonoured
<1>6. CASE currDC
  <2>1. /\ UNCHANGED <<device, host, loaded, currPixFmt, currDC, level>>
        /\ currGLRC' = CurrAfter(NoHandle)
    BY <1>2, <1>6 DEF DllMakeCurrent, RegisterMakeCurrent
  <2>2. SidesAgree'
    BY <1>1, <1>2, <1>3, <1>6, <2>1, HandleNumbers
       DEF SidesAgree, Unattached, Formatted, StackInv, DcInv, PbInv
  <2>3. HeldInv' /\ HandleDenotes'
    BY <1>1, <1>2, <2>1 DEF ProgramServed, HeldInv, HandleDenotes, Latest
  <2> QED
    BY <1>5, <2>2, <2>3 DEF ProgramServed
<1>7. CASE ~currDC /\ currPixFmt /\ currGLRC = NoHandle
  <2>1. level = 0 /\ window
    BY <1>1, <1>2, <1>7 DEF SidesAgree, DcInv, Formatted
  <2>2. /\ ctx' = (IF ctx[0] = 0 THEN [Empty EXCEPT ![0] = created + 1] ELSE OnlyFirst(ctx))
        /\ mglContext' = TRUE /\ currDC' = FALSE /\ currGLRC' = NoHandle
        /\ UNCHANGED <<window, loaded, currPixFmt, level>>
    BY <1>2, <1>3, <1>4, <1>7, <2>1 DEF DllMakeCurrent
  <2>3. OnlyFirst(ctx) = ctx /\ \A n \in Levels \ {0} : ctx[n] = 0
    BY <1>1, <1>2, <2>1, NoneShared DEF SidesAgree
  <2>4. \A n \in Levels \ {0} : ctx'[n] = ctx[n]
    BY <2>2, <2>3 DEF Empty
  <2>5. ctx[0] # 0 => ctx' = ctx
    BY <2>2, <2>3
  <2>6. SidesAgree'
    BY <1>1, <1>2, <2>1, <2>2, <2>4
       DEF SidesAgree, Unattached, Formatted, StackInv, DcInv, PbInv
  <2>7. HeldInv' /\ HandleDenotes'
    <3>1. \A p \in DOMAIN program : Latest(p) =>
            Denoted(program[p].handle, PBRC', ctx') = Denoted(program[p].handle, PBRC, ctx)
      <4> SUFFICES ASSUME NEW p \in DOMAIN program, Latest(p)
                   PROVE  Denoted(program[p].handle, PBRC', ctx')
                            = Denoted(program[p].handle, PBRC, ctx)
        OBVIOUS
      <4>1. program[p].handle \in Handles /\ program[p].glx # 0
            /\ program[p].glx = Denoted(program[p].handle, PBRC, ctx)
        BY <1>1, ProgramHandles DEF ProgramServed, HeldInv, HandleDenotes, Denoted
      <4>2. CASE program[p].handle = 0
        <5>1. ctx[0] # 0
          BY <4>1, <4>2, HandleNumbers DEF Denoted
        <5> QED
          BY <1>2, <2>5, <5>1 DEF Denoted
      <4>3. CASE program[p].handle # 0
        BY <1>2, <2>4, <4>1, <4>3 DEF Denoted, Handles
      <4> QED
        BY <4>2, <4>3
    <3>2. \A p \in DOMAIN program : Latest(p)' => Latest(p)
      BY <1>2 DEF Latest
    <3> QED
      BY <1>1, <1>2, <2>2, <3>1, <3>2, EntriesKept DEF ProgramServed, HeldInv
  <2> QED
    BY <1>5, <2>6, <2>7 DEF ProgramServed
<1>8. CASE ~currDC /\ ~(currPixFmt /\ currGLRC = NoHandle)
  <2>1. UNCHANGED <<guestDll, device, host>>
    BY <1>2, <1>8 DEF DllMakeCurrent
  <2>2. SidesAgree'
    BY <1>1, <1>2, <2>1 DEF SidesAgree, Unattached, Formatted, StackInv, DcInv, PbInv
  <2>3. HeldInv' /\ HandleDenotes'
    BY <1>1, <1>2, <2>1 DEF ProgramServed, HeldInv, HandleDenotes, Latest
  <2> QED
    BY <1>5, <2>2, <2>3 DEF ProgramServed
<1> QED
  BY <1>6, <1>7, <1>8

\* mglDeleteContext ends no context but the one of the window, and no pbuffers but all.
LEMMA DeleteContextKeeps ==
  ASSUME GInv, NEW p, DeleteContext(p)
  PROVE  SidesAgree' /\ ProgramServed'
<1> DEFINE h == program[p].handle
           gone == pbuffers \ pbuffers'
           kept == Loses(gone)
<1>1. TypeOK /\ SidesAgree /\ ProgramServed
  BY DEF GInv
<1>2. /\ loaded /\ p \in DOMAIN program /\ DllDelete(h)
      /\ pbuffers' = (IF DeletesFirst(h) THEN pbuffers \ currPB ELSE pbuffers)
      /\ program' = [kept EXCEPT ![p].owned = FALSE]
      /\ using' = (IF using = p THEN 0 ELSE using)
  BY DEF DeleteContext
<1>3. /\ kept \in Seq(Entries) /\ Len(kept) = Len(program) /\ DOMAIN kept = DOMAIN program
      /\ \A q \in DOMAIN program :
           /\ kept[q].handle = program[q].handle /\ kept[q].glx = program[q].glx
           /\ kept[q].owned <=> program[q].owned /\ program[q].handle \notin {Pb(i) : i \in gone}
  BY <1>1, LosesTypes, TypesAreTypeOK
<1> HIDE DEF kept
<1>4. /\ DOMAIN program' = DOMAIN program /\ Len(program') = Len(program)
      /\ \A q \in DOMAIN program :
           /\ program'[q].handle = program[q].handle /\ program'[q].glx = program[q].glx
           /\ program'[q].owned =>
                program[q].owned /\ program[q].handle \notin {Pb(i) : i \in gone}
  <2>1. kept[p] \in Entries
    BY <1>2, <1>3
  <2>2. program' = [kept EXCEPT ![p] = [kept[p] EXCEPT !.owned = FALSE]]
    BY <1>2, <1>3
  <2>3. /\ [kept[p] EXCEPT !.owned = FALSE].handle = kept[p].handle
        /\ [kept[p] EXCEPT !.owned = FALSE].glx = kept[p].glx
        /\ [kept[p] EXCEPT !.owned = FALSE].owned = FALSE
    BY <2>1 DEF Entries
  <2>4. \A q \in DOMAIN program : q # p => program'[q] = kept[q]
    BY <1>3, <2>2
  <2>5. program'[p] = [kept[p] EXCEPT !.owned = FALSE] /\ DOMAIN program' = DOMAIN program
    BY <1>2, <1>3, <2>2
  <2>6. Len(program') = Len(program)
    BY <1>2, <1>3, <2>2
  <2> QED
    BY <1>3, <2>3, <2>4, <2>5, <2>6
<1>5. \A q \in DOMAIN program :
        Latest(q)' => Latest(q) /\ program[q].handle \notin {Pb(i) : i \in gone}
  <2>1. \A q \in DOMAIN program : Latest(q)' => Latest(q)
    BY <1>1, <1>4, FewerLatest
  <2>2. \A q \in DOMAIN program : Latest(q)' => program'[q].owned
    BY DEF Latest
  <2> QED
    BY <1>4, <2>1, <2>2
<1>6. program = <<>> => program' = <<>>
  BY <1>2
<1>7. using' # 0 => /\ using' = using /\ using \in DOMAIN program
                    /\ program'[using].glx = program[using].glx /\ (Latest(using)' => Latest(using))
  <2>1. using # 0 => using \in DOMAIN program
    BY <1>1 DEF TypeOK
  <2>2. using' # 0 => using' = using
    BY <1>2
  <2>3. \A u \in DOMAIN program : u = using => (Latest(u)' => Latest(u))
    BY <1>5
  <2> QED
    BY <1>4, <2>1, <2>2, <2>3 DEF Latest
<1>8. CASE DeletesFirst(h) /\ ~(level # 0 /\ h = level)
  <2>1. /\ currGLRC = NoHandle /\ RegisterDelete(0) /\ PbuffersDestroyed(currPB)
        /\ currDC' = FALSE /\ UNCHANGED <<loaded, currPixFmt, currGLRC, level>>
    BY <1>2, <1>8 DEF DllDelete, DeletesFirst
  <2>2. level = 0
    BY <1>1, <1>2, <2>1 DEF SidesAgree, DcInv
  <2>3. ctx' = ctx /\ window' = window
    BY <1>1, <1>2, <2>1, <2>2, NoneShared DEF SidesAgree, RegisterDelete, DeleteShared
  <2>4. pbuffers' = pbuffers \ currPB
    BY <1>2, <1>8
  <2>5. PbInv' /\ \A x \in Slots : x \in pbuffers' => PBRC'[x] = PBRC[x]
    BY <1>1, <2>1, <2>4 DEF SidesAgree, PbInv, PbuffersDestroyed
  <2>6. SidesAgree'
    BY <1>1, <1>2, <1>6, <2>1, <2>2, <2>3, <2>5
       DEF SidesAgree, Unattached, Formatted, StackInv, DcInv
  <2>7. HeldInv' /\ HandleDenotes'
    <3>1. \A x \in Slots : x \in pbuffers /\ x \notin gone => x \in pbuffers'
      OBVIOUS
    <3>2. \A q \in DOMAIN program :
            Latest(q) /\ program[q].handle \notin {Pb(i) : i \in gone} =>
              /\ Denoted(program[q].handle, PBRC', ctx') = Denoted(program[q].handle, PBRC, ctx)
              /\ program[q].handle \in Levels => program[q].handle <= level'
              /\ \A x \in Slots : program[q].handle = Pb(x) => x \in pbuffers'
      <4> SUFFICES ASSUME NEW q \in DOMAIN program, Latest(q),
                          program[q].handle \notin {Pb(i) : i \in gone}
                   PROVE  /\ Denoted(program[q].handle, PBRC', ctx')
                               = Denoted(program[q].handle, PBRC, ctx)
                          /\ program[q].handle \in Levels => program[q].handle <= level'
                          /\ \A x \in Slots : program[q].handle = Pb(x) => x \in pbuffers'
        OBVIOUS
      <4>1. \A x \in Slots : program[q].handle = Pb(x) => x \in pbuffers /\ x \notin gone
        BY <1>1 DEF ProgramServed, HeldInv
      <4>2. \A x \in Slots : program[q].handle = Pb(x) => x \in pbuffers'
        BY <3>1, <4>1
      <4>3. Denoted(program[q].handle, PBRC', ctx') = Denoted(program[q].handle, PBRC, ctx)
        BY <2>3, <2>5, <4>2, HandleNumbers DEF Denoted
      <4> QED
        BY <1>1, <2>1, <4>2, <4>3 DEF ProgramServed, HeldInv
    <3> QED
      BY <1>1, <1>4, <1>5, <3>2, EntriesKept DEF ProgramServed
  <2>8. UsingInv' /\ CurrentHonoured'
    <3>1. ~(using' # 0 /\ Latest(using)')
      BY <1>1, <1>7, <2>1 DEF ProgramServed, UsingInv
    <3> QED
      BY <3>1 DEF UsingInv, CurrentHonoured
  <2> QED
    BY <2>6, <2>7, <2>8 DEF ProgramServed
<1>9. CASE ~DeletesFirst(h) \/ (level # 0 /\ h = level)
  <2>1. ~DeletesFirst(h)
    BY <1>9 DEF DeletesFirst
  <2>2. /\ UNCHANGED <<guestDll, pbufs, mglContext, mglCntxCurrent, host>> /\ pbuffers' = pbuffers
    BY <1>2, <2>1 DEF DllDelete, RegisterDelete
  <2>3. SidesAgree'
    BY <1>1, <1>2, <1>6, <2>2 DEF SidesAgree, Unattached, Formatted, StackInv, DcInv, PbInv
  <2>4. HeldInv' /\ HandleDenotes'
    <3>1. \A q \in DOMAIN program : Latest(q)' =>
            /\ Latest(q)
            /\ Denoted(program[q].handle, PBRC', ctx') = Denoted(program[q].handle, PBRC, ctx)
            /\ program[q].handle \in Levels => program[q].handle <= level'
            /\ \A x \in Slots : program[q].handle = Pb(x) => x \in pbuffers'
      BY <1>1, <1>5, <2>2 DEF ProgramServed, HeldInv, Denoted
    <3> QED
      BY <1>1, <1>4, <3>1, EntriesKept DEF ProgramServed
  <2>5. UsingInv' /\ CurrentHonoured'
    BY <1>1, <1>7, <2>2 DEF ProgramServed, UsingInv, CurrentHonoured
  <2> QED
    BY <2>3, <2>4, <2>5 DEF ProgramServed
<1> QED
  BY <1>8, <1>9

\* The window's messages touch none of this, and neither does a step of nobody.
LEMMA OthersKeep ==
  ASSUME GInv,
         \/ \E i \in BOOLEAN : Activate(i)
         \/ SwapBuffers
         \/ UNCHANGED vars
  PROVE  SidesAgree' /\ ProgramServed'
<1>1. UNCHANGED <<guestDll, device, window, ctx, glxCurrent, pbufs, pbuffers, program, using>>
  BY DEF Activate, SwapBuffers
<1>2. SidesAgree'
  BY <1>1 DEF GInv, SidesAgree, Unattached, Formatted, StackInv, DcInv, PbInv
<1>3. HeldInv' /\ HandleDenotes' /\ UsingInv' /\ CurrentHonoured'
  BY <1>1 DEF GInv, ProgramServed, HeldInv, HandleDenotes, UsingInv, CurrentHonoured, Latest
<1> QED
  BY <1>2, <1>3 DEF ProgramServed

-----------------------------------------------------------------------------
(* The theorems.                                                           *)

\* The variables have the types of the C declarations, whatever the program does.
THEOREM TypeCorrect == Spec => []TypeOK
<1>1. Init => TypeOK
  BY InitTypes
<1>2. TypeOK /\ [Next]_vars => TypeOK'
  BY NextTypes
<1> HIDE DEF vars, guestDll, device, host, pbufs
<1> QED
  BY <1>1, <1>2, PTL DEF Spec

LEMMA InitKeeps == Init => GInv
<1> SUFFICES ASSUME Init PROVE GInv
  OBVIOUS
<1>1. TypeOK
  BY InitTypes
<1>2. SidesAgree
  BY DEF Init, SidesAgree, Unattached, Formatted, StackInv, DcInv, PbInv
<1>3. program = <<>> /\ using = 0
  BY DEF Init
<1>4. DOMAIN program = {}
  BY <1>3
<1>5. ProgramServed
  BY <1>3, <1>4 DEF ProgramServed, HeldInv, UsingInv, HandleDenotes, CurrentHonoured
<1> QED
  BY <1>1, <1>2, <1>5 DEF GInv

LEMMA NextKeeps ==
  ASSUME Orderly, GInv, [Next]_vars
  PROVE  GInv'
<1>1. TypeOK'
  BY NextTypes DEF GInv
<1>2. SidesAgree' /\ ProgramServed'
  <2>1. CASE UNCHANGED vars
    BY <2>1, OthersKeep
  <2>2. CASE Attach \/ Detach \/ SetPixelFormat \/ CreateContext \/ CreateShared
    BY <2>2, AttachKeeps, DetachKeeps, SetPixelFormatKeeps, CreateContextKeeps, CreateSharedKeeps
  <2>3. CASE \E a \in Attribs : CreateAttribs(a)
    BY <2>3, CreateAttribsKeeps
  <2>4. CASE \E configured \in BOOLEAN, w \in Slots : CreatePbuffer(configured, w)
    BY <2>4, CreatePbufferKeeps
  <2>5. CASE \E i \in Slots : CreatePbufferContext(i) \/ DestroyPbuffer(i)
    BY <2>5, CreatePbufferContextKeeps, DestroyPbufferKeeps
  <2>6. CASE \E p \in 1 .. MaxCreated : MakeCurrent(p) \/ DeleteContext(p)
    BY <2>6, MakeCurrentKeeps, DeleteContextKeeps
  <2>7. CASE MakeNoneCurrent
    BY <2>7, MakeNoneCurrentKeeps
  <2>8. CASE SwapBuffers \/ \E i \in BOOLEAN : Activate(i)
    BY <2>8, OthersKeep
  <2> QED
    BY <2>1, <2>2, <2>3, <2>4, <2>5, <2>6, <2>7, <2>8 DEF Next, Uses
<1> QED
  BY <1>1, <1>2 DEF GInv

\* The inductive invariant: guest and host count the same shared contexts, the DLL
\* knows what the device has, and every handle that a program holds denotes its context.
THEOREM Inductive == ASSUME Orderly PROVE Spec => []GInv
<1>1. Init => GInv
  BY InitKeeps
<1>2. GInv /\ [Next]_vars => GInv'
  BY NextKeeps
<1> HIDE DEF vars, guestDll, device, host, pbufs
<1> QED
  BY <1>1, <1>2, PTL DEF Spec

\* A handle of the program denotes, on the host's stack or among the pbuffers, the
\* context that was created for it.
THEOREM HandlesDenote == ASSUME Orderly PROVE Spec => []HandleDenotes
<1>1. GInv => HandleDenotes
  BY DEF GInv, ProgramServed
<1> QED
  BY <1>1, Inductive, PTL

\* The context that a program made current is current in GLX and on the device.
THEOREM CurrentIsHonoured == ASSUME Orderly PROVE Spec => []CurrentHonoured
<1>1. GInv => CurrentHonoured
  BY DEF GInv, ProgramServed
<1> QED
  BY <1>1, Inductive, PTL

\* When the DLL is unloaded, no GLX context, no pbuffer and no window is left; before,
\* the context of the window stays even when the program deletes its last one.
THEOREM NothingIsLeft == ASSUME Orderly PROVE Spec => []NothingLeft
<1>1. GInv => NothingLeft
  BY DEF GInv, SidesAgree, Unattached, NothingLeft
<1> QED
  BY <1>1, Inductive, PTL
=============================================================================
