----------------------------- MODULE GLContexts -----------------------------
(***************************************************************************)
(* The life of the OpenGL contexts of a guest program: the WGL entry       *)
(* points of wrapgl32.c, the context registers of mesapt_write, and the    *)
(* context stack of mglcntx_linux.c.                                       *)
(*                                                                         *)
(* The guest's handles are MESAGL_MAGIC - n; the host keeps one GLX        *)
(* context per n, n = 0 the one of the window and n > 0 those that share   *)
(* with another.  The two sides count n on their own: the guest in level,  *)
(* the host by the first free place of ctx.  A pbuffer has a slot, its     *)
(* context a handle made of the slot's number.  GLX contexts are numbered  *)
(* in the order of their creation; GLX creates them without failing, but   *)
(* may have no configuration for a pbuffer.                                *)
(***************************************************************************)
EXTENDS Integers, Sequences

CONSTANTS
  MaxLevel,    \* MAX_LVLCNTX
  MaxPbuffer,  \* MAX_PBUFFER
  Attribs,     \* attribute lists of wglCreateContextAttribsARB
  ContextZero, \* GetContextZERO(): keep the attribute cache on deactivation
  Orderly,     \* TRUE: programs keep the rules named May...
  MaxCreated,  \* bound on the bounds of the kits
  Kits         \* what programs use: pbuffers or not, and a bound on their contexts

ASSUME ConstantsAssumption ==
  /\ MaxLevel \in Nat /\ MaxLevel > 1 /\ MaxPbuffer \in Nat
  /\ ContextZero \in BOOLEAN /\ Orderly \in BOOLEAN
  /\ MaxCreated \in Nat
  /\ Kits \subseteq [created : 0 .. MaxCreated, pbuffers : BOOLEAN]

Levels == 0 .. MaxLevel - 1   \* the handle MESAGL_MAGIC - n, as n
Slots == 0 .. MaxPbuffer - 1
Pb(i) == MaxLevel + i         \* the handle (MESAGL_MAGIC << 4) | i
PbHandles == {Pb(i) : i \in Slots}
NoHandle == -1                \* the handle 0
NoAttribs == "none"           \* an empty attribute cache

VARIABLES
  \* the guest's DLL
  loaded,         \* attached, and the device has the library loaded
  currPixFmt,     \* a pixel format is set
  currDC,         \* currDC # 0
  currGLRC,       \* the handle in currGLRC
  level,          \* level
  currPB,         \* the slots in currPB
  \* the device
  mglContext, mglCntxCurrent,
  unhandled,      \* a register write took the last branch of mesapt_write
  \* the host's context stack
  window,         \* the window and its visual exist (win and xvi)
  ctx,            \* ctx[n]: a GLX context, or 0
  glxCurrent,     \* the context that is current in GLX, or 0
  attribs,        \* the attribute list CompareAttribArray remembers
  active,         \* MGLActivateHandler's last
  created,        \* GLX contexts created so far
  hPbuffer,       \* the slots that are in use
  PBRC,           \* PBRC[i]: a GLX context, or 0
  \* the program
  kit,            \* what it uses
  pbuffers,       \* the slots of its pbuffers
  program,        \* the contexts it got: handle, GLX context, not yet deleted
  using           \* the one it made current, or 0

guestDll == <<loaded, currPixFmt, currDC, currGLRC, level>>
device == <<mglContext, mglCntxCurrent, unhandled>>
host == <<window, ctx, glxCurrent, attribs, active, created>>
pbufs == <<currPB, hPbuffer, PBRC>>
vars == <<guestDll, device, host, pbufs, kit, pbuffers, program, using>>

Empty == [n \in Levels |-> 0]

Init ==
  /\ loaded = FALSE /\ currPixFmt = FALSE /\ currDC = FALSE
  /\ currGLRC = NoHandle /\ level = 0
  /\ mglContext = FALSE /\ mglCntxCurrent = FALSE /\ unhandled = FALSE
  /\ window = FALSE /\ ctx = Empty /\ glxCurrent = 0
  /\ attribs = NoAttribs /\ active = FALSE /\ created = 0
  /\ currPB = {} /\ hPbuffer = {} /\ PBRC = [i \in Slots |-> 0]
  /\ kit \in Kits /\ pbuffers = {} /\ program = <<>> /\ using = 0

-----------------------------------------------------------------------------
(* The host.  Each operator gives the next state of the variables it names. *)

\* Mutation: the loop over the shared contexts stops before ctx[1].
KeepsSecond(c) == [n \in Levels |-> IF n < 2 THEN c[n] ELSE 0]

OnlyFirst(c) == [n \in Levels |-> IF n = 0 THEN c[0] ELSE 0]

\* MGLActivateHandler(0, 0): deactivateOnce forgets the attributes.
Deactivated(a) == IF active /\ ~ContextZero THEN NoAttribs ELSE a

\* MGLDeleteContext(0)
DeleteShared ==
  /\ ctx' = OnlyFirst(ctx)
  /\ glxCurrent' = 0
  /\ attribs' = Deactivated(attribs) /\ active' = FALSE
  /\ UNCHANGED <<window, created>>

\* MGLCreateContext of a window's DC.
HostCreate ==
  /\ glxCurrent' = 0
  /\ IF ctx[0] = 0
     THEN created' = created + 1 /\ ctx' = [OnlyFirst(ctx) EXCEPT ![0] = created + 1]
     ELSE UNCHANGED created /\ ctx' = OnlyFirst(ctx)
  /\ UNCHANGED <<window, attribs, active>>

FirstFree == CHOOSE n \in 0 .. MaxLevel :
               /\ n = MaxLevel \/ ctx[n] = 0
               /\ \A m \in 0 .. n - 1 : ctx[m] # 0

\* wglCreateContextAttribsARB of MGLFuncHandler, without a context to share with
\* (or with no context on the stack).
HostCreateFirst(a) ==
  /\ glxCurrent' = 0
  /\ IF attribs = a
     THEN UNCHANGED <<ctx, attribs, active, created>>
     ELSE /\ ctx' = [Empty EXCEPT ![0] = created + 1]
          /\ created' = created + 1
          /\ attribs' = Deactivated(a) /\ active' = FALSE
  /\ UNCHANGED window

\* The same with a context to share with: a full stack loses ctx[1].
HostCreateShared ==
  /\ ctx' = (IF FirstFree < MaxLevel THEN [ctx EXCEPT ![FirstFree] = created + 1]
             ELSE [n \in Levels |-> IF n = 0 THEN ctx[0]
                                    ELSE IF n = MaxLevel - 1 THEN created + 1 ELSE ctx[n + 1]])
  /\ created' = created + 1
  /\ UNCHANGED <<window, glxCurrent, attribs, active>>

\* MGLMakeCurrent of a handle
HostMakeCurrent(h) ==
  /\ glxCurrent' = (IF h \in PbHandles THEN PBRC[h - MaxLevel] ELSE ctx[h])
  /\ active' = (active \/ h = 0)
  /\ UNCHANGED <<window, ctx, attribs, created>>

\* wglDestroyPbufferARB of some slots: the DLL forgets what the host destroyed.
PbuffersDestroyed(slots) ==
  /\ PBRC' = [i \in Slots |-> IF i \in slots THEN 0 ELSE PBRC[i]]
  /\ hPbuffer' = hPbuffer \ slots
  /\ currPB' = currPB \ slots

-----------------------------------------------------------------------------
(* The device's registers.                                                 *)

\* 0xFFC
RegisterCreate ==
  /\ HostCreate
  /\ mglContext' = TRUE
  /\ UNCHANGED <<mglCntxCurrent, unhandled>>

\* 0xFF8
RegisterMakeCurrent(h) ==
  IF h = NoHandle
  THEN UNCHANGED <<device, host>>
  ELSE /\ HostMakeCurrent(h)
       /\ mglCntxCurrent' = (mglCntxCurrent \/ mglContext)
       /\ UNCHANGED <<mglContext, unhandled>>

\* 0xFF4, written with a handle: only MESAGL_MAGIC itself reaches the registers.
RegisterDelete(h) ==
  IF h # 0
  THEN unhandled' = TRUE /\ UNCHANGED <<mglContext, mglCntxCurrent, host>>
  ELSE /\ DeleteShared
       /\ IF mglContext /\ mglCntxCurrent
          THEN mglContext' = FALSE /\ mglCntxCurrent' = FALSE
          ELSE UNCHANGED <<mglContext, mglCntxCurrent>>
       /\ UNCHANGED unhandled

-----------------------------------------------------------------------------
(* The guest's DLL.                                                        *)

\* currGLRC after mglMakeCurrent of handle h.
\* Mutation: without the test that the handle is the one of this level.
UntestedCurrAfter(h) == IF level # 0 THEN h - level ELSE h

CurrAfter(h) == IF level # 0 THEN 0 ELSE h

\* Mutation: the levels wrap one context early.
EarlyNextLevel ==
  IF (level + 1) % (MaxLevel - 1) # 0 THEN (level + 1) % (MaxLevel - 1) ELSE 1

NextLevel == IF (level + 1) % MaxLevel # 0 THEN (level + 1) % MaxLevel ELSE 1

\* mglMakeCurrent(dc, h): without a DC it creates the window's context first.
DllMakeCurrent(h) ==
  IF currDC
  THEN /\ RegisterMakeCurrent(h)
       /\ currGLRC' = CurrAfter(h)
       /\ UNCHANGED <<loaded, currPixFmt, currDC, level>>
  ELSE IF currPixFmt /\ currGLRC = NoHandle
  THEN /\ ctx' = (IF h \in PbHandles THEN ctx
                  ELSE IF ctx[0] = 0 THEN [Empty EXCEPT ![0] = created + 1] ELSE OnlyFirst(ctx))
       /\ created' = (IF ctx[0] = 0 /\ h \notin PbHandles THEN created + 1 ELSE created)
       /\ glxCurrent' = (IF h = NoHandle THEN 0
                         ELSE IF h \in PbHandles THEN PBRC[h - MaxLevel] ELSE ctx'[h])
       /\ active' = (active \/ h = 0)
       /\ mglContext' = TRUE /\ mglCntxCurrent' = (mglCntxCurrent \/ h # NoHandle)
       /\ currDC' = (h # NoHandle) /\ currGLRC' = CurrAfter(h)
       /\ UNCHANGED <<window, attribs, unhandled, loaded, currPixFmt, level>>
  ELSE UNCHANGED <<guestDll, device, host>>

\* Mutation: the window's context is deleted while one is current.
AlwaysDeletesFirst(h) == h = 0

\* mglDeleteContext deletes the context of the window, and every pbuffer.
DeletesFirst(h) == h = 0 /\ currGLRC = NoHandle

\* mglDeleteContext(h)
DllDelete(h) ==
  IF level # 0 /\ h = level
  THEN RegisterDelete(h) /\ UNCHANGED <<guestDll, pbufs>>
  ELSE IF DeletesFirst(h)
  THEN /\ RegisterDelete(0) /\ PbuffersDestroyed(currPB)
       /\ currDC' = FALSE /\ UNCHANGED <<loaded, currPixFmt, currGLRC, level>>
  ELSE UNCHANGED <<guestDll, device, host, pbufs>>

\* wglSetPixelFormat and DllMain end what is current with mglMakeCurrent(0, 0) and
\* mglDeleteContext(MESAGL_MAGIC); the latter does nothing when level # 0.
Ends == currGLRC # NoHandle /\ level = 0

-----------------------------------------------------------------------------
(* The program.                                                            *)

\* Context p is still the program's, and its handle was not given out again.
Latest(p) ==
  /\ program[p].owned
  /\ \A q \in p + 1 .. Len(program) : program[q].handle # program[p].handle

Gets(h, id) == program' = Append(program, [handle |-> h, glx |-> id, owned |-> TRUE])

Asks == loaded /\ created < kit.created /\ Len(program) < kit.created

\* What the program loses with some pbuffers: them and their contexts.
Loses(slots) ==
  [p \in DOMAIN program |->
    [program[p] EXCEPT !.owned = @ /\ program[p].handle \notin {Pb(i) : i \in slots}]]

\* wglCreateContext needs that no context is current.
MayCreate == Orderly => currGLRC = NoHandle /\ level = 0 /\ ~\E p \in DOMAIN program : Latest(p)

\* A context of its own replaces those of the window, which must not be in use; with
\* the attributes of the last one it replaces nothing, and there must be none shared.
\* It also takes what is current from the program.
MayReplace(a) ==
  Orderly => /\ \A p \in DOMAIN program : Latest(p) => program[p].handle \in {0} \union PbHandles
             /\ level = 0 \/ a # attribs
             /\ using # 0 => program[using].handle = 0

\* A shared context is created while one is current, and the stack has room.
MayShare == Orderly => using # 0 /\ Latest(using) /\ level + 1 < MaxLevel

\* The pixel format is set before there are contexts.
MaySetFormat == Orderly => ~\E p \in DOMAIN program : Latest(p)

\* A pbuffer and its context are created while a context is current, for the one
\* to share with it, and for the handle of the other to be its own.
MayCreatePb == Orderly => using # 0 /\ Latest(using)

\* The DLL destroys the pbuffers at its end when a context is current and none is
\* shared, and but for one that it forgot when one too many was asked for.  The
\* others the program destroys.
MayDetach == Orderly => pbuffers \subseteq IF Ends THEN currPB ELSE {}

Attach ==
  /\ ~loaded
  /\ loaded' = TRUE
  /\ currPixFmt' = FALSE /\ currDC' = FALSE /\ currGLRC' = NoHandle /\ level' = 0
  /\ currPB' = {}
  /\ UNCHANGED <<device, host, hPbuffer, PBRC, pbuffers, program, using>>

\* DLL_PROCESS_DETACH and 0xD0320.
Detach ==
  /\ loaded /\ MayDetach
  /\ PbuffersDestroyed(IF Ends THEN currPB ELSE {})
  /\ loaded' = FALSE
  /\ mglContext' = FALSE
  /\ mglCntxCurrent' = (mglCntxCurrent /\ ~(Ends /\ mglContext))
  /\ LET left == IF mglContext \/ Ends THEN OnlyFirst(ctx) ELSE ctx
     IN  ctx' = (IF window THEN [left EXCEPT ![0] = 0] ELSE left)
  /\ glxCurrent' = 0
  /\ attribs' = (IF window THEN NoAttribs ELSE attribs)
  /\ active' = (active /\ ~(mglContext \/ Ends))
  /\ window' = FALSE
  /\ pbuffers' = {} /\ program' = <<>> /\ using' = 0
  /\ UNCHANGED <<currPixFmt, currDC, currGLRC, level, unhandled, created>>

\* TmpContextPurge: its loop ends at ctx[1] whether that is free or not.
Purged(c) == IF \A n \in 2 .. MaxLevel - 1 : c[n] = 0 THEN [c EXCEPT ![0] = 0] ELSE c

SetPixelFormat ==
  /\ loaded /\ MaySetFormat
  /\ PbuffersDestroyed(IF Ends THEN currPB ELSE {})
  /\ pbuffers' = (IF Ends THEN pbuffers \ currPB ELSE pbuffers)
  /\ currPixFmt' = TRUE /\ window' = TRUE
  /\ currGLRC' = (IF currGLRC = NoHandle THEN NoHandle ELSE CurrAfter(NoHandle))
  /\ currDC' = (currDC /\ ~Ends)
  /\ ctx' = Purged(IF Ends THEN OnlyFirst(ctx) ELSE ctx)
  /\ glxCurrent' = (IF Ends THEN 0 ELSE glxCurrent)
  /\ attribs' = (IF Ends THEN Deactivated(attribs) ELSE attribs)
  /\ active' = (active /\ ~Ends)
  /\ mglContext' = (mglContext /\ ~(Ends /\ mglCntxCurrent))
  /\ mglCntxCurrent' = (mglCntxCurrent /\ ~(Ends /\ mglContext))
  /\ using' = (IF currGLRC = NoHandle THEN using ELSE 0)
  /\ program' = Loses(pbuffers \ pbuffers')
  /\ UNCHANGED <<loaded, level, unhandled, created>>

\* wglCreateContext: fails when the DLL has a current context, after the host has
\* taken it from the program.
CreateContext ==
  /\ Asks /\ currPixFmt /\ MayCreate
  /\ RegisterCreate
  /\ IF currGLRC = NoHandle
     THEN currDC' = TRUE /\ Gets(0, ctx'[0])
     ELSE UNCHANGED <<currDC, program>>
  /\ UNCHANGED <<loaded, currPixFmt, currGLRC, level, pbufs, pbuffers, using>>

\* wglCreateContextAttribsARB(dc, 0, a): returns 0 when the host kept its contexts,
\* the attributes being those it remembers, and has none for the window.
CreateAttribs(a) ==
  /\ Asks /\ window /\ MayReplace(a)
  /\ HostCreateFirst(a)
  /\ IF ctx'[0] = 0
     THEN UNCHANGED <<guestDll, device, program>>
     ELSE /\ mglCntxCurrent' = FALSE /\ mglContext' = TRUE
          /\ currDC' = TRUE /\ currGLRC' = NoHandle /\ level' = 0
          /\ Gets(0, ctx'[0])
          /\ UNCHANGED <<loaded, currPixFmt, unhandled>>
  /\ UNCHANGED <<pbufs, pbuffers, using>>

\* wglCreateContextAttribsARB(dc, share, a) with a context on the stack.
CreateShared ==
  /\ Asks /\ window /\ FirstFree > 0 /\ MayShare
  /\ \E p \in DOMAIN program : program[p].owned
  /\ HostCreateShared
  /\ level' = (IF currGLRC # NoHandle THEN NextLevel ELSE 0)
  /\ currDC' = TRUE
  /\ Gets(level', created + 1)
  /\ UNCHANGED <<loaded, currPixFmt, currGLRC, device, pbufs, pbuffers, using>>

\* wglCreatePbufferARB.  When GLX has no configuration the slot stays in use; when
\* there is no slot left, the DLL takes the width w for one.
CreatePbuffer(configured, w) ==
  /\ kit.pbuffers /\ Asks /\ window /\ MayCreatePb
  /\ LET free == Slots \ hPbuffer
         i == IF free = {} THEN w ELSE CHOOSE x \in free : \A y \in free : x <= y
         done == free # {} /\ configured
     IN /\ hPbuffer' = hPbuffer \union {i}
        /\ currPB' = (IF done THEN currPB \union {i} ELSE currPB \ {i})
        /\ IF done
           THEN /\ PBRC' = [PBRC EXCEPT ![i] = created + 1]
                /\ created' = created + 1
                /\ pbuffers' = pbuffers \union {i}
           ELSE UNCHANGED <<PBRC, created, pbuffers>>
  /\ UNCHANGED <<guestDll, device, window, ctx, glxCurrent, attribs, active, program, using>>

\* wglCreateContext of a pbuffer's DC: without a current context it is taken for
\* the one of the window.
CreatePbufferContext(i) ==
  /\ loaded /\ currPixFmt /\ i \in pbuffers /\ Len(program) < kit.created
  /\ MayCreatePb /\ ~\E p \in DOMAIN program : Latest(p) /\ program[p].glx = PBRC[i]
  /\ mglContext' = TRUE
  /\ IF currGLRC = NoHandle
     THEN currDC' = TRUE /\ Gets(0, PBRC[i])
     ELSE UNCHANGED currDC /\ Gets(Pb(i), PBRC[i])
  /\ UNCHANGED <<loaded, currPixFmt, currGLRC, level, mglCntxCurrent, unhandled, host, pbufs,
                 pbuffers, using>>

DestroyPbuffer(i) ==
  /\ loaded /\ i \in pbuffers
  /\ PbuffersDestroyed({i})
  /\ pbuffers' = pbuffers \ {i}
  /\ program' = Loses({i})
  /\ using' = (IF using # 0 /\ ~program'[using].owned THEN 0 ELSE using)
  /\ UNCHANGED <<guestDll, device, host>>

MakeCurrent(p) ==
  /\ loaded /\ p \in DOMAIN program /\ Latest(p)
  /\ DllMakeCurrent(program[p].handle)
  /\ using' = p
  /\ UNCHANGED <<pbufs, pbuffers, program>>

MakeNoneCurrent ==
  /\ loaded /\ created < kit.created
  /\ DllMakeCurrent(NoHandle)
  /\ using' = 0
  /\ UNCHANGED <<pbufs, pbuffers, program>>

\* The context of the window takes the pbuffers with it.
DeleteContext(p) ==
  /\ loaded /\ p \in DOMAIN program /\ program[p].owned
  /\ DllDelete(program[p].handle)
  /\ pbuffers' = (IF DeletesFirst(program[p].handle) THEN pbuffers \ currPB ELSE pbuffers)
  /\ program' = [Loses(pbuffers \ pbuffers') EXCEPT ![p].owned = FALSE]
  /\ using' = (IF using = p THEN 0 ELSE using)

\* WM_ACTIVATE of the window: register 0xFD8.
Activate(i) ==
  /\ loaded /\ mglContext /\ mglCntxCurrent
  /\ active' = i
  /\ attribs' = (IF i THEN attribs ELSE Deactivated(attribs))
  /\ UNCHANGED <<guestDll, device, window, ctx, glxCurrent, created, pbufs, pbuffers, program, using>>

\* wglSwapBuffers: register 0xFF0, current context or not.
SwapBuffers ==
  /\ loaded /\ window
  /\ active' = TRUE
  /\ UNCHANGED <<guestDll, device, window, ctx, glxCurrent, attribs, created, pbufs, pbuffers,
                 program, using>>

Uses ==
  \/ Attach \/ Detach \/ SetPixelFormat
  \/ CreateContext \/ \E a \in Attribs : CreateAttribs(a)
  \/ CreateShared
  \/ \E configured \in BOOLEAN, w \in Slots : CreatePbuffer(configured, w)
  \/ \E i \in Slots : CreatePbufferContext(i) \/ DestroyPbuffer(i)
  \/ \E p \in 1 .. MaxCreated : MakeCurrent(p) \/ DeleteContext(p)
  \/ MakeNoneCurrent
  \/ SwapBuffers
  \/ \E i \in BOOLEAN : Activate(i)

Next == Uses /\ UNCHANGED kit

Spec == Init /\ [][Next]_vars

-----------------------------------------------------------------------------
(* Properties.                                                             *)

\* The variables have the types of the C declarations.
TypeOK ==
  /\ {loaded, currPixFmt, currDC, mglContext, mglCntxCurrent, unhandled, window, active}
       \subseteq BOOLEAN
  /\ currGLRC \in Levels \cup PbHandles \cup {NoHandle} /\ level \in Levels
  /\ created \in Nat /\ PBRC \in [Slots -> 0 .. created]
  /\ kit \in Kits /\ currPB \union pbuffers \subseteq hPbuffer /\ hPbuffer \subseteq Slots
  /\ ctx \in [Levels -> 0 .. created] /\ glxCurrent \in 0 .. created
  /\ attribs \in Attribs \cup {NoAttribs}
  /\ program \in Seq([handle : Levels \cup PbHandles, glx : Nat, owned : BOOLEAN])
  /\ using \in 0 .. Len(program)

\* The handle a program holds denotes, on the host's stack or among the pbuffers, the
\* context that was created for it: the guest's level and the host's place are the
\* same number.
HandleDenotes ==
  \A p \in DOMAIN program : Latest(p) =>
    LET h == program[p].handle IN
    program[p].glx = IF h \in PbHandles THEN PBRC[h - MaxLevel] ELSE ctx[h]

\* The context a program made current is current in GLX, and the device executes
\* its calls, until the program asks for something else.
CurrentHonoured ==
  (using # 0 /\ Latest(using)) =>
     glxCurrent = program[using].glx /\ mglContext /\ mglCntxCurrent

\* When the DLL is unloaded, no GLX context, no pbuffer and no window is left; before,
\* the context of the window stays even when the program deletes its last one.
NothingLeft ==
  ~loaded => ctx = Empty /\ ~window /\ ~mglContext /\ \A i \in Slots : PBRC[i] = 0

\* What mesapt_write reports as "Unhandled mesapt_write()" does not happen.
NoUnhandledWrite == ~unhandled
=============================================================================
