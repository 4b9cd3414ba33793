------------------------- MODULE GuestAttachProofs -------------------------
(***************************************************************************)
(* Proofs about GuestAttach, for any number of processes, addresses and    *)
(* queued calls.  Types hold whatever the processes do; the rest for       *)
(* processes that keep the rules (Orderly).                                *)
(*                                                                         *)
(* TrapsReach and CallsStayHome are not inductive: what keeps them is that *)
(* refcnt counts the processes and the deaths (so nobody unloads what      *)
(* another one still uses), that one process at a time has a pixel format, *)
(* and that the queue is drained before its context goes.                  *)
(***************************************************************************)
EXTENDS GuestAttach, FiniteSetTheorems, TLAPS

-----------------------------------------------------------------------------
(* The inductive invariant.                                                *)

\* refcnt counts the processes that are there and the deaths that nobody made good;
\* without a sentinel there is nothing to count.
CountInv ==
  IF sentinel = NoPage THEN In = {} /\ uncounted = 0 /\ refcnt = 0
  ELSE refcnt = Cardinality(In) + uncounted /\ refcnt > 0

\* Once the last process went, nothing is left of a context or of its window.
UnloadedInv == sentinel = NoPage => ~mglContext /\ ctx0 = Nobody /\ ~paused

\* What a process holds it took in this order, and one process at a time takes it.
UserInv ==
  /\ \A p \in Procs : /\ currPixFmt[p] => state[p] = "in"
                      /\ currDC[p] => currPixFmt[p]
                      /\ currGLRC[p] => currDC[p]
  /\ \A p, q \in Procs : currPixFmt[p] /\ currPixFmt[q] => p = q

\* The sentinel is that of the processes that are there, unless one died that was not
\* made good; for the one that has a pixel format it always is.
PageInv ==
  /\ \A p \in In : page[p] \in Pages
  /\ \A p, q \in In : page[p] = page[q]
  /\ (sentinel # NoPage /\ uncounted = 0) => \A q \in In : sentinel = page[q]
  /\ \A p \in Procs : currPixFmt[p] => sentinel = page[p]

\* The device and the host have the contexts that the process thinks they have.
ContextInv ==
  \A p \in Procs : /\ currPixFmt[p] => ctx0 \in {Nobody, p}
                   /\ currDC[p] => mglContext /\ ctx0 = p
                   /\ currGLRC[p] => Ready

\* Whose calls the device may still have: those of the process that has a pixel format,
\* and of one that left its context behind.
Callers == abandoned \cup {p \in Procs : currPixFmt[p]}

\* Queued calls are executed before their context is gone.
QueueInv ==
  (sentinel # NoPage /\ queue # <<>>) =>
    Ready /\ ctx0 \in Callers /\ \A k \in DOMAIN queue : queue[k] = ctx0

\* Client state outlives its context only when the context was left behind.
ShapeInv == mglContext => arrays \in {Nobody} \cup Callers

AInv ==
  /\ TypeOK /\ CountInv /\ UnloadedInv /\ UserInv /\ PageInv /\ ContextInv /\ QueueInv /\ ShapeInv
  /\ CallsStayHome

-----------------------------------------------------------------------------
(* Types.                                                                  *)

\* TypeOK in four parts.
GuestTypes ==
  /\ state \in [Procs -> {"new", "in", "gone", "dead"}] /\ page \in [Procs -> Pages \cup {NoPage}]
  /\ {hooked, currPixFmt, currDC, currGLRC} \subseteq [Procs -> BOOLEAN]
SharedTypes ==
  /\ sentinel \in Pages \cup {NoPage} /\ refcnt \in 0 .. 255
  /\ queue \in Seq(Procs) /\ Len(queue) <= MaxQueue
Flags == {mglContext, mglCntxCurrent, recent, last, paused, strayed, foreign} \subseteq BOOLEAN
Rest ==
  /\ dispTimer \in {"none", "idle", "armed"} /\ stray \in 0 .. MaxStray
  /\ {arrays, ctx0} \subseteq Procs \cup {Nobody}
  /\ ts \in {"none", "deactivate", "refresh"}
  /\ abandoned \subseteq Procs /\ uncounted \in Nat

\* The four parts are the whole.
LEMMA TypesAreTypeOK == TypeOK <=> GuestTypes /\ SharedTypes /\ Flags /\ Rest
  BY DEF TypeOK, GuestTypes, SharedTypes, Flags, Rest

\* The tuples of variables are always expanded.
USE DEF vars, guest, shared, device, screen, history

\* The arithmetic of a byte.
LEMMA Byte ==
  ASSUME NEW n \in 0 .. 255
  PROVE  /\ (n + 1) % 256 \in 0 .. 255 /\ (n < 255 => (n + 1) % 256 = n + 1)
         /\ (n - 1) % 256 \in 0 .. 255 /\ (n > 0 => (n - 1) % 256 = n - 1)
         /\ n > 1 => n - 1 \in 0 .. 255
<1>1. \A m \in Int : m % 256 \in 0 .. 255
  OBVIOUS
<1>2. \A m \in Int : m >= 0 /\ m < 256 => m % 256 = m
  OBVIOUS
<1>3. n \in Int /\ n >= 0 /\ n < 256 /\ n + 1 \in Int /\ n - 1 \in Int
  OBVIOUS
<1>4. (n + 1) % 256 \in 0 .. 255 /\ (n - 1) % 256 \in 0 .. 255
  BY <1>1, <1>3
<1>5. n < 255 => (n + 1) % 256 = n + 1
  BY <1>2, <1>3
<1>6. n > 0 => (n - 1) % 256 = n - 1
  BY <1>2, <1>3
<1> QED
  BY <1>3, <1>4, <1>5, <1>6

\* An emptied queue is a queue.
LEMMA EmptyQueue == <<>> \in Seq(Procs) /\ Len(<<>>) = 0 /\ Len(<<>>) <= MaxQueue
  BY ConstantsAssumption

\* The prologue of a register write keeps the types.
LEMMA DrainedTypes ==
  ASSUME TypeOK, Drained
  PROVE  /\ queue' \in Seq(Procs) /\ Len(queue') <= MaxQueue
         /\ {strayed', foreign'} \subseteq BOOLEAN
         /\ ArraysDrained \in Procs \cup {Nobody}
<1>1. queue' \in Seq(Procs) /\ Len(queue') <= MaxQueue
  BY EmptyQueue DEF TypeOK, Drained
<1>2. {strayed', foreign'} \subseteq BOOLEAN
  BY DEF TypeOK, Drained, Executes
<1>3. ArraysDrained \in Procs \cup {Nobody}
  BY DEF TypeOK, ArraysDrained
<1> QED
  BY <1>1, <1>2, <1>3

\* MGLActivateHandler keeps them.
LEMMA ActivatesTypes ==
  ASSUME TypeOK, NEW i \in BOOLEAN, NEW d \in BOOLEAN, Activates(i, d)
  PROVE  {last', paused'} \subseteq BOOLEAN /\ ts' \in {"none", "deactivate", "refresh"}
  BY DEF TypeOK, Activates

\* So does the register that deletes a context.
LEMMA RegisterDeleteTypes ==
  ASSUME TypeOK, RegisterDelete
  PROVE  /\ {last', paused', mglContext', mglCntxCurrent'} \subseteq BOOLEAN
         /\ ts' \in {"none", "deactivate", "refresh"} /\ dispTimer' \in {"none", "idle", "armed"}
  BY ActivatesTypes DEF TypeOK, RegisterDelete

\* Each operation keeps the types, DllMain's first.
LEMMA AttachTypes ==
  ASSUME TypeOK, NEW p \in Procs, NEW pg \in Pages, Attach(p, pg)
  PROVE  TypeOK'
<1>1. GuestTypes'
  <2>1. state' \in [Procs -> {"new", "in", "gone", "dead"}] /\ page' \in [Procs -> Pages \cup {NoPage}]
    BY DEF TypeOK, Attach
  <2>2. hooked' \in [Procs -> BOOLEAN]
    BY DEF TypeOK, Attach
  <2> QED
    BY <2>1, <2>2 DEF TypeOK, GuestTypes, Attach
<1>2. SharedTypes'
  <2>1. refcnt' \in 0 .. 255
    <3>1. refcnt \in 0 .. 255 /\ refcnt' \in {(refcnt + 1) % 256, 1}
      BY DEF TypeOK, Attach
    <3> QED
      BY <3>1, Byte
  <2>2. sentinel' \in Pages \cup {NoPage}
    BY DEF TypeOK, Attach
  <2>3. queue' \in Seq(Procs) /\ Len(queue') <= MaxQueue
    BY EmptyQueue DEF TypeOK, Attach
  <2> QED
    BY <2>1, <2>2, <2>3 DEF SharedTypes
<1>3. Flags'
  BY DEF TypeOK, Flags, Attach
<1>4. Rest'
  BY DEF TypeOK, Rest, Attach
<1> QED
  BY <1>1, <1>2, <1>3, <1>4, TypesAreTypeOK DEF TypeOK, GuestTypes, SharedTypes, Flags, Rest

LEMMA DetachTypes ==
  ASSUME TypeOK, NEW p \in Procs, Detach(p)
  PROVE  TypeOK'
<1>1. GuestTypes'
  BY DEF TypeOK, GuestTypes, Detach, Goes, Unloads
<1>2. SharedTypes'
  BY DrainedTypes DEF TypeOK, SharedTypes, Detach, Goes, Unloads
<1>3. Flags'
  <2>1. CASE refcnt' = 0
    <3>1. {strayed', foreign'} \subseteq BOOLEAN
      BY <2>1, DrainedTypes DEF TypeOK, Detach, Unloads
    <3> QED
      BY <2>1, <3>1 DEF TypeOK, Flags, Detach, Unloads
  <2>2. CASE refcnt' # 0
    BY <2>2 DEF TypeOK, Flags, Detach
  <2> QED
    BY <2>1, <2>2
<1>4. Rest'
  BY DrainedTypes DEF TypeOK, Rest, Detach, Goes, Unloads
<1> QED
  BY <1>1, <1>2, <1>3, <1>4, TypesAreTypeOK DEF TypeOK, GuestTypes, SharedTypes, Flags, Rest

LEMMA DieTypes ==
  ASSUME TypeOK, NEW p \in Procs, Die(p)
  PROVE  TypeOK'
<1>1. GuestTypes'
  BY DEF TypeOK, GuestTypes, Die, Goes
<1>2. SharedTypes'
  BY DEF TypeOK, SharedTypes, Die
<1>3. Flags'
  BY DEF TypeOK, Flags, Die
<1>4. Rest'
  BY DEF TypeOK, Rest, Die
<1> QED
  BY <1>1, <1>2, <1>3, <1>4, TypesAreTypeOK DEF TypeOK, GuestTypes, SharedTypes, Flags, Rest

\* The entry points keep them.
LEMMA SetPixelFormatTypes ==
  ASSUME TypeOK, NEW p \in Procs, SetPixelFormat(p)
  PROVE  TypeOK'
<1>1. GuestTypes'
  <2>1. currDC' \in [Procs -> BOOLEAN]
    BY DEF TypeOK, SetPixelFormat
  <2>2. currGLRC' \in [Procs -> BOOLEAN] /\ currPixFmt' \in [Procs -> BOOLEAN]
    BY DEF TypeOK, SetPixelFormat
  <2> QED
    BY <2>1, <2>2 DEF TypeOK, GuestTypes, SetPixelFormat
<1>2. SharedTypes'
  <2>1. refcnt' \in 0 .. 255
    <3>1. refcnt \in 0 .. 255 /\ (refcnt' = refcnt \/ (refcnt > 1 /\ refcnt' = refcnt - 1))
      BY DEF TypeOK, SetPixelFormat, Recovered
    <3> QED
      BY <3>1, Byte
  <2>2. sentinel' \in Pages \cup {NoPage}
    BY DEF TypeOK, SetPixelFormat, Recovered
  <2> QED
    BY <2>1, <2>2, DrainedTypes DEF SharedTypes, SetPixelFormat
<1>3. Flags'
  BY DrainedTypes, RegisterDeleteTypes DEF TypeOK, Flags, SetPixelFormat
<1>4. Rest'
  BY DrainedTypes, RegisterDeleteTypes DEF TypeOK, Rest, SetPixelFormat, Recovered
<1> QED
  BY <1>1, <1>2, <1>3, <1>4, TypesAreTypeOK DEF TypeOK, GuestTypes, SharedTypes, Flags, Rest

LEMMA CreateContextTypes ==
  ASSUME TypeOK, NEW p \in Procs, CreateContext(p)
  PROVE  TypeOK'
<1>1. GuestTypes'
  BY DEF TypeOK, GuestTypes, CreateContext
<1>2. SharedTypes'
  BY DrainedTypes DEF TypeOK, SharedTypes, CreateContext
<1>3. Flags'
  BY DrainedTypes DEF TypeOK, Flags, CreateContext
<1>4. Rest'
  BY DrainedTypes DEF TypeOK, Rest, CreateContext
<1> QED
  BY <1>1, <1>2, <1>3, <1>4, TypesAreTypeOK DEF TypeOK, GuestTypes, SharedTypes, Flags, Rest

LEMMA CreateAttribsTypes ==
  ASSUME TypeOK, NEW p \in Procs, CreateAttribs(p)
  PROVE  TypeOK'
<1>1. GuestTypes'
  BY DEF TypeOK, GuestTypes, CreateAttribs
<1>2. SharedTypes'
  BY DrainedTypes DEF TypeOK, SharedTypes, CreateAttribs
<1>3. Flags'
  BY DrainedTypes, ActivatesTypes DEF TypeOK, Flags, CreateAttribs
<1>4. Rest'
  BY ActivatesTypes DEF TypeOK, Rest, CreateAttribs
<1> QED
  BY <1>1, <1>2, <1>3, <1>4, TypesAreTypeOK DEF TypeOK, GuestTypes, SharedTypes, Flags, Rest

LEMMA MakeCurrentTypes ==
  ASSUME TypeOK, NEW p \in Procs, MakeCurrent(p)
  PROVE  TypeOK'
<1>1. GuestTypes'
  BY DEF TypeOK, GuestTypes, MakeCurrent
<1>2. SharedTypes'
  BY DrainedTypes DEF TypeOK, SharedTypes, MakeCurrent
<1>3. Flags'
  BY DrainedTypes, ActivatesTypes DEF TypeOK, Flags, MakeCurrent, Sched
<1>4. Rest'
  <2>1. stray' \in 0 .. MaxStray
    BY DEF TypeOK, MakeCurrent
  <2>2. dispTimer' \in {"none", "idle", "armed"}
    BY DEF TypeOK, MakeCurrent, Sched
  <2> QED
    BY <2>1, <2>2, DrainedTypes, ActivatesTypes DEF TypeOK, Rest, MakeCurrent
<1> QED
  BY <1>1, <1>2, <1>3, <1>4, TypesAreTypeOK DEF TypeOK, GuestTypes, SharedTypes, Flags, Rest

LEMMA MakeNoneCurrentTypes ==
  ASSUME TypeOK, NEW p \in Procs, MakeNoneCurrent(p)
  PROVE  TypeOK'
<1>1. GuestTypes'
  BY DEF TypeOK, GuestTypes, MakeNoneCurrent
<1>2. SharedTypes'
  BY DrainedTypes DEF TypeOK, SharedTypes, MakeNoneCurrent
<1>3. Flags'
  BY DrainedTypes DEF TypeOK, Flags, MakeNoneCurrent
<1>4. Rest'
  BY DrainedTypes DEF TypeOK, Rest, MakeNoneCurrent
<1> QED
  BY <1>1, <1>2, <1>3, <1>4, TypesAreTypeOK DEF TypeOK, GuestTypes, SharedTypes, Flags, Rest

LEMMA DeleteContextTypes ==
  ASSUME TypeOK, NEW p \in Procs, DeleteContext(p)
  PROVE  TypeOK'
<1>1. GuestTypes'
  BY DEF TypeOK, GuestTypes, DeleteContext
<1>2. SharedTypes'
  BY DrainedTypes DEF TypeOK, SharedTypes, DeleteContext
<1>3. Flags'
  BY DrainedTypes, RegisterDeleteTypes DEF TypeOK, Flags, DeleteContext
<1>4. Rest'
  BY DrainedTypes, RegisterDeleteTypes DEF TypeOK, Rest, DeleteContext
<1> QED
  BY <1>1, <1>2, <1>3, <1>4, TypesAreTypeOK DEF TypeOK, GuestTypes, SharedTypes, Flags, Rest

LEMMA CallTypes ==
  ASSUME TypeOK, NEW p \in Procs, Call(p)
  PROVE  TypeOK'
<1>1. GuestTypes'
  BY DEF TypeOK, GuestTypes, Call
<1>2. SharedTypes'
  BY ConstantsAssumption DEF TypeOK, SharedTypes, Call
<1>3. Flags'
  BY DEF TypeOK, Flags, Call
<1>4. Rest'
  BY DEF TypeOK, Rest, Call
<1> QED
  BY <1>1, <1>2, <1>3, <1>4, TypesAreTypeOK DEF TypeOK, GuestTypes, SharedTypes, Flags, Rest

LEMMA TrapTypes ==
  ASSUME TypeOK, NEW p \in Procs, Trap(p)
  PROVE  TypeOK'
<1>1. GuestTypes'
  BY DEF TypeOK, GuestTypes, Trap
<1>2. SharedTypes'
  BY EmptyQueue DEF TypeOK, SharedTypes, Trap
<1>3. Flags'
  BY DEF TypeOK, Flags, Trap, Executes
<1>4. Rest'
  BY DEF TypeOK, Rest, Trap
<1> QED
  BY <1>1, <1>2, <1>3, <1>4, TypesAreTypeOK DEF TypeOK, GuestTypes, SharedTypes, Flags, Rest

LEMMA SwapBuffersTypes ==
  ASSUME TypeOK, NEW p \in Procs, SwapBuffers(p)
  PROVE  TypeOK'
<1>1. GuestTypes'
  BY DEF TypeOK, GuestTypes, SwapBuffers
<1>2. SharedTypes'
  BY DrainedTypes DEF TypeOK, SharedTypes, SwapBuffers
<1>3. Flags'
  BY DrainedTypes, ActivatesTypes DEF TypeOK, Flags, SwapBuffers, Sched
<1>4. Rest'
  BY DrainedTypes, ActivatesTypes DEF TypeOK, Rest, SwapBuffers, Sched
<1> QED
  BY <1>1, <1>2, <1>3, <1>4, TypesAreTypeOK DEF TypeOK, GuestTypes, SharedTypes, Flags, Rest

LEMMA WmActivateTypes ==
  ASSUME TypeOK, NEW p \in Procs, NEW i \in BOOLEAN, WmActivate(p, i)
  PROVE  TypeOK'
<1>1. GuestTypes'
  BY DEF TypeOK, GuestTypes, WmActivate
<1>2. SharedTypes'
  BY DrainedTypes DEF TypeOK, SharedTypes, WmActivate
<1>3. Flags'
  BY DrainedTypes, ActivatesTypes DEF TypeOK, Flags, WmActivate, Sched
<1>4. Rest'
  BY DrainedTypes, ActivatesTypes DEF TypeOK, Rest, WmActivate, Sched
<1> QED
  BY <1>1, <1>2, <1>3, <1>4, TypesAreTypeOK DEF TypeOK, GuestTypes, SharedTypes, Flags, Rest

\* So does the passing of time.
LEMMA SilenceTypes ==
  ASSUME TypeOK, Silence
  PROVE  TypeOK'
<1>1. GuestTypes'
  BY DEF TypeOK, GuestTypes, Silence
<1>2. SharedTypes'
  BY DEF TypeOK, SharedTypes, Silence
<1>3. Flags'
  BY DEF TypeOK, Flags, Silence
<1>4. Rest'
  BY DEF TypeOK, Rest, Silence
<1> QED
  BY <1>1, <1>2, <1>3, <1>4, TypesAreTypeOK DEF TypeOK, GuestTypes, SharedTypes, Flags, Rest

LEMMA DispTimerTypes ==
  ASSUME TypeOK, DispTimer
  PROVE  TypeOK'
<1>1. GuestTypes'
  BY DEF TypeOK, GuestTypes, DispTimer
<1>2. SharedTypes'
  BY DEF TypeOK, SharedTypes, DispTimer
<1>3. Flags'
  BY ActivatesTypes DEF TypeOK, Flags, DispTimer
<1>4. Rest'
  <2>1. stray' \in 0 .. MaxStray /\ dispTimer' \in {"none", "idle", "armed"}
    BY ConstantsAssumption DEF TypeOK, DispTimer
  <2> QED
    BY <2>1, ActivatesTypes DEF TypeOK, Rest, DispTimer
<1> QED
  BY <1>1, <1>2, <1>3, <1>4, TypesAreTypeOK DEF TypeOK, GuestTypes, SharedTypes, Flags, Rest

LEMMA OneshotTypes ==
  ASSUME TypeOK, Oneshot
  PROVE  TypeOK'
<1>1. GuestTypes'
  BY DEF TypeOK, GuestTypes, Oneshot
<1>2. SharedTypes'
  BY DEF TypeOK, SharedTypes, Oneshot
<1>3. Flags'
  BY DEF TypeOK, Flags, Oneshot
<1>4. Rest'
  BY DEF TypeOK, Rest, Oneshot
<1> QED
  BY <1>1, <1>2, <1>3, <1>4, TypesAreTypeOK DEF TypeOK, GuestTypes, SharedTypes, Flags, Rest

-----------------------------------------------------------------------------
(* What the invariant says of one process, and of the queue.               *)

\* There are finitely many processes.
LEMMA InFinite == IsFiniteSet(In) /\ Cardinality(In) \in Nat
<1>1. IsFiniteSet(1 .. MaxProcs)
  BY ConstantsAssumption, FS_Interval
<1>2. In \subseteq 1 .. MaxProcs
  BY DEF In, Procs
<1> QED
  BY <1>1, <1>2, FS_Subset, FS_CardinalityType

\* Where there is a process, there is a sentinel.
LEMMA Counted ==
  ASSUME AInv, NEW p \in Procs, state[p] = "in"
  PROVE  sentinel # NoPage /\ refcnt = Cardinality(In) + uncounted /\ page[p] \in Pages
<1>1. p \in In
  BY DEF In
<1> QED
  BY <1>1 DEF AInv, CountInv, PageInv

\* The process that has a pixel format is the only one, and the only one whose calls and
\* client state there can be next to what others left behind.
LEMMA Owner ==
  ASSUME AInv, NEW p \in Procs, currPixFmt[p]
  PROVE  /\ state[p] = "in" /\ sentinel # NoPage
         /\ \A q \in Procs : currPixFmt[q] => q = p
         /\ ctx0 \in {Nobody, p} /\ Callers = abandoned \cup {p}
         /\ mglContext => arrays \in {Nobody, p} \cup abandoned
<1>1. state[p] = "in" /\ \A q \in Procs : currPixFmt[q] => q = p
  BY DEF AInv, UserInv
<1>2. sentinel # NoPage
  BY <1>1, Counted
<1>3. ctx0 \in {Nobody, p}
  BY DEF AInv, ContextInv
<1>4. Callers = abandoned \cup {p}
  BY <1>1 DEF Callers
<1>5. mglContext => arrays \in {Nobody, p} \cup abandoned
  BY <1>4 DEF AInv, ShapeInv
<1> QED
  BY <1>1, <1>2, <1>3, <1>4, <1>5

\* Calls of one process in its context, on client state that is its own, or of one that
\* left its context behind.
LEMMA ExecutesAtHome ==
  ASSUME CallsStayHome, NEW calls \in Seq(Procs), \A k \in DOMAIN calls : calls[k] = ctx0,
         arrays \in {Nobody, ctx0} \cup abandoned, Executes(calls)
  PROVE  CallsStayHome'
<1>1. \A k \in DOMAIN calls : k = 1 \/ k - 1 \in DOMAIN calls
  OBVIOUS
<1>2. ~strayed'
  BY DEF CallsStayHome, Executes
<1>3. \A k \in DOMAIN calls : (IF k = 1 THEN arrays ELSE calls[k - 1]) \in {Nobody, calls[k]} \cup abandoned
  BY <1>1
<1>4. ~foreign'
  BY <1>3 DEF CallsStayHome, Executes
<1> QED
  BY <1>2, <1>4 DEF CallsStayHome

\* The queue is not empty for a context that is gone, so it is empty after the prologue.
LEMMA DrainedAtHome ==
  ASSUME AInv, sentinel # NoPage, Drained
  PROVE  /\ queue' = <<>> /\ CallsStayHome'
         /\ mglContext => ArraysDrained \in {Nobody} \cup Callers
<1> queue \in Seq(Procs)
  BY DEF AInv, TypeOK
<1>1. queue' = <<>>
  BY DEF AInv, QueueInv, Drained
<1>2. CASE Ready /\ queue # <<>>
  <2>1. /\ ctx0 \in Callers /\ \A k \in DOMAIN queue : queue[k] = ctx0
        /\ Len(queue) \in DOMAIN queue /\ 1 \in DOMAIN queue
    BY <1>2 DEF AInv, QueueInv
  <2>2. arrays \in {Nobody} \cup Callers
    BY <1>2 DEF AInv, ShapeInv, Ready
  <2>3. ctx0 \in Procs
    BY <2>1
  <2>4. ASSUME NEW p \in Procs, currPixFmt[p] PROVE ctx0 = p
    BY <2>3, <2>4, Owner DEF Nobody, Procs
  <2>5. arrays \in {Nobody, ctx0} \cup abandoned
    BY <2>2, <2>4 DEF Callers
  <2>6. CallsStayHome'
    BY <1>2, <2>1, <2>5, ExecutesAtHome DEF AInv, Drained
  <2> QED
    BY <1>1, <1>2, <2>1, <2>6 DEF ArraysDrained
<1>3. CASE Ready /\ queue = <<>>
  <2>1. \A k \in DOMAIN queue : FALSE
    BY <1>3
  <2>2. CallsStayHome'
    BY <1>3, <2>1 DEF AInv, CallsStayHome, Drained, Executes
  <2> QED
    BY <1>1, <1>3, <2>2 DEF AInv, ShapeInv, ArraysDrained
<1>4. CASE ~Ready
  BY <1>1, <1>4 DEF AInv, ShapeInv, ArraysDrained, Drained, CallsStayHome
<1> QED
  BY <1>2, <1>3, <1>4

\* As long as no process comes or goes, the counts and the addresses stay as they are.
LEMMA SameProcesses ==
  ASSUME AInv, UNCHANGED <<state, page, currPixFmt, sentinel, refcnt, uncounted>>
  PROVE  CountInv' /\ PageInv'
<1>1. In' = In
  BY DEF In
<1> QED
  BY <1>1 DEF AInv, CountInv, PageInv

-----------------------------------------------------------------------------
(* Processes come and go.                                                  *)

\* The first process writes the sentinel; the next ones map the same address.
LEMMA AttachStep ==
  ASSUME Orderly, AInv, NEW p \in Procs, NEW pg \in Pages, Attach(p, pg)
  PROVE  AInv'
<1>1. TypeOK'
  BY AttachTypes DEF AInv
<1>2. /\ p \notin In /\ In' = In \cup {p} /\ page'[p] = pg
      /\ \A q \in In : q # p /\ page'[q] = page[q]
  BY DEF AInv, TypeOK, Attach, In
<1>3. Cardinality(In') = Cardinality(In) + 1
  BY <1>2, InFinite, FS_AddElement
<1>4. /\ UNCHANGED <<currPixFmt, currDC, currGLRC, uncounted, ctx0, mglContext, mglCntxCurrent, arrays,
                     abandoned, strayed, foreign>>
      /\ ~currPixFmt[p] /\ sentinel' # NoPage
  BY ConstantsAssumption DEF AInv, UserInv, Attach
<1>5. CountInv'
  <2>1. CASE sentinel # NoPage
    <3>1. refcnt' = refcnt + 1
      BY <2>1, Byte DEF AInv, TypeOK, Attach, MayAttach
    <3> QED
      BY <1>3, <1>4, <2>1, <3>1, InFinite DEF AInv, TypeOK, CountInv
  <2>2. CASE sentinel = NoPage
    <3>1. Cardinality(In) = 0
      BY <2>2, FS_EmptySet DEF AInv, CountInv
    <3> QED
      BY <1>3, <1>4, <2>2, <3>1 DEF AInv, CountInv, Attach
  <2> QED
    BY <2>1, <2>2
<1>6. PageInv'
  <2>1. \A q \in In : page[q] = pg
    BY DEF Attach, MayAttach
  <2>2. \A q \in In' : page'[q] = pg
    BY <1>2, <2>1
  <2>3. uncounted' = 0 => sentinel' = pg
    <3>1. CASE sentinel = NoPage
      BY <3>1 DEF Attach
    <3>2. CASE sentinel # NoPage /\ uncounted = 0
      <4>1. In # {}
        <5>1. Cardinality(In) > 0
          BY <3>2, InFinite DEF AInv, TypeOK, CountInv
        <5>2. Cardinality({}) = 0
          BY FS_EmptySet
        <5> QED
          BY <5>1, <5>2
      <4> QED
        BY <2>1, <3>2, <4>1 DEF AInv, PageInv, Attach
    <3> QED
      BY <1>4, <3>1, <3>2
  <2>4. \A q \in Procs : currPixFmt[q] => sentinel' = page'[q]
    <3>1. \A q \in Procs : currPixFmt[q] => q \in In /\ sentinel = page[q] /\ sentinel # NoPage
      BY Owner DEF AInv, PageInv, In
    <3> QED
      BY <1>2, <3>1 DEF Attach
  <2> QED
    BY <1>4, <2>2, <2>3, <2>4 DEF PageInv
<1>7. UserInv'
  BY <1>4 DEF AInv, TypeOK, UserInv, Attach
<1>8. QueueInv'
  BY <1>4 DEF AInv, QueueInv, Callers, Ready, Attach
<1> QED
  BY <1>1, <1>4, <1>5, <1>6, <1>7, <1>8 DEF AInv, UnloadedInv, ContextInv, ShapeInv, Callers, Ready,
     CallsStayHome

\* What goes with a process, however it ends.
LEMMA GoesAway ==
  ASSUME AInv, NEW p \in Procs, NEW how \in {"gone", "dead"}, Goes(p, how)
  PROVE  /\ In' = In \ {p} /\ Cardinality(In') = Cardinality(In) - 1 /\ p \in In
         /\ \A q \in In' : page'[q] = page[q]
         /\ UserInv'
         /\ \A q \in Procs : currPixFmt'[q] => currPixFmt[q] /\ q # p /\ page'[q] = page[q]
         /\ \A q \in Procs : /\ currDC'[q] => currDC[q]
                             /\ currGLRC'[q] => currGLRC[q]
<1>1. p \in In /\ In' = In \ {p} /\ \A q \in In' : page'[q] = page[q]
  BY DEF AInv, TypeOK, Goes, In
<1>2. Cardinality(In') = Cardinality(In) - 1
  BY <1>1, InFinite, FS_RemoveElement
<1>3. /\ \A q \in Procs : currPixFmt'[q] => currPixFmt[q] /\ q # p /\ page'[q] = page[q]
      /\ \A q \in Procs : (currDC'[q] => currDC[q]) /\ (currGLRC'[q] => currGLRC[q])
  BY DEF AInv, TypeOK, Goes
<1>4. UserInv'
  BY DEF AInv, TypeOK, UserInv, Goes
<1> QED
  BY <1>1, <1>2, <1>3, <1>4

\* A process that dies is still counted, and leaves what it has to the device.
LEMMA DieStep ==
  ASSUME Orderly, AInv, NEW p \in Procs, Die(p)
  PROVE  AInv'
<1>1. TypeOK'
  BY DieTypes DEF AInv
<1>2. /\ In' = In \ {p} /\ Cardinality(In') = Cardinality(In) - 1 /\ p \in In
      /\ \A q \in In' : page'[q] = page[q]
      /\ UserInv'
      /\ \A q \in Procs : currPixFmt'[q] => currPixFmt[q] /\ q # p /\ page'[q] = page[q]
      /\ \A q \in Procs : (currDC'[q] => currDC[q]) /\ (currGLRC'[q] => currGLRC[q])
  BY GoesAway DEF Die
<1>3. /\ UNCHANGED <<sentinel, refcnt, queue, ctx0, mglContext, mglCntxCurrent, arrays, paused,
                     strayed, foreign>>
      /\ abandoned' = abandoned \cup {p} /\ uncounted' = uncounted + 1 /\ sentinel # NoPage
  BY <1>2, Counted DEF Die, In
<1>4. CountInv'
  BY <1>2, <1>3, InFinite DEF AInv, TypeOK, CountInv
<1>5. PageInv'
  BY <1>2, <1>3 DEF AInv, TypeOK, PageInv
<1>6. Callers \subseteq Callers'
  <2>1. \A q \in Procs : currPixFmt[q] /\ q # p => currPixFmt'[q]
    BY DEF AInv, TypeOK, Die, Goes
  <2> QED
    BY <1>3, <2>1 DEF Callers
<1>7. ContextInv'
  BY <1>2, <1>3 DEF AInv, ContextInv, Ready
<1> QED
  BY <1>1, <1>2, <1>3, <1>4, <1>5, <1>6, <1>7 DEF AInv, UnloadedInv, QueueInv, ShapeInv, Ready,
     CallsStayHome

\* The last process takes everything with it; another one leaves its context behind.
LEMMA DetachStep ==
  ASSUME Orderly, AInv, NEW p \in Procs, Detach(p)
  PROVE  AInv'
<1>1. TypeOK'
  BY DetachTypes DEF AInv
<1>2. /\ In' = In \ {p} /\ Cardinality(In') = Cardinality(In) - 1 /\ p \in In
      /\ \A q \in In' : page'[q] = page[q]
      /\ UserInv'
      /\ \A q \in Procs : currPixFmt'[q] => currPixFmt[q] /\ q # p /\ page'[q] = page[q]
      /\ \A q \in Procs : (currDC'[q] => currDC[q]) /\ (currGLRC'[q] => currGLRC[q])
  BY GoesAway DEF Detach
<1>3. /\ sentinel # NoPage /\ refcnt = Cardinality(In) + uncounted /\ refcnt > 0 /\ refcnt' = refcnt - 1
      /\ uncounted' = uncounted
  <2>1. sentinel # NoPage /\ refcnt = Cardinality(In) + uncounted /\ refcnt > 0
    BY <1>2, Counted DEF AInv, CountInv, In
  <2> QED
    BY <2>1, Byte DEF AInv, TypeOK, Detach
<1>4. CASE refcnt' = 0
  <2>1. /\ sentinel' = NoPage /\ ctx0' = Nobody /\ mglContext' = FALSE /\ paused' = FALSE
        /\ abandoned' = abandoned
    BY <1>4 DEF Detach, Unloads
  <2>2. Cardinality(In') = 0 /\ uncounted' = 0
    <3>1. Cardinality(In') \in Nat /\ uncounted \in Nat
      BY <1>2, InFinite, FS_Subset, FS_CardinalityType DEF AInv, TypeOK
    <3> QED
      BY <1>2, <1>3, <1>4, <3>1, InFinite
  <2>3. In' = {}
    <3>1. IsFiniteSet(In')
      BY <1>2, InFinite, FS_Subset
    <3> QED
      BY <2>2, <3>1, FS_EmptySet
  <2>4. \A q \in Procs : ~currPixFmt'[q]
    BY <1>2, <2>3 DEF UserInv, In
  <2>5. CountInv' /\ UnloadedInv' /\ PageInv' /\ ContextInv' /\ QueueInv' /\ ShapeInv'
    BY <1>2, <1>4, <2>1, <2>2, <2>3, <2>4 DEF CountInv, UnloadedInv, PageInv, UserInv, ContextInv,
       QueueInv, ShapeInv
  <2>6. CallsStayHome'
    BY <1>3, <1>4, DrainedAtHome DEF AInv, Detach, Unloads, CallsStayHome
  <2> QED
    BY <1>1, <1>2, <2>5, <2>6 DEF AInv
<1>5. CASE refcnt' # 0
  <2>1. /\ UNCHANGED <<sentinel, queue, ctx0, mglContext, mglCntxCurrent, arrays, paused, strayed, foreign>>
        /\ abandoned' = IF mglContext THEN abandoned \cup {p} ELSE abandoned
    BY <1>5 DEF Detach
  <2>2. CountInv'
    BY <1>2, <1>3, <1>5, <2>1, InFinite DEF AInv, TypeOK, CountInv
  <2>3. PageInv'
    BY <1>2, <1>3, <2>1 DEF AInv, PageInv
  <2>4. mglContext => Callers \subseteq Callers'
    <3>1. \A q \in Procs : currPixFmt[q] /\ q # p => currPixFmt'[q]
      BY DEF AInv, TypeOK, Detach, Goes
    <3> QED
      BY <2>1, <3>1 DEF Callers
  <2>5. ContextInv'
    BY <1>2, <2>1 DEF AInv, ContextInv, Ready
  <2>6. QueueInv' /\ ShapeInv'
    BY <2>1, <2>4 DEF AInv, QueueInv, ShapeInv, Ready
  <2> QED
    BY <1>1, <1>2, <1>3, <2>1, <2>2, <2>3, <2>5, <2>6 DEF AInv, UnloadedInv, CallsStayHome
<1> QED
  BY <1>4, <1>5

-----------------------------------------------------------------------------
(* What processes do.                                                      *)

\* Without a death to make good, the recovery changes nothing; after one, it is run by
\* the process that is alone.
LEMMA RecoveredRight ==
  ASSUME Orderly, AInv, NEW p \in Procs, state[p] = "in", MayFormat(p), Recovered(p)
  PROVE  /\ sentinel' \in {sentinel, page[p]} /\ sentinel' # NoPage
         /\ sentinel' = page[p] \/ uncounted = 0
         /\ refcnt' - uncounted' = refcnt - uncounted /\ refcnt' > 0
<1>1. /\ sentinel # NoPage /\ refcnt = Cardinality(In) + uncounted /\ refcnt > 0 /\ page[p] \in Pages
      /\ page[p] # NoPage /\ refcnt \in Nat /\ uncounted \in Nat
  BY Counted, ConstantsAssumption DEF AInv, TypeOK, CountInv
<1>2. CASE recent
  BY <1>1, <1>2 DEF Recovered, MayFormat
<1>3. CASE ~recent
  <2>1. In = {p}
    BY <1>3 DEF MayFormat
  <2>2. refcnt = 1 + uncounted
    BY <1>1, <2>1, FS_Singleton
  <2>3. sentinel' = page[p]
    BY <1>3 DEF Recovered
  <2>4. CASE uncounted = 0
    BY <1>1, <1>3, <2>2, <2>3, <2>4 DEF Recovered
  <2>5. CASE uncounted > 0
    BY <1>1, <1>3, <2>2, <2>3, <2>5 DEF Recovered
  <2> QED
    BY <1>1, <2>4, <2>5
<1> QED
  BY <1>2, <1>3

\* The pixel format is that of one process, which finds the sentinel right, no context and no queue.
LEMMA SetPixelFormatStep ==
  ASSUME Orderly, AInv, NEW p \in Procs, SetPixelFormat(p)
  PROVE  AInv'
<1>1. TypeOK'
  BY SetPixelFormatTypes DEF AInv
<1>2. /\ state[p] = "in" /\ sentinel # NoPage /\ Drained /\ MayFormat(p) /\ Recovered(p)
      /\ UNCHANGED <<state, page, abandoned>> /\ ctx0' = Nobody /\ arrays' = ArraysDrained
  BY DEF SetPixelFormat
<1>3. /\ queue' = <<>> /\ CallsStayHome'
      /\ mglContext => arrays' \in {Nobody} \cup Callers
  BY <1>2, DrainedAtHome
<1>4. /\ sentinel' \in {sentinel, page[p]} /\ sentinel' # NoPage
      /\ sentinel' = page[p] \/ uncounted = 0
      /\ refcnt' - uncounted' = refcnt - uncounted /\ refcnt' > 0
  BY <1>2, RecoveredRight
<1>5. /\ In' = In /\ p \in In
      /\ \A q \in Procs : currPixFmt[q] => q = p
      /\ \A q \in Procs : currPixFmt'[q] <=> q = p
  BY <1>2 DEF AInv, TypeOK, UserInv, In, MayFormat, SetPixelFormat
<1>6. /\ \A q \in Procs : ~currDC'[q]
      /\ \A q \in Procs : ~currGLRC'[q]
  <2>1. \A q \in Procs : currDC[q] => q = p /\ currGLRC[p]
    BY <1>2, <1>5 DEF AInv, UserInv, MayFormat
  <2>2. \A q \in Procs : currGLRC[q] => q = p
    BY <1>5 DEF AInv, UserInv
  <2> QED
    BY <2>1, <2>2 DEF AInv, TypeOK, SetPixelFormat
<1>7. CountInv'
  BY <1>1, <1>2, <1>4, <1>5, InFinite DEF AInv, TypeOK, CountInv
<1>8. UserInv'
  BY <1>2, <1>5, <1>6 DEF UserInv
<1>9. PageInv'
  <2>1. \A q \in In : page[q] = page[p]
    BY <1>5 DEF AInv, PageInv
  <2>2. sentinel' = page[p]
    BY <1>2, <1>4, <1>5 DEF AInv, PageInv
  <2> QED
    BY <1>2, <1>5, <2>1, <2>2 DEF AInv, PageInv
<1>10. ContextInv'
  BY <1>2, <1>6 DEF ContextInv
<1>11. Callers' = abandoned \cup {p} /\ Callers \subseteq Callers'
  BY <1>2, <1>5 DEF Callers
<1>12. ShapeInv'
  <2>1. mglContext' => mglContext
    BY DEF AInv, TypeOK, SetPixelFormat, RegisterDelete
  <2> QED
    BY <1>3, <1>11, <2>1 DEF ShapeInv
<1> QED
  BY <1>1, <1>3, <1>4, <1>7, <1>8, <1>9, <1>10, <1>12 DEF AInv, UnloadedInv, QueueInv

\* The parts of the invariant that an entry point of the process with the pixel format
\* may disturb, when it leaves the processes alone and drains the queue.
LEMMA Serves ==
  ASSUME AInv, NEW p \in Procs, currPixFmt[p], TypeOK', CallsStayHome', queue' = <<>>,
         UNCHANGED <<state, page, currPixFmt, sentinel, refcnt, uncounted, abandoned>>,
         \A q \in Procs : currDC'[q] => currPixFmt[q],
         \A q \in Procs : currGLRC'[q] => currDC'[q],
         ctx0' \in {Nobody, p},
         currDC'[p] => mglContext' /\ ctx0' = p,
         currGLRC'[p] => mglCntxCurrent',
         mglContext' => arrays' \in {Nobody, p} \cup abandoned
  PROVE  AInv'
<1>1. /\ sentinel # NoPage /\ \A q \in Procs : currPixFmt[q] => q = p
      /\ Callers = abandoned \cup {p}
  BY Owner
<1>2. CountInv' /\ PageInv'
  BY SameProcesses
<1>3. UserInv'
  BY DEF AInv, UserInv
<1>4. ContextInv'
  BY <1>1 DEF ContextInv, Ready
<1>5. ShapeInv'
  <2>1. Callers' = Callers
    BY DEF Callers
  <2> QED
    BY <1>1, <2>1 DEF ShapeInv
<1> QED
  BY <1>1, <1>2, <1>3, <1>4, <1>5 DEF AInv, UnloadedInv, QueueInv

\* What the prologue of a register write gives such an entry point.
LEMMA Prologue ==
  ASSUME AInv, NEW p \in Procs, currPixFmt[p], Drained
  PROVE  /\ queue' = <<>> /\ CallsStayHome'
         /\ mglContext => ArraysDrained \in {Nobody, p} \cup abandoned
         /\ ctx0 \in {Nobody, p}
         /\ \A q \in Procs : currDC[q] => q = p
         /\ \A q \in Procs : currGLRC[q] => q = p
         /\ \A q \in Procs : currDC[q] => currPixFmt[q]
         /\ \A q \in Procs : currGLRC[q] => currDC[q]
         /\ currDC[p] => mglContext /\ ctx0 = p
         /\ currGLRC[p] => mglContext /\ mglCntxCurrent
<1>1. /\ sentinel # NoPage /\ Callers = abandoned \cup {p} /\ ctx0 \in {Nobody, p}
      /\ \A q \in Procs : currPixFmt[q] => q = p
  BY Owner
<1>2. /\ queue' = <<>> /\ CallsStayHome'
      /\ mglContext => ArraysDrained \in {Nobody, p} \cup abandoned
  BY <1>1, DrainedAtHome
<1> QED
  BY <1>1, <1>2 DEF AInv, UserInv, ContextInv, Ready

\* A first context is the one that ctx[0] is made for.
LEMMA CreateContextStep ==
  ASSUME Orderly, AInv, NEW p \in Procs, CreateContext(p)
  PROVE  AInv'
<1>1. TypeOK'
  BY CreateContextTypes DEF AInv
<1>2. currPixFmt[p] /\ Drained
  BY DEF CreateContext, Uses
<1>3. /\ queue' = <<>> /\ CallsStayHome'
      /\ mglContext => ArraysDrained \in {Nobody, p} \cup abandoned
      /\ ctx0 \in {Nobody, p}
      /\ \A q \in Procs : currDC[q] => q = p
      /\ \A q \in Procs : currGLRC[q] => q = p
      /\ \A q \in Procs : currDC[q] => currPixFmt[q]
      /\ \A q \in Procs : currGLRC[q] => currDC[q]
      /\ currDC[p] => mglContext /\ ctx0 = p
      /\ currGLRC[p] => mglContext /\ mglCntxCurrent
  BY <1>2, Prologue
<1>4. /\ UNCHANGED <<state, page, currPixFmt, sentinel, refcnt, uncounted, abandoned>>
      /\ \A q \in Procs : currDC'[q] => currPixFmt[q]
      /\ \A q \in Procs : currGLRC'[q] => currDC'[q]
  BY <1>2, <1>3 DEF AInv, TypeOK, CreateContext
<1>5. /\ ctx0' \in {Nobody, p}
      /\ currDC'[p] => mglContext' /\ ctx0' = p
      /\ currGLRC'[p] => mglCntxCurrent'
      /\ mglContext' => arrays' \in {Nobody, p} \cup abandoned
  BY <1>2, <1>3 DEF AInv, TypeOK, CreateContext
<1> QED
  BY <1>1, <1>2, <1>3, <1>4, <1>5, Serves

\* A context with attributes is made for the process, and resets the client state.
LEMMA CreateAttribsStep ==
  ASSUME Orderly, AInv, NEW p \in Procs, CreateAttribs(p)
  PROVE  AInv'
<1>1. TypeOK'
  BY CreateAttribsTypes DEF AInv
<1>2. currPixFmt[p] /\ Drained
  BY DEF CreateAttribs, Uses
<1>3. /\ queue' = <<>> /\ CallsStayHome'
      /\ mglContext => ArraysDrained \in {Nobody, p} \cup abandoned
      /\ ctx0 \in {Nobody, p}
      /\ \A q \in Procs : currDC[q] => q = p
      /\ \A q \in Procs : currGLRC[q] => q = p
      /\ \A q \in Procs : currDC[q] => currPixFmt[q]
      /\ \A q \in Procs : currGLRC[q] => currDC[q]
      /\ currDC[p] => mglContext /\ ctx0 = p
      /\ currGLRC[p] => mglContext /\ mglCntxCurrent
  BY <1>2, Prologue
<1>4. /\ UNCHANGED <<state, page, currPixFmt, sentinel, refcnt, uncounted, abandoned>>
      /\ \A q \in Procs : currDC'[q] => currPixFmt[q]
      /\ \A q \in Procs : currGLRC'[q] => currDC'[q]
  BY <1>2, <1>3 DEF AInv, TypeOK, CreateAttribs
<1>5. /\ ctx0' \in {Nobody, p}
      /\ currDC'[p] => mglContext' /\ ctx0' = p
      /\ currGLRC'[p] => mglCntxCurrent'
      /\ mglContext' => arrays' \in {Nobody, p} \cup abandoned
  BY <1>2, <1>3 DEF AInv, TypeOK, CreateAttribs
<1> QED
  BY <1>1, <1>2, <1>3, <1>4, <1>5, Serves

\* The context is current for the device, too.
LEMMA MakeCurrentStep ==
  ASSUME Orderly, AInv, NEW p \in Procs, MakeCurrent(p)
  PROVE  AInv'
<1>1. TypeOK'
  BY MakeCurrentTypes DEF AInv
<1>2. currPixFmt[p] /\ Drained
  BY DEF MakeCurrent, Uses
<1>3. /\ queue' = <<>> /\ CallsStayHome'
      /\ mglContext => ArraysDrained \in {Nobody, p} \cup abandoned
      /\ ctx0 \in {Nobody, p}
      /\ \A q \in Procs : currDC[q] => q = p
      /\ \A q \in Procs : currGLRC[q] => q = p
      /\ \A q \in Procs : currDC[q] => currPixFmt[q]
      /\ \A q \in Procs : currGLRC[q] => currDC[q]
      /\ currDC[p] => mglContext /\ ctx0 = p
      /\ currGLRC[p] => mglContext /\ mglCntxCurrent
  BY <1>2, Prologue
<1>4. /\ UNCHANGED <<state, page, currPixFmt, sentinel, refcnt, uncounted, abandoned>>
      /\ \A q \in Procs : currDC'[q] => currPixFmt[q]
      /\ \A q \in Procs : currGLRC'[q] => currDC'[q]
  BY <1>2, <1>3 DEF AInv, TypeOK, MakeCurrent
<1>5. /\ ctx0' \in {Nobody, p}
      /\ currDC'[p] => mglContext' /\ ctx0' = p
      /\ currGLRC'[p] => mglCntxCurrent'
      /\ mglContext' => arrays' \in {Nobody, p} \cup abandoned
  BY <1>2, <1>3 DEF AInv, TypeOK, MakeCurrent
<1> QED
  BY <1>1, <1>2, <1>3, <1>4, <1>5, Serves

\* The device is not told.
LEMMA MakeNoneCurrentStep ==
  ASSUME Orderly, AInv, NEW p \in Procs, MakeNoneCurrent(p)
  PROVE  AInv'
<1>1. TypeOK'
  BY MakeNoneCurrentTypes DEF AInv
<1>2. currPixFmt[p] /\ Drained
  BY DEF MakeNoneCurrent, Uses
<1>3. /\ queue' = <<>> /\ CallsStayHome'
      /\ mglContext => ArraysDrained \in {Nobody, p} \cup abandoned
      /\ ctx0 \in {Nobody, p}
      /\ \A q \in Procs : currDC[q] => q = p
      /\ \A q \in Procs : currGLRC[q] => q = p
      /\ \A q \in Procs : currDC[q] => currPixFmt[q]
      /\ \A q \in Procs : currGLRC[q] => currDC[q]
      /\ currDC[p] => mglContext /\ ctx0 = p
      /\ currGLRC[p] => mglContext /\ mglCntxCurrent
  BY <1>2, Prologue
<1>4. /\ UNCHANGED <<state, page, currPixFmt, sentinel, refcnt, uncounted, abandoned>>
      /\ \A q \in Procs : currDC'[q] => currPixFmt[q]
      /\ \A q \in Procs : currGLRC'[q] => currDC'[q]
  BY <1>2, <1>3 DEF AInv, TypeOK, MakeNoneCurrent
<1>5. /\ ctx0' \in {Nobody, p}
      /\ currDC'[p] => mglContext' /\ ctx0' = p
      /\ currGLRC'[p] => mglCntxCurrent'
      /\ mglContext' => arrays' \in {Nobody, p} \cup abandoned
  BY <1>2, <1>3 DEF AInv, TypeOK, MakeNoneCurrent
<1> QED
  BY <1>1, <1>2, <1>3, <1>4, <1>5, Serves

\* The device forgets a context that was current for it.
LEMMA DeleteContextStep ==
  ASSUME Orderly, AInv, NEW p \in Procs, DeleteContext(p)
  PROVE  AInv'
<1>1. TypeOK'
  BY DeleteContextTypes DEF AInv
<1>2. currPixFmt[p] /\ Drained
  BY DEF DeleteContext, Uses
<1>3. /\ queue' = <<>> /\ CallsStayHome'
      /\ mglContext => ArraysDrained \in {Nobody, p} \cup abandoned
      /\ ctx0 \in {Nobody, p}
      /\ \A q \in Procs : currDC[q] => q = p
      /\ \A q \in Procs : currGLRC[q] => q = p
      /\ \A q \in Procs : currDC[q] => currPixFmt[q]
      /\ \A q \in Procs : currGLRC[q] => currDC[q]
      /\ currDC[p] => mglContext /\ ctx0 = p
      /\ currGLRC[p] => mglContext /\ mglCntxCurrent
  BY <1>2, Prologue
<1>4. /\ UNCHANGED <<state, page, currPixFmt, sentinel, refcnt, uncounted, abandoned>>
      /\ \A q \in Procs : currDC'[q] => currPixFmt[q]
      /\ \A q \in Procs : currGLRC'[q] => currDC'[q]
  BY <1>2, <1>3 DEF AInv, TypeOK, DeleteContext
<1>5. /\ ctx0' \in {Nobody, p}
      /\ currDC'[p] => mglContext' /\ ctx0' = p
      /\ currGLRC'[p] => mglCntxCurrent'
      /\ mglContext' => arrays' \in {Nobody, p} \cup abandoned
  BY <1>2, <1>3 DEF AInv, TypeOK, DeleteContext, RegisterDelete, Ready
<1> QED
  BY <1>1, <1>2, <1>3, <1>4, <1>5, Serves

\* A buffer swap changes no context.
LEMMA SwapBuffersStep ==
  ASSUME Orderly, AInv, NEW p \in Procs, SwapBuffers(p)
  PROVE  AInv'
<1>1. TypeOK'
  BY SwapBuffersTypes DEF AInv
<1>2. currPixFmt[p] /\ Drained
  BY DEF SwapBuffers, Uses
<1>3. /\ queue' = <<>> /\ CallsStayHome'
      /\ mglContext => ArraysDrained \in {Nobody, p} \cup abandoned
      /\ ctx0 \in {Nobody, p}
      /\ \A q \in Procs : currDC[q] => q = p
      /\ \A q \in Procs : currGLRC[q] => q = p
      /\ \A q \in Procs : currDC[q] => currPixFmt[q]
      /\ \A q \in Procs : currGLRC[q] => currDC[q]
      /\ currDC[p] => mglContext /\ ctx0 = p
      /\ currGLRC[p] => mglContext /\ mglCntxCurrent
  BY <1>2, Prologue
<1>4. /\ UNCHANGED <<state, page, currPixFmt, sentinel, refcnt, uncounted, abandoned>>
      /\ \A q \in Procs : currDC'[q] => currPixFmt[q]
      /\ \A q \in Procs : currGLRC'[q] => currDC'[q]
  BY <1>2, <1>3 DEF AInv, TypeOK, SwapBuffers
<1>5. /\ ctx0' \in {Nobody, p}
      /\ currDC'[p] => mglContext' /\ ctx0' = p
      /\ currGLRC'[p] => mglCntxCurrent'
      /\ mglContext' => arrays' \in {Nobody, p} \cup abandoned
  BY <1>2, <1>3 DEF AInv, TypeOK, SwapBuffers
<1> QED
  BY <1>1, <1>2, <1>3, <1>4, <1>5, Serves

\* A message to the window changes no context.
LEMMA WmActivateStep ==
  ASSUME Orderly, AInv, NEW p \in Procs, NEW i \in BOOLEAN, WmActivate(p, i)
  PROVE  AInv'
<1>1. TypeOK'
  BY WmActivateTypes DEF AInv
<1>2. currPixFmt[p] /\ Drained
  BY DEF WmActivate, Uses
<1>3. /\ queue' = <<>> /\ CallsStayHome'
      /\ mglContext => ArraysDrained \in {Nobody, p} \cup abandoned
      /\ ctx0 \in {Nobody, p}
      /\ \A q \in Procs : currDC[q] => currPixFmt[q]
      /\ \A q \in Procs : currGLRC[q] => currDC[q]
      /\ currDC[p] => mglContext /\ ctx0 = p
      /\ currGLRC[p] => mglContext /\ mglCntxCurrent
  BY <1>2, Prologue
<1> QED
  BY <1>1, <1>2, <1>3, Serves DEF WmActivate

\* A call is queued for the context that is current.
LEMMA CallStep ==
  ASSUME Orderly, AInv, NEW p \in Procs, Call(p)
  PROVE  AInv'
<1>1. TypeOK'
  BY CallTypes DEF AInv
<1>2. /\ currPixFmt[p] /\ currGLRC[p] /\ queue' = Append(queue, p) /\ queue \in Seq(Procs)
      /\ UNCHANGED <<guest, sentinel, refcnt, device, ctx0, screen, history>>
  BY DEF AInv, TypeOK, Call, Uses
<1>3. Ready /\ ctx0 = p /\ p \in Callers
  BY <1>2 DEF AInv, UserInv, ContextInv, Callers
<1>4. CountInv' /\ PageInv'
  BY <1>2, SameProcesses
<1>5. QueueInv'
  <2>1. \A k \in DOMAIN queue : queue[k] = p
    BY <1>2, <1>3, Owner DEF AInv, QueueInv
  <2>2. \A k \in DOMAIN queue' : queue'[k] = p
    BY <1>2, <2>1
  <2> QED
    BY <1>2, <1>3, <2>2 DEF QueueInv, Ready, Callers
<1> QED
  BY <1>1, <1>2, <1>4, <1>5 DEF AInv, UnloadedInv, UserInv, ContextInv, ShapeInv, Callers, Ready,
     CallsStayHome

\* A call that is executed at once is executed behind those that are queued.
LEMMA TrapStep ==
  ASSUME Orderly, AInv, NEW p \in Procs, Trap(p)
  PROVE  AInv'
<1>1. TypeOK'
  BY TrapTypes DEF AInv
<1>2. /\ currPixFmt[p] /\ currGLRC[p] /\ currDC[p] /\ queue \in Seq(Procs)
      /\ UNCHANGED <<guest, sentinel, refcnt, mglContext, mglCntxCurrent, ctx0, paused, abandoned, uncounted>>
  BY DEF AInv, TypeOK, UserInv, Trap, Uses
<1>3. Ready /\ ctx0 = p /\ mglContext /\ mglCntxCurrent
  BY <1>2 DEF AInv, ContextInv, Ready
<1>4. Executes(Append(queue, p)) /\ queue' = <<>> /\ arrays' = p
  BY <1>3 DEF Trap
<1>5. sentinel # NoPage /\ arrays \in {Nobody, p} \cup abandoned
  BY <1>2, <1>3, Owner
<1>6. CallsStayHome'
  <2>1. \A k \in DOMAIN queue : queue[k] = ctx0
    BY <1>5 DEF AInv, QueueInv
  <2>2. Append(queue, p) \in Seq(Procs) /\ \A k \in DOMAIN Append(queue, p) : Append(queue, p)[k] = ctx0
    BY <1>2, <1>3, <2>1
  <2> QED
    BY <1>3, <1>4, <1>5, <2>2, ExecutesAtHome DEF AInv
<1>7. /\ \A q \in Procs : currDC[q] => currPixFmt[q]
      /\ \A q \in Procs : currGLRC[q] => currDC[q]
  BY DEF AInv, UserInv
<1> QED
  BY <1>1, <1>2, <1>3, <1>4, <1>6, <1>7, Serves

-----------------------------------------------------------------------------
(* Time, and the whole.                                                    *)

\* No timer touches a context or a call.
LEMMA TimeStep ==
  ASSUME AInv, Silence \/ DispTimer \/ Oneshot \/ UNCHANGED vars
  PROVE  AInv'
<1>1. TypeOK'
  <2>1. CASE Silence \/ DispTimer \/ Oneshot
    BY <2>1, SilenceTypes, DispTimerTypes, OneshotTypes DEF AInv
  <2>2. CASE UNCHANGED vars
    BY <2>2 DEF AInv, TypeOK
  <2> QED
    BY <2>1, <2>2
<1>2. /\ UNCHANGED <<guest, shared, mglContext, mglCntxCurrent, arrays, ctx0, history>>
      /\ paused' => paused
  BY DEF AInv, TypeOK, Silence, DispTimer, Oneshot, Activates
<1>3. CountInv' /\ PageInv'
  BY <1>2, SameProcesses
<1> QED
  BY <1>1, <1>2, <1>3 DEF AInv, UnloadedInv, UserInv, ContextInv, QueueInv, ShapeInv, Callers,
     Ready, CallsStayHome

\* No step breaks a type.
LEMMA TypesStep == TypeOK /\ [Next]_vars => TypeOK'
<1> SUFFICES ASSUME TypeOK, [Next]_vars PROVE TypeOK'
  OBVIOUS
<1>1. ASSUME NEW p \in Procs, NEW pg \in Pages, Attach(p, pg) PROVE TypeOK'
  BY <1>1, AttachTypes
<1>2. ASSUME NEW p \in Procs,
             \/ Detach(p) \/ Die(p) \/ SetPixelFormat(p)
             \/ CreateContext(p) \/ CreateAttribs(p) \/ MakeCurrent(p) \/ MakeNoneCurrent(p)
             \/ DeleteContext(p) \/ Call(p) \/ Trap(p) \/ SwapBuffers(p)
      PROVE  TypeOK'
  BY <1>2, DetachTypes, DieTypes, SetPixelFormatTypes, CreateContextTypes, CreateAttribsTypes,
     MakeCurrentTypes, MakeNoneCurrentTypes, DeleteContextTypes, CallTypes, TrapTypes,
     SwapBuffersTypes
<1>3. ASSUME NEW p \in Procs, NEW i \in BOOLEAN, WmActivate(p, i) PROVE TypeOK'
  BY <1>3, WmActivateTypes
<1>4. CASE Silence \/ DispTimer \/ Oneshot
  BY <1>4, SilenceTypes, DispTimerTypes, OneshotTypes
<1>5. CASE UNCHANGED vars
  BY <1>5 DEF TypeOK
<1> QED
  BY <1>1, <1>2, <1>3, <1>4, <1>5 DEF Next

\* No step breaks the invariant.
LEMMA NextStep == Orderly /\ AInv /\ [Next]_vars => AInv'
<1> SUFFICES ASSUME Orderly, AInv, [Next]_vars PROVE AInv'
  OBVIOUS
<1>1. ASSUME NEW p \in Procs, NEW pg \in Pages, Attach(p, pg) PROVE AInv'
  BY <1>1, AttachStep
<1>2. ASSUME NEW p \in Procs,
             \/ Detach(p) \/ Die(p) \/ SetPixelFormat(p)
             \/ CreateContext(p) \/ CreateAttribs(p) \/ MakeCurrent(p) \/ MakeNoneCurrent(p)
             \/ DeleteContext(p) \/ Call(p) \/ Trap(p) \/ SwapBuffers(p)
      PROVE  AInv'
  BY <1>2, DetachStep, DieStep, SetPixelFormatStep, CreateContextStep, CreateAttribsStep,
     MakeCurrentStep, MakeNoneCurrentStep, DeleteContextStep, CallStep, TrapStep, SwapBuffersStep
<1>3. ASSUME NEW p \in Procs, NEW i \in BOOLEAN, WmActivate(p, i) PROVE AInv'
  BY <1>3, WmActivateStep
<1>4. CASE Silence \/ DispTimer \/ Oneshot \/ UNCHANGED vars
  BY <1>4, TimeStep
<1> QED
  BY <1>1, <1>2, <1>3, <1>4 DEF Next

\* It holds before the first process.
LEMMA InitAInv == Init => AInv
<1> SUFFICES ASSUME Init PROVE AInv
  OBVIOUS
<1>1. TypeOK
  <2>1. GuestTypes
    BY DEF Init, GuestTypes, None
  <2>2. SharedTypes
    BY EmptyQueue DEF Init, SharedTypes
  <2>3. Flags
    BY DEF Init, Flags
  <2>4. Rest
    BY ConstantsAssumption DEF Init, Rest
  <2> QED
    BY <2>1, <2>2, <2>3, <2>4, TypesAreTypeOK
<1>2. In = {}
  BY DEF Init, In
<1>3. \A p \in Procs : ~currPixFmt[p] /\ ~currDC[p] /\ ~currGLRC[p]
  BY DEF Init, None
<1> QED
  BY <1>1, <1>2, <1>3 DEF Init, AInv, CountInv, UnloadedInv, UserInv, PageInv, ContextInv, QueueInv,
     ShapeInv, CallsStayHome

HIDE DEF vars, guest, shared, device, screen, history

\* Whatever the processes do, and however many: refcnt stays a byte, the queue within
\* its bound and the rest within its type.
THEOREM TypeCorrect == Spec => []TypeOK
<1>1. Init => TypeOK
  BY InitAInv DEF AInv
<1> QED
  BY <1>1, TypesStep, PTL DEF Spec

\* With processes that keep the rules, the invariant holds.
THEOREM Inductive == ASSUME Orderly PROVE Spec => []AInv
<1>1. AInv /\ [Next]_vars => AInv'
  BY NextStep
<1> QED
  BY <1>1, InitAInv, PTL DEF Spec

\* When the last process went, and each death was made good by the recovery in
\* wglSetPixelFormat, DllMain's reference count has unloaded everything.
THEOREM LastOneUnloads == ASSUME Orderly PROVE Spec => []LastUnloads
<1>1. AInv => LastUnloads
  <2> SUFFICES ASSUME AInv, In = {}, uncounted = 0
               PROVE  sentinel = NoPage /\ refcnt = 0 /\ ~mglContext /\ ctx0 = Nobody /\ ~paused
    BY DEF LastUnloads
  <2>1. Cardinality(In) = 0
    BY FS_EmptySet
  <2> QED
    BY <2>1 DEF AInv, CountInv, UnloadedInv
<1> QED
  BY <1>1, Inductive, PTL

\* A process with a current context reaches the device's registers at its own mapping of
\* them, whatever processes attached, detached or died before.
THEOREM RegistersReached == ASSUME Orderly PROVE Spec => []TrapsReach
<1>1. AInv => TrapsReach
  BY DEF AInv, UserInv, PageInv, TrapsReach, In
<1> QED
  BY <1>1, Inductive, PTL

\* No call runs in the context of another process, nor on client state of one that ended
\* its context, for any interleaving of queued and trapping calls.
THEOREM CallsRunAtHome == ASSUME Orderly PROVE Spec => []CallsStayHome
<1>1. AInv => CallsStayHome
  BY DEF AInv
<1> QED
  BY <1>1, Inductive, PTL
=============================================================================
