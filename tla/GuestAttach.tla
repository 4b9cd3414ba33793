---------------------------- MODULE GuestAttach ----------------------------
(***************************************************************************)
(* Processes of the guest that load the OpenGL wrapper one after another,  *)
(* and may die: DllMain of wrapgl32.c with its sentinel and reference      *)
(* count in the shared memory, the device's registers as far as they tell  *)
(* the processes apart, the recovery in the register of wglSetPixelFormat, *)
(* and the timers that give the screen back when a program falls silent.   *)
(*                                                                         *)
(* A process that ends runs DLL_PROCESS_DETACH; one that dies does not,    *)
(* and what it left in the shared memory and in the device is what the     *)
(* next one finds.  Contexts that share and pixel buffers are not here     *)
(* (GLContexts); the window is reduced to whether the GUI is paused for it *)
(* (RenderWindow).  The display timer is configured (DispTimerMS > 0).     *)
(***************************************************************************)
EXTENDS Integers, Sequences

CONSTANTS
  MaxProcs,  \* bound on the processes, which are numbered as they attach
  Pages,     \* addresses at which a process may map the page of registers
  Orderly,   \* TRUE: processes keep the rules MayAttach and MayFormat
  MaxQueue,  \* calls the FIFO holds
  MaxStray   \* bound on the timers that are lost at one time

Procs == 1 .. MaxProcs
Nobody == 0
NoPage == "none"     \* mfifo[1] = 0

ASSUME ConstantsAssumption ==
  MaxProcs \in Nat /\ NoPage \notin Pages /\ Orderly \in BOOLEAN /\ MaxQueue \in Nat /\ MaxStray \in Nat

VARIABLES
  \* the processes
  state,      \* "new", "in", "gone" or "dead"
  page,       \* where the registers are mapped
  hooked,     \* its window messages go through CallWndProc
  currPixFmt, currDC, currGLRC,   \* # 0
  \* the shared memory
  sentinel,   \* mfifo[1]: the address of the register that executes calls
  refcnt,     \* mdata[1]
  queue,      \* the processes that made the queued calls
  \* the device
  mglContext, mglCntxCurrent,
  recent,     \* at most MESAGL_CRASH_RC ms since crashRC
  dispTimer,  \* "none", "idle" or "armed"
  stray,      \* armed timers that dispTimer pointed to once
  arrays,     \* whose calls made the client state, the table of buffers and the sync objects
  \* the host
  ctx0,       \* the process that ctx[0] was created for
  last,       \* MGLActivateHandler's last
  ts,         \* its timer: "none", "deactivate" or "refresh"
  paused,     \* the GUI is paused (render_pause)
  \* what happened
  strayed,    \* a call was executed in the context of another process
  foreign,    \* a call found client state of another process, which had ended its context
  abandoned,  \* the processes that left their context to the device
  uncounted   \* deaths that refcnt still counts

guest == <<state, page, hooked, currPixFmt, currDC, currGLRC>>
shared == <<sentinel, refcnt, queue>>
device == <<mglContext, mglCntxCurrent, recent, dispTimer, stray, arrays>>
screen == <<last, ts, paused>>
history == <<strayed, foreign, abandoned, uncounted>>
vars == <<guest, shared, device, ctx0, screen, history>>

None == [p \in Procs |-> FALSE]

Init ==
  /\ state = [p \in Procs |-> "new"] /\ page = [p \in Procs |-> NoPage]
  /\ hooked = None /\ currPixFmt = None /\ currDC = None /\ currGLRC = None
  /\ sentinel = NoPage /\ refcnt = 0 /\ queue = <<>>
  /\ mglContext = FALSE /\ mglCntxCurrent = FALSE
  /\ recent = FALSE /\ dispTimer = "none" /\ stray = 0 /\ arrays = Nobody
  /\ ctx0 = Nobody /\ last = FALSE /\ ts = "none" /\ paused = FALSE
  /\ strayed = FALSE /\ foreign = FALSE /\ abandoned = {} /\ uncounted = 0

In == {p \in Procs : state[p] = "in"}

-----------------------------------------------------------------------------
(* The device and the host.  Each operator names the variables it gives.   *)

Ready == mglContext /\ mglCntxCurrent

\* Mutation: the deferred deactivation is not scheduled.
DeferredLost(i, d) ==
  IF i = last THEN UNCHANGED screen
  ELSE /\ last' = i
       /\ ts' = (IF i THEN "refresh" ELSE "none")
       /\ paused' = (IF i THEN TRUE ELSE IF d THEN paused ELSE FALSE)

\* MGLActivateHandler(i, d), with both timers in ts: last, ts, paused.
Activates(i, d) ==
  IF i = last THEN UNCHANGED screen
  ELSE /\ last' = i
       /\ ts' = (IF i THEN "refresh" ELSE IF d THEN "deactivate" ELSE "none")
       /\ paused' = (IF i THEN TRUE ELSE IF d THEN paused ELSE FALSE)

\* dispTimerSched: recent, dispTimer.
Sched == recent' = TRUE /\ dispTimer' = (IF dispTimer = "none" THEN "none" ELSE "armed")

\* The library executes `calls` in the context it has: strayed, foreign.
Executes(calls) ==
  LET shapedBy(k) == IF k = 1 THEN arrays ELSE calls[k - 1]
  IN  /\ strayed' = (strayed \/ \E k \in DOMAIN calls : calls[k] # ctx0)
      /\ foreign' = (foreign \/ \E k \in DOMAIN calls :
                                 shapedBy(k) \notin {Nobody, calls[k]} \cup abandoned)

\* Mutation: the queue waits for the next call that is not queued.
NotDrained == UNCHANGED <<queue, strayed, foreign>>

\* The prologue of a register write: queue, strayed, foreign.
Drained ==
  IF Ready THEN queue' = <<>> /\ Executes(queue) ELSE UNCHANGED <<queue, strayed, foreign>>

\* Whose client state there is after it.
ArraysDrained == IF Ready /\ queue # <<>> THEN queue[Len(queue)] ELSE arrays

\* Register 0xFF4 of MESAGL_MAGIC: mglContext, mglCntxCurrent, dispTimer, screen.
\* Destroying ctx[0] is left to the next pixel format.
RegisterDelete ==
  /\ Activates(FALSE, FALSE)
  /\ mglContext' = (mglContext /\ ~Ready) /\ mglCntxCurrent' = (mglCntxCurrent /\ ~Ready)
  /\ dispTimer' = (IF Ready THEN "none" ELSE dispTimer)

-----------------------------------------------------------------------------
(* DllMain.                                                                *)

\* Processes that are there at the same time map the registers at one address, and are
\* not more than a byte counts, those that died and were not made good included.
MayAttach(pg) == Orderly => (\A q \in In : page[q] = pg) /\ refcnt < 255

\* InitMesaPTMMBase takes any sentinel for that of a process that is there.
Attach(p, pg) ==
  /\ state[p] = "new" /\ (\A q \in 1 .. p - 1 : state[q] # "new") /\ MayAttach(pg)
  /\ state' = [state EXCEPT ![p] = "in"] /\ page' = [page EXCEPT ![p] = pg]
  /\ IF sentinel # NoPage
     THEN refcnt' = (refcnt + 1) % 256 /\ UNCHANGED <<sentinel, queue, hooked>>
     ELSE refcnt' = 1 /\ sentinel' = pg /\ queue' = <<>> /\ hooked' = [hooked EXCEPT ![p] = TRUE]
  /\ UNCHANGED <<currPixFmt, currDC, currGLRC, device, ctx0, screen, history>>

\* Mutation: the context is deleted when it is current only.
UnloadsCurrent(p) ==
  /\ IF currGLRC[p] THEN Drained /\ RegisterDelete /\ arrays' = ArraysDrained
     ELSE UNCHANGED <<queue, strayed, foreign, screen, mglContext, mglCntxCurrent, dispTimer, arrays>>
  /\ sentinel' = NoPage /\ ctx0' = Nobody

\* The last process ends what is current (when the device has it), the device what
\* there is of contexts and the window: 0xD0320.
Unloads(p) ==
  /\ IF currGLRC[p] THEN Drained /\ arrays' = ArraysDrained ELSE UNCHANGED <<queue, strayed, foreign, arrays>>
  /\ dispTimer' = (IF currGLRC[p] /\ Ready THEN "none" ELSE dispTimer)
  /\ mglContext' = FALSE
  /\ mglCntxCurrent' = (mglCntxCurrent /\ ~(currGLRC[p] /\ mglContext))
  /\ last' = (last /\ ~(currGLRC[p] \/ mglContext))
  /\ ts' = (IF last' # last THEN "none" ELSE ts)
  /\ paused' = FALSE
  /\ sentinel' = NoPage /\ ctx0' = Nobody

\* The memory of process p is no more.
Goes(p, how) ==
  /\ state[p] = "in"
  /\ state' = [state EXCEPT ![p] = how] /\ page' = [page EXCEPT ![p] = NoPage]
  /\ hooked' = [hooked EXCEPT ![p] = FALSE] /\ currPixFmt' = [currPixFmt EXCEPT ![p] = FALSE]
  /\ currDC' = [currDC EXCEPT ![p] = FALSE] /\ currGLRC' = [currGLRC EXCEPT ![p] = FALSE]

Detach(p) ==
  /\ Goes(p, "gone")
  /\ refcnt' = (refcnt - 1) % 256
  /\ IF refcnt' = 0 THEN Unloads(p) /\ UNCHANGED abandoned
     ELSE /\ abandoned' = (IF mglContext THEN abandoned \cup {p} ELSE abandoned)
          /\ UNCHANGED <<sentinel, queue, mglContext, mglCntxCurrent, dispTimer, arrays, ctx0,
                         screen, strayed, foreign>>
  /\ UNCHANGED <<recent, stray, uncounted>>

Die(p) ==
  /\ Goes(p, "dead")
  /\ abandoned' = abandoned \cup {p} /\ uncounted' = uncounted + 1
  /\ UNCHANGED <<shared, device, ctx0, screen, strayed, foreign>>

-----------------------------------------------------------------------------
(* The entry points.                                                       *)

\* Mutation: the address of the dead process stays.
CountRecovered(p) ==
  IF recent \/ refcnt <= 1 THEN UNCHANGED <<sentinel, refcnt, uncounted>>
  ELSE /\ refcnt' = refcnt - 1
       /\ uncounted' = (IF uncounted > 0 THEN uncounted - 1 ELSE uncounted)
       /\ UNCHANGED sentinel

\* Mutation: the count is taken down whoever is alone.
AlwaysRecovered(p) ==
  IF recent THEN UNCHANGED <<sentinel, refcnt, uncounted>>
  ELSE /\ sentinel' = page[p] /\ refcnt' = refcnt - 1
       /\ uncounted' = (IF uncounted > 0 THEN uncounted - 1 ELSE uncounted)

\* The end of register 0xFE4: after a silence, what points to another process is set
\* right.
Recovered(p) ==
  IF recent THEN UNCHANGED <<sentinel, refcnt, uncounted>>
  ELSE /\ sentinel' = page[p]
       /\ refcnt' = (IF refcnt > 1 THEN refcnt - 1 ELSE refcnt)
       /\ uncounted' = (IF refcnt > 1 /\ uncounted > 0 THEN uncounted - 1 ELSE uncounted)

\* One process uses OpenGL at a time.  After a death the next one comes when the device
\* was silent long enough, and is alone; without one, a process that is not alone comes
\* while the device is not silent, which would be taken for a death.  A context that is
\* not current would be lost.
MayFormat(p) ==
  Orderly => /\ currDC[p] => currGLRC[p]
             /\ \A q \in In \ {p} : ~currPixFmt[q]
             /\ IF uncounted > 0 THEN ~recent /\ In = {p} ELSE recent \/ In = {p}

\* wglSetPixelFormat, which ends what is current first; TmpContextPurge destroys ctx[0].
SetPixelFormat(p) ==
  /\ state[p] = "in" /\ sentinel # NoPage /\ MayFormat(p)
  /\ Drained /\ arrays' = ArraysDrained
  /\ IF currGLRC[p]
     THEN RegisterDelete /\ currDC' = [currDC EXCEPT ![p] = FALSE]
     ELSE UNCHANGED <<mglContext, mglCntxCurrent, dispTimer, screen, currDC>>
  /\ currGLRC' = [currGLRC EXCEPT ![p] = FALSE]
  /\ currPixFmt' = [currPixFmt EXCEPT ![p] = TRUE]
  /\ ctx0' = Nobody
  /\ Recovered(p)
  /\ UNCHANGED <<state, page, hooked, recent, stray, abandoned>>

Uses(p) == state[p] = "in" /\ currPixFmt[p]

\* wglCreateContext: the device resets the client state unless it has a context still.
CreateContext(p) ==
  /\ Uses(p) /\ ~currGLRC[p]
  /\ Drained
  /\ arrays' = (IF mglContext THEN ArraysDrained ELSE Nobody)
  /\ mglContext' = TRUE
  /\ ctx0' = (IF ctx0 = Nobody THEN p ELSE ctx0)
  /\ currDC' = [currDC EXCEPT ![p] = TRUE]
  /\ UNCHANGED <<state, page, hooked, currPixFmt, currGLRC, sentinel, refcnt, mglCntxCurrent, recent,
                 dispTimer, stray, screen, abandoned, uncounted>>

\* wglCreateContextAttribsARB with attributes of its own, usually called with a first
\* context current.
CreateAttribs(p) ==
  /\ Uses(p) /\ currDC[p]
  /\ Drained
  /\ arrays' = Nobody
  /\ Activates(FALSE, FALSE)
  /\ mglContext' = TRUE /\ mglCntxCurrent' = FALSE
  /\ ctx0' = p
  /\ currGLRC' = [currGLRC EXCEPT ![p] = FALSE]
  /\ UNCHANGED <<state, page, hooked, currPixFmt, currDC, sentinel, refcnt, recent, dispTimer, stray,
                 abandoned, uncounted>>

\* wglMakeCurrent of the context: the first time, the device allocates its timer.
MakeCurrent(p) ==
  /\ Uses(p) /\ currDC[p]
  /\ Drained /\ arrays' = ArraysDrained
  /\ Activates(TRUE, FALSE)
  /\ IF mglContext /\ ~mglCntxCurrent
     THEN /\ mglCntxCurrent' = TRUE /\ recent' = TRUE /\ dispTimer' = "armed"
          /\ stray' = (IF dispTimer = "armed" THEN stray + 1 ELSE stray) /\ stray' <= MaxStray
     ELSE Sched /\ UNCHANGED <<mglCntxCurrent, stray>>
  /\ currGLRC' = [currGLRC EXCEPT ![p] = TRUE]
  /\ UNCHANGED <<state, page, hooked, currPixFmt, currDC, sentinel, refcnt, mglContext, ctx0,
                 abandoned, uncounted>>

MakeNoneCurrent(p) ==
  /\ Uses(p) /\ currDC[p]
  /\ Drained /\ arrays' = ArraysDrained
  /\ currGLRC' = [currGLRC EXCEPT ![p] = FALSE]
  /\ UNCHANGED <<state, page, hooked, currPixFmt, currDC, sentinel, refcnt, mglContext, mglCntxCurrent,
                 recent, dispTimer, stray, ctx0, screen, abandoned, uncounted>>

DeleteContext(p) ==
  /\ Uses(p) /\ currDC[p] /\ ~currGLRC[p]
  /\ Drained /\ arrays' = ArraysDrained
  /\ RegisterDelete
  /\ currDC' = [currDC EXCEPT ![p] = FALSE]
  /\ UNCHANGED <<state, page, hooked, currPixFmt, currGLRC, sentinel, refcnt, recent, stray, ctx0,
                 abandoned, uncounted>>

\* A call that is queued.
Call(p) ==
  /\ Uses(p) /\ currGLRC[p] /\ Len(queue) < MaxQueue
  /\ queue' = Append(queue, p)
  /\ UNCHANGED <<guest, sentinel, refcnt, device, ctx0, screen, history>>

\* A call that is stored to the address in the sentinel, and is one of the device's
\* registers only if that is the caller's own.
Trap(p) ==
  /\ Uses(p) /\ currGLRC[p] /\ sentinel = page[p]
  /\ IF Ready THEN /\ Executes(Append(queue, p)) /\ queue' = <<>> /\ arrays' = p
     ELSE UNCHANGED <<strayed, foreign, queue, arrays>>
  /\ UNCHANGED <<guest, sentinel, refcnt, mglContext, mglCntxCurrent, recent, dispTimer, stray, ctx0,
                 screen, abandoned, uncounted>>

\* wglSwapBuffers
SwapBuffers(p) ==
  /\ Uses(p) /\ currGLRC[p]
  /\ Drained /\ arrays' = ArraysDrained
  /\ Activates(TRUE, FALSE) /\ Sched
  /\ UNCHANGED <<guest, sentinel, refcnt, mglContext, mglCntxCurrent, stray, ctx0, abandoned, uncounted>>

\* WM_ACTIVATE of the window.
WmActivate(p, i) ==
  /\ Uses(p) /\ hooked[p]
  /\ Drained /\ arrays' = ArraysDrained
  /\ IF Ready THEN Activates(i, FALSE) ELSE UNCHANGED screen
  /\ IF Ready /\ i THEN Sched ELSE UNCHANGED <<recent, dispTimer>>
  /\ UNCHANGED <<guest, sentinel, refcnt, mglContext, mglCntxCurrent, stray, ctx0, abandoned, uncounted>>

-----------------------------------------------------------------------------
(* Time.                                                                   *)

\* MESAGL_CRASH_RC ms pass.
Silence == recent /\ recent' = FALSE /\ UNCHANGED <<guest, shared, mglContext, mglCntxCurrent, dispTimer,
                                                   stray, arrays, ctx0, screen, history>>

\* dispTimerProc, of the timer the device knows or of one that it lost.
DispTimer ==
  /\ \/ dispTimer = "armed" /\ dispTimer' = "idle" /\ UNCHANGED stray
     \/ stray > 0 /\ stray' = stray - 1 /\ UNCHANGED dispTimer
  /\ Activates(FALSE, TRUE)
  /\ UNCHANGED <<guest, shared, mglContext, mglCntxCurrent, recent, arrays, ctx0, history>>

\* deactivateOneshot or deactivateGuiRefOneshot.
Oneshot ==
  /\ ts # "none" /\ ts' = "none"
  /\ paused' = (paused /\ ts # "deactivate")
  /\ UNCHANGED <<guest, shared, device, ctx0, last, history>>

Next ==
  \/ \E p \in Procs, pg \in Pages : Attach(p, pg)
  \/ \E p \in Procs :
       \/ Detach(p) \/ Die(p) \/ SetPixelFormat(p)
       \/ CreateContext(p) \/ CreateAttribs(p) \/ MakeCurrent(p) \/ MakeNoneCurrent(p)
       \/ DeleteContext(p) \/ Call(p) \/ Trap(p) \/ SwapBuffers(p)
       \/ \E i \in BOOLEAN : WmActivate(p, i)
  \/ Silence \/ DispTimer \/ Oneshot

\* QEMU runs timers that are due; the display timer of a process that is at work is
\* put off time and again, so it is only forced when there is none.
Fairness == WF_vars(In = {} /\ DispTimer) /\ WF_vars(In = {} /\ Oneshot)

Spec == Init /\ [][Next]_vars /\ Fairness

-----------------------------------------------------------------------------
(* Properties.                                                             *)

\* The variables have the types of the C declarations; refcnt is a byte.
TypeOK ==
  /\ state \in [Procs -> {"new", "in", "gone", "dead"}] /\ page \in [Procs -> Pages \cup {NoPage}]
  /\ {hooked, currPixFmt, currDC, currGLRC} \subseteq [Procs -> BOOLEAN]
  /\ sentinel \in Pages \cup {NoPage} /\ refcnt \in 0 .. 255
  /\ queue \in Seq(Procs) /\ Len(queue) <= MaxQueue
  /\ {mglContext, mglCntxCurrent, recent, last, paused, strayed, foreign} \subseteq BOOLEAN
  /\ dispTimer \in {"none", "idle", "armed"} /\ stray \in 0 .. MaxStray
  /\ {arrays, ctx0} \subseteq Procs \cup {Nobody}
  /\ ts \in {"none", "deactivate", "refresh"}
  /\ abandoned \subseteq Procs /\ uncounted \in Nat

\* When all are gone and the deaths are made good, the device has no context, no
\* window, and takes the next process for the first.
LastUnloads ==
  (In = {} /\ uncounted = 0) =>
    sentinel = NoPage /\ refcnt = 0 /\ ~mglContext /\ ctx0 = Nobody /\ ~paused

\* A process with a current context stores its calls to its own mapping of the
\* registers, whoever was there, or died, before it.
TrapsReach == \A p \in In : currGLRC[p] => sentinel = page[p]

\* A call is executed in the context of the process that made it, and never on client
\* state of another one that ended its context.
CallsStayHome == ~strayed /\ ~foreign

\* A program that dies gives the screen back: the GUI does not stay paused.
ScreenReturned == (In = {} /\ paused) ~> (~paused \/ In # {})
=============================================================================
