---------------------------- MODULE RenderWindow ----------------------------
(***************************************************************************)
(* The window that QEMU's SDL display lends to the devices (ui/sdl2.c of   *)
(* the patch), and how a Glide program (glidewnd.c, cwnd_glide2x) and an   *)
(* OpenGL program (mglcntx_linux.c) get it and give it back.               *)
(*                                                                         *)
(* A device asks for the window in a register handler: that only sets      *)
(* fields of scon_cb and the one timer of it.  The main loop runs the      *)
(* timer later, and sched_wndproc finds out from the fields what was asked *)
(* for.  Meanwhile the program polls register 0xFB8.  Handlers and timers  *)
(* each run to their end under QEMU's lock; between them anything may.     *)
(*                                                                         *)
(* A Glide program may open its window on that of an OpenGL program.  An   *)
(* OpenGL program may die while it draws; its window stays for the next.   *)
(***************************************************************************)
EXTENDS Integers

CONSTANTS
  Sizes,    \* resolutions of grSstWinOpen
  Orderly,  \* TRUE: programs keep the rules of MayOpen, MayControl, MayChoose, MayLeave and MayDie
  MaxOpens  \* bound on the windows of a behaviour

GuiSize == "gui"    \* the size of the guest's display
None == "none"      \* res = 0, gui_saved_res = 0, no callback
Stat == "stat"      \* res = -1

ASSUME ConstantsAssumption ==
  Sizes \cap {GuiSize, None, Stat} = {} /\ Orderly \in BOOLEAN /\ MaxOpens \in Nat

VARIABLES
  \* the display
  scon,         \* scon_cb: ts, armed (timer pending), res, gui_saved_res, render_pause,
                \* glide_on_mesa, opaque (a Glide device), cwnd_fn, winctx
  size,         \* size of the SDL window
  hint,         \* SDL_HINT_RENDER_DRIVER is "opengl"
  passthrough,  \* ui_info.passthrough: the guest's display is not drawn
  \* the devices
  activate,     \* disp_cb.activate
  hwnd,         \* glidewnd.c's hwnd # 0
  FEnum,        \* disp_cb.FEnum: "open", "close" or "none"
  xvi,          \* the pixel format of the window is preset
  wnd_ready,
  last,         \* MGLActivateHandler's last
  ts,           \* and its timer: "none", or it waits to "deactivate" or to "refresh"
  \* the libraries
  opened,       \* windows that the library opened and did not close
  glideAlive,   \* the window Glide opened is still the SDL window
  mesaAlive,    \* and the one that MESAGL uses (win)
  lost,         \* a GL context of the window was dropped without being deleted
  \* the programs
  glide,        \* "out", "in", "opening", "open", "closing"
  mesa,         \* "out", "choosing", "drawing"
  wanted,       \* the size the Glide program asked for
  opens

display == <<scon, size, hint, passthrough>>
glideDev == <<activate, hwnd, FEnum>>
mesaDev == <<xvi, wnd_ready, last, ts>>
libraries == <<opened, glideAlive, mesaAlive, lost>>
programs == <<glide, mesa, wanted, opens>>
vars == <<display, glideDev, mesaDev, libraries, programs>>

Init ==
  /\ scon = [ts |-> FALSE, armed |-> FALSE, res |-> None, gui_saved_res |-> None,
             render_pause |-> FALSE, glide_on_mesa |-> FALSE, opaque |-> FALSE,
             cwnd_fn |-> None, winctx |-> FALSE]
  /\ size = GuiSize /\ hint = FALSE /\ passthrough = FALSE
  /\ activate = FALSE /\ hwnd = FALSE /\ FEnum = None
  /\ xvi = FALSE /\ wnd_ready = FALSE /\ last = FALSE /\ ts = "none"
  /\ opened = 0 /\ glideAlive = FALSE /\ mesaAlive = FALSE /\ lost = FALSE
  /\ glide = "out" /\ mesa = "out" /\ wanted = None /\ opens = 0

-----------------------------------------------------------------------------
(* ui/sdl2.c: what the devices call.  Each operator is the next scon_cb.   *)

Scheduled(s) == [s EXCEPT !.ts = TRUE, !.armed = TRUE]
IfTimer(s) == [s EXCEPT !.armed = @ \/ s.ts]

sdl_renderer_stat(s, i) ==
  IF s.render_pause = i THEN s ELSE [Scheduled(s) EXCEPT !.res = Stat, !.render_pause = i]

mesa_renderer_stat(s, i) ==
  LET t == sdl_renderer_stat(s, i)
  IN  IF t.glide_on_mesa /\ ~i THEN sdl_renderer_stat(t, TRUE) ELSE t

\* Variant: a window that is lent already keeps its callback.
KeepsCallback(s, res) ==
  IF s.render_pause
  THEN [s EXCEPT !.opaque = TRUE, !.glide_on_mesa = TRUE, !.gui_saved_res = None]
  ELSE [Scheduled(s) EXCEPT !.opaque = TRUE, !.cwnd_fn = "glide", !.gui_saved_res = size,
                            !.res = res]

\* Variant: a window that is lent already is prepared again.
PreparedAgain(s, res) ==
  [Scheduled(s) EXCEPT !.opaque = TRUE, !.cwnd_fn = "glide", !.gui_saved_res = size, !.res = res]

glide_prepare_window(s, res) ==
  LET t == [s EXCEPT !.opaque = TRUE, !.cwnd_fn = "glide"]
  IN  IF s.render_pause
      THEN [t EXCEPT !.glide_on_mesa = TRUE, !.gui_saved_res = None]
      ELSE [Scheduled(t) EXCEPT !.gui_saved_res = size, !.res = res]

\* Variant: the old size is not asked for.
KeepsRes(s) ==
  LET t == [s EXCEPT !.opaque = TRUE, !.cwnd_fn = "glide"]
  IN  IF s.gui_saved_res = None THEN t ELSE [IfTimer(t) EXCEPT !.gui_saved_res = None]

glide_release_window(s) ==
  LET t == [s EXCEPT !.opaque = TRUE, !.cwnd_fn = "glide"]
  IN  IF s.gui_saved_res = None THEN t
      ELSE [IfTimer(t) EXCEPT !.res = s.gui_saved_res, !.gui_saved_res = None]

mesa_prepare_window(s) ==
  [Scheduled(s) EXCEPT !.opaque = FALSE, !.cwnd_fn = "mesa", !.gui_saved_res = size, !.res = None]

mesa_release_window(s) ==
  [IfTimer(s) EXCEPT !.opaque = FALSE, !.cwnd_fn = None, !.gui_saved_res = None, !.res = None]

-----------------------------------------------------------------------------
(* The main loop.                                                          *)

\* Variant: whatever res says.
AlwaysResized(old) == scon.res

Resized(old) == IF scon.res \in Sizes \cup {GuiSize} THEN scon.res ELSE old

\* The end of sched_wndproc; for a window of an OpenGL program it is left to refresh.
Passed(s) == IF s.opaque \/ ~s.render_pause THEN s.render_pause ELSE passthrough

\* wndproc_fxui_stat; resizing comes after a change of res only, and res = -1.
Paused ==
  /\ scon.res = Stat
  /\ scon' = [scon EXCEPT !.armed = FALSE]
  /\ UNCHANGED <<size, hint, glideDev, mesaDev, libraries, programs>>

\* wndproc_fxui_prepare; the first one makes a new SDL window.
Prepared ==
  /\ scon.res # Stat /\ scon.gui_saved_res # None
  /\ scon' = [scon EXCEPT !.armed = FALSE, !.render_pause = TRUE, !.winctx = TRUE]
  /\ lost' = (lost \/ scon.winctx)
  /\ hint' = TRUE
  /\ size' = Resized(IF hint THEN size ELSE GuiSize)
  /\ glideAlive' = (glideAlive /\ hint)
  /\ IF scon.opaque \/ scon.cwnd_fn # "mesa"
     THEN mesaAlive' = (mesaAlive /\ hint) /\ UNCHANGED wnd_ready
     ELSE mesaAlive' = TRUE /\ wnd_ready' = TRUE        \* cwnd_mesagl
  /\ UNCHANGED <<glideDev, xvi, last, ts, opened, programs>>

\* wndproc_fxui_release
Released ==
  /\ scon.res # Stat /\ scon.gui_saved_res = None
  /\ scon' = [scon EXCEPT !.armed = FALSE, !.ts = FALSE, !.render_pause = FALSE, !.winctx = FALSE]
  /\ hint' = FALSE
  /\ size' = Resized(GuiSize)
  /\ glideAlive' = FALSE /\ mesaAlive' = FALSE
  /\ UNCHANGED <<glideDev, mesaDev, opened, lost, programs>>

sched_wndproc == scon.armed /\ (Paused \/ Prepared \/ Released) /\ passthrough' = Passed(scon')

\* deactivateOneshot, run by its timer.
DeactivateDeferred ==
  /\ ts = "deactivate" /\ ts' = "none"
  /\ scon' = mesa_renderer_stat(scon, FALSE)
  /\ UNCHANGED <<size, hint, passthrough, glideDev, xvi, wnd_ready, last, libraries, programs>>

\* deactivateGuiRefOneshot
RefreshGui ==
  /\ ts = "refresh" /\ ts' = "none"
  /\ passthrough' = TRUE
  /\ UNCHANGED <<scon, size, hint, glideDev, xvi, wnd_ready, last, libraries, programs>>

-----------------------------------------------------------------------------
(* The Glide program and its device.                                       *)

\* Variant: it never closes.
NeverCloses ==
  /\ opened' = (IF FEnum = "open" THEN opened + 1 ELSE opened)
  /\ glideAlive' = (glideAlive \/ FEnum = "open")

\* cwnd_glide2x: the library opens or closes its window, as FEnum says.
cwnd_glide2x ==
  /\ opened' = (CASE FEnum = "open" -> opened + 1 [] FEnum = "close" -> 0 [] OTHER -> opened)
  /\ glideAlive' = (CASE FEnum = "open" -> TRUE [] FEnum = "close" -> FALSE [] OTHER -> glideAlive)

\* Variant: only the context counts.
ContextOpen(s) == s.winctx

\* What glide_window_stat(0) returns.
StillOpen(s) == s.glide_on_mesa # s.winctx

\* The main loop has been through.
Settled == ~scon.armed /\ ts = "none"

\* On the window of an OpenGL program, that program is drawing in it; not after one
\* that died.
MayOpen ==
  Orderly => /\ Settled
             /\ IF mesa = "out" THEN ~xvi ELSE mesa = "drawing" /\ last /\ scon.render_pause

\* Not in the moment after an OpenGL program took the window.
MayControl == Orderly => ts # "refresh"

GlideAttach ==
  /\ glide = "out"
  /\ glide' = "in"
  /\ UNCHANGED <<display, glideDev, mesaDev, libraries, mesa, wanted, opens>>

\* Register 0xFBC, after grGlideShutdown closed the window.
GlideDetach ==
  /\ glide = "in"
  /\ glide' = "out"
  /\ FEnum' = None /\ activate' = FALSE
  /\ scon' = (IF hwnd THEN glide_release_window(scon) ELSE scon)
  /\ hwnd' = FALSE /\ opened' = 0
  /\ UNCHANGED <<size, hint, passthrough, mesaDev, glideAlive, mesaAlive, lost, mesa, wanted, opens>>

\* grSstWinOpen, its register write.
GlideOpen(res) ==
  /\ glide = "in" /\ MayOpen /\ opens < MaxOpens
  /\ glide' = "opening"
  /\ wanted' = res /\ opens' = opens + 1
  /\ activate' = TRUE /\ hwnd' = TRUE /\ FEnum' = "open"
  /\ scon' = glide_prepare_window(scon, res)
  /\ UNCHANGED <<size, hint, passthrough, mesaDev, libraries, mesa>>

\* The same for a resolution that the device refuses.
GlideOpenRefused ==
  /\ glide = "in"
  /\ FEnum' = "open"
  /\ UNCHANGED <<display, activate, hwnd, mesaDev, libraries, programs>>

\* stat_window of an open window: glide_window_stat opens the library's once there is
\* a context, and the program goes on.
GlidePollOpen ==
  /\ glide = "opening" /\ scon.winctx
  /\ IF scon.cwnd_fn = "glide" THEN cwnd_glide2x ELSE UNCHANGED <<opened, glideAlive>>
  /\ glide' = "open"
  /\ UNCHANGED <<display, glideDev, mesaDev, mesaAlive, lost, mesa, wanted, opens>>

\* grSstWinClose, its register write.
GlideClose ==
  /\ glide = "open"
  /\ glide' = "closing"
  /\ activate' = FALSE /\ hwnd' = FALSE /\ FEnum' = "close"
  /\ scon' = (IF hwnd THEN glide_release_window(scon) ELSE scon)
  /\ UNCHANGED <<size, hint, passthrough, mesaDev, libraries, mesa, wanted, opens>>

\* stat_window of a closed one: the library closes at each poll.
GlidePollClose ==
  /\ glide = "closing"
  /\ cwnd_glide2x
  /\ glide' = (IF StillOpen(scon) THEN "closing" ELSE "in")
  /\ scon' = [scon EXCEPT !.glide_on_mesa = FALSE]
  /\ UNCHANGED <<size, hint, passthrough, glideDev, mesaDev, mesaAlive, lost, mesa, wanted, opens>>

\* grSstControl
GlideControl(i) ==
  /\ glide = "open" /\ activate /\ MayControl
  /\ scon' = sdl_renderer_stat(scon, i)
  /\ UNCHANGED <<size, hint, passthrough, glideDev, mesaDev, libraries, programs>>

-----------------------------------------------------------------------------
(* The OpenGL program and its device.                                      *)

\* Not while a Glide program has the window.
MayChoose == Orderly => glide \in {"out", "in"} /\ Settled
MayLeave == Orderly => glide \in {"out", "in"} /\ ts # "deactivate"
MayDie == Orderly => glide \in {"out", "in"} /\ last

\* Variant: wnd_ready is not reset.
ReadyStays ==
  /\ mesa = "out" /\ MayChoose /\ opens < MaxOpens
  /\ mesa' = "choosing" /\ opens' = opens + 1 /\ xvi' = TRUE
  /\ scon' = (IF xvi THEN scon ELSE mesa_prepare_window(scon))
  /\ UNCHANGED <<size, hint, passthrough, last, ts, wnd_ready, glideDev, libraries, glide, wanted>>

\* wglChoosePixelFormat, its register write: MGLPresetPixelFormat.
Choose ==
  /\ mesa = "out" /\ MayChoose /\ opens < MaxOpens
  /\ mesa' = "choosing" /\ opens' = opens + 1
  /\ IF xvi THEN UNCHANGED <<scon, wnd_ready>>
     ELSE scon' = mesa_prepare_window(scon) /\ wnd_ready' = FALSE
  /\ xvi' = TRUE
  /\ UNCHANGED <<size, hint, passthrough, last, ts, glideDev, libraries, glide, wanted>>

\* It polls for wnd_ready.
PollReady ==
  /\ mesa = "choosing" /\ wnd_ready
  /\ mesa' = "drawing"
  /\ UNCHANGED <<display, glideDev, mesaDev, libraries, glide, wanted, opens>>

\* MGLActivateHandler(1, 0): the context is made current, or buffers are swapped.
Activate ==
  /\ mesa = "drawing"
  /\ last' = TRUE
  /\ IF last THEN UNCHANGED <<scon, ts>>
     ELSE scon' = mesa_renderer_stat(scon, TRUE) /\ ts' = "refresh"
  /\ UNCHANGED <<size, hint, passthrough, glideDev, xvi, wnd_ready, libraries, programs>>

\* Variant: the refresh of the display is not cancelled.
RefreshStays ==
  /\ mesa = "drawing" /\ last
  /\ last' = FALSE /\ UNCHANGED ts
  /\ scon' = mesa_renderer_stat(scon, FALSE)
  /\ UNCHANGED <<size, hint, passthrough, glideDev, xvi, wnd_ready, libraries, programs>>

\* MGLActivateHandler(0, 0): WM_ACTIVATE.
Deactivate ==
  /\ mesa = "drawing" /\ last
  /\ last' = FALSE /\ ts' = "none"
  /\ scon' = mesa_renderer_stat(scon, FALSE)
  /\ UNCHANGED <<size, hint, passthrough, glideDev, xvi, wnd_ready, libraries, programs>>

\* MGLActivateHandler(0, 1): dispTimerProc, of a program that is there or died.
DispTimer ==
  /\ last
  /\ last' = FALSE /\ ts' = "deactivate"
  /\ UNCHANGED <<display, glideDev, xvi, wnd_ready, libraries, programs>>

\* DllMain's detach: MGLDeleteContext(0) and MGLWndRelease.
Leave ==
  /\ mesa = "drawing" /\ MayLeave
  /\ mesa' = "out"
  /\ last' = FALSE
  /\ ts' = (IF last THEN "none" ELSE ts)
  /\ scon' = mesa_release_window(IF last THEN mesa_renderer_stat(scon, FALSE) ELSE scon)
  /\ xvi' = FALSE /\ mesaAlive' = FALSE
  /\ UNCHANGED <<size, hint, passthrough, wnd_ready, glideDev, opened, glideAlive, lost, glide,
                 wanted, opens>>

\* It ends without DLL_PROCESS_DETACH.
Die ==
  /\ mesa = "drawing" /\ MayDie
  /\ mesa' = "out"
  /\ UNCHANGED <<display, glideDev, mesaDev, libraries, glide, wanted, opens>>

Glide ==
  \/ GlideAttach \/ GlideDetach
  \/ \E res \in Sizes : GlideOpen(res)
  \/ GlideOpenRefused \/ GlidePollOpen \/ GlideClose \/ GlidePollClose
  \/ \E i \in BOOLEAN : GlideControl(i)

Mesa == Choose \/ PollReady \/ Activate \/ Deactivate \/ DispTimer \/ Leave \/ Die

Next == sched_wndproc \/ DeactivateDeferred \/ RefreshGui \/ Glide \/ Mesa

\* The main loop runs the timers that are due, and a program that polls goes on
\* polling.  The display timer of a program that draws is put off by every frame.
Fairness ==
  /\ WF_vars(sched_wndproc) /\ WF_vars(DeactivateDeferred) /\ WF_vars(RefreshGui)
  /\ WF_vars(mesa = "out" /\ DispTimer)
  /\ WF_vars(GlidePollOpen) /\ WF_vars(GlidePollClose) /\ WF_vars(PollReady)

Spec == Init /\ [][Next]_vars /\ Fairness

-----------------------------------------------------------------------------
(* Properties.                                                             *)

\* The variables have the types of the C declarations.
TypeOK ==
  /\ scon \in [ts : BOOLEAN, armed : BOOLEAN, res : Sizes \cup {GuiSize, None, Stat},
               gui_saved_res : Sizes \cup {GuiSize, None}, render_pause : BOOLEAN,
               glide_on_mesa : BOOLEAN, opaque : BOOLEAN, cwnd_fn : {"glide", "mesa", None},
               winctx : BOOLEAN]
  /\ size \in Sizes \cup {GuiSize}
  /\ {hint, passthrough, activate, hwnd, xvi, wnd_ready, last, glideAlive, mesaAlive, lost}
       \subseteq BOOLEAN
  /\ ts \in {"none", "deactivate", "refresh"}
  /\ FEnum \in {None, "open", "close"}
  /\ opened \in Nat /\ opens \in 0 .. MaxOpens
  /\ glide \in {"out", "in", "opening", "open", "closing"}
  /\ mesa \in {"out", "choosing", "drawing"}

\* glide_window_stat and wndproc_fxui_prepare never call a callback that was
\* released: the pointer they go through is that of the program that waits.
OwnCallback ==
  /\ glide \in {"opening", "closing"} => scon.cwnd_fn = "glide"
  /\ (scon.armed /\ scon.res # Stat /\ scon.gui_saved_res # None) => scon.cwnd_fn # None

\* A Glide program whose grSstWinOpen returned has a window: the library opened it
\* once, on the window that SDL still has, at the size the program asked for
\* unless it is the window of an OpenGL program.
GlideHasWindow ==
  glide = "open" =>
    /\ opened = 1 /\ glideAlive /\ scon.winctx
    /\ ~scon.glide_on_mesa => size = wanted

\* An OpenGL program that draws has the window it was told of.
MesaHasWindow == mesa = "drawing" => mesaAlive /\ scon.winctx

\* No GL context of the window is dropped undeleted.
NoneLost == ~lost

\* grSstWinOpen, grSstWinClose and wglChoosePixelFormat return.
CallsReturn ==
  /\ glide = "opening" ~> glide # "opening"
  /\ glide = "closing" ~> glide # "closing"
  /\ mesa = "choosing" ~> mesa # "choosing"

\* Once the timers have run, the guest's display is drawn if and only if no program
\* shows its own frames; a window that was made and not drawn in yet is in between.
GuiShown ==
  Settled => (passthrough = scon.render_pause \/ (scon.render_pause /\ ~last /\ ~scon.opaque))

\* When nobody has the window, QEMU gets it back as it was; when its last program
\* died, at least the guest's display is drawn again.
Idle == glide \in {"out", "in"} /\ mesa = "out"
Restored == ~scon.render_pause /\ ~passthrough /\ (xvi \/ (~scon.winctx /\ size = GuiSize /\ ~hint))
GuiRestored == Idle ~> (~Idle \/ Restored)
=============================================================================
