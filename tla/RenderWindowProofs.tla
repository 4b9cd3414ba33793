------------------------ MODULE RenderWindowProofs ------------------------
(***************************************************************************)
(* Proofs about RenderWindow, for any set of resolutions and any number of *)
(* windows.  Types hold whatever the programs do; the rest for programs    *)
(* that keep the rules (Orderly).                                          *)
(*                                                                         *)
(* scon_cb has no field that says whose the window is: it follows from the *)
(* combination of res, gui_saved_res, render_pause, glide_on_mesa, ts and  *)
(* winctx.  The invariant names the combinations that occur, as phases of  *)
(* a window that is asked for, lent and given back.                        *)
(***************************************************************************)
EXTENDS RenderWindow, TLAPS

-----------------------------------------------------------------------------
(* The inductive invariant: in whose hands the window is, and how far.      *)

Scon ==
  [ts : BOOLEAN, armed : BOOLEAN, res : Sizes \cup {GuiSize, None, Stat},
   gui_saved_res : Sizes \cup {GuiSize, None}, render_pause : BOOLEAN,
   glide_on_mesa : BOOLEAN, opaque : BOOLEAN, cwnd_fn : {"glide", "mesa", None},
   winctx : BOOLEAN]

\* TypeOK in three parts.
Flags ==
  {hint, passthrough, activate, hwnd, xvi, wnd_ready, last, glideAlive, mesaAlive, lost} \subseteq BOOLEAN
Names ==
  /\ size \in Sizes \cup {GuiSize}
  /\ ts \in {"none", "deactivate", "refresh"}
  /\ FEnum \in {None, "open", "close"}
  /\ opened \in Nat /\ opens \in 0 .. MaxOpens
  /\ glide \in {"out", "in", "opening", "open", "closing"}
  /\ mesa \in {"out", "choosing", "drawing"}
Typed == scon \in Scon /\ Flags /\ Names

\* A Glide program has asked for the window and not given it back to the end.
GlideUses == glide \in {"opening", "open", "closing"}

\* The window is QEMU's own, and no timer of the display is on its way.
OwnWindow ==
  /\ ~scon.ts /\ ~scon.armed /\ ~scon.winctx /\ ~scon.render_pause /\ ~scon.glide_on_mesa
  /\ scon.gui_saved_res = None

\* A request waits for the timer, which will make the window: res is its resolution.
Asked(res) ==
  /\ scon.ts /\ scon.armed /\ ~scon.winctx /\ ~scon.render_pause /\ ~scon.glide_on_mesa
  /\ scon.gui_saved_res = GuiSize /\ scon.res = res

\* The window is lent: what may still come of the timer is a pause of the display.
Lent == scon.ts /\ scon.winctx /\ (scon.armed => scon.res = Stat)

\* The window was given back: the timer will release it.
GivenBack ==
  /\ scon.ts /\ scon.armed /\ scon.winctx /\ ~scon.glide_on_mesa
  /\ scon.gui_saved_res = None /\ scon.res \in {None, GuiSize}

\* The callback is the one of cwnd_glide2x, and the window that of a Glide program.
OfGlide == scon.opaque /\ scon.cwnd_fn = "glide"

\* No OpenGL program has the window, or had it when it died.
GlideOnly ==
  /\ mesa = "out" /\ ~last /\ ts = "none"
  /\ \/ ~GlideUses /\ (OwnWindow \/ GivenBack)
     \/ glide = "opening" /\ OfGlide /\ wanted \in Sizes /\ Asked(wanted)
     \/ /\ glide \in {"opening", "open"} /\ OfGlide /\ Lent /\ ~scon.glide_on_mesa
        /\ scon.gui_saved_res = GuiSize /\ size = wanted
     \/ glide = "closing" /\ OfGlide /\ (OwnWindow \/ GivenBack)

\* An OpenGL program has it, or died with it; a Glide program may have drawn in it.
MesaToo ==
  \/ /\ mesa = "choosing" /\ ~last /\ ts = "none" /\ ~wnd_ready /\ ~GlideUses
     /\ Asked(None) /\ scon.cwnd_fn = "mesa" /\ ~scon.opaque
  \/ /\ Lent /\ mesaAlive /\ wnd_ready
     /\ \/ scon.gui_saved_res = GuiSize /\ scon.cwnd_fn = "mesa" /\ ~scon.opaque /\ ~GlideUses
        \/ scon.gui_saved_res = None /\ OfGlide
     /\ GlideUses => mesa = "drawing"
     /\ scon.glide_on_mesa <=> GlideUses

Hands == IF xvi THEN MesaToo ELSE GlideOnly

\* The SDL window has a context of a program exactly while the hint stands, and QEMU's
\* own window has the size of the guest's display.
WindowInv ==
  /\ hint = scon.winctx /\ ~lost
  /\ (~scon.winctx \/ xvi) => size = GuiSize

\* What the Glide device and its library keep of the program.
GlideInv ==
  /\ hwnd <=> glide \in {"opening", "open"}
  /\ glide \in {"opening", "open"} => FEnum = "open"
  /\ glide = "closing" => FEnum = "close"
  /\ glide \in {"out", "in", "opening"} => opened = 0
  /\ glide = "open" => opened = 1 /\ glideAlive

\* Who shows the frames when no timer is on its way.
ShownInv ==
  /\ ts = "refresh" => last /\ scon.render_pause
  /\ ts = "deactivate" => ~last
  /\ scon.opaque => (scon.armed \/ passthrough = scon.render_pause)
  /\ ~scon.opaque =>
       /\ last => scon.render_pause /\ (ts = "none" => passthrough)
       /\ scon.armed \/ scon.render_pause \/ ~passthrough

Placed == Hands /\ WindowInv /\ GlideInv /\ ShownInv

RInv == Typed /\ Placed

-----------------------------------------------------------------------------
(* The operators on scon_cb.                                               *)

\* What neither of the two pauses touches.
SameWindow(s, t) ==
  /\ t.winctx = s.winctx /\ t.gui_saved_res = s.gui_saved_res
  /\ t.glide_on_mesa = s.glide_on_mesa /\ t.opaque = s.opaque /\ t.cwnd_fn = s.cwnd_fn

\* A pause is what it was, or the timer is armed for it.
LEMMA SdlStat ==
  ASSUME NEW s \in Scon, NEW i \in BOOLEAN, NEW t, t = sdl_renderer_stat(s, i)
  PROVE  /\ t \in Scon /\ t.render_pause = i /\ SameWindow(s, t)
         /\ t = s \/ (t.res = Stat /\ t.armed /\ t.ts)
<1>1. CASE s.render_pause = i
  BY <1>1 DEF sdl_renderer_stat, SameWindow
<1>2. CASE s.render_pause # i
  BY <1>2 DEF sdl_renderer_stat, Scheduled, SameWindow, Scon
<1> QED
  BY <1>1, <1>2

\* On the window of a Glide program, the display stays paused.
LEMMA MesaStat ==
  ASSUME NEW s \in Scon, NEW i \in BOOLEAN, NEW t, t = mesa_renderer_stat(s, i)
  PROVE  /\ t \in Scon /\ t.render_pause = (i \/ s.glide_on_mesa) /\ SameWindow(s, t)
         /\ t = s \/ (t.res = Stat /\ t.armed /\ t.ts)
<1> DEFINE u == sdl_renderer_stat(s, i)
<1>1. /\ u \in Scon /\ u.render_pause = i /\ SameWindow(s, u)
      /\ u = s \/ (u.res = Stat /\ u.armed /\ u.ts)
  BY SdlStat
<1>2. t = IF u.glide_on_mesa /\ ~i THEN sdl_renderer_stat(u, TRUE) ELSE u
  BY DEF mesa_renderer_stat
<1> HIDE DEF u
<1>3. CASE u.glide_on_mesa /\ ~i
  <2>1. t = sdl_renderer_stat(u, TRUE)
    BY <1>2, <1>3
  <2>2. /\ t \in Scon /\ t.render_pause = TRUE /\ SameWindow(u, t)
        /\ t = u \/ (t.res = Stat /\ t.armed /\ t.ts)
    BY <1>1, <2>1, SdlStat
  <2> QED
    BY <1>1, <1>3, <2>2 DEF SameWindow
<1>4. CASE ~(u.glide_on_mesa /\ ~i)
  BY <1>1, <1>2, <1>4 DEF SameWindow
<1> QED
  BY <1>3, <1>4

\* The tuples of variables are always expanded.
USE DEF vars, display, glideDev, mesaDev, libraries, programs

LEMMA TypedIsTypeOK == Typed <=> TypeOK
  BY DEF Typed, TypeOK, Scon, Flags, Names

\* Each step keeps the types; of scon_cb, by what the operators make of it.
LEMMA TypedStep == ASSUME Typed, [Next]_vars PROVE Typed'
<1>1. CASE scon.armed /\ Paused /\ passthrough' = Passed(scon')
  <2>1. scon' \in Scon
    BY <1>1 DEF Typed, Scon, Names, Paused, Passed
  <2>2. Flags'
    BY <1>1 DEF Typed, Scon, Flags, Paused, Passed
  <2>3. Names'
    BY <1>1 DEF Typed, Scon, Names, Paused, Passed
  <2> QED
    BY <2>1, <2>2, <2>3 DEF Typed
<1>2. CASE scon.armed /\ Prepared /\ passthrough' = Passed(scon')
  <2>1. scon' \in Scon
    BY <1>2 DEF Typed, Scon, Names, Prepared, Passed, Resized
  <2>2. Flags'
    BY <1>2 DEF Typed, Scon, Flags, Prepared, Passed, Resized
  <2>3. Names'
    BY <1>2 DEF Typed, Scon, Names, Prepared, Passed, Resized
  <2> QED
    BY <2>1, <2>2, <2>3 DEF Typed
<1>3. CASE scon.armed /\ Released /\ passthrough' = Passed(scon')
  <2>1. scon' \in Scon
    BY <1>3 DEF Typed, Scon, Names, Released, Passed, Resized
  <2>2. Flags'
    BY <1>3 DEF Typed, Scon, Flags, Released, Passed, Resized
  <2>3. Names'
    BY <1>3 DEF Typed, Scon, Names, Released, Passed, Resized
  <2> QED
    BY <2>1, <2>2, <2>3 DEF Typed
<1>4. CASE DeactivateDeferred
  <2>1. scon' \in Scon
    BY <1>4, MesaStat DEF Typed, DeactivateDeferred
  <2>2. Flags'
    BY <1>4 DEF Typed, Scon, Flags, DeactivateDeferred
  <2>3. Names'
    BY <1>4 DEF Typed, Scon, Names, DeactivateDeferred
  <2> QED
    BY <2>1, <2>2, <2>3 DEF Typed
<1>5. CASE RefreshGui
  <2>1. scon' \in Scon
    BY <1>5 DEF Typed, Scon, Names, RefreshGui
  <2>2. Flags'
    BY <1>5 DEF Typed, Scon, Flags, RefreshGui
  <2>3. Names'
    BY <1>5 DEF Typed, Scon, Names, RefreshGui
  <2> QED
    BY <2>1, <2>2, <2>3 DEF Typed
<1>6. CASE GlideAttach
  <2>1. scon' \in Scon
    BY <1>6 DEF Typed, Scon, Names, GlideAttach
  <2>2. Flags'
    BY <1>6 DEF Typed, Scon, Flags, GlideAttach
  <2>3. Names'
    BY <1>6 DEF Typed, Scon, Names, GlideAttach
  <2> QED
    BY <2>1, <2>2, <2>3 DEF Typed
<1>7. CASE GlideDetach
  <2>1. scon' \in Scon
    BY <1>7 DEF Typed, Scon, Names, GlideDetach, glide_release_window, IfTimer
  <2>2. Flags'
    BY <1>7 DEF Typed, Scon, Flags, GlideDetach, glide_release_window, IfTimer
  <2>3. Names'
    BY <1>7 DEF Typed, Scon, Names, GlideDetach, glide_release_window, IfTimer
  <2> QED
    BY <2>1, <2>2, <2>3 DEF Typed
<1>8. ASSUME NEW res \in Sizes, GlideOpen(res) PROVE Typed'
  <2>1. scon' \in Scon
    BY <1>8 DEF Typed, Scon, Names, GlideOpen, glide_prepare_window, Scheduled
  <2>2. Flags'
    BY <1>8 DEF Typed, Scon, Flags, GlideOpen, glide_prepare_window, Scheduled
  <2>3. Names'
    BY <1>8, ConstantsAssumption DEF Typed, Scon, Names, GlideOpen, glide_prepare_window, Scheduled
  <2> QED
    BY <2>1, <2>2, <2>3 DEF Typed
<1>9. CASE GlideOpenRefused
  <2>1. scon' \in Scon
    BY <1>9 DEF Typed, Scon, Names, GlideOpenRefused
  <2>2. Flags'
    BY <1>9 DEF Typed, Scon, Flags, GlideOpenRefused
  <2>3. Names'
    BY <1>9 DEF Typed, Scon, Names, GlideOpenRefused
  <2> QED
    BY <2>1, <2>2, <2>3 DEF Typed
<1>10. CASE GlidePollOpen
  <2>1. scon' \in Scon
    BY <1>10 DEF Typed, Scon, Names, GlidePollOpen, cwnd_glide2x
  <2>2. Flags'
    BY <1>10 DEF Typed, Scon, Flags, GlidePollOpen, cwnd_glide2x
  <2>3. opened' \in Nat
    <3>1. CASE scon.cwnd_fn = "glide"
      <4>1. opened' = CASE FEnum = "open" -> opened + 1 [] FEnum = "close" -> 0 [] OTHER -> opened
        BY <1>10, <3>1 DEF GlidePollOpen, cwnd_glide2x
      <4>2. CASE FEnum = "open"
        BY <4>1, <4>2 DEF Typed, Names
      <4>3. CASE FEnum # "open"
        BY <4>1, <4>3 DEF Typed, Names
      <4> QED
        BY <4>2, <4>3
    <3>2. CASE scon.cwnd_fn # "glide"
      BY <1>10, <3>2 DEF Typed, Names, GlidePollOpen
    <3> QED
      BY <3>1, <3>2
  <2>4. Names'
    BY <1>10, <2>3 DEF Typed, Names, GlidePollOpen
  <2> QED
    BY <2>1, <2>2, <2>4 DEF Typed
<1>11. CASE GlideClose
  <2>1. scon' \in Scon
    BY <1>11 DEF Typed, Scon, Names, GlideClose, glide_release_window, IfTimer
  <2>2. Flags'
    BY <1>11 DEF Typed, Scon, Flags, GlideClose, glide_release_window, IfTimer
  <2>3. Names'
    BY <1>11 DEF Typed, Scon, Names, GlideClose, glide_release_window, IfTimer
  <2> QED
    BY <2>1, <2>2, <2>3 DEF Typed
<1>12. CASE GlidePollClose
  <2>1. scon' \in Scon
    BY <1>12 DEF Typed, Scon, Names, GlidePollClose, cwnd_glide2x
  <2>2. Flags'
    BY <1>12 DEF Typed, Scon, Flags, GlidePollClose, cwnd_glide2x
  <2>3. Names'
    BY <1>12 DEF Typed, Scon, Names, GlidePollClose, cwnd_glide2x
  <2> QED
    BY <2>1, <2>2, <2>3 DEF Typed
<1>13. ASSUME NEW i \in BOOLEAN, GlideControl(i) PROVE Typed'
  <2>1. scon' \in Scon
    BY <1>13, SdlStat DEF Typed, GlideControl
  <2>2. Flags'
    BY <1>13 DEF Typed, Scon, Flags, GlideControl
  <2>3. Names'
    BY <1>13 DEF Typed, Scon, Names, GlideControl
  <2> QED
    BY <2>1, <2>2, <2>3 DEF Typed
<1>14. CASE Choose
  <2>1. scon' \in Scon
    BY <1>14 DEF Typed, Scon, Names, Choose, mesa_prepare_window, Scheduled
  <2>2. Flags'
    BY <1>14 DEF Typed, Scon, Flags, Choose, mesa_prepare_window, Scheduled
  <2>3. Names'
    BY <1>14, ConstantsAssumption DEF Typed, Scon, Names, Choose, mesa_prepare_window, Scheduled
  <2> QED
    BY <2>1, <2>2, <2>3 DEF Typed
<1>15. CASE PollReady
  <2>1. scon' \in Scon
    BY <1>15 DEF Typed, Scon, Names, PollReady
  <2>2. Flags'
    BY <1>15 DEF Typed, Scon, Flags, PollReady
  <2>3. Names'
    BY <1>15 DEF Typed, Scon, Names, PollReady
  <2> QED
    BY <2>1, <2>2, <2>3 DEF Typed
<1>16. CASE Activate
  <2>1. scon' \in Scon
    BY <1>16, MesaStat DEF Typed, Activate
  <2>2. Flags'
    BY <1>16 DEF Typed, Scon, Flags, Activate
  <2>3. Names'
    BY <1>16 DEF Typed, Scon, Names, Activate
  <2> QED
    BY <2>1, <2>2, <2>3 DEF Typed
<1>17. CASE Deactivate
  <2>1. scon' \in Scon
    BY <1>17, MesaStat DEF Typed, Deactivate
  <2>2. Flags'
    BY <1>17 DEF Typed, Scon, Flags, Deactivate
  <2>3. Names'
    BY <1>17 DEF Typed, Scon, Names, Deactivate
  <2> QED
    BY <2>1, <2>2, <2>3 DEF Typed
<1>18. CASE DispTimer
  <2>1. scon' \in Scon
    BY <1>18 DEF Typed, Scon, DispTimer
  <2>2. Flags'
    BY <1>18 DEF Typed, Scon, Flags, DispTimer
  <2>3. Names'
    BY <1>18 DEF Typed, Scon, Names, DispTimer
  <2> QED
    BY <2>1, <2>2, <2>3 DEF Typed
<1>19. CASE Leave
  <2>1. scon' \in Scon
    <3> DEFINE u == IF last THEN mesa_renderer_stat(scon, FALSE) ELSE scon
    <3>1. u \in Scon
      BY MesaStat DEF Typed
    <3>2. scon' = mesa_release_window(u)
      BY <1>19 DEF Leave
    <3> HIDE DEF u
    <3> QED
      BY <3>1, <3>2 DEF mesa_release_window, IfTimer, Scon
  <2>2. Flags'
    BY <1>19 DEF Typed, Scon, Flags, Leave
  <2>3. Names'
    BY <1>19 DEF Typed, Scon, Names, Leave
  <2> QED
    BY <2>1, <2>2, <2>3 DEF Typed
<1>20. CASE Die
  <2>1. scon' \in Scon
    BY <1>20 DEF Typed, Scon, Die
  <2>2. Flags'
    BY <1>20 DEF Typed, Scon, Flags, Die
  <2>3. Names'
    BY <1>20 DEF Typed, Scon, Names, Die
  <2> QED
    BY <2>1, <2>2, <2>3 DEF Typed
<1>21. CASE UNCHANGED vars
  BY <1>21 DEF Typed, Flags, Names
<1> QED
  BY <1>1, <1>2, <1>3, <1>4, <1>5, <1>6, <1>7, <1>8, <1>9, <1>10, <1>11, <1>12, <1>13, <1>14, <1>15,
     <1>16, <1>17, <1>18, <1>19, <1>20, <1>21 DEF Next, sched_wndproc, Glide, Mesa

-----------------------------------------------------------------------------
(* The steps, one lemma for each.  They keep what relates the variables;   *)
(* their types are those of TypedStep.                                     *)

\* wndproc_fxui_stat only takes the timer off.
LEMMA PausedStep ==
  ASSUME Orderly, RInv, scon.armed, Paused, passthrough' = Passed(scon')
  PROVE  Placed'
<1>1. /\ ~scon'.armed /\ scon'.ts = scon.ts /\ scon'.render_pause = scon.render_pause
      /\ SameWindow(scon, scon') /\ scon.res = Stat
  BY DEF RInv, Paused, SameWindow
<1>2. Hands'
  <2>1. UNCHANGED <<size, wanted, xvi, wnd_ready, last, ts, mesaAlive, glide, mesa>>
    BY DEF Paused
  <2>2. /\ Lent
        /\ ~OwnWindow /\ ~GivenBack /\ ~Asked(None) /\ \A r \in Sizes : ~Asked(r)
    <3>1. ~OwnWindow /\ ~GivenBack /\ ~Asked(None) /\ \A r \in Sizes : ~Asked(r)
      BY <1>1, ConstantsAssumption DEF OwnWindow, GivenBack, Asked, None, GuiSize, Stat
    <3> QED
      BY <3>1 DEF RInv, Placed, Hands, GlideOnly, MesaToo, Lent
  <2>3. Lent'
    BY <1>1, <2>2 DEF Lent, SameWindow
  <2>4. CASE xvi
    BY <1>1, <2>1, <2>2, <2>3, <2>4 DEF RInv, Placed, SameWindow, Hands, MesaToo, OfGlide, GlideUses
  <2>5. CASE ~xvi
    BY <1>1, <2>1, <2>2, <2>3, <2>5 DEF RInv, Placed, SameWindow, Hands, GlideOnly, OfGlide,
       GlideUses
  <2> QED
    BY <2>4, <2>5
<1>3. WindowInv'
  BY DEF RInv, Placed, WindowInv, Paused, Passed
<1>4. GlideInv'
  BY DEF RInv, Placed, GlideInv, Paused, Passed
<1>5. ShownInv'
  BY DEF RInv, Placed, ShownInv, Paused, Passed
<1> QED
  BY <1>2, <1>3, <1>4, <1>5 DEF Placed

\* wndproc_fxui_prepare lends the window that was asked for: none was lent.
LEMMA PreparedStep ==
  ASSUME Orderly, RInv, scon.armed, Prepared, passthrough' = Passed(scon')
  PROVE  Placed'
<1>1. Hands'
  BY DEF RInv, Placed, Flags, Names, Hands, GlideOnly, MesaToo, OwnWindow, Asked, Lent, GivenBack,
     OfGlide, GlideUses, Prepared, Passed, Resized
<1>2. WindowInv'
  BY ConstantsAssumption DEF RInv, Placed, Typed, Scon, Flags, Names, WindowInv, Hands, GlideOnly,
     MesaToo, OwnWindow, Asked, Lent, GivenBack, OfGlide, GlideUses, Prepared, Passed, Resized
<1>3. GlideInv'
  BY DEF RInv, Placed, Flags, Names, GlideInv, Hands, GlideOnly, MesaToo, Lent, OfGlide, GlideUses,
     Prepared, Passed, Resized
<1>4. ShownInv'
  BY DEF RInv, Placed, Typed, Scon, Flags, Names, ShownInv, Prepared, Passed, Resized
<1> QED
  BY <1>1, <1>2, <1>3, <1>4 DEF Placed

\* wndproc_fxui_release takes back a window that was given back.
LEMMA ReleasedStep ==
  ASSUME Orderly, RInv, scon.armed, Released, passthrough' = Passed(scon')
  PROVE  Placed'
<1>1. /\ scon'.armed = FALSE /\ scon'.ts = FALSE /\ scon'.render_pause = FALSE
      /\ scon'.winctx = FALSE /\ scon'.gui_saved_res = scon.gui_saved_res
      /\ scon'.glide_on_mesa = scon.glide_on_mesa
      /\ scon'.opaque = scon.opaque /\ scon'.cwnd_fn = scon.cwnd_fn
  BY DEF RInv, Released
<1>2. /\ UNCHANGED <<wanted, xvi, wnd_ready, last, ts, glide, mesa, hwnd, FEnum, opened, lost>>
      /\ hint' = FALSE
  BY DEF Released
<1>3. /\ ~xvi /\ GivenBack /\ mesa = "out" /\ ~last /\ ts = "none"
      /\ ~GlideUses \/ (glide = "closing" /\ OfGlide)
  <2>1. ~OwnWindow /\ ~Lent /\ ~Asked(None) /\ \A r \in Sizes : ~Asked(r)
    BY DEF Released, OwnWindow, Lent, Asked, None, GuiSize
  <2> QED
    BY <2>1 DEF RInv, Placed, Hands, GlideOnly, MesaToo
<1>4. Hands'
  <2>1. OwnWindow'
    BY <1>1, <1>3 DEF OwnWindow, GivenBack
  <2> QED
    BY <1>1, <1>2, <1>3, <2>1 DEF Hands, GlideOnly, OfGlide, GlideUses
<1>5. WindowInv'
  <2>1. size' = GuiSize
    BY <1>3, ConstantsAssumption DEF Released, Resized, GivenBack, None, GuiSize
  <2> QED
    BY <1>1, <1>2, <2>1 DEF RInv, Placed, WindowInv
<1>6. GlideInv'
  BY <1>2, <1>3 DEF RInv, Placed, GlideInv, GlideUses
<1>7. ShownInv'
  <2>1. passthrough' = FALSE
    BY <1>1 DEF Passed
  <2> QED
    BY <1>1, <1>2, <1>3, <2>1 DEF ShownInv
<1> QED
  BY <1>4, <1>5, <1>6, <1>7 DEF Placed

\* A deferred deactivation pauses the program's frames, and arms the timer for it.
LEMMA DeactivateDeferredStep ==
  ASSUME Orderly, RInv, DeactivateDeferred
  PROVE  Placed'
<1>1. Hands'
  BY DEF RInv, Placed, Flags, Names, Hands, GlideOnly, MesaToo, Lent, OfGlide, GlideUses,
     DeactivateDeferred, mesa_renderer_stat, sdl_renderer_stat, Scheduled
<1>2. WindowInv'
  BY DEF RInv, Placed, WindowInv, DeactivateDeferred, mesa_renderer_stat, sdl_renderer_stat,
     Scheduled
<1>3. GlideInv'
  BY DEF RInv, Placed, GlideInv, DeactivateDeferred, mesa_renderer_stat, sdl_renderer_stat,
     Scheduled
<1>4. ShownInv'
  BY DEF RInv, Placed, ShownInv, DeactivateDeferred, mesa_renderer_stat, sdl_renderer_stat,
     Scheduled
<1> QED
  BY <1>1, <1>2, <1>3, <1>4 DEF Placed

\* The refresh gives the screen to a program whose frames are shown.
LEMMA RefreshGuiStep ==
  ASSUME Orderly, RInv, RefreshGui
  PROVE  Placed'
<1>1. Hands'
  BY DEF RInv, Placed, Flags, Names, Hands, GlideOnly, MesaToo, Lent, OfGlide, GlideUses, RefreshGui
<1>2. WindowInv'
  BY DEF RInv, Placed, WindowInv, RefreshGui
<1>3. GlideInv'
  BY DEF RInv, Placed, GlideInv, RefreshGui
<1>4. ShownInv'
  BY DEF RInv, Placed, ShownInv, RefreshGui
<1> QED
  BY <1>1, <1>2, <1>3, <1>4 DEF Placed

\* A Glide program that attaches has no window yet.
LEMMA GlideAttachStep ==
  ASSUME Orderly, RInv, GlideAttach
  PROVE  Placed'
<1>1. Hands'
  BY DEF RInv, Placed, Flags, Names, Hands, GlideOnly, MesaToo, OwnWindow, Asked, Lent, GivenBack,
     OfGlide, GlideUses, GlideAttach
<1>2. WindowInv'
  BY DEF RInv, Placed, WindowInv, GlideAttach
<1>3. GlideInv'
  BY DEF RInv, Placed, GlideInv, GlideAttach
<1>4. ShownInv'
  BY DEF RInv, Placed, ShownInv, GlideAttach
<1> QED
  BY <1>1, <1>2, <1>3, <1>4 DEF Placed

\* One that detaches gave its window back: there is nothing to release.
LEMMA GlideDetachStep ==
  ASSUME Orderly, RInv, GlideDetach
  PROVE  Placed'
<1>1. glide = "in" /\ glide' = "out" /\ ~hwnd /\ opened = 0 /\ opened' = 0
  BY DEF RInv, Placed, GlideInv, GlideDetach
<1>2. /\ scon' = scon /\ FEnum' = None /\ activate' = FALSE /\ hwnd' = FALSE
      /\ UNCHANGED <<size, hint, passthrough, mesaDev, glideAlive, mesaAlive, lost, mesa, wanted, opens>>
  BY <1>1 DEF GlideDetach
<1>3. Hands'
  BY <1>1, <1>2 DEF RInv, Placed, Flags, Names, Hands, GlideOnly, MesaToo, OwnWindow, Asked, Lent,
     GivenBack, OfGlide, GlideUses
<1>4. WindowInv'
  BY <1>1, <1>2 DEF RInv, Placed, WindowInv
<1>5. GlideInv'
  BY <1>1, <1>2 DEF GlideInv
<1>6. ShownInv'
  BY <1>1, <1>2 DEF RInv, Placed, ShownInv
<1> QED
  BY <1>3, <1>4, <1>5, <1>6 DEF Placed

\* grSstWinOpen asks for a window that is free, or joins the OpenGL program that draws.
LEMMA GlideOpenStep ==
  ASSUME Orderly, RInv, NEW res \in Sizes, GlideOpen(res)
  PROVE  Placed'
<1>1. Hands'
  <2>1. CASE xvi
    BY <2>1 DEF RInv, Placed, Names, Hands, GlideOnly, MesaToo, Lent, OfGlide, GlideUses, GlideOpen,
       MayOpen, Settled, glide_prepare_window
  <2>2. CASE ~xvi
    <3>1. OwnWindow /\ mesa = "out" /\ ~last /\ ts = "none" /\ size = GuiSize
      BY <2>2 DEF RInv, Placed, Hands, GlideOnly, MesaToo, OwnWindow, Asked, Lent, GivenBack,
         OfGlide, GlideUses, GlideOpen, MayOpen, Settled, WindowInv
    <3>2. /\ scon'.ts /\ scon'.armed /\ scon'.opaque /\ scon'.cwnd_fn = "glide"
          /\ scon'.gui_saved_res = GuiSize /\ scon'.res = res
          /\ ~scon'.winctx /\ ~scon'.render_pause /\ ~scon'.glide_on_mesa
      BY <3>1 DEF RInv, OwnWindow, GlideOpen, glide_prepare_window, Scheduled
    <3>3. glide' = "opening" /\ wanted' = res
          /\ UNCHANGED <<xvi, mesa, last, ts>>
      BY DEF GlideOpen
    <3> QED
      BY <2>2, <3>1, <3>2, <3>3 DEF Hands, GlideOnly, OfGlide, Asked
  <2> QED
    BY <2>1, <2>2
<1>2. WindowInv'
  BY DEF RInv, Placed, WindowInv, GlideOpen, glide_prepare_window, Scheduled
<1>3. GlideInv'
  BY DEF RInv, Placed, GlideInv, GlideOpen, glide_prepare_window, Scheduled
<1>4. ShownInv'
  BY DEF RInv, Placed, Typed, Scon, ShownInv, Hands, GlideOnly, MesaToo, OwnWindow, Asked, Lent,
     GivenBack, OfGlide, GlideUses, GlideOpen, MayOpen, Settled, glide_prepare_window, Scheduled
<1> QED
  BY <1>1, <1>2, <1>3, <1>4 DEF Placed

\* A refused resolution leaves all but FEnum alone.
LEMMA GlideOpenRefusedStep ==
  ASSUME Orderly, RInv, GlideOpenRefused
  PROVE  Placed'
<1>1. Hands'
  BY DEF RInv, Placed, Hands, GlideOnly, MesaToo, OwnWindow, Asked, Lent, GivenBack, OfGlide,
     GlideUses, GlideOpenRefused
<1>2. WindowInv'
  BY DEF RInv, Placed, WindowInv, GlideOpenRefused
<1>3. GlideInv'
  BY DEF RInv, Placed, GlideInv, GlideOpenRefused
<1>4. ShownInv'
  BY DEF RInv, Placed, ShownInv, GlideOpenRefused
<1> QED
  BY <1>1, <1>2, <1>3, <1>4 DEF Placed

\* The poll that finds the context opens the library's window, once.
LEMMA GlidePollOpenStep ==
  ASSUME Orderly, RInv, GlidePollOpen
  PROVE  Placed'
<1>1. scon.cwnd_fn = "glide"
  BY DEF RInv, Placed, GlidePollOpen, Hands, GlideOnly, MesaToo, Lent, OfGlide, GlideUses
<1>2. opened' = 1 /\ glideAlive'
  BY <1>1 DEF RInv, Placed, GlideInv, GlidePollOpen, cwnd_glide2x
<1>3. glide' = "open" /\ UNCHANGED <<display, glideDev, mesaDev, mesaAlive, lost, mesa, wanted>>
  BY DEF GlidePollOpen
<1>4. Hands'
  <2>1. Lent
    BY DEF RInv, Placed, GlidePollOpen, Hands, GlideOnly, MesaToo, OwnWindow, Asked, Lent,
       GivenBack, OfGlide, GlideUses
  <2> QED
    BY <1>3, <2>1 DEF RInv, Placed, GlidePollOpen, Hands, GlideOnly, MesaToo, OwnWindow, Asked,
       Lent, GivenBack, OfGlide, GlideUses
<1>5. WindowInv'
  BY <1>3 DEF RInv, Placed, WindowInv
<1>6. GlideInv'
  BY <1>2, <1>3 DEF RInv, Placed, GlideInv, GlidePollOpen
<1>7. ShownInv'
  BY <1>3 DEF RInv, Placed, ShownInv
<1> QED
  BY <1>4, <1>5, <1>6, <1>7 DEF Placed

\* grSstWinClose gives back what it asked for, and nothing of an OpenGL program.
LEMMA GlideCloseStep ==
  ASSUME Orderly, RInv, GlideClose
  PROVE  Placed'
<1>1. Hands'
  <2>1. CASE xvi
    BY <2>1 DEF RInv, Placed, Hands, GlideOnly, MesaToo, Lent, OfGlide, GlideUses, GlideClose,
       glide_release_window
  <2>2. CASE ~xvi
    <3>1. /\ OfGlide /\ Lent /\ ~scon.glide_on_mesa /\ scon.gui_saved_res = GuiSize /\ hwnd
          /\ mesa = "out" /\ ~last /\ ts = "none"
      BY <2>2 DEF RInv, Placed, Hands, GlideOnly, MesaToo, Lent, OfGlide, GlideUses, GlideInv,
         GlideClose
    <3>2. /\ scon'.ts /\ scon'.armed /\ scon'.winctx /\ ~scon'.glide_on_mesa
          /\ scon'.gui_saved_res = None /\ scon'.res = GuiSize /\ scon'.opaque /\ scon'.cwnd_fn = "glide"
      BY <3>1 DEF RInv, Typed, Scon, OfGlide, Lent, GlideClose, glide_release_window, IfTimer, None,
         GuiSize
    <3>3. glide' = "closing" /\ UNCHANGED <<xvi, mesa, last, ts>>
      BY DEF GlideClose
    <3> QED
      BY <2>2, <3>1, <3>2, <3>3 DEF Hands, GlideOnly, OfGlide, GivenBack
  <2> QED
    BY <2>1, <2>2
<1>2. WindowInv'
  BY DEF RInv, Placed, WindowInv, GlideClose, glide_release_window, IfTimer
<1>3. GlideInv'
  <2>1. glide' = "closing" /\ hwnd' = FALSE /\ FEnum' = "close"
    BY DEF GlideClose
  <2> QED
    BY <2>1 DEF GlideInv
<1>4. ShownInv'
  BY DEF RInv, Placed, Typed, Scon, ShownInv, Hands, GlideOnly, MesaToo, Lent, OfGlide, GlideUses,
     GlideClose, glide_release_window, IfTimer
<1> QED
  BY <1>1, <1>2, <1>3, <1>4 DEF Placed

\* The last poll ends the use of an OpenGL program's window.
LEMMA GlidePollCloseStep ==
  ASSUME Orderly, RInv, GlidePollClose
  PROVE  Placed'
<1>1. Hands'
  <2>1. CASE xvi
    <3>1. MesaToo /\ Lent /\ scon.glide_on_mesa /\ GlideUses /\ mesa = "drawing"
      BY <2>1 DEF RInv, Placed, Hands, MesaToo, GlideUses, GlidePollClose
    <3>2. glide' = "in" /\ UNCHANGED <<xvi, mesa, last, ts, mesaAlive, wnd_ready>>
      BY <3>1 DEF GlidePollClose, StillOpen, Lent
    <3>3. /\ scon'.glide_on_mesa = FALSE /\ scon'.gui_saved_res = None
          /\ scon'.opaque = scon.opaque /\ scon'.cwnd_fn = scon.cwnd_fn
          /\ scon'.ts = scon.ts /\ scon'.winctx = scon.winctx
          /\ scon'.armed = scon.armed /\ scon'.res = scon.res
      BY <3>1 DEF RInv, GlidePollClose, MesaToo
    <3> QED
      BY <2>1, <3>1, <3>2, <3>3 DEF Hands, MesaToo, Lent, OfGlide, GlideUses
  <2>2. CASE ~xvi
    BY <2>2 DEF RInv, Placed, Hands, GlideOnly, MesaToo, OwnWindow, Asked, Lent, GivenBack, OfGlide,
       GlideUses, GlidePollClose, StillOpen
  <2> QED
    BY <2>1, <2>2
<1>2. WindowInv'
  BY DEF RInv, Placed, WindowInv, GlidePollClose, cwnd_glide2x, StillOpen
<1>3. GlideInv'
  BY DEF RInv, Placed, GlideInv, GlidePollClose, cwnd_glide2x, StillOpen
<1>4. ShownInv'
  BY DEF RInv, Placed, ShownInv, GlidePollClose, cwnd_glide2x, StillOpen
<1> QED
  BY <1>1, <1>2, <1>3, <1>4 DEF Placed

\* grSstControl pauses or resumes, of a window that is lent.
LEMMA GlideControlStep ==
  ASSUME Orderly, RInv, NEW i \in BOOLEAN, GlideControl(i)
  PROVE  Placed'
<1>1. Hands'
  BY DEF RInv, Placed, Hands, GlideOnly, MesaToo, Lent, OfGlide, GlideUses, GlideControl,
     sdl_renderer_stat, Scheduled
<1>2. WindowInv'
  BY DEF RInv, Placed, WindowInv, GlideControl, sdl_renderer_stat, Scheduled
<1>3. GlideInv'
  BY DEF RInv, Placed, GlideInv, GlideControl, sdl_renderer_stat, Scheduled
<1>4. ShownInv'
  BY DEF RInv, Placed, ShownInv, Hands, GlideOnly, MesaToo, Lent, OfGlide, GlideUses, GlideControl,
     MayControl, sdl_renderer_stat, Scheduled
<1> QED
  BY <1>1, <1>2, <1>3, <1>4 DEF Placed

\* wglChoosePixelFormat asks for a window unless one is left from a program that died.
LEMMA ChooseStep ==
  ASSUME Orderly, RInv, Choose
  PROVE  Placed'
<1>1. Hands'
  <2>1. CASE xvi
    BY <2>1 DEF RInv, Placed, Hands, GlideOnly, MesaToo, Lent, OfGlide, GlideUses, Choose
  <2>2. CASE ~xvi
    <3>1. OwnWindow /\ ~last /\ ts = "none" /\ size = GuiSize /\ ~GlideUses
      BY <2>2 DEF RInv, Placed, Hands, GlideOnly, MesaToo, OwnWindow, Asked, Lent, GivenBack,
         OfGlide, GlideUses, Choose, MayChoose, Settled, WindowInv
    <3>2. /\ scon'.ts /\ scon'.armed /\ ~scon'.opaque /\ scon'.cwnd_fn = "mesa"
          /\ scon'.gui_saved_res = GuiSize /\ scon'.res = None
          /\ ~scon'.winctx /\ ~scon'.render_pause /\ ~scon'.glide_on_mesa
      BY <2>2, <3>1 DEF RInv, Typed, Scon, OwnWindow, Choose, mesa_prepare_window, Scheduled
    <3>3. mesa' = "choosing" /\ xvi' /\ ~wnd_ready' /\ UNCHANGED <<last, ts, glide>>
      BY <2>2 DEF Choose
    <3> QED
      BY <3>1, <3>2, <3>3 DEF Hands, MesaToo, Asked, GlideUses
  <2> QED
    BY <2>1, <2>2
<1>2. WindowInv'
  BY DEF RInv, Placed, Typed, Scon, WindowInv, Hands, GlideOnly, MesaToo, OwnWindow, Asked, Lent,
     GivenBack, OfGlide, GlideUses, Choose, MayChoose, Settled, mesa_prepare_window, Scheduled
<1>3. GlideInv'
  BY DEF RInv, Placed, GlideInv, Choose, mesa_prepare_window, Scheduled
<1>4. ShownInv'
  BY DEF RInv, Placed, Typed, Scon, ShownInv, Hands, GlideOnly, MesaToo, Lent, OfGlide, GlideUses,
     Choose, mesa_prepare_window, Scheduled
<1> QED
  BY <1>1, <1>2, <1>3, <1>4 DEF Placed

\* wnd_ready stands only when the window was lent.
LEMMA PollReadyStep ==
  ASSUME Orderly, RInv, PollReady
  PROVE  Placed'
<1>1. Hands'
  BY DEF RInv, Placed, Hands, GlideOnly, MesaToo, Lent, OfGlide, GlideUses, PollReady
<1>2. WindowInv'
  BY DEF RInv, Placed, WindowInv, PollReady
<1>3. GlideInv'
  BY DEF RInv, Placed, GlideInv, PollReady
<1>4. ShownInv'
  BY DEF RInv, Placed, ShownInv, PollReady
<1> QED
  BY <1>1, <1>2, <1>3, <1>4 DEF Placed

\* The activation resumes the frames of the OpenGL program.
LEMMA ActivateStep ==
  ASSUME Orderly, RInv, Activate
  PROVE  Placed'
<1>1. Hands'
  <2>1. CASE last
    BY <2>1 DEF RInv, Placed, Hands, GlideOnly, MesaToo, Lent, OfGlide, GlideUses, Activate
  <2>2. CASE ~last
    <3>1. scon' = mesa_renderer_stat(scon, TRUE) /\ scon \in Scon
      BY <2>2 DEF RInv, Placed, Typed, Activate
    <3>2. /\ SameWindow(scon, scon')
          /\ scon' = scon \/ (scon'.res = Stat /\ scon'.armed /\ scon'.ts)
      BY <3>1, MesaStat
    <3> QED
      BY <2>2, <3>2 DEF RInv, Placed, SameWindow, Hands, GlideOnly, MesaToo, Lent, OfGlide,
         GlideUses, Activate
  <2> QED
    BY <2>1, <2>2
<1>2. WindowInv'
  BY DEF RInv, Placed, Typed, Scon, WindowInv, Activate, mesa_renderer_stat, sdl_renderer_stat,
     Scheduled
<1>3. GlideInv'
  BY DEF RInv, Placed, GlideInv, Activate, mesa_renderer_stat, sdl_renderer_stat, Scheduled
<1>4. ShownInv'
  BY DEF RInv, Placed, Typed, Scon, ShownInv, Activate, mesa_renderer_stat, sdl_renderer_stat,
     Scheduled
<1> QED
  BY <1>1, <1>2, <1>3, <1>4 DEF Placed

\* The deactivation cancels a refresh and shows the guest's display.
LEMMA DeactivateStep ==
  ASSUME Orderly, RInv, Deactivate
  PROVE  Placed'
<1>1. Hands'
  BY DEF RInv, Placed, Hands, GlideOnly, MesaToo, Lent, OfGlide, GlideUses, Deactivate,
     mesa_renderer_stat, sdl_renderer_stat, Scheduled
<1>2. WindowInv'
  BY DEF RInv, Placed, WindowInv, Deactivate, mesa_renderer_stat, sdl_renderer_stat, Scheduled
<1>3. GlideInv'
  BY DEF RInv, Placed, GlideInv, Deactivate, mesa_renderer_stat, sdl_renderer_stat, Scheduled
<1>4. ShownInv'
  BY DEF RInv, Placed, ShownInv, Deactivate, mesa_renderer_stat, sdl_renderer_stat, Scheduled
<1> QED
  BY <1>1, <1>2, <1>3, <1>4 DEF Placed

\* The display timer leaves the deactivation to a timer of its own.
LEMMA DispTimerStep ==
  ASSUME Orderly, RInv, DispTimer
  PROVE  Placed'
<1>1. Hands'
  BY DEF RInv, Placed, Hands, GlideOnly, MesaToo, Lent, OfGlide, GlideUses, DispTimer
<1>2. WindowInv'
  BY DEF RInv, Placed, WindowInv, DispTimer
<1>3. GlideInv'
  BY DEF RInv, Placed, GlideInv, DispTimer
<1>4. ShownInv'
  BY DEF RInv, Placed, ShownInv, DispTimer
<1> QED
  BY <1>1, <1>2, <1>3, <1>4 DEF Placed

\* DLL_PROCESS_DETACH gives the window back, whether its frames were shown or not.
LEMMA LeaveStep ==
  ASSUME Orderly, RInv, Leave
  PROVE  Placed'
<1>1. Hands'
  <2> DEFINE u == IF last THEN mesa_renderer_stat(scon, FALSE) ELSE scon
  <2>1. scon' = mesa_release_window(u)
    BY DEF Leave
  <2>2. u \in Scon /\ SameWindow(scon, u) /\ (u = scon \/ u.ts)
    BY MesaStat DEF RInv, Placed, Typed, SameWindow
  <2>3. xvi /\ MesaToo /\ mesa = "drawing" /\ ~GlideUses
    BY DEF RInv, Placed, Hands, GlideOnly, MayLeave, Leave, GlideUses
  <2>4. u.ts /\ u.winctx /\ ~u.glide_on_mesa
    BY <2>2, <2>3 DEF MesaToo, Lent, SameWindow
  <2> HIDE DEF u
  <2>5. GivenBack'
    BY <2>1, <2>2, <2>4 DEF mesa_release_window, IfTimer, GivenBack, Scon
  <2>6. ts' = "none"
    BY DEF RInv, Placed, Typed, Scon, Flags, Names, ShownInv, Leave, MayLeave
  <2> QED
    BY <2>3, <2>5, <2>6 DEF Hands, GlideOnly, Leave, GlideUses
<1>2. WindowInv'
  BY DEF RInv, Placed, WindowInv, Leave, MayLeave, mesa_release_window, IfTimer, mesa_renderer_stat,
     sdl_renderer_stat, Scheduled
<1>3. GlideInv'
  BY DEF RInv, Placed, GlideInv, Leave, MayLeave, mesa_release_window, IfTimer, mesa_renderer_stat,
     sdl_renderer_stat, Scheduled
<1>4. ShownInv'
  BY DEF RInv, Placed, Typed, Scon, ShownInv, Leave, MayLeave, mesa_release_window, IfTimer,
     mesa_renderer_stat, sdl_renderer_stat, Scheduled
<1> QED
  BY <1>1, <1>2, <1>3, <1>4 DEF Placed

\* A program that dies leaves its window lent.
LEMMA DieStep ==
  ASSUME Orderly, RInv, Die
  PROVE  Placed'
<1>1. Hands'
  BY DEF RInv, Placed, Hands, GlideOnly, MesaToo, Lent, OfGlide, GlideUses, Die, MayDie
<1>2. WindowInv'
  BY DEF RInv, Placed, WindowInv, Die, MayDie
<1>3. GlideInv'
  BY DEF RInv, Placed, GlideInv, Die, MayDie
<1>4. ShownInv'
  BY DEF RInv, Placed, ShownInv, Die, MayDie
<1> QED
  BY <1>1, <1>2, <1>3, <1>4 DEF Placed

-----------------------------------------------------------------------------
(* The theorems.                                                           *)

HIDE DEF vars, display, glideDev, mesaDev, libraries, programs

\* The window is QEMU's own when nothing has happened.
LEMMA InitRInv == Init => RInv
<1> SUFFICES ASSUME Init PROVE RInv
  OBVIOUS
<1>1. scon \in Scon
  BY DEF Init, Scon
<1>2. Flags
  BY DEF Init, Flags
<1>3. Names
  BY ConstantsAssumption DEF Init, Names
<1>4. Hands
  BY DEF Init, Hands, GlideOnly, GlideUses, OwnWindow
<1>5. WindowInv /\ GlideInv /\ ShownInv
  BY DEF Init, WindowInv, GlideInv, ShownInv
<1> QED
  BY <1>1, <1>2, <1>3, <1>4, <1>5 DEF RInv, Placed, Typed

\* Every step leaves the window in the hands the invariant tells.
LEMMA NextStep == ASSUME Orderly, RInv, [Next]_vars PROVE RInv'
<1>1. Typed'
  BY TypedStep DEF RInv
<1>2. CASE sched_wndproc
  BY <1>1, <1>2, PausedStep, PreparedStep, ReleasedStep DEF sched_wndproc, RInv
<1>3. CASE DeactivateDeferred \/ RefreshGui
  BY <1>1, <1>3, DeactivateDeferredStep, RefreshGuiStep DEF RInv
<1>4. CASE Glide
  BY <1>1, <1>4, GlideAttachStep, GlideDetachStep, GlideOpenStep, GlideOpenRefusedStep,
     GlidePollOpenStep, GlideCloseStep, GlidePollCloseStep, GlideControlStep DEF Glide, RInv
<1>5. CASE Mesa
  BY <1>1, <1>5, ChooseStep, PollReadyStep, ActivateStep, DeactivateStep, DispTimerStep, LeaveStep,
     DieStep DEF Mesa, RInv
<1>6. CASE UNCHANGED vars
  BY <1>1, <1>6 DEF vars, display, glideDev, mesaDev, libraries, programs, RInv, Placed, WindowInv,
     GlideInv, ShownInv, Hands, GlideOnly, MesaToo, OwnWindow, Asked, Lent, GivenBack, OfGlide,
     GlideUses
<1> QED
  BY <1>2, <1>3, <1>4, <1>5, <1>6 DEF Next

\* Whatever the programs do, the fields of scon_cb and the states of the devices keep
\* their types.
THEOREM TypeCorrect == Spec => []TypeOK
<1>1. Init => Typed
  BY InitRInv DEF RInv
<1>2. Typed /\ [Next]_vars => Typed'
  BY TypedStep
<1>3. Typed => TypeOK
  BY TypedIsTypeOK
<1> QED
  BY <1>1, <1>2, <1>3, PTL DEF Spec

\* With programs that keep the rules, the invariant holds: the fields of scon_cb always
\* tell one of the phases through which a window is lent and given back.
THEOREM Inductive == ASSUME Orderly PROVE Spec => []RInv
<1>1. Init => RInv
  BY InitRInv
<1>2. RInv /\ [Next]_vars => RInv'
  BY NextStep
<1> QED
  BY <1>1, <1>2, PTL DEF Spec

\* glide_window_stat and wndproc_fxui_prepare call the callback of the program that
\* waits, for any number of windows and resolutions.
THEOREM CallbackIsOwn == ASSUME Orderly PROVE Spec => []OwnCallback
<1>1. RInv => OwnCallback
  BY DEF RInv, Placed, Hands, GlideOnly, MesaToo, OwnWindow, Asked, Lent, GivenBack, OfGlide,
     GlideUses, OwnCallback, None, GuiSize, Stat
<1> QED
  BY <1>1, Inductive, PTL

\* grSstWinOpen returns with a window that the library opened once, that SDL still has
\* and that is as large as the program asked.
THEOREM GlideDrawsInItsWindow == ASSUME Orderly PROVE Spec => []GlideHasWindow
<1>1. RInv => GlideHasWindow
  BY DEF RInv, Placed, WindowInv, GlideInv, Hands, GlideOnly, MesaToo, Lent, OfGlide, GlideUses,
     GlideHasWindow
<1> QED
  BY <1>1, Inductive, PTL

\* wglChoosePixelFormat returns with a window, and no step of a Glide program takes it
\* away while the OpenGL program draws.
THEOREM MesaDrawsInItsWindow == ASSUME Orderly PROVE Spec => []MesaHasWindow
<1>1. RInv => MesaHasWindow
  BY DEF RInv, Placed, Hands, GlideOnly, MesaToo, Lent, OfGlide, GlideUses, MesaHasWindow
<1> QED
  BY <1>1, Inductive, PTL

\* wndproc_fxui_prepare never overwrites winctx: a window is asked for only when the
\* last one was given back.
THEOREM NoContextLost == ASSUME Orderly PROVE Spec => []NoneLost
<1>1. RInv => NoneLost
  BY DEF RInv, Placed, WindowInv, NoneLost
<1> QED
  BY <1>1, Inductive, PTL

\* When the timers have run, passthrough agrees with render_pause: the guest's display is
\* not drawn over a program's frames, nor left undrawn for a window nobody draws in.
THEOREM DisplayShown == ASSUME Orderly PROVE Spec => []GuiShown
<1>1. RInv => GuiShown
  BY DEF RInv, Placed, Typed, Flags, Scon, ShownInv, Settled, GuiShown
<1> QED
  BY <1>1, Inductive, PTL
=============================================================================
