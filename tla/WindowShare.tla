----------------------------- MODULE WindowShare -----------------------------
(***************************************************************************)
(* Who has the window.  QEMU's window shows the guest's 2D screen, the     *)
(* frames of its OpenGL program (hw/mesa) or those of its Glide program    *)
(* (hw/3dfx).  The two devices run on the vCPU thread and ask the GUI for  *)
(* the window; the GUI (ui/sdl2.c, in 00-qemu111x-mesa-glide.patch) gives  *)
(* and takes it later, in a timer of the main loop, which may destroy the  *)
(* window and build another.  The guest's programs wait for that in a loop *)
(* of register reads, or do not; they end properly or die; a watchdog and  *)
(* a key of the user's give the window back to the 2D screen.              *)
(*                                                                         *)
(* Handlers and timers hold the big QEMU lock, so each is one step; only a *)
(* swap lets go of it to wait for the refresh.  A window, and whatever     *)
(* refers to one, is "live" until the GUI destroys it.                     *)
(***************************************************************************)
EXTENDS Integers

CONSTANT
  OneThread     \* OpenGL and Glide are used by one thread of the guest

ASSUME UseAssumption == OneThread \in BOOLEAN

VARIABLES
  s,         \* the GUI: scon_cb, the 2D renderer and the GL context of the window
  m,         \* the OpenGL program and its device
  g,         \* the Glide program and its device
  thread,    \* the context current on the vCPU thread, and the drawable under it
  upset      \* the worst that has happened: the "key" pressed, a request "overwritten" before
             \* it was served, or the key pressed while it "cut" something short

core == <<s, m, g, thread>>
vars == <<s, m, g, thread, upset>>

Drawable == {"none", "live", "dead"}
Gone(d) == IF d = "live" THEN "dead" ELSE d

MesaApps == {"gone", "loaded", "waiting", "chosen", "formatted", "created", "current", "released", "swapping"}
GlideApps == {"gone", "loaded", "opening", "open", "closing"}

Console ==
  [opaque : BOOLEAN, gui_saved_res : BOOLEAN, res : {"stat", "size"}, render_pause : BOOLEAN,
   takeover : {"done", "deferred", "scheduled"}, mesa_on_glide : BOOLEAN,
   glide_on_mesa : BOOLEAN, cwnd_fn : {"none", "mesa", "glide"}, ts : {"none", "idle", "armed"},
   hnwnd : Drawable, winctx : BOOLEAN, renderer : BOOLEAN, glHint : BOOLEAN,
   passthrough : BOOLEAN]

MesaDevice ==
  [app : MesaApps, xvi : BOOLEAN, win : Drawable, sameGeneration : BOOLEAN, wnd_ready : BOOLEAN,
   draw : Drawable, remembered : BOOLEAN, last : BOOLEAN, ts : {"none", "deactivate", "guiRef"},
   dispTimer : {"none", "idle", "armed"}, context : BOOLEAN, current : BOOLEAN]

GlideDevice ==
  [app : GlideApps, activate : BOOLEAN, hwnd : BOOLEAN, context : Drawable, window : Drawable]

Nobody == [who |-> "none", draw |-> "none"]

Init ==
  /\ s = [opaque |-> FALSE, gui_saved_res |-> FALSE, res |-> "size", render_pause |-> FALSE,
          takeover |-> "done", mesa_on_glide |-> FALSE, glide_on_mesa |-> FALSE,
          cwnd_fn |-> "none", ts |-> "none", hnwnd |-> "none", winctx |-> FALSE,
          renderer |-> TRUE, glHint |-> FALSE, passthrough |-> FALSE]
  /\ m = [app |-> "gone", xvi |-> FALSE, win |-> "none", sameGeneration |-> TRUE,
          wnd_ready |-> FALSE, draw |-> "none", remembered |-> FALSE, last |-> FALSE,
          ts |-> "none", dispTimer |-> "none", context |-> FALSE, current |-> FALSE]
  /\ g = [app |-> "gone", activate |-> FALSE, hwnd |-> FALSE, context |-> "none",
          window |-> "none"]
  /\ thread = Nobody
  /\ upset = "none"

-----------------------------------------------------------------------------
(* ui/sdl2.c: what the devices ask for. *)

\* The takeover is marked with a state that nobody knows.
WrongSchedTakeover(c) ==
  [c EXCEPT !.takeover = "claimed", !.res = "stat", !.render_pause = TRUE, !.ts = "armed"]

sched_gl_takeover(c) ==
  [c EXCEPT !.takeover = "scheduled", !.res = "stat", !.render_pause = TRUE, !.ts = "armed"]

sdl_renderer_stat(c, activate) ==
  IF activate = c.render_pause \/ (activate /\ c.takeover = "deferred") THEN c
  ELSE [c EXCEPT !.res = "stat", !.render_pause = activate, !.ts = "armed"]

mesa_renderer_stat(c, activate) ==
  IF c.mesa_on_glide THEN c
  ELSE LET c1 == sdl_renderer_stat(c, activate)
       IN  IF c.glide_on_mesa /\ ~activate THEN sdl_renderer_stat(c1, TRUE) ELSE c1

mesa_gl_takeover(c) == IF c.takeover = "deferred" THEN sched_gl_takeover(c) ELSE c

glide_holds_window(c) == c.opaque /\ c.gui_saved_res /\ c.winctx

glide_prepare_window(c) ==
  LET c1 == [c EXCEPT !.opaque = TRUE, !.cwnd_fn = "glide"]
  IN  IF c.render_pause \/ c.takeover # "done"
      THEN mesa_gl_takeover([c1 EXCEPT !.glide_on_mesa = TRUE, !.gui_saved_res = FALSE])
      ELSE [c1 EXCEPT !.gui_saved_res = TRUE, !.res = "size", !.ts = "armed"]

\* The timer is moved only if there is one.
Mod(ts) == IF ts = "none" THEN "none" ELSE "armed"

\* The callback goes when the window stays with OpenGL.
WrongGlideRelease(c) ==
  LET c1 == [c EXCEPT !.opaque = TRUE, !.cwnd_fn = "glide"]
  IN  IF c.mesa_on_glide
      THEN [c EXCEPT !.mesa_on_glide = FALSE, !.glide_on_mesa = TRUE, !.gui_saved_res = FALSE,
                     !.opaque = FALSE, !.cwnd_fn = "none"]
      ELSE IF c.gui_saved_res
      THEN [c1 EXCEPT !.gui_saved_res = FALSE, !.res = "size", !.ts = Mod(@)]
      ELSE sdl_renderer_stat(c1, FALSE)

\* A window borrowed by OpenGL stays with it.
glide_release_window(c) ==
  LET c1 == [c EXCEPT !.opaque = TRUE, !.cwnd_fn = "glide"]
  IN  IF c.mesa_on_glide
      THEN [c1 EXCEPT !.mesa_on_glide = FALSE, !.glide_on_mesa = TRUE, !.gui_saved_res = FALSE]
      ELSE IF c.gui_saved_res
      THEN [c1 EXCEPT !.gui_saved_res = FALSE, !.res = "size", !.ts = Mod(@)]
      ELSE sdl_renderer_stat(c1, FALSE)

\* The timer is not made when there is none.
WrongMesaPrepare(c) ==
  IF glide_holds_window(c) THEN [c EXCEPT !.mesa_on_glide = TRUE]
  ELSE [c EXCEPT !.opaque = FALSE, !.cwnd_fn = "mesa", !.gui_saved_res = TRUE, !.res = "size",
                 !.ts = Mod(@)]

\* Unless Glide holds the window, the timer is to prepare it for OpenGL.
mesa_prepare_window(c) ==
  IF glide_holds_window(c) THEN [c EXCEPT !.mesa_on_glide = TRUE]
  ELSE [c EXCEPT !.opaque = FALSE, !.cwnd_fn = "mesa", !.gui_saved_res = TRUE, !.res = "size",
                 !.ts = "armed"]

\* OpenGL lets go of a window that is Glide's, once it no longer borrows it.
WrongMesaRelease(c) ==
  IF c.mesa_on_glide THEN [c EXCEPT !.mesa_on_glide = FALSE]
  ELSE [c EXCEPT !.res = "size", !.opaque = FALSE, !.cwnd_fn = "none", !.gui_saved_res = FALSE,
                 !.ts = Mod(@)]

mesa_release_window(c) ==
  IF c.mesa_on_glide \/ glide_holds_window(c) THEN [c EXCEPT !.mesa_on_glide = FALSE]
  ELSE [c EXCEPT !.res = "size", !.opaque = FALSE, !.cwnd_fn = "none", !.gui_saved_res = FALSE,
                 !.ts = Mod(@)]

-----------------------------------------------------------------------------
(* ui/sdl2.c: what the main loop does. *)

\* sdl_gui_restart: the window is destroyed and another one created, with a
\* 2D renderer; what refers to the old one is left with it.
Restarted(c) == [c EXCEPT !.hnwnd = Gone(@), !.renderer = TRUE]
sdl_gui_restart ==
  /\ m' = [m EXCEPT !.win = Gone(@), !.draw = Gone(@), !.sameGeneration = FALSE]
  /\ g' = [g EXCEPT !.context = Gone(@), !.window = Gone(@)]
  /\ thread' = [thread EXCEPT !.draw = Gone(@)]

wndproc_fxui_gl_takeover(c) ==
  [c EXCEPT !.renderer = FALSE, !.render_pause = TRUE, !.takeover = "done", !.winctx = TRUE]

wndproc_fxui_release(c) ==
  [Restarted(c) EXCEPT !.winctx = FALSE, !.glHint = FALSE, !.render_pause = FALSE,
                       !.takeover = "done", !.ts = "none"]

\* The last lines of sched_wndproc: is the guest's 2D screen still drawn?
Refreshed(c) == [c EXCEPT !.passthrough = IF c.opaque \/ ~c.render_pause THEN c.render_pause ELSE @]

Fired == [s EXCEPT !.ts = "idle"]

wndproc_fxui_stat ==
  /\ s.ts = "armed" /\ s.res = "stat"
  /\ s' = Refreshed(IF s.render_pause
                    THEN IF s.takeover # "done" THEN wndproc_fxui_gl_takeover(Fired) ELSE Fired
                    ELSE [Fired EXCEPT !.renderer = TRUE])
  /\ UNCHANGED <<m, g, thread>>

\* cwnd_mesagl: the device learns its window.
cwnd_mesagl(d, hnwnd) == [d EXCEPT !.win = hnwnd, !.sameGeneration = TRUE, !.wnd_ready = TRUE]

\* Glide takes the window at once, OpenGL with its first swap.  The window is
\* rebuilt unless it can do OpenGL already.
Prepared(c) ==
  [(IF c.glHint THEN c ELSE Restarted(c)) EXCEPT !.glHint = TRUE, !.hnwnd = "live"]

wndproc_fxui_prepare_glide ==
  /\ s.ts = "armed" /\ s.res = "size" /\ s.gui_saved_res /\ s.opaque
  /\ s' = Refreshed(wndproc_fxui_gl_takeover(Prepared(Fired)))
  /\ IF s.glHint THEN UNCHANGED <<m, g, thread>> ELSE sdl_gui_restart

wndproc_fxui_prepare_mesa ==
  /\ s.ts = "armed" /\ s.res = "size" /\ s.gui_saved_res /\ ~s.opaque
  /\ s' = Refreshed([Prepared(Fired) EXCEPT !.takeover = "deferred", !.renderer = TRUE])
  /\ m' = cwnd_mesagl([m EXCEPT !.draw = IF s.glHint THEN @ ELSE Gone(@)], "live")
  /\ IF s.glHint THEN UNCHANGED <<g, thread>>
     ELSE /\ g' = [g EXCEPT !.context = Gone(@), !.window = Gone(@)]
          /\ thread' = [thread EXCEPT !.draw = Gone(@)]

sched_wndproc_release ==
  /\ s.ts = "armed" /\ s.res = "size" /\ ~s.gui_saved_res
  /\ s' = Refreshed(wndproc_fxui_release(Fired))
  /\ sdl_gui_restart

sched_wndproc ==
  wndproc_fxui_stat \/ wndproc_fxui_prepare_glide \/ wndproc_fxui_prepare_mesa
  \/ sched_wndproc_release

\* Ctrl+Alt+R.
sdl_return_display ==
  /\ s.render_pause \/ s.takeover # "done"
  /\ s' = [wndproc_fxui_release(s) EXCEPT
             !.res = "size", !.opaque = FALSE, !.cwnd_fn = "none", !.gui_saved_res = FALSE,
             !.glide_on_mesa = FALSE, !.mesa_on_glide = FALSE, !.passthrough = FALSE]
  /\ sdl_gui_restart

-----------------------------------------------------------------------------
(* hw/mesa: claiming the window and letting it go. *)

\* MGLActivateHandler: claims are ignored until OpenGL has swapped.
Activates(d, c, i) == i # d.last /\ ~(i /\ c.takeover = "deferred")

ActivatedDevice(d, c, i, deferred) ==
  IF Activates(d, c, i)
  THEN [d EXCEPT !.last = i, !.ts = IF i THEN "guiRef" ELSE IF deferred THEN "deactivate" ELSE "none"]
  ELSE d

ActivatedConsole(d, c, i, deferred) ==
  IF Activates(d, c, i) /\ (i \/ ~deferred) THEN mesa_renderer_stat(c, i) ELSE c

\* The watchdog: no swap for GetDispTimerMS.
dispTimerProc ==
  /\ m.dispTimer = "armed"
  /\ m' = ActivatedDevice([m EXCEPT !.dispTimer = "idle"], s, FALSE, TRUE)
  /\ UNCHANGED <<s, g, thread>>

deactivateOneshot ==
  /\ m.ts = "deactivate"
  /\ m' = [m EXCEPT !.ts = "none"]
  /\ s' = mesa_renderer_stat(s, FALSE)
  /\ UNCHANGED <<g, thread>>

deactivateGuiRefOneshot ==
  /\ m.ts = "guiRef"
  /\ m' = [m EXCEPT !.ts = "none"]
  /\ s' = [s EXCEPT !.passthrough = TRUE]
  /\ UNCHANGED <<g, thread>>

Sched(dispTimer) == IF dispTimer = "none" THEN "none" ELSE "armed"

\* Before every register write: the context the program made current is taken
\* back, unless its window is gone.
MGLRestoreCurrent ==
  IF ~m.remembered \/ thread.who = "mesa" \/ (m.draw = m.win /\ ~m.sameGeneration)
  THEN thread ELSE [who |-> "mesa", draw |-> m.draw]

Forgotten(d) == [d EXCEPT !.remembered = FALSE, !.draw = "none"]

\* MGLDeleteContext(0); the context itself is kept.
MGLDeleteContext(d, c) == ActivatedDevice(Forgotten(d), c, FALSE, FALSE)

HasWindow(d) == d.win # "none"

\* MGLWndRelease, which does nothing before the window has come.
MGLWndRelease(d) ==
  IF HasWindow(d) THEN [Forgotten(d) EXCEPT !.xvi = FALSE, !.win = "none"] ELSE d

WndReleased(d, c) == IF HasWindow(d) THEN mesa_release_window(c) ELSE c

\* MGLPresetPixelFormat.
MGLPresetPixelFormat(d, c) ==
  LET d1 == [d EXCEPT !.xvi = TRUE, !.wnd_ready = FALSE]
  IN  IF glide_holds_window(c) THEN cwnd_mesagl(d1, c.hnwnd) ELSE d1

-----------------------------------------------------------------------------
(* The OpenGL program.  With one thread it does nothing while that thread   *)
(* waits for Glide, or sleeps in a swap.                                    *)

MesaCalls == m.app # "swapping" /\ (OneThread => g.app \notin {"opening", "closing"})

MesaLoad ==
  /\ MesaCalls /\ m.app = "gone"
  /\ m' = [Forgotten(m) EXCEPT !.app = "loaded"]
  /\ UNCHANGED <<s, g, thread>>

Preset(d, c, app) ==
  IF d.xvi THEN m' = [d EXCEPT !.app = app] /\ s' = c
  ELSE m' = [MGLPresetPixelFormat(d, c) EXCEPT !.app = app] /\ s' = mesa_prepare_window(c)

\* wglChoosePixelFormat waits; wglDescribePixelFormat, which is all that the
\* ICD has, does not.
wglPixelFormat(app) ==
  /\ MesaCalls /\ m.app = "loaded"
  /\ Preset(m, s, app)
  /\ thread' = MGLRestoreCurrent
  /\ UNCHANGED g

ChoosePolls ==
  /\ MesaCalls /\ m.app = "waiting" /\ m.wnd_ready
  /\ m' = [m EXCEPT !.app = "chosen"]
  /\ UNCHANGED <<s, g, thread>>

\* A window that was replaced is given up and asked for again.
wglSetPixelFormat ==
  /\ MesaCalls /\ m.app = "chosen"
  /\ IF ~m.sameGeneration THEN Preset(MGLWndRelease(m), WndReleased(m, s), "formatted")
     ELSE m' = [Forgotten(m) EXCEPT !.app = "formatted"] /\ UNCHANGED s
  /\ thread' = IF ~m.sameGeneration /\ HasWindow(m) THEN Nobody ELSE MGLRestoreCurrent
  /\ UNCHANGED g

wglCreateContext ==
  /\ MesaCalls /\ m.app = "formatted"
  /\ m' = [Forgotten(m) EXCEPT !.app = "created", !.context = TRUE]
  /\ thread' = Nobody
  /\ UNCHANGED <<s, g>>

\* The watchdog is not set when the context is made current once more.
WrongMadeCurrent(d) ==
  IF d.context /\ ~d.current THEN [d EXCEPT !.current = TRUE, !.dispTimer = "armed"] ELSE d

\* The first time a watchdog is made for it.
MadeCurrent(d) ==
  IF d.context /\ ~d.current THEN [d EXCEPT !.current = TRUE, !.dispTimer = "armed"]
  ELSE [d EXCEPT !.dispTimer = Sched(@)]

mglMakeCurrent ==
  /\ MesaCalls /\ m.app \in {"created", "released"}
  /\ m' = MadeCurrent([ActivatedDevice(m, s, TRUE, FALSE) EXCEPT
                         !.app = "current", !.remembered = TRUE, !.draw = m.win])
  /\ s' = ActivatedConsole(m, s, TRUE, FALSE)
  /\ thread' = [who |-> "mesa", draw |-> m.win]
  /\ UNCHANGED g

\* wglMakeCurrent(0, 0) does nothing on the host.
MesaReleases ==
  /\ MesaCalls /\ m.app = "current"
  /\ m' = [m EXCEPT !.app = "released"]
  /\ thread' = MGLRestoreCurrent
  /\ UNCHANGED <<s, g>>

\* wglSwapBuffers claims the window, then sleeps without the lock ...
MGLSwapBuffers ==
  /\ MesaCalls /\ m.app = "current"
  /\ LET c == mesa_gl_takeover(s)
     IN  /\ m' = [ActivatedDevice(m, c, TRUE, FALSE) EXCEPT !.app = "swapping"]
         /\ s' = ActivatedConsole(m, c, TRUE, FALSE)
  /\ thread' = MGLRestoreCurrent
  /\ UNCHANGED g

\* The watchdog is not set after a swap.
WrongSwapEnds ==
  /\ m.app = "swapping"
  /\ m' = [m EXCEPT !.app = "current"]
  /\ UNCHANGED <<s, g, thread>>

\* ... and sets the watchdog when it is back.
SwapEnds ==
  /\ m.app = "swapping"
  /\ m' = [m EXCEPT !.app = "current", !.dispTimer = Sched(@)]
  /\ UNCHANGED <<s, g, thread>>

\* WM_ACTIVATE of the program's window.
ActivateHandler(i) ==
  /\ MesaCalls /\ m.app \in {"current", "released"} /\ m.context /\ m.current
  /\ m' = [ActivatedDevice(m, s, i, FALSE) EXCEPT !.dispTimer = IF i THEN Sched(@) ELSE @]
  /\ s' = ActivatedConsole(m, s, i, FALSE)
  /\ thread' = MGLRestoreCurrent
  /\ UNCHANGED g

mglDeleteContext ==
  /\ MesaCalls /\ m.app \in {"created", "released"}
  /\ m' = [MGLDeleteContext(m, s) EXCEPT
             !.app = "formatted", !.context = IF m.current THEN FALSE ELSE @,
             !.current = FALSE, !.dispTimer = IF m.current THEN "none" ELSE @]
  /\ s' = ActivatedConsole(m, s, FALSE, FALSE)
  /\ thread' = Nobody
  /\ UNCHANGED g

\* DLL_PROCESS_DETACH; a context that is current has been deleted before.
MesaUnload ==
  /\ MesaCalls /\ m.app \in {"loaded", "chosen", "formatted", "created", "released"}
  /\ LET d == IF m.context THEN [MGLDeleteContext(m, s) EXCEPT !.context = FALSE] ELSE m
         c == IF m.context THEN ActivatedConsole(m, s, FALSE, FALSE) ELSE s
     IN  /\ m' = [MGLWndRelease(d) EXCEPT !.app = "gone"]
         /\ s' = WndReleased(d, c)
  /\ thread' = IF m.context \/ HasWindow(m) THEN Nobody ELSE MGLRestoreCurrent
  /\ UNCHANGED g

MesaDies ==
  /\ m.app \notin {"gone", "swapping"}
  /\ m' = [m EXCEPT !.app = "gone"]
  /\ UNCHANGED <<s, g, thread>>

-----------------------------------------------------------------------------
(* The Glide program. *)

GlideCalls == m.app # "swapping" /\ (OneThread => m.app # "waiting")

GlideLoad ==
  /\ GlideCalls /\ g.app = "gone"
  /\ g' = [g EXCEPT !.app = "loaded", !.context = "none"]
  /\ UNCHANGED <<s, m, thread>>

glide_context_restore ==
  IF g.context = "none" \/ thread.who = "glide" THEN thread ELSE [who |-> "glide", draw |-> g.context]

\* grSstWinOpen asks for the window; init_window.
grSstWinOpen ==
  /\ GlideCalls /\ g.app = "loaded"
  /\ g' = [g EXCEPT !.app = "opening", !.activate = TRUE, !.hwnd = TRUE]
  /\ s' = glide_prepare_window(s)
  /\ thread' = glide_context_restore
  /\ UNCHANGED m

\* The read that finds the window there runs the callback: OpenGLide opens on
\* it and makes its context current.
OpenPolls ==
  /\ GlideCalls /\ g.app = "opening" /\ s.winctx /\ s.cwnd_fn = "glide"
  /\ g' = [g EXCEPT !.app = "open", !.context = s.hnwnd, !.window = s.hnwnd]
  /\ thread' = [who |-> "glide", draw |-> s.hnwnd]
  /\ UNCHANGED <<s, m>>

\* Every Glide call, grSstControl apart.
GlideDraws ==
  /\ GlideCalls /\ g.app = "open"
  /\ thread' = glide_context_restore
  /\ UNCHANGED <<s, m, g>>

grSstControl(activate) ==
  /\ GlideCalls /\ g.app = "open"
  /\ s' = sdl_renderer_stat(s, activate)
  /\ thread' = glide_context_restore
  /\ UNCHANGED <<m, g>>

\* grSstWinClose; fini_window.
grSstWinClose ==
  /\ GlideCalls /\ g.app = "open"
  /\ g' = [g EXCEPT !.app = "closing", !.activate = FALSE, !.hwnd = FALSE, !.context = "none"]
  /\ s' = glide_release_window(s)
  /\ thread' = glide_context_restore
  /\ UNCHANGED m

\* Each read closes OpenGLide again; the wait ends when the window has no GL
\* context any more, or stays with OpenGL.
ClosePolls ==
  /\ GlideCalls /\ g.app = "closing" /\ s.cwnd_fn = "glide"
  /\ g' = [g EXCEPT !.app = IF s.glide_on_mesa = s.winctx THEN "loaded" ELSE @, !.window = "none"]
  /\ s' = [s EXCEPT !.glide_on_mesa = FALSE]
  /\ thread' = IF thread.who = "glide" THEN Nobody ELSE thread
  /\ UNCHANGED m

\* The library is unloaded: DLL_PROCESS_DETACH shuts Glide down and writes the
\* register; fini_window lets go of a window still open, and nobody polls for the
\* end of it.
GlideUnload ==
  /\ GlideCalls /\ g.app \in {"loaded", "open"}
  /\ g' = [g EXCEPT !.app = "gone", !.activate = FALSE, !.hwnd = FALSE, !.context = "none",
                    !.window = "none"]
  /\ s' = IF g.hwnd THEN glide_release_window(s) ELSE s
  /\ thread' = IF thread.who = "glide" THEN Nobody ELSE thread
  /\ UNCHANGED m

Devices ==
  \/ dispTimerProc \/ deactivateOneshot \/ deactivateGuiRefOneshot
  \/ MesaLoad \/ wglPixelFormat("waiting") \/ wglPixelFormat("chosen") \/ ChoosePolls
  \/ wglSetPixelFormat \/ wglCreateContext
  \/ mglMakeCurrent \/ MesaReleases \/ MGLSwapBuffers \/ SwapEnds
  \/ \E i \in BOOLEAN : ActivateHandler(i)
  \/ mglDeleteContext \/ MesaUnload \/ MesaDies
  \/ GlideLoad \/ grSstWinOpen \/ OpenPolls \/ GlideDraws
  \/ \E i \in BOOLEAN : grSstControl(i)
  \/ grSstWinClose \/ ClosePolls \/ GlideUnload

\* The worse of two things that upset the hand-over.
Worse(x, y) ==
  IF "cut" \in {x, y} THEN "cut" ELSE IF "overwritten" \in {x, y} THEN "overwritten"
  ELSE IF "key" \in {x, y} THEN "key" ELSE "none"

\* All requests go through one place; a new one replaces the one before.
Request(c) == <<c.res, c.gui_saved_res, c.opaque, c.render_pause, c.takeover>>

\* Does the key find something under way?
Busy == s.ts = "armed" \/ m.ts # "none" \/ g.app \in {"opening", "open", "closing"}

Next ==
  \/ sched_wndproc /\ UNCHANGED upset
  \/ Devices
     /\ upset' = Worse(upset, IF s.ts = "armed" /\ Request(s') # Request(s)
                              THEN "overwritten" ELSE "none")
  \/ sdl_return_display
     /\ upset' = Worse(upset, IF Busy THEN "cut" ELSE "key")

\* Timers fire, a program that waits goes on reading, and a swap comes back.
Fairness ==
  /\ WF_core(sched_wndproc) /\ WF_core(dispTimerProc)
  /\ WF_core(deactivateOneshot) /\ WF_core(deactivateGuiRefOneshot)
  /\ WF_core(ChoosePolls) /\ WF_core(SwapEnds)
  /\ WF_core(OpenPolls) /\ WF_core(ClosePolls)

Spec == Init /\ [][Next]_vars /\ Fairness

-----------------------------------------------------------------------------
(* Properties.  Two things upset the hand-over, and both are left to the     *)
(* guest's and the user's timing: a request that replaces one the GUI has    *)
(* not served, and the key pressed in the middle of something.               *)

Undisturbed == upset \in {"none", "key"}

\* The console, the two devices and the thread keep their types.
TypeOK ==
  /\ s \in Console /\ m \in MesaDevice /\ g \in GlideDevice
  /\ thread \in [who : {"none", "mesa", "glide"}, draw : Drawable]
  /\ upset \in {"none", "key", "overwritten", "cut"}

\* glide_window_stat calls cwnd_fn unchecked: while the Glide program waits for
\* its window or for the end of it, the callback is Glide's own (not OpenGL's,
\* not NULL), whatever OpenGL asks for in between.
OwnCallback ==
  upset # "cut" /\ (g.app = "closing" \/ (g.app = "opening" /\ s.winctx))
    => s.cwnd_fn = "glide" /\ s.opaque

\* An open Glide program keeps the window it draws into, whatever OpenGL does
\* meanwhile, unless Glide had borrowed the window from OpenGL.
GlideKeepsWindow ==
  Undisturbed /\ g.app = "open" /\ ~s.glide_on_mesa => g.window = "live"

\* While OpenGL claims the window a watchdog is set that will give it back,
\* but for the time of a swap, which sets it at its end.
Watched == m.last /\ m.app # "swapping" => m.dispTimer = "armed"

\* Nobody waits for ever: wglChoosePixelFormat for its window, grSstWinOpen
\* for a window of its own, grSstWinClose for the end of Glide's.
WaitsEnd ==
  /\ []<>(m.app # "waiting" \/ ~Undisturbed)
  /\ g.app = "opening" /\ s.gui_saved_res ~> g.app # "opening" \/ ~Undisturbed
  /\ []<>(g.app # "closing" \/ ~Undisturbed)

\* Is the guest's 2D screen drawn, and by a renderer?
HasPicture == ~s.render_pause /\ ~s.passthrough /\ s.renderer

NoGlide == g.app \in {"gone", "loaded"}
NoMesa == m.app \in {"gone", "loaded"}

\* Where only one of OpenGL and Glide is used, the 2D screen comes back after
\* the program: after an OpenGL program however it ended, also by its death in
\* the middle of a frame, and after grSstWinClose.
PictureReturns ==
  /\ []NoGlide => []<>(HasPicture \/ m.app # "gone" \/ ~Undisturbed)
  /\ []NoMesa => []<>(HasPicture \/ ~NoGlide \/ ~Undisturbed)

\* Neither device makes a context current on a window that the GUI has
\* destroyed, as the comments of mesa_release_window, glide_release_window and
\* MGLRestoreCurrent ask.  It is false: OpenGL's release takes down a window
\* that Glide has borrowed, and MGLMakeCurrent never asks for the generation.
TakesLive ==
  [][upset' = "none" /\ thread'.who \notin {thread.who, "none"} => thread'.draw # "dead"]_vars
=============================================================================
