-------------------------- MODULE WindowShare_proofs --------------------------
(***************************************************************************)
(* Proofs about who has the window, for one thread of the guest and for    *)
(* several.  The devices only change the console's request and owner; what *)
(* the window is, and what it can do, is the GUI's alone.  The first       *)
(* lemmas say so of each operator on the console, and the invariants need  *)
(* no more of it than that.                                                *)
(***************************************************************************)
EXTENDS WindowShare, TLAPS

-----------------------------------------------------------------------------
(* ---- What the requests leave alone. ------------------------------------- *)

\* The window, and what it can do.  A timer that is set stays set.
SameWindow(c, d) ==
  /\ d.hnwnd = c.hnwnd /\ d.winctx = c.winctx /\ d.glHint = c.glHint
  /\ d.takeover # "done" => c.takeover # "done"
  /\ c.ts = "armed" => d.ts = "armed"

\* For whom the window is prepared.
SameOwner(c, d) ==
  /\ d.opaque = c.opaque /\ d.gui_saved_res = c.gui_saved_res /\ d.cwnd_fn = c.cwnd_fn
  /\ d.glide_on_mesa = c.glide_on_mesa

LEMMA StatKeeps ==
  ASSUME NEW c \in Console, NEW a \in BOOLEAN
  PROVE  LET d == sdl_renderer_stat(c, a)
         IN  d \in Console /\ SameWindow(c, d) /\ SameOwner(c, d) /\ d.mesa_on_glide = c.mesa_on_glide
<1> DEFINE e == [c EXCEPT !.res = "stat", !.render_pause = a, !.ts = "armed"]
<1>1. e \in Console /\ SameWindow(c, e) /\ SameOwner(c, e) /\ e.mesa_on_glide = c.mesa_on_glide
  BY DEF Console, SameWindow, SameOwner
<1>2. SameWindow(c, c) /\ SameOwner(c, c)
  BY DEF SameWindow, SameOwner
<1>3. sdl_renderer_stat(c, a) \in {c, e}
  BY DEF sdl_renderer_stat
<1> HIDE DEF e
<1> QED BY <1>1, <1>2, <1>3

LEMMA MesaStatKeeps ==
  ASSUME NEW c \in Console, NEW a \in BOOLEAN
  PROVE  LET d == mesa_renderer_stat(c, a)
         IN  d \in Console /\ SameWindow(c, d) /\ SameOwner(c, d)
<1> DEFINE c1 == sdl_renderer_stat(c, a)
<1>1. c1 \in Console /\ SameWindow(c, c1) /\ SameOwner(c, c1)
  BY StatKeeps
<1>2. LET d == sdl_renderer_stat(c1, TRUE) IN d \in Console /\ SameWindow(c1, d) /\ SameOwner(c1, d)
  BY <1>1, StatKeeps
<1>3. SameWindow(c, c) /\ SameOwner(c, c)
  BY DEF SameWindow, SameOwner
<1>4. LET d == sdl_renderer_stat(c1, TRUE) IN SameWindow(c, d) /\ SameOwner(c, d)
  BY <1>1, <1>2 DEF SameWindow, SameOwner
<1>5. mesa_renderer_stat(c, a) \in {c, c1, sdl_renderer_stat(c1, TRUE)}
  BY DEF mesa_renderer_stat
<1> HIDE DEF c1
<1> QED BY <1>1, <1>2, <1>3, <1>4, <1>5

LEMMA TakeoverKeeps ==
  ASSUME NEW c \in Console
  PROVE  LET d == mesa_gl_takeover(c)
         IN  d \in Console /\ SameWindow(c, d) /\ SameOwner(c, d)
<1>1. LET d == sched_gl_takeover(c)
      IN  d \in Console /\ (c.takeover = "deferred" => SameWindow(c, d)) /\ SameOwner(c, d)
  BY DEF sched_gl_takeover, Console, SameWindow, SameOwner
<1>2. SameWindow(c, c) /\ SameOwner(c, c)
  BY DEF SameWindow, SameOwner
<1> QED BY <1>1, <1>2 DEF mesa_gl_takeover

LEMMA ActivatedKeeps ==
  ASSUME NEW c \in Console, NEW d, NEW i \in BOOLEAN, NEW deferred \in BOOLEAN
  PROVE  LET e == ActivatedConsole(d, c, i, deferred)
         IN  e \in Console /\ SameWindow(c, e) /\ SameOwner(c, e)
BY MesaStatKeeps DEF ActivatedConsole, SameWindow, SameOwner

\* A request that only claims the window, or gives up the claim.
Claim(c, d) == d \in Console /\ SameWindow(c, d) /\ SameOwner(c, d)

LEMMA ClaimTrans ==
  ASSUME NEW c, NEW d, NEW e, Claim(c, d), Claim(d, e) PROVE Claim(c, e)
BY DEF Claim, SameWindow, SameOwner

\* OpenGL's requests for the window and for its end: Glide's window is not touched.
Yields(c, d) ==
  /\ d \in Console /\ SameWindow(c, d) /\ d.glide_on_mesa = c.glide_on_mesa
  /\ glide_holds_window(c) => SameOwner(c, d)

LEMMA PrepareYields ==
  ASSUME NEW c \in Console PROVE Yields(c, mesa_prepare_window(c))
BY DEF Yields, mesa_prepare_window, glide_holds_window, Console, SameWindow, SameOwner

LEMMA ReleaseYields ==
  ASSUME NEW c \in Console PROVE Yields(c, mesa_release_window(c))
<1> DEFINE e == [c EXCEPT !.res = "size", !.opaque = FALSE, !.cwnd_fn = "none", !.gui_saved_res = FALSE,
                          !.ts = Mod(@)]
<1>1. Mod(c.ts) \in {"none", "idle", "armed"} /\ (c.ts = "armed" => Mod(c.ts) = "armed")
  BY DEF Mod
<1>2. e \in Console /\ SameWindow(c, e) /\ e.glide_on_mesa = c.glide_on_mesa
  BY <1>1 DEF Console, SameWindow
<1>3. [c EXCEPT !.mesa_on_glide = FALSE] \in Console
  BY DEF Console
<1>4. /\ SameWindow(c, [c EXCEPT !.mesa_on_glide = FALSE])
      /\ SameOwner(c, [c EXCEPT !.mesa_on_glide = FALSE])
  BY DEF Console, SameWindow, SameOwner
<1>5. CASE c.mesa_on_glide \/ glide_holds_window(c)
  BY <1>3, <1>4, <1>5 DEF Yields, mesa_release_window, SameOwner
<1>6. CASE ~(c.mesa_on_glide \/ glide_holds_window(c))
  <2>1. mesa_release_window(c) = e
    BY <1>6 DEF mesa_release_window
  <2> HIDE DEF e
  <2> QED BY <1>2, <1>6, <2>1 DEF Yields
<1> QED BY <1>5, <1>6

LEMMA ClaimYields == ASSUME NEW c, NEW d, Claim(c, d) PROVE Yields(c, d)
BY DEF Claim, Yields, SameOwner

LEMMA YieldsSelf == ASSUME NEW c \in Console PROVE Claim(c, c) /\ Yields(c, c)
BY DEF Claim, Yields, SameWindow, SameOwner

LEMMA YieldsTrans ==
  ASSUME NEW c, NEW d, NEW e, Yields(c, d), Yields(d, e) PROVE Yields(c, e)
<1>1. glide_holds_window(c) => glide_holds_window(d)
  BY DEF Yields, glide_holds_window, SameOwner, SameWindow
<1> QED BY <1>1 DEF Yields, SameWindow, SameOwner

\* Glide's requests.
LEMMA GlidePrepares ==
  ASSUME NEW c \in Console
  PROVE  LET d == glide_prepare_window(c)
         IN  /\ d \in Console /\ SameWindow(c, d) /\ d.opaque /\ d.cwnd_fn = "glide"
             /\ d.glide_on_mesa \/ (d.gui_saved_res /\ d.res = "size" /\ d.ts = "armed")
BY DEF glide_prepare_window, mesa_gl_takeover, sched_gl_takeover, Console, SameWindow

LEMMA GlideReleases ==
  ASSUME NEW c \in Console
  PROVE  LET d == glide_release_window(c)
         IN  d \in Console /\ SameWindow(c, d) /\ d.opaque /\ d.cwnd_fn = "glide"
<1> DEFINE c1 == [c EXCEPT !.opaque = TRUE, !.cwnd_fn = "glide"]
<1>1. c1 \in Console /\ c1.opaque /\ c1.cwnd_fn = "glide" /\ SameWindow(c, c1)
  BY DEF Console, SameWindow
<1>2. LET d == sdl_renderer_stat(c1, FALSE)
      IN  d \in Console /\ SameWindow(c1, d) /\ d.opaque /\ d.cwnd_fn = "glide"
  <2>1. c1.opaque /\ c1.cwnd_fn = "glide"
    BY <1>1
  <2> HIDE DEF c1
  <2> QED BY <1>1, <2>1, StatKeeps DEF SameOwner
<1>3. CASE c.mesa_on_glide
  <2> DEFINE e == [c1 EXCEPT !.mesa_on_glide = FALSE, !.glide_on_mesa = TRUE, !.gui_saved_res = FALSE]
  <2>1. glide_release_window(c) = e
    BY <1>3 DEF glide_release_window
  <2>2. e \in Console /\ SameWindow(c1, e) /\ e.opaque /\ e.cwnd_fn = "glide"
    <3> HIDE DEF c1
    <3> QED BY <1>1 DEF Console, SameWindow
  <2> HIDE DEF c1, e
  <2> QED BY <1>1, <2>1, <2>2 DEF SameWindow
<1>4. CASE ~c.mesa_on_glide /\ c.gui_saved_res
  <2> DEFINE e == [c1 EXCEPT !.gui_saved_res = FALSE, !.res = "size", !.ts = Mod(@)]
  <2>1. glide_release_window(c) = e
    BY <1>4 DEF glide_release_window
  <2>2. e \in Console /\ SameWindow(c1, e) /\ e.opaque /\ e.cwnd_fn = "glide"
    <3> HIDE DEF c1
    <3> DEFINE f == [c1 EXCEPT !.gui_saved_res = FALSE, !.res = "size"]
    <3>1. f \in Console
      BY <1>1 DEF Console
    <3>2. SameWindow(c1, f) /\ f.opaque /\ f.cwnd_fn = "glide"
      BY <1>1 DEF Console, SameWindow
    <3>3. \E ts \in {"none", "idle", "armed"} : e = [f EXCEPT !.ts = ts] /\ (f.ts = "armed" => ts = "armed")
      <4>1. Mod(f.ts) \in {"none", "idle", "armed"} /\ (f.ts = "armed" => Mod(f.ts) = "armed")
        BY DEF Mod
      <4>2. e = [f EXCEPT !.ts = Mod(f.ts)]
        BY <1>1 DEF Console
      <4> QED BY <4>1, <4>2
    <3> HIDE DEF e, f
    <3>5. e \in Console
      BY <3>1, <3>3 DEF Console
    <3>6. SameWindow(f, e) /\ e.opaque /\ e.cwnd_fn = "glide"
      BY <3>1, <3>2, <3>3 DEF Console, SameWindow
    <3> QED BY <3>2, <3>5, <3>6 DEF SameWindow
  <2> HIDE DEF c1, e
  <2> QED BY <1>1, <2>1, <2>2 DEF SameWindow
<1>5. CASE ~c.mesa_on_glide /\ ~c.gui_saved_res
  <2>1. glide_release_window(c) = sdl_renderer_stat(c1, FALSE)
    BY <1>5, <1>1 DEF glide_release_window, Console
  <2> HIDE DEF c1
  <2> QED BY <1>1, <1>2, <2>1 DEF SameWindow
<1> QED BY <1>3, <1>4, <1>5 DEF Console

-----------------------------------------------------------------------------
(* ---- The console after each step of a device. --------------------------- *)

\* These claim the window, give up a claim or leave the console alone.
Claims ==
  \/ dispTimerProc \/ deactivateOneshot \/ deactivateGuiRefOneshot
  \/ mglMakeCurrent \/ MGLSwapBuffers \/ mglDeleteContext
  \/ \E i \in BOOLEAN : ActivateHandler(i)
  \/ \E i \in BOOLEAN : grSstControl(i)
Quiet ==
  \/ MesaLoad \/ ChoosePolls \/ wglCreateContext \/ MesaReleases \/ SwapEnds \/ MesaDies
  \/ GlideLoad \/ OpenPolls \/ GlideDraws

\* These ask for the window, or for its end.
Asks == wglPixelFormat("waiting") \/ wglPixelFormat("chosen") \/ wglSetPixelFormat \/ MesaUnload

LEMMA DeviceSteps ==
  Devices <=> Claims \/ Quiet \/ Asks \/ grSstWinOpen \/ grSstWinClose \/ ClosePolls \/ GlideUnload
BY Zenon DEF Devices, Claims, Quiet, Asks

LEMMA ClaimSteps == ASSUME TypeOK, Claims \/ Quiet PROVE Claim(s, s')
<1>0. s \in Console
  BY DEF TypeOK
<1>1. Claim(s, s)
  BY <1>0, YieldsSelf
<1>2. ASSUME NEW i \in BOOLEAN PROVE Claim(s, mesa_renderer_stat(s, i)) /\ Claim(s, sdl_renderer_stat(s, i))
  BY <1>0, StatKeeps, MesaStatKeeps DEF Claim
<1>3. ASSUME NEW d, NEW i \in BOOLEAN PROVE Claim(s, ActivatedConsole(d, s, i, FALSE))
  BY <1>0, ActivatedKeeps DEF Claim
<1>4. CASE deactivateGuiRefOneshot
  BY <1>0, <1>4 DEF deactivateGuiRefOneshot, Claim, Console, SameWindow, SameOwner
<1>5. CASE MGLSwapBuffers
  <2> DEFINE c == mesa_gl_takeover(s)
  <2>1. Claim(s, c)
    BY <1>0, TakeoverKeeps DEF Claim
  <2>2. s' = ActivatedConsole(m, c, TRUE, FALSE)
    BY <1>5 DEF MGLSwapBuffers
  <2> HIDE DEF c
  <2>3. Claim(c, s')
    BY <2>1, <2>2, ActivatedKeeps DEF Claim
  <2> QED BY <2>1, <2>3, ClaimTrans
<1>6. CASE dispTimerProc
  BY <1>1, <1>6 DEF dispTimerProc
<1>7. CASE deactivateOneshot
  BY <1>2, <1>7 DEF deactivateOneshot
<1>8. CASE mglMakeCurrent
  BY <1>3, <1>8 DEF mglMakeCurrent
<1>9. CASE mglDeleteContext
  BY <1>3, <1>9 DEF mglDeleteContext
<1>10. ASSUME NEW i \in BOOLEAN, ActivateHandler(i) PROVE Claim(s, s')
  BY <1>3, <1>10 DEF ActivateHandler
<1>11. ASSUME NEW i \in BOOLEAN, grSstControl(i) PROVE Claim(s, s')
  BY <1>2, <1>11 DEF grSstControl
<1>12. CASE Quiet
  <2>1. s' = s
    BY <1>12 DEF Quiet, MesaLoad, ChoosePolls, wglCreateContext, MesaReleases, SwapEnds, MesaDies,
                 GlideLoad, OpenPolls, GlideDraws
  <2> QED BY <1>1, <2>1
<1> QED BY <1>4, <1>5, <1>6, <1>7, <1>8, <1>9, <1>10, <1>11, <1>12 DEF Claims

LEMMA AskSteps == ASSUME TypeOK, Asks PROVE Yields(s, s')
<1>0. s \in Console
  BY DEF TypeOK
<1>1. ASSUME NEW d, NEW c, NEW app, Yields(s, c), Preset(d, c, app) PROVE Yields(s, s')
  <2>1. s' \in {c, mesa_prepare_window(c)}
    BY <1>1 DEF Preset
  <2>2. Yields(c, mesa_prepare_window(c))
    BY <1>1, PrepareYields DEF Yields
  <2> QED BY <1>1, <2>1, <2>2, YieldsTrans
<1>2. ASSUME NEW d, NEW c, Yields(s, c) PROVE Yields(s, WndReleased(d, c))
  <2>1. Yields(c, mesa_release_window(c))
    BY <1>2, ReleaseYields DEF Yields
  <2> QED BY <1>2, <2>1, YieldsTrans DEF WndReleased
<1>3. Yields(s, s)
  BY <1>0, YieldsSelf
<1>4. ASSUME NEW app, wglPixelFormat(app) PROVE Yields(s, s')
  BY <1>1, <1>3, <1>4 DEF wglPixelFormat
<1>5. CASE wglSetPixelFormat
  <2>1. CASE m.sameGeneration
    BY <1>3, <1>5, <2>1 DEF wglSetPixelFormat
  <2>2. CASE ~m.sameGeneration
    <3>1. Preset(MGLWndRelease(m), WndReleased(m, s), "formatted")
      BY <1>5, <2>2 DEF wglSetPixelFormat
    <3> QED BY <1>1, <1>2, <1>3, <3>1
  <2> QED BY <2>1, <2>2
<1>6. CASE MesaUnload
  <2> DEFINE d == IF m.context THEN [MGLDeleteContext(m, s) EXCEPT !.context = FALSE] ELSE m
             c == IF m.context THEN ActivatedConsole(m, s, FALSE, FALSE) ELSE s
  <2>1. s' = WndReleased(d, c)
    BY <1>6 DEF MesaUnload
  <2>2. Claim(s, ActivatedConsole(m, s, FALSE, FALSE))
    BY <1>0, ActivatedKeeps DEF Claim
  <2>3. Yields(s, c)
    BY <1>3, <2>2, ClaimYields
  <2> HIDE DEF c, d
  <2> QED BY <1>2, <2>1, <2>3
<1> QED BY <1>4, <1>5, <1>6 DEF Asks

\* No device changes what the window is.
LEMMA DeviceKeepsWindow == ASSUME TypeOK, Devices PROVE s' \in Console /\ SameWindow(s, s')
<1>0. s \in Console
  BY DEF TypeOK
<1>1. CASE Claims \/ Quiet
  BY <1>1, ClaimSteps DEF Claim
<1>2. CASE Asks
  BY <1>2, AskSteps DEF Yields
<1>3. CASE grSstWinOpen
  BY <1>0, <1>3, GlidePrepares DEF grSstWinOpen
<1>4. CASE grSstWinClose
  BY <1>0, <1>4, GlideReleases DEF grSstWinClose
<1>5. CASE ClosePolls
  BY <1>0, <1>5 DEF ClosePolls, Console, SameWindow
<1>6. CASE GlideUnload
  BY <1>0, <1>6, GlideReleases DEF GlideUnload, SameWindow
<1> QED BY <1>1, <1>2, <1>3, <1>4, <1>5, <1>6, DeviceSteps

-----------------------------------------------------------------------------
(* ---- The console after each step of the GUI. ---------------------------- *)

LEMMA WndprocFacts ==
  ASSUME NEW c \in Console
  PROVE  /\ Restarted(c) \in Console /\ Prepared(c) \in Console
         /\ wndproc_fxui_gl_takeover(c) \in Console /\ wndproc_fxui_release(c) \in Console
         /\ Refreshed(c) \in Console
<1>1. \A d \in Drawable : Gone(d) \in Drawable
  BY DEF Drawable, Gone
<1>2. Restarted(c) \in Console
  BY <1>1 DEF Restarted, Console
<1>3. Prepared(c) \in Console
  <2> DEFINE b == IF c.glHint THEN c ELSE Restarted(c)
  <2>1. b \in Console
    BY <1>2
  <2>2. Prepared(c) = [b EXCEPT !.glHint = TRUE, !.hnwnd = "live"]
    BY DEF Prepared
  <2> HIDE DEF b
  <2> QED BY <2>1, <2>2 DEF Console, Drawable
<1>4. wndproc_fxui_gl_takeover(c) \in Console
  BY DEF wndproc_fxui_gl_takeover, Console
<1>5. wndproc_fxui_release(c) \in Console
  <2> DEFINE b == Restarted(c)
  <2>1. b \in Console
    BY <1>2
  <2> HIDE DEF b
  <2>2. [b EXCEPT !.winctx = FALSE, !.glHint = FALSE, !.render_pause = FALSE,
                  !.takeover = "done", !.ts = "none"] \in Console
    BY <2>1 DEF Console
  <2> QED BY <2>2 DEF wndproc_fxui_release, b
<1>6. Refreshed(c) \in Console
  BY DEF Refreshed, Console
<1> QED BY <1>2, <1>3, <1>4, <1>5, <1>6

LEMMA GuiConsole ==
  ASSUME TypeOK, sched_wndproc \/ sdl_return_display
  PROVE  s' \in Console
<1>1. s \in Console /\ Fired \in Console
  BY DEF TypeOK, Console, Fired
<1>2. CASE wndproc_fxui_stat
  <2>1. [Fired EXCEPT !.renderer = TRUE] \in Console
    BY <1>1 DEF Console
  <2>2. wndproc_fxui_gl_takeover(Fired) \in Console
    BY <1>1, WndprocFacts
  <2> DEFINE c == IF s.render_pause
                  THEN IF s.takeover # "done" THEN wndproc_fxui_gl_takeover(Fired) ELSE Fired
                  ELSE [Fired EXCEPT !.renderer = TRUE]
  <2>3. c \in Console
    BY <1>1, <2>1, <2>2
  <2>4. s' = Refreshed(c)
    BY <1>2 DEF wndproc_fxui_stat
  <2> HIDE DEF c
  <2> QED BY <2>3, <2>4, WndprocFacts
<1>3. CASE wndproc_fxui_prepare_glide
  <2>1. Prepared(Fired) \in Console
    BY <1>1, WndprocFacts
  <2>2. wndproc_fxui_gl_takeover(Prepared(Fired)) \in Console
    BY <2>1, WndprocFacts
  <2> QED BY <1>3, <2>2, WndprocFacts DEF wndproc_fxui_prepare_glide
<1>4. CASE wndproc_fxui_prepare_mesa
  <2> DEFINE b == Prepared(Fired)
  <2>1. b \in Console
    BY <1>1, WndprocFacts
  <2>2. s' = Refreshed([b EXCEPT !.takeover = "deferred", !.renderer = TRUE])
    BY <1>4 DEF wndproc_fxui_prepare_mesa
  <2> HIDE DEF b
  <2>3. [b EXCEPT !.takeover = "deferred", !.renderer = TRUE] \in Console
    BY <2>1 DEF Console
  <2> QED BY <2>2, <2>3, WndprocFacts
<1>5. CASE sched_wndproc_release
  <2>1. wndproc_fxui_release(Fired) \in Console
    BY <1>1, WndprocFacts
  <2> QED BY <1>5, <2>1, WndprocFacts DEF sched_wndproc_release
<1>6. CASE sdl_return_display
  <2> DEFINE b == wndproc_fxui_release(s)
  <2>1. b \in Console
    BY <1>1, WndprocFacts
  <2>2. s' = [b EXCEPT
             !.res = "size", !.opaque = FALSE, !.cwnd_fn = "none", !.gui_saved_res = FALSE,
             !.glide_on_mesa = FALSE, !.mesa_on_glide = FALSE, !.passthrough = FALSE]
    BY <1>6 DEF sdl_return_display
  <2> HIDE DEF b
  <2> QED BY <2>1, <2>2 DEF Console
<1> QED BY <1>2, <1>3, <1>4, <1>5, <1>6 DEF sched_wndproc

-----------------------------------------------------------------------------
(* ---- The devices and the thread. ---------------------------------------- *)

LEMMA GoneType == \A d \in Drawable : Gone(d) \in Drawable
BY DEF Drawable, Gone

LEMMA DeviceOperators ==
  ASSUME NEW d \in MesaDevice, NEW c, NEW i \in BOOLEAN, NEW deferred
  PROVE  /\ ActivatedDevice(d, c, i, deferred) \in MesaDevice
         /\ Forgotten(d) \in MesaDevice
         /\ MGLDeleteContext(d, c) \in MesaDevice
         /\ MGLWndRelease(d) \in MesaDevice
         /\ MadeCurrent(d) \in MesaDevice
<1>1. \A b \in BOOLEAN : ActivatedDevice(d, c, b, deferred) \in MesaDevice
  BY DEF ActivatedDevice, MesaDevice
<1>2. Forgotten(d) \in MesaDevice
  BY DEF Forgotten, MesaDevice, Drawable
<1>3. MGLDeleteContext(d, c) \in MesaDevice
  <2> DEFINE e == Forgotten(d)
  <2>1. e \in MesaDevice
    BY <1>2
  <2>2. MGLDeleteContext(d, c) = ActivatedDevice(e, c, FALSE, FALSE)
    BY DEF MGLDeleteContext
  <2> HIDE DEF e
  <2> QED BY <2>1, <2>2 DEF ActivatedDevice, MesaDevice
<1>4. MGLWndRelease(d) \in MesaDevice
  <2> DEFINE e == Forgotten(d)
  <2>1. e \in MesaDevice
    BY <1>2
  <2>2. MGLWndRelease(d) \in {d, [e EXCEPT !.xvi = FALSE, !.win = "none"]}
    BY DEF MGLWndRelease
  <2> HIDE DEF e
  <2> QED BY <2>1, <2>2 DEF MesaDevice, Drawable
<1>5. MadeCurrent(d) \in MesaDevice
  BY DEF MadeCurrent, Sched, MesaDevice
<1> QED BY <1>1, <1>2, <1>3, <1>4, <1>5

LEMMA LearnType ==
  ASSUME NEW d \in MesaDevice, NEW w \in Drawable
  PROVE  cwnd_mesagl(d, w) \in MesaDevice
BY DEF cwnd_mesagl, MesaDevice

LEMMA PresetType ==
  ASSUME NEW d \in MesaDevice, NEW c, c.hnwnd \in Drawable, NEW app \in MesaApps,
         Preset(d, c, app)
  PROVE  m' \in MesaDevice
<1> DEFINE d1 == [d EXCEPT !.xvi = TRUE, !.wnd_ready = FALSE]
<1>1. d1 \in MesaDevice
  BY DEF MesaDevice
<1>2. cwnd_mesagl(d1, c.hnwnd) \in MesaDevice
  BY <1>1, LearnType
<1>3. MGLPresetPixelFormat(d, c) \in MesaDevice
  BY <1>1, <1>2 DEF MGLPresetPixelFormat
<1>4. \E e \in MesaDevice : m' = [e EXCEPT !.app = app]
  BY <1>3 DEF Preset
<1> QED BY <1>4 DEF MesaDevice

\* A context that is current is on a window, or on one that was there.
ThreadType == [who : {"none", "mesa", "glide"}, draw : Drawable]

LEMMA RestoreType == ASSUME TypeOK PROVE MGLRestoreCurrent \in ThreadType /\ glide_context_restore \in ThreadType
BY DEF TypeOK, MGLRestoreCurrent, glide_context_restore, ThreadType, MesaDevice, GlideDevice

LEMMA MesaStepType ==
  ASSUME TypeOK,
         \/ dispTimerProc \/ deactivateOneshot \/ deactivateGuiRefOneshot
         \/ MesaLoad \/ wglPixelFormat("waiting") \/ wglPixelFormat("chosen") \/ ChoosePolls
         \/ wglSetPixelFormat \/ wglCreateContext
         \/ mglMakeCurrent \/ MesaReleases \/ MGLSwapBuffers \/ SwapEnds
         \/ \E i \in BOOLEAN : ActivateHandler(i)
         \/ mglDeleteContext \/ MesaUnload \/ MesaDies
  PROVE  m' \in MesaDevice /\ g' = g /\ thread' \in ThreadType
<1>0. m \in MesaDevice /\ s \in Console /\ thread \in ThreadType /\ MGLRestoreCurrent \in ThreadType
  BY RestoreType DEF TypeOK, ThreadType
<1>1. Nobody \in ThreadType
  BY DEF Nobody, ThreadType, Drawable
<1>2. \A d \in MesaDevice, app \in MesaApps : [d EXCEPT !.app = app] \in MesaDevice
  BY DEF MesaDevice
<1>3. s.hnwnd \in Drawable /\ m.win \in Drawable
  BY <1>0 DEF Console, MesaDevice
<1>4. CASE dispTimerProc
  <2> DEFINE d == [m EXCEPT !.dispTimer = "idle"]
  <2>1. d \in MesaDevice
    BY <1>0 DEF MesaDevice
  <2> QED BY <1>0, <1>4, <2>1, DeviceOperators DEF dispTimerProc
<1>5. CASE deactivateOneshot \/ deactivateGuiRefOneshot
  BY <1>0, <1>5 DEF deactivateOneshot, deactivateGuiRefOneshot, MesaDevice
<1>6. CASE MesaLoad
  <2>1. Forgotten(m) \in MesaDevice
    BY <1>0, DeviceOperators
  <2> QED BY <1>0, <1>6, <2>1, <1>2 DEF MesaLoad, MesaApps
<1>7. ASSUME NEW app \in {"waiting", "chosen"}, wglPixelFormat(app)
      PROVE  m' \in MesaDevice /\ g' = g /\ thread' \in ThreadType
  <2>1. app \in MesaApps /\ Preset(m, s, app) /\ thread' = MGLRestoreCurrent /\ g' = g
    BY <1>7 DEF wglPixelFormat, MesaApps
  <2> QED BY <1>0, <1>3, <2>1, PresetType
<1>8. CASE ChoosePolls \/ MesaReleases \/ MesaDies
  BY <1>0, <1>2, <1>8 DEF ChoosePolls, MesaReleases, MesaDies, MesaApps
<1>9. CASE wglSetPixelFormat
  <2>1. thread' \in ThreadType /\ g' = g
    BY <1>0, <1>1, <1>9 DEF wglSetPixelFormat
  <2>2. CASE m.sameGeneration
    <3>1. Forgotten(m) \in MesaDevice /\ m' = [Forgotten(m) EXCEPT !.app = "formatted"]
      BY <1>0, <1>9, <2>2, DeviceOperators DEF wglSetPixelFormat
    <3> QED BY <2>1, <3>1, <1>2 DEF MesaApps
  <2>3. CASE ~m.sameGeneration
    <3>1. MGLWndRelease(m) \in MesaDevice
      BY <1>0, DeviceOperators
    <3>2. Preset(MGLWndRelease(m), WndReleased(m, s), "formatted")
      BY <1>9, <2>3 DEF wglSetPixelFormat
    <3>3. WndReleased(m, s) \in Console
      BY <1>0, ReleaseYields DEF WndReleased, Yields
    <3>4. WndReleased(m, s).hnwnd \in Drawable
      BY <3>3 DEF Console
    <3>5. m' \in MesaDevice
      BY <3>1, <3>2, <3>4, PresetType DEF MesaApps
    <3> QED BY <2>1, <3>5
  <2> QED BY <2>2, <2>3
<1>10. CASE wglCreateContext
  <2>1. Forgotten(m) \in MesaDevice
    BY <1>0, DeviceOperators
  <2>2. m' = [Forgotten(m) EXCEPT !.app = "created", !.context = TRUE]
    BY <1>10 DEF wglCreateContext
  <2>3. m' \in MesaDevice
    BY <2>1, <2>2 DEF MesaDevice, MesaApps
  <2> QED BY <1>1, <1>10, <2>3 DEF wglCreateContext
<1>11. CASE mglMakeCurrent
  <2> DEFINE d == ActivatedDevice(m, s, TRUE, FALSE)
             e == [d EXCEPT !.app = "current", !.remembered = TRUE, !.draw = m.win]
  <2>1. d \in MesaDevice
    BY <1>0, DeviceOperators
  <2>2. m' = MadeCurrent(e)
    BY <1>11 DEF mglMakeCurrent
  <2>3. e \in MesaDevice
    <3> HIDE DEF d
    <3> QED BY <2>1, <1>3 DEF MesaDevice, MesaApps
  <2>4. m' \in MesaDevice
    <3> HIDE DEF e
    <3> QED BY <2>2, <2>3, DeviceOperators
  <2>5. thread' = [who |-> "mesa", draw |-> m.win] /\ g' = g
    BY <1>11 DEF mglMakeCurrent
  <2> HIDE DEF d, e
  <2> QED BY <1>3, <2>4, <2>5 DEF ThreadType
<1>12. CASE MGLSwapBuffers
  <2> DEFINE d == ActivatedDevice(m, mesa_gl_takeover(s), TRUE, FALSE)
  <2>1. d \in MesaDevice
    BY <1>0, DeviceOperators
  <2>2. m' = [d EXCEPT !.app = "swapping"] /\ thread' = MGLRestoreCurrent /\ g' = g
    BY <1>12 DEF MGLSwapBuffers
  <2> HIDE DEF d
  <2> QED BY <1>0, <1>2, <2>1, <2>2 DEF MesaApps
<1>13. CASE SwapEnds
  BY <1>0, <1>13 DEF SwapEnds, Sched, MesaDevice, MesaApps
<1>14. ASSUME NEW i \in BOOLEAN, ActivateHandler(i)
       PROVE  m' \in MesaDevice /\ g' = g /\ thread' \in ThreadType
  <2> DEFINE d == ActivatedDevice(m, s, i, FALSE)
  <2>1. d \in MesaDevice
    BY <1>0, DeviceOperators
  <2>2. /\ m' = [d EXCEPT !.dispTimer = IF i THEN Sched(@) ELSE @]
        /\ thread' = MGLRestoreCurrent /\ g' = g
    BY <1>14 DEF ActivateHandler
  <2> HIDE DEF d
  <2>3. m' \in MesaDevice
    BY <2>1, <2>2 DEF Sched, MesaDevice
  <2> QED BY <1>0, <2>2, <2>3
<1>15. CASE mglDeleteContext
  <2> DEFINE d == MGLDeleteContext(m, s)
  <2>1. d \in MesaDevice
    BY <1>0, DeviceOperators
  <2>2. /\ m' = [d EXCEPT !.app = "formatted", !.context = IF m.current THEN FALSE ELSE @,
                          !.current = FALSE, !.dispTimer = IF m.current THEN "none" ELSE @]
        /\ thread' = Nobody /\ g' = g
    BY <1>15 DEF mglDeleteContext
  <2> HIDE DEF d
  <2>3. m' \in MesaDevice
    BY <2>1, <2>2 DEF MesaDevice, MesaApps
  <2> QED BY <1>1, <2>2, <2>3
<1>16. CASE MesaUnload
  <2> DEFINE e == MGLDeleteContext(m, s)
             d == IF m.context THEN [e EXCEPT !.context = FALSE] ELSE m
  <2>1. e \in MesaDevice
    BY <1>0, DeviceOperators
  <2>2. m' = [MGLWndRelease(d) EXCEPT !.app = "gone"] /\ g' = g
    BY <1>16 DEF MesaUnload
  <2>3. thread' \in {Nobody, MGLRestoreCurrent}
    BY <1>16 DEF MesaUnload
  <2>4. d \in MesaDevice
    <3> HIDE DEF e
    <3> QED BY <1>0, <2>1 DEF MesaDevice
  <2> HIDE DEF e, d
  <2>5. MGLWndRelease(d) \in MesaDevice
    BY <2>4, DeviceOperators
  <2> QED BY <1>0, <1>1, <1>2, <2>2, <2>3, <2>5 DEF MesaApps
<1> QED BY <1>4, <1>5, <1>6, <1>7, <1>8, <1>9, <1>10, <1>11, <1>12, <1>13, <1>14, <1>15, <1>16

LEMMA GlideStepType ==
  ASSUME TypeOK,
         \/ GlideLoad \/ grSstWinOpen \/ OpenPolls \/ GlideDraws
         \/ \E i \in BOOLEAN : grSstControl(i)
         \/ grSstWinClose \/ ClosePolls \/ GlideUnload
  PROVE  m' = m /\ g' \in GlideDevice /\ thread' \in ThreadType
<1> USE RestoreType DEF TypeOK, GlideDevice, GlideApps, Drawable
<1>0. thread \in ThreadType /\ s.hnwnd \in Drawable
  BY DEF ThreadType, Console
<1>1. CASE GlideLoad
  BY <1>0, <1>1 DEF GlideLoad
<1>2. CASE grSstWinOpen
  BY <1>0, <1>2 DEF grSstWinOpen
<1>3. CASE OpenPolls
  BY <1>0, <1>3 DEF OpenPolls, ThreadType
<1>4. CASE GlideDraws
  BY <1>0, <1>4 DEF GlideDraws
<1>5. ASSUME NEW i \in BOOLEAN, grSstControl(i) PROVE m' = m /\ g' \in GlideDevice /\ thread' \in ThreadType
  BY <1>0, <1>5 DEF grSstControl
<1>6. CASE grSstWinClose
  BY <1>0, <1>6 DEF grSstWinClose
<1>7. CASE ClosePolls
  BY <1>0, <1>7 DEF ClosePolls, Nobody, ThreadType
<1>8. CASE GlideUnload
  <2>1. Nobody \in ThreadType
    BY DEF Nobody, ThreadType
  <2>2. thread' \in ThreadType /\ m' = m
    BY <1>0, <1>8, <2>1 DEF GlideUnload
  <2>3. g' = [g EXCEPT !.app = "gone", !.activate = FALSE, !.hwnd = FALSE, !.context = "none",
                      !.window = "none"]
    BY <1>8 DEF GlideUnload
  <2> QED BY <2>2, <2>3
<1> QED BY <1>1, <1>2, <1>3, <1>4, <1>5, <1>6, <1>7, <1>8

LEMMA RestartType ==
  ASSUME TypeOK, sdl_gui_restart
  PROVE  m' \in MesaDevice /\ g' \in GlideDevice /\ thread' \in ThreadType
BY GoneType DEF TypeOK, sdl_gui_restart, MesaDevice, GlideDevice, ThreadType

LEMMA GuiStepType ==
  ASSUME TypeOK, sched_wndproc \/ sdl_return_display
  PROVE  m' \in MesaDevice /\ g' \in GlideDevice /\ thread' \in ThreadType
<1>0. m \in MesaDevice /\ g \in GlideDevice /\ thread \in ThreadType
  BY DEF TypeOK, ThreadType
<1>1. CASE wndproc_fxui_stat
  BY <1>0, <1>1 DEF wndproc_fxui_stat
<1>2. CASE wndproc_fxui_prepare_glide
  BY <1>0, <1>2, RestartType DEF wndproc_fxui_prepare_glide
<1>3. CASE wndproc_fxui_prepare_mesa
  <2> DEFINE d == [m EXCEPT !.draw = IF s.glHint THEN @ ELSE Gone(@)]
  <2>1. d \in MesaDevice
    BY <1>0, GoneType DEF MesaDevice
  <2>2. m' = cwnd_mesagl(d, "live")
    BY <1>3 DEF wndproc_fxui_prepare_mesa
  <2>3. m' \in MesaDevice
    <3> HIDE DEF d
    <3> QED BY <2>1, <2>2, LearnType DEF Drawable
  <2>4. [g EXCEPT !.context = Gone(@), !.window = Gone(@)] \in GlideDevice
    BY <1>0, GoneType DEF GlideDevice
  <2>5. [thread EXCEPT !.draw = Gone(@)] \in ThreadType
    BY <1>0, GoneType DEF ThreadType
  <2> QED BY <1>0, <1>3, <2>3, <2>4, <2>5 DEF wndproc_fxui_prepare_mesa
<1>4. CASE sched_wndproc_release \/ sdl_return_display
  BY <1>4, RestartType DEF sched_wndproc_release, sdl_return_display
<1> QED BY <1>1, <1>2, <1>3, <1>4 DEF sched_wndproc

LEMMA TypeInit == Init => TypeOK
BY DEF Init, TypeOK, Nobody, Console, MesaDevice, GlideDevice, Drawable, MesaApps, GlideApps

LEMMA UpsetStep ==
  ASSUME [Next]_vars, upset \in {"none", "key", "overwritten", "cut"}
  PROVE  /\ upset' \in {"none", "key", "overwritten", "cut"}
         /\ upset = "cut" => upset' = "cut"
         /\ Undisturbed' => Undisturbed
BY DEF Next, vars, Worse, Undisturbed

LEMMA TypeStep == ASSUME TypeOK, [Next]_vars PROVE TypeOK'
<1>0. upset' \in {"none", "key", "overwritten", "cut"}
  BY UpsetStep DEF TypeOK
<1>1. CASE sched_wndproc \/ sdl_return_display
  BY <1>0, <1>1, GuiConsole, GuiStepType DEF TypeOK, ThreadType
<1>2. CASE Devices
  <2>1. s' \in Console
    BY <1>2, DeviceKeepsWindow
  <2>2. m' \in MesaDevice /\ g' \in GlideDevice /\ thread' \in ThreadType
    BY <1>2, MesaStepType, GlideStepType, Zenon DEF Devices, TypeOK
  <2> QED BY <1>0, <2>1, <2>2 DEF TypeOK, ThreadType
<1>3. CASE UNCHANGED vars
  BY <1>3 DEF TypeOK, vars
<1> QED BY <1>1, <1>2, <1>3 DEF Next

\* The console, the two devices and the vCPU thread keep their types, for one
\* thread of the guest and for several.
THEOREM WindowTyped == Spec => []TypeOK
BY TypeInit, TypeStep, PTL DEF Spec

-----------------------------------------------------------------------------
(* ---- Glide's callback. -------------------------------------------------- *)

\* While Glide waits, the window is asked for in its name; nobody else asks.
CallbackInv ==
  upset # "cut" /\ g.app \in {"opening", "closing"} => s.cwnd_fn = "glide" /\ s.opaque

\* With one thread OpenGL asks for nothing while Glide waits.
LEMMA OneAsks ==
  ASSUME OneThread, Asks PROVE g.app \notin {"opening", "closing"}
BY DEF Asks, wglPixelFormat, wglSetPixelFormat, MesaUnload, MesaCalls

\* The GUI leaves the programs where they are.
LEMMA GuiApps ==
  ASSUME TypeOK, sched_wndproc \/ sdl_return_display
  PROVE  /\ g'.app = g.app /\ g'.window \in {g.window, Gone(g.window)}
         /\ m'.app = m.app /\ m'.last = m.last /\ m'.dispTimer = m.dispTimer
         /\ m'.context = m.context /\ m'.current = m.current
<1>0. m \in MesaDevice /\ g \in GlideDevice
  BY DEF TypeOK
<1>1. CASE wndproc_fxui_stat
  BY <1>1 DEF wndproc_fxui_stat
<1>2. ASSUME sdl_gui_restart
      PROVE  /\ g'.app = g.app /\ g'.window \in {g.window, Gone(g.window)}
             /\ m'.app = m.app /\ m'.last = m.last /\ m'.dispTimer = m.dispTimer
             /\ m'.context = m.context /\ m'.current = m.current
  BY <1>0, <1>2 DEF sdl_gui_restart, MesaDevice, GlideDevice
<1>3. CASE wndproc_fxui_prepare_glide
  BY <1>2, <1>3 DEF wndproc_fxui_prepare_glide
<1>4. CASE wndproc_fxui_prepare_mesa
  <2> DEFINE d == [m EXCEPT !.draw = IF s.glHint THEN @ ELSE Gone(@)]
  <2>1. /\ d \in MesaDevice /\ d.app = m.app /\ d.last = m.last /\ d.dispTimer = m.dispTimer
        /\ d.context = m.context /\ d.current = m.current
    BY <1>0, GoneType DEF MesaDevice
  <2>2. m' = cwnd_mesagl(d, "live")
    BY <1>4 DEF wndproc_fxui_prepare_mesa
  <2>3. /\ m'.app = m.app /\ m'.last = m.last /\ m'.dispTimer = m.dispTimer
        /\ m'.context = m.context /\ m'.current = m.current
    <3> HIDE DEF d
    <3> QED BY <2>1, <2>2 DEF cwnd_mesagl, MesaDevice
  <2>4. g' \in {g, [g EXCEPT !.context = Gone(@), !.window = Gone(@)]}
    BY <1>4 DEF wndproc_fxui_prepare_mesa
  <2>5. g'.app = g.app /\ g'.window \in {g.window, Gone(g.window)}
    BY <1>0, <2>4 DEF GlideDevice
  <2> QED BY <2>3, <2>5
<1>5. CASE sched_wndproc_release \/ sdl_return_display
  BY <1>2, <1>5 DEF sched_wndproc_release, sdl_return_display
<1> QED BY <1>1, <1>3, <1>4, <1>5 DEF sched_wndproc

\* OpenGL's steps, and those of Glide that start no wait.
LEMMA NoNewWait ==
  ASSUME TypeOK, Claims \/ Quiet \/ Asks \/ ClosePolls
  PROVE  /\ g'.app \in {"opening", "closing"} => g'.app = g.app
         /\ g'.app = "open" => OpenPolls \/ g' = g
<1>0. g \in GlideDevice
  BY DEF TypeOK
<1>1. CASE \/ dispTimerProc \/ deactivateOneshot \/ deactivateGuiRefOneshot
           \/ MesaLoad \/ wglPixelFormat("waiting") \/ wglPixelFormat("chosen") \/ ChoosePolls
           \/ wglSetPixelFormat \/ wglCreateContext
           \/ mglMakeCurrent \/ MesaReleases \/ MGLSwapBuffers \/ SwapEnds
           \/ \E i \in BOOLEAN : ActivateHandler(i)
           \/ mglDeleteContext \/ MesaUnload \/ MesaDies
  BY <1>1, MesaStepType
<1>2. CASE GlideLoad \/ ClosePolls
  BY <1>0, <1>2 DEF GlideLoad, ClosePolls, GlideDevice
<1>3. CASE OpenPolls
  BY <1>0, <1>3 DEF OpenPolls, GlideDevice
<1>4. CASE GlideDraws \/ \E i \in BOOLEAN : grSstControl(i)
  BY <1>4 DEF GlideDraws, grSstControl
<1> QED BY Zenon, <1>1, <1>2, <1>3, <1>4 DEF Claims, Quiet, Asks

\* The GUI serves requests; it does not change for whom they are.
LEMMA GuiOwner ==
  ASSUME TypeOK, sched_wndproc
  PROVE  SameOwner(s, s')
<1>0. s \in Console /\ Fired \in Console /\ SameOwner(s, Fired)
  BY DEF TypeOK, Console, Fired, SameOwner
<1>1. ASSUME NEW c \in Console
      PROVE  /\ SameOwner(c, Restarted(c)) /\ SameOwner(c, wndproc_fxui_gl_takeover(c))
             /\ SameOwner(c, Refreshed(c)) /\ SameOwner(c, [c EXCEPT !.renderer = TRUE])
             /\ SameOwner(c, [c EXCEPT !.glHint = TRUE, !.hnwnd = "live"])
             /\ SameOwner(c, [c EXCEPT !.takeover = "deferred", !.renderer = TRUE])
             /\ SameOwner(c, [c EXCEPT !.winctx = FALSE, !.glHint = FALSE, !.render_pause = FALSE,
                                       !.takeover = "done", !.ts = "none"])
  BY DEF SameOwner, Restarted, wndproc_fxui_gl_takeover, Refreshed, Console
<1>2. ASSUME NEW c, NEW d, NEW e, SameOwner(c, d), SameOwner(d, e) PROVE SameOwner(c, e)
  BY <1>2 DEF SameOwner
<1>3. ASSUME NEW c \in Console
      PROVE  SameOwner(c, Prepared(c)) /\ SameOwner(c, wndproc_fxui_release(c))
  <2>1. Restarted(c) \in Console /\ SameOwner(c, Restarted(c)) /\ SameOwner(c, c)
    BY <1>1, WndprocFacts DEF SameOwner
  <2> DEFINE b == IF c.glHint THEN c ELSE Restarted(c)
  <2>2. b \in Console /\ SameOwner(c, b)
    BY <2>1
  <2>3. Prepared(c) = [b EXCEPT !.glHint = TRUE, !.hnwnd = "live"]
    BY DEF Prepared
  <2>4. SameOwner(c, Prepared(c))
    <3> HIDE DEF b
    <3> QED BY <2>2, <2>3, <1>1, <1>2
  <2>5. SameOwner(c, wndproc_fxui_release(c))
    <3> DEFINE r == Restarted(c)
    <3>1. wndproc_fxui_release(c) = [r EXCEPT !.winctx = FALSE, !.glHint = FALSE, !.render_pause = FALSE,
                                              !.takeover = "done", !.ts = "none"]
      BY DEF wndproc_fxui_release
    <3>2. r \in Console /\ SameOwner(c, r)
      BY <2>1
    <3> HIDE DEF r
    <3> QED BY <3>1, <3>2, <1>1, <1>2
  <2> QED BY <2>4, <2>5
<1>4. ASSUME NEW c \in Console, SameOwner(s, c), s' = Refreshed(c) PROVE SameOwner(s, s')
  BY <1>4, <1>1, <1>2
<1>5. CASE wndproc_fxui_stat
  <2> DEFINE c == IF s.render_pause
                  THEN IF s.takeover # "done" THEN wndproc_fxui_gl_takeover(Fired) ELSE Fired
                  ELSE [Fired EXCEPT !.renderer = TRUE]
  <2>1. wndproc_fxui_gl_takeover(Fired) \in Console /\ SameOwner(s, wndproc_fxui_gl_takeover(Fired))
    BY <1>0, <1>1, <1>2, WndprocFacts
  <2>2. [Fired EXCEPT !.renderer = TRUE] \in Console /\ SameOwner(s, [Fired EXCEPT !.renderer = TRUE])
    BY <1>0, <1>1, <1>2 DEF Console
  <2>3. c \in Console /\ SameOwner(s, c)
    BY <1>0, <2>1, <2>2
  <2>4. s' = Refreshed(c)
    BY <1>5 DEF wndproc_fxui_stat
  <2> HIDE DEF c
  <2> QED BY <2>3, <2>4, <1>4
<1>6. CASE wndproc_fxui_prepare_glide
  <2> DEFINE c == Prepared(Fired)
             d == wndproc_fxui_gl_takeover(c)
  <2>1. c \in Console /\ SameOwner(s, c)
    BY <1>0, <1>2, <1>3, WndprocFacts
  <2>2. d \in Console /\ SameOwner(s, d)
    <3> HIDE DEF c
    <3> QED BY <2>1, <1>1, <1>2, WndprocFacts
  <2>3. s' = Refreshed(d)
    BY <1>6 DEF wndproc_fxui_prepare_glide
  <2> HIDE DEF d
  <2> QED BY <2>2, <2>3, <1>4
<1>7. CASE wndproc_fxui_prepare_mesa
  <2> DEFINE c == Prepared(Fired)
             d == [c EXCEPT !.takeover = "deferred", !.renderer = TRUE]
  <2>1. c \in Console /\ SameOwner(s, c)
    BY <1>0, <1>2, <1>3, WndprocFacts
  <2>2. d \in Console /\ SameOwner(s, d)
    <3> HIDE DEF c
    <3>1. d \in Console
      BY <2>1 DEF Console
    <3> QED BY <2>1, <3>1, <1>1, <1>2
  <2>3. s' = Refreshed(d)
    BY <1>7 DEF wndproc_fxui_prepare_mesa
  <2> HIDE DEF d
  <2> QED BY <2>2, <2>3, <1>4
<1>8. CASE sched_wndproc_release
  <2> DEFINE c == wndproc_fxui_release(Fired)
  <2>1. c \in Console /\ SameOwner(s, c)
    BY <1>0, <1>2, <1>3, WndprocFacts
  <2>2. s' = Refreshed(c)
    BY <1>8 DEF sched_wndproc_release
  <2> HIDE DEF c
  <2> QED BY <2>1, <2>2, <1>4
<1> QED BY <1>5, <1>6, <1>7, <1>8 DEF sched_wndproc

LEMMA CallbackStep ==
  ASSUME OneThread, TypeOK, CallbackInv, [Next]_vars
  PROVE  CallbackInv'
<1>0. s \in Console /\ g \in GlideDevice /\ (upset = "cut" => upset' = "cut")
  BY UpsetStep DEF TypeOK
<1>1. CASE UNCHANGED vars
  BY <1>1 DEF vars, CallbackInv
<1>2. CASE sched_wndproc /\ UNCHANGED upset
  <2>1. g'.app = g.app /\ SameOwner(s, s')
    BY <1>2, GuiApps, GuiOwner
  <2> QED BY <1>2, <2>1 DEF CallbackInv, SameOwner
<1>3. CASE /\ sdl_return_display
           /\ upset' = Worse(upset, IF Busy THEN "cut" ELSE "key")
  <2>1. g'.app = g.app
    BY <1>3, GuiApps
  <2>2. g.app \in {"opening", "closing"} => upset' = "cut"
    BY <1>3 DEF Busy, Worse
  <2> QED BY <2>1, <2>2 DEF CallbackInv
<1>4. CASE Devices
  <2>1. CASE Claims \/ Quiet
    <3>1. SameOwner(s, s')
      BY <2>1, ClaimSteps DEF Claim
    <3> QED BY <1>0, <2>1, <3>1, NoNewWait DEF CallbackInv, SameOwner
  <2>2. CASE Asks
    <3>1. g'.app \in {"opening", "closing"} => g'.app = g.app
      BY <2>2, NoNewWait
    <3> QED BY <2>2, <3>1, OneAsks DEF CallbackInv
  <2>3. CASE grSstWinOpen
    BY <1>0, <2>3, GlidePrepares DEF grSstWinOpen, CallbackInv
  <2>4. CASE grSstWinClose
    BY <1>0, <2>4, GlideReleases DEF grSstWinClose, CallbackInv
  <2>5. CASE ClosePolls
    <3>1. s'.cwnd_fn = s.cwnd_fn /\ s'.opaque = s.opaque
      BY <1>0, <2>5 DEF ClosePolls, Console
    <3>2. g'.app \in {"opening", "closing"} => g'.app = g.app
      BY <2>5, NoNewWait
    <3> QED BY <1>0, <3>1, <3>2 DEF CallbackInv
  <2>6. CASE GlideUnload
    BY <1>0, <2>6 DEF GlideUnload, GlideDevice, CallbackInv
  <2> QED BY <1>4, <2>1, <2>2, <2>3, <2>4, <2>5, <2>6, DeviceSteps
<1> QED BY <1>1, <1>2, <1>3, <1>4 DEF Next

\* With one thread of the guest, no callback runs for the Glide program's window
\* but Glide's own, from the request for the window to the end of the wait.
THEOREM CallbackOwned == ASSUME OneThread PROVE Spec => []OwnCallback
<1>1. Init => TypeOK /\ CallbackInv
  BY TypeInit DEF Init, CallbackInv
<1>2. TypeOK /\ CallbackInv /\ [Next]_vars => TypeOK' /\ CallbackInv'
  BY TypeStep, CallbackStep
<1>3. TypeOK /\ CallbackInv => OwnCallback
  BY DEF CallbackInv, OwnCallback
<1> HIDE DEF CallbackInv
<1> QED BY <1>1, <1>2, <1>3, PTL DEF Spec

-----------------------------------------------------------------------------
(* ---- Glide's window. ---------------------------------------------------- *)

\* A window with a context can do OpenGL, and one that can is there.
WindowInv ==
  /\ s.winctx \/ s.takeover # "done" => s.glHint
  /\ s.glHint => s.hnwnd = "live"

\* From its request on, and unless it has borrowed OpenGL's, Glide holds the
\* window or is next in line for it.
HoldInv ==
  Undisturbed /\ g.app \in {"opening", "open"} /\ ~s.glide_on_mesa =>
    /\ s.gui_saved_res /\ s.opaque
    /\ s.winctx \/ (g.app = "opening" /\ s.ts = "armed" /\ s.res = "size")
    /\ g.app = "open" => g.window = "live"

\* The window after a step of the GUI's timer.
LEMMA GuiWindow ==
  ASSUME TypeOK, WindowInv, sched_wndproc
  PROVE  /\ WindowInv'
         /\ s.gui_saved_res /\ s.opaque =>
              /\ s.winctx \/ (s.ts = "armed" /\ s.res = "size") => s'.winctx
              /\ s.winctx => g' = g
<1>0. /\ s \in Console /\ Fired \in Console /\ Fired.hnwnd = s.hnwnd /\ Fired.winctx = s.winctx
      /\ Fired.glHint = s.glHint /\ Fired.takeover = s.takeover
  BY DEF TypeOK, Console, Fired
<1>1. ASSUME NEW c \in Console
      PROVE  LET d == Refreshed(c) IN d.hnwnd = c.hnwnd /\ d.winctx = c.winctx /\ d.glHint = c.glHint
                                      /\ d.takeover = c.takeover
  BY DEF Refreshed, Console
<1>2. ASSUME NEW c \in Console
      PROVE  LET d == wndproc_fxui_gl_takeover(c)
             IN  d \in Console /\ d.hnwnd = c.hnwnd /\ d.winctx /\ d.glHint = c.glHint /\ d.takeover = "done"
  BY DEF wndproc_fxui_gl_takeover, Console
<1>3. ASSUME NEW c \in Console
      PROVE  LET d == Prepared(c)
             IN  d \in Console /\ d.hnwnd = "live" /\ d.winctx = c.winctx /\ d.glHint /\ d.takeover = c.takeover
  <2> DEFINE b == IF c.glHint THEN c ELSE Restarted(c)
  <2>0. LET r == Restarted(c) IN r \in Console /\ r.winctx = c.winctx /\ r.takeover = c.takeover
    <3>1. Restarted(c).winctx = c.winctx /\ Restarted(c).takeover = c.takeover
      BY DEF Restarted, Console
    <3> QED BY <3>1, WndprocFacts
  <2>1. b \in Console /\ b.winctx = c.winctx /\ b.takeover = c.takeover
    BY <2>0
  <2>2. Prepared(c) = [b EXCEPT !.glHint = TRUE, !.hnwnd = "live"]
    BY DEF Prepared
  <2> DEFINE e == [b EXCEPT !.glHint = TRUE, !.hnwnd = "live"]
  <2> HIDE DEF b
  <2>3. e \in Console
    BY <2>1 DEF Console, Drawable
  <2>4. e.hnwnd = "live" /\ e.glHint
    BY <2>1 DEF Console
  <2>5. e.winctx = c.winctx /\ e.takeover = c.takeover
    BY <2>1 DEF Console
  <2> QED BY <2>2, <2>3, <2>4, <2>5
<1>4. CASE wndproc_fxui_stat
  <2> DEFINE c == IF s.render_pause
                  THEN IF s.takeover # "done" THEN wndproc_fxui_gl_takeover(Fired) ELSE Fired
                  ELSE [Fired EXCEPT !.renderer = TRUE]
  <2> DEFINE f == [Fired EXCEPT !.renderer = TRUE]
  <2>1. /\ f \in Console /\ f.hnwnd = s.hnwnd /\ f.winctx = s.winctx
        /\ f.glHint = s.glHint /\ f.takeover = s.takeover
    BY <1>0 DEF Console
  <2>2. LET d == wndproc_fxui_gl_takeover(Fired)
        IN  d \in Console /\ d.hnwnd = s.hnwnd /\ d.winctx /\ d.glHint = s.glHint /\ d.takeover = "done"
    BY <1>0, <1>2
  <2>3. /\ c \in Console /\ c.hnwnd = s.hnwnd /\ c.glHint = s.glHint
        /\ c.winctx = s.winctx \/ (c.winctx /\ s.takeover # "done")
        /\ c.takeover # "done" => s.takeover # "done"
    BY <1>0, <2>1, <2>2
  <2>4. s' = Refreshed(c) /\ s.res = "stat" /\ g' = g
    BY <1>4 DEF wndproc_fxui_stat
  <2> HIDE DEF c
  <2>5. s'.hnwnd = c.hnwnd /\ s'.winctx = c.winctx /\ s'.glHint = c.glHint /\ s'.takeover = c.takeover
    BY <1>1, <2>3, <2>4
  <2> QED BY <2>3, <2>4, <2>5 DEF WindowInv, Console
<1>5. CASE wndproc_fxui_prepare_glide
  <2> DEFINE c == Prepared(Fired)
             d == wndproc_fxui_gl_takeover(c)
  <2>1. c \in Console /\ c.hnwnd = "live" /\ c.glHint
    BY <1>0, <1>3
  <2>2. d \in Console /\ d.hnwnd = "live" /\ d.glHint /\ d.winctx /\ d.takeover = "done"
    <3> HIDE DEF c
    <3> QED BY <2>1, <1>2
  <2>3. s' = Refreshed(d) /\ (s.glHint => g' = g)
    BY <1>5 DEF wndproc_fxui_prepare_glide
  <2> HIDE DEF d
  <2>4. s'.hnwnd = "live" /\ s'.winctx /\ s'.glHint /\ s'.takeover = "done"
    BY <1>1, <2>2, <2>3
  <2> QED BY <2>3, <2>4 DEF WindowInv
<1>6. CASE wndproc_fxui_prepare_mesa
  <2> DEFINE c == Prepared(Fired)
             d == [c EXCEPT !.takeover = "deferred", !.renderer = TRUE]
  <2>1. c \in Console /\ c.hnwnd = "live" /\ c.glHint
    BY <1>0, <1>3
  <2>2. d \in Console /\ d.hnwnd = "live" /\ d.glHint
    <3> HIDE DEF c
    <3> QED BY <2>1 DEF Console
  <2>3. s' = Refreshed(d) /\ ~s.opaque
    BY <1>6 DEF wndproc_fxui_prepare_mesa
  <2> HIDE DEF d
  <2>4. s'.hnwnd = "live" /\ s'.glHint
    BY <1>1, <2>2, <2>3
  <2> QED BY <2>3, <2>4 DEF WindowInv
<1>7. CASE sched_wndproc_release
  <2> DEFINE r == Restarted(Fired)
             d == wndproc_fxui_release(Fired)
  <2>1. r \in Console
    BY <1>0, WndprocFacts
  <2>2. d = [r EXCEPT !.winctx = FALSE, !.glHint = FALSE, !.render_pause = FALSE,
                      !.takeover = "done", !.ts = "none"]
    BY DEF wndproc_fxui_release
  <2> HIDE DEF r
  <2>3. d \in Console /\ ~d.winctx /\ ~d.glHint /\ d.takeover = "done"
    BY <2>1, <2>2 DEF Console
  <2>4. s' = Refreshed(d) /\ ~s.gui_saved_res
    BY <1>7 DEF sched_wndproc_release
  <2> HIDE DEF d
  <2>5. ~s'.winctx /\ ~s'.glHint /\ s'.takeover = "done"
    BY <1>1, <2>3, <2>4
  <2> QED BY <2>4, <2>5 DEF WindowInv
<1> QED BY <1>4, <1>5, <1>6, <1>7 DEF sched_wndproc

LEMMA KeyWindow == ASSUME TypeOK, sdl_return_display PROVE WindowInv'
<1> DEFINE r == Restarted(s)
           d == wndproc_fxui_release(s)
<1>1. r \in Console
  BY WndprocFacts DEF TypeOK
<1>2. d = [r EXCEPT !.winctx = FALSE, !.glHint = FALSE, !.render_pause = FALSE,
                    !.takeover = "done", !.ts = "none"]
  BY DEF wndproc_fxui_release
<1>3. s' = [d EXCEPT !.res = "size", !.opaque = FALSE, !.cwnd_fn = "none", !.gui_saved_res = FALSE,
                     !.glide_on_mesa = FALSE, !.mesa_on_glide = FALSE, !.passthrough = FALSE]
  BY DEF sdl_return_display
<1> HIDE DEF r, d
<1>4. d \in Console /\ ~d.winctx /\ ~d.glHint /\ d.takeover = "done"
  BY <1>1, <1>2 DEF Console
<1> QED BY <1>3, <1>4 DEF WindowInv, Console

LEMMA WindowStep == ASSUME TypeOK, WindowInv, [Next]_vars PROVE WindowInv'
<1>1. CASE UNCHANGED vars
  BY <1>1 DEF vars, WindowInv
<1>2. CASE Devices
  BY <1>2, DeviceKeepsWindow DEF WindowInv, SameWindow
<1> QED BY <1>1, <1>2, GuiWindow, KeyWindow DEF Next

LEMMA HoldStep == ASSUME TypeOK, WindowInv, HoldInv, [Next]_vars PROVE HoldInv'
<1>0. s \in Console /\ g \in GlideDevice
  BY DEF TypeOK
<1>1. CASE UNCHANGED vars
  BY <1>1 DEF vars, HoldInv, Undisturbed
<1>2. Undisturbed' => Undisturbed
  BY UpsetStep DEF TypeOK
<1>3. CASE sched_wndproc /\ UNCHANGED upset
  <2>1. g'.app = g.app /\ SameOwner(s, s')
    BY <1>3, GuiApps, GuiOwner
  <2> SUFFICES ASSUME Undisturbed, g.app \in {"opening", "open"}, ~s.glide_on_mesa
               PROVE  s'.gui_saved_res /\ s'.opaque /\ s'.winctx /\ (g.app = "open" => g'.window = "live")
    BY <1>2, <2>1 DEF HoldInv, SameOwner
  <2> QED BY <1>3, <2>1, GuiWindow DEF HoldInv, SameOwner
<1>4. CASE /\ sdl_return_display
           /\ upset' = Worse(upset, IF Busy THEN "cut" ELSE "key")
  <2>1. g'.app = g.app
    BY <1>4, GuiApps
  <2>2. g.app \in {"opening", "open"} => ~Undisturbed'
    BY <1>4 DEF Busy, Undisturbed, Worse
  <2> QED BY <2>1, <2>2 DEF HoldInv
<1>5. CASE Devices /\ upset' = Worse(upset, IF s.ts = "armed" /\ Request(s') # Request(s)
                                             THEN "overwritten" ELSE "none")
  <2>1. SameWindow(s, s')
    BY <1>5, DeviceKeepsWindow
  <2>2. Undisturbed' /\ s.ts = "armed" =>
          s'.res = s.res /\ s'.gui_saved_res = s.gui_saved_res /\ s'.opaque = s.opaque
    BY <1>5 DEF Undisturbed, Request, Worse
  <2>3. CASE Claims \/ Quiet \/ Asks
    <3>1. Yields(s, s')
      BY <2>3, ClaimSteps, ClaimYields, AskSteps
    <3>2. /\ g'.app = "opening" => g.app = "opening"
          /\ g'.app = "open" => OpenPolls \/ g' = g
      BY <2>3, NoNewWait
    <3> SUFFICES ASSUME Undisturbed', g'.app \in {"opening", "open"}, ~s'.glide_on_mesa
                 PROVE  /\ s'.gui_saved_res /\ s'.opaque
                        /\ s'.winctx \/ (g'.app = "opening" /\ s'.ts = "armed" /\ s'.res = "size")
                        /\ g'.app = "open" => g'.window = "live"
      BY DEF HoldInv
    <3>3. OpenPolls => g.app = "opening" /\ s.winctx /\ g'.window = s.hnwnd
      BY <1>0 DEF OpenPolls, GlideDevice
    <3>4. g.app \in {"opening", "open"} /\ ~s.glide_on_mesa /\ Undisturbed
      BY <1>2, <3>1, <3>2, <3>3 DEF Yields
    <3>5. /\ s.gui_saved_res /\ s.opaque
          /\ s.winctx \/ (g.app = "opening" /\ s.ts = "armed" /\ s.res = "size")
          /\ g.app = "open" => g.window = "live"
      BY <3>4 DEF HoldInv
    <3>6. s'.gui_saved_res /\ s'.opaque
      <4>1. CASE s.winctx
        BY <3>1, <3>5, <4>1 DEF Yields, SameOwner, glide_holds_window
      <4>2. CASE s.ts = "armed"
        BY <2>2, <3>5, <4>2
      <4> QED BY <3>5, <4>1, <4>2
    <3>7. CASE s.winctx
      <4>1. s'.winctx
        BY <2>1, <3>7 DEF SameWindow
      <4>2. g'.app = "open" => g'.window = "live"
        BY <3>2, <3>3, <3>5, <3>7 DEF WindowInv
      <4> QED BY <3>6, <4>1, <4>2
    <3>8. CASE ~s.winctx
      <4>1. g.app = "opening" /\ s.ts = "armed" /\ s.res = "size"
        BY <3>5, <3>8
      <4>2. s'.ts = "armed" /\ s'.res = "size"
        BY <2>1, <2>2, <4>1 DEF SameWindow
      <4>3. g'.app = "opening"
        BY <3>2, <3>3, <3>8, <4>1
      <4> QED BY <3>6, <4>2, <4>3
    <3> QED BY <3>7, <3>8
  <2>4. CASE grSstWinOpen
    <3>1. g'.app = "opening"
      BY <1>0, <2>4 DEF grSstWinOpen, GlideDevice
    <3> QED BY <1>0, <2>4, <3>1, GlidePrepares DEF grSstWinOpen, HoldInv
  <2>5. CASE grSstWinClose \/ ClosePolls \/ GlideUnload
    <3>1. g'.app \notin {"opening", "open"}
      BY <1>0, <2>5 DEF grSstWinClose, ClosePolls, GlideUnload, GlideDevice
    <3> QED BY <3>1 DEF HoldInv
  <2> QED BY <1>5, <2>3, <2>4, <2>5, DeviceSteps
<1> QED BY <1>1, <1>3, <1>4, <1>5 DEF Next

\* Whatever OpenGL asks for, and whether the guest has one thread or several, the
\* window of an open Glide program stays, unless a request was overwritten, the key
\* cut something short, or the window had been borrowed.
THEOREM GlideWindowStays == Spec => []GlideKeepsWindow
<1>1. Init => TypeOK /\ WindowInv /\ HoldInv
  BY TypeInit DEF Init, WindowInv, HoldInv
<1>2. TypeOK /\ WindowInv /\ HoldInv /\ [Next]_vars => TypeOK' /\ WindowInv' /\ HoldInv'
  BY TypeStep, WindowStep, HoldStep
<1>3. TypeOK /\ WindowInv /\ HoldInv => GlideKeepsWindow
  BY DEF HoldInv, GlideKeepsWindow
<1> HIDE DEF WindowInv, HoldInv
<1> QED BY <1>1, <1>2, <1>3, PTL DEF Spec

-----------------------------------------------------------------------------
(* ---- The watchdog. ------------------------------------------------------ *)

\* A context that has been current has a watchdog, set or not; a program that
\* has one current, or lets go of it, has the context.
WatchInv ==
  /\ Watched
  /\ m.current => m.dispTimer # "none"
  /\ m.app \in {"created", "current", "released", "swapping"} => m.context
  /\ m.app \in {"current", "released", "swapping"} => m.current

\* What a claim or the end of one does to the device.
LEMMA ActivatedFacts ==
  ASSUME NEW d \in MesaDevice, NEW c, NEW i \in BOOLEAN, NEW deferred \in BOOLEAN
  PROVE  /\ ActivatedDevice(d, c, i, deferred).app = d.app
         /\ ActivatedDevice(d, c, i, deferred).dispTimer = d.dispTimer
         /\ ActivatedDevice(d, c, i, deferred).context = d.context
         /\ ActivatedDevice(d, c, i, deferred).current = d.current
BY DEF ActivatedDevice, MesaDevice

LEMMA ClaimEnds ==
  ASSUME NEW d \in MesaDevice, NEW c, NEW deferred
  PROVE  ~ActivatedDevice(d, c, FALSE, deferred).last
BY DEF ActivatedDevice, Activates, MesaDevice

\* Nothing about the watchdog and the contexts but the end of a claim.
SameWatch(d, e) ==
  /\ e \in MesaDevice /\ e.app = d.app /\ e.dispTimer = d.dispTimer
  /\ e.context = d.context /\ e.current = d.current
  /\ e.last => d.last

LEMMA ForgottenFacts ==
  ASSUME NEW d \in MesaDevice, NEW c
  PROVE  /\ SameWatch(d, Forgotten(d)) /\ SameWatch(d, MGLWndRelease(d))
         /\ SameWatch(d, MGLDeleteContext(d, c)) /\ ~MGLDeleteContext(d, c).last
<1> DEFINE f == Forgotten(d)
<1>1. SameWatch(d, f)
  BY DeviceOperators DEF Forgotten, MesaDevice, SameWatch
<1>2. MGLWndRelease(d) \in {d, [f EXCEPT !.xvi = FALSE, !.win = "none"]}
  BY DEF MGLWndRelease
<1>3. MGLDeleteContext(d, c) = ActivatedDevice(f, c, FALSE, FALSE)
  BY DEF MGLDeleteContext
<1>4. MGLWndRelease(d) \in MesaDevice /\ MGLDeleteContext(d, c) \in MesaDevice
  BY DeviceOperators
<1> HIDE DEF f
<1>5. SameWatch(d, MGLDeleteContext(d, c)) /\ ~MGLDeleteContext(d, c).last
  <2> DEFINE e == MGLDeleteContext(d, c)
  <2>1. f \in MesaDevice
    BY <1>1 DEF SameWatch
  <2>2. ~e.last
    BY Zenon, <1>3, <2>1, ClaimEnds
  <2>3. e.app = f.app /\ e.dispTimer = f.dispTimer /\ e.context = f.context /\ e.current = f.current
    <3> DEFINE a == ActivatedDevice(f, c, FALSE, FALSE)
    <3>1. a.app = f.app /\ a.dispTimer = f.dispTimer /\ a.context = f.context /\ a.current = f.current
      BY <2>1, ActivatedFacts
    <3> HIDE DEF a
    <3> QED BY <1>3, <3>1 DEF a
  <2>4. e \in MesaDevice
    BY <1>4
  <2> HIDE DEF e
  <2>5. SameWatch(d, e)
    BY <1>1, <2>2, <2>3, <2>4 DEF SameWatch
  <2> QED BY <2>2, <2>5 DEF e
<1>6. SameWatch(d, MGLWndRelease(d))
  <2> DEFINE e == [f EXCEPT !.xvi = FALSE, !.win = "none"]
  <2>1. /\ e.app = d.app /\ e.dispTimer = d.dispTimer /\ e.context = d.context /\ e.current = d.current
        /\ e.last => d.last
    BY <1>1 DEF SameWatch, MesaDevice
  <2>2. e \in MesaDevice
    BY <1>1 DEF SameWatch, MesaDevice, Drawable
  <2>3. SameWatch(d, e)
    <3> HIDE DEF e
    <3> QED BY <2>1, <2>2 DEF SameWatch
  <2>4. SameWatch(d, d)
    BY DEF SameWatch
  <2>5. MGLWndRelease(d) = d \/ MGLWndRelease(d) = e
    BY <1>2
  <2> HIDE DEF e
  <2> QED BY <2>3, <2>4, <2>5
<1> QED BY <1>1, <1>5, <1>6 DEF f

LEMMA PresetWatch ==
  ASSUME NEW d \in MesaDevice, NEW c, c.hnwnd \in Drawable, NEW app \in MesaApps, Preset(d, c, app)
  PROVE  /\ m'.app = app /\ m'.dispTimer = d.dispTimer
         /\ m'.context = d.context /\ m'.current = d.current /\ m'.last = d.last
<1> DEFINE d1 == [d EXCEPT !.xvi = TRUE, !.wnd_ready = FALSE]
<1>1. /\ d1 \in MesaDevice /\ d1.dispTimer = d.dispTimer
      /\ d1.context = d.context /\ d1.current = d.current /\ d1.last = d.last
  BY DEF MesaDevice
<1>2. MGLPresetPixelFormat(d, c) \in {d1, cwnd_mesagl(d1, c.hnwnd)}
  BY DEF MGLPresetPixelFormat
<1>3. m' \in {[d EXCEPT !.app = app], [MGLPresetPixelFormat(d, c) EXCEPT !.app = app]}
  BY DEF Preset
<1> HIDE DEF d1
<1>4. LET e == cwnd_mesagl(d1, c.hnwnd)
      IN  /\ e \in MesaDevice /\ e.dispTimer = d.dispTimer
          /\ e.context = d.context /\ e.current = d.current /\ e.last = d.last
  BY <1>1, LearnType DEF cwnd_mesagl, MesaDevice
<1>5. \E e \in MesaDevice : /\ m' = [e EXCEPT !.app = app] /\ e.dispTimer = d.dispTimer
                          /\ e.context = d.context /\ e.current = d.current /\ e.last = d.last
  BY <1>1, <1>2, <1>3, <1>4
<1> QED BY <1>5 DEF MesaDevice

LEMMA WatchStep == ASSUME TypeOK, WatchInv, [Next]_vars PROVE WatchInv'
<1> USE DEF WatchInv, Watched
<1>0. m \in MesaDevice /\ s \in Console /\ s.hnwnd \in Drawable
  BY DEF TypeOK, Console
<1>1. ASSUME m' = m PROVE WatchInv'
  BY <1>1
<1>2. CASE sched_wndproc \/ sdl_return_display
  BY <1>2, GuiApps
<1>3. CASE dispTimerProc
  <2> DEFINE d == [m EXCEPT !.dispTimer = "idle"]
  <2>1. /\ d \in MesaDevice /\ d.app = m.app /\ d.dispTimer = "idle"
        /\ d.context = m.context /\ d.current = m.current
    BY <1>0 DEF MesaDevice
  <2>2. m' = ActivatedDevice(d, s, FALSE, TRUE)
    BY <1>3 DEF dispTimerProc
  <2> HIDE DEF d
  <2>3. ~m'.last
    BY Zenon, <2>1, <2>2, ClaimEnds
  <2>4. m'.app = d.app /\ m'.dispTimer = d.dispTimer /\ m'.context = d.context /\ m'.current = d.current
    <3> DEFINE a == ActivatedDevice(d, s, FALSE, TRUE)
    <3>1. a.app = d.app /\ a.dispTimer = d.dispTimer /\ a.context = d.context /\ a.current = d.current
      BY <2>1, ActivatedFacts
    <3> HIDE DEF a
    <3> QED BY <2>2, <3>1 DEF a
  <2> QED BY <2>1, <2>3, <2>4
<1>4. CASE deactivateOneshot \/ deactivateGuiRefOneshot
  BY <1>0, <1>4 DEF deactivateOneshot, deactivateGuiRefOneshot, MesaDevice
<1>5. CASE MesaLoad
  <2> DEFINE d == Forgotten(m)
  <2>1. SameWatch(m, d) /\ m' = [d EXCEPT !.app = "loaded"] /\ m.app = "gone"
    BY <1>0, <1>5, ForgottenFacts DEF MesaLoad
  <2> HIDE DEF d
  <2> QED BY <1>0, <2>1 DEF SameWatch, MesaDevice
<1>6. ASSUME NEW app \in {"waiting", "chosen"}, wglPixelFormat(app) PROVE WatchInv'
  <2>1. app \in MesaApps /\ Preset(m, s, app) /\ m.app = "loaded"
    BY <1>6 DEF wglPixelFormat, MesaApps
  <2> QED BY <1>0, <2>1, PresetWatch
<1>7. CASE ChoosePolls \/ MesaReleases \/ MesaDies
  BY <1>0, <1>7 DEF ChoosePolls, MesaReleases, MesaDies, MesaDevice
<1>8. CASE wglSetPixelFormat
  <2>0. m.app = "chosen"
    BY <1>8 DEF wglSetPixelFormat
  <2>1. CASE m.sameGeneration
    <3> DEFINE d == Forgotten(m)
    <3>1. SameWatch(m, d) /\ m' = [d EXCEPT !.app = "formatted"]
      BY <1>0, <1>8, <2>1, ForgottenFacts DEF wglSetPixelFormat
    <3> HIDE DEF d
    <3> QED BY <1>0, <2>0, <3>1 DEF SameWatch, MesaDevice
  <2>2. CASE ~m.sameGeneration
    <3> DEFINE d == MGLWndRelease(m)
               c == WndReleased(m, s)
    <3>1. SameWatch(m, d) /\ Preset(d, c, "formatted")
      BY <1>0, <1>8, <2>2, ForgottenFacts DEF wglSetPixelFormat
    <3>2. c.hnwnd \in Drawable
      <4>1. c \in Console
        BY <1>0, ReleaseYields DEF WndReleased, Yields
      <4> QED BY <4>1 DEF Console
    <3> HIDE DEF d, c
    <3>3. /\ m'.app = "formatted" /\ m'.dispTimer = d.dispTimer
          /\ m'.context = d.context /\ m'.current = d.current /\ m'.last = d.last
      BY <3>1, <3>2, PresetWatch DEF SameWatch, MesaApps
    <3> QED BY <2>0, <3>1, <3>3 DEF SameWatch
  <2> QED BY <2>1, <2>2
<1>9. CASE wglCreateContext
  <2> DEFINE d == Forgotten(m)
  <2>1. SameWatch(m, d) /\ m' = [d EXCEPT !.app = "created", !.context = TRUE] /\ m.app = "formatted"
    BY <1>0, <1>9, ForgottenFacts DEF wglCreateContext
  <2> HIDE DEF d
  <2> QED BY <1>0, <2>1 DEF SameWatch, MesaDevice
<1>10. CASE mglMakeCurrent
  <2> DEFINE d == ActivatedDevice(m, s, TRUE, FALSE)
             e == [d EXCEPT !.app = "current", !.remembered = TRUE, !.draw = m.win]
  <2>1. d \in MesaDevice /\ d.dispTimer = m.dispTimer /\ d.context = m.context /\ d.current = m.current
    BY <1>0, ActivatedFacts, DeviceOperators
  <2>2. /\ e \in MesaDevice /\ e.app = "current" /\ e.dispTimer = m.dispTimer
        /\ e.context = m.context /\ e.current = m.current
    <3> HIDE DEF d
    <3> QED BY <1>0, <2>1 DEF MesaDevice, MesaApps
  <2>3. m' = MadeCurrent(e) /\ m.context
    BY <1>10 DEF mglMakeCurrent
  <2> HIDE DEF e
  <2>4. CASE ~e.current
    <3>1. m' = [e EXCEPT !.current = TRUE, !.dispTimer = "armed"]
      BY <2>2, <2>3, <2>4 DEF MadeCurrent
    <3> QED BY <2>2, <2>3, <3>1 DEF MesaDevice
  <2>5. CASE e.current
    <3>1. m' = [e EXCEPT !.dispTimer = Sched(@)]
      BY <2>2, <2>3, <2>5 DEF MadeCurrent
    <3>2. e.dispTimer # "none"
      BY <2>2, <2>5
    <3> QED BY <2>2, <2>3, <2>5, <3>1, <3>2 DEF MesaDevice, Sched
  <2> QED BY <2>4, <2>5
<1>11. CASE MGLSwapBuffers
  <2> DEFINE d == ActivatedDevice(m, mesa_gl_takeover(s), TRUE, FALSE)
  <2>1. /\ d \in MesaDevice /\ d.dispTimer = m.dispTimer /\ d.context = m.context /\ d.current = m.current
        /\ m' = [d EXCEPT !.app = "swapping"] /\ m.app = "current"
    BY <1>0, <1>11, ActivatedFacts, DeviceOperators DEF MGLSwapBuffers
  <2> HIDE DEF d
  <2> QED BY <1>0, <2>1 DEF MesaDevice
<1>12. CASE SwapEnds
  BY <1>0, <1>12 DEF SwapEnds, Sched, MesaDevice
<1>13. ASSUME NEW i \in BOOLEAN, ActivateHandler(i) PROVE WatchInv'
  <2> DEFINE d == ActivatedDevice(m, s, i, FALSE)
  <2>0. d \in MesaDevice
    BY <1>0, DeviceOperators
  <2>1. d.app = m.app /\ d.dispTimer = m.dispTimer /\ d.context = m.context /\ d.current = m.current
    <3>1. m \in MesaDevice /\ FALSE \in BOOLEAN
      BY <1>0
    <3>2. d.app = m.app /\ d.dispTimer = m.dispTimer
      BY ONLY <3>1, ActivatedFacts
    <3>3. d.context = m.context /\ d.current = m.current
      BY ONLY <3>1, ActivatedFacts
    <3> QED BY <3>2, <3>3
  <2>3. ~i => ~d.last
    <3>1. ~i => i = FALSE
      OBVIOUS
    <3>2. ~ActivatedDevice(m, s, FALSE, FALSE).last
      BY Zenon, <1>0, ClaimEnds
    <3> QED BY Zenon, <3>1, <3>2
  <2>2. /\ m' = [d EXCEPT !.dispTimer = IF i THEN Sched(@) ELSE @]
        /\ m.current /\ m.app \in {"current", "released"}
    BY <1>13 DEF ActivateHandler
  <2> HIDE DEF d
  <2> QED BY <1>0, <2>0, <2>1, <2>2, <2>3 DEF Sched, MesaDevice
<1>14. CASE mglDeleteContext
  <2> DEFINE d == MGLDeleteContext(m, s)
  <2>1. SameWatch(m, d) /\ ~d.last
    BY <1>0, ForgottenFacts
  <2>2. m' = [d EXCEPT !.app = "formatted", !.context = IF m.current THEN FALSE ELSE @,
                       !.current = FALSE, !.dispTimer = IF m.current THEN "none" ELSE @]
    BY <1>14 DEF mglDeleteContext
  <2> HIDE DEF d
  <2> QED BY <2>1, <2>2 DEF SameWatch, MesaDevice
<1>15. CASE MesaUnload
  <2> DEFINE e == MGLDeleteContext(m, s)
             d == IF m.context THEN [e EXCEPT !.context = FALSE] ELSE m
  <2>1. SameWatch(m, e) /\ ~e.last
    BY <1>0, ForgottenFacts
  <2>2. m' = [MGLWndRelease(d) EXCEPT !.app = "gone"]
    BY <1>15 DEF MesaUnload
  <2>3. m.app # "swapping"
    BY <1>15 DEF MesaUnload
  <2>4. d \in MesaDevice /\ d.dispTimer = m.dispTimer /\ d.current = m.current /\ (d.last => m.last)
    <3> HIDE DEF e
    <3> QED BY <1>0, <2>1 DEF SameWatch, MesaDevice
  <2> HIDE DEF e, d
  <2> DEFINE f == MGLWndRelease(d)
  <2>5. SameWatch(d, f)
    BY <2>4, ForgottenFacts
  <2>6. m' = [f EXCEPT !.app = "gone"]
    BY <2>2
  <2> HIDE DEF f
  <2> QED BY <2>3, <2>4, <2>5, <2>6 DEF SameWatch, MesaDevice
<1>16. CASE \/ GlideLoad \/ grSstWinOpen \/ OpenPolls \/ GlideDraws
            \/ \E i \in BOOLEAN : grSstControl(i)
            \/ grSstWinClose \/ ClosePolls \/ GlideUnload
  BY <1>1, <1>16, GlideStepType
<1>17. CASE Devices
  BY Zenon, <1>17, <1>3, <1>4, <1>5, <1>6, <1>7, <1>8, <1>9, <1>10, <1>11, <1>12, <1>13, <1>14, <1>15, <1>16
  DEF Devices
<1>18. CASE UNCHANGED vars
  BY <1>1, <1>18 DEF vars
<1> QED BY <1>2, <1>17, <1>18 DEF Next

\* OpenGL never claims the window without a watchdog that gives it back, but for the
\* time of a swap: also when the program dies and another one is started.
THEOREM ClaimWatched == Spec => []Watched
<1>1. Init => TypeOK /\ WatchInv
  BY TypeInit DEF Init, WatchInv, Watched
<1>2. TypeOK /\ WatchInv /\ [Next]_vars => TypeOK' /\ WatchInv'
  BY TypeStep, WatchStep
<1>3. WatchInv => Watched
  BY DEF WatchInv
<1> HIDE DEF WatchInv
<1> QED BY <1>1, <1>2, <1>3, PTL DEF Spec
=============================================================================
