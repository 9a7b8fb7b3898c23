---------------------------- MODULE RosalinaMenu ----------------------------
(***************************************************************************)
(* What rosalina draws on the screen and the pauses it needs: its menu     *)
(* (rosalina/source/menu.c, menus.c), the dialogs of the error display     *)
(* (errdisp.c) and of plugins (plugin/display.c), the screen filters       *)
(* (menus/screen_filters.c), the notifications that end them (main.c), and *)
(* the state of the kernel extension by which applications and gsp are     *)
(* paused (k11_extension, svc/KernelSetState.c, synchronization.c, svc.c). *)
(*                                                                         *)
(* Three threads of rosalina take part: "menu" (menuThreadMain), "errdisp" *)
(* (errDispThreadMain) and "main", which serves notifications and the      *)
(* service of the plugins.  KernelSetState inverts bits: whoever pauses    *)
(* and resumes relies on every other thread to leave its bit as it is.     *)
(***************************************************************************)
EXTENDS Integers

CONSTANTS
  Preemptible,   \* a thread may be descheduled inside the kernel
  LateShell,     \* the lid may be opened, or the console wake up, between
                 \* pre-termination and the end
  Items,         \* the entries of the menu: "brightness", "power"
  LeastRefCount  \* bound: no dialog begins below this menuRefCount

MenuAssumption ==
  /\ Preemptible \in BOOLEAN /\ LateShell \in BOOLEAN
  /\ Items \subseteq {"brightness", "power"}
  /\ LeastRefCount \in Int

VARIABLES
  menuRefCount,
  framebufferCache,         \* whether there is one
  drawLock,                 \* the owner of the recursive lock, and how often
  menuShouldExit,
  preTerminationRequested,
  rosalinaOpen,
  rosalinaState,            \* the kernel's bits: "app" (1) and "gsp" (2)
  paused,                   \* whose threads carry the scheduling bit 0x40
  app,                      \* an application's thread: in its code or at
                            \* the end of a system call
  th,                       \* the threads: where each is and returns to
  crashed,                  \* a trap, or a copy from a null pointer
  outOfTurn                 \* menuEnter and menuLeave have lost their order

vars == <<menuRefCount, framebufferCache, drawLock, menuShouldExit,
          preTerminationRequested, rosalinaOpen, rosalinaState, paused, app, th,
          crashed, outOfTurn>>

screen == <<menuRefCount, framebufferCache>>
flags == <<menuShouldExit, preTerminationRequested, rosalinaOpen>>
kernel == <<rosalinaState, paused, app>>
ghosts == <<crashed, outOfTurn>>

Threads == {"menu", "errdisp", "main"}
Nobody == "nobody"
Nowhere == "nowhere"

\* at: the place; then: the place after a call of menuEnter, menuLeave or
\* handleShellOpened; bits: what is left of a call of KernelSetState, and
\* after: the place after it.
Thread(at) == [at |-> at, then |-> Nowhere, bits |-> {}, after |-> Nowhere]

Init ==
  /\ menuRefCount = 0
  /\ framebufferCache = FALSE
  /\ drawLock = [owner |-> Nobody, count |-> 0]
  /\ menuShouldExit = FALSE
  /\ preTerminationRequested = FALSE
  /\ rosalinaOpen = FALSE
  /\ rosalinaState = {}
  /\ paused = {}
  /\ app = "user"
  /\ th = [t \in Threads |-> Thread(CASE t = "menu" -> "start"
                                      [] t = "errdisp" -> "receive"
                                      [] t = "main" -> "run")]
  /\ crashed = FALSE
  /\ outOfTurn = FALSE

-----------------------------------------------------------------------------
(* Places, calls and the lock of the screen *)

InKernel == {t \in Threads : th[t].at \in {"xor", "decide", "pause", "resume"}}

\* Whether t runs: nothing does after a crash, and a call of KernelSetState is
\* left before another thread of rosalina's core goes on, and the end of a
\* system call before one of rosalina's, or not.
Runs(t) == ~crashed /\ (Preemptible \/ (InKernel \subseteq {t} /\ app = "user"))

At(t, place) == Runs(t) /\ th[t].at = place

Goto(t, place) == th' = [th EXCEPT ![t].at = place]
Call(t, place, then) == th' = [th EXCEPT ![t].at = place, ![t].then = then]
Return(t) == th' = [th EXCEPT ![t].at = th[t].then, ![t].then = Nowhere]
Toggle(t, bits, after) ==
  th' = [th EXCEPT ![t].at = "xor", ![t].bits = bits, ![t].after = after]

\* Where t is, or will be when its call of KernelSetState returns.
Place(t) == IF t \in InKernel THEN th[t].after ELSE th[t].at

\* The threads that have a dialog or apply filters.
Idle == {"start", "loop", "receive", "run", "preTerm", "joining", "ended"}
Drawing == {t \in Threads : Place(t) \notin Idle}

Draw_Lock(t) ==
  /\ drawLock.owner \in {Nobody, t}
  /\ drawLock' = [owner |-> t, count |-> drawLock.count + 1]
Draw_Unlock(t) ==
  drawLock' = IF drawLock.count = 1 THEN [owner |-> Nobody, count |-> 0]
              ELSE [drawLock EXCEPT !.count = @ - 1]

\* A short section under the lock that only reads: it has to be free.
CanLock(t) == drawLock.owner \in {Nobody, t}

-----------------------------------------------------------------------------
(* The kernel *)

\* KernelSetState, type 0x10000: the bits are inverted in one access,
Xor(t) ==
  /\ At(t, "xor")
  /\ rosalinaState' = (rosalinaState \cup th[t].bits) \ (rosalinaState \cap th[t].bits)
  /\ Goto(t, "decide")
  /\ UNCHANGED <<screen, drawLock, flags, paused, app, ghosts>>

\* Mutant: what was asked for is decided before the bits are inverted.
BitIsSetEarly(v) == v \notin rosalinaState

BitIsSet(v) == v \in rosalinaState

\* then for gsp first each bit is read again,
Decide(t) ==
  /\ At(t, "decide")
  /\ LET v == IF "gsp" \in th[t].bits THEN "gsp" ELSE "app"
     IN IF th[t].bits = {}
        THEN th' = [th EXCEPT ![t].at = th[t].after, ![t].after = Nowhere]
        ELSE Goto(t, IF BitIsSet(v) THEN "pause" ELSE "resume")
  /\ UNCHANGED <<screen, drawLock, flags, kernel, ghosts>>

\* and its threads are locked or unlocked.
LockOrUnlock(t) ==
  /\ At(t, "pause") \/ At(t, "resume")
  /\ LET v == IF "gsp" \in th[t].bits THEN "gsp" ELSE "app"
     IN /\ paused' = IF th[t].at = "pause" THEN paused \cup {v} ELSE paused \ {v}
        /\ th' = [th EXCEPT ![t].at = "decide", ![t].bits = @ \ {v}]
  /\ UNCHANGED <<screen, drawLock, flags, rosalinaState, app, ghosts>>

\* postprocessSvc: an application's thread that comes out of a system call
\* between the two finds that it is to be paused.
PostprocessSvc ==
  /\ ~crashed /\ app = "user" /\ "app" \in rosalinaState \ paused
  /\ app' = "post"
  /\ UNCHANGED <<screen, drawLock, flags, rosalinaState, paused, th, ghosts>>

\* It does, at once or after it was descheduled.
PauseItself ==
  /\ ~crashed /\ app = "post" /\ "app" \notin paused
  /\ paused' = paused \cup {"app"}
  /\ app' = "user"
  /\ UNCHANGED <<screen, drawLock, flags, rosalinaState, th, ghosts>>

-----------------------------------------------------------------------------
(* menuEnter and menuLeave *)

\* t goes on to menuEnter.  From now on the dialog is its own.
Begin(t, then) ==
  /\ menuRefCount >= LeastRefCount
  /\ Call(t, "enter", then)
  /\ outOfTurn' = (outOfTurn \/ Drawing \ {t} # {})

LockToEnter(t) ==
  /\ At(t, "enter")
  /\ Draw_Lock(t)
  /\ Goto(t, "entering")
  /\ UNCHANGED <<screen, flags, kernel, ghosts>>

NothingShown == ~menuShouldExit /\ menuRefCount = 0

menuEnter(t) ==
  /\ At(t, "entering")
  /\ IF NothingShown
     THEN /\ menuRefCount' = menuRefCount + 1
          /\ Toggle(t, {"app", "gsp"}, "allocate")
          /\ UNCHANGED outOfTurn
     ELSE /\ Goto(t, "unlock")
          /\ outOfTurn' = TRUE
          /\ UNCHANGED menuRefCount
  /\ UNCHANGED <<framebufferCache, drawLock, flags, kernel, crashed>>

\* Draw_AllocateFramebufferCache, which may fail and traps when there is one.
Allocate(t) ==
  /\ At(t, "allocate")
  /\ IF framebufferCache
     THEN crashed' = TRUE /\ UNCHANGED <<screen, th, outOfTurn>>
     ELSE \/ /\ framebufferCache' = TRUE
             /\ Goto(t, "unlock")
             /\ UNCHANGED <<menuRefCount, ghosts>>
          \/ /\ menuRefCount' = 0
             /\ Toggle(t, {"app", "gsp"}, "unlock")
             /\ outOfTurn' = TRUE
             /\ UNCHANGED <<framebufferCache, crashed>>
  /\ UNCHANGED <<drawLock, flags, kernel>>

Unlock(t) ==
  /\ At(t, "unlock")
  /\ Draw_Unlock(t)
  /\ Return(t)
  /\ UNCHANGED <<screen, flags, kernel, ghosts>>

LockToLeave(t) ==
  /\ At(t, "leave")
  /\ Draw_Lock(t)
  /\ Goto(t, "leaving")
  /\ UNCHANGED <<screen, flags, kernel, ghosts>>

LastLeaves == menuRefCount = 1

\* The framebuffer is restored from the cache, which is a null pointer when
\* there is none.
menuLeave(t) ==
  /\ At(t, "leaving")
  /\ menuRefCount' = menuRefCount - 1
  /\ IF LastLeaves
     THEN /\ framebufferCache' = FALSE
          /\ crashed' = ~framebufferCache
          /\ Toggle(t, {"app", "gsp"}, "unlock")
     ELSE Goto(t, "unlock") /\ UNCHANGED <<framebufferCache, crashed>>
  /\ UNCHANGED <<drawLock, flags, kernel, outOfTurn>>

-----------------------------------------------------------------------------
(* The menu, by the menu thread or for the home button by main *)

openRosalina(t) ==
  /\ ~rosalinaOpen /\ ~menuShouldExit
  /\ Begin(t, "show")
  /\ rosalinaOpen' = TRUE
  /\ UNCHANGED <<screen, drawLock, menuShouldExit, preTerminationRequested, kernel, crashed>>

\* The menu thread sees the combination of keys.
MenuCombo ==
  /\ At("menu", "loop") /\ CanLock("menu")
  /\ ~preTerminationRequested
  /\ openRosalina("menu")

\* B in the first menu, or a reason to exit, which is seen in any menu.
CloseMenu(t) ==
  /\ At(t, "show") /\ CanLock(t)
  /\ Call(t, "leave", "closed")
  /\ UNCHANGED <<screen, drawLock, flags, kernel, ghosts>>

ExitMenu(t) == menuShouldExit /\ CloseMenu(t)
PressB(t) == ~menuShouldExit /\ CloseMenu(t)

MenuClosed(t) ==
  /\ At(t, "closed")
  /\ rosalinaOpen' = FALSE
  /\ Goto(t, IF t = "menu" THEN "loop" ELSE "run")
  /\ UNCHANGED <<screen, drawLock, menuShouldExit, preTerminationRequested, kernel, ghosts>>

\* RosalinaMenu_ChangeScreenBrightness: the framebuffer is given back and gsp
\* runs, all under the lock,
ChangeBrightness(t) ==
  /\ At(t, "show") /\ "brightness" \in Items /\ ~menuShouldExit
  /\ Draw_Lock(t)
  /\ framebufferCache' = FALSE
  /\ crashed' = ~framebufferCache
  /\ Toggle(t, {"gsp"}, "brightness")
  /\ UNCHANGED <<menuRefCount, flags, kernel, outOfTurn>>

\* until B or a reason to exit, once gsp has answered gspLcdInit.
BrightnessChanged(t) ==
  /\ At(t, "brightness")
  /\ "gsp" \notin paused
  /\ Toggle(t, {"gsp"}, "reallocate")
  /\ UNCHANGED <<screen, drawLock, flags, kernel, ghosts>>

Reallocate(t) ==
  /\ At(t, "reallocate")
  /\ crashed' = framebufferCache
  /\ framebufferCache' = TRUE
  /\ Call(t, "unlock", "show")
  /\ UNCHANGED <<menuRefCount, drawLock, flags, kernel, outOfTurn>>

\* RosalinaMenu_PowerPerformanceOptions: the menu is left, and shown again
\* until the termination comes.
PowerOff(t) ==
  /\ At(t, "show") /\ "power" \in Items /\ ~menuShouldExit
  /\ menuRefCount >= LeastRefCount
  /\ Call(t, "leave", "show")
  /\ outOfTurn' = TRUE
  /\ UNCHANGED <<screen, drawLock, flags, kernel, crashed>>

\* menuThreadMain before its loop, and its end.
MenuThreadStarts ==
  /\ At("menu", "start")
  /\ Call("menu", "filter", "loop")
  /\ outOfTurn' = (outOfTurn \/ Drawing # {})
  /\ UNCHANGED <<screen, drawLock, flags, kernel, crashed>>

MenuThreadEnds ==
  /\ At("menu", "loop") /\ preTerminationRequested
  /\ Goto("menu", "ended")
  /\ UNCHANGED <<screen, drawLock, flags, kernel, ghosts>>

-----------------------------------------------------------------------------
(* The dialogs of errdisp and of plugins: the lock is held until the end *)

\* ERRF:Throw, shown and then continued.
Throw ==
  /\ At("errdisp", "receive") /\ ~preTerminationRequested /\ ~menuShouldExit
  /\ Begin("errdisp", "dialog")
  /\ UNCHANGED <<screen, drawLock, flags, kernel, crashed>>

ErrDispEnds ==
  /\ At("errdisp", "receive") /\ preTerminationRequested
  /\ Goto("errdisp", "ended")
  /\ UNCHANGED <<screen, drawLock, flags, kernel, ghosts>>

\* DispMessage, DispErrMessage and DisplayPluginMenu, by main.
PluginMessage ==
  /\ At("main", "run")
  /\ Begin("main", "dialog")
  /\ UNCHANGED <<screen, drawLock, flags, kernel, crashed>>

ShowDialog(t) ==
  /\ At(t, "dialog")
  /\ Draw_Lock(t)
  /\ Goto(t, "wait")
  /\ UNCHANGED <<screen, flags, kernel, ghosts>>

EndDialog(t) ==
  /\ At(t, "wait")
  /\ Draw_Unlock(t)
  /\ Call(t, "leave", IF t = "errdisp" THEN "receive" ELSE "run")
  /\ UNCHANGED <<screen, flags, kernel, ghosts>>

\* waitInput returns for menuShouldExit; a plugin's message waits for B, and
\* preTerminationRequested is set by nobody but main itself.
ExitDialog == menuShouldExit /\ EndDialog("errdisp")
PressKey(t) == (t = "main" \/ ~menuShouldExit) /\ EndDialog(t)

-----------------------------------------------------------------------------
(* ScreenFiltersMenu_RestoreSettings, of settings that are not the default *)

PauseGsp(t) ==
  /\ At(t, "filter")
  /\ Toggle(t, {"gsp"}, "apply")
  /\ UNCHANGED <<screen, drawLock, flags, kernel, ghosts>>

ApplyColorSettings(t) ==
  /\ At(t, "apply")
  /\ Toggle(t, {"gsp"}, "filtered")
  /\ UNCHANGED <<screen, drawLock, flags, kernel, ghosts>>

\* main has one more assignment to make (handleShellNotification, line 202).
Filtered(t) ==
  /\ At(t, "filtered")
  /\ menuShouldExit' = (menuShouldExit /\ t # "main")
  /\ Return(t)
  /\ UNCHANGED <<screen, drawLock, preTerminationRequested, rosalinaOpen, kernel, ghosts>>

-----------------------------------------------------------------------------
(* The notifications main handles *)

\* The lid was closed, or the console is asked to sleep.
ShellClosed ==
  /\ At("main", "run") /\ ~menuShouldExit
  /\ menuShouldExit' = TRUE
  /\ UNCHANGED <<screen, drawLock, preTerminationRequested, rosalinaOpen, kernel, th, ghosts>>

ShellOpened ==
  /\ At("main", "run")
  /\ LateShell \/ ~preTerminationRequested
  /\ Call("main", "filter", "run")
  /\ outOfTurn' = (outOfTurn \/ Drawing # {})
  /\ UNCHANGED <<screen, drawLock, flags, kernel, crashed>>

\* The console wakes up, or sleep was denied: no more reason to exit.
FullyAwake ==
  /\ At("main", "run") /\ menuShouldExit
  /\ LateShell \/ ~preTerminationRequested
  /\ menuShouldExit' = FALSE
  /\ UNCHANGED <<screen, drawLock, preTerminationRequested, rosalinaOpen, kernel, th, ghosts>>

HomeButton ==
  /\ At("main", "run") /\ ~preTerminationRequested
  /\ openRosalina("main")

\* handlePreTermNotification.
PreTermination ==
  /\ At("main", "run") /\ ~preTerminationRequested
  /\ Goto("main", "preTerm")
  /\ UNCHANGED <<screen, drawLock, flags, kernel, ghosts>>

\* Mutant: the flags are not set while somebody draws.
RequestsNothing == FALSE

Requests == TRUE

RequestTermination ==
  /\ At("main", "preTerm") /\ CanLock("main")
  /\ menuShouldExit' = Requests
  /\ preTerminationRequested' = TRUE
  /\ Goto("main", "run")
  /\ UNCHANGED <<screen, drawLock, rosalinaOpen, kernel, ghosts>>

\* ServiceManager_Run returns, and the threads are joined.
Termination ==
  /\ At("main", "run") /\ preTerminationRequested
  /\ Goto("main", "joining")
  /\ UNCHANGED <<screen, drawLock, flags, kernel, ghosts>>

Join ==
  /\ At("main", "joining")
  /\ th["menu"].at = "ended" /\ th["errdisp"].at = "ended"
  /\ Goto("main", "ended")
  /\ UNCHANGED <<screen, drawLock, flags, kernel, ghosts>>

-----------------------------------------------------------------------------

\* What a thread does by itself, or the user lets it do.
Proceed(t) ==
  \/ Xor(t) \/ Decide(t) \/ LockOrUnlock(t)
  \/ LockToEnter(t) \/ menuEnter(t) \/ Allocate(t) \/ Unlock(t)
  \/ LockToLeave(t) \/ menuLeave(t)
  \/ ExitMenu(t) \/ PressB(t) \/ MenuClosed(t)
  \/ BrightnessChanged(t) \/ Reallocate(t)
  \/ ShowDialog(t) \/ PressKey(t) \/ (ExitDialog /\ t = "errdisp")
  \/ PauseGsp(t) \/ ApplyColorSettings(t) \/ Filtered(t)

ThreadEnds == MenuThreadStarts \/ MenuThreadEnds \/ ErrDispEnds \/ PauseItself

Next ==
  \/ \E t \in Threads :
       \/ Xor(t)
       \/ Decide(t)
       \/ LockOrUnlock(t)
       \/ LockToEnter(t)
       \/ menuEnter(t)
       \/ Allocate(t)
       \/ Unlock(t)
       \/ LockToLeave(t)
       \/ menuLeave(t)
       \/ ExitMenu(t)
       \/ PressB(t)
       \/ MenuClosed(t)
       \/ ChangeBrightness(t)
       \/ BrightnessChanged(t)
       \/ Reallocate(t)
       \/ PowerOff(t)
       \/ ShowDialog(t)
       \/ PressKey(t)
       \/ PauseGsp(t)
       \/ ApplyColorSettings(t)
       \/ Filtered(t)
  \/ PostprocessSvc
  \/ PauseItself
  \/ MenuCombo
  \/ MenuThreadStarts
  \/ MenuThreadEnds
  \/ Throw
  \/ ErrDispEnds
  \/ PluginMessage
  \/ ExitDialog
  \/ ShellClosed
  \/ ShellOpened
  \/ FullyAwake
  \/ HomeButton
  \/ PreTermination
  \/ RequestTermination
  \/ Termination
  \/ Join

Spec == Init /\ [][Next]_vars

\* The threads are scheduled, the user presses a button that a dialog asks
\* for, and the lock of the screen, which the dialogs take again and again, is
\* not refused for ever to main.
Fairness ==
  /\ \A t \in Threads : WF_vars(Proceed(t))
  /\ WF_vars(ThreadEnds)
  /\ SF_vars(RequestTermination)
  /\ WF_vars(Termination \/ Join)

FairSpec == Spec /\ Fairness

-----------------------------------------------------------------------------
(* Properties *)

\* Type invariant.
TypeOK ==
  /\ menuRefCount \in LeastRefCount - 4 .. 1
  /\ framebufferCache \in BOOLEAN
  /\ drawLock.owner \in Threads \cup {Nobody} /\ drawLock.count \in 0 .. 2
  /\ rosalinaState \subseteq {"app", "gsp"} /\ paused \subseteq {"app", "gsp"}
  /\ app \in {"user", "post"}

\* When no dialog is open and no filter is being applied, applications and gsp
\* run: however the dialogs of three threads, the filters and the ends of
\* dialogs were interleaved, and whatever menuRefCount has become, the
\* inversions of each bit make an even number.
NothingStaysPaused ==
  ~crashed /\ Drawing = {} => rosalinaState = {} /\ paused = {} /\ ~framebufferCache

\* As long as menuEnter and menuLeave were called in turn - one dialog at a
\* time, none begun while the lid closes, no filter applied meanwhile, none
\* left twice - a dialog that is shown has its cache and a paused system, and
\* none is open when the count is zero.
ShownIsPaused ==
  ~outOfTurn =>
    /\ ~crashed
    /\ \A t \in Threads :
         th[t].at \in {"show", "dialog", "wait"} =>
           framebufferCache /\ paused = {"app", "gsp"} /\ menuRefCount = 1
    /\ Drawing = {} => menuRefCount = 0

\* The dialogs, as long as they take turns and when they do not.
DialogsConsistent == NothingStaysPaused /\ ShownIsPaused

\* rosalina ends once its termination is announced: main asks for it under
\* the lock of the screen, every dialog notices and the threads are joined.
TerminationCompletes ==
  th["main"].at = "preTerm" ~> th["main"].at = "ended" \/ crashed

\* The comment of ScreenFiltersMenu_RestoreSettings: the menu has not been
\* entered.
RestoredOutsideMenu ==
  \A t \in Threads : th[t].at = "filter" => menuRefCount = 0
=============================================================================
