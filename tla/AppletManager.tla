---------------------------- MODULE AppletManager ----------------------------
(***************************************************************************)
(* The applet manager of APT: which of the application, the Home Menu, a   *)
(* system applet and a library applet is in the foreground, and the one    *)
(* parameter through which they wake each other.  The library applet is    *)
(* emulated by the manager's own process (HLE); the others are programs    *)
(* that call the service, two calls (Prepare..., then the call itself) for *)
(* every change of the foreground, and sleep until a parameter wakes them. *)
(***************************************************************************)
EXTENDS Integers, FiniteSets

CONSTANTS App, Home, Sys, Lib,
          Chatter,     \* programs that send messages from the background
          Hasty,       \* a library applet is opened again within an update interval
          Dsp,         \* library applets send the DSP to sleep and wake it
          None

VARIABLES apt,         \* the state of the manager
          proc,        \* state of the programs
          prep,        \* the call that a program has prepared, or "told" to close
          dspAsked     \* what the library applet has last asked for

vars == <<apt, proc, prep, dspAsked>>

Program == {App, Home, Sys}
Applet  == Program \cup {Lib}
Error   == None

(***************************************************************************)
(* There is one slot for each of the four kinds, so a slot is named by its *)
(* applet.  Members of apt:                                                *)
(*   next, delayed      next_parameter, delayed_parameter                  *)
(*   id                 the slots whose applet_id is set                   *)
(*   registered         the slots that are registered                      *)
(*   active             active_slot                                        *)
(*   launcher, sysl, jump   last_library_launcher_slot and the other two   *)
(*   closing            library_applet_closing_command                     *)
(*   orderedSys, orderedApp, target   of the close operations              *)
(*   prepared           app_start_parameters                               *)
(*   hle                the emulated applet: "none", "loaded", "active",   *)
(*                      "closed" (not running, not yet cleaned up) or      *)
(*                      "revived" (closed and then made active)            *)
(*   shutdown, asserted                                                    *)
(***************************************************************************)
Parameter(from, to, signal) == [from |-> from, to |-> to, signal |-> signal]
Wakeups == {"Wakeup", "WakeupByExit", "WakeupByCancel", "WakeupByPause", "WakeupToLaunchApplication"}

Init ==
  /\ \E first \in {App, Home} :
       proc = [x \in Program |-> IF x = first THEN "started" ELSE "off"]
  /\ apt = [next |-> None, delayed |-> None, id |-> {}, registered |-> {}, active |-> Error,
            launcher |-> Error, sysl |-> Error, jump |-> Error, closing |-> "None",
            orderedSys |-> FALSE, orderedApp |-> FALSE, target |-> Error, prepared |-> FALSE,
            hle |-> "none", shutdown |-> FALSE, asserted |-> FALSE]
  /\ prep = [x \in Program |-> None]
  /\ dspAsked = "wake"

\* AppletSlotData::Reset
Reset(a, s) == [a EXCEPT !.id = @ \ {s}, !.registered = @ \ {s}]

-----------------------------------------------------------------------------
(* Parameters *)

Put(a, p) == [a EXCEPT !.next = p]

\* CloseLibraryApplet: the launcher is in the foreground again and is told so.
CloseLibraryApplet(a) ==
  LET b == [a EXCEPT !.active = a.launcher]
      p == Parameter(Lib, a.launcher, a.closing)
  IN
  IF a.closing # "WakeupByPause" THEN Reset(Put(b, p), Lib)
  ELSE IF a.next = None THEN Put(b, p) ELSE b

CloseStillRuns(a) ==   \* mutant
  CloseLibraryApplet(IF a.next = None THEN [a EXCEPT !.closing = "WakeupByExit"] ELSE a)

\* Applet::CloseApplet.  PrepareToCloseLibraryApplet fails while a parameter is
\* pending; the result is not looked at.
CloseApplet(a) ==
  [CloseLibraryApplet(IF a.next = None THEN [a EXCEPT !.closing = "WakeupByExit"] ELSE a)
     EXCEPT !.hle = "closed"]

\* Applet::ReceiveParameter of the emulated applet.
HleReceive(a, p) ==
  CASE p.signal = "Wakeup" -> [a EXCEPT !.hle = IF @ \in {"closed", "revived"} THEN "revived" ELSE "active"]
    [] p.signal = "WakeupByCancel" -> CloseApplet(a)
    [] p.signal = "Request" -> Put(a, Parameter(Lib, a.launcher, "Response"))
    [] OTHER -> a

SendUnread(a, p) == Put(a, p)   \* mutant

\* CancelAndSendParameter replaces a pending parameter ...
CancelAndSend(a, p) == IF p.to = Lib /\ a.hle # "none" THEN HleReceive(a, p) ELSE Put(a, p)

\* ... and SendParameter does nothing if there is one.
Send(a, p) == IF a.next = None THEN CancelAndSend(a, p) ELSE a

\* SendApplicationParameterAfterRegistration
SendRegistered(a, p) ==
  IF p.to \in a.registered THEN CancelAndSend(a, p) ELSE [a EXCEPT !.delayed = p]

\* ReceiveParameter: a program takes the parameter that is for it; if it is one
\* of the wake-ups the program runs in the foreground from now on, and one that
\* is told to close does nothing else.
ReceiveParameter(x) ==
  /\ x \in apt.registered /\ proc[x] \in {"asleep", "awake"}
  /\ apt.next # None /\ apt.next.to = x
  /\ apt' = Put(apt, None)
  /\ proc' = [proc EXCEPT ![x] = IF apt.next.signal \in Wakeups THEN "awake" ELSE @]
  /\ prep' = [prep EXCEPT ![x] = IF apt.next.signal = "WakeupByCancel" THEN "told" ELSE @]
  /\ UNCHANGED dspAsked

\* SendParameter from a program in the background.
Message(x, y) ==
  /\ x \in Chatter \cap apt.registered /\ y \in apt.registered /\ y # x /\ apt.active # x
  /\ apt.next = None
  /\ apt' = Send(apt, Parameter(x, y, "Message"))
  /\ UNCHANGED <<proc, prep, dspAsked>>

-----------------------------------------------------------------------------
(* Registration *)

EnableForgets(a, s) == [a EXCEPT !.registered = @ \cup {s}]   \* mutant

\* Enable: parameters that were waiting for the applet are sent.
Enabled(a, s) ==
  LET b == [a EXCEPT !.registered = @ \cup {s}] IN
  IF a.delayed # None /\ a.delayed.to = s
  THEN [CancelAndSend(b, a.delayed) EXCEPT !.delayed = None]
  ELSE b

InitializedAsleep(a, s) ==   \* mutant
  LET b == [a EXCEPT !.id = @ \cup {s}] IN
  IF a.active = Error THEN Enabled([b EXCEPT !.active = s], s) ELSE b

\* Initialize: the first applet of all is enabled and woken here.
Initialized(a, s) ==
  LET b == [a EXCEPT !.id = @ \cup {s}] IN
  IF a.active = Error
  THEN Send(Enabled([b EXCEPT !.active = s], s), Parameter(None, s, "Wakeup"))
  ELSE b

Initialize(x) ==
  /\ proc[x] = "started" /\ x \notin apt.registered
  /\ apt' = Initialized(apt, x)
  /\ proc' = [proc EXCEPT ![x] = "initialized"]
  /\ UNCHANGED <<prep, dspAsked>>

Enable(x) ==
  /\ proc[x] = "initialized"
  /\ apt' = Enabled(apt, x)
  /\ proc' = [proc EXCEPT ![x] = "asleep"]
  /\ UNCHANGED <<prep, dspAsked>>

-----------------------------------------------------------------------------
(* The foreground changes hands *)

Foreground(x) == apt.active = x /\ x \in apt.id /\ proc[x] = "awake" /\ ~ apt.shutdown

Prepare(x, after, call, a) ==
  /\ Foreground(x) /\ prep[x] \in after
  /\ apt' = a
  /\ prep' = [prep EXCEPT ![x] = call]
  /\ UNCHANGED <<proc, dspAsked>>

\* The second call; x sleeps or ends, and another program may be launched.
Proceed(x, call, a, then, launched) ==
  /\ Foreground(x) /\ prep[x] = call
  /\ apt' = a
  /\ prep' = [prep EXCEPT ![x] = None]
  /\ proc' = [y \in Program |-> IF y = x THEN then
                                ELSE IF y \in launched /\ proc[y] = "off" THEN "started" ELSE proc[y]]
  /\ UNCHANGED dspAsked

\* PrepareToStartLibraryApplet and PreloadLibraryApplet; CreateHLEApplet unless
\* the applet exists.
PrepareToStartLibraryApplet(x, preload) ==
  /\ Lib \notin apt.registered
  /\ preload \/ apt.next = None
  /\ Hasty \/ apt.hle = "none"
  /\ LET a == [apt EXCEPT !.launcher = apt.active] IN
     Prepare(x, {None}, "library",
             IF a.hle # "none" THEN a
             ELSE [Enabled(Initialized(a, Lib), Lib) EXCEPT !.hle = "loaded"])

\* A library applet is asked for its shared memory before it is started.
RequestLibraryApplet(x) ==
  /\ Foreground(x) /\ prep[x] = "library" /\ apt.next = None
  /\ apt' = Send(apt, Parameter(x, Lib, "Request"))
  /\ UNCHANGED <<proc, prep, dspAsked>>

\* StartLibraryApplet.  If a parameter is pending the program calls it again.
StartLibraryApplet(x) ==
  LET a == [apt EXCEPT !.active = Lib] IN
  /\ apt.next = None
  /\ Proceed(x, "library", Send(a, Parameter(a.launcher, Lib, "Wakeup")), "asleep", {})

\* HLEAppletUpdateEvent: the applet goes on, closes, or is cleaned up.
HLEAppletUpdate ==
  /\ \/ apt.hle = "active" /\ apt' = CloseApplet(apt)
     \/ apt.hle \in {"closed", "revived"} /\ apt' = [apt EXCEPT !.hle = "none"]
  /\ UNCHANGED <<proc, prep, dspAsked>>

\* CancelLibraryApplet, by the launcher while the applet is in front.
CancelLibraryApplet(x) ==
  /\ apt.active = Lib /\ apt.launcher = x /\ apt.next = None /\ Lib \in apt.registered
  /\ apt' = Send(apt, Parameter(x, Lib, "WakeupByCancel"))
  /\ UNCHANGED <<proc, prep, dspAsked>>

PrepareToStartSystemApplet(x) ==
  /\ apt.next = None /\ x # Sys
  /\ Prepare(x, {None}, "system", [apt EXCEPT !.sysl = apt.active])

\* StartSystemApplet launches the applet unless it is there.
StartSystemApplet(x) ==
  LET a == [apt EXCEPT !.active = Sys] IN
  Proceed(x, "system", SendRegistered(a, Parameter(x, Sys, "Wakeup")), "asleep",
          IF Sys \in apt.registered THEN {} ELSE {Sys})

\* OrderToCloseSystemApplet, from the application to the applet behind it.
OrderToCloseSystemApplet ==
  LET s == IF Sys \in apt.id THEN Sys ELSE Home IN
  /\ Foreground(App) /\ prep[App] = None /\ s \in apt.registered
  /\ apt' = Send([apt EXCEPT !.orderedSys = TRUE, !.active = s], Parameter(App, s, "WakeupByCancel"))
  /\ proc' = [proc EXCEPT ![App] = "asleep"]
  /\ UNCHANGED <<prep, dspAsked>>

\* PrepareToCloseSystemApplet and CloseSystemApplet, by an applet that was told to.
PrepareToCloseSystemApplet(x) ==
  apt.next = None /\ x # App /\ Prepare(x, {"told"}, "closeSystem", apt)

CloseSystemApplet(x) ==
  Proceed(x, "closeSystem",
          CancelAndSend([Reset(apt, x) EXCEPT !.orderedSys = FALSE, !.active = App],
                        Parameter(x, App, "WakeupByExit")), "off", {})

\* PrepareToJumpToHomeMenu launches the menu if need be (EnsureHomeMenuLoaded).
PrepareToJumpToHomeMenu ==
  /\ apt.next = None
  /\ Foreground(App) /\ prep[App] = None
  /\ apt' = [apt EXCEPT !.jump = App, !.asserted = @ \/ Sys \in apt.registered]
  /\ prep' = [prep EXCEPT ![App] = "home"]
  /\ proc' = [proc EXCEPT ![Home] = IF Home \notin apt.registered /\ @ = "off" THEN "started" ELSE @]
  /\ UNCHANGED dspAsked

JumpToHomeMenu ==
  Proceed(App, "home", Send([apt EXCEPT !.active = Home], Parameter(App, Home, "WakeupByPause")),
          "asleep", {})

PrepareToLeaveHomeMenu(x) ==
  /\ x # App /\ App \in apt.registered /\ apt.next = None
  /\ Prepare(x, {None}, "leave", apt)

\* LeaveHomeMenu: the result of SendParameter is not looked at.
LeaveHomeMenu(x) ==
  Proceed(x, "leave", Send([apt EXCEPT !.active = App], Parameter(Home, App, "WakeupByPause")),
          "asleep", {})

PrepareToStartApplication(x) ==
  /\ x # App /\ App \notin apt.registered /\ proc[App] = "off"
  /\ Prepare(x, {None}, "application", [apt EXCEPT !.prepared = TRUE])

\* StartApplication, with WakeupApplication.
StartApplication(x) ==
  Proceed(x, "application",
          SendRegistered([apt EXCEPT !.active = App, !.prepared = FALSE],
                         Parameter(Home, App, "Wakeup")), "asleep", {App})

\* OrderToCloseApplication, by the menu or the applet in front.
OrderToCloseApplication(x) ==
  /\ x # App /\ Foreground(x) /\ prep[x] = None /\ App \in apt.registered
  /\ apt' = Send([apt EXCEPT !.orderedApp = TRUE, !.active = App],
                 Parameter(Home, App, "WakeupByCancel"))
  /\ proc' = [proc EXCEPT ![x] = "asleep"]
  /\ UNCHANGED <<prep, dspAsked>>

\* PrepareToCloseApplication: where to go afterwards.
PrepareToCloseApplication ==
  LET target == IF apt.orderedApp /\ Sys \in apt.registered THEN Sys ELSE Home IN
  /\ apt.next = None
  /\ Prepare(App, {None, "told"}, "closeApplication", [apt EXCEPT !.target = target])

\* CloseApplication; without a Home Menu the emulation ends.
CloseApplication ==
  LET a == [Reset(apt, App) EXCEPT !.orderedApp = FALSE] IN
  Proceed(App, "closeApplication",
          IF apt.target = Home /\ Home \notin apt.registered
          THEN [a EXCEPT !.shutdown = TRUE]
          ELSE CancelAndSend([a EXCEPT !.active = apt.target],
                             Parameter(App, apt.target, "WakeupByExit")), "off", {})

\* DoApplicationJump: through the Home Menu, or the system restarts.
DoApplicationJump ==
  /\ Foreground(App) /\ prep[App] = None
  /\ LET a == Reset(apt, App) IN
     apt' = IF Home \in apt.registered
            THEN Send([a EXCEPT !.active = Home], Parameter(App, Home, "WakeupToLaunchApplication"))
            ELSE [a EXCEPT !.shutdown = TRUE]
  /\ proc' = [proc EXCEPT ![App] = "off"]
  /\ UNCHANGED <<prep, dspAsked>>

\* SendDspSleep and SendDspWakeUp, from the library applet to its application.
SendDsp(what) ==
  /\ Dsp /\ Lib \in apt.registered /\ apt.launcher = App
  /\ apt' = Send(apt, Parameter(Lib, App, "DspSleep"))
  /\ dspAsked' = IF apt.next = None THEN what ELSE dspAsked
  /\ UNCHANGED <<proc, prep>>

Next ==
  \/ \E x \in Program :
       \/ ReceiveParameter(x) \/ Initialize(x) \/ Enable(x)
       \/ \E y \in Program : Message(x, y)
       \/ \E b \in BOOLEAN : PrepareToStartLibraryApplet(x, b)
       \/ RequestLibraryApplet(x) \/ StartLibraryApplet(x) \/ CancelLibraryApplet(x)
       \/ PrepareToStartSystemApplet(x) \/ StartSystemApplet(x)
       \/ PrepareToCloseSystemApplet(x) \/ CloseSystemApplet(x)
       \/ PrepareToLeaveHomeMenu(x) \/ LeaveHomeMenu(x)
       \/ PrepareToStartApplication(x) \/ StartApplication(x) \/ OrderToCloseApplication(x)
  \/ OrderToCloseSystemApplet
  \/ PrepareToJumpToHomeMenu \/ JumpToHomeMenu
  \/ PrepareToCloseApplication \/ CloseApplication \/ DoApplicationJump
  \/ HLEAppletUpdate
  \/ \E what \in {"sleep", "wake"} : SendDsp(what)

Spec == Init /\ [][Next]_vars

\* Programs that were launched come up, and sleeping ones look at their
\* parameters; the applet that is emulated is cleaned up by the timer.
Fairness ==
  /\ \A x \in Program : WF_vars(Initialize(x)) /\ WF_vars(Enable(x)) /\ WF_vars(ReceiveParameter(x))
  /\ WF_vars(apt.hle \in {"closed", "revived"} /\ HLEAppletUpdate)

FairSpec == Spec /\ Fairness

-----------------------------------------------------------------------------
\* A wake-up for an applet is on its way; one that was put aside comes only if
\* the applet has yet to register.
Coming(x) ==
  \E p \in {apt.next} \cup {q \in {apt.delayed} : x \notin apt.registered} :
     p # None /\ p.to = x /\ p.signal \in Wakeups

\* Whoever is in the foreground runs or is about to be woken: the system never
\* waits for a program that nobody will wake (applet_manager.cpp:405:
\* "Applications need to receive a Wakeup signal to actually start up").
ForegroundAwake ==
  apt.active # Error /\ ~ apt.shutdown =>
    \/ apt.active = Lib /\ apt.hle = "active"
    \/ apt.active \in Program /\ (proc[apt.active] = "awake" \/ Coming(apt.active))

\* Whoever is put in the foreground comes to run, unless somebody else is put
\* there first or the emulation ends.
ForegroundResumes ==
  \A x \in Program : (apt.active = x) ~> (proc[x] = "awake" \/ apt.active # x \/ apt.shutdown)

\* Only one program at a time believes that it is in the foreground.
OneAwake == Cardinality({x \in Program : proc[x] = "awake"} \cup
                        {x \in {Lib} : apt.hle = "active"}) <= 1

\* A parameter waits for a program that exists and can take it, so that it does
\* not block all others for ever (applet_manager.cpp:303: "A new parameter can
\* not be sent if the previous one hasn't been consumed yet").
ParameterHasReader ==
  apt.next # None => apt.next.to \in Program /\ proc[apt.next.to] # "off"

\* EnsureHomeMenuLoaded asserts that no system applet runs
\* (applet_manager.cpp:1589).
NoSystemAppletBehind == ~ apt.asserted

\* The application is told that the DSP sleeps only if it does
\* (applet_manager.cpp:328 expects both the DspSleep and the DspWakeup signal).
DspFollows == apt.next # None /\ apt.next.signal = "DspSleep" => dspAsked = "sleep"
=============================================================================
