------------------------------ MODULE LineState ------------------------------
(***************************************************************************)
(* The line state machine (core/hdl/UlpiLineState.vhd): it tells reset,     *)
(* suspend and traffic apart by the line state that the PHY reports and by  *)
(* timers, negotiates the speed, resumes, wakes up the host and disconnects.*)
(*                                                                         *)
(* A step is a clock.  What the ULPI interface and the user do in it is an  *)
(* input; 'phy' is the function control register of the PHY.                *)
(***************************************************************************)
EXTENDS Integers

CONSTANTS
  PRESC,   \* clocks per tick of the timers: PRESC_PERIOD_C
  P20, P120, P1200, P3060, P5060,  \* the periods PERIOD_xxx_C, in ticks
  HeldCap  \* bound: clocks that an unchanged line is counted for

ASSUME PrescAssumption == PRESC \in Nat \ {0}
ASSUME PeriodAssumption == \A p \in {P20, P120, P1200, P3060, P5060} : p \in Nat /\ p >= 2
ASSUME CapAssumption == HeldCap \in Nat \ {0}

VARIABLES
  state, nxtState,
  reg,        \* the register access: [vld, val], and the index of the next initial write
  txVld,      \* K is driven, or is about to be
  lineState,
  chirp,      \* [wanted, count]
  usb2,       \* the outputs: [rst, suspend, hiSpeed, disconn]
  presc, timer,
  seen,       \* se0Seen, jSeen: the line state seen one clock ago, in FS_RUN
  hiSpeedEn,  \* the input usb2HiSpeedEn; it is static
  phy,        \* what was last written to the function control register
  obs         \* history: [held, driven, chirps]

regs == <<state, nxtState, reg, txVld, lineState, chirp, usb2, presc, timer, seen>>
vars == <<regs, hiSpeedEn, phy, obs>>

SE0 == "SE0"
J == "J"
K == "K"
Lines == {SE0, J, K}
NoRx == "none"      \* no RXCMD in this clock
NoLine == "ini"     \* ULPI_LINE_STATE_INI_C

\* Values of the function control register: ULPI_FUN_CTL_xxx_C.
FunCtl == {"REINI", "FS", "HS", "CHIRP", "WKUP_K"}
\* ULPI_REGS_INIT_C, other registers, is written in falling index order.
InitRegs == 0 .. 2

States == {"RESET", "INIT", "INIT1", "INIT2", "FS_RUN", "HS_RUN", "HS_INIT", "HS_INIT1",
           "INIT_CHIRP", "DRIVE_CHIRP", "DETECT_CHIRP", "HOST_CHIRP", "WAIT_FS",
           "WAITRSTHS_START", "WAITRSTHS", "SUSPEND", "DEBOUNCE_SE0", "RESUME", "WAKEUP",
           "DRIVE_K", "WAIT_K_DON", "WRITE_REG", "DISCONNECTED"}
Timers == {"small", "1200", "3060", "5060"}
\* The states in which it matters how long the line has been still.
Watching == {"FS_RUN", "HS_RUN", "SUSPEND"}

Min(a, b) == IF a < b THEN a ELSE b

Init ==
  /\ state = "RESET"
  /\ nxtState = "RESET"
  /\ reg = [vld |-> FALSE, val |-> "REINI", idx |-> 2]
  /\ txVld = FALSE
  /\ lineState = NoLine
  /\ chirp = [wanted |-> NoLine, count |-> 0]
  /\ usb2 = [rst |-> FALSE, suspend |-> FALSE, hiSpeed |-> FALSE, disconn |-> FALSE]
  /\ presc = 0
  /\ timer = [n \in Timers |-> 0]
  /\ seen = {}
  /\ hiSpeedEn \in BOOLEAN
  /\ phy = "power-up"
  /\ obs = [held |-> 0, driven |-> 0, chirps |-> 0]

\* The inputs of a clock, varied where the state reads them: a report of the line, DIR of the
\* PHY, the reply to a register access, a byte taken from the transmission, the requests
\* to wake up the host and to disconnect.
Inputs ==
  {i \in [rx   : Lines \cup {NoRx},
          dir  : BOOLEAN,
          ack  : IF reg.vld THEN {"none", "ok", "err"} ELSE {"none"},
          nxt  : IF txVld THEN BOOLEAN ELSE {FALSE},
          wake : IF state = "SUSPEND" THEN BOOLEAN ELSE {FALSE},
          disc : BOOLEAN] :
     /\ i.rx # NoRx => i.dir
     /\ i.dir => i.rx # NoRx \/ state = "INIT"
     /\ i.nxt => ~i.dir}

\* v.lineState
Line(i) == IF i.rx = NoRx THEN lineState ELSE i.rx
-----------------------------------------------------------------------------
(* Timers.  A timer with the value 0 has expired. *)

Expired(n) == timer[n] = 0
\* Mutant: a count of p steps has p + 1.
MutLoadTimer(p) == p
loadTimer(p) == p - 1
decrTimer(n) == IF presc = 0 /\ timer[n] > 0 THEN timer[n] - 1 ELSE timer[n]

Run == timer' = [n \in Timers |-> decrTimer(n)]
Start(m, p) == timer' = [n \in Timers |-> IF n = m THEN loadTimer(p) ELSE decrTimer(n)]
\* Start m and reset the timer l.
Restart(m, p, l) ==
  timer' = [n \in Timers |-> IF n = m THEN loadTimer(p) ELSE IF n = l THEN 0 ELSE decrTimer(n)]
StartBoth(m, p, l, q) ==
  timer' = [n \in Timers |-> IF n = m THEN loadTimer(p)
                             ELSE IF n = l THEN loadTimer(q) ELSE decrTimer(n)]

\* The least number of clocks between the start of a period and its end.
Least(p) == (p - 2) * PRESC
-----------------------------------------------------------------------------
(* Transitions. *)

\* K is still driven after this clock.
Driving(i) == txVld /\ ~(Expired("1200") /\ i.nxt)

WriteReg(val, then) ==
  /\ state' = "WRITE_REG"
  /\ nxtState' = then
  /\ reg' = [reg EXCEPT !.val = val]

\* Mutant: the registers are written again when the write for the disconnect is done.
MutGotoThen(i, s, then, vld) ==
  IF i.disc /\ ~Driving(i)
  THEN /\ state' = "WRITE_REG"
       /\ nxtState' = "DISCONNECTED"
       /\ reg' = [reg EXCEPT !.val = "REINI", !.vld = vld]
  ELSE /\ state' = s
       /\ nxtState' = then
       /\ reg' = [reg EXCEPT !.vld = vld]
\* To the state s, unless a request to disconnect can be served.
GotoThen(i, s, then, vld) ==
  IF i.disc /\ ~Driving(i) /\ s # "DISCONNECTED"
  THEN /\ state' = "WRITE_REG"
       /\ nxtState' = "DISCONNECTED"
       /\ reg' = [reg EXCEPT !.val = "REINI", !.vld = vld]
  ELSE /\ state' = s
       /\ nxtState' = then
       /\ reg' = [reg EXCEPT !.vld = vld]
Goto(i, s) == GotoThen(i, s, nxtState, reg.vld)

Reset(i) ==
  /\ state = "RESET"
  /\ WriteReg("REINI", "INIT")
  /\ Start("5060", P5060)
  /\ UNCHANGED <<chirp, usb2, seen>>

InitRegister(i) ==
  /\ state = "INIT"
  /\ IF Expired("5060") /\ ~i.dir
     THEN IF reg.idx \in InitRegs
          THEN /\ state' = "WRITE_REG"
               /\ nxtState' = "INIT"
               /\ reg' = [reg EXCEPT !.val = "other", !.idx = @ - 1]
          ELSE Goto(i, "INIT1")
     ELSE Goto(i, "INIT")
  /\ Run
  /\ UNCHANGED <<chirp, usb2, seen>>

Init1(i) ==
  /\ state = "INIT1"
  /\ WriteReg("FS", "INIT2")
  /\ Run
  /\ UNCHANGED <<chirp, usb2, seen>>

Init2(i) ==
  /\ state = "INIT2"
  /\ IF Line(i) # NoLine
     THEN /\ Goto(i, "FS_RUN")
          /\ seen' = {}
          /\ usb2' = [usb2 EXCEPT !.rst = FALSE, !.suspend = FALSE]
     ELSE /\ Goto(i, "INIT2")
          /\ UNCHANGED <<seen, usb2>>
  /\ Run
  /\ UNCHANGED chirp

\* Mutant: an SE0 does not restart a timer that runs for an earlier one.
MutFsSe0Held(i) ==
  /\ state = "FS_RUN"
  /\ Line(i) = SE0
  /\ seen' = {SE0}
  /\ Goto(i, IF Expired("1200") THEN "INIT_CHIRP" ELSE "FS_RUN")
  /\ IF SE0 \in seen \/ ~Expired("1200") THEN Run ELSE Restart("1200", P1200, "3060")
  /\ UNCHANGED <<chirp, usb2>>
FsSe0(i) ==
  /\ state = "FS_RUN"
  /\ Line(i) = SE0
  /\ seen' = {SE0}
  /\ IF SE0 \in seen
     THEN Goto(i, IF Expired("1200") THEN "INIT_CHIRP" ELSE "FS_RUN") /\ Run
     ELSE Goto(i, "FS_RUN") /\ Restart("1200", P1200, "3060")
  /\ UNCHANGED <<chirp, usb2>>

FsIdle(i) ==
  /\ state = "FS_RUN"
  /\ Line(i) = J
  /\ seen' = {J}
  /\ IF J \in seen
     THEN Goto(i, IF Expired("3060") THEN "SUSPEND" ELSE "FS_RUN") /\ Run
     ELSE Goto(i, "FS_RUN") /\ Restart("3060", P3060, "1200")
  /\ UNCHANGED <<chirp, usb2>>

FsOther(i) ==
  /\ state = "FS_RUN"
  /\ Line(i) \notin {SE0, J}
  /\ seen' = {}
  /\ Goto(i, "FS_RUN")
  /\ Run
  /\ UNCHANGED <<chirp, usb2>>

HsInit(i) ==
  /\ state = "HS_INIT"
  /\ WriteReg("HS", "HS_INIT1")
  /\ Run
  /\ UNCHANGED <<chirp, usb2, seen>>

HsInit1(i) ==
  /\ state = "HS_INIT1"
  /\ Goto(i, "HS_RUN")
  /\ usb2' = [usb2 EXCEPT !.rst = FALSE, !.suspend = FALSE, !.hiSpeed = TRUE]
  /\ Start("3060", P3060)
  /\ UNCHANGED <<chirp, seen>>

HsRun(i) ==
  /\ state = "HS_RUN"
  /\ IF Expired("3060")
     THEN WriteReg("FS", "WAITRSTHS_START") /\ Run
     ELSE /\ Goto(i, "HS_RUN")
          /\ IF Line(i) # SE0 THEN Start("3060", P3060) ELSE Run
  /\ UNCHANGED <<chirp, usb2, seen>>

WaitRstHsStart(i) ==
  /\ state = "WAITRSTHS_START"
  /\ Goto(i, "WAITRSTHS")
  /\ Start("small", P120)
  /\ UNCHANGED <<chirp, usb2, seen>>

WaitRstHs(i) ==
  /\ state = "WAITRSTHS"
  /\ Goto(i, IF ~Expired("small") THEN "WAITRSTHS"
             ELSE IF Line(i) = SE0 THEN "INIT_CHIRP" ELSE "SUSPEND")
  /\ Run
  /\ UNCHANGED <<chirp, usb2, seen>>

InitChirp(i) ==
  /\ state = "INIT_CHIRP"
  /\ IF hiSpeedEn
     THEN WriteReg("CHIRP", "DRIVE_CHIRP") /\ Run
     ELSE Goto(i, "WAIT_FS") /\ Start("3060", P3060)
  /\ usb2' = [usb2 EXCEPT !.rst = TRUE, !.hiSpeed = FALSE]
  /\ UNCHANGED <<chirp, seen>>

\* Mutant: it waits for three changes of the line.
MutDetectChirp(i) ==
  /\ state = "DETECT_CHIRP"
  /\ Goto(i, "HOST_CHIRP")
  /\ chirp' = [wanted |-> K, count |-> loadTimer(4)]
  /\ StartBoth("1200", P1200, "small", P20)
  /\ UNCHANGED <<usb2, seen>>
DetectChirp(i) ==
  /\ state = "DETECT_CHIRP"
  /\ Goto(i, "HOST_CHIRP")
  /\ chirp' = [wanted |-> K, count |-> loadTimer(6)]
  /\ StartBoth("1200", P1200, "small", P20)
  /\ UNCHANGED <<usb2, seen>>

\* Mutant: no timeout.
MutHostChirp(i) ==
  /\ state = "HOST_CHIRP"
  /\ Goto(i, IF Expired("small") /\ chirp.count = 0 THEN "HS_INIT" ELSE "HOST_CHIRP")
  /\ IF Expired("small")
     THEN IF chirp.count = 0
          THEN Run /\ UNCHANGED chirp
          ELSE /\ chirp' = [wanted |-> IF chirp.wanted = K THEN J ELSE K, count |-> chirp.count - 1]
               /\ Start("small", P20)
     ELSE /\ IF Line(i) # chirp.wanted THEN Start("small", P20) ELSE Run
          /\ UNCHANGED chirp
  /\ UNCHANGED <<usb2, seen>>
HostChirp(i) ==
  /\ state = "HOST_CHIRP"
  /\ Goto(i, IF Expired("1200") THEN "INIT1"
             ELSE IF Expired("small") /\ chirp.count = 0 THEN "HS_INIT" ELSE "HOST_CHIRP")
  /\ IF Expired("small")
     THEN IF chirp.count = 0
          THEN Run /\ UNCHANGED chirp
          ELSE /\ chirp' = [wanted |-> IF chirp.wanted = K THEN J ELSE K, count |-> chirp.count - 1]
               /\ Start("small", P20)
     ELSE /\ IF Line(i) # chirp.wanted THEN Start("small", P20) ELSE Run
          /\ UNCHANGED chirp
  /\ UNCHANGED <<usb2, seen>>

WaitFs(i) ==
  /\ state = "WAIT_FS"
  /\ Goto(i, IF Expired("3060") THEN "INIT1" ELSE "WAIT_FS")
  /\ Run
  /\ UNCHANGED <<chirp, usb2, seen>>

SuspendEnter(i) ==
  /\ state = "SUSPEND"
  /\ ~usb2.suspend
  /\ usb2' = [usb2 EXCEPT !.suspend = TRUE]
  /\ Goto(i, "SUSPEND")
  /\ Start("5060", P5060)
  /\ UNCHANGED <<chirp, seen>>

Suspend(i) ==
  /\ state = "SUSPEND"
  /\ usb2.suspend
  /\ IF Line(i) = SE0
     THEN Goto(i, "DEBOUNCE_SE0") /\ StartBoth("5060", P5060, "small", P20)
     ELSE /\ Run
          /\ IF Line(i) # K /\ i.wake /\ decrTimer("5060") = 0
             THEN WriteReg("WKUP_K", "WAKEUP")
             ELSE Goto(i, IF Line(i) = K THEN "RESUME" ELSE "SUSPEND")
  /\ UNCHANGED <<chirp, usb2, seen>>

DebounceSe0(i) ==
  /\ state = "DEBOUNCE_SE0"
  /\ Goto(i, IF Expired("5060") THEN "SUSPEND"
             ELSE IF Expired("small") THEN "INIT_CHIRP" ELSE "DEBOUNCE_SE0")
  /\ IF Expired("5060") THEN Start("5060", P5060)
     ELSE IF ~Expired("small") /\ Line(i) # SE0 THEN Start("small", P20) ELSE Run
  /\ UNCHANGED <<chirp, usb2, seen>>

Resume(i) ==
  /\ state = "RESUME"
  /\ Goto(i, IF hiSpeedEn /\ usb2.hiSpeed
             THEN IF Line(i) = SE0 THEN "HS_INIT" ELSE "RESUME"
             ELSE IF Line(i) = J THEN "INIT1" ELSE "RESUME")
  /\ Run
  /\ UNCHANGED <<chirp, usb2, seen>>

DriveChirp(i) ==
  /\ state = "DRIVE_CHIRP"
  /\ GotoThen(i, "DRIVE_K", "DETECT_CHIRP", reg.vld)
  /\ Run
  /\ UNCHANGED <<chirp, usb2, seen>>

Wakeup(i) ==
  /\ state = "WAKEUP"
  /\ GotoThen(i, "DRIVE_K", "RESUME", reg.vld)
  /\ Run
  /\ UNCHANGED <<chirp, usb2, seen>>

\* The request is valid from now on, so that a disconnect is put off.
DriveK(i) ==
  /\ state = "DRIVE_K"
  /\ state' = "WAIT_K_DON"
  /\ Start("1200", P1200)
  /\ UNCHANGED <<nxtState, reg, chirp, usb2, seen>>

WaitKDone(i) ==
  /\ state = "WAIT_K_DON"
  /\ Goto(i, IF txVld THEN "WAIT_K_DON" ELSE nxtState)
  /\ Run
  /\ UNCHANGED <<chirp, usb2, seen>>

\* Mutant: an access the PHY aborted is taken for done.
MutWriteRegister(i) ==
  /\ state = "WRITE_REG"
  /\ IF ~reg.vld
     THEN reg' = [reg EXCEPT !.vld = TRUE] /\ UNCHANGED <<state, nxtState>>
     ELSE IF i.ack # "none"
     THEN GotoThen(i, nxtState, nxtState, FALSE)
     ELSE UNCHANGED <<state, nxtState, reg>>
  /\ Run
  /\ UNCHANGED <<chirp, usb2, seen>>
\* The access begins, goes on until it is acknowledged without an error, and is over.
WriteRegister(i) ==
  /\ state = "WRITE_REG"
  /\ IF ~reg.vld
     THEN reg' = [reg EXCEPT !.vld = TRUE] /\ UNCHANGED <<state, nxtState>>
     ELSE IF i.ack = "ok"
     THEN GotoThen(i, nxtState, nxtState, FALSE)
     ELSE UNCHANGED <<state, nxtState, reg>>
  /\ Run
  /\ UNCHANGED <<chirp, usb2, seen>>

Disconnected(i) ==
  /\ state = "DISCONNECTED"
  /\ usb2' = [usb2 EXCEPT !.disconn = TRUE, !.rst = TRUE]
  /\ Goto(i, "DISCONNECTED")
  /\ Run
  /\ UNCHANGED <<chirp, seen>>
-----------------------------------------------------------------------------
(* A clock. *)

\* What the PHY and an observer of the bus make of it: how long the line has been as it is
\* under the eyes of the machine, how long K is driven, and how many changes of the line followed
\* the chirp of the device.
Outside(i) ==
  /\ phy' = IF i.ack = "ok" /\ reg.val \in FunCtl THEN reg.val ELSE phy
  /\ obs' =
       [held |-> IF state \in Watching /\ Line(i) = lineState THEN Min(obs.held + 1, HeldCap) ELSE 1,
        driven |-> IF txVld THEN Min(obs.driven + 1, HeldCap) ELSE 0,
        chirps |-> IF state = "INIT_CHIRP" THEN 0
                   ELSE IF /\ state \in {"DETECT_CHIRP", "HOST_CHIRP"}
                           /\ Line(i) = (IF obs.chirps % 2 = 0 THEN K ELSE J)
                        THEN Min(obs.chirps + 1, 6) ELSE obs.chirps]

Clock(i) ==
  /\ lineState' = Line(i)
  /\ presc' = IF presc = 0 THEN PRESC - 1 ELSE presc - 1
  /\ txVld' = (state = "DRIVE_K" \/ Driving(i))
  /\ Outside(i)
  /\ UNCHANGED hiSpeedEn
  /\ \/ Reset(i) \/ InitRegister(i) \/ Init1(i) \/ Init2(i)
     \/ FsSe0(i) \/ FsIdle(i) \/ FsOther(i)
     \/ HsInit(i) \/ HsInit1(i) \/ HsRun(i) \/ WaitRstHsStart(i) \/ WaitRstHs(i)
     \/ InitChirp(i) \/ DriveChirp(i) \/ DetectChirp(i) \/ HostChirp(i) \/ WaitFs(i)
     \/ SuspendEnter(i) \/ Suspend(i) \/ DebounceSe0(i) \/ Resume(i) \/ Wakeup(i)
     \/ DriveK(i) \/ WaitKDone(i) \/ WriteRegister(i) \/ Disconnected(i)

\* The input rst: the registers are reset, the PHY is not.
Rst ==
  /\ state' = "RESET"
  /\ nxtState' = "RESET"
  /\ reg' = [vld |-> FALSE, val |-> "REINI", idx |-> 2]
  /\ txVld' = FALSE
  /\ lineState' = NoLine
  /\ chirp' = [wanted |-> NoLine, count |-> 0]
  /\ usb2' = [rst |-> FALSE, suspend |-> FALSE, hiSpeed |-> FALSE, disconn |-> FALSE]
  /\ presc' = 0
  /\ timer' = [n \in Timers |-> 0]
  /\ seen' = {}
  /\ obs' = [held |-> 0, driven |-> 0, chirps |-> 0]
  /\ UNCHANGED <<hiSpeedEn, phy>>

Next == Rst \/ \E i \in Inputs : Clock(i)

Spec == Init /\ [][Next]_vars

\* The PHY has left the bus, takes a byte that is sent and serves a register access.
Serves(i) == ~i.dir /\ (txVld => i.nxt) /\ (reg.vld => i.ack = "ok")

\* The clock runs, the PHY serves the machine again and again, and a host that resumes the device
\* ends its signal, in the way of either speed.
FairSpec ==
  /\ Spec
  /\ WF_vars(\E i \in Inputs : Serves(i) /\ Clock(i))
  /\ \A l \in {SE0, J} : WF_vars(\E i \in Inputs : i.rx = l /\ Clock(i))
-----------------------------------------------------------------------------
(* Properties. *)

TypeOK ==
  /\ state \in States
  /\ nxtState \in States
  /\ reg \in [vld : BOOLEAN, val : FunCtl \cup {"other"}, idx : -1 .. 2]
  /\ txVld \in BOOLEAN
  /\ lineState \in Lines \cup {NoLine}
  /\ chirp \in [wanted : {J, K, NoLine}, count : 0 .. 5]
  /\ usb2 \in [rst : BOOLEAN, suspend : BOOLEAN, hiSpeed : BOOLEAN, disconn : BOOLEAN]
  /\ presc \in 0 .. PRESC - 1
  /\ timer \in [Timers -> Nat]
  /\ seen \in SUBSET {SE0, J}
  /\ hiSpeedEn \in BOOLEAN
  /\ phy \in FunCtl \cup {"power-up"}
  /\ obs \in [held : 0 .. HeldCap, driven : 0 .. HeldCap, chirps : 0 .. 6]

\* What the PHY must have been told for a state of the machine.
Mode(s) ==
  CASE s \in {"INIT", "DISCONNECTED"} -> {"REINI"}
    [] s \in {"INIT2", "FS_RUN", "WAITRSTHS_START", "WAITRSTHS", "INIT_CHIRP", "WAIT_FS",
              "SUSPEND", "DEBOUNCE_SE0"} -> {"FS"}
    [] s \in {"HS_INIT1", "HS_RUN"} -> {"HS"}
    [] s \in {"DRIVE_CHIRP", "DETECT_CHIRP", "HOST_CHIRP"} -> {"CHIRP"}
    [] s = "WAKEUP" -> {"WKUP_K"}
    [] s = "RESUME" -> {"FS", "WKUP_K"}
    [] OTHER -> FunCtl \cup {"power-up"}

\* Whatever way the machine came and whatever was aborted or disconnected on it, the PHY is in
\* the mode of its state, and the speed it reports is that of the PHY.
ModeAgrees ==
  /\ state \notin {"WRITE_REG", "DRIVE_K", "WAIT_K_DON"} => phy \in Mode(state)
  /\ state = "FS_RUN" => ~usb2.hiSpeed
  /\ state = "HS_RUN" => usb2.hiSpeed

\* Usb2Core.vhd:209-212 routes the transmission of this machine to the PHY only in reset or
\* while suspended: K is driven only then, and the packet engine is released only in a run state.
KReachesPhy ==
  /\ txVld => usb2.rst \/ usb2.suspend
  /\ state \in {"FS_RUN", "HS_RUN"} => ~usb2.rst /\ ~usb2.suspend

\* Every K that is driven goes out, in a mode of the PHY that lets it, and whoever reads the
\* mode or the speed of the device reads that of its PHY.
PhyFollows == ModeAgrees /\ KReachesPhy

\* "When we leave RUN_FS state then both timers are expired; this is guaranteed by the above
\* algorithm" (401-402).
TimersExpired ==
  [][state = "FS_RUN" /\ state' \in {"INIT_CHIRP", "SUSPEND"} =>
       timer'["1200"] = 0 /\ timer'["3060"] = 0]_vars

\* A reset, a suspend or the end of high speed is taken for one only if the line was still
\* for its time, whatever was on the bus before.
StillLine ==
  [][/\ state = "FS_RUN" /\ state' = "INIT_CHIRP" => obs'.held >= Least(P1200)
     /\ state = "FS_RUN" /\ state' = "SUSPEND" => obs'.held >= Least(P3060)
     /\ state = "HS_RUN" /\ nxtState' = "WAITRSTHS_START" /\ state' = "WRITE_REG" =>
          lineState = SE0 /\ obs.held >= Least(P3060)]_vars

\* High speed is reported only if the host answered the chirp of the device with three pairs
\* of K and J, or was reported before the device was suspended.
NegotiatedSpeed == [][~usb2.hiSpeed /\ usb2'.hiSpeed => obs.chirps = 6]_vars

\* The device resumes at the speed it was suspended at, unless it was reset meanwhile.
SpeedSurvives ==
  [][usb2.suspend /\ ~usb2'.suspend /\ ~usb2.rst /\ state' # "RESET" =>
       /\ usb2'.hiSpeed = usb2.hiSpeed
       /\ phy' = (IF usb2.hiSpeed THEN "HS" ELSE "FS")]_vars

\* The device wakes up the host only after the bus was idle for TWTRSM (78-80).
WakeupWaits ==
  [][state = "SUSPEND" /\ nxtState' = "WAKEUP" => lineState' = J /\ obs'.held >= Least(P5060)]_vars

\* A chirp or a wakeup signal lasts for TUCH at least (71, 81).
SignalLasts == [][txVld /\ ~txVld' /\ state' # "RESET" => obs'.driven >= Least(P1200)]_vars

\* What is told apart by its time (UlpiLineState.vhd:66-91) had that time: a reset, a suspend and
\* the end of high speed, the idle bus before a wakeup, the signals of the device.
TimesKept == TimersExpired /\ StillLine /\ WakeupWaits /\ SignalLasts

\* The speed is the one last agreed with the host, over suspend and resume.
SpeedAgreed == NegotiatedSpeed /\ SpeedSurvives

\* Whatever the host answers to its chirp, the device leaves reset, and a resume comes to an end
\* if the host ends its signal: there is no timeout for that (542).
Settles ==
  usb2.rst \/ state = "RESUME" ~> state \in {"FS_RUN", "HS_RUN", "RESET"} \/ usb2.disconn

\* A request to disconnect that is not withdrawn is acknowledged (43-48).
DisconnectServed ==
  <>[][\E i \in Inputs : i.disc /\ Clock(i)]_vars => <>[]usb2.disconn
=============================================================================
