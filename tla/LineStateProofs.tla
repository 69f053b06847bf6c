-------------------------- MODULE LineStateProofs --------------------------
(***************************************************************************)
(* Theorems about LineState, for every prescaler and every choice of the   *)
(* periods.                                                                *)
(***************************************************************************)
EXTENDS LineState, TLAPS

LEMMA TimerType ==
  ASSUME timer \in [Timers -> Nat], NEW n \in Timers
  PROVE  decrTimer(n) \in Nat
BY DEF decrTimer

LEMMA RunType ==
  ASSUME timer \in [Timers -> Nat], Run
  PROVE  timer' \in [Timers -> Nat]
BY TimerType DEF Run

LEMMA StartType ==
  ASSUME timer \in [Timers -> Nat], NEW m, NEW p \in Nat, p >= 2, Start(m, p)
  PROVE  timer' \in [Timers -> Nat]
BY TimerType DEF Start, loadTimer

LEMMA RestartType ==
  ASSUME timer \in [Timers -> Nat], NEW m, NEW p \in Nat, p >= 2, NEW l, Restart(m, p, l)
  PROVE  timer' \in [Timers -> Nat]
BY TimerType DEF Restart, loadTimer

LEMMA StartBothType ==
  ASSUME timer \in [Timers -> Nat], NEW m, NEW p \in Nat, p >= 2, NEW l, NEW q \in Nat, q >= 2,
         StartBoth(m, p, l, q)
  PROVE  timer' \in [Timers -> Nat]
BY TimerType DEF StartBoth, loadTimer

\* The parts of the state that every clock sets alike.
LEMMA ClockType ==
  ASSUME TypeOK, NEW i \in Inputs, Clock(i)
  PROVE  /\ Line(i) \in Lines \cup {NoLine}
         /\ lineState' \in Lines \cup {NoLine}
         /\ presc' \in 0 .. PRESC - 1
         /\ txVld' \in BOOLEAN
         /\ phy' \in FunCtl \cup {"power-up"}
         /\ obs' \in [held : 0 .. HeldCap, driven : 0 .. HeldCap, chirps : 0 .. 6]
         /\ hiSpeedEn' \in BOOLEAN
<1>1. /\ i.rx \in Lines \cup {NoRx}
      /\ i.nxt \in BOOLEAN
  BY DEF Inputs
<1>2. Line(i) \in Lines \cup {NoLine}
  BY <1>1 DEF Line, TypeOK
<1>3. presc' \in 0 .. PRESC - 1
  BY PrescAssumption DEF Clock, TypeOK
<1>4. txVld' \in BOOLEAN
  BY DEF Clock, Driving, TypeOK
<1>5. phy' \in FunCtl \cup {"power-up"}
  BY DEF Clock, Outside, TypeOK
<1>6. obs' \in [held : 0 .. HeldCap, driven : 0 .. HeldCap, chirps : 0 .. 6]
  BY CapAssumption DEF Clock, Outside, TypeOK, Min
<1> QED
  BY <1>2, <1>3, <1>4, <1>5, <1>6 DEF Clock, TypeOK

TypeRest ==
  /\ state \in States
  /\ nxtState \in States
  /\ reg \in [vld : BOOLEAN, val : FunCtl \cup {"other"}, idx : -1 .. 2]
  /\ chirp \in [wanted : {J, K, NoLine}, count : 0 .. 5]
  /\ usb2 \in [rst : BOOLEAN, suspend : BOOLEAN, hiSpeed : BOOLEAN, disconn : BOOLEAN]
  /\ timer \in [Timers -> Nat]
  /\ seen \in SUBSET {SE0, J}

TransitionType ==
  /\ state \in States
  /\ nxtState \in States
  /\ reg \in [vld : BOOLEAN, val : FunCtl \cup {"other"}, idx : -1 .. 2]

LEMMA GotoType ==
  ASSUME TransitionType, NEW i, NEW s \in States, NEW then \in States, NEW vld \in BOOLEAN,
         GotoThen(i, s, then, vld)
  PROVE  TransitionType'
<1>1. [reg EXCEPT !.val = "REINI", !.vld = vld]
        \in [vld : BOOLEAN, val : FunCtl \cup {"other"}, idx : -1 .. 2]
  BY DEF TransitionType, FunCtl
<1>2. [reg EXCEPT !.vld = vld] \in [vld : BOOLEAN, val : FunCtl \cup {"other"}, idx : -1 .. 2]
  BY DEF TransitionType
<1> QED
  BY <1>1, <1>2, ZenonT(60) DEF TransitionType, GotoThen, States

LEMMA GoType ==
  ASSUME TransitionType, NEW i, NEW s \in States, Goto(i, s)
  PROVE  TransitionType'
<1>1. nxtState \in States /\ reg.vld \in BOOLEAN
  BY DEF TransitionType
<1> QED
  BY <1>1, GotoType DEF Goto

LEMMA DoneType ==
  ASSUME TransitionType, NEW i, GotoThen(i, nxtState, nxtState, FALSE)
  PROVE  TransitionType'
BY GotoType DEF TransitionType

LEMMA WriteType ==
  ASSUME TransitionType, NEW val \in FunCtl, NEW then \in States, WriteReg(val, then)
  PROVE  TransitionType'
<1>1. [reg EXCEPT !.val = val] \in [vld : BOOLEAN, val : FunCtl \cup {"other"}, idx : -1 .. 2]
  BY DEF TransitionType
<1> QED
  BY <1>1 DEF TransitionType, WriteReg, States

LEMMA TypeStep ==
  ASSUME TypeOK, NEW i \in Inputs, Clock(i)
  PROVE  TypeOK'
<1> USE PeriodAssumption DEF TypeRest, States, FunCtl
<1>0. TypeRest
  BY DEF TypeOK
<1>t. /\ \A m : Start(m, P20) \/ Start(m, P120) \/ Start(m, P1200) \/ Start(m, P3060) \/ Start(m, P5060)
                => timer' \in [Timers -> Nat]
      /\ Run => timer' \in [Timers -> Nat]
      /\ \A m, l : Restart(m, P1200, l) \/ Restart(m, P3060, l) => timer' \in [Timers -> Nat]
      /\ \A m, l : StartBoth(m, P1200, l, P20) \/ StartBoth(m, P5060, l, P20)
                => timer' \in [Timers -> Nat]
  BY <1>0, RunType, StartType, RestartType, StartBothType
<1>g. /\ TransitionType
      /\ \A s \in States : Goto(i, s) => TransitionType'
      /\ \A s, then \in States, vld \in BOOLEAN : GotoThen(i, s, then, vld) => TransitionType'
      /\ \A val \in FunCtl, then \in States : WriteReg(val, then) => TransitionType'
  <2>1. TransitionType
    BY <1>0 DEF TransitionType
  <2> QED
    BY <2>1, GotoType, GoType, WriteType
<1>r. TypeRest'
<2>1. CASE Reset(i)
  BY <2>1, <1>0, <1>t, <1>g DEF Reset, TransitionType
<2>2. CASE InitRegister(i)
  <3>1. ASSUME reg.idx \in InitRegs
        PROVE  [reg EXCEPT !.val = "other", !.idx = reg.idx - 1]
                 \in [vld : BOOLEAN, val : FunCtl \cup {"other"}, idx : -1 .. 2]
    <4>1. reg.idx - 1 \in -1 .. 2
      BY <3>1 DEF InitRegs
    <4> QED
      BY <4>1, <1>0
  <3>2. TransitionType'
    BY <2>2, <3>1, <1>0, <1>g, ZenonT(60) DEF InitRegister, TransitionType
  <3> QED
    BY <2>2, <3>2, <1>0, <1>t DEF InitRegister, TransitionType
<2>3. CASE Init1(i)
  BY <2>3, <1>0, <1>t, <1>g DEF Init1, TransitionType
<2>4. CASE Init2(i)
  <3>1. usb2' \in [rst : BOOLEAN, suspend : BOOLEAN, hiSpeed : BOOLEAN, disconn : BOOLEAN]
    BY <2>4, <1>0 DEF Init2
  <3>2. TransitionType'
    BY <2>4, <1>g DEF Init2
  <3>3. timer' \in [Timers -> Nat]
    BY <2>4, <1>t DEF Init2
  <3> QED
    BY <2>4, <3>1, <3>2, <3>3, <1>0 DEF Init2, TransitionType
<2>5. CASE FsSe0(i)
  BY <2>5, <1>0, <1>t, <1>g, ZenonT(60) DEF FsSe0, TransitionType
<2>6. CASE FsIdle(i)
  BY <2>6, <1>0, <1>t, <1>g, ZenonT(60) DEF FsIdle, TransitionType
<2>7. CASE FsOther(i)
  BY <2>7, <1>0, <1>t, <1>g DEF FsOther, TransitionType
<2>8. CASE HsInit(i)
  BY <2>8, <1>0, <1>t, <1>g DEF HsInit, TransitionType
<2>9. CASE HsInit1(i)
  <3>1. usb2' \in [rst : BOOLEAN, suspend : BOOLEAN, hiSpeed : BOOLEAN, disconn : BOOLEAN]
    BY <2>9, <1>0 DEF HsInit1
  <3>2. TransitionType'
    BY <2>9, <1>g DEF HsInit1
  <3>3. timer' \in [Timers -> Nat]
    BY <2>9, <1>t DEF HsInit1
  <3> QED
    BY <2>9, <3>1, <3>2, <3>3, <1>0 DEF HsInit1, TransitionType
<2>10. CASE HsRun(i)
  BY <2>10, <1>0, <1>t, <1>g, ZenonT(60) DEF HsRun, TransitionType
<2>11. CASE WaitRstHsStart(i)
  BY <2>11, <1>0, <1>t, <1>g, ZenonT(60) DEF WaitRstHsStart, TransitionType
<2>12. CASE WaitRstHs(i)
  BY <2>12, <1>0, <1>t, <1>g DEF WaitRstHs, TransitionType
<2>13. CASE InitChirp(i)
  <3>1. usb2' \in [rst : BOOLEAN, suspend : BOOLEAN, hiSpeed : BOOLEAN, disconn : BOOLEAN]
    BY <2>13, <1>0 DEF InitChirp
  <3>2. TransitionType'
    BY <2>13, <1>g DEF InitChirp
  <3>3. timer' \in [Timers -> Nat]
    BY <2>13, <1>t DEF InitChirp
  <3> QED
    BY <2>13, <3>1, <3>2, <3>3, <1>0 DEF InitChirp, TransitionType
<2>14. CASE DriveChirp(i)
  BY <2>14, <1>0, <1>t, <1>g, ZenonT(60) DEF DriveChirp, TransitionType
<2>15. CASE DetectChirp(i)
  <3>1. chirp' \in [wanted : {J, K, NoLine}, count : 0 .. 5]
    BY <2>15, <1>0 DEF DetectChirp, loadTimer
  <3>2. TransitionType'
    BY <2>15, <1>g DEF DetectChirp
  <3>3. timer' \in [Timers -> Nat]
    BY <2>15, <1>t DEF DetectChirp
  <3> QED
    BY <2>15, <3>1, <3>2, <3>3, <1>0 DEF DetectChirp, TransitionType
<2>16. CASE HostChirp(i)
  <3>1. chirp' \in [wanted : {J, K, NoLine}, count : 0 .. 5]
    BY <2>16, <1>0 DEF HostChirp, loadTimer
  <3>2. TransitionType'
    BY <2>16, <1>g DEF HostChirp
  <3>3. timer' \in [Timers -> Nat]
    BY <2>16, <1>t DEF HostChirp
  <3> QED
    BY <2>16, <3>1, <3>2, <3>3, <1>0 DEF HostChirp, TransitionType
<2>17. CASE WaitFs(i)
  BY <2>17, <1>0, <1>t, <1>g DEF WaitFs, TransitionType
<2>18. CASE SuspendEnter(i)
  BY <2>18, <1>0, <1>t, <1>g, ZenonT(60) DEF SuspendEnter, TransitionType
<2>19. CASE Suspend(i)
  BY <2>19, <1>0, <1>t, <1>g, ZenonT(60) DEF Suspend, TransitionType
<2>20. CASE DebounceSe0(i)
  BY <2>20, <1>0, <1>t, <1>g, ZenonT(60) DEF DebounceSe0, TransitionType
<2>21. CASE Resume(i)
  BY <2>21, <1>0, <1>t, <1>g, ZenonT(60) DEF Resume, TransitionType
<2>22. CASE Wakeup(i)
  BY <2>22, <1>0, <1>t, <1>g, ZenonT(60) DEF Wakeup, TransitionType
<2>23. CASE DriveK(i)
  BY <2>23, <1>0, <1>t, <1>g DEF DriveK, TransitionType
<2>24. CASE WaitKDone(i)
  BY <2>24, <1>0, <1>t, <1>g, ZenonT(60) DEF WaitKDone, TransitionType
<2>25. CASE WriteRegister(i)
  <3>1. [reg EXCEPT !.vld = TRUE] \in [vld : BOOLEAN, val : FunCtl \cup {"other"}, idx : -1 .. 2]
    BY <1>0
  <3>2. TransitionType'
    <4>1. CASE ~reg.vld
      BY <2>25, <4>1, <3>1, <1>0 DEF WriteRegister, TransitionType
    <4>2. CASE reg.vld /\ i.ack = "ok"
      BY <2>25, <4>2, <1>g, DoneType DEF WriteRegister
    <4>3. CASE reg.vld /\ i.ack # "ok"
      BY <2>25, <4>3, <1>0 DEF WriteRegister, TransitionType
    <4> QED
      BY <4>1, <4>2, <4>3, <1>0
  <3> QED
    BY <2>25, <3>2, <1>0, <1>t DEF WriteRegister, TransitionType
<2>26. CASE Disconnected(i)
  BY <2>26, <1>0, <1>t, <1>g, ZenonT(60) DEF Disconnected, TransitionType
<2> QED
  BY <2>1, <2>2, <2>3, <2>4, <2>5, <2>6, <2>7, <2>8, <2>9, <2>10, <2>11, <2>12, <2>13, <2>14, <2>15, <2>16, <2>17, <2>18, <2>19, <2>20, <2>21, <2>22, <2>23, <2>24, <2>25, <2>26 DEF Clock
<1> QED
  BY <1>r, ClockType DEF TypeOK

(***************************************************************************)
(* Every register stays in its range, the counts of the chirps and of the   *)
(* initial writes among them.                                              *)
(***************************************************************************)
THEOREM TypeCorrect == Spec => []TypeOK
<1>0. PRESC \in Nat \ {0} /\ HeldCap \in Nat \ {0}
  BY PrescAssumption, CapAssumption
<1>p. 0 \in 0 .. PRESC - 1 /\ 0 \in 0 .. HeldCap
  BY <1>0
<1>i. /\ [vld |-> FALSE, val |-> "REINI", idx |-> 2]
           \in [vld : BOOLEAN, val : FunCtl \cup {"other"}, idx : -1 .. 2]
      /\ [wanted |-> NoLine, count |-> 0] \in [wanted : {J, K, NoLine}, count : 0 .. 5]
      /\ [held |-> 0, driven |-> 0, chirps |-> 0]
           \in [held : 0 .. HeldCap, driven : 0 .. HeldCap, chirps : 0 .. 6]
      /\ [n \in Timers |-> 0] \in [Timers -> Nat]
  BY <1>p DEF FunCtl, NoLine, J, K
<1>1. Init => TypeOK
  <2> SUFFICES ASSUME Init PROVE TypeOK
    OBVIOUS
  <2>1. state \in States /\ nxtState \in States /\ seen \in SUBSET {SE0, J}
    BY DEF Init, States
  <2>2. lineState \in Lines \cup {NoLine} /\ phy \in FunCtl \cup {"power-up"}
    BY DEF Init
  <2>3. usb2 \in [rst : BOOLEAN, suspend : BOOLEAN, hiSpeed : BOOLEAN, disconn : BOOLEAN]
    BY DEF Init
  <2> QED
    BY <1>p, <1>i, <2>1, <2>2, <2>3 DEF Init, TypeOK
<1>2. TypeOK /\ Rst => TypeOK'
  <2> SUFFICES ASSUME TypeOK, Rst PROVE TypeOK'
    OBVIOUS
  <2>1. state' \in States /\ nxtState' \in States /\ seen' \in SUBSET {SE0, J}
    BY DEF Rst, States
  <2>2. lineState' \in Lines \cup {NoLine} /\ phy' \in FunCtl \cup {"power-up"}
    BY DEF Rst, TypeOK
  <2>3. usb2' \in [rst : BOOLEAN, suspend : BOOLEAN, hiSpeed : BOOLEAN, disconn : BOOLEAN]
    BY DEF Rst
  <2> QED
    BY <1>p, <1>i, <2>1, <2>2, <2>3 DEF Rst, TypeOK
<1>3. TypeOK /\ [Next]_vars => TypeOK'
  <2>1. ASSUME TypeOK, UNCHANGED vars PROVE TypeOK'
    BY <2>1 DEF vars, regs, TypeOK
  <2> QED
    BY <1>2, <2>1, TypeStep DEF Next
<1> QED
  BY <1>1, <1>3, PTL DEF Spec
-----------------------------------------------------------------------------
(***************************************************************************)
(* Mode, speed and outputs.  In front of WRITE_REG and DRIVE_K the machine  *)
(* has decided for 'nxtState' already, so what a state needs is stated of   *)
(* the state it is going to.                                               *)
(***************************************************************************)

Going == IF state \in {"WRITE_REG", "DRIVE_K", "WAIT_K_DON"} THEN nxtState ELSE state

\* What is written to the PHY for the next state.
Written ==
  CASE nxtState = "INIT" -> {"REINI", "other"}
    [] nxtState = "DISCONNECTED" -> {"REINI"}
    [] nxtState \in {"INIT2", "WAITRSTHS_START"} -> {"FS"}
    [] nxtState = "HS_INIT1" -> {"HS"}
    [] nxtState = "DRIVE_CHIRP" -> {"CHIRP"}
    [] nxtState = "WAKEUP" -> {"WKUP_K"}
    [] OTHER -> {}

\* The phase between INIT_CHIRP and the decision on the speed.
Chirping == {"DRIVE_CHIRP", "DETECT_CHIRP", "HOST_CHIRP"}

PhyInv ==
  /\ state \notin {"WRITE_REG", "DRIVE_K", "WAIT_K_DON"} => phy \in Mode(state)
  /\ state \in {"DRIVE_K", "WAIT_K_DON"} =>
       \/ nxtState = "DETECT_CHIRP" /\ phy = "CHIRP"
       \/ nxtState = "RESUME" /\ phy = "WKUP_K"
  /\ state = "WRITE_REG" => reg.val \in Written
  /\ state = "WRITE_REG" /\ reg.val = "other" => phy = "REINI"

SpeedInv ==
  /\ usb2.hiSpeed => hiSpeedEn
  /\ Going \in Chirping \cup {"HS_INIT", "HS_INIT1"} => hiSpeedEn
  /\ Going \in Chirping \cup {"INIT", "INIT1", "INIT2", "FS_RUN", "WAIT_FS"} => ~usb2.hiSpeed
  /\ state \in {"RESET", "HS_RUN"} => usb2.hiSpeed = (state = "HS_RUN")
  /\ Going \in {"HS_INIT", "HS_INIT1"} /\ ~usb2.rst => usb2.hiSpeed

OutputInv ==
  /\ reg.vld => state = "WRITE_REG"
  /\ txVld => state = "WAIT_K_DON"
  /\ Going \in Chirping \cup {"WAIT_FS"} => usb2.rst
  /\ Going \in {"WAKEUP", "RESUME", "DEBOUNCE_SE0"} => usb2.suspend
  /\ state \in {"FS_RUN", "HS_RUN"} => ~usb2.rst /\ ~usb2.suspend

ModeInv == PhyInv /\ SpeedInv /\ OutputInv

LEMMA GotoCases ==
  ASSUME TransitionType, NEW i, NEW s, NEW then, NEW vld, GotoThen(i, s, then, vld)
  PROVE  /\ reg'.vld = vld
         /\ \/ state' = s /\ nxtState' = then /\ reg'.val = reg.val
            \/ /\ state' = "WRITE_REG" /\ nxtState' = "DISCONNECTED"
               /\ reg'.val = "REINI" /\ ~Driving(i)
BY DEF GotoThen, TransitionType

LEMMA WriteCases ==
  ASSUME TransitionType, NEW val, NEW then, WriteReg(val, then)
  PROVE  state' = "WRITE_REG" /\ nxtState' = then /\ reg'.val = val /\ reg'.vld = reg.vld
BY DEF WriteReg, TransitionType

LEMMA ModeStep ==
  ASSUME TypeOK, ModeInv, NEW i \in Inputs, Clock(i)
  PROVE  ModeInv'
<1>1. /\ TransitionType
      /\ usb2 \in [rst : BOOLEAN, suspend : BOOLEAN, hiSpeed : BOOLEAN, disconn : BOOLEAN]
  BY DEF TypeOK, TransitionType
<1>2. /\ i.ack = "ok" => reg.vld
      /\ phy' = IF i.ack = "ok" /\ reg.val \in FunCtl THEN reg.val ELSE phy
      /\ txVld' => state = "DRIVE_K" \/ (txVld /\ Driving(i))
      /\ hiSpeedEn' = hiSpeedEn
  BY DEF Inputs, Clock, Outside, Driving, TypeOK
<1>3. \A s : Goto(i, s) =>
        /\ reg'.vld = reg.vld
        /\ \/ state' = s /\ nxtState' = nxtState /\ reg'.val = reg.val
           \/ /\ state' = "WRITE_REG" /\ nxtState' = "DISCONNECTED"
              /\ reg'.val = "REINI" /\ ~Driving(i)
  BY <1>1, GotoCases DEF Goto
<1>4. \A s, then, vld : GotoThen(i, s, then, vld) =>
        /\ reg'.vld = vld
        /\ \/ state' = s /\ nxtState' = then /\ reg'.val = reg.val
           \/ /\ state' = "WRITE_REG" /\ nxtState' = "DISCONNECTED"
              /\ reg'.val = "REINI" /\ ~Driving(i)
  BY <1>1, GotoCases
<1>5. \A val, then : WriteReg(val, then) =>
        state' = "WRITE_REG" /\ nxtState' = then /\ reg'.val = val /\ reg'.vld = reg.vld
  BY <1>1, WriteCases
<1>6. state # "WRITE_REG" => phy' = phy
  BY <1>2 DEF ModeInv, OutputInv
<1>7. phy \in FunCtl \cup {"power-up"} /\ phy' \in FunCtl \cup {"power-up"}
  BY ClockType DEF TypeOK
<1> USE DEF ModeInv, PhyInv, SpeedInv, OutputInv, Going, Chirping, Written, Mode
<1>11. CASE Reset(i)
  BY <1>11, <1>1, <1>2, <1>3, <1>5, <1>6 DEF Reset
<1>12. CASE InitRegister(i)
  <2>1. \/ Goto(i, "INIT1") /\ usb2' = usb2
        \/ Goto(i, "INIT") /\ usb2' = usb2
        \/ /\ state' = "WRITE_REG" /\ nxtState' = "INIT"
           /\ reg'.val = "other" /\ reg'.vld = reg.vld /\ usb2' = usb2
    BY <1>12, <1>1, <1>5 DEF InitRegister, TransitionType
  <2>2. state = "INIT" /\ phy' = phy /\ hiSpeedEn' = hiSpeedEn
    BY <1>12, <1>2, <1>6 DEF InitRegister
  <2>3. PhyInv'
    BY <2>1, <2>2, <1>1, <1>2, <1>3, <1>7
  <2>4. SpeedInv'
    BY <2>1, <2>2, <1>1, <1>2, <1>3, <1>7
  <2>5. OutputInv'
    BY <2>1, <2>2, <1>1, <1>2, <1>3, <1>7
  <2> QED
    BY <2>3, <2>4, <2>5
<1>13. CASE Init1(i)
  BY <1>13, <1>1, <1>2, <1>3, <1>5, <1>6 DEF Init1
<1>14. CASE Init2(i)
  <2>1. \/ Goto(i, "INIT2") /\ usb2' = usb2
        \/ /\ Goto(i, "FS_RUN")
           /\ ~usb2'.rst /\ ~usb2'.suspend /\ usb2'.hiSpeed = usb2.hiSpeed
    BY <1>14, <1>1 DEF Init2
  <2>2. state = "INIT2" /\ phy' = phy /\ hiSpeedEn' = hiSpeedEn
    BY <1>14, <1>2, <1>6 DEF Init2
  <2>3. PhyInv'
    BY <2>1, <2>2, <1>1, <1>2, <1>3, <1>7
  <2>4. SpeedInv'
    BY <2>1, <2>2, <1>1, <1>2, <1>3, <1>7
  <2>5. OutputInv'
    BY <2>1, <2>2, <1>1, <1>2, <1>3, <1>7
  <2> QED
    BY <2>3, <2>4, <2>5
<1>15. CASE FsSe0(i)
  BY <1>15, <1>1, <1>2, <1>3, <1>5, <1>6 DEF FsSe0
<1>16. CASE FsIdle(i)
  BY <1>16, <1>1, <1>2, <1>3, <1>5, <1>6 DEF FsIdle
<1>17. CASE FsOther(i)
  BY <1>17, <1>1, <1>2, <1>3, <1>5, <1>6 DEF FsOther
<1>18. CASE HsInit(i)
  BY <1>18, <1>1, <1>2, <1>3, <1>5, <1>6 DEF HsInit
<1>19. CASE HsInit1(i)
  <2>1. Goto(i, "HS_RUN") /\ ~usb2'.rst /\ ~usb2'.suspend /\ usb2'.hiSpeed = TRUE
    BY <1>19, <1>1 DEF HsInit1
  <2>2. state = "HS_INIT1" /\ phy' = phy /\ hiSpeedEn' = TRUE
    BY <1>19, <1>2, <1>6 DEF HsInit1, TypeOK
  <2>3. PhyInv'
    BY <2>1, <2>2, <1>1, <1>2, <1>3, <1>7
  <2>4. SpeedInv'
    <3>1. CASE state' = "HS_RUN"
      BY <3>1, <2>1, <2>2
    <3>2. CASE state' = "WRITE_REG" /\ nxtState' = "DISCONNECTED"
      BY <3>2, <2>1, <2>2
    <3> QED
      BY <3>1, <3>2, <2>1, <1>3
  <2>5. OutputInv'
    BY <2>1, <2>2, <1>1, <1>2, <1>3, <1>7
  <2> QED
    BY <2>3, <2>4, <2>5
<1>20. CASE HsRun(i)
  BY <1>20, <1>1, <1>2, <1>3, <1>5, <1>6 DEF HsRun
<1>21. CASE WaitRstHsStart(i)
  BY <1>21, <1>1, <1>2, <1>3, <1>5, <1>6 DEF WaitRstHsStart
<1>22. CASE WaitRstHs(i)
  BY <1>22, <1>1, <1>2, <1>3, <1>5, <1>6 DEF WaitRstHs
<1>23. CASE InitChirp(i)
  <2>1. \/ /\ hiSpeedEn /\ usb2'.rst /\ ~usb2'.hiSpeed /\ reg'.val = "CHIRP" /\ reg'.vld = reg.vld
           /\ state' = "WRITE_REG" /\ nxtState' = "DRIVE_CHIRP"
        \/ Goto(i, "WAIT_FS") /\ usb2'.rst /\ ~usb2'.hiSpeed
    BY <1>23, <1>1, <1>5 DEF InitChirp
  <2>2. state = "INIT_CHIRP" /\ phy' = phy /\ hiSpeedEn' = hiSpeedEn
    BY <1>23, <1>2, <1>6 DEF InitChirp
  <2>3. PhyInv'
    BY <2>1, <2>2, <1>1, <1>2, <1>3, <1>7
  <2>4. SpeedInv'
    BY <2>1, <2>2, <1>1, <1>2, <1>3, <1>7
  <2>5. OutputInv'
    BY <2>1, <2>2, <1>1, <1>2, <1>3, <1>7
  <2> QED
    BY <2>3, <2>4, <2>5
<1>24. CASE DriveChirp(i)
  BY <1>24, <1>1, <1>2, <1>3, <1>4, <1>5, <1>6 DEF DriveChirp
<1>25. CASE DetectChirp(i)
  BY <1>25, <1>1, <1>2, <1>3, <1>5, <1>6 DEF DetectChirp
<1>26. CASE HostChirp(i)
  <2>1. \/ Goto(i, "INIT1") /\ usb2' = usb2
        \/ Goto(i, "HS_INIT") /\ usb2' = usb2
        \/ Goto(i, "HOST_CHIRP") /\ usb2' = usb2
    BY <1>26, <1>1 DEF HostChirp
  <2>2. state = "HOST_CHIRP" /\ phy' = phy /\ hiSpeedEn' = hiSpeedEn
    BY <1>26, <1>2, <1>6 DEF HostChirp
  <2>3. PhyInv'
    BY <2>1, <2>2, <1>1, <1>2, <1>3, <1>7
  <2>4. SpeedInv'
    BY <2>1, <2>2, <1>1, <1>2, <1>3, <1>7
  <2>5. OutputInv'
    BY <2>1, <2>2, <1>1, <1>2, <1>3, <1>7
  <2> QED
    BY <2>3, <2>4, <2>5
<1>27. CASE WaitFs(i)
  <2>1. \/ Goto(i, "INIT1") /\ usb2' = usb2
        \/ Goto(i, "WAIT_FS") /\ usb2' = usb2
    BY <1>27, <1>1 DEF WaitFs
  <2>2. state = "WAIT_FS" /\ phy' = phy /\ hiSpeedEn' = hiSpeedEn
    BY <1>27, <1>2, <1>6 DEF WaitFs
  <2>3. PhyInv'
    BY <2>1, <2>2, <1>1, <1>2, <1>3, <1>7
  <2>4. SpeedInv'
    BY <2>1, <2>2, <1>1, <1>2, <1>3, <1>7
  <2>5. OutputInv'
    BY <2>1, <2>2, <1>1, <1>2, <1>3, <1>7
  <2> QED
    BY <2>3, <2>4, <2>5
<1>28. CASE SuspendEnter(i)
  BY <1>28, <1>1, <1>2, <1>3, <1>5, <1>6 DEF SuspendEnter
<1>29. CASE Suspend(i)
  BY <1>29, <1>1, <1>2, <1>3, <1>5, <1>6 DEF Suspend
<1>30. CASE DebounceSe0(i)
  BY <1>30, <1>1, <1>2, <1>3, <1>5, <1>6 DEF DebounceSe0
<1>31. CASE Resume(i)
  <2>1. \/ Goto(i, "RESUME") /\ usb2' = usb2
        \/ Goto(i, "HS_INIT") /\ usb2' = usb2 /\ usb2.hiSpeed /\ hiSpeedEn
        \/ Goto(i, "INIT1") /\ usb2' = usb2 /\ ~(usb2.hiSpeed /\ hiSpeedEn)
    BY <1>31, <1>1 DEF Resume
  <2>2. state = "RESUME" /\ phy' = phy /\ hiSpeedEn' = hiSpeedEn
    BY <1>31, <1>2, <1>6 DEF Resume
  <2>3. PhyInv'
    BY <2>1, <2>2, <1>1, <1>2, <1>3, <1>7
  <2>4. SpeedInv'
    BY <2>1, <2>2, <1>1, <1>2, <1>3, <1>7
  <2>5. OutputInv'
    BY <2>1, <2>2, <1>1, <1>2, <1>3, <1>7
  <2> QED
    BY <2>3, <2>4, <2>5
<1>32. CASE Wakeup(i)
  BY <1>32, <1>1, <1>2, <1>3, <1>4, <1>5, <1>6 DEF Wakeup
<1>33. CASE DriveK(i)
  BY <1>33, <1>1, <1>2, <1>3, <1>5, <1>6 DEF DriveK
<1>34. CASE WaitKDone(i)
  <2>1. PhyInv'
    BY <1>34, <1>1, <1>2, <1>3, <1>5, <1>6 DEF WaitKDone
  <2>2. SpeedInv'
    BY <1>34, <1>1, <1>2, <1>3, <1>5, <1>6 DEF WaitKDone
  <2>3. OutputInv'
    BY <1>34, <1>1, <1>2, <1>3, <1>5, <1>6 DEF WaitKDone
  <2> QED
    BY <2>1, <2>2, <2>3
<1>35. CASE WriteRegister(i)
  <2>1. CASE ~reg.vld
    <3>1. reg'.val = reg.val
      BY <1>35, <2>1, <1>1 DEF WriteRegister, TransitionType
    <3> QED
      BY <1>35, <2>1, <3>1, <1>1, <1>2 DEF WriteRegister
  <2>2. CASE reg.vld /\ i.ack # "ok"
    BY <1>35, <2>2, <1>1, <1>2 DEF WriteRegister
  <2>3. CASE reg.vld /\ i.ack = "ok"
    <3>1. GotoThen(i, nxtState, nxtState, FALSE)
      BY <1>35, <2>3 DEF WriteRegister
    <3>2. /\ state = "WRITE_REG" /\ usb2' = usb2 /\ hiSpeedEn' = hiSpeedEn /\ ~txVld'
          /\ nxtState \in {"INIT", "DISCONNECTED", "INIT2", "WAITRSTHS_START", "HS_INIT1",
                           "DRIVE_CHIRP", "WAKEUP"}
          /\ phy' \in Mode(nxtState)
      BY <1>35, <2>3, <1>2 DEF WriteRegister, FunCtl
    <3>3. PhyInv'
      BY <3>1, <3>2, <1>1, <1>4
    <3>4. SpeedInv'
      BY <3>1, <3>2, <1>1, <1>4
    <3>5. OutputInv'
      BY <3>1, <3>2, <1>1, <1>4
    <3> QED
      BY <3>3, <3>4, <3>5
  <2> QED
    BY <2>1, <2>2, <2>3, <1>1 DEF TransitionType
<1>36. CASE Disconnected(i)
  BY <1>36, <1>1, <1>2, <1>3, <1>5, <1>6 DEF Disconnected
<1> QED
  BY <1>11, <1>12, <1>13, <1>14, <1>15, <1>16, <1>17, <1>18, <1>19, <1>20, <1>21, <1>22, <1>23, <1>24, <1>25, <1>26, <1>27, <1>28, <1>29, <1>30, <1>31, <1>32, <1>33, <1>34, <1>35, <1>36 DEF Clock

\* What the other invariants build on.
Inv == TypeOK /\ ModeInv

LEMMA ModeRst ==
  ASSUME TypeOK, Rst
  PROVE  ModeInv'
<1>1. /\ state' = "RESET" /\ phy' \in FunCtl \cup {"power-up"}
      /\ ~reg'.vld /\ ~txVld' /\ usb2'.hiSpeed = FALSE
  BY DEF Rst, TypeOK
<1> QED
  BY <1>1 DEF ModeInv, PhyInv, SpeedInv, OutputInv, Going, Chirping, Mode

LEMMA Invariant == Spec => []Inv
<1>1. Init => ModeInv
  <2> SUFFICES ASSUME Init PROVE ModeInv
    OBVIOUS
  <2>1. /\ state = "RESET" /\ phy = "power-up"
        /\ ~reg.vld /\ ~txVld /\ usb2.hiSpeed = FALSE
    BY DEF Init
  <2> QED
    BY <2>1 DEF ModeInv, PhyInv, SpeedInv, OutputInv, Going, Chirping, Mode
<1>2. TypeOK /\ ModeInv /\ [Next]_vars => ModeInv'
  <2>1. ASSUME ModeInv, UNCHANGED vars PROVE ModeInv'
    BY <2>1 DEF vars, regs, ModeInv, PhyInv, SpeedInv, OutputInv, Going, Written
  <2> QED
    BY <2>1, ModeStep, ModeRst DEF Next
<1> QED
  BY <1>1, <1>2, TypeCorrect, PTL DEF Spec, Inv

\* The PHY is in the mode of the state, and the speed that is reported is the speed of the PHY,
\* after any aborted register access, disconnect or reset of the machine alone.
THEOREM ModeAgreesHolds == Spec => []ModeAgrees
<1>1. ModeInv => ModeAgrees
  BY DEF ModeInv, PhyInv, SpeedInv, ModeAgrees, Going
<1> QED
  BY <1>1, Invariant, PTL DEF Inv

\* K is driven only while the core routes it to the PHY, and the packet engine is released
\* in the run states.
THEOREM KReachesPhyHolds == Spec => []KReachesPhy
<1>1. ModeInv => KReachesPhy
  BY DEF ModeInv, PhyInv, OutputInv, KReachesPhy, Going, Chirping
<1> QED
  BY <1>1, Invariant, PTL DEF Inv

\* A device that was not reset resumes at the speed it was suspended at.
THEOREM SpeedSurvivesHolds == Spec => SpeedSurvives
<1> DEFINE Survives ==
      usb2.suspend /\ ~usb2'.suspend /\ ~usb2.rst /\ state' # "RESET" =>
        /\ usb2'.hiSpeed = usb2.hiSpeed
        /\ phy' = (IF usb2.hiSpeed THEN "HS" ELSE "FS")
<1>1. ASSUME Inv, NEW i \in Inputs, Clock(i) PROVE Survives
  <2>1. usb2 \in [rst : BOOLEAN, suspend : BOOLEAN, hiSpeed : BOOLEAN, disconn : BOOLEAN]
    BY <1>1 DEF Inv, TypeOK
  <2>2. state # "WRITE_REG" => phy' = phy
    BY <1>1 DEF Inv, ModeInv, OutputInv, Inputs, Clock, Outside
  <2>3. CASE Init2(i)
    <3>1. state = "INIT2" /\ usb2'.hiSpeed = usb2.hiSpeed
      BY <2>3, <2>1 DEF Init2
    <3>2. ~usb2.hiSpeed /\ phy = "FS"
      BY <3>1, <1>1 DEF Inv, ModeInv, PhyInv, SpeedInv, Going, Mode
    <3> QED
      BY <3>1, <3>2, <2>2
  <2>4. CASE HsInit1(i)
    <3>1. state = "HS_INIT1" /\ usb2'.hiSpeed = TRUE
      BY <2>4, <2>1 DEF HsInit1
    <3>2. (~usb2.rst => usb2.hiSpeed) /\ phy = "HS"
      BY <3>1, <1>1 DEF Inv, ModeInv, PhyInv, SpeedInv, Going, Mode
    <3> QED
      BY <3>1, <3>2, <2>2, <2>1
  <2>5. \/ usb2'.suspend = usb2.suspend \/ usb2'.suspend = TRUE
        \/ Init2(i) \/ HsInit1(i)
    BY <1>1, <2>1 DEF Clock, Reset, InitRegister, Init1, FsSe0, FsIdle, FsOther, HsInit, HsRun,
       WaitRstHsStart, WaitRstHs, InitChirp, DriveChirp, DetectChirp, HostChirp, WaitFs,
       SuspendEnter, Suspend, DebounceSe0, Resume, Wakeup, DriveK, WaitKDone, WriteRegister,
       Disconnected
  <2> QED
    BY <2>3, <2>4, <2>5
<1>2. Inv /\ [Next]_vars => [Survives]_vars
  BY <1>1 DEF Next, Rst, vars
<1> QED
  BY <1>2, Invariant, PTL DEF Spec, SpeedSurvives
-----------------------------------------------------------------------------
(***************************************************************************)
(* The order of the states.                                                *)
(***************************************************************************)

After(s) ==
  CASE s = "RESET" -> {"INIT"}
    [] s = "INIT" -> {"INIT1"}
    [] s = "INIT1" -> {"INIT2"}
    [] s = "INIT2" -> {"FS_RUN"}
    [] s \in {"FS_RUN", "WAITRSTHS"} -> {"INIT_CHIRP", "SUSPEND"}
    [] s = "HS_INIT" -> {"HS_INIT1"}
    [] s = "HS_INIT1" -> {"HS_RUN"}
    [] s = "HS_RUN" -> {"WAITRSTHS_START"}
    [] s = "WAITRSTHS_START" -> {"WAITRSTHS"}
    [] s = "INIT_CHIRP" -> {"DRIVE_CHIRP", "WAIT_FS"}
    [] s = "DRIVE_CHIRP" -> {"DETECT_CHIRP"}
    [] s = "DETECT_CHIRP" -> {"HOST_CHIRP"}
    [] s \in {"HOST_CHIRP", "RESUME"} -> {"INIT1", "HS_INIT"}
    [] s = "WAIT_FS" -> {"INIT1"}
    [] s = "SUSPEND" -> {"DEBOUNCE_SE0", "RESUME", "WAKEUP"}
    [] s = "DEBOUNCE_SE0" -> {"SUSPEND", "INIT_CHIRP"}
    [] s = "WAKEUP" -> {"RESUME"}
    [] OTHER -> {}

WakeupInv == nxtState = "WAKEUP" => state \in {"WRITE_REG", "WAKEUP"}

\* A clock goes on to a successor of the state, to the disconnect, or nowhere.
LEMMA Flow ==
  ASSUME Inv, WakeupInv, NEW i \in Inputs, Clock(i)
  PROVE  /\ state \in {"WRITE_REG", "DRIVE_K", "WAIT_K_DON"} => Going' \in {Going, "DISCONNECTED"}
         /\ state \notin {"WRITE_REG", "DRIVE_K", "WAIT_K_DON"} =>
              Going' \in After(state) \cup {state, "DISCONNECTED"}
         /\ state' = "WAIT_K_DON" => state \in {"DRIVE_K", "WAIT_K_DON"}
         /\ WakeupInv'
<1> DEFINE Target ==
      /\ state \in {"WRITE_REG", "DRIVE_K", "WAIT_K_DON"} => Going' \in {Going, "DISCONNECTED"}
      /\ state \notin {"WRITE_REG", "DRIVE_K", "WAIT_K_DON"} =>
           Going' \in After(state) \cup {state, "DISCONNECTED"}
      /\ state' = "WAIT_K_DON" => state \in {"DRIVE_K", "WAIT_K_DON"}
      /\ WakeupInv'
<1>1. TransitionType
  BY DEF Inv, TypeOK, TransitionType
<1>2. /\ state = "WRITE_REG" =>
           nxtState \in {"INIT", "DISCONNECTED", "INIT2", "WAITRSTHS_START", "HS_INIT1",
                         "DRIVE_CHIRP", "WAKEUP"}
      /\ state \in {"DRIVE_K", "WAIT_K_DON"} => nxtState \in {"DETECT_CHIRP", "RESUME"}
  BY DEF Inv, ModeInv, PhyInv, Written
<1>3. \A s : Goto(i, s) =>
        \/ state' = s /\ nxtState' = nxtState
        \/ state' = "WRITE_REG" /\ nxtState' = "DISCONNECTED"
  BY <1>1, GotoCases DEF Goto
<1>4. \A s, then, vld : GotoThen(i, s, then, vld) =>
        \/ state' = s /\ nxtState' = then
        \/ state' = "WRITE_REG" /\ nxtState' = "DISCONNECTED"
  BY <1>1, GotoCases
<1>5. \A val, then : WriteReg(val, then) => state' = "WRITE_REG" /\ nxtState' = then
  BY <1>1, WriteCases
<1> USE DEF WakeupInv, Going, After
<1>11. CASE Reset(i)
  BY <1>11, <1>2, <1>3, <1>4, <1>5 DEF Reset
<1>12. CASE InitRegister(i)
  BY <1>12, <1>2, <1>3, <1>4, <1>5 DEF InitRegister
<1>13. CASE Init1(i)
  BY <1>13, <1>2, <1>3, <1>4, <1>5 DEF Init1
<1>14. CASE Init2(i)
  BY <1>14, <1>2, <1>3, <1>4, <1>5 DEF Init2
<1>15. CASE FsSe0(i)
  BY <1>15, <1>2, <1>3, <1>4, <1>5 DEF FsSe0
<1>16. CASE FsIdle(i)
  BY <1>16, <1>2, <1>3, <1>4, <1>5 DEF FsIdle
<1>17. CASE FsOther(i)
  BY <1>17, <1>2, <1>3, <1>4, <1>5 DEF FsOther
<1>18. CASE HsInit(i)
  BY <1>18, <1>2, <1>3, <1>4, <1>5 DEF HsInit
<1>19. CASE HsInit1(i)
  BY <1>19, <1>2, <1>3, <1>4, <1>5 DEF HsInit1
<1>20. CASE HsRun(i)
  BY <1>20, <1>2, <1>3, <1>4, <1>5 DEF HsRun
<1>21. CASE WaitRstHsStart(i)
  BY <1>21, <1>2, <1>3, <1>4, <1>5 DEF WaitRstHsStart
<1>22. CASE WaitRstHs(i)
  BY <1>22, <1>2, <1>3, <1>4, <1>5 DEF WaitRstHs
<1>23. CASE InitChirp(i)
  BY <1>23, <1>2, <1>3, <1>4, <1>5 DEF InitChirp
<1>24. CASE DriveChirp(i)
  BY <1>24, <1>2, <1>3, <1>4, <1>5 DEF DriveChirp
<1>25. CASE DetectChirp(i)
  BY <1>25, <1>2, <1>3, <1>4, <1>5 DEF DetectChirp
<1>26. CASE HostChirp(i)
  BY <1>26, <1>2, <1>3, <1>4, <1>5 DEF HostChirp
<1>27. CASE WaitFs(i)
  BY <1>27, <1>2, <1>3, <1>4, <1>5 DEF WaitFs
<1>28. CASE SuspendEnter(i)
  BY <1>28, <1>2, <1>3, <1>4, <1>5 DEF SuspendEnter
<1>29. CASE Suspend(i)
  BY <1>29, <1>2, <1>3, <1>4, <1>5 DEF Suspend
<1>30. CASE DebounceSe0(i)
  BY <1>30, <1>2, <1>3, <1>4, <1>5 DEF DebounceSe0
<1>31. CASE Resume(i)
  BY <1>31, <1>2, <1>3, <1>4, <1>5 DEF Resume
<1>32. CASE Wakeup(i)
  BY <1>32, <1>2, <1>3, <1>4, <1>5 DEF Wakeup
<1>33. CASE DriveK(i)
  BY <1>33, <1>2, <1>3, <1>4, <1>5 DEF DriveK
<1>34. CASE WaitKDone(i)
  BY <1>34, <1>2, <1>3, <1>4, <1>5 DEF WaitKDone
<1>35. CASE WriteRegister(i)
  BY <1>35, <1>2, <1>3, <1>4, <1>5 DEF WriteRegister
<1>36. CASE Disconnected(i)
  BY <1>36, <1>2, <1>3, <1>4, <1>5 DEF Disconnected
<1> HIDE DEF WakeupInv, Going, After
<1> QED
  BY <1>11, <1>12, <1>13, <1>14, <1>15, <1>16, <1>17, <1>18, <1>19, <1>20, <1>21, <1>22, <1>23, <1>24, <1>25, <1>26, <1>27, <1>28, <1>29, <1>30, <1>31, <1>32, <1>33, <1>34, <1>35, <1>36 DEF Clock

\* Which action a clock of a state is.
LEMMA ActionOf ==
  ASSUME NEW i \in Inputs, Clock(i)
  PROVE  /\ state = "INIT2" => Init2(i)
         /\ state = "FS_RUN" => FsSe0(i) \/ FsIdle(i) \/ FsOther(i)
         /\ state = "HS_INIT1" => HsInit1(i)
         /\ state = "HS_RUN" => HsRun(i)
         /\ state = "WAITRSTHS" => WaitRstHs(i)
         /\ state = "DETECT_CHIRP" => DetectChirp(i)
         /\ state = "HOST_CHIRP" => HostChirp(i)
         /\ state = "SUSPEND" => SuspendEnter(i) \/ Suspend(i)
         /\ state = "DEBOUNCE_SE0" => DebounceSe0(i)
         /\ state = "RESUME" => Resume(i)
         /\ state = "DRIVE_K" => DriveK(i)
         /\ state = "WAIT_K_DON" => WaitKDone(i)
BY DEF Clock, Reset, InitRegister, Init1, Init2, FsSe0, FsIdle, FsOther, HsInit, HsInit1,
   HsRun, WaitRstHsStart, WaitRstHs, InitChirp, DriveChirp, DetectChirp, HostChirp, WaitFs,
   SuspendEnter, Suspend, DebounceSe0, Resume, Wakeup, DriveK, WaitKDone, WriteRegister,
   Disconnected

\* In FS_RUN the timer of the other line state is reset, and stays so.
TimerInv ==
  state = "FS_RUN" =>
    /\ SE0 \in seen => seen = {SE0} /\ timer["3060"] = 0
    /\ J \in seen => seen = {J} /\ timer["1200"] = 0

\* What the actions of FS_RUN do to the two timers.
LEMMA FsTimers ==
  ASSUME Inv, TimerInv, NEW i \in Inputs, FsSe0(i) \/ FsIdle(i) \/ FsOther(i)
  PROVE  /\ SE0 \in seen' => seen' = {SE0} /\ timer'["3060"] = 0
         /\ J \in seen' => seen' = {J} /\ timer'["1200"] = 0
<1>1. timer \in [Timers -> Nat] /\ seen \in SUBSET {SE0, J} /\ SE0 # J
  BY DEF Inv, TypeOK, SE0, J
<1>2. {"1200", "3060"} \subseteq Timers
  BY DEF Timers
<1>3. CASE FsSe0(i)
  <2>1. CASE SE0 \in seen
    BY <1>1, <1>2, <1>3, <2>1 DEF FsSe0, TimerInv, Run, decrTimer
  <2>2. CASE SE0 \notin seen
    BY <1>1, <1>2, <1>3, <2>2 DEF FsSe0, Restart
  <2> QED
    BY <2>1, <2>2
<1>4. CASE FsIdle(i)
  <2>1. CASE J \in seen
    BY <1>1, <1>2, <1>4, <2>1 DEF FsIdle, TimerInv, Run, decrTimer
  <2>2. CASE J \notin seen
    BY <1>1, <1>2, <1>4, <2>2 DEF FsIdle, Restart
  <2> QED
    BY <2>1, <2>2
<1>5. CASE FsOther(i)
  BY <1>5 DEF FsOther
<1> QED
  BY <1>3, <1>4, <1>5

LEMMA TimerStep ==
  ASSUME Inv, WakeupInv, TimerInv, NEW i \in Inputs, Clock(i)
  PROVE  TimerInv'
<1> SUFFICES ASSUME state' = "FS_RUN" PROVE TimerInv'
  BY DEF TimerInv
<1>1. state \in {"INIT2", "FS_RUN"}
  BY Flow DEF Going, After, Inv, ModeInv, PhyInv, Written
<1>2. CASE state = "INIT2"
  <2>1. Init2(i)
    BY <1>2, ActionOf
  <2>2. seen' = {}
    BY <2>1, GotoCases DEF Init2, Goto, Inv, TypeOK, TransitionType
  <2> QED
    BY <2>2 DEF TimerInv
<1>3. CASE state = "FS_RUN"
  <2>1. FsSe0(i) \/ FsIdle(i) \/ FsOther(i)
    BY <1>3, ActionOf
  <2> QED
    BY <2>1, FsTimers DEF TimerInv
<1> QED
  BY <1>1, <1>2, <1>3

LEMMA OrderInvariant == Spec => [](Inv /\ WakeupInv /\ TimerInv)
<1>1. Init => WakeupInv /\ TimerInv
  BY DEF Init, WakeupInv, TimerInv
<1>2. Inv /\ WakeupInv /\ TimerInv /\ [Next]_vars => (WakeupInv /\ TimerInv)'
  <2>1. ASSUME Rst PROVE (WakeupInv /\ TimerInv)'
    BY <2>1 DEF Rst, WakeupInv, TimerInv
  <2>2. ASSUME WakeupInv, TimerInv, UNCHANGED vars PROVE (WakeupInv /\ TimerInv)'
    BY <2>2 DEF vars, regs, WakeupInv, TimerInv
  <2> QED
    BY <2>1, <2>2, Flow, TimerStep DEF Next
<1> QED
  BY <1>1, <1>2, Invariant, PTL DEF Spec

\* When FS_RUN is left for a reset or for suspend, both timers have expired, so that neither
\* runs on into the next state.
THEOREM TimersExpiredHolds == Spec => TimersExpired
<1> DEFINE Both ==
      state = "FS_RUN" /\ state' \in {"INIT_CHIRP", "SUSPEND"} =>
        timer'["1200"] = 0 /\ timer'["3060"] = 0
<1>1. ASSUME Inv, TimerInv, NEW i \in Inputs, Clock(i) PROVE Both
  <2> SUFFICES ASSUME state = "FS_RUN", state' \in {"INIT_CHIRP", "SUSPEND"}
               PROVE  timer'["1200"] = 0 /\ timer'["3060"] = 0
    OBVIOUS
  <2>1. timer \in [Timers -> Nat] /\ TransitionType /\ {"1200", "3060"} \subseteq Timers
    BY <1>1 DEF Inv, TypeOK, Timers, TransitionType
  <2>2. \A s : Goto(i, s) => state' \in {s, "WRITE_REG"}
    BY <2>1, GotoCases DEF Goto
  <2>3. FsSe0(i) \/ FsIdle(i) \/ FsOther(i)
    BY <1>1, ActionOf
  <2>4. CASE FsSe0(i)
    <3>1. SE0 \in seen /\ Expired("1200") /\ Run
      BY <2>2, <2>4 DEF FsSe0
    <3> QED
      BY <2>1, <3>1, <1>1 DEF TimerInv, Run, decrTimer, Expired
  <2>5. CASE FsIdle(i)
    <3>1. J \in seen /\ Expired("3060") /\ Run
      BY <2>2, <2>5 DEF FsIdle
    <3> QED
      BY <2>1, <3>1, <1>1 DEF TimerInv, Run, decrTimer, Expired
  <2>6. ~FsOther(i)
    BY <2>2 DEF FsOther
  <2> QED
    BY <2>3, <2>4, <2>5, <2>6
<1>2. ASSUME Rst PROVE Both
  BY <1>2 DEF Rst
<1>3. Inv /\ TimerInv /\ [Next]_vars => [Both]_vars
  BY <1>1, <1>2 DEF Next
<1> QED
  BY <1>3, OrderInvariant, PTL DEF Spec, TimersExpired
-----------------------------------------------------------------------------
(***************************************************************************)
(* The chirp of the host.  'count' counts down the changes of the line; a   *)
(* change is counted once its timer has expired, so that one that is being  *)
(* timed was seen already.                                                  *)
(***************************************************************************)

ChirpInv ==
  /\ state = "HOST_CHIRP" =>
       /\ chirp.wanted = (IF (5 - chirp.count) % 2 = 0 THEN K ELSE J)
       /\ obs.chirps >= 5 - chirp.count
       /\ timer["small"] = 0 => obs.chirps >= 6 - chirp.count
  /\ Going \in {"HS_INIT", "HS_INIT1"} => usb2.hiSpeed \/ obs.chirps = 6

\* The step of HOST_CHIRP counts no change of the line that was not there.
LEMMA HostChirpStep ==
  ASSUME Inv, ChirpInv, NEW i \in Inputs, Clock(i), HostChirp(i)
  PROVE  /\ chirp'.wanted = (IF (5 - chirp'.count) % 2 = 0 THEN K ELSE J)
         /\ obs'.chirps >= 5 - chirp'.count
         /\ timer'["small"] = 0 => obs'.chirps >= 6 - chirp'.count
         /\ Expired("small") /\ chirp.count = 0 => obs'.chirps = 6
<1>1. /\ chirp.count \in 0 .. 5 /\ obs.chirps \in 0 .. 6 /\ obs'.chirps \in 0 .. 6
      /\ timer \in [Timers -> Nat] /\ "small" \in Timers /\ K # J
  BY ClockType DEF Inv, TypeOK, Timers, J, K
<1>2. /\ chirp.wanted = (IF (5 - chirp.count) % 2 = 0 THEN K ELSE J)
      /\ obs.chirps >= 5 - chirp.count
      /\ timer["small"] = 0 => obs.chirps >= 6 - chirp.count
  BY DEF ChirpInv, HostChirp
<1>3. obs'.chirps = IF Line(i) = (IF obs.chirps % 2 = 0 THEN K ELSE J)
                    THEN Min(obs.chirps + 1, 6) ELSE obs.chirps
  BY DEF HostChirp, Clock, Outside
<1>4. obs'.chirps >= obs.chirps
  BY <1>1, <1>3 DEF Min
<1>5. Start("small", P20) => timer'["small"] # 0
  BY <1>1, PeriodAssumption DEF Start, loadTimer
<1>6. CASE Expired("small") /\ chirp.count = 0
  BY <1>1, <1>2, <1>4, <1>6 DEF HostChirp, Expired
<1>7. CASE Expired("small") /\ chirp.count # 0
  <2>1. /\ chirp' = [wanted |-> IF chirp.wanted = K THEN J ELSE K, count |-> chirp.count - 1]
        /\ Start("small", P20)
    BY <1>7 DEF HostChirp
  <2>2. chirp'.wanted = (IF (5 - chirp'.count) % 2 = 0 THEN K ELSE J)
    BY <2>1, <1>1, <1>2, <1>7
  <2> QED
    BY <2>1, <2>2, <1>1, <1>2, <1>4, <1>5, <1>7 DEF Expired
<1>8. CASE ~Expired("small")
  <2>1. /\ chirp' = chirp
        /\ IF Line(i) # chirp.wanted THEN Start("small", P20) ELSE Run
    BY <1>8 DEF HostChirp
  <2>2. Line(i) = chirp.wanted => obs'.chirps >= 6 - chirp.count
    BY <1>1, <1>2, <1>3, <1>4 DEF Min
  <2> QED
    BY <2>1, <2>2, <1>1, <1>2, <1>4, <1>5, <1>8
<1> QED
  BY <1>6, <1>7, <1>8

LEMMA ChirpStep ==
  ASSUME Inv, WakeupInv, ChirpInv, NEW i \in Inputs, Clock(i)
  PROVE  ChirpInv'
<1>0. TransitionType
  BY DEF Inv, TypeOK, TransitionType
<1>1. \A s : Goto(i, s) =>
        \/ state' = s /\ nxtState' = nxtState
        \/ state' = "WRITE_REG" /\ nxtState' = "DISCONNECTED"
  BY <1>0, GotoCases DEF Goto
<1>2. ASSUME state' = "HOST_CHIRP"
      PROVE  /\ chirp'.wanted = (IF (5 - chirp'.count) % 2 = 0 THEN K ELSE J)
             /\ obs'.chirps >= 5 - chirp'.count
             /\ timer'["small"] = 0 => obs'.chirps >= 6 - chirp'.count
  <2>1. state \in {"DETECT_CHIRP", "HOST_CHIRP"}
    BY <1>2, Flow DEF Going, After, Inv, ModeInv, PhyInv, Written
  <2>2. CASE state = "DETECT_CHIRP"
    <3>1. chirp'.wanted = K /\ chirp'.count = 5 /\ timer'["small"] # 0
      BY <2>2, ActionOf, PeriodAssumption
      DEF DetectChirp, loadTimer, StartBoth, Inv, TypeOK, Timers
    <3>2. obs'.chirps \in 0 .. 6
      BY ClockType DEF Inv
    <3> QED
      BY <3>1, <3>2
  <2>3. CASE state = "HOST_CHIRP"
    BY <2>3, ActionOf, HostChirpStep
  <2> QED
    BY <2>1, <2>2, <2>3
<1>3. ASSUME Going' \in {"HS_INIT", "HS_INIT1"}
      PROVE  usb2'.hiSpeed \/ obs'.chirps = 6
  <2>1. Going \in {"HS_INIT", "HS_INIT1"} \/ state \in {"HOST_CHIRP", "RESUME"}
    BY <1>3, Flow DEF Going, After
  <2>2. CASE state = "HOST_CHIRP"
    <3>1. HostChirp(i) /\ Expired("small") /\ chirp.count = 0
      BY <2>2, <1>1, <1>3, ActionOf DEF HostChirp, Going
    <3> QED
      BY <3>1, HostChirpStep
  <2>3. CASE state = "RESUME"
    <3>1. Resume(i) /\ usb2.hiSpeed
      BY <2>3, <1>1, <1>3, ActionOf DEF Resume, Going
    <3> QED
      BY <3>1 DEF Resume
  <2>4. CASE Going \in {"HS_INIT", "HS_INIT1"}
    <3>1. /\ state \in {"HS_INIT", "HS_INIT1", "WRITE_REG"}
          /\ usb2.hiSpeed \/ obs.chirps = 6
      BY <2>4 DEF ChirpInv, Inv, ModeInv, PhyInv, Going
    <3>2. obs'.chirps = obs.chirps
      BY <3>1 DEF Clock, Outside
    <3>3. usb2'.hiSpeed = usb2.hiSpeed \/ usb2'.hiSpeed = TRUE
      BY <3>1 DEF Clock, Reset, InitRegister, Init1, Init2, FsSe0, FsIdle, FsOther, HsInit,
         HsInit1, HsRun, WaitRstHsStart, WaitRstHs, InitChirp, DriveChirp, DetectChirp,
         HostChirp, WaitFs, SuspendEnter, Suspend, DebounceSe0, Resume, Wakeup, DriveK,
         WaitKDone, WriteRegister, Disconnected, Inv, TypeOK
    <3> QED
      BY <3>1, <3>2, <3>3
  <2> QED
    BY <2>1, <2>2, <2>3, <2>4
<1> QED
  BY <1>2, <1>3 DEF ChirpInv

\* High speed is reported only after three pairs of K and J of the host, or again after a
\* suspend in high speed.
THEOREM NegotiatedSpeedHolds == Spec => NegotiatedSpeed
<1> DEFINE Negotiated == ~usb2.hiSpeed /\ usb2'.hiSpeed => obs.chirps = 6
<1>1. Init => ChirpInv
  BY DEF Init, ChirpInv, Going
<1>2. Inv /\ WakeupInv /\ TimerInv /\ ChirpInv /\ [Next]_vars => ChirpInv'
  <2>1. ASSUME Rst PROVE ChirpInv'
    BY <2>1 DEF Rst, ChirpInv, Going
  <2>2. ASSUME ChirpInv, UNCHANGED vars PROVE ChirpInv'
    BY <2>2 DEF vars, regs, ChirpInv, Going
  <2> QED
    BY <2>1, <2>2, ChirpStep DEF Next
<1>3. ASSUME Inv, ChirpInv, NEW i \in Inputs, Clock(i) PROVE Negotiated
  <2>1. CASE HsInit1(i)
    BY <2>1, <1>3 DEF HsInit1, ChirpInv, Going
  <2>2. HsInit1(i) \/ usb2'.hiSpeed = usb2.hiSpeed \/ usb2'.hiSpeed = FALSE
    BY <1>3 DEF Clock, Reset, InitRegister, Init1, Init2, FsSe0, FsIdle, FsOther, HsInit,
       HsRun, WaitRstHsStart, WaitRstHs, InitChirp, DriveChirp, DetectChirp,
       HostChirp, WaitFs, SuspendEnter, Suspend, DebounceSe0, Resume, Wakeup, DriveK,
       WaitKDone, WriteRegister, Disconnected, Inv, TypeOK
  <2> QED
    BY <2>1, <2>2
<1>4. Inv /\ ChirpInv /\ [Next]_vars => [Negotiated]_vars
  BY <1>3 DEF Next, Rst
<1> QED
  BY <1>1, <1>2, <1>4, OrderInvariant, PTL DEF Spec, NegotiatedSpeed
-----------------------------------------------------------------------------
(***************************************************************************)
(* Timers and time.  A timer t of the period p that runs for n clocks, with *)
(* the prescaler at c: its ticks are not ahead of the clocks.  The count of *)
(* the clocks stops at HeldCap, so the theorems assume that it is long      *)
(* enough for the period.                                                  *)
(***************************************************************************)

Lasts(t, n, c, p) == t <= p - 1 /\ (n = HeldCap \/ n + c >= (p - 1 - t) * PRESC)

LEMMA LastsStarts ==
  ASSUME NEW p \in Nat, NEW n \in Nat, NEW c \in Nat
  PROVE  Lasts(p - 1, n, c, p)
<1>1. (p - 1 - (p - 1)) * PRESC = 0
  BY PrescAssumption
<1> QED
  BY <1>1 DEF Lasts

LEMMA LastsRuns ==
  ASSUME NEW p \in Nat, NEW t \in Nat, NEW n \in 0 .. HeldCap, NEW c \in 0 .. PRESC - 1,
         Lasts(t, n, c, p)
  PROVE  Lasts(IF c = 0 /\ t > 0 THEN t - 1 ELSE t, Min(n + 1, HeldCap),
               IF c = 0 THEN PRESC - 1 ELSE c - 1, p)
<1>0. PRESC \in Nat \ {0} /\ HeldCap \in Nat
  BY PrescAssumption, CapAssumption
<1>1. CASE n = HeldCap
  BY <1>0, <1>1 DEF Lasts, Min
<1>2. CASE n # HeldCap
  <2>1. n + c >= (p - 1 - t) * PRESC /\ Min(n + 1, HeldCap) = n + 1
    BY <1>0, <1>2 DEF Lasts, Min
  <2>2. CASE c = 0 /\ t > 0
    <3>1. (p - 1 - (t - 1)) * PRESC = (p - 1 - t) * PRESC + PRESC
      BY <1>0
    <3>2. (p - 1 - t) * PRESC \in Int
      BY <1>0
    <3> QED
      BY <1>0, <2>1, <2>2, <3>1, <3>2 DEF Lasts
  <2>3. CASE ~(c = 0 /\ t > 0)
    <3>1. (p - 1 - t) * PRESC \in Int
      BY <1>0
    <3> QED
      BY <1>0, <2>1, <2>3, <3>1 DEF Lasts
  <2> QED
    BY <2>2, <2>3
<1> QED
  BY <1>1, <1>2

\* A timer that was P-1 a clock ago may have made its first tick.
LEMMA LastsBegins ==
  ASSUME NEW p \in Nat, p >= 2, NEW n \in Nat \ {0}, NEW c \in 0 .. PRESC - 1, c = 0
  PROVE  Lasts(p - 2, n, PRESC - 1, p)
<1>1. (p - 1 - (p - 2)) * PRESC = PRESC
  BY PrescAssumption
<1> QED
  BY <1>1, PrescAssumption DEF Lasts

LEMMA LastsEnds ==
  ASSUME NEW p \in Nat, NEW n \in 0 .. HeldCap, NEW c \in 0 .. PRESC - 1, Lasts(0, n, c, p),
         HeldCap >= Least(p)
  PROVE  n >= Least(p)
<1>0. PRESC \in Nat \ {0} /\ HeldCap \in Nat
  BY PrescAssumption, CapAssumption
<1>1. (p - 1 - 0) * PRESC = (p - 2) * PRESC + PRESC /\ (p - 2) * PRESC \in Int
  BY <1>0
<1> QED
  BY <1>0, <1>1 DEF Lasts, Least

\* The line as it is, and a timer, in this clock and in the next one.
Held(n, p) == Lasts(timer[n], obs.held, presc, p)

LEMMA HeldRuns ==
  ASSUME Inv, NEW i \in Inputs, Clock(i), NEW n \in Timers, NEW p \in Nat,
         state \in Watching, Run, Line(i) = lineState, Held(n, p)
  PROVE  Held(n, p)'
<1>1. timer'[n] = IF presc = 0 /\ timer[n] > 0 THEN timer[n] - 1 ELSE timer[n]
  BY DEF Run, decrTimer
<1>2. /\ obs'.held = Min(obs.held + 1, HeldCap)
      /\ presc' = IF presc = 0 THEN PRESC - 1 ELSE presc - 1
  BY DEF Clock, Outside
<1>3. timer[n] \in Nat /\ obs.held \in 0 .. HeldCap /\ presc \in 0 .. PRESC - 1
  BY DEF Inv, TypeOK
<1> QED
  BY <1>1, <1>2, <1>3, LastsRuns DEF Held

LEMMA HeldStarts ==
  ASSUME Inv, NEW i \in Inputs, Clock(i), NEW n \in Timers, NEW p \in Nat, timer'[n] = p - 1
  PROVE  Held(n, p)'
<1>1. obs'.held \in Nat /\ presc' \in Nat
  BY ClockType, CapAssumption, PrescAssumption DEF Inv
<1> QED
  BY <1>1, LastsStarts DEF Held

\* A timer that has just been started, or runs while the line is l.
Timed(n, p, l) == timer[n] = p - 1 \/ (lineState = l /\ Held(n, p))

LEMMA TimedRuns ==
  ASSUME Inv, NEW i \in Inputs, Clock(i), NEW n \in Timers, NEW p \in Nat, p >= 2, NEW l,
         state \in Watching, Run, Line(i) = l, Timed(n, p, l)
  PROVE  Timed(n, p, l)'
<1>1. /\ timer'[n] = IF presc = 0 /\ timer[n] > 0 THEN timer[n] - 1 ELSE timer[n]
      /\ lineState' = Line(i)
      /\ presc' = IF presc = 0 THEN PRESC - 1 ELSE presc - 1
  BY DEF Run, decrTimer, Clock
<1>2. timer[n] \in Nat /\ obs.held \in 0 .. HeldCap /\ presc \in 0 .. PRESC - 1
  BY DEF Inv, TypeOK
<1>3. obs'.held \in Nat \ {0}
  BY <1>2, CapAssumption DEF Clock, Outside, Min
<1>4. CASE lineState = l /\ Held(n, p)
  BY <1>4, <1>1, HeldRuns DEF Timed
<1>5. CASE timer[n] = p - 1 /\ presc = 0
  <2>1. timer'[n] = p - 2 /\ presc' = PRESC - 1
    BY <1>1, <1>2, <1>5
  <2>2. Lasts(p - 2, obs'.held, PRESC - 1, p)
    BY <1>2, <1>3, <1>5, LastsBegins
  <2> QED
    BY <2>1, <2>2, <1>1 DEF Timed, Held
<1>6. CASE timer[n] = p - 1 /\ presc # 0
  BY <1>1, <1>2, <1>6 DEF Timed
<1> QED
  BY <1>4, <1>5, <1>6 DEF Timed

\* The line is known once the machine has left its initialisation.
LineInv ==
  /\ Going \in {"WAITRSTHS_START", "WAITRSTHS"} => ~usb2.suspend
  /\ Going \notin {"RESET", "INIT", "INIT1", "INIT2", "DISCONNECTED"} => lineState # NoLine

LEMMA LineStep ==
  ASSUME Inv, WakeupInv, LineInv, NEW i \in Inputs, Clock(i)
  PROVE  LineInv'
<1>0. TransitionType
  BY DEF Inv, TypeOK, TransitionType
<1>1. \A s : Goto(i, s) =>
        \/ state' = s /\ nxtState' = nxtState
        \/ state' = "WRITE_REG" /\ nxtState' = "DISCONNECTED"
  BY <1>0, GotoCases DEF Goto
<1>2. lineState' = Line(i) /\ (lineState # NoLine => Line(i) # NoLine)
  BY DEF Clock, Line, Inputs, Lines, SE0, J, K, NoRx, NoLine
<1>3. ASSUME Going' \in {"WAITRSTHS_START", "WAITRSTHS"} PROVE ~usb2'.suspend
  <2>1. Going \in {"WAITRSTHS_START", "WAITRSTHS"} \/ state = "HS_RUN"
    BY <1>3, Flow DEF Going, After
  <2>2. ~usb2.suspend /\ state \in {"WRITE_REG", "WAITRSTHS_START", "WAITRSTHS", "HS_RUN"}
    BY <2>1 DEF LineInv, Inv, ModeInv, PhyInv, OutputInv, Going
  <2>3. usb2' = usb2
    BY <2>2 DEF Clock, Reset, InitRegister, Init1, Init2, FsSe0, FsIdle, FsOther, HsInit,
       HsInit1, HsRun, WaitRstHsStart, WaitRstHs, InitChirp, DriveChirp, DetectChirp,
       HostChirp, WaitFs, SuspendEnter, Suspend, DebounceSe0, Resume, Wakeup, DriveK,
       WaitKDone, WriteRegister, Disconnected
  <2> QED
    BY <2>2, <2>3
<1>4. ASSUME Going' \notin {"RESET", "INIT", "INIT1", "INIT2", "DISCONNECTED"}
      PROVE  lineState' # NoLine
  <2>1. Going \notin {"RESET", "INIT", "INIT1", "INIT2", "DISCONNECTED"} \/ state = "INIT2"
    BY <1>4, Flow DEF Going, After
  <2>2. CASE state = "INIT2"
    BY <2>2, <1>1, <1>2, <1>4, ActionOf DEF Init2, Going
  <2> QED
    BY <2>1, <2>2, <1>2 DEF LineInv
<1> QED
  BY <1>3, <1>4 DEF LineInv

HeldInv ==
  /\ state = "FS_RUN" =>
       /\ SE0 \in seen => lineState = SE0 /\ Held("1200", P1200)
       /\ J \in seen => lineState = J /\ Held("3060", P3060)
  /\ state = "HS_RUN" => Timed("3060", P3060, SE0)
  /\ state = "SUSPEND" /\ usb2.suspend => Timed("5060", P5060, J)

\* The timers of FS_RUN, also in the clock that leaves it.
LEMMA FsHeld ==
  ASSUME Inv, HeldInv, NEW i \in Inputs, Clock(i), state = "FS_RUN"
  PROVE  /\ SE0 \in seen' => lineState' = SE0 /\ Held("1200", P1200)'
         /\ J \in seen' => lineState' = J /\ Held("3060", P3060)'
<1>1. /\ lineState' = Line(i) /\ SE0 # J /\ {"1200", "3060"} \subseteq Timers
      /\ P1200 \in Nat /\ P3060 \in Nat
  BY PeriodAssumption DEF Clock, Timers, SE0, J
<1>2. CASE FsSe0(i)
  <2>1. CASE SE0 \in seen
    BY <1>1, <1>2, <2>1, HeldRuns DEF FsSe0, HeldInv, Watching
  <2>2. CASE SE0 \notin seen
    <3>1. timer'["1200"] = P1200 - 1
      BY <1>1, <1>2, <2>2 DEF FsSe0, Restart, loadTimer
    <3> QED
      BY <1>1, <1>2, <3>1, HeldStarts DEF FsSe0
  <2> QED
    BY <2>1, <2>2
<1>3. CASE FsIdle(i)
  <2>1. CASE J \in seen
    BY <1>1, <1>3, <2>1, HeldRuns DEF FsIdle, HeldInv, Watching
  <2>2. CASE J \notin seen
    <3>1. timer'["3060"] = P3060 - 1
      BY <1>1, <1>3, <2>2 DEF FsIdle, Restart, loadTimer
    <3> QED
      BY <1>1, <1>3, <3>1, HeldStarts DEF FsIdle
  <2> QED
    BY <2>1, <2>2
<1>4. CASE FsOther(i)
  BY <1>4 DEF FsOther
<1> QED
  BY <1>2, <1>3, <1>4, ActionOf

\* The timer of SUSPEND, also in the clock that leaves it for a wakeup.
LEMMA SuspendHeld ==
  ASSUME Inv, LineInv, HeldInv, NEW i \in Inputs, Clock(i), Suspend(i), Line(i) \notin {SE0, K}
  PROVE  Line(i) = J /\ Timed("5060", P5060, J)'
<1>1. lineState # NoLine
  BY DEF Suspend, LineInv, Going
<1>2. Line(i) = J
  BY <1>1 DEF Line, Inputs, Inv, TypeOK, Lines, NoRx, NoLine
<1>3. state \in Watching /\ Run /\ Timed("5060", P5060, J)
  BY DEF Suspend, HeldInv, Watching
<1> QED
  BY <1>2, <1>3, TimedRuns, PeriodAssumption DEF Timers

LEMMA HeldStep ==
  ASSUME Inv, WakeupInv, TimerInv, LineInv, HeldInv, NEW i \in Inputs, Clock(i)
  PROVE  HeldInv'
<1>0. TransitionType /\ {"1200", "3060", "5060"} \subseteq Timers
      /\ P1200 \in Nat /\ P3060 \in Nat /\ P3060 >= 2 /\ P5060 \in Nat
  BY PeriodAssumption DEF Inv, TypeOK, TransitionType, Timers
<1>1. \A s : Goto(i, s) => state' \in {s, "WRITE_REG"}
  BY <1>0, GotoCases DEF Goto
<1>2. ASSUME state' = "FS_RUN"
      PROVE  /\ SE0 \in seen' => lineState' = SE0 /\ Held("1200", P1200)'
             /\ J \in seen' => lineState' = J /\ Held("3060", P3060)'
  <2>1. state \in {"INIT2", "FS_RUN"}
    BY <1>2, Flow DEF Going, After, Inv, ModeInv, PhyInv, Written
  <2>2. CASE state = "INIT2"
    <3>1. seen' = {}
      BY <2>2, <1>1, <1>2, ActionOf DEF Init2
    <3> QED
      BY <3>1
  <2> QED
    BY <2>1, <2>2, FsHeld
<1>3. ASSUME state' = "HS_RUN" PROVE Timed("3060", P3060, SE0)'
  <2>1. state \in {"HS_INIT1", "HS_RUN"}
    BY <1>3, Flow DEF Going, After, Inv, ModeInv, PhyInv, Written
  <2>2. Start("3060", P3060) \/ (state = "HS_RUN" /\ Line(i) = SE0 /\ Run)
    BY <2>1, <1>1, <1>3, ActionOf DEF HsInit1, HsRun, WriteReg
  <2>3. CASE Start("3060", P3060)
    BY <2>3, <1>0 DEF Start, loadTimer, Timed
  <2>4. CASE state = "HS_RUN" /\ Line(i) = SE0 /\ Run
    BY <2>4, <1>0, TimedRuns DEF HeldInv, Watching
  <2> QED
    BY <2>2, <2>3, <2>4
<1>4. ASSUME state' = "SUSPEND", usb2'.suspend PROVE Timed("5060", P5060, J)'
  <2>1. state \in {"FS_RUN", "WAITRSTHS", "SUSPEND", "DEBOUNCE_SE0"}
    BY <1>4, Flow DEF Going, After, Inv, ModeInv, PhyInv, Written
  <2>2. state \notin {"FS_RUN", "WAITRSTHS"}
    <3>1. state \in {"FS_RUN", "WAITRSTHS"} => usb2' = usb2
      BY ActionOf DEF FsSe0, FsIdle, FsOther, WaitRstHs
    <3> QED
      BY <3>1, <1>4 DEF LineInv, Going, Inv, ModeInv, OutputInv
  <2>3. Start("5060", P5060) \/ (Suspend(i) /\ Line(i) \notin {SE0, K})
    BY <2>1, <2>2, <1>1, <1>4, ActionOf DEF SuspendEnter, Suspend, DebounceSe0
  <2>4. CASE Start("5060", P5060)
    BY <2>4, <1>0 DEF Start, loadTimer, Timed
  <2> QED
    BY <2>3, <2>4, SuspendHeld
<1> QED
  BY <1>2, <1>3, <1>4 DEF HeldInv

\* K: the timer for it and the clocks that it was driven for.
DrivenInv == state = "WAIT_K_DON" /\ txVld => Lasts(timer["1200"], obs.driven, presc, P1200)

LEMMA DrivenStep ==
  ASSUME Inv, WakeupInv, DrivenInv, NEW i \in Inputs, Clock(i)
  PROVE  DrivenInv'
<1> SUFFICES ASSUME state' = "WAIT_K_DON", txVld' PROVE DrivenInv'
  BY DEF DrivenInv
<1>0. /\ timer["1200"] \in Nat /\ "1200" \in Timers /\ P1200 \in Nat
      /\ obs.driven \in 0 .. HeldCap /\ presc \in 0 .. PRESC - 1
      /\ obs'.driven \in Nat /\ presc' \in Nat
  BY ClockType, PeriodAssumption, PrescAssumption, CapAssumption DEF Inv, TypeOK, Timers
<1>1. state \in {"DRIVE_K", "WAIT_K_DON"}
  BY Flow
<1>2. CASE state = "DRIVE_K"
  <2>1. timer'["1200"] = P1200 - 1
    BY <1>0, <1>2, ActionOf DEF DriveK, Start, loadTimer
  <2> QED
    BY <1>0, <2>1, LastsStarts DEF DrivenInv
<1>3. CASE state = "WAIT_K_DON"
  <2>1. txVld /\ Run
    BY <1>3, ActionOf DEF WaitKDone, Clock, Driving
  <2>2. /\ timer'["1200"] = IF presc = 0 /\ timer["1200"] > 0
                            THEN timer["1200"] - 1 ELSE timer["1200"]
        /\ obs'.driven = Min(obs.driven + 1, HeldCap)
        /\ presc' = IF presc = 0 THEN PRESC - 1 ELSE presc - 1
    BY <1>0, <2>1 DEF Run, decrTimer, Clock, Outside
  <2> QED
    BY <1>0, <1>3, <2>1, <2>2, LastsRuns DEF DrivenInv
<1> QED
  BY <1>1, <1>2, <1>3

LEMMA TimeInvariant ==
  Spec => [](Inv /\ WakeupInv /\ TimerInv /\ LineInv /\ HeldInv /\ DrivenInv)
<1>1. Init => LineInv /\ HeldInv /\ DrivenInv
  BY DEF Init, LineInv, HeldInv, DrivenInv, Going
<1>2. /\ Inv /\ WakeupInv /\ TimerInv /\ LineInv /\ HeldInv /\ DrivenInv
      /\ [Next]_vars
      => (LineInv /\ HeldInv /\ DrivenInv)'
  <2>1. ASSUME Rst PROVE (LineInv /\ HeldInv /\ DrivenInv)'
    BY <2>1 DEF Rst, LineInv, HeldInv, DrivenInv, Going
  <2>2. ASSUME LineInv, HeldInv, DrivenInv, UNCHANGED vars
        PROVE  (LineInv /\ HeldInv /\ DrivenInv)'
    BY <2>2 DEF vars, regs, LineInv, HeldInv, DrivenInv, Going, Timed, Held
  <2> QED
    BY <2>1, <2>2, LineStep, HeldStep, DrivenStep DEF Next
<1> QED
  BY <1>1, <1>2, OrderInvariant, PTL DEF Spec

\* A reset and a suspend are told apart by a line that was still for its time, and high speed
\* is left only after such a time of SE0, whatever happened on the bus before.
THEOREM StillLineHolds ==
  ASSUME HeldCap >= Least(P1200), HeldCap >= Least(P3060)
  PROVE  Spec => StillLine
<1> DEFINE Still ==
      /\ state = "FS_RUN" /\ state' = "INIT_CHIRP" => obs'.held >= Least(P1200)
      /\ state = "FS_RUN" /\ state' = "SUSPEND" => obs'.held >= Least(P3060)
      /\ state = "HS_RUN" /\ nxtState' = "WAITRSTHS_START" /\ state' = "WRITE_REG" =>
           lineState = SE0 /\ obs.held >= Least(P3060)
<1>1. ASSUME Inv, TimerInv, HeldInv, NEW i \in Inputs, Clock(i) PROVE Still
  <2>0. /\ TransitionType /\ timer \in [Timers -> Nat] /\ {"1200", "3060"} \subseteq Timers
        /\ P1200 \in Nat /\ P3060 \in Nat /\ P3060 >= 2
        /\ obs.held \in 0 .. HeldCap /\ presc \in 0 .. PRESC - 1
        /\ obs'.held \in 0 .. HeldCap /\ presc' \in 0 .. PRESC - 1
    BY <1>1, ClockType, PeriodAssumption DEF Inv, TypeOK, TransitionType, Timers
  <2>1. \A s : Goto(i, s) =>
          \/ state' = s /\ nxtState' = nxtState
          \/ state' = "WRITE_REG" /\ nxtState' = "DISCONNECTED"
    BY <2>0, GotoCases DEF Goto
  <2>2. ASSUME state = "FS_RUN", state' = "INIT_CHIRP" PROVE obs'.held >= Least(P1200)
    <3>1. FsSe0(i) /\ Expired("1200") /\ Run
      BY <2>1, <2>2, <1>1, ActionOf DEF FsSe0, FsIdle, FsOther
    <3>2. timer'["1200"] = 0 /\ Lasts(timer'["1200"], obs'.held, presc', P1200)
      BY <2>0, <2>2, <3>1, <1>1, FsHeld DEF FsSe0, Run, decrTimer, Expired, Held
    <3> QED
      BY <2>0, <3>2, LastsEnds
  <2>3. ASSUME state = "FS_RUN", state' = "SUSPEND" PROVE obs'.held >= Least(P3060)
    <3>1. FsIdle(i) /\ Expired("3060") /\ Run
      BY <2>1, <2>3, <1>1, ActionOf DEF FsSe0, FsIdle, FsOther
    <3>2. timer'["3060"] = 0 /\ Lasts(timer'["3060"], obs'.held, presc', P3060)
      BY <2>0, <2>3, <3>1, <1>1, FsHeld DEF FsIdle, Run, decrTimer, Expired, Held
    <3> QED
      BY <2>0, <3>2, LastsEnds
  <2>4. ASSUME state = "HS_RUN", nxtState' = "WAITRSTHS_START", state' = "WRITE_REG"
        PROVE  lineState = SE0 /\ obs.held >= Least(P3060)
    <3>1. timer["3060"] = 0
      BY <2>1, <2>4, <1>1, ActionOf DEF HsRun, Expired
    <3>2. lineState = SE0 /\ Lasts(0, obs.held, presc, P3060)
      BY <2>0, <2>4, <3>1, <1>1 DEF HeldInv, Timed, Held
    <3> QED
      BY <2>0, <3>2, LastsEnds
  <2> QED
    BY <2>2, <2>3, <2>4
<1>2. Inv /\ TimerInv /\ HeldInv /\ [Next]_vars => [Still]_vars
  BY <1>1 DEF Next, Rst
<1> QED
  BY <1>2, TimeInvariant, PTL DEF Spec, StillLine

\* The device does not wake up the host before the bus was idle for TWTRSM.
THEOREM WakeupWaitsHolds ==
  ASSUME HeldCap >= Least(P5060)
  PROVE  Spec => WakeupWaits
<1> DEFINE Waits ==
      state = "SUSPEND" /\ nxtState' = "WAKEUP" => lineState' = J /\ obs'.held >= Least(P5060)
<1>1. ASSUME Inv, WakeupInv, LineInv, HeldInv, NEW i \in Inputs, Clock(i) PROVE Waits
  <2> SUFFICES ASSUME state = "SUSPEND", nxtState' = "WAKEUP"
               PROVE  lineState' = J /\ obs'.held >= Least(P5060)
    OBVIOUS
  <2>0. /\ TransitionType /\ timer \in [Timers -> Nat] /\ "5060" \in Timers
        /\ P5060 \in Nat /\ P5060 >= 2 /\ lineState' = Line(i)
        /\ obs'.held \in 0 .. HeldCap /\ presc' \in 0 .. PRESC - 1
    BY <1>1, ClockType, PeriodAssumption DEF Inv, TypeOK, TransitionType, Timers, Clock
  <2>1. \A s : Goto(i, s) => nxtState' \in {nxtState, "DISCONNECTED"}
    BY <2>0, GotoCases DEF Goto
  <2>2. nxtState # "WAKEUP"
    BY <1>1 DEF WakeupInv
  <2>3. /\ Suspend(i) /\ Line(i) \notin {SE0, K} /\ decrTimer("5060") = 0 /\ Run
    BY <2>1, <2>2, <1>1, ActionOf DEF SuspendEnter, Suspend
  <2>4. timer'["5060"] = 0
    BY <2>0, <2>3 DEF Run
  <2>5. Line(i) = J /\ Timed("5060", P5060, J)'
    BY <2>3, <1>1, SuspendHeld
  <2>6. Lasts(0, obs'.held, presc', P5060)
    BY <2>0, <2>4, <2>5 DEF Timed, Held
  <2> QED
    BY <2>0, <2>5, <2>6, LastsEnds
<1>2. ASSUME Rst PROVE Waits
  BY <1>2 DEF Rst
<1>3. Inv /\ WakeupInv /\ LineInv /\ HeldInv /\ [Next]_vars => [Waits]_vars
  <2>1. ASSUME UNCHANGED vars, WakeupInv PROVE Waits
    BY <2>1 DEF vars, regs, WakeupInv
  <2> QED
    BY <1>1, <1>2, <2>1 DEF Next
<1> QED
  BY <1>3, TimeInvariant, PTL DEF Spec, WakeupWaits

\* The chirp of the device and its wakeup signal last for their time.
THEOREM SignalLastsHolds ==
  ASSUME HeldCap >= Least(P1200)
  PROVE  Spec => SignalLasts
<1> DEFINE Long == txVld /\ ~txVld' /\ state' # "RESET" => obs'.driven >= Least(P1200)
<1>1. ASSUME Inv, DrivenInv, NEW i \in Inputs, Clock(i) PROVE Long
  <2> SUFFICES ASSUME txVld, ~txVld' PROVE obs'.driven >= Least(P1200)
    OBVIOUS
  <2>0. /\ P1200 \in Nat /\ obs.driven \in 0 .. HeldCap /\ presc \in 0 .. PRESC - 1
        /\ HeldCap \in Nat /\ Least(P1200) \in Int
    BY <1>1, PeriodAssumption, CapAssumption, PrescAssumption DEF Inv, TypeOK, Least
  <2>1. state = "WAIT_K_DON"
    BY <1>1 DEF Inv, ModeInv, OutputInv
  <2>2. timer["1200"] = 0 /\ obs'.driven = Min(obs.driven + 1, HeldCap)
    BY <1>1 DEF Clock, Driving, Expired, Outside
  <2>3. obs.driven >= Least(P1200)
    BY <1>1, <2>0, <2>1, <2>2, LastsEnds DEF DrivenInv
  <2> QED
    BY <2>0, <2>2, <2>3 DEF Min
<1>2. Inv /\ DrivenInv /\ [Next]_vars => [Long]_vars
  BY <1>1 DEF Next, Rst, vars, regs
<1> QED
  BY <1>2, TimeInvariant, PTL DEF Spec, SignalLasts

\* Mode, drivers and reports of the machine are those of its state.
THEOREM PhyFollowsHolds == Spec => []PhyFollows
  BY ModeAgreesHolds, KReachesPhyHolds, PTL DEF PhyFollows

\* All that the machine tells apart by its time had that time, for all periods.
THEOREM TimesKeptHolds ==
  ASSUME HeldCap >= Least(P1200), HeldCap >= Least(P3060), HeldCap >= Least(P5060)
  PROVE  Spec => TimesKept
  BY TimersExpiredHolds, StillLineHolds, WakeupWaitsHolds, SignalLastsHolds DEF TimesKept

\* The speed the device reports is the one last agreed with the host.
THEOREM SpeedAgreedHolds == Spec => SpeedAgreed
  BY NegotiatedSpeedHolds, SpeedSurvivesHolds DEF SpeedAgreed
=============================================================================
