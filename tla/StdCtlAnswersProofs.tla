------------------------ MODULE StdCtlAnswersProofs ------------------------
(***************************************************************************)
(* What the host of StdCtlEp can rely on: the device holds what the host   *)
(* has set up, the endpoints in use have their sizes, and every transfer   *)
(* is answered as it has to be.                                            *)
(*                                                                         *)
(* In this order: what is waited for (Waiting); what the host believes     *)
(* (Believed); and the answers (Answered).                                 *)
(***************************************************************************)
EXTENDS StdCtlEpProofs
-----------------------------------------------------------------------------
(* What is waited for, and when. *)

\* Only a read has an answer.
LEMMA WritesLemma ==
  ASSUME IInv, SettingsInv, Standard, r'.state \in {"READ_DESCRIPTOR", "RETURN_VALUE"}
  PROVE  GetConfiguration \/ GetInterface \/ GetStatus \/ GetDescriptor
<1>1. Types /\ Selected /\ DOMAIN r = Registers
  BY DEF SettingsInv, Types, Regs, Control
<1>2. ASSUME NEW v, DOMAIN v = Registers PROVE r' # Status(v) /\ r' # Stalled(v)
  BY <1>2, ReadyTypes DEF Status, Stalled, Ready, Registers
<1>3. CASE Feature
  <2>. DEFINE e   == epAddr(r.parm)
              set == request(r.parm) = SET_FEATURE
              a   == [r EXCEPT !.remWakeup = set]
              b   == [r EXCEPT !.halted = @ \cup {e}]
              c   == [r EXCEPT !.halted = @ \ {e}]
  <2>1. r' = Status(a) \/ r' = Status(b) \/ r' = Status(c) \/ r' = Stalled(r)
    BY <1>3 DEF Feature, Answer
  <2>2. DOMAIN a = Registers /\ DOMAIN b = Registers /\ DOMAIN c = Registers
    BY <1>1 DEF Registers
  <2>. HIDE DEF a, b, c
  <2>. QED
    BY <1>1, <1>2, <2>1, <2>2
<1>4. CASE SetAddress \/ OtherRequest
  BY <1>1, <1>2, <1>4 DEF SetAddress, OtherRequest, Answer
<1>5. CASE SetConfiguration
  <2>1. PICK v : Kept(v) /\ (r' = Status(v) \/ r' = Stalled(v))
    BY <1>1, <1>5, ConfigurationLemma, Zenon
  <2>. QED
    BY <1>2, <2>1 DEF Kept, SameControl
<1>6. CASE SetInterface
  <2>1. r' = Stalled(r) \/ \E v : Kept(v) /\ (r' = Status(v) \/ r' = Stalled(v))
    BY <1>1, <1>6, InterfaceLemma, Zenon DEF Switches
  <2>. QED
    BY <1>1, <1>2, <2>1 DEF Kept, SameControl
<1>. QED
  BY <1>3, <1>4, <1>5, <1>6 DEF Standard

LEMMA WaitingEngine ==
  ASSUME IInv, SettingsInv, Waiting, Standard \/ TakeSetup \/ LoseByte \/ StatusOut
  PROVE  Waiting'
<1>1. CASE Standard
  <2>1. /\ r.state = "STD_REQUEST" /\ UNCHANGED <<queue, host, belief, faults, hurt>>
        /\ r'.state \in {"GET_PARAMS", "STATUS", "RETURN_VALUE", "READ_DESCRIPTOR"}
    BY <1>1, StandardLemma DEF Onward, Denied
  <2>2. ~hurt => /\ host.phase \in {"data", "status"} /\ host.req \in Requests /\ r.parm = host.req
                 /\ ~r.stall
    BY <2>1 DEF IInv, Shape, Lockstep, AtRest, Ending, Delivering, Serving, Refused
  <2>3. ASSUME ~hurt, r'.state \in {"READ_DESCRIPTOR", "RETURN_VALUE"} PROVE dev2Host(r'.parm)
    <3>1. r'.parm = r.parm
      BY <1>1, <2>3, StandardLemma DEF Onward, Denied
    <3>2. GetConfiguration \/ GetInterface \/ GetStatus \/ GetDescriptor
      BY <1>1, <2>3, WritesLemma
    <3>3. reqType(r.parm) = STANDARD
          /\ request(r.parm) \in {GET_STATUS, GET_DESCRIPTOR, GET_CONFIGURATION, GET_INTERFACE}
      BY <3>2 DEF GetConfiguration, GetInterface, GetStatus, GetDescriptor, Std
    <3>. QED
      BY <2>2, <2>3, <3>1, <3>3, HostAssumption
  <2>. QED
    BY <2>1, <2>2, <2>3 DEF Waiting
<1>2. CASE TakeSetup
  <2>1. UNCHANGED <<host, hurt>> /\ r.state = "GET_PARAMS"
    BY <1>2 DEF TakeSetup
  <2>2. r'.state \in {"WAIT_EXT", "GET_PARAMS"}
    <3>1. \E parm : \/ r' = [r EXCEPT !.parm = parm, !.stall = FALSE, !.state = "WAIT_EXT", !.vld = TRUE]
                    \/ r' = [r EXCEPT !.parm = parm, !.stall = FALSE]
      BY <1>2 DEF TakeSetup
    <3>. QED
      BY <2>1, <3>1 DEF IInv, Shape, Registers
  <2>3. ~hurt => host.phase # "acking" /\ (dev2Host(host.req) => host.phase = "data" /\ host.got = <<>>)
    BY <1>2, TakenLemma DEF Delivering
  <2>. QED
    BY <2>1, <2>2, <2>3 DEF Waiting, Reading
<1>3. CASE LoseByte
  BY <1>3, NotLost DEF LoseByte, Waiting
<1>4. CASE StatusOut
  <2>1. /\ UNCHANGED <<host, hurt>>
        /\ r' = Ready(r) \/ r' = r
    BY <1>4 DEF StatusOut
  <2>2. r'.state = "GET_PARAMS" \/ r' = r
    BY <2>1, ReadyLemma DEF IInv, Same
  <2>3. ~hurt => host.phase # "acking" /\ r'.state = "GET_PARAMS"
    BY <1>4, EndedLemma
  <2>. QED
    BY <2>1, <2>2, <2>3 DEF Waiting
<1>. QED
  BY <1>1, <1>2, <1>3, <1>4

LEMMA WaitingAgents ==
  ASSUME IInv, Waiting, AgentNext
  PROVE  Waiting'
<1>1. CASE AgentRefuses \/ AgentAccepts \/ AgentDone
  <2>1. /\ r.state \in {"WAIT_EXT", "WAIT_EXT_DONE"} /\ UNCHANGED <<queue, host, hurt>>
        /\ \/ r.state = "WAIT_EXT" /\ r'.state = "STD_REQUEST" /\ r'.parm = r.parm /\ r'.stall = r.stall
           \/ /\ r'.state \in {"WAIT_EXT_DONE", "STATUS"} /\ r'.parm = r.parm
              /\ r.state = "WAIT_EXT" => reqType(r.parm) # STANDARD
           \/ r'.state = "GET_PARAMS"
    BY <1>1, AgentLemma DEF Denied
  <2>2. ~hurt => host.phase # "acking"
    BY <2>1, ServingLemma
  <2>3. (r'.state = "WAIT_EXT_DONE" => reqType(r'.parm) # STANDARD)
    BY <2>1 DEF Waiting
  <2>4. ASSUME ~hurt, Reading', r'.state \in {"WAIT_EXT", "STD_REQUEST"}
        PROVE  host'.phase = "data" /\ host'.got = <<>>
    BY <2>1, <2>4 DEF Waiting, Reading, Serving
  <2>. QED
    BY <2>1, <2>2, <2>3, <2>4 DEF Waiting
<1>2. CASE AgentSends
  <2>1. r.state = "WAIT_EXT_DONE" /\ UNCHANGED <<r, queue, hurt>>
        /\ host' = [host EXCEPT !.phase = "status", !.got = [k \in 1 .. length(r.parm) |-> 0]]
    BY <1>2 DEF AgentSends
  <2>2. host'.phase = "status"
    BY <2>1 DEF IInv, Shape
  <2>. QED
    BY <2>1, <2>2 DEF Waiting
<1>. QED
  BY <1>1, <1>2 DEF AgentNext

LEMMA WaitingHost ==
  ASSUME IInv, Types, Waiting,
         \/ HostSetup \/ HostSetupData \/ HostIn \/ HostStops \/ HostStatusOut \/ HostStatusIn
         \/ HostAcks \/ HostStalled \/ ForeignToken \/ HostAbandons \/ BusReset
  PROVE  Waiting'
<1>1. CASE HostSetup
  <2>1. UNCHANGED <<hurt>> /\ \E q : host' = [host EXCEPT !.phase = "setup", !.req = q]
    BY <1>1 DEF HostSetup
  <2>2. host'.phase = "setup" /\ r'.state = r.state /\ r'.parm = r.parm
    BY <1>1, <2>1 DEF HostSetup, SetupToken, IInv, Shape, Registers
  <2>. QED
    BY <2>1, <2>2 DEF Waiting, Reading
<1>2. CASE HostSetupData
  <2>1. /\ UNCHANGED <<r, hurt>> /\ queue' = Append(queue, host.req)
        /\ host' = [host EXCEPT !.phase = IF dev2Host(host.req) THEN "data" ELSE "status"]
        /\ host.phase = "setup"
    BY <1>2 DEF HostSetupData
  <2>2. host'.phase = (IF dev2Host(host.req) THEN "data" ELSE "status") /\ host'.req = host.req
    BY <2>1 DEF IInv, Shape
  <2>3. queue' # <<>>
    <3>1. host.req \in Bytes /\ queue \in Seq(Bytes)
      BY <2>1, RequestLemma DEF IInv, Shape, Types, Link
    <3>2. queue' \in Seq(Bytes) /\ Len(queue') = Len(queue) + 1 /\ Len(queue) \in Nat
      BY <2>1, <3>1, AppendProperties, LenProperties
    <3>. QED
      BY <3>2, EmptySeq
  <2>. QED
    BY <2>1, <2>2, <2>3 DEF Waiting, Reading, Serving
<1>3. CASE HostIn
  <2>1. r.state \in {"READ_DESCRIPTOR", "RETURN_VALUE"} /\ UNCHANGED <<queue, hurt>>
        /\ host.phase = "data"
    BY <1>3 DEF HostIn
  <2>2. r' = Status(r) \/ \E out : r' = [r EXCEPT !.out = out]
    BY <1>3 DEF HostIn
  <2>3. /\ r'.state \in {"READ_DESCRIPTOR", "RETURN_VALUE", "STATUS"} /\ r'.parm = r.parm
        /\ r'.state # "STATUS" => r'.state = r.state
    BY <2>1, <2>2 DEF Status, IInv, Shape, Registers
  <2>4. \E got, phase : /\ phase \in {"data", "status"}
                        /\ \/ host' = [host EXCEPT !.got = got, !.phase = phase]
                           \/ host' = [[host EXCEPT !.got = got, !.phase = phase]
                                         EXCEPT !.phase = "data", !.open = TRUE]
                           \/ host' = [[host EXCEPT !.got = got, !.phase = phase]
                                         EXCEPT !.phase = "status"]
    BY <1>3 DEF HostIn, Sent
  <2>5. host'.phase \in {"data", "status"} /\ host'.req = host.req
    BY <2>4 DEF IInv, Shape
  <2>. QED
    BY <2>1, <2>3, <2>5 DEF Waiting
<1>4. CASE HostStops
  <2>1. host.phase = "data" /\ host.got # <<>> /\ UNCHANGED <<r, queue, hurt>>
        /\ host' = [host EXCEPT !.phase = "status", !.cut = TRUE]
    BY <1>4 DEF HostStops
  <2>2. host'.phase = "status" /\ host'.req = host.req
    BY <2>1 DEF IInv, Shape
  <2>. QED
    BY <2>1, <2>2 DEF Waiting, Reading, Serving
<1>5. CASE HostStatusOut
  <2>1. /\ host.phase = "status" /\ UNCHANGED hurt /\ r' = TokOutSeen(r)
        /\ r' # r \/ r'.state = "STATUS"
        /\ host' = host \/ host' = Idle(host.addr)
    BY <1>5 DEF HostStatusOut
  <2>2. host'.phase \in {"idle", "status"} /\ r'.state = "STATUS"
    BY <2>1, TokOutLemma DEF Idle
  <2>. QED
    BY <2>1, <2>2 DEF Waiting
<1>6. CASE HostStatusIn
  <2>. PICK w : w = Ready(r)
    OBVIOUS
  <2>1. /\ host' = [host EXCEPT !.phase = "acking"] /\ UNCHANGED hurt /\ ~r.stall
        /\ \/ r' = w
           \/ \E a, s : r' = [w EXCEPT !.devAddr = a, !.devState = s]
    BY <1>6 DEF HostStatusIn
  <2>2. DOMAIN w = Registers /\ w.state = "GET_PARAMS" /\ w.stall = r.stall
    BY ReadyLemma DEF IInv, Same
  <2>3. r'.state = "GET_PARAMS" /\ r'.stall = r.stall
    BY <2>1, <2>2 DEF Registers
  <2>4. host'.phase = "acking"
    BY <2>1 DEF IInv, Shape
  <2>. QED
    BY <2>1, <2>3, <2>4 DEF Waiting
<1>7. CASE HostAcks \/ HostStalled \/ HostAbandons
  <2>1. r' = r /\ (hurt => hurt') /\ \E a : host' = Idle(a)
    BY <1>7 DEF HostAcks, HostStalled, HostAbandons
  <2>2. host'.phase = "idle"
    BY <2>1 DEF Idle
  <2>. QED
    BY <2>1, <2>2 DEF Waiting, Reading
<1>8. CASE ForeignToken
  <2>1. /\ UNCHANGED <<queue, host>> /\ r' # r /\ (hurt => hurt')
        /\ r' = TokOutSeen(r) \/ r' = [r EXCEPT !.vld = FALSE]
    BY <1>8 DEF ForeignToken
  <2>2. /\ r'.state = "STATUS" \/ (r'.state = r.state /\ r'.parm = r.parm)
        /\ r'.stall = r.stall
    BY <2>1, TokOutLemma DEF IInv, Shape, Registers
  <2>. QED
    BY <2>1, <2>2 DEF Waiting, Reading, Serving
<1>9. CASE BusReset
  <2>1. host'.phase = "idle" /\ r'.state = "GET_PARAMS"
    BY <1>9 DEF BusReset, Idle, RInit
  <2>. QED
    BY <2>1 DEF Waiting, Reading
<1>. QED
  BY <1>1, <1>2, <1>3, <1>4, <1>5, <1>6, <1>7, <1>8, <1>9

LEMMA WaitingStep == ASSUME IInv, SettingsInv, Waiting, [Next]_vars PROVE Waiting'
<1>1. CASE UNCHANGED vars
  BY <1>1 DEF vars, Waiting, Reading, Serving
<1>2. CASE EngineNext
  BY <1>2, WaitingEngine DEF EngineNext, Standard
<1>3. CASE AgentNext
  BY <1>3, WaitingAgents
<1>4. CASE HostNext \/ HostSetup \/ HostStops \/ ForeignToken \/ HostAbandons \/ BusReset
  BY <1>4, WaitingHost DEF HostNext, SettingsInv
<1>. QED
  BY <1>1, <1>2, <1>3, <1>4 DEF Next
-----------------------------------------------------------------------------
(* What the host believes. *)

\* Only a standard request that changes a setting teaches the host anything.
LEMMA LearnNone ==
  ASSUME NEW hs, NEW b, NEW q,
         \/ reqType(q) # STANDARD
         \/ request(q) \notin {SET_CONFIGURATION, SET_INTERFACE, SET_FEATURE, CLEAR_FEATURE}
  PROVE  Learn(hs, b, q) = b
  BY DEF Learn

LEMMA KeptBelief ==
  ASSUME Believed, SameSettings(r', r), Effective' = Effective, Failing => Failing', Located'
  PROVE  Believed'
<1>1. /\ r'.cfgCurr = r.cfgCurr /\ r'.numIfc = r.numIfc /\ r'.altSettings = r.altSettings
      /\ r'.epSize = r.epSize /\ r'.epAssoc = r.epAssoc /\ r'.halted = r.halted
      /\ r'.devState = r.devState /\ r'.remWakeup = r.remWakeup /\ r'.hiSpeed = r.hiSpeed
  BY SameLemma
<1>. PICK b : b = Effective
  OBVIOUS
<1>2. InStep(r, b) /\ (~b.spoiled /\ ~Failing => Exact(r, b)) /\ Effective' = b
  BY DEF Believed
<1>3. InStep(r', b)
  BY <1>1, <1>2 DEF InStep
<1>4. Exact(r, b) => Exact(r', b)
  BY <1>1 DEF Exact, Uses
<1>. QED
  BY <1>2, <1>3, <1>4 DEF Believed

\* The host has nothing to learn from this step.
LEMMA QuietBelief ==
  ASSUME Believed, SameSettings(r', r), UNCHANGED belief, ~Done, ~Done', Failing => Failing', Located'
  PROVE  Believed'
  BY KeptBelief DEF Effective

LEMMA ServedByHost ==
  ASSUME IInv, ~hurt, r.state = "STD_REQUEST"
  PROVE  /\ host.phase \in {"data", "status"} /\ host.req \in Requests /\ Serving /\ r.parm = host.req
         /\ ~r.stall /\ queue = <<>> /\ ~Done /\ ~Failing
  BY DEF IInv, Shape, Lockstep, AtRest, Ending, Delivering, Serving, Refused, Done, Failing

LEMMA BelievedEngine ==
  ASSUME IInv, SettingsInv, Waiting, Believed, ~hurt,
         \/ TakeSetup \/ LoseByte \/ StatusOut \/ GetConfiguration \/ GetInterface
         \/ GetStatus \/ SetAddress \/ GetDescriptor \/ OtherRequest
  PROVE  Believed'
<1>1. SameSettings(r', r) /\ r'.devAddr = r.devAddr
  BY QuietEngine, SameLemma DEF SettingsInv
<1>2. CASE TakeSetup
  <2>1. /\ host.phase \in {"data", "status"} /\ queue = <<host.req>> /\ ~r.stall
        /\ UNCHANGED <<host, belief>> /\ r'.state = "WAIT_EXT"
    BY <1>2, TakenLemma DEF Delivering
  <2>2. ~Done /\ ~Done' /\ ~Failing
    BY <2>1 DEF Done, Serving, Failing
  <2>3. Located'
    BY <1>1, <2>1 DEF Located, Believed
  <2>. QED
    BY <1>1, <2>1, <2>2, <2>3, QuietBelief
<1>3. CASE LoseByte
  BY <1>3, NotLost
<1>4. CASE StatusOut
  <2>1. /\ UNCHANGED <<host, belief>> /\ ~Serving /\ r'.state = "GET_PARAMS"
        /\ host.phase \in {"idle", "setup", "data", "status"} /\ r'.stall = r.stall
    BY <1>4, EndedLemma
  <2>2. ~Done /\ ~Done' /\ (Failing => Failing')
    BY <2>1 DEF Done, Failing
  <2>3. Located'
    BY <1>1, <2>1 DEF Located, Believed
  <2>. QED
    BY <1>1, <2>1, <2>2, <2>3, QuietBelief
<1>5. CASE GetConfiguration \/ GetInterface \/ GetStatus \/ SetAddress \/ GetDescriptor \/ OtherRequest
  <2>1. r.state = "STD_REQUEST" /\ UNCHANGED <<queue, host, belief, hurt>>
    BY <1>5, StandardLemma DEF Standard
  <2>2. Located'
    BY <1>1, <2>1 DEF Located, Believed
  <2>3. CASE GetConfiguration \/ GetInterface \/ GetStatus \/ GetDescriptor
    <3>1. /\ reqType(r.parm) = STANDARD
          /\ request(r.parm) \in {GET_STATUS, GET_DESCRIPTOR, GET_CONFIGURATION, GET_INTERFACE}
      BY <2>3 DEF GetConfiguration, GetInterface, GetStatus, GetDescriptor, Std
    <3>2. dev2Host(host.req) /\ ~Done /\ ~Failing /\ host.phase \in {"data", "status"}
      BY <2>1, <3>1, ServedByHost, HostAssumption
    <3>3. ~Done'
      BY <2>1, <3>2 DEF Done
    <3>. QED
      BY <1>1, <2>1, <2>2, <3>2, <3>3, QuietBelief
  <2>4. CASE SetAddress
    <3>1. request(host.req) = SET_ADDRESS /\ ~Failing
      BY <2>1, <2>4, ServedByHost DEF SetAddress, Std
    <3>2. Learn(r.hiSpeed, belief, host.req) = belief /\ Learn(r'.hiSpeed, belief, host.req) = belief
      BY <3>1, LearnNone DEF SET_ADDRESS, SET_CONFIGURATION, SET_INTERFACE, SET_FEATURE, CLEAR_FEATURE
    <3>3. Effective' = Effective
      BY <2>1, <3>2 DEF Effective
    <3>. QED
      BY <1>1, <2>2, <3>1, <3>3, KeptBelief
  <2>5. CASE OtherRequest
    <3>1. r' = Stalled(r)
      BY <2>5 DEF OtherRequest, Answer
    <3>2. r'.state = "GET_PARAMS"
      <4>. PICK w : w = Ready(r)
        OBVIOUS
      <4>1. DOMAIN w = Registers /\ w.state = "GET_PARAMS"
        BY ReadyLemma DEF IInv, Same
      <4>. QED
        BY <3>1, <4>1 DEF Stalled, Registers
    <3>3. ~Done /\ ~Done' /\ ~Failing
      BY <2>1, <3>2, ServedByHost DEF Done
    <3>. QED
      BY <1>1, <2>1, <2>2, <3>3, QuietBelief
  <2>. QED
    BY <1>5, <2>3, <2>4, <2>5
<1>. QED
  BY <1>2, <1>3, <1>4, <1>5

LEMMA BelievedAgents ==
  ASSUME IInv, SettingsInv, Waiting, Believed, ~hurt, AgentNext
  PROVE  Believed'
<1>1. SameSettings(r', r) /\ r'.devAddr = r.devAddr /\ r'.hiSpeed = r.hiSpeed
  BY QuietHost, SameLemma DEF SettingsInv
<1>2. CASE AgentRefuses \/ AgentAccepts \/ AgentDone
  <2>1. /\ r.state \in {"WAIT_EXT", "WAIT_EXT_DONE"} /\ UNCHANGED <<queue, host, belief, hurt>>
        /\ \/ r.state = "WAIT_EXT" /\ r'.state = "STD_REQUEST"
           \/ r.state = "WAIT_EXT" => reqType(r.parm) # STANDARD
    BY <1>2, AgentLemma
  <2>2. host.phase \in {"data", "status"} /\ Serving
    BY <2>1, ServingLemma
  <2>3. ~Done /\ ~Failing
    BY <2>1, <2>2 DEF Done, Serving, Failing
  <2>4. Located'
    BY <1>1, <2>1 DEF Located, Believed
  <2>5. Effective' = Effective
    <3>1. CASE r'.state = "STD_REQUEST"
      BY <2>1, <2>2, <2>3, <3>1 DEF Done, Effective
    <3>2. CASE reqType(r.parm) # STANDARD
      <4>1. Learn(r.hiSpeed, belief, host.req) = belief
        BY <2>2, <3>2, LearnNone DEF Serving
      <4>. QED
        BY <1>1, <2>1, <4>1 DEF Effective
    <3>. QED
      BY <2>1, <3>1, <3>2 DEF Waiting
  <2>. QED
    BY <1>1, <2>3, <2>4, <2>5, KeptBelief
<1>3. CASE AgentSends
  <2>1. /\ r.state = "WAIT_EXT_DONE" /\ UNCHANGED <<r, queue, belief, hurt>> /\ host.phase = "data"
        /\ host' = [host EXCEPT !.phase = "status", !.got = [k \in 1 .. length(r.parm) |-> 0]]
    BY <1>3 DEF AgentSends
  <2>2. host'.phase = "status" /\ host'.req = host.req /\ host'.addr = host.addr
    BY <2>1 DEF IInv, Shape
  <2>3. ~Done /\ ~Done' /\ (Failing => Failing')
    BY <2>1, <2>2 DEF Done, Failing
  <2>4. Located'
    BY <2>1, <2>2 DEF Located, Believed
  <2>. QED
    BY <1>1, <2>1, <2>3, <2>4, QuietBelief
<1>. QED
  BY <1>2, <1>3 DEF AgentNext

LEMMA QueuedLemma ==
  ASSUME IInv, Types, HostSetupData
  PROVE  queue' # <<>>
<1>1. host.phase = "setup" /\ queue' = Append(queue, host.req)
  BY DEF HostSetupData
<1>2. host.req \in Bytes /\ queue \in Seq(Bytes)
  BY <1>1, RequestLemma DEF IInv, Shape, Types, Link
<1>3. queue' \in Seq(Bytes) /\ Len(queue') = Len(queue) + 1 /\ Len(queue) \in Nat
  BY <1>1, <1>2, AppendProperties, LenProperties
<1>. QED
  BY <1>3, EmptySeq

LEMMA BelievedHost ==
  ASSUME IInv, SettingsInv, Waiting, Believed, ~hurt, ~hurt',
         \/ HostSetup \/ HostSetupData \/ HostIn \/ HostStops \/ HostStatusOut
         \/ HostAcks \/ ForeignToken \/ HostAbandons
  PROVE  Believed'
<1>1. SameSettings(r', r) /\ r'.devAddr = r.devAddr /\ r'.hiSpeed = r.hiSpeed
  BY QuietHost, SameLemma DEF SettingsInv
<1>2. CASE HostSetup
  <2>1. /\ host.phase = "idle" /\ UNCHANGED <<queue, belief, hurt>>
        /\ \E q \in Requests : /\ request(q) = SET_ADDRESS /\ reqType(q) = STANDARD
                                    => host.addr = 0 /\ belief.cfg = 0
                               /\ host' = [host EXCEPT !.phase = "setup", !.req = q]
    BY <1>2 DEF HostSetup
  <2>2. /\ host'.phase = "setup" /\ host'.addr = host.addr
        /\ request(host'.req) = SET_ADDRESS => belief.cfg = 0
    BY <2>1, AddressLemma DEF IInv, Shape
  <2>3. ~Done /\ ~Done' /\ ~Failing
    BY <2>1, <2>2 DEF Done, Failing
  <2>4. Located'
    BY <1>1, <2>1, <2>2 DEF Located, Believed
  <2>. QED
    BY <1>1, <2>1, <2>3, <2>4, QuietBelief
<1>3. CASE HostSetupData
  <2>1. /\ host.phase = "setup" /\ UNCHANGED <<r, belief, hurt>> /\ queue' = Append(queue, host.req)
        /\ host' = [host EXCEPT !.phase = IF dev2Host(host.req) THEN "data" ELSE "status"]
    BY <1>3 DEF HostSetupData
  <2>2. host'.phase \in {"data", "status"} /\ host'.req = host.req /\ host'.addr = host.addr
    BY <2>1 DEF IInv, Shape
  <2>3. queue' # <<>>
    BY <1>3, QueuedLemma DEF SettingsInv
  <2>4. ~Done /\ ~Done' /\ ~Failing
    BY <2>1, <2>2, <2>3 DEF Done, Failing, Serving
  <2>5. Located'
    BY <2>1, <2>2 DEF Located, Believed
  <2>. QED
    BY <1>1, <2>1, <2>4, <2>5, QuietBelief
<1>4. CASE HostIn
  <2>1. host.phase = "data" /\ ~r.stall /\ UNCHANGED <<queue, belief, hurt>> /\ dev2Host(host.req)
    BY <1>4 DEF HostIn, Waiting
  <2>2. \E got, phase : /\ phase \in {"data", "status"}
                        /\ \/ host' = [host EXCEPT !.got = got, !.phase = phase]
                           \/ host' = [[host EXCEPT !.got = got, !.phase = phase]
                                         EXCEPT !.phase = "data", !.open = TRUE]
                           \/ host' = [[host EXCEPT !.got = got, !.phase = phase]
                                         EXCEPT !.phase = "status"]
    BY <1>4 DEF HostIn, Sent
  <2>3. host'.phase \in {"data", "status"} /\ host'.req = host.req /\ host'.addr = host.addr
    BY <2>2 DEF IInv, Shape
  <2>4. ~Done /\ ~Done' /\ ~Failing
    BY <2>1, <2>3 DEF Done, Failing
  <2>5. Located'
    BY <1>1, <2>1, <2>3 DEF Located, Believed
  <2>. QED
    BY <1>1, <2>1, <2>4, <2>5, QuietBelief
<1>5. CASE HostStops
  <2>1. /\ host.phase = "data" /\ UNCHANGED <<r, queue, belief, hurt>> /\ dev2Host(host.req)
        /\ host' = [host EXCEPT !.phase = "status", !.cut = TRUE]
    BY <1>5 DEF HostStops, Waiting
  <2>2. host'.phase = "status" /\ host'.req = host.req /\ host'.addr = host.addr
    BY <2>1 DEF IInv, Shape
  <2>3. ~Done /\ ~Done' /\ (Failing => Failing')
    BY <2>1, <2>2 DEF Done, Failing
  <2>4. Located'
    BY <1>1, <2>1, <2>2 DEF Located, Believed
  <2>. QED
    BY <1>1, <2>1, <2>3, <2>4, QuietBelief
<1>6. CASE HostStatusOut
  <2>1. /\ host.phase = "status" /\ dev2Host(host.req) /\ ~r.stall /\ UNCHANGED <<belief, hurt>>
        /\ host' = host \/ host' = Idle(host.addr)
    BY <1>6 DEF HostStatusOut
  <2>2. ~Done /\ ~Done' /\ ~Failing
    BY <2>1 DEF Done, Failing, Idle
  <2>3. Located'
    BY <1>1, <2>1 DEF Located, Believed, Idle
  <2>. QED
    BY <1>1, <2>1, <2>2, <2>3, QuietBelief
<1>7. CASE HostAcks
  <2>1. /\ host.phase = "acking" /\ UNCHANGED <<r, queue, hurt>>
        /\ belief' = Learn(r.hiSpeed, belief, host.req) /\ host.req \in Requests
        /\ host' = Idle(IF request(host.req) = SET_ADDRESS /\ reqType(host.req) = STANDARD
                          THEN value(host.req) ELSE host.addr)
    BY <1>7 DEF HostAcks, IInv, Shape
  <2>2. /\ host'.phase = "idle"
        /\ host'.addr = IF request(host.req) = SET_ADDRESS THEN value(host.req) ELSE host.addr
    BY <2>1, AddressLemma DEF Idle
  <2>3. Done /\ ~Done' /\ ~Failing
    BY <2>1, <2>2 DEF Done, Failing
  <2>4. Effective' = Effective
    BY <2>1, <2>3 DEF Effective
  <2>5. Located'
    BY <2>1, <2>2 DEF Located, Believed, IInv, Lockstep, Addressed
  <2>. QED
    BY <1>1, <2>3, <2>4, <2>5, KeptBelief
<1>8. CASE ForeignToken
  <2>1. /\ UNCHANGED <<queue, host, belief>> /\ r' # r
        /\ r' = TokOutSeen(r) \/ r' = [r EXCEPT !.vld = FALSE]
    BY <1>8 DEF ForeignToken
  <2>2. Located'
    BY <1>1, <2>1 DEF Located, Believed
  <2>3. r'.stall = r.stall
    BY <2>1, TokOutLemma DEF IInv, Shape, Registers
  <2>4. CASE r' = [r EXCEPT !.vld = FALSE]
    <3>1. r'.state = r.state /\ r'.parm = r.parm
      BY <2>4 DEF IInv, Shape, Registers
    <3>2. Effective' = Effective
      BY <1>1, <2>1, <2>3, <3>1 DEF Effective, Done, Serving
    <3>. QED
      BY <1>1, <2>1, <2>2, <2>3, <3>2, KeptBelief DEF Failing
  <2>5. CASE r' = TokOutSeen(r)
    <3>1. r.state = "READ_DESCRIPTOR" \/ (r.state = "WAIT_EXT_DONE" /\ dev2Host(r.parm))
      BY <2>1, <2>5 DEF TokOutSeen
    <3>2. host.phase \in {"data", "status"} /\ Serving /\ dev2Host(host.req)
      BY <3>1, ServingLemma DEF Serving, Waiting
    <3>3. ~Done /\ ~Done'
      BY <2>1, <3>2 DEF Done
    <3>. QED
      BY <1>1, <2>1, <2>2, <2>3, <3>3, QuietBelief DEF Failing
  <2>. QED
    BY <2>1, <2>4, <2>5
<1>9. CASE HostAbandons
  BY <1>9 DEF HostAbandons
<1>. QED
  BY <1>2, <1>3, <1>4, <1>5, <1>6, <1>7, <1>8, <1>9
-----------------------------------------------------------------------------
(* The steps that change what the host believes, or what the device holds. *)

LEMMA BelievedStatusIn ==
  ASSUME IInv, SettingsInv, Waiting, Believed, ~hurt, HostStatusIn
  PROVE  Believed'
<1>. DEFINE addr == value(r.parm) % 128
<1>. PICK w : w = Ready(r)
  OBVIOUS
<1>1. /\ host.phase = "status" /\ ~dev2Host(host.req) /\ ~r.stall /\ UNCHANGED <<queue, belief, hurt>>
      /\ r.state = "STATUS" /\ ~dev2Host(r.parm)
      /\ r' = IF request(r.parm) # SET_ADDRESS THEN w
              ELSE [w EXCEPT !.devAddr = addr, !.devState = IF addr = 0 THEN "DEFLT" ELSE "ADDRESS"]
      /\ host' = [host EXCEPT !.phase = "acking"]
  BY DEF HostStatusIn
<1>2. host'.phase = "acking" /\ host'.req = host.req /\ host'.addr = host.addr
  BY <1>1 DEF IInv, Shape
<1>3. Serving /\ Done /\ ~Failing /\ Done' /\ r.parm = host.req
  BY <1>1, <1>2 DEF IInv, Lockstep, Delivering, Serving, Refused, AtRest, Done, Failing
<1>4. DOMAIN w = Registers /\ SameSettings(w, r)
  BY ReadyTypes, EndsLemma DEF SettingsInv, Types, Regs, Control
<1>5. CASE request(r.parm) # SET_ADDRESS
  <2>1. SameSettings(r', r) /\ r'.hiSpeed = r.hiSpeed /\ r'.devAddr = r.devAddr
    BY <1>1, <1>4, <1>5, SameLemma
  <2>2. Effective' = Effective
    BY <1>1, <1>2, <1>3, <2>1 DEF Effective
  <2>3. Located'
    BY <1>1, <1>2, <2>1 DEF Located, Believed
  <2>. QED
    BY <1>3, <2>1, <2>2, <2>3, KeptBelief
<1>6. CASE request(r.parm) = SET_ADDRESS
  <2>1. /\ r'.cfgCurr = r.cfgCurr /\ r'.numIfc = r.numIfc /\ r'.altSettings = r.altSettings
        /\ r'.epSize = r.epSize /\ r'.epAssoc = r.epAssoc /\ r'.halted = r.halted
        /\ r'.devState \in {"DEFLT", "ADDRESS"} /\ r'.remWakeup = r.remWakeup /\ r'.hiSpeed = r.hiSpeed
    <3>1. /\ r'.cfgCurr = w.cfgCurr /\ r'.numIfc = w.numIfc /\ r'.altSettings = w.altSettings
          /\ r'.epSize = w.epSize /\ r'.epAssoc = w.epAssoc /\ r'.halted = w.halted
          /\ r'.devState \in {"DEFLT", "ADDRESS"} /\ r'.remWakeup = w.remWakeup /\ r'.hiSpeed = w.hiSpeed
      BY <1>1, <1>4, <1>6 DEF Registers
    <3>. QED
      BY <1>4, <3>1, SameLemma
  <2>2. Learn(r.hiSpeed, belief, host.req) = belief
    BY <1>3, <1>6, LearnNone DEF SET_ADDRESS, SET_CONFIGURATION, SET_INTERFACE, SET_FEATURE, CLEAR_FEATURE
  <2>3. Effective = belief /\ Effective' = belief
    BY <1>1, <1>2, <1>3, <2>1, <2>2 DEF Effective
  <2>4. belief.cfg = 0
    BY <1>1, <1>3, <1>6 DEF Believed, Located
  <2>5. Located'
    BY <1>1, <1>2, <1>3, <1>6, <2>4 DEF Located
  <2>6. InStep(r, belief) /\ (~belief.spoiled => Exact(r, belief))
    BY <1>3, <2>3 DEF Believed
  <2>7. InStep(r', belief)
    BY <2>1, <2>4, <2>6 DEF InStep
  <2>8. Exact(r, belief) => Exact(r', belief)
    BY <2>1 DEF Exact, Uses
  <2>. QED
    BY <2>3, <2>5, <2>6, <2>7, <2>8 DEF Believed
<1>. QED
  BY <1>5, <1>6

LEMMA BelievedStalled ==
  ASSUME IInv, SettingsInv, Believed, ~hurt, HostStalled
  PROVE  Believed'
<1>1. /\ host.phase \in {"data", "status"} /\ r.stall /\ UNCHANGED <<r, queue, hurt>>
      /\ host' = Idle(host.addr)
      /\ belief' = [belief EXCEPT !.spoiled = @ \/ request(host.req) \in {SET_CONFIGURATION, SET_INTERFACE}]
  BY DEF HostStalled
<1>2. host'.phase = "idle" /\ host'.addr = host.addr
  BY <1>1 DEF Idle
<1>3. ~Done /\ ~Done'
  BY <1>1, <1>2 DEF Done, Serving
<1>4. Effective = belief /\ Effective' = belief'
  BY <1>3 DEF Effective
<1>5. /\ belief'.cfg = belief.cfg /\ belief'.alt = belief.alt /\ belief'.halted = belief.halted
      /\ belief'.wakeup = belief.wakeup
      /\ ~belief'.spoiled => ~belief.spoiled /\ ~Failing
  BY <1>1 DEF SettingsInv, Types, Link, Beliefs, Failing
<1>6. Located'
  BY <1>1, <1>2 DEF Located, Believed
<1>7. InStep(r', belief')
  BY <1>1, <1>4, <1>5 DEF InStep, Believed
<1>8. ~belief'.spoiled => Exact(r', belief')
  BY <1>1, <1>4, <1>5 DEF Exact, Believed
<1>. QED
  BY <1>4, <1>6, <1>7, <1>8 DEF Believed

LEMMA NoEndpoints ==
  ASSUME NEW hs \in BOOLEAN
  PROVE  EndpointsOf[hs][0] = {}
<1>1. Len(ConfigsOf[hs]) \in Nat
  BY NumConfigsLemma, ConfigurationsAssumption
<1>2. EndpointsOf[hs][0] = EndpointsIn(Config(hs, 0))
  BY <1>1 DEF EndpointsOf
<1>3. 0 \notin DOMAIN ConfigsOf[hs]
  BY DEF ConfigsOf
<1>4. Config(hs, 0) = <<>>
  BY <1>3 DEF Config
<1>5. DOMAIN Config(hs, 0) = {}
  BY <1>4
<1>. QED
  BY <1>2, <1>5, Zenon DEF EndpointsIn

LEMMA BelievedReset == ASSUME BusReset PROVE Believed'
<1>1. PICK hs \in BOOLEAN : r' = RInit(hs)
  BY DEF BusReset
<1>2. /\ r'.cfgCurr = 0 /\ r'.devState = "DEFLT" /\ r'.remWakeup = FALSE /\ r'.halted = {}
      /\ r'.devAddr = 0 /\ r'.hiSpeed = hs
  BY <1>1 DEF RInit
<1>3. host'.phase = "idle" /\ host'.addr = 0 /\ belief' = NoBelief
  BY DEF BusReset, Idle
<1>4. belief'.cfg = 0 /\ belief'.halted = {} /\ belief'.wakeup = FALSE
  BY <1>3 DEF NoBelief
<1>5. Effective' = belief'
  BY <1>3 DEF Effective, Done
<1>6. Located'
  BY <1>2, <1>3 DEF Located
<1>7. InStep(r', belief')
  BY <1>2, <1>4 DEF InStep
<1>8. Exact(r', belief')
  BY <1>2, NoEndpoints DEF Exact
<1>. QED
  BY <1>5, <1>6, <1>7, <1>8 DEF Believed

\* A write that is served is done, or refused, in one step.
LEMMA WriteEnds ==
  ASSUME IInv, Waiting, Believed, ~hurt, Std({CLEAR_FEATURE, SET_FEATURE, SET_CONFIGURATION, SET_INTERFACE}),
         UNCHANGED <<queue, host, belief>>,
         NEW v, SameControl(v, r), v.devAddr = r.devAddr, v.hiSpeed = r.hiSpeed,
         r' = Status(v) \/ r' = Stalled(v)
  PROVE  /\ SameSettings(r', v) /\ Located' /\ Effective = belief /\ InStep(r, belief)
         /\ ~belief.spoiled => Exact(r, belief)
         /\ r' = Status(v) => /\ Effective' = Learn(r.hiSpeed, belief, r.parm) /\ ~Failing'
         /\ r' = Stalled(v) => /\ Effective' = belief
                               /\ Failing' <=> request(r.parm) \in {SET_CONFIGURATION, SET_INTERFACE}
<1>1. r.state = "STD_REQUEST" /\ reqType(r.parm) = STANDARD
      /\ request(r.parm) \in {CLEAR_FEATURE, SET_FEATURE, SET_CONFIGURATION, SET_INTERFACE}
  BY DEF Std
<1>2. /\ host.phase \in {"data", "status"} /\ host.req \in Requests /\ r.parm = host.req /\ queue = <<>>
      /\ ~r.stall /\ ~Done /\ ~Failing
  BY <1>1, ServedByHost
<1>3. ~dev2Host(host.req) /\ host.phase = "status"
  BY <1>1, <1>2, HostAssumption DEF Waiting
<1>4. /\ DOMAIN v = Registers /\ v.parm = r.parm /\ v.stall = r.stall /\ v.devAddr = r.devAddr
      /\ v.hiSpeed = r.hiSpeed
  BY DEF SameControl
<1>5. SameSettings(r', v) /\ r'.devAddr = r.devAddr /\ r'.hiSpeed = r.hiSpeed
  <2>1. SameSettings(r', v)
    BY <1>4, EndsLemma
  <2>. QED
    BY <1>4, <2>1, SameLemma
<1>6. Located'
  BY <1>5 DEF Located, Believed
<1>7. Effective = belief
  BY <1>2 DEF Effective
<1>8. ASSUME r' = Status(v) PROVE Effective' = Learn(r.hiSpeed, belief, r.parm) /\ ~Failing'
  <2>1. r'.state = "STATUS" /\ r'.parm = r.parm /\ r'.stall = r.stall
    BY <1>4, <1>8 DEF Status, Registers
  <2>2. Done' /\ ~Failing'
    BY <1>2, <1>3, <2>1 DEF Done, Serving, Failing
  <2>. QED
    BY <1>2, <1>5, <2>2 DEF Effective
<1>9. ASSUME r' = Stalled(v)
      PROVE  Effective' = belief /\ (Failing' <=> request(r.parm) \in {SET_CONFIGURATION, SET_INTERFACE})
  <2>. PICK w : w = Ready(v)
    OBVIOUS
  <2>1. DOMAIN w = Registers /\ w.state = "GET_PARAMS"
    BY <1>4 DEF Ready, Registers
  <2>2. r'.state = "GET_PARAMS" /\ r'.stall = TRUE
    BY <1>9, <2>1 DEF Stalled, Registers
  <2>3. ~Done'
    BY <1>2, <2>2 DEF Done
  <2>. QED
    BY <1>2, <2>2, <2>3 DEF Effective, Failing
<1>. QED
  BY <1>2, <1>5, <1>6, <1>7, <1>8, <1>9 DEF Believed

LEMMA BelievedFeature ==
  ASSUME IInv, SettingsInv, Waiting, Believed, ~hurt, Feature
  PROVE  Believed'
<1>. DEFINE q   == r.parm
            e   == epAddr(q)
            set == request(q) = SET_FEATURE
            a   == [r EXCEPT !.remWakeup = set]
            b   == [r EXCEPT !.halted = @ \cup {e}]
            c   == [r EXCEPT !.halted = @ \ {e}]
<1>1. /\ Std({CLEAR_FEATURE, SET_FEATURE}) /\ UNCHANGED <<queue, host, belief>>
      /\ \/ recipient(q) = DEV /\ r' = Status(a)
         \/ recipient(q) = EPT /\ set /\ e % 128 # 0 /\ r' = Status(b)
         \/ recipient(q) = EPT /\ ~set /\ r' = Status(c)
         \/ r' = Stalled(r)
  BY DEF Feature, Answer, DEV, EPT
<1>2. /\ Std({CLEAR_FEATURE, SET_FEATURE, SET_CONFIGURATION, SET_INTERFACE}) /\ reqType(q) = STANDARD
      /\ request(q) \in {CLEAR_FEATURE, SET_FEATURE}
  BY <1>1 DEF Std
<1>3. DOMAIN r = Registers /\ belief \in Beliefs
  BY DEF SettingsInv, Types, Regs, Control, Link
<1>4. \A v \in {a, b, c, r} :
        /\ SameControl(v, r) /\ v.devAddr = r.devAddr /\ v.hiSpeed = r.hiSpeed
        /\ v.cfgCurr = r.cfgCurr /\ v.numIfc = r.numIfc /\ v.altSettings = r.altSettings
        /\ v.epSize = r.epSize /\ v.epAssoc = r.epAssoc /\ v.devState = r.devState
  BY <1>3 DEF SameControl, Registers
<1>5. /\ a.halted = r.halted /\ a.remWakeup = set
      /\ b.halted = r.halted \cup {e} /\ b.remWakeup = r.remWakeup
      /\ c.halted = r.halted \ {e} /\ c.remWakeup = r.remWakeup
  BY <1>3 DEF Registers
<1>. HIDE DEF a, b, c
<1>6. PICK v \in {a, b, c, r} :
        \/ v = a /\ r' = Status(v) /\ recipient(q) = DEV
        \/ v = b /\ r' = Status(v) /\ recipient(q) = EPT /\ set /\ e % 128 # 0
        \/ v = c /\ r' = Status(v) /\ recipient(q) = EPT /\ ~set
        \/ v = r /\ r' = Stalled(v)
  BY <1>1
<1>7. /\ SameSettings(r', v) /\ Located' /\ InStep(r, belief)
      /\ ~belief.spoiled => Exact(r, belief)
      /\ r' = Status(v) => Effective' = Learn(r.hiSpeed, belief, q)
      /\ r' = Stalled(v) => Effective' = belief
  BY <1>1, <1>2, <1>4, <1>6, WriteEnds
<1>8. /\ r'.cfgCurr = r.cfgCurr /\ r'.numIfc = r.numIfc /\ r'.altSettings = r.altSettings
      /\ r'.epSize = r.epSize /\ r'.epAssoc = r.epAssoc /\ r'.devState = r.devState
      /\ r'.hiSpeed = r.hiSpeed /\ r'.halted = v.halted /\ r'.remWakeup = v.remWakeup
  BY <1>4, <1>7, SameLemma
<1>. DEFINE Mirrors(w) ==
       /\ w.cfg = belief.cfg /\ w.alt = belief.alt /\ w.spoiled = belief.spoiled
       /\ w.wakeup = r'.remWakeup
       /\ \A f :
            \/ (f \in r'.halted <=> f \in r.halted) /\ (f \in w.halted <=> f \in belief.halted)
            \/ f = e /\ e % 128 # 0 /\ f \in r'.halted /\ f \in w.halted
            \/ f = e /\ f \notin r'.halted /\ f \notin w.halted
<1>9. \A w : Mirrors(w) => InStep(r', w) /\ (~w.spoiled => Exact(r', w))
  <2>. SUFFICES ASSUME NEW w, Mirrors(w) PROVE InStep(r', w) /\ (~w.spoiled => Exact(r', w))
    OBVIOUS
  <2>1. InStep(r', w)
    BY <1>7, <1>8 DEF InStep
  <2>2. Exact(r, belief) => Exact(r', w)
    BY <1>8 DEF Exact, Uses
  <2>. QED
    BY <1>7, <2>1, <2>2
<1>. PICK w : w = Effective'
  OBVIOUS
<1>. PICK known : known = belief
  OBVIOUS
<1>10. /\ r' = Status(v) => w = Learn(r.hiSpeed, known, q)
       /\ r' = Stalled(v) => w = known
       /\ DOMAIN known = {"cfg", "alt", "halted", "wakeup", "spoiled"}
       /\ r.remWakeup = known.wakeup
  BY <1>3, <1>7 DEF InStep, Beliefs
<1>. HIDE DEF e, set
<1>11. /\ w.cfg = known.cfg /\ w.alt = known.alt /\ w.spoiled = known.spoiled
       /\ w.wakeup = v.remWakeup
       /\ \/ v.halted = r.halted /\ w.halted = known.halted
          \/ v.halted = r.halted \cup {e} /\ w.halted = known.halted \cup {e} /\ e % 128 # 0
          \/ v.halted = r.halted \ {e} /\ w.halted = known.halted \ {e}
  <2>1. CASE v = r /\ r' = Stalled(v)
    BY <1>10, <2>1
  <2>2. CASE v = a /\ r' = Status(v) /\ recipient(q) = DEV
    <3>1. w = [known EXCEPT !.wakeup = set]
      BY <1>2, <1>10, <2>2 DEF Learn, DEV, EPT, SET_CONFIGURATION, SET_INTERFACE, SET_FEATURE,
                               CLEAR_FEATURE, set
    <3>. QED
      BY <1>5, <1>10, <2>2, <3>1
  <2>3. CASE v = b /\ r' = Status(v) /\ recipient(q) = EPT /\ set /\ e % 128 # 0
    <3>1. w = [known EXCEPT !.halted = @ \cup {e}]
      BY <1>2, <1>10, <2>3 DEF Learn, DEV, EPT, SET_CONFIGURATION, SET_INTERFACE, SET_FEATURE,
                               CLEAR_FEATURE, set, e
    <3>. QED
      BY <1>5, <1>10, <2>3, <3>1
  <2>4. CASE v = c /\ r' = Status(v) /\ recipient(q) = EPT /\ ~set
    <3>1. w = [known EXCEPT !.halted = @ \ {e}]
      BY <1>2, <1>10, <2>4 DEF Learn, DEV, EPT, SET_CONFIGURATION, SET_INTERFACE, SET_FEATURE,
                               CLEAR_FEATURE, set, e
    <3>. QED
      BY <1>5, <1>10, <2>4, <3>1
  <2>. QED
    BY <1>6, <2>1, <2>2, <2>3, <2>4
<1>12. Mirrors(w)
  <2>1. \A f :
          \/ (f \in v.halted <=> f \in r.halted) /\ (f \in w.halted <=> f \in known.halted)
          \/ f = e /\ e % 128 # 0 /\ f \in v.halted /\ f \in w.halted
          \/ f = e /\ f \notin v.halted /\ f \notin w.halted
    BY <1>11
  <2>2. known = belief
    OBVIOUS
  <2>3. r'.halted = v.halted
    BY <1>8
  <2>. QED
    BY <1>8, <1>11, <2>1, <2>2, <2>3, Zenon
<1>. HIDE DEF Mirrors
<1>. QED
  BY <1>7, <1>9, <1>12 DEF Believed
-----------------------------------------------------------------------------
(* A configuration, and a setting of an interface. *)

LEMMA BelievedConfiguration ==
  ASSUME IInv, SettingsInv, Waiting, Believed, ~hurt, SetConfiguration
  PROVE  Believed'
<1>. DEFINE q  == r.parm
            n  == value(q)
            hs == r.hiSpeed
<1>1. PICK v :
        /\ Kept(v)
        /\ \/ /\ n = 0 /\ r' = Status(v) /\ Off(v) /\ SameSelection(v)
              /\ v.cfgCurr = 0 /\ v.devState = "ADDRESS"
           \/ /\ n > numConfigs(hs) /\ r' = Stalled(v) /\ Off(v) /\ SameSelection(v)
              /\ v.cfgCurr = r.cfgCurr /\ v.devState = r.devState
           \/ n \in 1 .. numConfigs(hs) /\ r' = Status(v) /\ Selects(v, n)
  BY ConfigurationLemma DEF SettingsInv
<1>2. /\ Std({SET_CONFIGURATION}) /\ UNCHANGED <<queue, host, belief>>
  BY DEF SetConfiguration, Answer
<1>3. /\ Std({CLEAR_FEATURE, SET_FEATURE, SET_CONFIGURATION, SET_INTERFACE}) /\ reqType(q) = STANDARD
      /\ request(q) = SET_CONFIGURATION
  BY <1>2 DEF Std
<1>4. DOMAIN r = Registers /\ hs \in BOOLEAN /\ belief \in Beliefs
  BY DEF SettingsInv, Types, Regs, Control, Settings, Link
<1>5. /\ SameControl(v, r) /\ v.devAddr = r.devAddr /\ v.hiSpeed = r.hiSpeed
      /\ v.remWakeup = r.remWakeup
  BY <1>1 DEF Kept
<1>. PICK known : known = belief
  OBVIOUS
<1>. PICK w : w = Effective'
  OBVIOUS
<1>. HIDE DEF n
<1>6. /\ SameSettings(r', v) /\ Located' /\ InStep(r, known)
      /\ r' = Status(v) => w = Learn(hs, known, q) /\ ~Failing'
      /\ r' = Stalled(v) => w = known /\ Failing'
  BY <1>1, <1>2, <1>3, <1>5, WriteEnds
<1>7. /\ r'.cfgCurr = v.cfgCurr /\ r'.numIfc = v.numIfc /\ r'.altSettings = v.altSettings
      /\ r'.epSize = v.epSize /\ r'.epAssoc = v.epAssoc /\ r'.devState = v.devState
      /\ r'.hiSpeed = hs /\ r'.halted = v.halted /\ r'.remWakeup = r.remWakeup
  BY <1>5, <1>6, SameLemma
<1>8. ASSUME w = Learn(hs, known, q)
      PROVE  /\ w.cfg = n /\ w.wakeup = known.wakeup /\ w.halted = {} /\ ~w.spoiled
             /\ w.alt = [i \in Interfaces |-> 0]
  <2>1. w = [NoBelief EXCEPT !.cfg = n, !.wakeup = known.wakeup]
    BY <1>3, <1>8 DEF Learn, n, SET_CONFIGURATION, SET_INTERFACE, SET_FEATURE, CLEAR_FEATURE
  <2>. QED
    BY <2>1 DEF NoBelief
<1>9. r.remWakeup = known.wakeup
  BY <1>6 DEF InStep
<1>10. CASE n = 0 /\ r' = Status(v) /\ Off(v) /\ v.cfgCurr = 0 /\ v.devState = "ADDRESS"
  <2>1. InStep(r', w)
    BY <1>6, <1>7, <1>8, <1>9, <1>10 DEF InStep, Off
  <2>2. Exact(r', w)
    BY <1>4, <1>7, <1>10, NoEndpoints DEF Exact
  <2>. QED
    BY <1>6, <2>1, <2>2 DEF Believed
<1>11. CASE /\ n > numConfigs(hs) /\ r' = Stalled(v) /\ Off(v) /\ SameSelection(v)
            /\ v.cfgCurr = r.cfgCurr /\ v.devState = r.devState
  <2>1. /\ r'.cfgCurr = r.cfgCurr /\ r'.numIfc = r.numIfc /\ r'.altSettings = r.altSettings
        /\ r'.devState = r.devState /\ r'.halted = {} /\ w = known
    BY <1>6, <1>7, <1>11 DEF Off, SameSelection
  <2>2. InStep(r', w)
    BY <1>6, <1>7, <2>1 DEF InStep
  <2>. QED
    BY <1>6, <1>11, <2>2 DEF Believed
<1>12. CASE n \in 1 .. numConfigs(hs) /\ r' = Status(v) /\ Selects(v, n)
  <2>. DEFINE S   == {y \in EndpointsOf[hs][n] : y.alt = 0}
              num == NumInterfaces(hs, n)
  <2>1. /\ r'.cfgCurr = n /\ r'.numIfc = num /\ r'.devState = "CONFIGURED"
        /\ r'.altSettings = [i \in Interfaces |-> IF i < num THEN 0 ELSE r.altSettings[i]]
        /\ Loaded(v, Unload(r), S)
    BY <1>7, <1>12 DEF Selects
  <2>2. /\ num \in 0 .. 128 /\ \A i \in 0 .. num - 1 : i \in Interfaces
        /\ \A y \in EndpointsOf[hs][n] : y.ifc \in 0 .. num - 1 /\ Address(y) \in Endpoints
    BY <1>4, <1>12, OnLemma
  <2>3. \A i \in 0 .. num - 1 : r'.altSettings[i] = 0
    <3>1. \A i \in 0 .. num - 1 : i < num
      BY <2>2
    <3>. QED
      BY <2>1, <2>2, <3>1
  <2>4. r'.halted = {}
    <3>1. Unload(r).halted = {}
      BY <1>4 DEF Unload, Registers
    <3>. QED
      BY <1>7, <2>1, <3>1 DEF Loaded
  <2>. HIDE DEF num
  <2>5. InStep(r', w)
    <3>1. \A i \in 0 .. num - 1 : r'.altSettings[i] = w.alt[i]
      BY <1>6, <1>8, <1>12, <2>2, <2>3
    <3>2. n # 0 /\ w.cfg = n /\ w.halted = {} /\ w.wakeup = r'.remWakeup
      BY <1>6, <1>7, <1>8, <1>9, <1>12
    <3>. QED
      BY <2>1, <2>4, <3>1, <3>2 DEF InStep
  <2>6. Exact(r', w)
    <3>. SUFFICES ASSUME NEW y \in EndpointsOf[hs][n], r'.altSettings[y.ifc] = y.alt
                  PROVE  /\ r'.epSize[Address(y)] = PacketSize(y) /\ r'.epAssoc[Address(y)] = y.ifc
                         /\ Address(y) \in r'.halted <=> Address(y) \in w.halted
      BY <1>7, <2>1 DEF Exact, Uses
    <3>1. y \in S
      BY <2>2, <2>3
    <3>2. v.epSize[Address(y)] = PacketSize(y) /\ v.epAssoc[Address(y)] = y.ifc
      BY <2>1, <2>2, <3>1 DEF Loaded
    <3>. QED
      BY <1>6, <1>7, <1>8, <1>12, <2>4, <3>2
  <2>. QED
    BY <1>6, <2>5, <2>6 DEF Believed
<1>. QED
  BY <1>1, <1>10, <1>11, <1>12

LEMMA BelievedInterface ==
  ASSUME IInv, SettingsInv, Waiting, Believed, ~hurt, SetInterface
  PROVE  Believed'
<1>. DEFINE q   == r.parm
            ifc == index(q)
            alt == value(q)
            hs  == r.hiSpeed
            n   == r.cfgCurr
            S   == {y \in EndpointsOf[hs][n] : y.ifc = ifc /\ y.alt = alt}
<1>1. DOMAIN r = Registers /\ Settings(r) /\ hs \in BOOLEAN /\ belief \in Beliefs /\ Types /\ Selected
  BY DEF SettingsInv, Types, Regs, Control, Settings, Link
<1>2. /\ Std({SET_INTERFACE}) /\ UNCHANGED <<queue, host, belief>>
  BY DEF SetInterface, Answer
<1>3. /\ Std({CLEAR_FEATURE, SET_FEATURE, SET_CONFIGURATION, SET_INTERFACE}) /\ reqType(q) = STANDARD
      /\ request(q) = SET_INTERFACE
  BY <1>2 DEF Std
<1>. PICK known : known = belief
  OBVIOUS
<1>. PICK w : w = Effective'
  OBVIOUS
<1>4. ASSUME NEW v, Kept(v), r' = Status(v) \/ r' = Stalled(v)
      PROVE  /\ SameSettings(r', v) /\ Located' /\ InStep(r, known)
             /\ ~known.spoiled => Exact(r, known)
             /\ r' = Status(v) => w = Learn(hs, known, q) /\ ~Failing'
             /\ r' = Stalled(v) => w = known /\ Failing'
  <2>1. SameControl(v, r) /\ v.devAddr = r.devAddr /\ v.hiSpeed = r.hiSpeed
    BY <1>4 DEF Kept
  <2>. QED
    BY <1>2, <1>3, <1>4, <2>1, WriteEnds
\* The request is refused.
<1>5. ASSUME NEW v, Kept(v), r' = Stalled(v), v.cfgCurr = r.cfgCurr, v.devState = r.devState,
             v.numIfc = r.numIfc, v.altSettings = r.altSettings, v.halted \subseteq r.halted
      PROVE  Believed'
  <2>1. /\ SameSettings(r', v) /\ Located' /\ InStep(r, known) /\ w = known /\ Failing'
    BY <1>4, <1>5
  <2>2. /\ r'.cfgCurr = r.cfgCurr /\ r'.devState = r.devState /\ r'.numIfc = r.numIfc
        /\ r'.altSettings = r.altSettings /\ r'.halted \subseteq r.halted /\ r'.remWakeup = r.remWakeup
    BY <1>5, <2>1, SameLemma DEF Kept
  <2>3. InStep(r', w)
    BY <2>1, <2>2 DEF InStep
  <2>. QED
    BY <2>1, <2>3 DEF Believed
<1>6. CASE r' = Stalled(r)
  <2>1. Kept(r)
    BY <1>1 DEF Kept, SameControl
  <2>. QED
    BY <1>5, <1>6, <2>1
<1>7. CASE r' # Stalled(r)
  <2>1. /\ Configured /\ ifc \in 0 .. r.numIfc - 1 /\ ifc \in Interfaces
        /\ alt \in 0 .. MaxAlt /\ n \in 1 .. numConfigs(hs)
        /\ \E v :
             \/ r' = Stalled(v) /\ Switches(v, ifc, {}) /\ v.altSettings = r.altSettings
             \/ /\ r' = Status(v) /\ Switches(v, ifc, S)
                /\ v.altSettings = [r.altSettings EXCEPT ![ifc] = alt]
    BY <1>1, <1>7, InterfaceLemma, Zenon
  <2>2. PICK v :
          \/ r' = Stalled(v) /\ Switches(v, ifc, {}) /\ v.altSettings = r.altSettings
          \/ /\ r' = Status(v) /\ Switches(v, ifc, S)
             /\ v.altSettings = [r.altSettings EXCEPT ![ifc] = alt]
    BY <2>1
  <2>. DEFINE off == DeactIfc(r, ifc)
  <2>3. /\ off.epAssoc = r.epAssoc /\ off.halted = r.halted
        /\ \A e \in Endpoints : off.epSize[e] = IF r.epAssoc[e] = ifc THEN 0 ELSE r.epSize[e]
    BY <1>1 DEF DeactIfc, Registers
  <2>. HIDE DEF off, ifc, alt
  <2>4. CASE r' = Stalled(v) /\ Switches(v, ifc, {}) /\ v.altSettings = r.altSettings
    <3>1. /\ Kept(v) /\ v.cfgCurr = r.cfgCurr /\ v.devState = r.devState /\ v.numIfc = r.numIfc
          /\ v.halted \subseteq r.halted
      BY <2>3, <2>4 DEF Switches, Loaded, off
    <3>. QED
      BY <1>5, <2>4, <3>1
  <2>5. CASE /\ r' = Status(v) /\ Switches(v, ifc, S)
             /\ v.altSettings = [r.altSettings EXCEPT ![ifc] = alt]
    <3>1. /\ Kept(v) /\ v.cfgCurr = n /\ v.devState = r.devState /\ v.numIfc = r.numIfc
          /\ Loaded(v, off, S) /\ v.hiSpeed = hs /\ v.remWakeup = r.remWakeup
      BY <2>5 DEF Switches, Kept, off
    <3>2. /\ SameSettings(r', v) /\ Located' /\ InStep(r, known) /\ (~known.spoiled => Exact(r, known))
          /\ w = Learn(hs, known, q) /\ ~Failing'
      BY <1>4, <2>5, <3>1
    <3>3. /\ r'.cfgCurr = n /\ r'.numIfc = r.numIfc /\ r'.altSettings = [r.altSettings EXCEPT ![ifc] = alt]
          /\ r'.epSize = v.epSize /\ r'.epAssoc = v.epAssoc /\ r'.devState = r.devState
          /\ r'.hiSpeed = hs /\ r'.halted = v.halted /\ r'.remWakeup = r.remWakeup
      BY <2>5, <3>1, <3>2, SameLemma
    <3>4. known.cfg = n /\ n # 0
      BY <2>1, <3>2 DEF InStep
    <3>. DEFINE Of(f) == \E x \in EndpointsOf[hs][n] : At(x.dsc, 2) = f /\ x.ifc = ifc
    <3>5. w = [known EXCEPT !.alt[ifc] = alt, !.halted = {f \in @ : ~Of(f)}]
      BY <1>3, <3>2, <3>4 DEF Learn, ifc, alt, SET_CONFIGURATION, SET_INTERFACE, SET_FEATURE, CLEAR_FEATURE
    <3>6. /\ w.cfg = n /\ w.wakeup = known.wakeup /\ w.spoiled = known.spoiled
          /\ w.alt = [known.alt EXCEPT ![ifc] = alt] /\ w.halted = {f \in known.halted : ~Of(f)}
          /\ DOMAIN known.alt = Interfaces /\ DOMAIN r.altSettings = Interfaces
      BY <1>1, <3>4, <3>5 DEF Beliefs, Settings
    <3>. HIDE DEF Of
    <3>7. InStep(r', w)
      <4>1. \A i \in 0 .. r.numIfc - 1 : i \in Interfaces
        BY <1>1, <2>1, <3>4, OnLemma DEF Selected
      <4>2. \A i \in 0 .. r.numIfc - 1 : r'.altSettings[i] = w.alt[i]
        BY <3>2, <3>3, <3>4, <3>6, <4>1 DEF InStep
      <4>3. r'.halted \subseteq r.halted /\ w.halted \subseteq known.halted
        BY <2>3, <3>1, <3>3, <3>6 DEF Loaded
      <4>. QED
        BY <3>2, <3>3, <3>4, <3>6, <4>2, <4>3 DEF InStep
    <3>8. ASSUME ~w.spoiled PROVE Exact(r', w)
      <4>. SUFFICES ASSUME NEW y \in EndpointsOf[hs][n], r'.altSettings[y.ifc] = y.alt
                    PROVE  /\ v.epSize[Address(y)] = PacketSize(y) /\ v.epAssoc[Address(y)] = y.ifc
                           /\ Address(y) \in v.halted <=> Address(y) \in w.halted
        BY <3>3 DEF Exact, Uses
      <4>1. /\ Address(y) \in Endpoints /\ y.ifc \in Interfaces
            /\ \A z \in EndpointsOf[hs][n] : Address(y) = Address(z) => y.ifc = z.ifc
        BY <1>1, <2>1, OnLemma, EndpointsOfAssumption
      <4>2. Of(Address(y)) <=> y.ifc = ifc
        BY <4>1 DEF Of, Address
      <4>3. CASE y.ifc = ifc
        <5>1. y \in S
          BY <2>1, <3>3, <3>6, <4>3
        <5>. QED
          BY <3>1, <3>6, <4>1, <4>2, <4>3, <5>1 DEF Loaded
      <4>4. CASE y.ifc # ifc
        <5>1. \A z \in S : Address(z) # Address(y)
          BY <4>1, <4>4
        <5>2. Uses(r, y)
          BY <3>3, <3>6, <4>1, <4>4 DEF Uses
        <5>3. /\ r.epSize[Address(y)] = PacketSize(y) /\ r.epAssoc[Address(y)] = y.ifc
              /\ Address(y) \in r.halted <=> Address(y) \in known.halted
          BY <3>2, <3>6, <3>8, <5>2 DEF Exact
        <5>4. v.epSize[Address(y)] = off.epSize[Address(y)] /\ v.epAssoc[Address(y)] = off.epAssoc[Address(y)]
          BY <3>1, <4>1, <5>1 DEF Loaded
        <5>5. Address(y) \in v.halted <=> Address(y) \in r.halted
          BY <2>3, <3>1, <5>1 DEF Loaded
        <5>6. Address(y) \in w.halted <=> Address(y) \in known.halted
          BY <3>6, <4>2, <4>4
        <5>. QED
          BY <2>3, <4>1, <4>4, <5>3, <5>4, <5>5, <5>6
      <4>. QED
        BY <4>3, <4>4
    <3>. QED
      BY <3>2, <3>7, <3>8 DEF Believed
  <2>. QED
    BY <2>2, <2>4, <2>5
<1>. QED
  BY <1>6, <1>7
-----------------------------------------------------------------------------
(* What follows from it. *)

\* Only a reset of the bus mends a transfer that was disturbed.
LEMMA HurtLemma ==
  ASSUME Next, ~BusReset, ~hurt'
  PROVE  ~hurt
  BY DEF Next, EngineNext, AgentNext, HostNext, TakeSetup, LoseByte, StatusOut, Feature,
     GetConfiguration, GetInterface, GetStatus, SetAddress, SetConfiguration, SetInterface,
     GetDescriptor, OtherRequest, Answer, AgentRefuses, AgentAccepts, AgentSends, AgentDone, AgentStep,
     HostSetupData, HostIn, HostStatusOut, HostStatusIn, HostAcks, HostStalled, HostSetup, HostStops,
     ForeignToken, HostAbandons

LEMMA BelievedStep ==
  ASSUME IInv, SettingsInv, Waiting, ~hurt => Believed, [Next]_vars
  PROVE  ~hurt' => Believed'
<1>1. CASE BusReset
  BY <1>1, BelievedReset
<1>2. CASE ~BusReset
  <2>. SUFFICES ASSUME ~hurt' PROVE Believed'
    OBVIOUS
  <2>1. CASE UNCHANGED vars
    <3>1. Believed' <=> Believed
      BY <2>1 DEF vars, Believed, Located, Effective, Done, Serving, Failing, InStep, Exact, Uses
    <3>. QED
      BY <2>1, <3>1 DEF vars
  <2>2. ASSUME Next PROVE ~hurt
    BY <1>2, <2>2, HurtLemma
  <2>3. CASE EngineNext
    BY <2>2, <2>3, BelievedEngine, BelievedFeature, BelievedConfiguration, BelievedInterface
       DEF EngineNext, Next
  <2>4. CASE AgentNext
    BY <2>2, <2>4, BelievedAgents DEF Next
  <2>5. CASE HostNext \/ HostSetup \/ HostStops \/ ForeignToken \/ HostAbandons
    BY <2>2, <2>5, BelievedHost, BelievedStatusIn, BelievedStalled DEF HostNext, Next
  <2>. QED
    BY <1>2, <2>1, <2>3, <2>4, <2>5 DEF Next
<1>. QED
  BY <1>1, <1>2

LEMMA BelievedInit == Init => Waiting /\ Believed
<1>. SUFFICES ASSUME Init PROVE Waiting /\ Believed
  OBVIOUS
<1>1. PICK hs \in BOOLEAN : r = RInit(hs)
  BY DEF Init
<1>2. /\ r.cfgCurr = 0 /\ r.devState = "DEFLT" /\ r.remWakeup = FALSE /\ r.halted = {}
      /\ r.devAddr = 0 /\ r.hiSpeed = hs /\ r.state = "GET_PARAMS"
  BY <1>1 DEF RInit
<1>3. host.phase = "idle" /\ host.addr = 0 /\ belief = NoBelief
  BY DEF Init, Idle
<1>4. belief.cfg = 0 /\ belief.halted = {} /\ belief.wakeup = FALSE
  BY <1>3 DEF NoBelief
<1>5. Effective = belief
  BY <1>3 DEF Effective, Done
<1>6. InStep(r, belief)
  BY <1>2, <1>4 DEF InStep
<1>7. Exact(r, belief)
  BY <1>2, NoEndpoints DEF Exact
<1>8. Waiting
  BY <1>2, <1>3 DEF Waiting, Reading
<1>. QED
  BY <1>2, <1>3, <1>5, <1>6, <1>7, <1>8 DEF Believed, Located

HostKnows == IInv /\ SettingsInv /\ Waiting /\ (~hurt => Believed)

LEMMA HostKnowsHolds == Spec => []HostKnows
<1>1. Init => HostKnows
  BY InitLemma, SettingsInit, BelievedInit DEF HostKnows
<1>2. HostKnows /\ [Next]_vars => HostKnows'
  BY StepLemma, SettingsStep, WaitingStep, BelievedStep DEF HostKnows
<1>. QED
  BY <1>1, <1>2, PTL DEF Spec

\* The endpoints that the host has selected are those the device has.
LEMMA InUseLemma ==
  ASSUME Types, Selected, InStep(r, belief), NEW y
  PROVE  /\ y \in EndpointsOf[r.hiSpeed][belief.cfg] /\ belief.alt[y.ifc] = y.alt => Uses(r, y)
         /\ Uses(r, y) => r.cfgCurr \in 1 .. numConfigs(r.hiSpeed) /\ y.ifc \in 0 .. r.numIfc - 1
<1>. DEFINE hs == r.hiSpeed
            n  == r.cfgCurr
<1>1. hs \in BOOLEAN /\ n \in 0 .. numConfigs(hs) /\ numConfigs(hs) \in 0 .. 255
  BY NumConfigsLemma DEF Types, Regs, Settings
<1>2. ASSUME y \in EndpointsOf[hs][n]
      PROVE  n \in 1 .. numConfigs(hs) /\ y.ifc \in 0 .. r.numIfc - 1
  <2>1. n # 0
    BY <1>1, <1>2, NoEndpoints
  <2>2. n \in 1 .. numConfigs(hs)
    BY <1>1, <2>1
  <2>. QED
    BY <1>1, <1>2, <2>1, <2>2, OnLemma DEF Selected
<1>3. belief.cfg = n
  BY DEF InStep
<1>4. ASSUME y \in EndpointsOf[hs][n], belief.alt[y.ifc] = y.alt PROVE Uses(r, y)
  <2>1. n # 0 /\ y.ifc \in 0 .. r.numIfc - 1
    BY <1>1, <1>2, <1>4
  <2>2. r.altSettings[y.ifc] = belief.alt[y.ifc]
    BY <1>3, <2>1 DEF InStep
  <2>. QED
    BY <1>4, <2>2 DEF Uses
<1>. QED
  BY <1>2, <1>3, <1>4 DEF Uses

\* What the device holds is what the host has set up.  A failed change of the
\* configuration, which the host knows of, is the only other way they may differ.
THEOREM AgreementHolds == Spec => []Agreement
<1>1. HostKnows => Agreement
  <2>. SUFFICES ASSUME HostKnows, host.phase = "idle", queue = <<>>, ~hurt, ~belief.spoiled
                PROVE  /\ r.state = "GET_PARAMS" /\ r.devAddr = host.addr
                       /\ r.cfgCurr = belief.cfg /\ r.remWakeup = belief.wakeup
                       /\ Configured => \A i \in 0 .. r.numIfc - 1 : r.altSettings[i] = belief.alt[i]
                       /\ \A d \in InUse(r.hiSpeed, belief.cfg, belief.alt) :
                            At(d, 2) \in r.halted <=> At(d, 2) \in belief.halted
    BY DEF Agreement
  <2>1. Types /\ Selected /\ Located
    BY DEF HostKnows, SettingsInv, Believed
  <2>2. Effective = belief /\ ~Failing
    BY DEF Effective, Done, Failing
  <2>3. InStep(r, belief) /\ Exact(r, belief)
    BY <2>2 DEF HostKnows, Believed
  <2>4. r.state = "GET_PARAMS" /\ r.devAddr = host.addr
    BY <2>1, EmptySeq DEF HostKnows, IInv, Lockstep, AtRest, Ending, Located
  <2>5. ASSUME NEW d \in InUse(r.hiSpeed, belief.cfg, belief.alt)
        PROVE  At(d, 2) \in r.halted <=> At(d, 2) \in belief.halted
    <3>1. PICK y \in EndpointsOf[r.hiSpeed][belief.cfg] : belief.alt[y.ifc] = y.alt /\ d = y.dsc
      BY DEF InUse
    <3>2. Uses(r, y)
      BY <2>1, <2>3, <3>1, InUseLemma
    <3>. QED
      BY <2>3, <3>1, <3>2 DEF Exact, Uses, Address
  <2>. QED
    BY <2>3, <2>4, <2>5 DEF InStep, Configured
<1>. QED
  BY <1>1, HostKnowsHolds, PTL

\* Nothing that the host learns makes up for a failure, but a new configuration.
LEMMA SpoiledLemma ==
  ASSUME NEW hs, NEW b \in Beliefs, NEW q
  PROVE  Learn(hs, b, q).spoiled \in {FALSE, b.spoiled}
<1>. PICK w : w = Learn(hs, b, q)
  OBVIOUS
<1>1. \/ \E c, k : w = [NoBelief EXCEPT !.cfg = c, !.wakeup = k]
      \/ \E i, a, h : w = [b EXCEPT !.alt[i] = a, !.halted = h]
      \/ \E h : w = [b EXCEPT !.halted = h]
      \/ \E k : w = [b EXCEPT !.wakeup = k]
      \/ w = b
  <2>. DEFINE Of(f) == \E x \in EndpointsOf[hs][b.cfg] : At(x.dsc, 2) = f /\ x.ifc = index(q)
  <2>1. \/ w = [NoBelief EXCEPT !.cfg = value(q), !.wakeup = b.wakeup]
        \/ w = [b EXCEPT !.alt[index(q)] = value(q), !.halted = {f \in b.halted : ~Of(f)}]
        \/ w = [b EXCEPT !.halted = b.halted \cup {epAddr(q)}]
        \/ w = [b EXCEPT !.halted = b.halted \ {epAddr(q)}]
        \/ w = [b EXCEPT !.wakeup = request(q) = SET_FEATURE]
        \/ w = b
    BY DEF Learn
  <2>. HIDE DEF Of
  <2>. QED
    BY <2>1
<1>. QED
  BY <1>1 DEF NoBelief, Beliefs

\* The packet engine has the packet size of every endpoint in use, and 0 for the
\* others; only after a failure, or a transfer that was disturbed, endpoints may be off.
THEOREM SettingsLoadedHolds == Spec => []SettingsLoaded
<1>. DEFINE used == InUse(r.hiSpeed, r.cfgCurr, r.altSettings)
            size(e) == LET d == {x \in used : At(x, 2) = e}
                       IN  IF d = {} THEN 0
                           ELSE LET x == CHOOSE x \in d : TRUE IN At(x, 4) + 256 * At(x, 5)
<1>1. HostKnows => SettingsLoaded
  <2>. SUFFICES ASSUME HostKnows, NEW e \in Endpoints
                PROVE  \/ r.epSize[e] = size(e)
                       \/ (hurt \/ belief.spoiled \/ r.stall) /\ r.epSize[e] = 0
    BY DEF SettingsLoaded
  <2>1. Types /\ Selected /\ OnlyUsed
    BY DEF HostKnows, SettingsInv
  <2>. DEFINE hs == r.hiSpeed
              n  == r.cfgCurr
  <2>2. hs \in BOOLEAN /\ n \in 0 .. numConfigs(hs) /\ numConfigs(hs) \in 0 .. 255
    BY <2>1, NumConfigsLemma DEF Types, Regs, Settings
  <2>3. ASSUME NEW y, Uses(r, y), Address(y) = e PROVE size(e) = PacketSize(y)
    <3>. DEFINE d == {x \in used : At(x, 2) = e}
                x == CHOOSE x \in d : TRUE
    <3>1. y.dsc \in d
      BY <2>3 DEF Uses, InUse, Address
    <3>2. x \in d
      BY <3>1
    <3>3. PICK z \in EndpointsOf[hs][n] : r.altSettings[z.ifc] = z.alt /\ x = z.dsc
      BY <3>2 DEF InUse
    <3>4. Address(z) = e
      BY <3>2, <3>3 DEF Address
    <3>5. n \in 1 .. numConfigs(hs)
      BY <2>2, <2>3, NoEndpoints DEF Uses
    <3>6. y.ifc = z.ifc /\ (y.alt = z.alt => PacketSize(y) = PacketSize(z))
      BY <2>2, <2>3, <3>3, <3>4, <3>5, EndpointsOfAssumption DEF Uses
    <3>7. PacketSize(y) = PacketSize(z)
      BY <2>3, <3>3, <3>6 DEF Uses
    <3>8. size(e) = At(x, 4) + 256 * At(x, 5)
      BY <3>1
    <3>9. At(x, 4) + 256 * At(x, 5) = PacketSize(z)
      BY <3>3 DEF PacketSize
    <3>. HIDE DEF size
    <3>. QED
      BY <3>7, <3>8, <3>9
  <2>4. ASSUME \A y : ~(Uses(r, y) /\ Address(y) = e) PROVE size(e) = 0
    <3>1. ASSUME NEW x \in used, At(x, 2) = e PROVE FALSE
      <4>1. PICK y \in EndpointsOf[hs][n] : r.altSettings[y.ifc] = y.alt /\ x = y.dsc
        BY DEF InUse
      <4>. QED
        BY <2>4, <3>1, <4>1 DEF Uses, Address
    <3>. QED
      BY <3>1
  <2>. HIDE DEF size
  <2>5. CASE r.epSize[e] # 0
    <3>1. PICK y : Uses(r, y) /\ Address(y) = e /\ r.epSize[e] = PacketSize(y)
      BY <2>1, <2>5 DEF OnlyUsed
    <3>2. size(e) = PacketSize(y)
      BY <2>3, <3>1
    <3>. QED
      BY <3>1, <3>2
  <2>6. CASE r.epSize[e] = 0 /\ ~(hurt \/ belief.spoiled \/ r.stall)
    <3>1. ~Effective.spoiled /\ ~Failing
      <4>1. Learn(hs, belief, host.req).spoiled \in {FALSE, belief.spoiled}
        BY <2>1, SpoiledLemma DEF Types, Link
      <4>. QED
        BY <2>6, <4>1 DEF Effective, Failing
    <3>2. Exact(r, Effective)
      BY <2>6, <3>1 DEF HostKnows, Believed
    <3>3. ASSUME NEW y, Uses(r, y), Address(y) = e PROVE r.epSize[e] = PacketSize(y)
      BY <3>2, <3>3 DEF Exact, Uses
    <3>. QED
      BY <2>3, <2>4, <2>6, <3>3
  <2>. QED
    BY <2>5, <2>6
<1>. QED
  BY <1>1, HostKnowsHolds, PTL
-----------------------------------------------------------------------------
(* The answers that are promised. *)

\* Endpoint 0, or one that is in use.
UsedBy(hs, b, e) == e % 128 = 0 \/ \E d \in InUse(hs, b.cfg, b.alt) : At(d, 2) = e
Else(p, a, c) == IF p THEN a ELSE c

Features == {SET_FEATURE, CLEAR_FEATURE}

LEMMA PromisedDescriptor ==
  ASSUME NEW hs, NEW b, NEW q, reqType(q) = STANDARD, request(q) = GET_DESCRIPTOR
  PROVE  LET d == Described(hs, q)
         IN  Promised(hs, b, q) = Else(d # <<>>, SubSeq(d, 1, Least(length(q), Len(d))), Refusal)
  BY DEF Promised, Else, STANDARD, GET_DESCRIPTOR, GET_CONFIGURATION, GET_INTERFACE, SET_ADDRESS,
         SET_CONFIGURATION, SET_INTERFACE, GET_STATUS, SET_FEATURE, CLEAR_FEATURE

LEMMA PromisedCurrentConfiguration ==
  ASSUME NEW hs, NEW b, NEW q, reqType(q) = STANDARD, request(q) = GET_CONFIGURATION
  PROVE  Promised(hs, b, q) = <<b.cfg>>
  BY DEF Promised, Else, STANDARD, GET_DESCRIPTOR, GET_CONFIGURATION, GET_INTERFACE, SET_ADDRESS,
         SET_CONFIGURATION, SET_INTERFACE, GET_STATUS, SET_FEATURE, CLEAR_FEATURE

LEMMA PromisedCurrentInterface ==
  ASSUME NEW hs, NEW b, NEW q, reqType(q) = STANDARD, request(q) = GET_INTERFACE
  PROVE  LET alt == b.alt[index(q)]
         IN  Promised(hs, b, q) = Else(HasSetting(hs, b.cfg, index(q), alt), <<alt>>, Refusal)
  BY DEF Promised, Else, STANDARD, GET_DESCRIPTOR, GET_CONFIGURATION, GET_INTERFACE, SET_ADDRESS,
         SET_CONFIGURATION, SET_INTERFACE, GET_STATUS, SET_FEATURE, CLEAR_FEATURE

LEMMA PromisedAddress ==
  ASSUME NEW hs, NEW b, NEW q, reqType(q) = STANDARD, request(q) = SET_ADDRESS
  PROVE  Promised(hs, b, q) = <<>>
  BY DEF Promised, Else, STANDARD, GET_DESCRIPTOR, GET_CONFIGURATION, GET_INTERFACE, SET_ADDRESS,
         SET_CONFIGURATION, SET_INTERFACE, GET_STATUS, SET_FEATURE, CLEAR_FEATURE

LEMMA PromisedConfiguration ==
  ASSUME NEW hs, NEW b, NEW q, reqType(q) = STANDARD, request(q) = SET_CONFIGURATION
  PROVE  Promised(hs, b, q) = Else(value(q) = 0 \/ Config(hs, value(q)) # <<>>, <<>>, Refusal)
  BY DEF Promised, Else, STANDARD, GET_DESCRIPTOR, GET_CONFIGURATION, GET_INTERFACE, SET_ADDRESS,
         SET_CONFIGURATION, SET_INTERFACE, GET_STATUS, SET_FEATURE, CLEAR_FEATURE

LEMMA PromisedInterface ==
  ASSUME NEW hs, NEW b, NEW q, reqType(q) = STANDARD, request(q) = SET_INTERFACE
  PROVE  Promised(hs, b, q) = Else(HasSetting(hs, b.cfg, index(q), value(q)), <<>>, Refusal)
  BY DEF Promised, Else, STANDARD, GET_DESCRIPTOR, GET_CONFIGURATION, GET_INTERFACE, SET_ADDRESS,
         SET_CONFIGURATION, SET_INTERFACE, GET_STATUS, SET_FEATURE, CLEAR_FEATURE

LEMMA PromisedStatus ==
  ASSUME NEW hs, NEW b, NEW q, reqType(q) = STANDARD, request(q) = GET_STATUS
  PROVE  LET a == Promised(hs, b, q)
             e == epAddr(q)
         IN  /\ recipient(q) = DEV => a = <<IF b.wakeup THEN 2 ELSE 0, 0>>
             /\ recipient(q) = IFC =>
                  a = Else(b.cfg # 0,
                           Else(HasSetting(hs, b.cfg, index(q), b.alt[index(q)]), <<0, 0>>, Refusal),
                           Unspecified)
             /\ recipient(q) = EPT =>
                  a = Else(UsedBy(hs, b, e), <<IF e \in b.halted THEN 1 ELSE 0, 0>>, Unspecified)
             /\ recipient(q) \notin {DEV, IFC, EPT} => a = Unspecified
<1>1. ~(request(q) \in {GET_DESCRIPTOR, GET_CONFIGURATION, GET_INTERFACE, SET_ADDRESS, SET_CONFIGURATION,
                        SET_INTERFACE, SET_FEATURE, CLEAR_FEATURE})
  BY DEF GET_DESCRIPTOR, GET_CONFIGURATION, GET_INTERFACE, SET_ADDRESS,
         SET_CONFIGURATION, SET_INTERFACE, GET_STATUS, SET_FEATURE, CLEAR_FEATURE
<1>2. CASE recipient(q) = DEV
  BY <1>1, <1>2 DEF Promised, DEV, IFC, EPT
<1>3. CASE recipient(q) = IFC
  BY <1>1, <1>3 DEF Promised, Else, DEV, IFC, EPT
<1>4. CASE recipient(q) = EPT
  BY <1>1, <1>4 DEF Promised, Else, UsedBy, DEV, IFC, EPT
<1>5. CASE recipient(q) \notin {DEV, IFC, EPT}
  BY <1>1, <1>5 DEF Promised
<1>. QED
  BY <1>2, <1>3, <1>4, <1>5 DEF DEV, IFC, EPT

LEMMA PromisedFeature ==
  ASSUME NEW hs, NEW b, NEW q, reqType(q) = STANDARD, request(q) \in Features
  PROVE  LET a == Promised(hs, b, q)
             e == epAddr(q)
         IN  /\ recipient(q) = EPT =>
                  a = Else(e % 128 # 0 /\ (b.cfg = 0 \/ UsedBy(hs, b, e)),
                           Else(b.cfg # 0, <<>>, Refusal), Unspecified)
             /\ recipient(q) = DEV =>
                  a = Else(b.cfg # 0,
                           Else((At(Config(hs, b.cfg)[1], 7) \div 32) % 2 = 1, <<>>, Refusal), Unspecified)
             /\ recipient(q) \notin {DEV, EPT} => a = Unspecified
<1>1. ~(request(q) \in {GET_DESCRIPTOR, GET_CONFIGURATION, GET_INTERFACE, SET_ADDRESS, SET_CONFIGURATION,
                        SET_INTERFACE, GET_STATUS})
  BY DEF GET_DESCRIPTOR, GET_CONFIGURATION, GET_INTERFACE, SET_ADDRESS,
         SET_CONFIGURATION, SET_INTERFACE, GET_STATUS, SET_FEATURE, CLEAR_FEATURE, Features
<1>2. CASE recipient(q) = DEV
  BY <1>1, <1>2 DEF Promised, Else, Features, DEV, EPT
<1>3. CASE recipient(q) = EPT
  BY <1>1, <1>3 DEF Promised, Else, UsedBy, Features, DEV, EPT
<1>4. CASE recipient(q) \notin {DEV, EPT}
  BY <1>1, <1>4 DEF Promised
<1>. QED
  BY <1>2, <1>3, <1>4 DEF DEV, EPT

LEMMA PromisedElse ==
  ASSUME NEW hs, NEW b, NEW q,
         \/ reqType(q) # STANDARD
         \/ request(q) \notin {GET_STATUS, CLEAR_FEATURE, SET_FEATURE, SET_ADDRESS, GET_DESCRIPTOR,
                               GET_CONFIGURATION, SET_CONFIGURATION, GET_INTERFACE, SET_INTERFACE}
  PROVE  Promised(hs, b, q) = Unspecified
<1>1. CASE reqType(q) # STANDARD
  BY <1>1 DEF Promised
<1>2. CASE ~(reqType(q) # STANDARD)
  BY <1>2 DEF Promised
<1>. QED
  BY <1>1, <1>2
-----------------------------------------------------------------------------
(* The answers that are given. *)

LEMMA DescribedLemma ==
  ASSUME NEW hs \in BOOLEAN, NEW q \in Requests, reqType(q) = STANDARD, request(q) = GET_DESCRIPTOR
  PROVE  Described(hs, q) = IF Has(hs, q) THEN Patched(q, Source(hs, q)) ELSE <<>>
<1>. DEFINE sel   == tblSelHS(hs, q)
            speed == IF OtherSpeed(q) /\ Dual THEN ~hs ELSE hs
            n     == value(q)
            typ   == descType(q)
            there == n + 1 \in DOMAIN ConfigsOf[speed]
<1>1. /\ OtherSpeed(q) <=> typ = OTHER_SPEED_CONF
      /\ Dual <=> BothSpeeds
      /\ OtherSpeed(q) => Dual
  BY DevicesAssumption, HostAssumption DEF OtherSpeed
<1>2. speed = sel /\ sel \in BOOLEAN
  BY <1>1, SelectLemma DEF tblSelHS
<1>3. n \in Nat /\ numConfigs(sel) \in Nat
  BY <1>2, RequestLemma, NumConfigsLemma
<1>4. there <=> n < numConfigs(sel)
  <2>1. DOMAIN ConfigsOf[sel] = 1 .. numConfigs(sel)
    BY <1>2, ConfigurationsAssumption
  <2>. HIDE DEF n, sel
  <2>. QED
    BY <1>2, <1>3, <2>1
<1>5. n + 1 <= Len(Strings) <=> n < Len(Strings)
  <2>1. Len(Strings) \in Nat
    BY StringsAssumption
  <2>. HIDE DEF n
  <2>. QED
    BY <1>3, <2>1
<1>. HIDE DEF there, n, sel, speed
<1>6. CASE typ = DEVICE
  <2>1. Has(hs, q) /\ Source(hs, q) = Section(hs)[1] /\ Described(hs, q) = Section(hs)[1]
    BY <1>6 DEF Has, Source, Described, DEVICE, CONFIGURATION, STRING_, DEVICE_QUALIFIER, OTHER_SPEED_CONF
  <2>. QED
    BY <1>1, <1>6, <2>1 DEF Patched, DEVICE, OTHER_SPEED_CONF
<1>7. CASE typ = STRING_
  <2>1. /\ Has(hs, q) <=> n < Len(Strings)
        /\ Source(hs, q) = Strings[n + 1]
        /\ Described(hs, q) = IF n + 1 <= Len(Strings) THEN Strings[n + 1] ELSE <<>>
    BY <1>7 DEF Has, Source, Described, DEVICE, CONFIGURATION, STRING_, DEVICE_QUALIFIER, OTHER_SPEED_CONF, n
  <2>. QED
    BY <1>1, <1>5, <1>7, <2>1 DEF Patched, STRING_, OTHER_SPEED_CONF
<1>8. CASE typ = DEVICE_QUALIFIER
  <2>1. /\ Has(hs, q) <=> Qualifiers(hs) # <<>>
        /\ Source(hs, q) = Qualifiers(hs)[1]
        /\ Described(hs, q) = IF Qualifiers(hs) # <<>> THEN Qualifiers(hs)[1] ELSE <<>>
    BY <1>8 DEF Has, Source, Described, DEVICE, CONFIGURATION, STRING_, DEVICE_QUALIFIER, OTHER_SPEED_CONF
  <2>. QED
    BY <1>1, <1>8, <2>1 DEF Patched, DEVICE_QUALIFIER, OTHER_SPEED_CONF
<1>9. CASE typ = CONFIGURATION
  <2>1. /\ Has(hs, q) <=> n < numConfigs(sel)
        /\ Source(hs, q) = Whole(sel, n + 1)
    BY <1>9 DEF Has, Source, DEVICE, CONFIGURATION, STRING_, DEVICE_QUALIFIER, OTHER_SPEED_CONF, n, sel
  <2>2. Described(hs, q) = IF there THEN Whole(speed, n + 1) ELSE <<>>
    BY <1>9 DEF Described, DEVICE, CONFIGURATION, STRING_, DEVICE_QUALIFIER, OTHER_SPEED_CONF, n, speed, there
  <2>. QED
    BY <1>1, <1>2, <1>4, <1>9, <2>1, <2>2 DEF Patched, CONFIGURATION, OTHER_SPEED_CONF
<1>10. CASE typ = OTHER_SPEED_CONF
  <2>1. /\ Has(hs, q) <=> n < numConfigs(sel)
        /\ Source(hs, q) = Whole(sel, n + 1)
    BY <1>10 DEF Has, Source, DEVICE, CONFIGURATION, STRING_, DEVICE_QUALIFIER, OTHER_SPEED_CONF, n, sel
  <2>2. Described(hs, q) = IF Dual /\ there THEN [Whole(speed, n + 1) EXCEPT ![2] = OTHER_SPEED_CONF]
                           ELSE <<>>
    BY <1>10 DEF Described, DEVICE, CONFIGURATION, STRING_, DEVICE_QUALIFIER, OTHER_SPEED_CONF, n, speed,
       there
  <2>. QED
    BY <1>1, <1>2, <1>4, <1>10, <2>1, <2>2 DEF Patched
<1>11. CASE typ \notin {DEVICE, STRING_, DEVICE_QUALIFIER, CONFIGURATION, OTHER_SPEED_CONF}
  BY <1>11 DEF Has, Described
<1>. QED
  BY <1>6, <1>7, <1>8, <1>9, <1>10, <1>11

\* The engine serves a standard request.
Asked(q, b) ==
  /\ r.state = "STD_REQUEST" /\ q = host.req /\ q = r.parm /\ q \in Requests
  /\ host.phase \in {"data", "status"} /\ queue = <<>> /\ ~r.stall
  /\ dev2Host(q) => host.phase = "data" /\ host.got = <<>>
  /\ b = belief /\ b \in Beliefs /\ InStep(r, b) /\ (~b.spoiled => Exact(r, b))
  /\ r.hiSpeed \in BOOLEAN /\ r.cfgCurr \in 0 .. numConfigs(r.hiSpeed)
  /\ Configured <=> b.cfg # 0

LEMMA AskedLemma ==
  ASSUME IInv, SettingsInv, Waiting, Believed, ~hurt, r.state = "STD_REQUEST"
  PROVE  Asked(host.req, belief)
<1>1. /\ host.phase \in {"data", "status"} /\ host.req \in Requests /\ Serving /\ r.parm = host.req
      /\ ~r.stall /\ queue = <<>> /\ ~Done /\ ~Failing
  BY ServedByHost
<1>2. Effective = belief
  BY <1>1 DEF Effective
<1>3. dev2Host(host.req) => host.phase = "data" /\ host.got = <<>>
  BY <1>1 DEF Waiting, Reading
<1>4. belief \in Beliefs /\ r.hiSpeed \in BOOLEAN /\ r.cfgCurr \in 0 .. numConfigs(r.hiSpeed)
  BY DEF SettingsInv, Types, Regs, Settings, Link
<1>. QED
  BY <1>1, <1>2, <1>3, <1>4 DEF Asked, Believed, InStep, Configured

\* What the three ends of a standard request have to be.
LEMMA AnswerIs ==
  ASSUME NEW q, NEW b, Asked(q, b), UNCHANGED <<queue, host, belief, hurt>>, DOMAIN r = Registers,
         NEW a, a # Unspecified,
         \/ r' = Stalled(r) /\ a = Refusal
         \/ (\E v : Kept(v) /\ r' = Stalled(v)) /\ a = Refusal
         \/ (\E v : DOMAIN v = Registers /\ v.parm = r.parm /\ v.stall = r.stall /\ r' = Status(v))
              /\ ~dev2Host(q) /\ a # Refusal
         \/ /\ dev2Host(q) /\ a \in Bytes /\ Len(a) <= length(q)
            /\ r'.state \in {"RETURN_VALUE", "READ_DESCRIPTOR"} /\ r'.stall = r.stall /\ r'.out = a
  PROVE  AnsweredBy(a)'
<1>1. CASE a = Refusal /\ \E v : DOMAIN v = Registers /\ r' = Stalled(v)
  <2>1. PICK v : DOMAIN v = Registers /\ r' = Stalled(v)
    BY <1>1
  <2>. PICK w : w = Ready(v)
    OBVIOUS
  <2>2. DOMAIN w = Registers /\ w.state = "GET_PARAMS"
    BY <2>1 DEF Ready, Registers
  <2>3. r'.state = "GET_PARAMS" /\ r'.stall = TRUE
    BY <2>1, <2>2 DEF Stalled, Registers
  <2>. QED
    BY <1>1, <2>3 DEF AnsweredBy, Done, Asked
<1>2. CASE /\ ~dev2Host(q) /\ a # Refusal
           /\ \E v : DOMAIN v = Registers /\ v.parm = r.parm /\ v.stall = r.stall /\ r' = Status(v)
  <2>1. r'.state = "STATUS" /\ r'.stall = r.stall
    BY <1>2 DEF Status, Registers
  <2>. QED
    BY <1>2, <2>1 DEF AnsweredBy, Reading, Asked
<1>3. CASE /\ dev2Host(q) /\ a \in Bytes /\ Len(a) <= length(q)
           /\ r'.state \in {"RETURN_VALUE", "READ_DESCRIPTOR"} /\ r'.stall = r.stall /\ r'.out = a
  <2>1. <<>> \o a = a
    BY <1>3, ConcatEmptySeq DEF Bytes
  <2>. QED
    BY <1>3, <2>1 DEF AnsweredBy, Done, Asked
<1>. QED
  BY <1>1, <1>2, <1>3 DEF Kept, SameControl
-----------------------------------------------------------------------------
(* A request for an interface or an endpoint there is not. *)

\* The settings there are, as the host and as the device sees them.
LEMMA ExistsLemma ==
  ASSUME SettingsInv, NEW q, NEW b, Asked(q, b), NEW i \in Nat, NEW alt
  PROVE  /\ HasSetting(r.hiSpeed, b.cfg, i, alt) => Configured /\ i < r.numIfc /\ alt \in 0 .. MaxAlt
         /\ Configured /\ i < r.numIfc =>
              /\ HasSetting(r.hiSpeed, b.cfg, i, b.alt[i]) /\ r.altSettings[i] = b.alt[i]
              /\ i \in Interfaces /\ i < 128
<1>. DEFINE hs == r.hiSpeed
            n  == r.cfgCurr
<1>1. hs \in BOOLEAN /\ n \in 0 .. numConfigs(hs) /\ numConfigs(hs) \in 0 .. 255 /\ n = b.cfg
      /\ (Configured <=> n # 0)
  BY NumConfigsLemma DEF Asked, InStep
<1>2. ASSUME HasSetting(hs, n, i, alt) PROVE n \in 1 .. numConfigs(hs)
  <2>1. 0 \notin DOMAIN ConfigsOf[hs]
    <3>1. DOMAIN ConfigsOf[hs] = 1 .. numConfigs(hs)
      BY <1>1, ConfigurationsAssumption
    <3>. HIDE DEF hs
    <3>. QED
      BY <1>1, <3>1
  <2>2. DOMAIN Config(hs, 0) = {}
    BY <2>1 DEF Config
  <2>3. n # 0
    BY <1>2, <2>2 DEF HasSetting
  <2>. QED
    BY <1>1, <2>3
<1>3. ASSUME n \in 1 .. numConfigs(hs)
      PROVE  /\ r.numIfc \in 0 .. 128 /\ r.numIfc = NumInterfaces(hs, n)
             /\ \A j \in 0 .. r.numIfc - 1 : j \in Interfaces /\ HasSetting(hs, n, j, r.altSettings[j])
  BY <1>1, <1>3, OnLemma DEF SettingsInv, Selected
<1>4. ASSUME HasSetting(hs, n, i, alt) PROVE Configured /\ i < r.numIfc /\ alt \in 0 .. MaxAlt
  <2>1. n \in 1 .. numConfigs(hs)
    BY <1>2, <1>4
  <2>2. PICK k \in DOMAIN Config(hs, n) :
          LET d == Config(hs, n)[k] IN Typ(d) = 4 /\ At(d, 2) = i /\ At(d, 3) = alt
    BY <1>4 DEF HasSetting
  <2>3. i \in 0 .. NumInterfaces(hs, n) - 1 /\ alt \in 0 .. MaxAlt
    BY <1>1, <2>1, <2>2, InterfacesAssumption
  <2>4. i < r.numIfc
    BY <1>3, <2>1, <2>3
  <2>. QED
    BY <1>1, <2>1, <2>3, <2>4
<1>5. ASSUME Configured, i < r.numIfc
      PROVE  /\ HasSetting(hs, n, i, b.alt[i]) /\ r.altSettings[i] = b.alt[i]
             /\ i \in Interfaces /\ i < 128
  <2>1. n \in 1 .. numConfigs(hs)
    BY <1>1, <1>5
  <2>2. i \in 0 .. r.numIfc - 1
    BY <1>3, <1>5, <2>1
  <2>3. r.altSettings[i] = b.alt[i]
    BY <1>1, <1>5, <2>2 DEF Asked, InStep
  <2>4. i < 128
    BY <1>3, <1>5, <2>1
  <2>. QED
    BY <1>3, <2>1, <2>2, <2>3, <2>4
<1>. QED
  BY <1>1, <1>4, <1>5

LEMMA UsedLemma ==
  ASSUME SettingsInv, NEW q, NEW b, Asked(q, b), NEW e, UsedBy(r.hiSpeed, b, e)
  PROVE  \/ e % 128 = 0
         \/ Configured /\ e \in Endpoints /\ \E y : Uses(r, y) /\ Address(y) = e
<1>1. PICK y : e % 128 = 0 \/ /\ y \in EndpointsOf[r.hiSpeed][belief.cfg] /\ belief.alt[y.ifc] = y.alt
                              /\ Address(y) = e
  BY DEF UsedBy, InUse, Address, Asked
<1>2. CASE /\ y \in EndpointsOf[r.hiSpeed][belief.cfg] /\ belief.alt[y.ifc] = y.alt
           /\ Address(y) = e
  <2>1. Uses(r, y) /\ r.cfgCurr \in 1 .. numConfigs(r.hiSpeed)
    BY <1>2, InUseLemma DEF Asked, SettingsInv
  <2>2. Address(y) \in Endpoints
    BY <2>1, OnLemma DEF Uses, Asked
  <2>3. Configured
    <3>1. r.cfgCurr # 0
      BY <2>1
    <3>. QED
      BY <3>1 DEF Asked, InStep
  <2>. QED
    BY <1>2, <2>1, <2>2, <2>3
<1>. QED
  BY <1>1, <1>2

Told(a) == a = Promised(r.hiSpeed, belief, host.req) /\ a # Unspecified
Quietly == UNCHANGED <<queue, host, belief, hurt>> /\ DOMAIN r = Registers

\* The bytes of the request that is served.
LEMMA AskedBytes ==
  ASSUME NEW q, NEW b, Asked(q, b)
  PROVE  /\ value(q) \in 0 .. 255 /\ index(q) \in 0 .. 255 /\ length(q) \in Nat
         /\ dev2Host(q) <=> length(q) > 0
         /\ Kept(r) \/ DOMAIN r # Registers
<1>1. q \in Requests
  BY DEF Asked
<1>2. value(q) \in 0 .. 255 /\ index(q) \in 0 .. 255 /\ length(q) \in Nat
  BY <1>1, RequestLemma
<1>3. dev2Host(q) <=> length(q) > 0
  BY <1>1, RequestsAssumption
<1>. QED
  BY <1>2, <1>3 DEF Kept, SameControl

LEMMA OtherAnswer ==
  ASSUME SettingsInv, NEW q, NEW b, Asked(q, b), OtherRequest, Quietly, NEW a, Told(a)
  PROVE  AnsweredBy(a)'
<1>1. a = Promised(r.hiSpeed, b, q) /\ a # Unspecified
  BY DEF Told, Asked
<1>. DEFINE All == {GET_STATUS, CLEAR_FEATURE, SET_FEATURE, SET_ADDRESS, GET_DESCRIPTOR,
                    GET_CONFIGURATION, SET_CONFIGURATION, GET_INTERFACE, SET_INTERFACE}
<1>2. ~Std(All) /\ r' = Stalled(r)
  BY DEF OtherRequest, Answer
<1>3. reqType(q) = STANDARD /\ request(q) \in All
  BY <1>1, PromisedElse
<1>4. \/ recipient(q) = IFC /\ ~(index(q) < r.numIfc)
      \/ recipient(q) = EPT /\ ~(index(q) % 16 < NumEndpoints)
  BY <1>2, <1>3 DEF Std, Asked
<1>. HIDE DEF All
<1>5. CASE recipient(q) = IFC /\ ~(index(q) < r.numIfc)
  <2>1. \A alt : ~HasSetting(r.hiSpeed, b.cfg, index(q), alt)
    BY <1>5, AskedBytes, ExistsLemma
  <2>2. request(q) \in {GET_STATUS, CLEAR_FEATURE, SET_FEATURE, GET_INTERFACE, SET_INTERFACE}
    BY <1>3, <1>5, HostAssumption DEF Asked, All, DEV, IFC
  <2>3. ~HasSetting(r.hiSpeed, b.cfg, index(q), b.alt[index(q)])
        /\ ~HasSetting(r.hiSpeed, b.cfg, index(q), value(q))
    BY <2>1
  <2>4. a = Refusal
    <3>1. CASE request(q) = GET_STATUS
      BY <1>1, <1>3, <1>5, <2>3, <3>1, PromisedStatus DEF Else
    <3>2. CASE request(q) \in {CLEAR_FEATURE, SET_FEATURE}
      BY <1>1, <1>3, <1>5, <3>2, PromisedFeature DEF Else, Features, DEV, IFC, EPT
    <3>3. CASE request(q) = GET_INTERFACE
      BY <1>1, <1>3, <2>3, <3>3, PromisedCurrentInterface DEF Else
    <3>4. CASE request(q) = SET_INTERFACE
      BY <1>1, <1>3, <2>3, <3>4, PromisedInterface DEF Else
    <3>. QED
      BY <2>2, <3>1, <3>2, <3>3, <3>4
  <2>. QED
    BY <1>1, <1>2, <2>4, AnswerIs DEF Quietly
<1>6. CASE recipient(q) = EPT /\ ~(index(q) % 16 < NumEndpoints)
  <2>1. epAddr(q) % 128 = index(q) % 16
    <3>1. index(q) \in 0 .. 255
      BY AskedBytes
    <3>2. \A x \in 0 .. 255 : (128 * (x \div 128) + (x % 16)) % 128 = x % 16
      OBVIOUS
    <3>. QED
      BY <3>1, <3>2 DEF epAddr
  <2>2. epAddr(q) % 128 # 0 /\ epAddr(q) \notin Endpoints
    <3>1. NumEndpoints \in 1 .. 16 /\ ~(epAddr(q) % 128 < NumEndpoints)
      BY <1>6, <2>1, EndpointsAssumption
    <3>. QED
      BY <3>1 DEF Endpoints
  <2>3. ~UsedBy(r.hiSpeed, b, epAddr(q))
    BY <2>2, UsedLemma
  <2>4. request(q) \in {GET_STATUS, CLEAR_FEATURE, SET_FEATURE}
    BY <1>3, <1>6, HostAssumption DEF Asked, All, DEV, IFC, EPT
  <2>5. a = Refusal
    <3>1. CASE request(q) = GET_STATUS
      BY <1>1, <1>3, <1>6, <2>3, <3>1, PromisedStatus DEF Else
    <3>2. CASE request(q) \in {CLEAR_FEATURE, SET_FEATURE}
      BY <1>1, <1>3, <1>6, <2>3, <3>2, PromisedFeature DEF Else, Features
    <3>. QED
      BY <2>4, <3>1, <3>2
  <2>. QED
    BY <1>1, <1>2, <2>5, AnswerIs DEF Quietly
<1>. QED
  BY <1>4, <1>5, <1>6
-----------------------------------------------------------------------------
(* The requests that are answered with a value. *)

LEMMA DenyIs ==
  ASSUME NEW q, NEW b, Asked(q, b), Quietly, NEW a, Told(a), a = Refusal,
         r' = Stalled(r) \/ \E v : Kept(v) /\ r' = Stalled(v)
  PROVE  AnsweredBy(a)'
  BY AnswerIs DEF Told, Quietly

LEMMA DoneIs ==
  ASSUME NEW q, NEW b, Asked(q, b), Quietly, NEW a, Told(a), a = <<>>, reqType(q) = STANDARD,
         request(q) \in {CLEAR_FEATURE, SET_FEATURE, SET_ADDRESS, SET_CONFIGURATION, SET_INTERFACE},
         NEW v, DOMAIN v = Registers, v.parm = r.parm, v.stall = r.stall, r' = Status(v)
  PROVE  AnsweredBy(a)'
<1>1. ~dev2Host(q)
  BY HostAssumption DEF Asked
<1>2. a # Refusal
  BY DEF Refusal
<1>. QED
  BY <1>1, <1>2, AnswerIs DEF Told, Quietly

LEMMA ReturnIs ==
  ASSUME NEW q, NEW b, Asked(q, b), Quietly, NEW a, Told(a), a \in Bytes, Len(a) <= length(q),
         dev2Host(q), r' = Return(r, a)
  PROVE  AnsweredBy(a)'
<1>1. r'.state = "RETURN_VALUE" /\ r'.stall = r.stall /\ r'.out = a
  BY DEF Return, Quietly, Registers
<1>. QED
  BY <1>1, AnswerIs DEF Told, Quietly

LEMMA SetAddressAnswer ==
  ASSUME NEW q, NEW b, Asked(q, b), SetAddress, Quietly, NEW a, Told(a)
  PROVE  AnsweredBy(a)'
<1>1. reqType(q) = STANDARD /\ request(q) = SET_ADDRESS /\ r' = Status(r)
  BY DEF SetAddress, Std, Answer, Asked
<1>2. a = Promised(r.hiSpeed, b, q)
  BY DEF Told, Asked
<1>3. a = <<>>
  BY <1>1, <1>2, PromisedAddress
<1>. QED
  BY <1>1, <1>3, DoneIs DEF Quietly

\* A read asks for a byte at least.
LEMMA OneByte ==
  ASSUME NEW q, NEW b, Asked(q, b), reqType(q) = STANDARD,
         request(q) \in {GET_STATUS, GET_DESCRIPTOR, GET_CONFIGURATION, GET_INTERFACE}
  PROVE  dev2Host(q) /\ 1 <= length(q)
<1>1. dev2Host(q) /\ length(q) \in Nat /\ length(q) > 0
  BY AskedBytes, HostAssumption DEF Asked
<1>. QED
  BY <1>1

LEMMA GetConfigurationAnswer ==
  ASSUME NEW q, NEW b, Asked(q, b), GetConfiguration, Quietly, NEW a, Told(a)
  PROVE  AnsweredBy(a)'
<1>1. reqType(q) = STANDARD /\ request(q) = GET_CONFIGURATION /\ r' = Return(r, <<r.cfgCurr>>)
  BY DEF GetConfiguration, Std, Answer, Asked
<1>2. a = Promised(r.hiSpeed, b, q) /\ r.cfgCurr = b.cfg /\ b.cfg \in 0 .. 255
  BY DEF Told, Asked, InStep, Beliefs
<1>3. a = <<b.cfg>>
  BY <1>1, <1>2, PromisedCurrentConfiguration
<1>4. a \in Bytes /\ Len(a) = 1
  BY <1>2, <1>3, BytesLemma
<1>. QED
  BY <1>1, <1>2, <1>3, <1>4, OneByte, ReturnIs

LEMMA GetInterfaceAnswer ==
  ASSUME SettingsInv, NEW q, NEW b, Asked(q, b), GetInterface, Quietly, NEW a, Told(a)
  PROVE  AnsweredBy(a)'
<1>. DEFINE i == index(q)
<1>1. reqType(q) = STANDARD /\ request(q) = GET_INTERFACE /\ recipient(q) = IFC /\ i < r.numIfc
  BY HostAssumption DEF GetInterface, Std, Asked
<1>2. i \in 0 .. 255 /\ i \in Nat /\ a = Promised(r.hiSpeed, b, q)
  <2>1. i \in 0 .. 255
    BY AskedBytes, Zenon
  <2>. HIDE DEF i
  <2>2. a = Promised(r.hiSpeed, b, q)
    BY DEF Told, Asked
  <2>. QED
    BY <2>1, <2>2
<1>3. a = Else(HasSetting(r.hiSpeed, b.cfg, i, b.alt[i]), <<b.alt[i]>>, Refusal)
  BY <1>1, <1>2, PromisedCurrentInterface
<1>. HIDE DEF i
<1>4. r' = IF Configured /\ i % 128 \in Interfaces THEN Return(r, <<r.altSettings[i % 128]>>) ELSE Stalled(r)
  BY DEF GetInterface, Answer, Asked, i
<1>5. CASE Configured
  <2>1. /\ HasSetting(r.hiSpeed, b.cfg, i, b.alt[i]) /\ r.altSettings[i] = b.alt[i]
        /\ i \in Interfaces /\ i < 128
    BY <1>1, <1>2, <1>5, ExistsLemma
  <2>2. i % 128 = i
    <3>1. \A k \in 0 .. 255 : k < 128 => k % 128 = k
      OBVIOUS
    <3>. QED
      BY <1>2, <2>1, <3>1
  <2>3. a = <<b.alt[i]>> /\ r' = Return(r, a)
    BY <1>3, <1>4, <1>5, <2>1, <2>2 DEF Else
  <2>4. b.alt[i] \in 0 .. 255
    BY <2>1 DEF Asked, Beliefs
  <2>5. a \in Bytes /\ Len(a) = 1
    BY <2>3, <2>4, BytesLemma
  <2>. QED
    BY <1>1, <2>3, <2>5, OneByte, ReturnIs
<1>6. CASE ~Configured
  <2>1. ~HasSetting(r.hiSpeed, b.cfg, i, b.alt[i])
    BY <1>2, <1>6, ExistsLemma
  <2>. QED
    BY <1>3, <1>4, <1>6, <2>1, DenyIs DEF Else
<1>. QED
  BY <1>5, <1>6

\* The status has two bytes.
LEMMA StatusIs ==
  ASSUME NEW q, NEW b, Asked(q, b), reqType(q) = STANDARD, request(q) = GET_STATUS,
         Quietly, NEW a, Told(a), NEW k \in 0 .. 255, a = <<k, 0>>, r' = Return(r, a)
  PROVE  AnsweredBy(a)'
<1>1. dev2Host(q) /\ length(q) >= 2 /\ length(q) \in Nat
  BY AskedBytes, HostAssumption DEF Asked
<1>2. a \in Bytes /\ Len(a) = 2
  <2>1. <<k, 0>> \in Bytes
    BY 0 \in 0 .. 255, BytesLemma, Zenon
  <2>. QED
    BY <2>1
<1>. QED
  BY <1>1, <1>2, ReturnIs

\* An endpoint that the host can ask for; the others have number 0.
LEMMA HaltedLemma ==
  ASSUME SettingsInv, NEW q, NEW b, Asked(q, b), ~b.spoiled, recipient(q) = EPT, reqType(q) = STANDARD,
         UsedBy(r.hiSpeed, b, epAddr(q))
  PROVE  Reachable /\ (epAddr(q) \in r.halted <=> epAddr(q) \in b.halted)
<1>. DEFINE e == epAddr(q)
<1>1. index(q) \in 0 .. 255 /\ index(q) % 128 < 16
  BY AskedBytes, HostAssumption DEF Asked
<1>2. e % 128 = index(q) % 16 /\ index(q) % 128 = index(q) % 16
  <2>1. \A x \in 0 .. 255 : (128 * (x \div 128) + (x % 16)) % 128 = x % 16
    OBVIOUS
  <2>2. \A x \in 0 .. 255 : x % 128 < 16 => x % 128 = x % 16
    OBVIOUS
  <2>. QED
    BY <1>1, <2>1, <2>2 DEF epAddr
<1>3. CASE e % 128 = 0
  BY <1>2, <1>3 DEF Asked, InStep, Reachable
<1>4. CASE Configured /\ \E y : Uses(r, y) /\ Address(y) = e
  <2>1. PICK y : Uses(r, y) /\ Address(y) = e
    BY <1>4
  <2>2. y \in EndpointsOf[r.hiSpeed][r.cfgCurr]
    BY <2>1 DEF Uses
  <2>3. e \in r.halted <=> e \in b.halted
    BY <2>1, <2>2 DEF Asked, Exact
  <2>. QED
    BY <1>4, <2>3 DEF Reachable
<1>. QED
  BY <1>3, <1>4, UsedLemma

LEMMA GetStatusAnswer ==
  ASSUME SettingsInv, NEW q, NEW b, Asked(q, b), ~b.spoiled, GetStatus, Quietly, NEW a, Told(a)
  PROVE  AnsweredBy(a)'
<1>1. reqType(q) = STANDARD /\ request(q) = GET_STATUS /\ (recipient(q) = IFC => index(q) < r.numIfc)
  BY DEF GetStatus, Std, Asked
<1>2. a = Promised(r.hiSpeed, b, q) /\ a # Unspecified
  BY DEF Told, Asked
<1>3. index(q) \in 0 .. 255
  BY AskedBytes
<1>4. CASE recipient(q) = DEV
  <2>1. a = <<IF b.wakeup THEN 2 ELSE 0, 0>>
    BY <1>1, <1>2, <1>4, PromisedStatus
  <2>2. r' = Return(r, a)
    BY <1>4, <2>1 DEF GetStatus, Answer, Asked, InStep, DEV, EPT
  <2>3. PICK k \in 0 .. 255 : a = <<k, 0>>
    BY <2>1
  <2>. QED
    BY <1>1, <2>2, <2>3, StatusIs
<1>5. CASE recipient(q) = IFC
  <2>1. a = Else(b.cfg # 0,
                 Else(HasSetting(r.hiSpeed, b.cfg, index(q), b.alt[index(q)]), <<0, 0>>, Refusal),
                 Unspecified)
    BY <1>1, <1>2, <1>5, PromisedStatus
  <2>2. Configured
    BY <1>2, <2>1 DEF Else, Asked
  <2>3. HasSetting(r.hiSpeed, b.cfg, index(q), b.alt[index(q)])
    BY <1>1, <1>3, <1>5, <2>2, ExistsLemma
  <2>4. a = <<0, 0>>
    BY <1>2, <2>1, <2>3 DEF Else
  <2>5. r' = Return(r, <<0, 0>>)
    BY <1>5, <2>2 DEF GetStatus, Answer, Asked, Reachable, DEV, IFC, EPT
  <2>. QED
    BY <1>1, <2>4, <2>5, StatusIs
<1>6. CASE recipient(q) = EPT
  <2>1. a = Else(UsedBy(r.hiSpeed, b, epAddr(q)), <<IF epAddr(q) \in b.halted THEN 1 ELSE 0, 0>>, Unspecified)
    BY <1>1, <1>2, <1>6, PromisedStatus
  <2>2. UsedBy(r.hiSpeed, b, epAddr(q)) /\ a = <<IF epAddr(q) \in b.halted THEN 1 ELSE 0, 0>>
    BY <1>2, <2>1 DEF Else
  <2>3. Reachable /\ (epAddr(q) \in r.halted <=> epAddr(q) \in b.halted)
    BY <1>1, <1>6, <2>2, HaltedLemma
  <2>4. r' = Return(r, <<IF epAddr(q) \in r.halted THEN 1 ELSE 0, 0>>)
    BY <1>6, <2>3 DEF GetStatus, Answer, Asked, DEV, IFC, EPT
  <2>5. PICK k \in 0 .. 255 : a = <<k, 0>>
    BY <2>2
  <2>. QED
    BY <1>1, <2>2, <2>3, <2>4, <2>5, StatusIs
<1>7. CASE recipient(q) \notin {DEV, IFC, EPT}
  BY <1>1, <1>2, <1>7, PromisedStatus
<1>. QED
  BY <1>4, <1>5, <1>6, <1>7
-----------------------------------------------------------------------------
(* Features, configurations, settings and descriptors. *)

LEMMA EndpointNumber ==
  ASSUME NEW q, NEW b, Asked(q, b), reqType(q) = STANDARD, recipient(q) = EPT
  PROVE  epAddr(q) % 128 = index(q) % 128
<1>1. index(q) \in 0 .. 255 /\ index(q) % 128 < 16
  BY AskedBytes, HostAssumption DEF Asked
<1>2. \A x \in 0 .. 255 : x % 128 < 16 => (128 * (x \div 128) + (x % 16)) % 128 = x % 128
  OBVIOUS
<1>. QED
  BY <1>1, <1>2 DEF epAddr

LEMMA FeatureAnswer ==
  ASSUME SettingsInv, NEW q, NEW b, Asked(q, b), Feature, Quietly, NEW a, Told(a)
  PROVE  AnsweredBy(a)'
<1>. DEFINE set   == request(q) = SET_FEATURE
            e     == epAddr(q)
            awake == [r EXCEPT !.remWakeup = set]
            halt  == [r EXCEPT !.halted = @ \cup {e}]
            clear == [r EXCEPT !.halted = @ \ {e}]
            bit   == (At(Table, r.cfgIdx + 7) \div 32) % 2 = 1
<1>1. q = r.parm /\ reqType(q) = STANDARD /\ request(q) \in Features /\ a # Unspecified
  BY DEF Feature, Std, Asked, Features, Told
<1>2. value(q) = IF recipient(q) = DEV THEN 1 ELSE 0
  BY <1>1, HostAssumption DEF Features, Asked
<1>3. a = Promised(r.hiSpeed, b, q)
  BY DEF Told, Asked
<1>4. \A v \in {awake, halt, clear} : DOMAIN v = Registers /\ v.parm = r.parm /\ v.stall = r.stall
  BY DEF Quietly, Registers
<1>. HIDE DEF awake, halt, clear
<1>5. ASSUME NEW v \in {awake, halt, clear}, r' = Status(v), a = <<>> PROVE AnsweredBy(a)'
  BY <1>1, <1>4, <1>5, DoneIs DEF Features
<1>6. CASE recipient(q) = DEV
  <2>1. a = Else(b.cfg # 0,
                 Else((At(Config(r.hiSpeed, b.cfg)[1], 7) \div 32) % 2 = 1, <<>>, Refusal), Unspecified)
    BY <1>1, <1>3, <1>6, PromisedFeature
  <2>2. b.cfg # 0 /\ a = Else((At(Config(r.hiSpeed, b.cfg)[1], 7) \div 32) % 2 = 1, <<>>, Refusal)
    BY <1>1, <2>1 DEF Else
  <2>3. At(Config(r.hiSpeed, b.cfg)[1], 7) = At(Table, r.cfgIdx + 7)
    <3>1. r.cfgCurr = b.cfg /\ r.cfgCurr \in 0 .. numConfigs(r.hiSpeed) /\ r.hiSpeed \in BOOLEAN
      BY DEF Asked, InStep
    <3>2. r.cfgCurr \in 1 .. numConfigs(r.hiSpeed)
      BY <2>2, <3>1, NumConfigsLemma
    <3>3. r.cfgIdx = ConfigAt(r.hiSpeed, r.cfgCurr)
      BY <2>2, <3>1 DEF SettingsInv, Selected
    <3>. QED
      BY <3>1, <3>2, <3>3, ConfigurationsAssumption
  <2>4. a = Else(bit, <<>>, Refusal)
    BY <2>2, <2>3
  <2>5. r' = IF bit THEN Status(awake) ELSE Stalled(r)
    <3>1. value(q) % 4 = 1
      BY <1>2, <1>6
    <3>. QED
      BY <1>1, <1>6, <3>1 DEF Feature, Answer, DEV, EPT, awake
  <2>. QED
    BY <1>5, <2>4, <2>5, DenyIs DEF Else
<1>7. CASE recipient(q) = EPT
  <2>1. a = Else(e % 128 # 0 /\ (b.cfg = 0 \/ UsedBy(r.hiSpeed, b, e)),
                 Else(b.cfg # 0, <<>>, Refusal), Unspecified)
    BY <1>1, <1>3, <1>7, PromisedFeature
  <2>2. e % 128 # 0 /\ a = Else(b.cfg # 0, <<>>, Refusal)
    BY <1>1, <2>1 DEF Else
  <2>3. Reachable <=> b.cfg # 0
    <3>1. index(q) % 128 # 0
      BY <1>1, <1>7, <2>2, EndpointNumber
    <3>. QED
      BY <1>1, <3>1 DEF Reachable, Asked
  <2>4. value(q) % 4 = 0
    BY <1>2, <1>7 DEF DEV, EPT
  <2>5. r' = IF b.cfg # 0 THEN IF set THEN Status(halt) ELSE Status(clear) ELSE Stalled(r)
    BY <1>1, <1>7, <2>2, <2>3, <2>4 DEF Feature, Answer, DEV, EPT, halt, clear
  <2>. QED
    BY <1>5, <2>2, <2>5, DenyIs DEF Else
<1>8. CASE recipient(q) \notin {DEV, EPT}
  BY <1>1, <1>3, <1>8, PromisedFeature
<1>. QED
  BY <1>6, <1>7, <1>8

LEMMA SetConfigurationAnswer ==
  ASSUME SettingsInv, NEW q, NEW b, Asked(q, b), SetConfiguration, Quietly, NEW a, Told(a)
  PROVE  AnsweredBy(a)'
<1>1. q = r.parm /\ reqType(q) = STANDARD /\ request(q) = SET_CONFIGURATION
  BY DEF SetConfiguration, Std, Asked
<1>. DEFINE n == value(q)
            hs == r.hiSpeed
<1>2. a = Promised(hs, b, q)
  BY DEF Told, Asked
<1>3. a = Else(n = 0 \/ Config(hs, n) # <<>>, <<>>, Refusal)
  BY <1>1, <1>2, PromisedConfiguration
<1>4. /\ n \in 0 .. 255 /\ hs \in BOOLEAN /\ numConfigs(hs) \in 0 .. 255
      /\ DOMAIN ConfigsOf[hs] = 1 .. numConfigs(hs)
  BY AskedBytes, NumConfigsLemma, ConfigurationsAssumption DEF Asked
<1>5. PICK v : /\ Kept(v)
               /\ \/ n = 0 /\ r' = Status(v)
                  \/ n > numConfigs(hs) /\ r' = Stalled(v)
                  \/ n \in 1 .. numConfigs(hs) /\ r' = Status(v)
  BY <1>1, ConfigurationLemma DEF SettingsInv
<1>6. DOMAIN v = Registers /\ v.parm = r.parm /\ v.stall = r.stall
  BY <1>5 DEF Kept, SameControl
<1>. HIDE DEF n, hs
<1>7. CASE n = 0 /\ r' = Status(v)
  BY <1>1, <1>3, <1>6, <1>7, DoneIs DEF Else
<1>8. CASE n > numConfigs(hs) /\ r' = Stalled(v)
  <2>1. n \notin DOMAIN ConfigsOf[hs] /\ n # 0
    <3>1. \A x, m \in 0 .. 255 : x > m => x \notin 1 .. m /\ x # 0
      OBVIOUS
    <3>2. n \notin 1 .. numConfigs(hs) /\ n # 0
      BY <1>4, <1>8, <3>1
    <3>. QED
      BY <1>4, <3>2
  <2>2. Config(hs, n) = <<>>
    BY <2>1 DEF Config
  <2>. QED
    BY <1>3, <1>5, <1>8, <2>1, <2>2, DenyIs DEF Else
<1>9. CASE n \in 1 .. numConfigs(hs) /\ r' = Status(v)
  <2>1. Config(hs, n) # <<>>
    BY <1>4, <1>9, ConfigurationsAssumption
  <2>. QED
    BY <1>1, <1>3, <1>6, <1>9, <2>1, DoneIs DEF Else
<1>. QED
  BY <1>5, <1>7, <1>8, <1>9

LEMMA SetInterfaceAnswer ==
  ASSUME SettingsInv, NEW q, NEW b, Asked(q, b), SetInterface, Quietly, NEW a, Told(a)
  PROVE  AnsweredBy(a)'
<1>1. q = r.parm /\ reqType(q) = STANDARD /\ request(q) = SET_INTERFACE
  BY DEF SetInterface, Std, Asked
<1>. DEFINE i   == index(q)
            alt == value(q)
            hs  == r.hiSpeed
<1>2. a = Promised(hs, b, q) /\ b.cfg = r.cfgCurr
  BY DEF Told, Asked, InStep
<1>3. a = Else(HasSetting(hs, b.cfg, i, alt), <<>>, Refusal)
  BY <1>1, <1>2, PromisedInterface
<1>4. /\ i \in Nat /\ alt \in 0 .. 255
      /\ HasSetting(hs, b.cfg, i, alt) => Configured /\ i < r.numIfc /\ alt \in 0 .. MaxAlt
  <2>1. i \in 0 .. 255 /\ alt \in 0 .. 255
    BY AskedBytes
  <2>. HIDE DEF i, alt
  <2>2. i \in Nat
    BY <2>1
  <2>3. HasSetting(hs, b.cfg, i, alt) => Configured /\ i < r.numIfc /\ alt \in 0 .. MaxAlt
    BY <2>2, ExistsLemma
  <2>. QED
    BY <2>1, <2>2, <2>3
<1>5. r.numIfc \in Nat \/ ~Configured
  <2>1. ASSUME Configured PROVE r.numIfc = NumInterfaces(hs, r.cfgCurr) /\ r.cfgCurr \in 1 .. numConfigs(hs)
    <3>1. r.cfgCurr # 0 /\ r.cfgCurr \in 0 .. numConfigs(hs) /\ numConfigs(hs) \in 0 .. 255
      BY <2>1, NumConfigsLemma DEF SettingsInv, Selected, Asked
    <3>. QED
      BY <3>1 DEF SettingsInv, Selected
  <2>2. \A n \in 1 .. numConfigs(hs) : NumInterfaces(hs, n) \in 0 .. 128
    BY OnLemma DEF Asked
  <2>. HIDE DEF hs
  <2>. QED
    BY <2>1, <2>2
<1>6. \/ r' = Stalled(r) /\ (~Configured \/ i >= r.numIfc \/ alt > MaxAlt)
      \/ \E v : /\ Kept(v)
                /\ \/ ~HasSetting(hs, b.cfg, i, alt) /\ r' = Stalled(v)
                   \/ HasSetting(hs, b.cfg, i, alt) /\ r' = Status(v)
  BY <1>1, <1>2, InterfaceLemma DEF SettingsInv, Switches
<1>7. CASE r' = Stalled(r) /\ (~Configured \/ i >= r.numIfc \/ alt > MaxAlt)
  <2>1. ~HasSetting(hs, b.cfg, i, alt)
    <3>. HIDE DEF i, alt, hs
    <3>. QED
      BY <1>4, <1>5, <1>7, TableAssumption
  <2>. QED
    BY <1>3, <1>7, <2>1, DenyIs DEF Else
<1>8. CASE \E v : /\ Kept(v)
                  /\ \/ ~HasSetting(hs, b.cfg, i, alt) /\ r' = Stalled(v)
                     \/ HasSetting(hs, b.cfg, i, alt) /\ r' = Status(v)
  <2>1. PICK v : /\ Kept(v)
                 /\ \/ ~HasSetting(hs, b.cfg, i, alt) /\ r' = Stalled(v)
                    \/ HasSetting(hs, b.cfg, i, alt) /\ r' = Status(v)
    BY <1>8
  <2>2. DOMAIN v = Registers /\ v.parm = r.parm /\ v.stall = r.stall
    BY <2>1 DEF Kept, SameControl
  <2>3. CASE ~HasSetting(hs, b.cfg, i, alt) /\ r' = Stalled(v)
    BY <1>3, <2>1, <2>3, DenyIs DEF Else
  <2>4. CASE HasSetting(hs, b.cfg, i, alt) /\ r' = Status(v)
    BY <1>1, <1>3, <2>2, <2>4, DoneIs DEF Else
  <2>. QED
    BY <2>1, <2>3, <2>4
<1>. QED
  BY <1>6, <1>7, <1>8

LEMMA GetDescriptorAnswer ==
  ASSUME SettingsInv, NEW q, NEW b, Asked(q, b), GetDescriptor, Quietly, NEW a, Told(a)
  PROVE  AnsweredBy(a)'
<1>1. q = r.parm /\ q \in Requests /\ reqType(q) = STANDARD /\ request(q) = GET_DESCRIPTOR
      /\ r.hiSpeed \in BOOLEAN
  BY DEF GetDescriptor, Std, Asked
<1>. DEFINE d    == Source(r.hiSpeed, q)
            has  == Has(r.hiSpeed, q)
            desc == Described(r.hiSpeed, q)
            text == Patched(q, d)
            n    == Least(length(q), Len(d))
<1>2. a = Promised(r.hiSpeed, b, q)
  BY DEF Told, Asked
<1>3. a = Else(desc # <<>>, SubSeq(desc, 1, Least(length(q), Len(desc))), Refusal)
  BY <1>1, <1>2, PromisedDescriptor
<1>4. desc = IF has THEN text ELSE <<>>
  BY <1>1, DescribedLemma
<1>5. IF has THEN /\ d \in Bytes /\ Len(text) = Len(d) /\ text \in Bytes /\ n \in 0 .. Len(d)
                  /\ \E match : r' = [r EXCEPT !.state = "READ_DESCRIPTOR",
                                               !.out = SubSeq(text, 1, n), !.sizeMatch = match]
      ELSE r' = Stalled(r)
  BY <1>1, ReadLemma, Zenon DEF SettingsInv
<1>6. has => d # <<>>
  <2>1. q \in Bytes /\ Len(q) = 8
    BY <1>1, RequestLemma
  <2>2. has => Found(DescriptorIdx(r.hiSpeed, q), d)
    BY <1>1, <2>1, DescriptorLemma
  <2>. QED
    BY <2>2 DEF Found
<1>7. length(q) \in Nat
  BY <1>1, RequestLemma
<1>. HIDE DEF d, has, desc, text
<1>8. CASE has
  <2>1. text # <<>>
    BY <1>5, <1>6, <1>8, EmptySeq DEF Bytes
  <2>2. a = SubSeq(text, 1, n)
    BY <1>3, <1>4, <1>5, <1>8, <2>1 DEF Else
  <2>. HIDE DEF n
  <2>3. n \in 0 .. Len(text) /\ text \in Bytes
    BY <1>5, <1>8
  <2>4. a \in Bytes /\ Len(a) = n
    BY <2>2, <2>3, SliceLemma
  <2>5. n <= length(q)
    <3>1. Len(d) \in Nat
      BY <1>5, <1>8, LenProperties DEF Bytes
    <3>. QED
      BY <1>7, <3>1 DEF n, Least
  <2>6. r'.state = "READ_DESCRIPTOR" /\ r'.stall = r.stall /\ r'.out = a
    BY <1>5, <1>8, <2>2 DEF Quietly, Registers
  <2>7. dev2Host(q)
    BY <1>1, OneByte
  <2>. QED
    BY <2>4, <2>5, <2>6, <2>7, AnswerIs DEF Told, Quietly
<1>9. CASE ~has
  <2>1. a = Refusal /\ r' = Stalled(r)
    BY <1>3, <1>4, <1>5, <1>9 DEF Else
  <2>. QED
    BY <2>1, DenyIs
<1>. QED
  BY <1>8, <1>9
-----------------------------------------------------------------------------
(* The answer, as the engine and the agents go on. *)

LEMMA SpeedLemma ==
  ASSUME SettingsInv, Standard
  PROVE  r'.hiSpeed = r.hiSpeed
<1>1. Types /\ Selected /\ DOMAIN r = Registers
  BY DEF SettingsInv, Types, Regs, Control
<1>2. ASSUME NEW v, DOMAIN v = Registers, v.hiSpeed = r.hiSpeed, r' = Status(v) \/ r' = Stalled(v)
      PROVE  r'.hiSpeed = r.hiSpeed
  <2>1. SameSettings(r', v)
    BY <1>2, EndsLemma
  <2>. QED
    BY <1>2, <2>1, SameLemma
<1>3. CASE Feature
  <2>. DEFINE e   == epAddr(r.parm)
              set == request(r.parm) = SET_FEATURE
              a   == [r EXCEPT !.remWakeup = set]
              b   == [r EXCEPT !.halted = @ \cup {e}]
              c   == [r EXCEPT !.halted = @ \ {e}]
  <2>1. r' = Status(a) \/ r' = Status(b) \/ r' = Status(c) \/ r' = Stalled(r)
    BY <1>3 DEF Feature, Answer
  <2>2. /\ DOMAIN a = Registers /\ DOMAIN b = Registers /\ DOMAIN c = Registers
        /\ a.hiSpeed = r.hiSpeed /\ b.hiSpeed = r.hiSpeed /\ c.hiSpeed = r.hiSpeed
    BY <1>1 DEF Registers
  <2>. HIDE DEF a, b, c
  <2>. QED
    BY <1>1, <1>2, <2>1, <2>2
<1>4. CASE SetConfiguration
  <2>1. PICK v : Kept(v) /\ (r' = Status(v) \/ r' = Stalled(v))
    BY <1>1, <1>4, ConfigurationLemma, Zenon
  <2>. QED
    BY <1>2, <2>1 DEF Kept, SameControl
<1>5. CASE SetInterface
  <2>1. r' = Stalled(r) \/ \E v : Kept(v) /\ (r' = Status(v) \/ r' = Stalled(v))
    BY <1>1, <1>5, InterfaceLemma, Zenon DEF Switches
  <2>. QED
    BY <1>1, <1>2, <2>1 DEF Kept, SameControl
<1>. QED
  BY <1>1, <1>3, <1>4, <1>5, QuietEngine, SameLemma DEF Standard

LEMMA AnsweredStandard ==
  ASSUME IInv, SettingsInv, Waiting, Believed, ~hurt, Standard
  PROVE  Answered'
<1>1. /\ r.state = "STD_REQUEST" /\ UNCHANGED <<queue, host, belief, hurt>> /\ r'.hiSpeed = r.hiSpeed
  BY StandardLemma, SpeedLemma
<1>2. DOMAIN r = Registers /\ Quietly
  BY <1>1 DEF IInv, Shape, Quietly
<1>3. Asked(host.req, belief)
  BY <1>1, AskedLemma
<1>. SUFFICES ASSUME ~belief.spoiled, NEW a, Told(a) PROVE AnsweredBy(a)'
  BY <1>1 DEF Answered, Told
<1>. QED
  BY <1>2, <1>3, OtherAnswer, SetAddressAnswer, GetConfigurationAnswer, GetInterfaceAnswer, GetStatusAnswer,
     FeatureAnswer, SetConfigurationAnswer, SetInterfaceAnswer, GetDescriptorAnswer DEF Standard

\* The answer is as it was.
LEMMA SameAnswer ==
  ASSUME Answered, UNCHANGED belief, r'.hiSpeed = r.hiSpeed, host'.req = host.req,
         host'.phase \in {"data", "status", "acking"} => host.phase \in {"data", "status", "acking"},
         \A a : AnsweredBy(a) => AnsweredBy(a)'
  PROVE  Answered'
<1>. SUFFICES ASSUME ~belief.spoiled, host'.phase \in {"data", "status", "acking"},
                     NEW a, a = Promised(r.hiSpeed, belief, host.req), a # Unspecified
              PROVE  AnsweredBy(a)'
  BY DEF Answered
<1>. QED
  BY DEF Answered

LEMMA AnsweredEngine ==
  ASSUME IInv, SettingsInv, Waiting, Believed, Answered, ~hurt, EngineNext
  PROVE  Answered'
<1>1. CASE Standard
  BY <1>1, AnsweredStandard
<1>2. CASE LoseByte
  BY <1>2, NotLost
<1>3. CASE TakeSetup
  <2>1. /\ host.phase \in {"data", "status"} /\ UNCHANGED <<host, belief>>
        /\ r'.state = "WAIT_EXT" /\ ~r'.stall
    BY <1>3, TakenLemma
  <2>2. \A a : AnsweredBy(a)'
    BY <2>1 DEF AnsweredBy, Done
  <2>3. r'.hiSpeed = r.hiSpeed
    BY <1>3, QuietEngine, SameLemma DEF SettingsInv
  <2>. QED
    BY <2>1, <2>2, <2>3, SameAnswer
<1>4. CASE StatusOut
  <2>1. /\ host.phase \in {"idle", "setup", "data", "status"} /\ UNCHANGED <<host, belief>>
        /\ r'.state = "GET_PARAMS" /\ r'.stall = r.stall
    BY <1>4, EndedLemma
  <2>2. \A a : AnsweredBy(a) => AnsweredBy(a)'
    BY <2>1 DEF AnsweredBy, Done
  <2>3. r'.hiSpeed = r.hiSpeed
    BY <1>4, QuietEngine, SameLemma DEF SettingsInv
  <2>. QED
    BY <2>1, <2>2, <2>3, SameAnswer
<1>. QED
  BY <1>1, <1>2, <1>3, <1>4 DEF EngineNext, Standard

LEMMA AnsweredAgents ==
  ASSUME IInv, SettingsInv, Waiting, Answered, ~hurt, AgentNext
  PROVE  Answered'
<1>1. r'.hiSpeed = r.hiSpeed
  BY QuietHost, SameLemma DEF SettingsInv
<1>2. ASSUME reqType(host.req) # STANDARD, host'.req = host.req PROVE Answered'
  BY <1>2, PromisedElse DEF Answered
<1>3. CASE AgentSends
  <2>1. r.state = "WAIT_EXT_DONE" /\ \E got : host' = [host EXCEPT !.phase = "status", !.got = got]
    BY <1>3 DEF AgentSends
  <2>2. reqType(host.req) # STANDARD
    BY <2>1, ServingLemma DEF Waiting, Serving
  <2>3. host'.req = host.req
    BY <2>1 DEF IInv, Shape
  <2>. QED
    BY <1>2, <2>2, <2>3
<1>4. CASE AgentRefuses \/ AgentAccepts \/ AgentDone
  <2>1. /\ r.state \in {"WAIT_EXT", "WAIT_EXT_DONE"} /\ UNCHANGED <<queue, host, belief, hurt>>
        /\ \/ r.state = "WAIT_EXT" /\ r'.state = "STD_REQUEST" /\ r'.stall = r.stall
           \/ r.state = "WAIT_EXT" => reqType(r.parm) # STANDARD
    BY <1>4, AgentLemma
  <2>2. host.phase \in {"data", "status"} /\ Serving
    BY <2>1, ServingLemma
  <2>3. CASE reqType(r.parm) # STANDARD
    BY <1>2, <2>1, <2>2, <2>3 DEF Serving
  <2>4. CASE r'.state = "STD_REQUEST" /\ r'.stall = r.stall
    <3>1. \A a : AnsweredBy(a)'
      BY <2>1, <2>2, <2>4 DEF AnsweredBy, Done, Serving
    <3>. QED
      BY <1>1, <2>1, <3>1, SameAnswer
  <2>. QED
    BY <2>1, <2>3, <2>4 DEF Waiting
<1>. QED
  BY <1>3, <1>4 DEF AgentNext
-----------------------------------------------------------------------------
(* The answer, as the host goes on. *)

LEMMA JoinLemma ==
  ASSUME NEW s \in Bytes, NEW t \in Bytes, NEW u \in Bytes
  PROVE  (s \o t) \o u = s \o (t \o u)
<1>. DEFINE S == 0 .. 255
<1>1. s \in Seq(S) /\ t \in Seq(S) /\ u \in Seq(S)
  BY DEF Bytes
<1>. HIDE DEF S
<1>. QED
  BY <1>1, ConcatAssociative

\* What has been sent is the beginning.
LEMMA PrefixLemma ==
  ASSUME NEW s \in Bytes, NEW t \in Bytes
  PROVE  Prefix(s, s \o t)
<1>. PICK c : c = s \o t
  OBVIOUS
<1>1. /\ s \in Seq(0 .. 255) /\ t \in Seq(0 .. 255) /\ Len(s) \in Nat /\ Len(t) \in Nat
  BY LenProperties DEF Bytes
<1>2. /\ c \in Seq(0 .. 255) /\ Len(c) = Len(s) + Len(t)
      /\ \A k \in 1 .. Len(s) + Len(t) : c[k] = IF k <= Len(s) THEN s[k] ELSE t[k - Len(s)]
  BY <1>1, ConcatProperties
<1>3. Len(s) \in 0 .. Len(c) /\ c \in Bytes
  BY <1>1, <1>2 DEF Bytes
<1>4. /\ SubSeq(c, 1, Len(s)) \in Bytes /\ Len(SubSeq(c, 1, Len(s))) = Len(s)
      /\ \A k \in 1 .. Len(s) : SubSeq(c, 1, Len(s))[k] = c[k]
  BY <1>3, SliceLemma
<1>5. \A k \in 1 .. Len(s) : c[k] = s[k]
  BY <1>1, <1>2
<1>6. s = SubSeq(c, 1, Len(s))
  <2>1. \A k \in 1 .. Len(s) : s[k] = SubSeq(c, 1, Len(s))[k]
    BY <1>4, <1>5
  <2>. QED
    BY <1>1, <1>4, <2>1, SeqEqual DEF Bytes
<1>. QED
  BY <1>1, <1>2, <1>6 DEF Prefix

\* A packet is taken off the front of what is still to be sent.
LEMMA AnsweredIn ==
  ASSUME IInv, SettingsInv, Waiting, Answered, ~hurt, HostIn
  PROVE  Answered'
<1>. DEFINE n     == Least(maxPktSize, Len(r.out))
            bytes == SubSeq(r.out, 1, n)
            rest  == SubSeq(r.out, n + 1, Len(r.out))
            got   == host.got \o bytes
<1>1. /\ host.phase = "data" /\ ~r.stall /\ r.state \in {"READ_DESCRIPTOR", "RETURN_VALUE"}
      /\ UNCHANGED <<queue, belief, hurt>>
  BY DEF HostIn
<1>2. Serving /\ dev2Host(host.req) /\ Reading /\ DOMAIN r = Registers /\ length(host.req) \in Nat
  BY <1>1, ServingLemma, RequestLemma DEF Waiting, Reading, IInv, Shape
<1>3. /\ r.out \in Bytes /\ bytes \in Bytes /\ rest \in Bytes /\ bytes \o rest = r.out
      /\ host.got \in Bytes
  BY DataLemma DEF SettingsInv, Types, Link
<1>4. n \in Nat /\ Len(r.out) \in Nat /\ Len(rest) = Len(r.out) - n
  <2>1. n \in 0 .. Len(r.out) /\ Len(r.out) \in Nat
    BY DataLemma DEF SettingsInv
  <2>. HIDE DEF n
  <2>2. Len(rest) = Len(r.out) - n
    BY <1>3, <2>1, SliceLemma
  <2>. QED
    BY <2>1, <2>2
<1>. HIDE DEF n, bytes, rest
<1>5. got \in Bytes /\ Len(got) \in Nat /\ got \o rest = host.got \o r.out
  <2>1. got \in Seq(0 .. 255)
    BY <1>3, ConcatProperties DEF Bytes
  <2>. PICK g : g = host.got
    OBVIOUS
  <2>2. (g \o bytes) \o rest = g \o (bytes \o rest)
    BY <1>3, JoinLemma
  <2>. QED
    BY <1>3, <2>1, <2>2, LenProperties DEF Bytes
<1>6. \/ /\ r' = [r EXCEPT !.out = rest]
         /\ host' = [host EXCEPT !.got = got, !.phase = IF Len(got) = length(host.req) THEN "status" ELSE @]
      \/ /\ n = Len(r.out) /\ r' = [r EXCEPT !.out = <<>>]
         /\ \E phase \in {"data", "status"} : host' = [host EXCEPT !.got = got, !.phase = phase]
      \/ /\ n = Len(r.out) /\ r' = Status(r)
         /\ \E phase \in {"data", "status"} :
              \/ host' = [host EXCEPT !.got = got, !.phase = phase]
              \/ host' = [[host EXCEPT !.got = got, !.phase = phase] EXCEPT !.phase = "data", !.open = TRUE]
              \/ host' = [[host EXCEPT !.got = got, !.phase = phase] EXCEPT !.phase = "status"]
  BY <1>1 DEF HostIn, Sent, n, bytes, rest
<1>. HIDE DEF got
<1>7. /\ host'.got = got /\ host'.req = host.req
      /\ host'.phase \in {"data", "status"} /\ host'.cut = host.cut
  BY <1>1, <1>6 DEF IInv, Shape
<1>8. n = Len(r.out) => rest = <<>>
  BY <1>3, <1>4, EmptySeq DEF Bytes
<1>9. r'.stall = r.stall /\ r'.parm = r.parm /\ (r'.state = r.state \/ r'.state = "STATUS")
  BY <1>2, <1>6 DEF Status, Registers
<1>10. r'.state = r.state =>
         r'.out = rest /\ (rest = <<>> \/ host'.phase = "data" \/ Len(got) = length(host.req))
  <2>1. Status(r).state = "STATUS"
    BY <1>2 DEF Status, Registers
  <2>. QED
    BY <1>1, <1>2, <1>6, <1>7, <1>8, <2>1 DEF Registers, IInv, Shape
<1>11. r'.state = "STATUS" => rest = <<>>
  BY <1>1, <1>2, <1>6, <1>8 DEF Registers
<1>12. ASSUME NEW a, AnsweredBy(a) PROVE AnsweredBy(a)'
  <2>1. a \in Bytes /\ Len(a) <= length(host.req) /\ got \o rest = a
    BY <1>1, <1>2, <1>5, <1>12 DEF AnsweredBy
  <2>2. rest = <<>> => got = a
    BY <1>5, <2>1, ConcatEmptySeq DEF Bytes
  <2>3. Len(got) = length(host.req) => rest = <<>>
    <3>1. Len(a) = Len(got) + Len(rest) /\ Len(rest) \in Nat
      BY <1>3, <1>5, <2>1, ConcatProperties, LenProperties DEF Bytes
    <3>2. Len(got) = length(host.req) => Len(rest) = 0
      BY <1>2, <1>5, <2>1, <3>1
    <3>. QED
      BY <1>3, <3>2, EmptySeq DEF Bytes
  <2>4. ~r'.stall /\ ~Done'
    BY <1>1, <1>2, <1>7, <1>9 DEF Done
  <2>5. CASE r'.state = "STATUS"
    BY <1>7, <1>11, <2>2, <2>4, <2>5 DEF AnsweredBy
  <2>6. CASE r'.state = r.state
    BY <1>1, <1>7, <1>10, <2>1, <2>3, <2>4, <2>6 DEF AnsweredBy
  <2>. QED
    BY <1>9, <2>5, <2>6
<1>13. r'.hiSpeed = r.hiSpeed
  BY QuietHost, SameLemma DEF SettingsInv
<1>. QED
  BY <1>1, <1>7, <1>12, <1>13, SameAnswer

LEMMA AnsweredForeign ==
  ASSUME IInv, SettingsInv, Waiting, Answered, ~hurt, ~hurt', ForeignToken
  PROVE  Answered'
<1>1. /\ UNCHANGED <<queue, host, belief>> /\ host.phase # "data"
      /\ r' = TokOutSeen(r) \/ r' = [r EXCEPT !.vld = FALSE]
  BY DEF ForeignToken
<1>2. DOMAIN r = Registers
  BY DEF IInv, Shape
<1>3. r'.hiSpeed = r.hiSpeed
  BY QuietHost, SameLemma DEF SettingsInv
<1>4. r'.stall = r.stall /\ r'.parm = r.parm
  BY <1>1, <1>2, TokOutLemma DEF Registers
<1>5. CASE r'.state = r.state /\ r'.out = r.out
  <2>1. \A a : AnsweredBy(a) => AnsweredBy(a)'
    BY <1>1, <1>4, <1>5 DEF AnsweredBy, Reading, Done, Serving
  <2>. QED
    BY <1>1, <1>3, <2>1, SameAnswer
<1>6. CASE r.state = "WAIT_EXT_DONE"
  <2>1. reqType(host.req) # STANDARD
    BY <1>6, ServingLemma DEF Waiting, Serving
  <2>. QED
    BY <1>1, <2>1, PromisedElse DEF Answered
<1>7. CASE r.state = "READ_DESCRIPTOR" /\ r'.state = "STATUS"
  <2>1. host.phase = "status" /\ Serving /\ dev2Host(host.req) /\ Reading
    BY <1>1, <1>7, ServingLemma DEF Waiting, Serving, Reading
  <2>2. ASSUME NEW a, AnsweredBy(a) PROVE AnsweredBy(a)'
    <3>1. a \in Bytes /\ host.got \o r.out = a /\ (host.phase = "status" /\ ~host.cut => r.out = <<>>)
      BY <1>7, <2>1, <2>2 DEF AnsweredBy
    <3>2. host.got \in Bytes /\ r.out \in Bytes
      BY DEF SettingsInv, Types, Regs, Control, Link
    <3>3. r.out = <<>> => host.got = a
      BY <3>1, <3>2, ConcatEmptySeq DEF Bytes
    <3>4. Prefix(host.got, a)
      BY <3>1, <3>2, PrefixLemma
    <3>5. ~r'.stall /\ ~Done'
      BY <1>1, <1>4, <2>1 DEF Done, Serving
    <3>. QED
      BY <1>1, <1>7, <2>1, <3>1, <3>3, <3>4, <3>5 DEF AnsweredBy
  <2>. QED
    BY <1>1, <1>3, <2>2, SameAnswer
<1>. QED
  <2>1. r' = [r EXCEPT !.vld = FALSE] => r'.state = r.state /\ r'.out = r.out
    BY <1>2 DEF Registers
  <2>. QED
    BY <1>1, <1>5, <1>6, <1>7, <2>1, TokOutLemma

LEMMA AnsweredHost ==
  ASSUME IInv, SettingsInv, Waiting, Answered, ~hurt,
         HostSetupData \/ HostStops \/ HostStatusIn
  PROVE  Answered'
<1>1. CASE HostSetupData
  <2>1. /\ host.phase = "setup" /\ ~r.stall /\ UNCHANGED <<r, belief>> /\ queue' = Append(queue, host.req)
        /\ host' = [host EXCEPT !.phase = IF dev2Host(host.req) THEN "data" ELSE "status"]
    BY <1>1 DEF HostSetupData
  <2>2. host'.phase \in {"data", "status"}
    BY <2>1 DEF IInv, Shape
  <2>3. queue' # <<>>
    BY <1>1, QueuedLemma DEF SettingsInv
  <2>4. \A a : AnsweredBy(a)'
    BY <2>1, <2>2, <2>3 DEF AnsweredBy, Reading, Done, Serving
  <2>. QED
    BY <2>4 DEF Answered
<1>2. CASE HostStops
  <2>1. /\ host.phase = "data" /\ UNCHANGED <<r, queue, belief>> /\ dev2Host(host.req)
        /\ host' = [host EXCEPT !.phase = "status", !.cut = TRUE]
    BY <1>2 DEF HostStops, Waiting
  <2>2. host'.phase = "status" /\ host'.req = host.req /\ host'.got = host.got
    BY <2>1 DEF IInv, Shape
  <2>3. host'.cut = TRUE
    BY <1>2, <2>1 DEF HostStops, IInv, Shape
  <2>4. \A a : AnsweredBy(a) => AnsweredBy(a)'
    BY <2>1, <2>2, <2>3 DEF AnsweredBy, Reading, Done, Serving
  <2>. QED
    BY <2>1, <2>2, <2>4, SameAnswer
<1>3. CASE HostStatusIn
  <2>1. /\ host.phase = "status" /\ ~dev2Host(host.req) /\ ~r.stall /\ r.state = "STATUS"
        /\ ~dev2Host(r.parm) /\ UNCHANGED <<queue, belief, hurt>> /\ host' = [host EXCEPT !.phase = "acking"]
    BY <1>3 DEF HostStatusIn
  <2>2. Done
    BY <2>1 DEF IInv, Lockstep, Delivering, Refused, AtRest, Done
  <2>3. host'.phase = "acking" /\ host'.req = host.req
    BY <2>1 DEF IInv, Shape
  <2>4. r'.hiSpeed = r.hiSpeed
    <3>1. r' = Ready(r) \/ \E a, s : r' = [Ready(r) EXCEPT !.devAddr = a, !.devState = s]
      BY <1>3 DEF HostStatusIn
    <3>. PICK w : w = Ready(r)
      OBVIOUS
    <3>2. DOMAIN w = Registers /\ SameSettings(w, r)
      BY EndsLemma, ReadyLemma DEF IInv, Shape, Same
    <3>3. w.hiSpeed = r.hiSpeed
      BY <3>2, SameLemma
    <3>. QED
      BY <3>1, <3>2, <3>3 DEF Registers
  <2>5. \A a : AnsweredBy(a) => AnsweredBy(a)'
    BY <2>1, <2>2, <2>3 DEF AnsweredBy, Reading
  <2>. QED
    BY <2>1, <2>3, <2>4, <2>5, SameAnswer
<1>. QED
  BY <1>1, <1>2, <1>3
-----------------------------------------------------------------------------
(* All of it. *)

\* After these steps there is no transfer.
LEMMA AnsweredEnds ==
  ASSUME IInv,
         \/ HostSetup \/ HostAcks \/ HostStalled \/ HostAbandons \/ BusReset
         \/ HostStatusOut /\ ~hurt
  PROVE  Answered'
<1>1. host'.phase \in {"setup", "idle"} => Answered'
  BY DEF Answered
<1>2. CASE HostSetup
  <2>1. \E q : host' = [host EXCEPT !.phase = "setup", !.req = q]
    BY <1>2 DEF HostSetup
  <2>2. host'.phase = "setup"
    BY <2>1 DEF IInv, Shape
  <2>. QED
    BY <1>1, <2>2
<1>3. CASE HostAcks \/ HostStalled \/ HostAbandons \/ BusReset
  <2>1. \E a : host' = Idle(a)
    BY <1>3 DEF HostAcks, HostStalled, HostAbandons, BusReset
  <2>. QED
    BY <1>1, <2>1 DEF Idle
<1>4. CASE HostStatusOut /\ ~hurt
  <2>. DEFINE v     == TokOutSeen(r)
              taken == v.state = "STATUS" /\ dev2Host(v.parm)
  <2>1. /\ host.phase = "status" /\ dev2Host(host.req)
        /\ v # r \/ taken
        /\ host' = IF taken THEN Idle(host.addr) ELSE host
    BY <1>4 DEF HostStatusOut
  <2>2. r.state # "GET_PARAMS"
    <3>1. v = r => r.state = "STATUS"
      BY <2>1
    <3>. QED
      BY <3>1, TokOutLemma
  <2>3. Serving
    BY <1>4, <2>1, <2>2 DEF IInv, Lockstep, Delivering, Refused, AtRest
  <2>4. v.parm = r.parm /\ v.state = "STATUS"
    BY <2>1, TokOutLemma
  <2>5. host' = Idle(host.addr)
    BY <2>1, <2>3, <2>4 DEF Serving
  <2>. QED
    BY <1>1, <2>5 DEF Idle
<1>. QED
  BY <1>2, <1>3, <1>4

LEMMA AnsweredStep ==
  ASSUME IInv, SettingsInv, Waiting, ~hurt => Believed /\ Answered, [Next]_vars
  PROVE  ~hurt' => Answered'
<1>. SUFFICES ASSUME ~hurt' PROVE Answered'
  OBVIOUS
<1>1. CASE BusReset
  BY <1>1, AnsweredEnds
<1>2. CASE ~BusReset
  <2>1. CASE UNCHANGED vars
    <3>1. Answered' <=> Answered
      BY <2>1 DEF vars, Answered, AnsweredBy, Reading, Done, Serving
    <3>. QED
      BY <2>1, <3>1 DEF vars
  <2>2. ASSUME Next PROVE ~hurt
    BY <1>2, <2>2, HurtLemma
  <2>3. CASE EngineNext
    BY <2>2, <2>3, AnsweredEngine DEF Next
  <2>4. CASE AgentNext
    BY <2>2, <2>4, AnsweredAgents DEF Next
  <2>5. CASE HostNext \/ HostSetup \/ HostStops \/ ForeignToken \/ HostAbandons
    <3>1. ~hurt
      BY <2>2, <2>5 DEF Next
    <3>. QED
      BY <2>5, <3>1, AnsweredEnds, AnsweredHost, AnsweredIn, AnsweredForeign DEF HostNext
  <2>. QED
    BY <1>2, <2>1, <2>3, <2>4, <2>5 DEF Next
<1>. QED
  BY <1>1, <1>2

AllKnown == IInv /\ SettingsInv /\ HostInv

\* A transfer that nothing disturbs is answered as the descriptors and the earlier
\* requests of the host make it expect, whatever the descriptors are.
THEOREM AnswersHolds == Spec => []Answers
<1>1. Init => AllKnown
  <2>1. Init => Answered
    BY DEF Init, Idle, Answered
  <2>. QED
    BY <2>1, InitLemma, SettingsInit, BelievedInit DEF AllKnown, HostInv
<1>2. AllKnown /\ [Next]_vars => AllKnown'
  <2>. SUFFICES ASSUME AllKnown, [Next]_vars PROVE AllKnown'
    OBVIOUS
  <2>1. IInv /\ SettingsInv /\ Waiting /\ (~hurt => Believed) /\ (~hurt => Answered)
    BY DEF AllKnown, HostInv
  <2>2. IInv' /\ SettingsInv' /\ Waiting' /\ (~hurt' => Believed')
    BY <2>1, StepLemma, SettingsStep, WaitingStep, BelievedStep
  <2>3. ~hurt' => Answered'
    BY <2>1, AnsweredStep
  <2>. QED
    BY <2>2, <2>3 DEF AllKnown, HostInv
<1>3. AllKnown => Answers
  <2>. SUFFICES ASSUME AllKnown, ~hurt, ~belief.spoiled, host.phase \notin {"idle", "setup"},
                       NEW a, a = Promised(r.hiSpeed, belief, host.req), a # Unspecified
                PROVE  LET n == Len(host.got)
                           Read == IF host.cut THEN n <= Len(a) /\ host.got = SubSeq(a, 1, n)
                                   ELSE host.got = a
                       IN  IF r.stall THEN a = Refusal
                           ELSE CASE host.phase = "acking" -> a # Refusal
                                  [] host.phase = "status" /\ dev2Host(host.req) -> Read
                                  [] OTHER -> TRUE
    BY DEF Answers
  <2>1. IInv /\ SettingsInv /\ Waiting /\ host.phase \in {"data", "status", "acking"}
    BY DEF AllKnown, HostInv, IInv, Shape
  <2>2. AnsweredBy(a)
    BY <2>1 DEF AllKnown, HostInv, Answered
  <2>3. r.stall => a = Refusal
    BY <2>1, <2>2 DEF AnsweredBy, Waiting
  <2>4. host.phase = "acking" => a # Refusal
    BY <2>2 DEF AnsweredBy, Done
  <2>5. ASSUME host.phase = "status", dev2Host(host.req), ~r.stall
        PROVE  IF host.cut THEN Prefix(host.got, a) ELSE host.got = a
    <3>1. Serving /\ Reading
      BY <2>1, <2>5 DEF IInv, Lockstep, Delivering, Refused, Reading
    <3>2. r.state \in {"READ_DESCRIPTOR", "RETURN_VALUE", "STATUS"}
      <4>1. r.state # "GET_PARAMS" /\ r.state \in States
        BY <2>1, <3>1 DEF Serving, SettingsInv, Types, Regs, Control
      <4>2. r.state \notin {"WAIT_EXT", "STD_REQUEST"}
        BY <2>1, <2>5, <3>1 DEF Waiting
      <4>3. r.state # "WAIT_EXT_DONE"
        BY <2>1, <3>1, PromisedElse DEF Waiting, Serving
      <4>. QED
        BY <4>1, <4>2, <4>3 DEF States
    <3>3. host.got \in Bytes /\ r.out \in Bytes
      BY <2>1 DEF SettingsInv, Types, Regs, Control, Link
    <3>4. /\ host.got \o <<>> = host.got /\ Prefix(host.got, host.got \o <<>>)
          /\ Prefix(host.got, host.got \o r.out)
      BY <3>3, PrefixLemma, ConcatEmptySeq, BytesLemma DEF Bytes
    <3>5. CASE r.state = "STATUS"
      BY <2>2, <3>1, <3>4, <3>5 DEF AnsweredBy
    <3>6. CASE r.state \in {"READ_DESCRIPTOR", "RETURN_VALUE"}
      BY <2>2, <2>5, <3>1, <3>4, <3>6 DEF AnsweredBy
    <3>. QED
      BY <3>2, <3>5, <3>6
  <2>. QED
    BY <2>3, <2>4, <2>5 DEF Prefix
<1>. QED
  BY <1>1, <1>2, <1>3, PTL DEF Spec
=============================================================================
