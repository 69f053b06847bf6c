-------------------------- MODULE StdCtlEpProofs --------------------------
(***************************************************************************)
(* Theorems about StdCtlEp, for every table of descriptors that the        *)
(* assumptions of StdCtlInv describe, every set of requests and any        *)
(* number of faults: types; an agent always knows when a request is over;  *)
(* and no SETUP is rejected or lost after an undisturbed transfer.         *)
(*                                                                         *)
(* In this order: the transfer, as the engine and the host go through it   *)
(* (IInv); the types of the registers and the settings (SettingsInv); and  *)
(* the steps, as far as the transfer goes.  StdCtlAnswersProofs goes on.   *)
(***************************************************************************)
EXTENDS StdCtlInv, SequenceTheorems, TLAPS

(* Helpers. *)

\* A SETUP packet, taken whole by an engine that has no byte yet.
LEMMA SetupLemma ==
  ASSUME NEW q \in Requests
  PROVE  /\ q \in Seq(0 .. 255) /\ Len(q) = 8 /\ q # <<>>
         /\ <<>> \o SubSeq(q, 1, 8) = q
         /\ SubSeq(q, 9, 8) = <<>>
<1>1. q \in [1 .. 8 -> 0 .. 255]
  BY RequestsAssumption
<1>2. q \in Seq(0 .. 255)
  <2>1. Seq(0 .. 255) = UNION {[1 .. n -> 0 .. 255] : n \in Nat}
    BY SeqDef
  <2>2. [1 .. 8 -> 0 .. 255] \in {[1 .. n -> 0 .. 255] : n \in Nat}
    OBVIOUS
  <2>. QED
    BY <1>1, <2>1, <2>2
<1>3. Len(q) = 8
  <2>1. Len(q) \in Nat /\ DOMAIN q = 1 .. Len(q)
    BY <1>2, LenProperties
  <2>2. \A k \in Int : k \in 1 .. Len(q) <=> k \in 1 .. 8
    BY <1>1, <2>1
  <2>3. 8 <= Len(q) /\ ~(9 <= Len(q))
    BY <2>1, <2>2
  <2>. QED
    BY <2>1, <2>3
<1>4. SubSeq(q, 1, 8) = q /\ SubSeq(q, 9, 8) = <<>>
  <2>1. SubSeq(q, 1, Len(q)) = q
    BY <1>2, SubSeqFull
  <2>2. SubSeq(q, 9, 8) = <<>>
    BY SubSeqEmpty
  <2>. QED
    BY <1>3, <2>1, <2>2
<1>5. q # <<>>
  <2>1. Len(<<>>) = 0
    BY EmptySeq
  <2>. QED
    BY <1>3, <2>1
<1>6. <<>> \o q = q
  BY <1>2, ConcatEmptySeq
<1>. QED
  BY <1>2, <1>3, <1>4, <1>5, <1>6

LEMMA TailLemma ==
  ASSUME NEW a, NEW b
  PROVE  /\ Head(<<a>>) = a /\ Tail(<<a>>) = <<>>
         /\ Head(<<a, b>>) = a /\ Tail(<<a, b>>) = <<b>>
  OBVIOUS

LEMMA AppendLemma ==
  ASSUME NEW a, NEW b
  PROVE  Append(<<>>, b) = <<b>> /\ Append(<<a>>, b) = <<a, b>>
<1>1. Append(<<a>>, b) = <<a, b>>
  <2>. DEFINE s == Append(<<a>>, b)
  <2>1. <<a>> \in Seq({a, b}) /\ Len(<<a>>) = 1 /\ <<a>>[1] = a
    OBVIOUS
  <2>2. s \in Seq({a, b}) /\ Len(s) = 2 /\ s[1] = a /\ s[2] = b
    BY <2>1, AppendProperties
  <2>3. <<a, b>> \in Seq({a, b}) /\ Len(<<a, b>>) = 2 /\ <<a, b>>[1] = a /\ <<a, b>>[2] = b
    OBVIOUS
  <2>. HIDE DEF s
  <2>4. \A i \in 1 .. 2 : s[i] = <<a, b>>[i]
    BY <2>2, <2>3
  <2>5. s = <<a, b>>
    BY <2>2, <2>3, <2>4, SeqEqual
  <2>. QED
    BY <2>5 DEF s
<1>2. Append(<<>>, b) = <<b>>
  BY EmptySeq
<1>. QED
  BY <1>1, <1>2

\* An address that the host sets fits in seven bits.
LEMMA AddressLemma ==
  ASSUME NEW q \in Requests, request(q) = SET_ADDRESS
  PROVE  reqType(q) = STANDARD /\ value(q) % 128 = value(q)
  BY RequestsAssumption, AddressAssumption DEF value

\* Registers that no request changes before it is answered.
Same(v) ==
  DOMAIN v = DOMAIN r /\ \A f \in {"state", "parm", "vld", "stall", "devAddr"} : v[f] = r[f]

LEMMA ReadyLemma ==
  ASSUME Shape, NEW v, Same(v)
  PROVE  /\ DOMAIN Ready(v) = Registers
         /\ Ready(v).state = "GET_PARAMS" /\ Ready(v).parm = <<>>
         /\ Ready(v).stall = r.stall /\ Ready(v).vld = r.vld /\ Ready(v).devAddr = r.devAddr
  BY DEF Ready, Same, Shape, Registers
-----------------------------------------------------------------------------
(* The answer to a standard request: the engine goes on or refuses. *)

GoesOn ==
  /\ DOMAIN r' = DOMAIN r /\ r'.state # "GET_PARAMS"
  /\ \A f \in {"parm", "vld", "stall", "devAddr"} : r'[f] = r[f]

LEMMA AnswerLemma ==
  ASSUME IInv, r.state = "STD_REQUEST", UNCHANGED <<queue, host, belief, faults, hurt>>,
         GoesOn \/ \E v : Same(v) /\ r' = Stalled(v)
  PROVE  IInv'
<1>1. ~r.vld
  BY DEF IInv, AgentKnows
<1>2. ~hurt => host.phase \in {"data", "status"} /\ Serving /\ host.addr \in {0, r.devAddr}
  BY DEF IInv, Shape, Lockstep, AtRest, Ending, Delivering, Serving, Refused, Addressed
<1>3. CASE GoesOn
  <2>1. Shape' /\ AgentKnows'
    BY <1>1, <1>3 DEF IInv, Shape, AgentKnows, GoesOn
  <2>2. ASSUME ~hurt PROVE Lockstep'
    BY <1>2, <1>3, <2>2 DEF GoesOn, Lockstep, Serving, Addressed
  <2>. QED
    BY <2>1, <2>2 DEF IInv
<1>4. ASSUME NEW v, Same(v), r' = Stalled(v) PROVE IInv'
  <2>1. /\ DOMAIN r' = Registers /\ r'.state = "GET_PARAMS" /\ r'.parm = <<>>
        /\ r'.stall /\ r'.vld = r.vld /\ r'.devAddr = r.devAddr
    BY <1>4, ReadyLemma DEF Stalled, IInv, Registers
  <2>2. Shape' /\ AgentKnows'
    BY <1>1, <2>1 DEF IInv, Shape, AgentKnows
  <2>3. ASSUME ~hurt PROVE Lockstep'
    BY <1>2, <2>1, <2>3 DEF Lockstep, Serving, Refused, AtRest, Addressed
  <2>. QED
    BY <2>2, <2>3 DEF IInv
<1>. QED
  BY <1>3, <1>4

\* Registers that are written before the answer.
LEMMA StatusGoesOn ==
  ASSUME Shape, NEW v, Same(v), r' = Status(v)
  PROVE  GoesOn
  BY DEF Shape, Registers, Same, Status, GoesOn

LEMMA ReturnGoesOn ==
  ASSUME Shape, NEW b, r' = Return(r, b)
  PROVE  GoesOn
  BY DEF Shape, Registers, Return, GoesOn

LEMMA LoadEptsSame ==
  ASSUME Shape, NEW v, Same(v), NEW epts
  PROVE  Same(LoadEpts(v, epts))
  BY DEF Shape, Registers, Same, LoadEpts

LEMMA FeatureStep == ASSUME IInv, Feature PROVE IInv'
<1>1. r.state = "STD_REQUEST" /\ UNCHANGED <<queue, host, belief, faults, hurt>>
  BY DEF Feature, Std, Answer
<1>2. PICK v : Same(v) /\ (r' = Status(v) \/ r' = Stalled(v))
  <2>. DEFINE e == epAddr(r.parm)
              set == request(r.parm) = SET_FEATURE
  <2>1. \/ r' = Status([r EXCEPT !.remWakeup = set])
        \/ r' = Status([r EXCEPT !.halted = @ \cup {e}])
        \/ r' = Status([r EXCEPT !.halted = @ \ {e}])
        \/ r' = Stalled(r)
    BY DEF Feature, Answer
  <2>2. Same(r) /\ Same([r EXCEPT !.remWakeup = set])
    BY DEF Same, IInv, Shape, Registers
  <2>3. Same([r EXCEPT !.halted = @ \cup {e}]) /\ Same([r EXCEPT !.halted = @ \ {e}])
    BY DEF Same, IInv, Shape, Registers
  <2>. QED
    BY <2>1, <2>2, <2>3
<1>. QED
  BY <1>1, <1>2, AnswerLemma, StatusGoesOn DEF IInv

LEMMA GetStep ==
  ASSUME IInv, GetConfiguration \/ GetInterface \/ GetStatus \/ SetAddress \/ OtherRequest
  PROVE  IInv'
<1>1. r.state = "STD_REQUEST" /\ UNCHANGED <<queue, host, belief, faults, hurt>>
  BY DEF GetConfiguration, GetInterface, GetStatus, SetAddress, OtherRequest, Std, Answer
<1>2. (\E b : r' = Return(r, b)) \/ r' = Status(r) \/ r' = Stalled(r)
  BY DEF GetConfiguration, GetInterface, GetStatus, SetAddress, OtherRequest, Answer
<1>3. Same(r)
  BY DEF Same
<1>. QED
  BY <1>1, <1>2, <1>3, AnswerLemma, StatusGoesOn, ReturnGoesOn DEF IInv

LEMMA SetConfigurationStep == ASSUME IInv, SetConfiguration PROVE IInv'
<1>. DEFINE n   == value(r.parm)
            idx == selCfgIdxTbl(r.hiSpeed)[n + 1]
            off == Unload(r)
            set == LoadConfiguration(off, n, idx)
            unset == [off EXCEPT !.devState = "ADDRESS", !.cfgCurr = 0]
            done  == [set EXCEPT !.devState = "CONFIGURED"]
<1>1. r.state = "STD_REQUEST" /\ UNCHANGED <<queue, host, belief, faults, hurt>>
  BY DEF SetConfiguration, Std, Answer
<1>2. r' = Status(unset) \/ r' = Stalled(off) \/ r' = Stalled(set) \/ r' = Status(done)
  BY DEF SetConfiguration, Answer
<1>3. Same(off)
  BY DEF Same, IInv, Shape, Registers, Unload
<1>4. Same(unset)
  BY <1>3 DEF Same, IInv, Shape, Registers
<1>5. Same(set)
  <2>1. Same(LoadEpts(off, ConfigLoads[idx].epts))
    BY <1>3, LoadEptsSame DEF IInv
  <2>. QED
    BY <2>1 DEF Same, IInv, Shape, Registers, LoadConfiguration
<1>6. Same(done)
  BY <1>5 DEF Same, IInv, Shape, Registers
<1>. QED
  BY <1>1, <1>2, <1>3, <1>4, <1>5, <1>6, AnswerLemma, StatusGoesOn DEF IInv

LEMMA SetInterfaceStep == ASSUME IInv, SetInterface PROVE IInv'
<1>. DEFINE ifc  == index(r.parm)
            alt  == value(r.parm)
            load == AltLoads[<<r.cfgIdx, ifc, alt>>]
            off  == DeactIfc(r, ifc)
            set  == LoadEpts(off, load.epts)
            done == [set EXCEPT !.altSettings[ifc] = alt]
<1>1. r.state = "STD_REQUEST" /\ UNCHANGED <<queue, host, belief, faults, hurt>>
  BY DEF SetInterface, Std, Answer
<1>2. r' = Stalled(r) \/ r' = Stalled(set) \/ r' = Status(done)
  BY DEF SetInterface, Answer
<1>3. Same(r) /\ Same(off)
  BY DEF Same, IInv, Shape, Registers, DeactIfc
<1>4. Same(set)
  BY <1>3, LoadEptsSame DEF IInv
<1>5. Same(done)
  BY <1>4 DEF Same, IInv, Shape, Registers
<1>. QED
  BY <1>1, <1>2, <1>3, <1>4, <1>5, AnswerLemma, StatusGoesOn DEF IInv

LEMMA GetDescriptorStep == ASSUME IInv, GetDescriptor PROVE IInv'
<1>1. r.state = "STD_REQUEST" /\ UNCHANGED <<queue, host, belief, faults, hurt>>
  BY DEF GetDescriptor, Std, Answer
<1>2. \/ r' = Stalled(r)
      \/ \E out, match : r' = [r EXCEPT !.state = "READ_DESCRIPTOR", !.out = out, !.sizeMatch = match]
  BY DEF GetDescriptor, Answer
<1>3. CASE r' = Stalled(r)
  BY <1>1, <1>3, AnswerLemma DEF Same
<1>4. CASE r' # Stalled(r)
  BY <1>1, <1>2, <1>4, AnswerLemma DEF IInv, Shape, Registers, GoesOn
<1>. QED
  BY <1>3, <1>4
-----------------------------------------------------------------------------
(* The engine takes or loses what the packet engine delivers. *)

LEMMA TakeSetupStep == ASSUME IInv, TakeSetup PROVE IInv'
<1>. DEFINE full  == [r EXCEPT !.parm = host.req, !.stall = FALSE, !.state = "WAIT_EXT", !.vld = TRUE]
<1>1. UNCHANGED <<host, hurt>> /\ r.state = "GET_PARAMS" /\ queue # <<>> /\ Head(queue) # <<>>
  BY DEF TakeSetup
<1>2. \E parm : \/ r' = [r EXCEPT !.parm = parm, !.stall = FALSE, !.state = "WAIT_EXT", !.vld = TRUE]
                \/ r' = [r EXCEPT !.parm = parm, !.stall = FALSE]
  BY DEF TakeSetup
<1>3. Shape' /\ AgentKnows'
  BY <1>1, <1>2 DEF IInv, Shape, Registers, AgentKnows
<1>4. ASSUME ~hurt PROVE Lockstep'
  <2>1. /\ host.phase \in {"data", "status"} /\ host.req \in Requests
        /\ queue = <<host.req>> /\ r.parm = <<>> /\ host.addr \in {0, r.devAddr}
    BY <1>1, <1>4 DEF IInv, Shape, Lockstep, AtRest, Ending, Delivering, Serving, Refused, Addressed
  <2>2. Head(queue) = host.req /\ Tail(queue) = <<>> /\ Len(r.parm) = 0
    BY <2>1, TailLemma, EmptySeq
  <2>3. r' = full /\ queue' = <<>>
    <3>1. 8 - Len(r.parm) = 8 /\ Len(Head(queue)) = 8
      BY <2>1, <2>2, SetupLemma
    <3>2. r.parm \o SubSeq(Head(queue), 1, 8) = host.req
      BY <2>1, <2>2, SetupLemma
    <3>3. SubSeq(Head(queue), 8 + 1, 8) = <<>>
      BY <2>1, <2>2, SetupLemma
    <3>4. Len(host.req) = 8
      BY <2>1, SetupLemma
    <3>. QED
      BY <2>2, <3>1, <3>2, <3>3, <3>4 DEF TakeSetup, Least
  <2>. QED
    BY <1>1, <2>1, <2>3 DEF IInv, Shape, Registers, Lockstep, Serving, Addressed
<1>. QED
  BY <1>1, <1>3, <1>4 DEF IInv

\* Nothing is lost unless a transfer was disturbed.
LEMMA LoseByteStep == ASSUME IInv, LoseByte PROVE IInv'
<1>1. hurt
  BY DEF LoseByte, IInv, Shape, Lockstep, AtRest, Ending, Delivering, Serving, Refused
<1>. QED
  BY <1>1 DEF LoseByte, IInv, Shape, AgentKnows

LEMMA StatusOutStep == ASSUME IInv, StatusOut PROVE IInv'
<1>1. UNCHANGED <<host, hurt>> /\ queue # <<>> /\ Head(queue) = <<>> /\ queue' = Tail(queue)
  BY DEF StatusOut
<1>2. r' = IF r.state = "STATUS" /\ dev2Host(r.parm) THEN Ready(r) ELSE r
  BY DEF StatusOut
<1>3. /\ DOMAIN Ready(r) = Registers /\ Ready(r).state = "GET_PARAMS" /\ Ready(r).parm = <<>>
      /\ Ready(r).stall = r.stall /\ Ready(r).vld = r.vld /\ Ready(r).devAddr = r.devAddr
  BY ReadyLemma DEF IInv, Same
<1>4. Shape' /\ AgentKnows'
  BY <1>1, <1>2, <1>3 DEF IInv, Shape, AgentKnows
<1>5. ASSUME ~hurt PROVE Lockstep'
  <2>1. host.phase \in {"idle", "setup"} => Ending
    BY <1>1, <1>5 DEF IInv, Lockstep, AtRest
  <2>2. host.phase # "acking"
    BY <1>1, <1>5 DEF IInv, Lockstep, AtRest
  <2>3. ASSUME host.phase \in {"data", "status"}
        PROVE  Delivering /\ queue = << <<>>, host.req >> /\ r.state = "STATUS" /\ dev2Host(r.parm)
    <3>1. host.req # <<>>
      BY <2>3, SetupLemma DEF IInv, Shape
    <3>. QED
      BY <1>1, <1>5, <2>3, <3>1 DEF IInv, Lockstep, AtRest, Delivering, Serving, Refused
  <2>4. CASE host.phase \in {"idle", "setup"}
    <3>1. queue' = <<>> /\ r.state = "STATUS" /\ dev2Host(r.parm)
      BY <1>1, <2>1, <2>4, TailLemma DEF Ending
    <3>. QED
      BY <1>1, <1>2, <1>3, <1>5, <2>4, <3>1 DEF IInv, Lockstep, AtRest, Addressed
  <2>5. CASE host.phase \in {"data", "status"}
    <3>1. queue = << <<>>, host.req >>
      BY <2>3, <2>5
    <3>2. Tail(<< <<>>, host.req >>) = <<host.req>>
      BY TailLemma
    <3>3. queue' = <<host.req>>
      BY <1>1, <3>1, <3>2
    <3>. QED
      BY <1>1, <1>2, <1>3, <1>5, <2>3, <2>5, <3>3 DEF IInv, Lockstep, Delivering, Addressed
  <2>. QED
    BY <2>2, <2>4, <2>5 DEF IInv, Shape
<1>. QED
  BY <1>1, <1>4, <1>5 DEF IInv
-----------------------------------------------------------------------------
(* The agents. *)

\* In any of these states the host waits for the request that is served.
LEMMA ServingLemma ==
  ASSUME IInv, ~hurt,
         r.state \in {"WAIT_EXT", "WAIT_EXT_DONE", "READ_DESCRIPTOR", "RETURN_VALUE"}
  PROVE  host.phase \in {"data", "status"} /\ Serving /\ host.addr \in {0, r.devAddr}
  BY DEF IInv, Shape, Lockstep, AtRest, Ending, Delivering, Serving, Refused, Addressed

\* The engine goes on with the request, the agents may have been told that it is over.
LEMMA ProgressLemma ==
  ASSUME IInv, UNCHANGED <<queue, hurt>>, ~hurt => Serving,
         ~hurt => host.phase \in {"data", "status"} /\ host.addr \in {0, r.devAddr},
         DOMAIN r' = Registers, r'.state # "GET_PARAMS",
         r'.parm = r.parm, r'.stall = r.stall, r'.devAddr = r.devAddr, AgentKnows',
         DOMAIN host' = DOMAIN host, host'.phase \in {"data", "status"},
         host.phase # "idle", host'.req = host.req, host'.addr = host.addr
  PROVE  IInv'
<1>1. Shape'
  BY DEF IInv, Shape
<1>2. ASSUME ~hurt PROVE Lockstep'
  BY <1>2 DEF Lockstep, Serving, Addressed
<1>. QED
  BY <1>1, <1>2 DEF IInv

LEMMA AgentStepLemma ==
  ASSUME IInv, r.state \in {"WAIT_EXT", "WAIT_EXT_DONE"}, UNCHANGED <<queue, host, hurt>>,
         DOMAIN r' = Registers, r'.parm = r.parm, r'.stall = r.stall, r'.devAddr = r.devAddr,
         r'.state # "GET_PARAMS", AgentKnows'
  PROVE  IInv'
<1>1. Shape'
  BY DEF IInv, Shape
<1>2. ASSUME ~hurt PROVE Lockstep'
  BY <1>2, ServingLemma DEF Lockstep, Serving, Addressed
<1>. QED
  BY <1>1, <1>2 DEF IInv

LEMMA AgentTakesStep == ASSUME IInv, AgentRefuses \/ AgentAccepts PROVE IInv'
<1>1. r.state = "WAIT_EXT" /\ UNCHANGED <<queue, host, hurt>>
  BY DEF AgentRefuses, AgentAccepts, AgentStep
<1>2. \/ r' = [r EXCEPT !.state = "STD_REQUEST", !.vld = FALSE]
      \/ r' = [r EXCEPT !.state = "WAIT_EXT_DONE"]
      \/ r' = [Status(r) EXCEPT !.vld = FALSE]
  BY DEF AgentRefuses, AgentAccepts, AgentStep
<1>. QED
  BY <1>1, <1>2, AgentStepLemma, ZenonT(60) DEF IInv, Shape, Registers, AgentKnows, Status

LEMMA AgentSendsStep == ASSUME IInv, AgentSends PROVE IInv'
<1>1. r.state = "WAIT_EXT_DONE" /\ UNCHANGED <<r, queue, hurt>> /\ host.phase = "data"
  BY DEF AgentSends
<1>2. /\ DOMAIN host' = DOMAIN host /\ host'.phase = "status"
      /\ host'.req = host.req /\ host'.addr = host.addr
  BY DEF AgentSends, IInv, Shape
<1>. QED
  BY <1>1, <1>2, ServingLemma, ProgressLemma DEF IInv, Shape, AgentKnows, Serving

LEMMA AgentDoneStep == ASSUME IInv, AgentDone PROVE IInv'
<1>1. r.state = "WAIT_EXT_DONE" /\ UNCHANGED <<queue, host, hurt>>
  BY DEF AgentDone, AgentStep
<1>2. CASE r' = [Status(r) EXCEPT !.vld = FALSE]
  BY <1>1, <1>2, AgentStepLemma DEF IInv, Shape, Registers, AgentKnows, Status
<1>3. CASE r' = [Stalled(r) EXCEPT !.vld = FALSE]
  <2>1. /\ DOMAIN r' = Registers /\ r'.state = "GET_PARAMS" /\ r'.parm = <<>>
        /\ r'.stall /\ ~r'.vld /\ r'.devAddr = r.devAddr
    BY <1>3, ReadyLemma DEF Stalled, Same, IInv, Registers
  <2>2. ASSUME ~hurt PROVE Lockstep'
    BY <1>1, <2>1, <2>2, ServingLemma DEF Lockstep, Serving, Refused, AtRest, Addressed
  <2>. QED
    BY <1>1, <2>1, <2>2 DEF IInv, Shape, AgentKnows
<1>. QED
  BY <1>2, <1>3 DEF AgentDone, AgentStep
-----------------------------------------------------------------------------
(* The host. *)

LEMMA HostSetupStep == ASSUME IInv, HostSetup PROVE IInv'
<1>1. host.phase = "idle" /\ host.addr \in {0, r.devAddr} /\ UNCHANGED <<queue, hurt>>
  BY DEF HostSetup
<1>2. PICK q \in Requests : host' = [host EXCEPT !.phase = "setup", !.req = q]
  BY LateAssumption DEF HostSetup
<1>3. /\ DOMAIN host' = DOMAIN host /\ host'.phase = "setup" /\ host'.req \in Requests
      /\ host'.got = host.got /\ host'.addr = host.addr
  BY <1>2 DEF IInv, Shape
<1>4. /\ DOMAIN r' = Registers /\ ~r'.vld /\ ~r'.stall
      /\ r'.state = r.state /\ r'.parm = r.parm /\ r'.devAddr = r.devAddr
  BY <1>1 DEF HostSetup, SetupToken, IInv, Shape, Registers
<1>5. ASSUME ~hurt PROVE Lockstep'
  BY <1>1, <1>3, <1>4, <1>5 DEF IInv, Lockstep, AtRest, Ending, Addressed
<1>. QED
  BY <1>1, <1>3, <1>4, <1>5 DEF IInv, Shape, AgentKnows

LEMMA HostSetupDataStep == ASSUME IInv, HostSetupData PROVE IInv'
<1>1. host.phase = "setup" /\ ~r.stall /\ UNCHANGED <<r, hurt>> /\ queue' = Append(queue, host.req)
  BY DEF HostSetupData
<1>2. /\ DOMAIN host' = DOMAIN host /\ host'.req = host.req /\ host'.got = host.got
      /\ host'.addr = host.addr /\ host'.phase = IF dev2Host(host.req) THEN "data" ELSE "status"
  BY DEF HostSetupData, IInv, Shape
<1>3. ASSUME ~hurt PROVE Lockstep'
  <2>1. host.got = <<>> /\ (AtRest \/ Ending) /\ host.addr \in {0, r.devAddr}
    BY <1>1, <1>3 DEF IInv, Lockstep, Addressed
  <2>2. /\ Append(<<>>, host.req) = <<host.req>>
        /\ Append(<< <<>> >>, host.req) = << <<>>, host.req >>
    BY AppendLemma
  <2>3. Delivering'
    BY <1>1, <1>2, <2>1, <2>2 DEF Delivering, AtRest, Ending
  <2>. QED
    BY <1>1, <1>2, <2>1, <2>3 DEF Lockstep, Addressed
<1>. QED
  BY <1>1, <1>2, <1>3 DEF IInv, Shape, AgentKnows

LEMMA HostInStep == ASSUME IInv, HostIn PROVE IInv'
<1>1. r.state \in {"READ_DESCRIPTOR", "RETURN_VALUE"} /\ UNCHANGED <<queue, hurt>>
      /\ host.phase = "data"
  BY DEF HostIn
<1>2. \/ r' = Status(r)
      \/ \E out : r' = [r EXCEPT !.out = out]
  BY DEF HostIn
<1>3. /\ DOMAIN r' = Registers /\ r'.state # "GET_PARAMS" /\ r'.parm = r.parm
      /\ r'.stall = r.stall /\ r'.devAddr = r.devAddr /\ r'.vld = r.vld
  BY <1>1, <1>2 DEF Status, IInv, Shape, Registers
<1>4. \E got, phase : /\ phase \in {"data", "status"}
                      /\ \/ host' = [host EXCEPT !.got = got, !.phase = phase]
                         \/ host' = [[host EXCEPT !.got = got, !.phase = phase]
                                       EXCEPT !.phase = "data", !.open = TRUE]
                         \/ host' = [[host EXCEPT !.got = got, !.phase = phase]
                                       EXCEPT !.phase = "status"]
  BY <1>1 DEF HostIn, Sent
<1>5. /\ DOMAIN host' = DOMAIN host /\ host'.phase \in {"data", "status"}
      /\ host'.req = host.req /\ host'.addr = host.addr
  BY <1>4 DEF IInv, Shape
<1>6. AgentKnows'
  BY <1>1, <1>3 DEF IInv, AgentKnows
<1>. QED
  BY <1>1, <1>3, <1>5, <1>6, ServingLemma, ProgressLemma

LEMMA HostStopsStep == ASSUME IInv, HostStops PROVE IInv'
<1>1. host.phase = "data" /\ host.got # <<>> /\ UNCHANGED <<r, queue, hurt>>
  BY DEF HostStops
<1>2. /\ DOMAIN host' = DOMAIN host /\ host'.phase = "status"
      /\ host'.req = host.req /\ host'.addr = host.addr
  BY DEF HostStops, IInv, Shape
<1>3. ASSUME ~hurt PROVE Lockstep'
  BY <1>1, <1>2, <1>3 DEF IInv, Lockstep, Delivering, Serving, Refused, AtRest, Addressed
<1>. QED
  BY <1>1, <1>2, <1>3 DEF IInv, Shape, AgentKnows

LEMMA HostStalledStep == ASSUME IInv, HostStalled PROVE IInv'
<1>1. /\ host.phase \in {"data", "status"} /\ r.stall /\ UNCHANGED <<r, queue, hurt>>
      /\ host' = Idle(host.addr)
  BY DEF HostStalled
<1>2. ASSUME ~hurt PROVE Lockstep'
  BY <1>1, <1>2 DEF IInv, Lockstep, Delivering, Serving, Refused, AtRest, Addressed, Idle
<1>. QED
  BY <1>1, <1>2 DEF IInv, Shape, AgentKnows, Idle

\* The OUT token of the status stage, or one for somebody else.
LEMMA TokOutLemma ==
  ASSUME IInv
  PROVE  LET v == TokOutSeen(r)
         IN  /\ DOMAIN v = Registers /\ v.parm = r.parm /\ v.stall = r.stall
             /\ v.devAddr = r.devAddr /\ (v.vld => v.state \in {"WAIT_EXT", "WAIT_EXT_DONE"})
             /\ \/ v = r
                \/ r.state \in {"READ_DESCRIPTOR", "WAIT_EXT_DONE"} /\ v.state = "STATUS"
<1>1. CASE r.state = "READ_DESCRIPTOR"
  BY <1>1 DEF IInv, Shape, Registers, AgentKnows, TokOutSeen, Status
<1>2. CASE r.state # "READ_DESCRIPTOR" /\ r.state = "WAIT_EXT_DONE" /\ dev2Host(r.parm)
  BY <1>2 DEF IInv, Shape, Registers, AgentKnows, TokOutSeen, Status
<1>3. CASE r.state # "READ_DESCRIPTOR" /\ ~(r.state = "WAIT_EXT_DONE" /\ dev2Host(r.parm))
  BY <1>3 DEF IInv, Shape, Registers, AgentKnows, TokOutSeen
<1>. QED
  BY <1>1, <1>2, <1>3

LEMMA HostStatusOutStep == ASSUME IInv, HostStatusOut PROVE IInv'
<1>. DEFINE v     == TokOutSeen(r)
            taken == v.state = "STATUS" /\ dev2Host(v.parm)
<1>1. /\ host.phase = "status" /\ dev2Host(host.req) /\ UNCHANGED hurt /\ r' = v
      /\ v # r \/ taken
      /\ queue' = IF taken THEN Append(queue, <<>>) ELSE queue
      /\ host' = IF taken THEN Idle(host.addr) ELSE host
  BY DEF HostStatusOut
<1>2. Shape' /\ AgentKnows'
  BY <1>1, TokOutLemma DEF IInv, Shape, AgentKnows, Idle
<1>3. ASSUME ~hurt PROVE Lockstep'
  <2>1. r.state # "GET_PARAMS"
    <3>1. v = r => r.state = "STATUS"
      BY <1>1
    <3>. QED
      BY <3>1, TokOutLemma
  <2>2. Serving /\ host.addr \in {0, r.devAddr}
    BY <1>1, <1>3, <2>1 DEF IInv, Lockstep, Delivering, Refused, AtRest, Addressed
  <2>3. v.parm = r.parm /\ v.state = "STATUS" /\ v.devAddr = r.devAddr
    BY <1>1, TokOutLemma
  <2>4. taken
    BY <1>1, <2>2, <2>3 DEF Serving
  <2>5. queue' = << <<>> >>
    BY <1>1, <2>2, <2>4, AppendLemma DEF Serving
  <2>6. Ending'
    BY <1>1, <2>4, <2>5 DEF Ending
  <2>. QED
    BY <1>1, <2>2, <2>3, <2>4, <2>6 DEF Lockstep, Addressed, Idle
<1>. QED
  BY <1>1, <1>2, <1>3 DEF IInv

LEMMA HostStatusInStep == ASSUME IInv, HostStatusIn PROVE IInv'
<1>1. /\ host.phase = "status" /\ UNCHANGED <<queue, hurt>> /\ ~r.stall
      /\ r.state = "STATUS" /\ ~dev2Host(r.parm)
  BY DEF HostStatusIn
<1>2. /\ DOMAIN host' = DOMAIN host /\ host'.phase = "acking"
      /\ host'.req = host.req /\ host'.addr = host.addr
  BY DEF HostStatusIn, IInv, Shape
<1>3. /\ DOMAIN Ready(r) = Registers /\ Ready(r).state = "GET_PARAMS" /\ Ready(r).parm = <<>>
      /\ Ready(r).stall = r.stall /\ Ready(r).vld = r.vld /\ Ready(r).devAddr = r.devAddr
  BY ReadyLemma DEF IInv, Same
<1>4. /\ DOMAIN r' = Registers /\ r'.state = "GET_PARAMS" /\ r'.parm = <<>> /\ r'.vld = r.vld
      /\ r'.devAddr = IF request(r.parm) # SET_ADDRESS THEN r.devAddr ELSE value(r.parm) % 128
  BY <1>3 DEF HostStatusIn, Registers
<1>5. ASSUME ~hurt PROVE Lockstep'
  <2>1. Serving /\ host.addr \in {0, r.devAddr} /\ host.req \in Requests
    BY <1>1, <1>5 DEF IInv, Shape, Lockstep, Delivering, Refused, AtRest, Addressed
  <2>2. AtRest'
    BY <1>1, <1>4, <2>1 DEF AtRest, Serving
  <2>3. Addressed'
    BY <1>2, <1>4, <2>1, AddressLemma DEF Addressed, Serving
  <2>. QED
    BY <1>2, <2>2, <2>3 DEF Lockstep
<1>. QED
  BY <1>1, <1>2, <1>4, <1>5 DEF IInv, Shape, AgentKnows

LEMMA HostAcksStep == ASSUME IInv, HostAcks PROVE IInv'
<1>1. host.phase = "acking" /\ UNCHANGED <<r, queue, hurt>> /\ host.req \in Requests
  BY DEF HostAcks, IInv, Shape
<1>2. host' = Idle(IF request(host.req) = SET_ADDRESS /\ reqType(host.req) = STANDARD
                     THEN value(host.req) ELSE host.addr)
  BY DEF HostAcks
<1>3. host' = Idle(IF request(host.req) = SET_ADDRESS THEN value(host.req) ELSE host.addr)
  BY <1>1, <1>2, AddressLemma
<1>4. ASSUME ~hurt PROVE Lockstep'
  BY <1>1, <1>3, <1>4 DEF IInv, Lockstep, AtRest, Addressed, Idle
<1>. QED
  BY <1>1, <1>3, <1>4 DEF IInv, Shape, AgentKnows, Idle
-----------------------------------------------------------------------------
(* What disturbs a transfer. *)

LEMMA ForeignStep == ASSUME IInv, ForeignToken PROVE IInv'
<1>1. /\ UNCHANGED <<queue, host>> /\ host.phase # "setup"
      /\ r' = TokOutSeen(r) \/ r' = [r EXCEPT !.vld = FALSE]
      /\ r' # r /\ hurt' = (hurt \/ host.phase = "data" \/ r.vld)
  BY DEF ForeignToken
<1>2. Shape' /\ AgentKnows'
  BY <1>1, TokOutLemma DEF IInv, Shape, AgentKnows, Registers
<1>3. ASSUME ~hurt' PROVE Lockstep'
  <2>1. ~hurt
    BY <1>1, <1>3
  <2>2. CASE r' = [r EXCEPT !.vld = FALSE]
    <3>1. /\ r'.state = r.state /\ r'.parm = r.parm /\ r'.stall = r.stall
          /\ r'.devAddr = r.devAddr
      BY <2>2 DEF IInv, Shape, Registers
    <3>. QED
      BY <1>1, <2>1, <3>1 DEF IInv, Lockstep, AtRest, Ending, Delivering, Serving, Refused, Addressed
  <2>3. CASE r' = TokOutSeen(r)
    <3>1. r.state \in {"READ_DESCRIPTOR", "WAIT_EXT_DONE"} /\ r'.state = "STATUS"
      BY <1>1, <2>3, TokOutLemma
    <3>2. host.phase \in {"data", "status"} /\ Serving /\ host.addr \in {0, r.devAddr}
      BY <2>1, <3>1, ServingLemma
    <3>. QED
      BY <1>1, <2>3, <3>1, <3>2, TokOutLemma DEF Lockstep, Serving, Addressed
  <2>. QED
    BY <1>1, <2>2, <2>3
<1>. QED
  BY <1>2, <1>3 DEF IInv

LEMMA AbandonResetStep == ASSUME IInv, HostAbandons \/ BusReset PROVE IInv'
<1>1. CASE HostAbandons
  BY <1>1 DEF HostAbandons, IInv, Shape, AgentKnows, Idle
<1>2. CASE BusReset
  BY <1>2 DEF BusReset, RInit, IInv, Shape, Registers, AgentKnows, Lockstep, AtRest, Addressed, Idle
<1>. QED
  BY <1>1, <1>2
-----------------------------------------------------------------------------
LEMMA InitLemma == Init => IInv
  BY DEF Init, RInit, Idle, IInv, Shape, Registers, AgentKnows, Lockstep, AtRest, Addressed

LEMMA StepLemma == IInv /\ [Next]_vars => IInv'
<1>. SUFFICES ASSUME IInv, [Next]_vars PROVE IInv'
  OBVIOUS
<1>1. CASE UNCHANGED vars
  BY <1>1 DEF vars, IInv, Shape, AgentKnows, Lockstep, AtRest, Ending, Delivering, Serving,
              Refused, Addressed
<1>2. CASE EngineNext
  BY <1>2, TakeSetupStep, LoseByteStep, StatusOutStep, FeatureStep, GetStep,
     SetConfigurationStep, SetInterfaceStep, GetDescriptorStep DEF EngineNext
<1>3. CASE AgentNext
  BY <1>3, AgentTakesStep, AgentSendsStep, AgentDoneStep DEF AgentNext
<1>4. CASE HostNext
  BY <1>4, HostSetupDataStep, HostInStep, HostStatusOutStep, HostStatusInStep, HostAcksStep,
     HostStalledStep DEF HostNext
<1>5. CASE HostSetup \/ HostStops \/ ForeignToken \/ HostAbandons \/ BusReset
  BY <1>5, HostSetupStep, HostStopsStep, ForeignStep, AbandonResetStep
<1>. QED
  BY <1>1, <1>2, <1>3, <1>4, <1>5 DEF Next

\* An agent that serves a request sees its end: 'vld' is never asserted while the
\* engine is in a state that does not wait for an agent (Usb2StdCtlEp.vhd:433-447, 481-511).
THEOREM AgentKnowsHolds == Spec => []AgentKnows
<1>1. IInv => AgentKnows
  BY DEF IInv
<1>. QED
  BY InitLemma, StepLemma, <1>1, PTL DEF Spec

\* A SETUP packet finds the engine ready for it, and endpoint 0 not stalled, if
\* nothing disturbed the transfer before, whatever that was and however it ended; and
\* the device has the address the host uses.
THEOREM SetupTakenHolds == Spec => []SetupTaken
<1>1. IInv => SetupTaken
  <2>. SUFFICES ASSUME IInv, ~hurt PROVE SetupTaken
    BY DEF SetupTaken
  <2>1. Lockstep
    BY DEF IInv
  <2>2. host.phase = "setup" => ~r.stall
    BY <2>1 DEF Lockstep
  <2>3. queue # <<>> /\ Head(queue) # <<>> => r.state = "GET_PARAMS"
    BY <2>1, TailLemma DEF IInv, Shape, Lockstep, AtRest, Ending, Delivering, Serving, Refused
  <2>4. host.phase # "acking" => host.addr \in {0, r.devAddr}
    BY <2>1 DEF Lockstep, Addressed
  <2>. QED
    BY <2>2, <2>3, <2>4 DEF SetupTaken
<1>. QED
  BY InitLemma, StepLemma, <1>1, PTL DEF Spec
-----------------------------------------------------------------------------
(***************************************************************************)
(* Type correctness.                                                       *)
(***************************************************************************)

LEMMA TypesLemma == Types => TypeOK
<1>. SUFFICES ASSUME Types PROVE TypeOK
  OBVIOUS
<1>. PICK v : v = r
  OBVIOUS
<1>1. Control(v) /\ Settings(v)
  BY DEF Types, Regs
<1>2. /\ v.state \in {"GET_PARAMS", "WAIT_EXT", "WAIT_EXT_DONE", "STD_REQUEST",
                      "READ_DESCRIPTOR", "RETURN_VALUE", "STATUS"}
      /\ Len(v.parm) \in 0 .. 8 /\ (v.state = "GET_PARAMS" <=> Len(v.parm) < 8)
      /\ v.out \in Seq(0 .. 255) /\ (v.out # <<>> => v.state \in {"READ_DESCRIPTOR", "RETURN_VALUE"})
  BY <1>1 DEF Control, States, Bytes
<1>3. /\ v.altSettings \in [Interfaces -> 0 .. MaxAlt]
      /\ v.epSize \in [Endpoints -> PktSizes] /\ v.epAssoc \in [Endpoints -> Interfaces]
      /\ v.devState \in {"DEFLT", "ADDRESS", "CONFIGURED"} /\ v.devAddr \in 0 .. 127
      /\ v.cfgCurr \in 0 .. numConfigs(v.hiSpeed)
  BY <1>1 DEF Settings
<1>. QED
  BY <1>2, <1>3 DEF TypeOK

LEMMA BytesLemma ==
  /\ <<>> \in Bytes /\ Len(<<>>) = 0
  /\ \A b \in 0 .. 255 : <<b>> \in Bytes
  /\ \A b, c \in 0 .. 255 : <<b, c>> \in Bytes
<1>1. <<>> \in Bytes /\ Len(<<>>) = 0
  BY EmptySeq DEF Bytes
<1>2. ASSUME NEW b \in 0 .. 255 PROVE <<b>> \in Bytes
  BY DEF Bytes
<1>3. ASSUME NEW b \in 0 .. 255, NEW c \in 0 .. 255 PROVE <<b, c>> \in Bytes
  BY DEF Bytes
<1>. QED
  BY <1>1, <1>2, <1>3

\* A request that is complete has eight bytes.
LEMMA ParmLemma ==
  ASSUME NEW q \in Bytes, Len(q) = 8
  PROVE  /\ value(q) \in 0 .. 255 /\ index(q) \in 0 .. 255 /\ length(q) \in Nat
         /\ epAddr(q) \in Nat /\ request(q) \in 0 .. 255 /\ descType(q) \in 0 .. 255
<1>1. q \in [1 .. 8 -> 0 .. 255]
  <2>1. q \in Seq(0 .. 255)
    BY DEF Bytes
  <2>2. q \in [1 .. Len(q) -> 0 .. 255]
    BY <2>1, LenProperties, ZenonT(60)
  <2>. QED
    BY <2>2
<1>2. q[2] \in 0 .. 255 /\ q[3] \in 0 .. 255 /\ q[4] \in 0 .. 255 /\ q[5] \in 0 .. 255
      /\ q[7] \in 0 .. 255 /\ q[8] \in 0 .. 255
  BY <1>1
<1>3. epAddr(q) \in Nat
  BY <1>2 DEF epAddr, index
<1>4. \A b, c \in 0 .. 255 : b + 256 * c \in Nat
  OBVIOUS
<1>5. length(q) \in Nat
  BY <1>2, <1>4, ZenonT(60) DEF length
<1>. QED
  BY <1>2, <1>3, <1>5 DEF value, index, request, descType

LEMMA RequestLemma ==
  ASSUME NEW q \in Requests
  PROVE  /\ q \in Bytes /\ Len(q) = 8
         /\ value(q) \in 0 .. 255 /\ index(q) \in 0 .. 255 /\ length(q) \in Nat
         /\ epAddr(q) \in Nat /\ request(q) \in 0 .. 255 /\ descType(q) \in 0 .. 255
<1>1. q \in Bytes /\ Len(q) = 8
  BY SetupLemma DEF Bytes
<1>. QED
  BY <1>1, ParmLemma

(* The ends of a request. *)

Setting == {"cfgIdx", "cfgCurr", "numIfc", "altSettings", "epSize", "epAssoc", "halted",
            "devState", "devAddr", "remWakeup", "hiSpeed"}
SameSettings(w, v) == \A f \in Setting : w[f] = v[f]

LEMMA SameLemma ==
  ASSUME NEW v, NEW w, SameSettings(w, v)
  PROVE  /\ w.cfgIdx = v.cfgIdx /\ w.cfgCurr = v.cfgCurr /\ w.numIfc = v.numIfc
         /\ w.altSettings = v.altSettings /\ w.epSize = v.epSize /\ w.epAssoc = v.epAssoc
         /\ w.halted = v.halted /\ w.devState = v.devState /\ w.devAddr = v.devAddr
         /\ w.remWakeup = v.remWakeup /\ w.hiSpeed = v.hiSpeed
  BY DEF SameSettings, Setting

LEMMA SettingsLemma ==
  ASSUME NEW v, NEW w, SameSettings(w, v), Settings(v)
  PROVE  Settings(w)
  BY SameLemma DEF Settings

LEMMA EndsLemma ==
  ASSUME NEW v, DOMAIN v = Registers, NEW b
  PROVE  /\ SameSettings(Ready(v), v) /\ SameSettings(Stalled(v), v)
         /\ SameSettings(Status(v), v) /\ SameSettings([Status(v) EXCEPT !.vld = FALSE], v)
         /\ SameSettings(Return(v, b), v)
<1>1. SameSettings(Ready(v), v) /\ SameSettings(Stalled(v), v)
  BY DEF SameSettings, Setting, Registers, Ready, Stalled
<1>2. SameSettings(Status(v), v) /\ SameSettings([Status(v) EXCEPT !.vld = FALSE], v)
  BY DEF SameSettings, Setting, Registers, Status
<1>3. SameSettings(Return(v, b), v)
  BY DEF SameSettings, Setting, Registers, Return
<1>. QED
  BY <1>1, <1>2, <1>3

LEMMA ReadyTypes ==
  ASSUME NEW v, Regs(v)
  PROVE  Regs(Ready(v)) /\ Regs(Stalled(v))
<1>1. DOMAIN v = Registers /\ v.stall \in BOOLEAN
  BY DEF Regs, Control
<1>2. /\ DOMAIN Ready(v) = Registers /\ Ready(v).state = "GET_PARAMS" /\ Ready(v).parm = <<>>
      /\ Ready(v).out = <<>> /\ Ready(v).stall = v.stall
  BY <1>1 DEF Registers, Ready
<1>3. /\ DOMAIN Stalled(v) = Registers /\ Stalled(v).state = "GET_PARAMS" /\ Stalled(v).parm = <<>>
      /\ Stalled(v).out = <<>> /\ Stalled(v).stall = TRUE
  BY <1>2 DEF Registers, Stalled
<1>4. ASSUME NEW w, DOMAIN w = Registers, w.state = "GET_PARAMS", w.parm = <<>>, w.out = <<>>,
             w.stall \in BOOLEAN
      PROVE  Control(w)
  <2>1. w.parm \in Bytes /\ Len(w.parm) = 0 /\ w.out \in Bytes
    BY <1>4, BytesLemma
  <2>. QED
    BY <1>4, <2>1 DEF Control, States
<1>5. Settings(Ready(v)) /\ Settings(Stalled(v))
  BY <1>1, EndsLemma, SettingsLemma DEF Regs
<1>6. Control(Ready(v)) /\ Control(Stalled(v))
  BY <1>1, <1>2, <1>3, <1>4
<1>. QED
  BY <1>5, <1>6 DEF Regs

LEMMA StatusTypes ==
  ASSUME NEW v, Regs(v), v.state # "GET_PARAMS"
  PROVE  Regs(Status(v)) /\ Regs([Status(v) EXCEPT !.vld = FALSE])
<1>1. Control(Status(v)) /\ Control([Status(v) EXCEPT !.vld = FALSE])
  BY BytesLemma DEF Regs, Control, Status, Registers, States
<1>2. Settings(Status(v)) /\ Settings([Status(v) EXCEPT !.vld = FALSE])
  BY EndsLemma, SettingsLemma DEF Regs, Control
<1>. QED
  BY <1>1, <1>2 DEF Regs

LEMMA ReturnTypes ==
  ASSUME NEW v, Regs(v), v.state # "GET_PARAMS", NEW b \in Bytes
  PROVE  Regs(Return(v, b))
<1>1. Control(Return(v, b))
  BY DEF Regs, Control, Return, Registers, States
<1>2. Settings(Return(v, b))
  BY EndsLemma, SettingsLemma DEF Regs, Control
<1>. QED
  BY <1>1, <1>2 DEF Regs

\* Registers of a standard request with other settings.
SameControl(w, v) ==
  DOMAIN w = Registers /\ \A f \in {"state", "parm", "stall", "out"} : w[f] = v[f]

LEMMA ControlLemma ==
  ASSUME NEW v, NEW w, Control(v), SameControl(w, v)
  PROVE  Control(w) /\ w.state = v.state
<1>1. w.state = v.state /\ w.parm = v.parm /\ w.stall = v.stall /\ w.out = v.out
  BY DEF SameControl
<1>. QED
  BY <1>1 DEF Control, SameControl

\* A request that is served is complete.
LEMMA ServedLemma ==
  ASSUME Types, r.state # "GET_PARAMS"
  PROVE  /\ r.parm \in Bytes /\ Len(r.parm) = 8
         /\ value(r.parm) \in 0 .. 255 /\ index(r.parm) \in 0 .. 255 /\ length(r.parm) \in Nat
         /\ epAddr(r.parm) \in Nat /\ request(r.parm) \in 0 .. 255 /\ descType(r.parm) \in 0 .. 255
<1>. PICK v : v = r
  OBVIOUS
<1>1. Control(v) /\ v.state # "GET_PARAMS"
  BY DEF Types, Regs
<1>2. v.parm \in Bytes /\ Len(v.parm) \in 0 .. 8 /\ ~(Len(v.parm) < 8)
  BY <1>1 DEF Control
<1>3. \A m \in 0 .. 8 : m < 8 \/ m = 8
  OBVIOUS
<1>4. Len(v.parm) = 8
  BY <1>2, <1>3, Zenon
<1>. QED
  BY <1>2, <1>4, ParmLemma

LEMMA AnswerTypes ==
  ASSUME Types, UNCHANGED <<queue, host, belief>>, Regs(r')
  PROVE  Types'
  BY DEF Types

LEMMA FeatureTypes == ASSUME Types, Feature PROVE Types'
<1>. DEFINE e   == epAddr(r.parm)
            set == request(r.parm) = SET_FEATURE
            a   == [r EXCEPT !.remWakeup = set]
            b   == [r EXCEPT !.halted = @ \cup {e}]
            c   == [r EXCEPT !.halted = @ \ {e}]
<1>1. r.state = "STD_REQUEST" /\ UNCHANGED <<queue, host, belief>>
  BY DEF Feature, Std, Answer
<1>2. r' = Status(a) \/ r' = Status(b) \/ r' = Status(c) \/ r' = Stalled(r)
  BY DEF Feature, Answer
<1>3. Regs(r) /\ Control(r) /\ Settings(r) /\ DOMAIN r = Registers
  BY DEF Types, Regs, Control
<1>4. e \in Nat
  BY <1>1, ServedLemma
<1>5. SameControl(a, r) /\ SameControl(b, r) /\ SameControl(c, r)
  BY <1>3 DEF SameControl, Registers
<1>6. Settings(a)
  BY <1>3 DEF Settings, Registers
<1>7. Settings(b) /\ Settings(c)
  BY <1>3, <1>4 DEF Settings, Registers
<1>8. /\ Regs(a) /\ Regs(b) /\ Regs(c)
      /\ a.state = "STD_REQUEST" /\ b.state = "STD_REQUEST" /\ c.state = "STD_REQUEST"
  BY <1>1, <1>3, <1>5, <1>6, <1>7, ControlLemma DEF Regs
<1>. HIDE DEF a, b, c
<1>9. Regs(Status(a)) /\ Regs(Status(b)) /\ Regs(Status(c)) /\ Regs(Stalled(r))
  BY <1>3, <1>8, StatusTypes, ReadyTypes
<1>10. Regs(r')
  BY <1>2, <1>9
<1>. QED
  BY <1>1, <1>10, AnswerTypes

\* A descriptor of the table, byte by byte.
LEMMA FoundLemma ==
  ASSUME NEW x, NEW d, Found(x, d), NEW j \in 0 .. Len(d) - 1
  PROVE  /\ At(Table, x + j) = d[j + 1] /\ d[j + 1] \in 0 .. 255
         /\ At(Table, x + j) \in 0 .. 255
<1>1. x \in Nat /\ d \in Bytes /\ Len(d) \in Nat
  BY DEF Found, Bytes
<1>2. j + 1 \in 1 .. Len(d) /\ x + (j + 1) - 1 = x + j
  BY <1>1
<1>3. d[j + 1] \in 0 .. 255
  BY <1>1, <1>2, ElementOfSeq DEF Bytes
<1>4. At(Table, x + j) = d[j + 1]
  BY <1>2 DEF Found
<1>5. At(Table, x + j) \in 0 .. 255
  BY <1>3, <1>4
<1>. QED
  BY <1>3, <1>4, <1>5

LEMMA NumConfigsLemma ==
  ASSUME NEW hs \in BOOLEAN
  PROVE  numConfigs(hs) \in 0 .. 255
<1>1. PICK d : Found(selCfgIdxTbl(hs)[1], d) /\ Len(d) = 18
  BY DevicesAssumption
<1>2. Found(selCfgIdxTbl(hs)[1], d)
  BY <1>1
<1>3. \A j \in 0 .. Len(d) - 1 : At(Table, selCfgIdxTbl(hs)[1] + j) \in 0 .. 255
  BY <1>2, FoundLemma, ZenonT(60)
<1>. QED
  BY <1>1, <1>3 DEF numConfigs

LEMMA GetTypes ==
  ASSUME Types,
         GetConfiguration \/ GetInterface \/ GetStatus \/ SetAddress \/ OtherRequest
  PROVE  Types'
<1>1. r.state = "STD_REQUEST" /\ UNCHANGED <<queue, host, belief>>
  BY DEF GetConfiguration, GetInterface, GetStatus, SetAddress, OtherRequest, Std, Answer
<1>2. Regs(r) /\ Settings(r)
  BY DEF Types, Regs
<1>3. \/ \E b \in 0 .. 255 : r' = Return(r, <<b>>) \/ r' = Return(r, <<b, 0>>)
      \/ r' = Status(r) \/ r' = Stalled(r)
  <2>1. CASE GetConfiguration
    <3>1. r.cfgCurr \in 0 .. numConfigs(r.hiSpeed) /\ numConfigs(r.hiSpeed) \in 0 .. 255
      BY <1>2, NumConfigsLemma DEF Settings
    <3>2. r.cfgCurr \in 0 .. 255
      BY <3>1
    <3>. QED
      BY <2>1, <3>2 DEF GetConfiguration, Answer
  <2>2. CASE GetInterface
    <3>. DEFINE i == index(r.parm) % 128
    <3>1. ASSUME i \in Interfaces PROVE r.altSettings[i] \in 0 .. 255
      <4>1. r.altSettings \in [Interfaces -> 0 .. MaxAlt] /\ MaxAlt \in 0 .. 127
        BY <1>2, TableAssumption DEF Settings
      <4>2. r.altSettings[i] \in 0 .. MaxAlt
        BY <3>1, <4>1
      <4>. HIDE DEF i
      <4>. QED
        BY <4>1, <4>2
    <3>2. r' = Stalled(r) \/ (i \in Interfaces /\ r' = Return(r, <<r.altSettings[i]>>))
      BY <2>2 DEF GetInterface, Answer
    <3>. QED
      BY <3>1, <3>2
  <2>3. CASE GetStatus
    <3>1. r' = Stalled(r) \/ \E b \in {0, 1, 2} : r' = Return(r, <<b, 0>>)
      BY <2>3 DEF GetStatus, Answer
    <3>. QED
      BY <3>1
  <2>4. CASE SetAddress \/ OtherRequest
    BY <2>4 DEF SetAddress, OtherRequest, Answer
  <2>. QED
    BY <2>1, <2>2, <2>3, <2>4
<1>4. ASSUME NEW b \in 0 .. 255 PROVE Regs(Return(r, <<b>>)) /\ Regs(Return(r, <<b, 0>>))
  <2>1. 0 \in 0 .. 255
    OBVIOUS
  <2>2. <<b>> \in Bytes /\ <<b, 0>> \in Bytes
    BY <2>1, BytesLemma, Zenon
  <2>. QED
    BY <1>1, <1>2, <2>2, ReturnTypes
<1>5. Regs(Status(r)) /\ Regs(Stalled(r))
  BY <1>1, <1>2, StatusTypes, ReadyTypes
<1>6. Regs(r')
  BY <1>3, <1>4, <1>5
<1>. QED
  BY <1>1, <1>6, AnswerTypes

-----------------------------------------------------------------------------
(* The endpoints. *)

\* What LOAD_EPTS writes, in terms of the list.
Unambiguous(S) ==
  \A y, z \in S : Address(y) = Address(z) => y.ifc = z.ifc /\ PacketSize(y) = PacketSize(z)

Loaded(w, v, S) ==
  /\ w.epSize = [e \in Endpoints |-> w.epSize[e]] /\ w.epAssoc = [e \in Endpoints |-> w.epAssoc[e]]
  /\ w.halted = v.halted \ {Address(y) : y \in S}
  /\ \A y \in S : Address(y) \in Endpoints =>
       w.epSize[Address(y)] = PacketSize(y) /\ w.epAssoc[Address(y)] = y.ifc
  /\ \A e \in Endpoints : (\A y \in S : Address(y) # e) =>
       w.epSize[e] = v.epSize[e] /\ w.epAssoc[e] = v.epAssoc[e]

LEMMA LoadLemma ==
  ASSUME NEW v, DOMAIN v = Registers, DOMAIN v.epSize = Endpoints, DOMAIN v.epAssoc = Endpoints,
         NEW epts, NEW S, Loads(epts, S), Unambiguous(S)
  PROVE  LET w == LoadEpts(v, epts)
         IN  /\ Loaded(w, v, S) /\ DOMAIN w = Registers
             /\ \A f \in Registers \ {"epSize", "epAssoc", "halted"} : w[f] = v[f]
<1>. DEFINE w     == LoadEpts(v, epts)
            addrs == {EptAt(d.dsc) : d \in epts}
            Ept(e) == CHOOSE d \in epts : EptAt(d.dsc) = e
<1>1. \A d \in epts : \E y \in S :
        EptAt(d.dsc) = Address(y) /\ SizeAt(d.dsc) = PacketSize(y) /\ d.ifc = y.ifc
  <2>1. \A d \in epts : \E y \in S : InTable(d) = InList(y)
    BY DEF Loads
  <2>. QED
    BY <2>1 DEF InTable, InList
<1>2. \A y \in S : \E d \in epts : EptAt(d.dsc) = Address(y)
  <2>1. \A y \in S : \E d \in epts : InTable(d) = InList(y)
    BY DEF Loads
  <2>. QED
    BY <2>1 DEF InTable, InList
<1>3. addrs = {Address(y) : y \in S}
  BY <1>1, <1>2
<1>4. ASSUME NEW y \in S
      PROVE  SizeAt(Ept(Address(y)).dsc) = PacketSize(y) /\ Ept(Address(y)).ifc = y.ifc
  <2>1. Ept(Address(y)) \in epts /\ EptAt(Ept(Address(y)).dsc) = Address(y)
    BY <1>2
  <2>2. PICK z \in S : /\ Address(y) = Address(z)
                       /\ SizeAt(Ept(Address(y)).dsc) = PacketSize(z) /\ Ept(Address(y)).ifc = z.ifc
    BY <1>1, <2>1
  <2>. QED
    BY <2>2 DEF Unambiguous
<1>5. /\ DOMAIN w = Registers
      /\ \A f \in Registers \ {"epSize", "epAssoc", "halted"} : w[f] = v[f]
  BY DEF LoadEpts, Registers
<1>6. /\ w.epSize  = [e \in Endpoints |-> IF e \in addrs THEN SizeAt(Ept(e).dsc) ELSE v.epSize[e]]
      /\ w.epAssoc = [e \in Endpoints |-> IF e \in addrs THEN Ept(e).ifc ELSE v.epAssoc[e]]
      /\ w.halted  = v.halted \ addrs
  BY DEF LoadEpts, Registers
<1>. HIDE DEF w, addrs, Ept
<1>7. ASSUME NEW y \in S, Address(y) \in Endpoints
      PROVE  w.epSize[Address(y)] = PacketSize(y) /\ w.epAssoc[Address(y)] = y.ifc
  BY <1>3, <1>4, <1>6, <1>7
<1>8. ASSUME NEW e \in Endpoints, \A y \in S : Address(y) # e
      PROVE  w.epSize[e] = v.epSize[e] /\ w.epAssoc[e] = v.epAssoc[e]
  BY <1>3, <1>6, <1>8
<1>9. /\ w.epSize = [e \in Endpoints |-> w.epSize[e]]
      /\ w.epAssoc = [e \in Endpoints |-> w.epAssoc[e]]
  BY <1>6
<1>10. w.halted = v.halted \ {Address(y) : y \in S}
  BY <1>3, <1>6
<1>11. Loaded(w, v, S)
  BY <1>7, <1>8, <1>9, <1>10 DEF Loaded
<1>. QED
  BY <1>5, <1>11 DEF w

LEMMA LoadedTypes ==
  ASSUME NEW v, NEW w, NEW S, Loaded(w, v, S),
         \A y \in S : PacketSize(y) \in PktSizes /\ y.ifc \in Interfaces,
         v.epSize \in [Endpoints -> PktSizes], v.epAssoc \in [Endpoints -> Interfaces],
         v.halted \in SUBSET Nat
  PROVE  /\ w.epSize \in [Endpoints -> PktSizes] /\ w.epAssoc \in [Endpoints -> Interfaces]
         /\ w.halted \in SUBSET Nat
<1>1. ASSUME NEW e \in Endpoints
      PROVE  w.epSize[e] \in PktSizes /\ w.epAssoc[e] \in Interfaces
  <2>1. CASE \E y \in S : Address(y) = e
    BY <2>1 DEF Loaded
  <2>2. CASE \A y \in S : Address(y) # e
    BY <2>2 DEF Loaded
  <2>. QED
    BY <2>1, <2>2
<1>. QED
  BY <1>1 DEF Loaded

LEMMA OnLemma ==
  ASSUME NEW hs \in BOOLEAN, NEW n \in 1 .. numConfigs(hs)
  PROVE  /\ NumInterfaces(hs, n) \in 0 .. 128
         /\ \A i \in 0 .. NumInterfaces(hs, n) - 1 : i \in Interfaces
         /\ \A y \in EndpointsOf[hs][n] :
              /\ y.ifc \in Interfaces /\ y.ifc \in 0 .. NumInterfaces(hs, n) - 1
              /\ Address(y) \in Endpoints /\ PacketSize(y) \in PktSizes
<1>. DEFINE num == NumInterfaces(hs, n)
<1>1. num <= 128 /\ \A i \in 0 .. num - 1 : i \in Interfaces
  BY InterfacesAssumption
<1>2. num \in 0 .. 255
  <2>. DEFINE x == ConfigAt(hs, n)
              d == Whole(hs, n)
  <2>1. Found(x, d) /\ Len(d) >= 9
    BY ConfigurationsAssumption
  <2>. HIDE DEF x, d
  <2>2. \A j \in 0 .. Len(d) - 1 : At(Table, x + j) \in 0 .. 255
    BY <2>1, FoundLemma, Zenon
  <2>3. Len(d) \in Nat
    BY <2>1 DEF Found, Bytes
  <2>4. 4 \in 0 .. Len(d) - 1
    BY <2>1, <2>3
  <2>5. At(Table, x + 4) \in 0 .. 255
    BY <2>2, <2>4
  <2>. QED
    BY <2>5 DEF NumInterfaces, x
<1>3. \A y \in EndpointsOf[hs][n] :
        y.ifc \in 0 .. num - 1 /\ Address(y) \in Endpoints /\ PacketSize(y) \in PktSizes
  BY EndpointsOfAssumption
<1>. QED
  BY <1>1, <1>2, <1>3

\* What SET_CONFIGURATION does.
Zeros == [e \in Endpoints |-> 0]
Off(v) == v.epSize = Zeros /\ v.epAssoc = r.epAssoc /\ v.halted = {}
SameSelection(v) ==
  v.cfgIdx = r.cfgIdx /\ v.numIfc = r.numIfc /\ v.altSettings = r.altSettings
Kept(v) ==
  SameControl(v, r) /\ v.devAddr = r.devAddr /\ v.remWakeup = r.remWakeup /\ v.hiSpeed = r.hiSpeed
Selects(v, n) ==
  /\ Loaded(v, Unload(r), {y \in EndpointsOf[r.hiSpeed][n] : y.alt = 0})
  /\ v.cfgCurr = n /\ v.cfgIdx = ConfigAt(r.hiSpeed, n) /\ v.devState = "CONFIGURED"
  /\ v.numIfc = NumInterfaces(r.hiSpeed, n)
  /\ v.altSettings = [i \in Interfaces |-> IF i < v.numIfc THEN 0 ELSE r.altSettings[i]]

LEMMA ConfigurationLemma ==
  ASSUME Types, SetConfiguration
  PROVE  \E v :
           /\ Kept(v)
           /\ LET n == value(r.parm)
              IN  \/ /\ n = 0 /\ r' = Status(v) /\ Off(v) /\ SameSelection(v)
                     /\ v.cfgCurr = 0 /\ v.devState = "ADDRESS"
                  \/ /\ n > numConfigs(r.hiSpeed) /\ r' = Stalled(v) /\ Off(v) /\ SameSelection(v)
                     /\ v.cfgCurr = r.cfgCurr /\ v.devState = r.devState
                  \/ n \in 1 .. numConfigs(r.hiSpeed) /\ r' = Status(v) /\ Selects(v, n)
<1>. DEFINE n   == value(r.parm)
            hs  == r.hiSpeed
            idx == ConfigAt(hs, n)
            off == Unload(r)
            set == LoadConfiguration(off, n, idx)
            unset == [off EXCEPT !.devState = "ADDRESS", !.cfgCurr = 0]
            done  == [set EXCEPT !.devState = "CONFIGURED"]
<1>0. r.state = "STD_REQUEST" /\ DOMAIN r = Registers /\ hs \in BOOLEAN
  BY DEF SetConfiguration, Std, Types, Regs, Control, Settings
<1>1. n \in 0 .. 255 /\ numConfigs(hs) \in 0 .. 255
  BY <1>0, ServedLemma, NumConfigsLemma
<1>2. r' = CASE n = 0 -> Status(unset)
             [] n > numConfigs(hs) -> Stalled(off)
             [] OTHER -> IF ConfigLoads[idx].end THEN Stalled(set) ELSE Status(done)
  BY DEF SetConfiguration, Answer, ConfigAt
<1>3. CASE n = 0
  <2>1. Kept(unset) /\ Off(unset) /\ SameSelection(unset)
    BY <1>0 DEF Kept, Off, SameSelection, SameControl, Registers, Unload, Zeros
  <2>2. unset.cfgCurr = 0 /\ unset.devState = "ADDRESS"
    BY <1>0 DEF Registers, Unload
  <2>. HIDE DEF unset
  <2>3. r' = Status(unset)
    BY <1>1, <1>2, <1>3
  <2>. QED
    BY <1>3, <2>1, <2>2, <2>3, Zenon
<1>4. CASE n # 0 /\ n > numConfigs(hs)
  <2>1. Kept(off) /\ Off(off) /\ SameSelection(off)
    BY <1>0 DEF Kept, Off, SameSelection, SameControl, Registers, Unload, Zeros
  <2>2. off.cfgCurr = r.cfgCurr /\ off.devState = r.devState
    BY <1>0 DEF Registers, Unload
  <2>. HIDE DEF off
  <2>3. r' = Stalled(off)
    BY <1>1, <1>2, <1>4
  <2>. QED
    BY <1>4, <2>1, <2>2, <2>3, Zenon
<1>5. CASE n # 0 /\ ~(n > numConfigs(hs))
  <2>0. \A a, m \in 0 .. 255 : a # 0 /\ ~(a > m) => a \in 1 .. m
    OBVIOUS
  <2>1. n \in 1 .. numConfigs(hs)
    BY <1>1, <1>5, <2>0, Zenon
  <2>. DEFINE num  == NumInterfaces(hs, n)
              S    == {y \in EndpointsOf[hs][n] : y.alt = 0}
              epts == ConfigLoads[idx].epts
              w    == LoadEpts(off, epts)
  <2>2. ~ConfigLoads[idx].end /\ ConfigLoads[idx].num = num /\ Loads(epts, S)
    BY <1>0, <2>1, LoadAssumption
  <2>3. Unambiguous(S)
    BY <1>0, <2>1, EndpointsOfAssumption DEF Unambiguous
  <2>4. /\ DOMAIN off = Registers /\ DOMAIN off.epSize = Endpoints
        /\ off.epAssoc = r.epAssoc /\ DOMAIN off.epAssoc = Endpoints
    BY <1>0 DEF Types, Regs, Settings, Unload, Registers
  <2>5. /\ \A f \in Registers \ {"epSize", "halted"} : off[f] = r[f]
    BY <1>0 DEF Unload, Registers
  <2>6. /\ Loaded(w, off, S) /\ DOMAIN w = Registers
        /\ \A f \in Registers \ {"epSize", "epAssoc", "halted"} : w[f] = off[f]
    BY <2>2, <2>3, <2>4, LoadLemma
  <2>7. \A f \in Registers \ {"epSize", "epAssoc", "halted"} : w[f] = r[f]
    BY <2>5, <2>6
  <2>. HIDE DEF w, off, epts, S
  <2>8. done = [w EXCEPT !.cfgCurr = n, !.cfgIdx = idx, !.numIfc = num,
                  !.altSettings = [i \in Interfaces |-> IF i < num THEN 0 ELSE @[i]],
                  !.devState = "CONFIGURED"]
    <3>1. At(Table, idx + 4) = num
      BY DEF NumInterfaces
    <3>. QED
      BY <2>2, <3>1 DEF LoadConfiguration, w, epts
  <2>9. /\ done.cfgCurr = n /\ done.cfgIdx = idx /\ done.numIfc = num /\ done.devState = "CONFIGURED"
        /\ done.altSettings = [i \in Interfaces |-> IF i < num THEN 0 ELSE w.altSettings[i]]
        /\ DOMAIN done = Registers
        /\ \A f \in Registers \ {"cfgCurr", "cfgIdx", "numIfc", "devState", "altSettings"} : done[f] = w[f]
    BY <2>6, <2>8 DEF Registers
  <2>10. r' = Status(done)
    BY <1>1, <1>2, <1>5, <2>2
  <2>. HIDE DEF done
  <2>11. done.altSettings = [i \in Interfaces |-> IF i < done.numIfc THEN 0 ELSE r.altSettings[i]]
    BY <2>7, <2>9 DEF Registers
  <2>12. Loaded(done, off, S)
    <3>1. done.epSize = w.epSize /\ done.epAssoc = w.epAssoc /\ done.halted = w.halted
      BY <2>9 DEF Registers
    <3>. QED
      BY <2>6, <3>1 DEF Loaded
  <2>13. Selects(done, n)
    BY <2>9, <2>11, <2>12 DEF Selects, off, S
  <2>14. Kept(done)
    BY <2>7, <2>9 DEF Kept, SameControl, Registers
  <2>. QED
    BY <2>1, <2>10, <2>13, <2>14, Zenon
<1>. QED
  BY <1>1, <1>3, <1>4, <1>5

\* What SET_INTERFACE does.
Switches(v, ifc, S) ==
  Kept(v) /\ v.cfgIdx = r.cfgIdx /\ v.numIfc = r.numIfc /\ v.cfgCurr = r.cfgCurr
  /\ v.devState = r.devState /\ Loaded(v, DeactIfc(r, ifc), S)

LEMMA InterfaceLemma ==
  ASSUME Types, Selected, SetInterface
  PROVE  LET ifc == index(r.parm)
             alt == value(r.parm)
             hs  == r.hiSpeed
             n   == r.cfgCurr
         IN  \/ r' = Stalled(r) /\ (~Configured \/ ifc >= r.numIfc \/ alt > MaxAlt)
             \/ /\ Configured /\ ifc \in 0 .. r.numIfc - 1 /\ ifc \in Interfaces
                /\ alt \in 0 .. MaxAlt /\ n \in 1 .. numConfigs(hs)
                /\ \E v :
                     \/ /\ ~HasSetting(hs, n, ifc, alt) /\ r' = Stalled(v)
                        /\ Switches(v, ifc, {}) /\ v.altSettings = r.altSettings
                     \/ /\ HasSetting(hs, n, ifc, alt) /\ r' = Status(v)
                        /\ Switches(v, ifc, {y \in EndpointsOf[hs][n] : y.ifc = ifc /\ y.alt = alt})
                        /\ v.altSettings = [r.altSettings EXCEPT ![ifc] = alt]
<1>. DEFINE ifc  == index(r.parm)
            alt  == value(r.parm)
            hs   == r.hiSpeed
            n    == r.cfgCurr
            load == AltLoads[<<r.cfgIdx, ifc, alt>>]
            off  == DeactIfc(r, ifc)
            set  == LoadEpts(off, load.epts)
            done == [set EXCEPT !.altSettings[ifc] = alt]
<1>1. r.state = "STD_REQUEST" /\ DOMAIN r = Registers /\ hs \in BOOLEAN /\ Settings(r)
  BY DEF SetInterface, Std, Types, Regs, Control, Settings
<1>2. ifc \in 0 .. 255 /\ alt \in 0 .. 255 /\ numConfigs(hs) \in 0 .. 255 /\ MaxAlt \in 0 .. 127
  BY <1>1, ServedLemma, NumConfigsLemma, TableAssumption
<1>3. r' = IF ~Configured \/ ifc >= r.numIfc \/ alt > MaxAlt THEN Stalled(r)
           ELSE IF load.end THEN Stalled(set) ELSE Status(done)
  BY DEF SetInterface, Answer
<1>4. CASE ~Configured \/ ifc >= r.numIfc \/ alt > MaxAlt
  BY <1>3, <1>4
<1>5. CASE ~(~Configured \/ ifc >= r.numIfc \/ alt > MaxAlt)
  <2>1. Configured /\ n # 0 /\ n \in 0 .. numConfigs(hs)
        /\ r.cfgIdx = ConfigAt(hs, n) /\ r.numIfc = NumInterfaces(hs, n)
    BY <1>1, <1>5 DEF Selected, Settings
  <2>2. n \in 1 .. numConfigs(hs)
    <3>1. \A a, m \in Int : a \in 0 .. m /\ a # 0 => a \in 1 .. m
      OBVIOUS
    <3>2. n \in Int /\ numConfigs(hs) \in Int
      BY <1>2, <2>1
    <3>. QED
      BY <2>1, <3>1, <3>2, Zenon
  <2>3. r.numIfc \in 0 .. 128 /\ \A i \in 0 .. r.numIfc - 1 : i \in Interfaces
    <3>1. NumInterfaces(hs, n) \in 0 .. 128 /\ \A i \in 0 .. NumInterfaces(hs, n) - 1 : i \in Interfaces
      <4>. HIDE DEF n, hs
      <4>. QED
        BY <1>1, <2>2, OnLemma, Zenon
    <3>. QED
      BY <2>1, <3>1, Zenon
  <2>4. ifc \in 0 .. r.numIfc - 1 /\ alt \in 0 .. MaxAlt
    <3>1. \A a \in 0 .. 255, m \in 0 .. 128 : ~(a >= m) => a \in 0 .. m - 1
      OBVIOUS
    <3>2. \A a \in 0 .. 255, m \in 0 .. 127 : ~(a > m) => a \in 0 .. m
      OBVIOUS
    <3>. QED
      BY <1>2, <1>5, <2>3, <3>1, <3>2, Zenon
  <2>5. ifc \in Interfaces
    BY <2>3, <2>4
  <2>. DEFINE S == IF HasSetting(hs, n, ifc, alt)
                     THEN {y \in EndpointsOf[hs][n] : y.ifc = ifc /\ y.alt = alt} ELSE {}
  <2>6. /\ Loads(load.epts, S) /\ (load.end <=> ~HasSetting(hs, n, ifc, alt))
    <3>1. \A i \in 0 .. NumInterfaces(hs, n) - 1, a \in 0 .. MaxAlt :
            LET l == AltLoads[<<ConfigAt(hs, n), i, a>>]
            IN  IF HasSetting(hs, n, i, a)
                  THEN ~l.end /\ Loads(l.epts, {y \in EndpointsOf[hs][n] : y.ifc = i /\ y.alt = a})
                  ELSE l.end /\ l.epts = {}
      BY <1>1, <2>2, LoadAssumption
    <3>2. Loads({}, {})
      BY DEF Loads
    <3>. QED
      BY <2>1, <2>4, <3>1, <3>2
  <2>7. Unambiguous(S)
    <3>1. \A y, z \in EndpointsOf[hs][n] : Address(y) = Address(z) =>
            y.ifc = z.ifc /\ (y.alt = z.alt => PacketSize(y) = PacketSize(z))
      BY <1>1, <2>2, EndpointsOfAssumption
    <3>. QED
      BY <3>1 DEF Unambiguous
  <2>8. /\ DOMAIN off = Registers /\ off.epSize = [e \in Endpoints |-> off.epSize[e]]
        /\ \A f \in Registers \ {"epSize"} : off[f] = r[f]
    BY <1>1 DEF DeactIfc, Registers
  <2>9. DOMAIN off.epSize = Endpoints /\ DOMAIN off.epAssoc = Endpoints
    BY <1>1, <2>8 DEF Settings, Registers
  <2>. DEFINE epts == load.epts
  <2>. HIDE DEF S, off, epts
  <2>10. /\ Loaded(set, off, S) /\ DOMAIN set = Registers
         /\ \A f \in Registers \ {"epSize", "epAssoc", "halted"} : set[f] = off[f]
    BY <2>6, <2>7, <2>8, <2>9, LoadLemma DEF epts
  <2>11. \A f \in Registers \ {"epSize", "epAssoc", "halted"} : set[f] = r[f]
    BY <2>8, <2>10
  <2>. HIDE DEF set
  <2>12. /\ DOMAIN done = Registers /\ done.altSettings = [r.altSettings EXCEPT ![ifc] = alt]
         /\ \A f \in Registers \ {"altSettings"} : done[f] = set[f]
    BY <2>10, <2>11 DEF Registers
  <2>. HIDE DEF done
  <2>13. Switches(set, ifc, S) /\ set.altSettings = r.altSettings
    BY <2>10, <2>11 DEF Switches, Kept, SameControl, Registers, off
  <2>14. Switches(done, ifc, S)
    <3>1. done.epSize = set.epSize /\ done.epAssoc = set.epAssoc /\ done.halted = set.halted
      BY <2>12 DEF Registers
    <3>2. Loaded(done, off, S)
      BY <2>10, <3>1 DEF Loaded
    <3>. QED
      BY <2>11, <2>12, <3>2 DEF Switches, Kept, SameControl, Registers, off
  <2>15. CASE HasSetting(hs, n, ifc, alt)
    <3>1. r' = Status(done)
      BY <1>3, <1>5, <2>6, <2>15
    <3>2. S = {y \in EndpointsOf[hs][n] : y.ifc = ifc /\ y.alt = alt}
      BY <2>15 DEF S
    <3>. QED
      BY <2>1, <2>2, <2>4, <2>5, <2>12, <2>14, <2>15, <3>1, <3>2, Zenon
  <2>16. CASE ~HasSetting(hs, n, ifc, alt)
    <3>1. r' = Stalled(set)
      BY <1>3, <1>5, <2>6, <2>16
    <3>2. S = {}
      BY <2>16 DEF S
    <3>. QED
      BY <2>1, <2>2, <2>4, <2>5, <2>13, <2>16, <3>1, <3>2, Zenon
  <2>. QED
    BY <2>15, <2>16
<1>. QED
  BY <1>4, <1>5

LEMMA SetConfigurationTypes == ASSUME Types, SetConfiguration PROVE Types'
<1>. DEFINE n  == value(r.parm)
            hs == r.hiSpeed
            S  == {y \in EndpointsOf[hs][n] : y.alt = 0}
<1>1. PICK v :
        /\ Kept(v)
        /\ \/ /\ n = 0 /\ r' = Status(v) /\ Off(v) /\ SameSelection(v)
              /\ v.cfgCurr = 0 /\ v.devState = "ADDRESS"
           \/ /\ n > numConfigs(hs) /\ r' = Stalled(v) /\ Off(v) /\ SameSelection(v)
              /\ v.cfgCurr = r.cfgCurr /\ v.devState = r.devState
           \/ n \in 1 .. numConfigs(hs) /\ r' = Status(v) /\ Selects(v, n)
  BY ConfigurationLemma
<1>2. /\ r.state = "STD_REQUEST" /\ UNCHANGED <<queue, host, belief>>
      /\ Control(r) /\ Settings(r) /\ hs \in BOOLEAN
  BY DEF SetConfiguration, Std, Answer, Types, Regs, Settings
<1>3. Control(v) /\ v.state = "STD_REQUEST" /\ v.hiSpeed = hs
      /\ v.devAddr = r.devAddr /\ v.remWakeup = r.remWakeup
  BY <1>1, <1>2, ControlLemma DEF Kept
<1>4. r.epAssoc \in [Endpoints -> Interfaces] /\ Zeros \in [Endpoints -> PktSizes]
      /\ {} \in SUBSET Nat
  BY <1>2 DEF Settings, Zeros, PktSizes
<1>5. numConfigs(hs) \in 0 .. 255
  BY <1>2, NumConfigsLemma
<1>6. ASSUME Off(v), SameSelection(v),
             \/ v.cfgCurr = 0 /\ v.devState = "ADDRESS"
             \/ v.cfgCurr = r.cfgCurr /\ v.devState = r.devState
      PROVE  Settings(v)
  <2>1. 0 \in 0 .. numConfigs(hs)
    BY <1>5
  <2>. QED
    BY <1>2, <1>3, <1>4, <1>6, <2>1 DEF Off, SameSelection, Settings
<1>7. ASSUME n \in 1 .. numConfigs(hs), Selects(v, n)
      PROVE  Settings(v)
  <2>. PICK w : w = Unload(r)
    OBVIOUS
  <2>1. /\ w.epSize = Zeros /\ w.epAssoc = r.epAssoc /\ w.halted = {}
    BY <1>2 DEF Unload, Control, Registers, Zeros
  <2>2. \A y \in S : PacketSize(y) \in PktSizes /\ y.ifc \in Interfaces
    BY <1>2, <1>7, OnLemma
  <2>3. Loaded(v, w, S)
    BY <1>7 DEF Selects
  <2>4. /\ v.epSize \in [Endpoints -> PktSizes] /\ v.epAssoc \in [Endpoints -> Interfaces]
        /\ v.halted \in SUBSET Nat
    <3>1. w.epSize \in [Endpoints -> PktSizes] /\ w.epAssoc \in [Endpoints -> Interfaces]
          /\ w.halted \in SUBSET Nat
      BY <1>4, <2>1
    <3>. HIDE DEF S
    <3>. QED
      BY <2>2, <2>3, <3>1, LoadedTypes, Zenon
  <2>5. v.altSettings \in [Interfaces -> 0 .. MaxAlt]
    <3>1. r.altSettings \in [Interfaces -> 0 .. MaxAlt] /\ 0 \in 0 .. MaxAlt
      BY <1>2, TableAssumption DEF Settings
    <3>. QED
      BY <1>7, <3>1 DEF Selects
  <2>6. v.cfgCurr \in 0 .. numConfigs(hs) /\ v.devState = "CONFIGURED"
    BY <1>5, <1>7 DEF Selects
  <2>. QED
    BY <1>2, <1>3, <2>4, <2>5, <2>6 DEF Settings
<1>8. Regs(v)
  BY <1>1, <1>3, <1>6, <1>7 DEF Regs
<1>9. Regs(Status(v)) /\ Regs(Stalled(v))
  BY <1>3, <1>8, StatusTypes, ReadyTypes
<1>10. Regs(r')
  BY <1>1, <1>9
<1>. QED
  BY <1>2, <1>10, AnswerTypes

LEMMA SetInterfaceTypes == ASSUME Types, Selected, SetInterface PROVE Types'
<1>. DEFINE ifc == index(r.parm)
            alt == value(r.parm)
            hs  == r.hiSpeed
            n   == r.cfgCurr
            S   == {y \in EndpointsOf[hs][n] : y.ifc = ifc /\ y.alt = alt}
<1>1. /\ r.state = "STD_REQUEST" /\ UNCHANGED <<queue, host, belief>> /\ Regs(r)
      /\ Control(r) /\ Settings(r) /\ hs \in BOOLEAN
  BY DEF SetInterface, Std, Answer, Types, Regs, Settings
<1>2. CASE r' = Stalled(r)
  BY <1>1, <1>2, ReadyTypes, AnswerTypes
<1>3. CASE r' # Stalled(r)
  <2>1. /\ ifc \in Interfaces /\ alt \in 0 .. MaxAlt /\ n \in 1 .. numConfigs(hs)
        /\ \E v : \/ r' = Stalled(v) /\ Switches(v, ifc, {}) /\ v.altSettings = r.altSettings
                  \/ /\ r' = Status(v) /\ Switches(v, ifc, S)
                     /\ v.altSettings = [r.altSettings EXCEPT ![ifc] = alt]
    BY <1>3, InterfaceLemma, Zenon
  <2>2. PICK v : \/ r' = Stalled(v) /\ Switches(v, ifc, {}) /\ v.altSettings = r.altSettings
                 \/ /\ r' = Status(v) /\ Switches(v, ifc, S)
                    /\ v.altSettings = [r.altSettings EXCEPT ![ifc] = alt]
    BY <2>1
  <2>3. PICK T \in SUBSET S : Switches(v, ifc, T)
    BY <2>2
  <2>4. /\ Control(v) /\ v.state = "STD_REQUEST" /\ v.hiSpeed = hs
        /\ v.devAddr = r.devAddr /\ v.remWakeup = r.remWakeup
        /\ v.cfgCurr = n /\ v.devState = r.devState
    BY <1>1, <2>3, ControlLemma DEF Switches, Kept
  <2>5. \A y \in T : PacketSize(y) \in PktSizes /\ y.ifc \in Interfaces
    BY <1>1, <2>1, <2>3, OnLemma
  <2>. PICK w : w = DeactIfc(r, ifc)
    OBVIOUS
  <2>6. /\ w.epSize = [e \in Endpoints |-> IF r.epAssoc[e] = ifc THEN 0 ELSE r.epSize[e]]
        /\ w.epAssoc = r.epAssoc /\ w.halted = r.halted
    BY <1>1 DEF DeactIfc, Control, Registers
  <2>7. /\ w.epSize \in [Endpoints -> PktSizes] /\ w.epAssoc \in [Endpoints -> Interfaces]
        /\ w.halted \in SUBSET Nat
    <3>1. /\ r.epSize \in [Endpoints -> PktSizes] /\ r.epAssoc \in [Endpoints -> Interfaces]
          /\ r.halted \in SUBSET Nat /\ 0 \in PktSizes
      BY <1>1 DEF Settings, PktSizes
    <3>. QED
      BY <2>6, <3>1
  <2>8. /\ v.epSize \in [Endpoints -> PktSizes] /\ v.epAssoc \in [Endpoints -> Interfaces]
        /\ v.halted \in SUBSET Nat
    <3>1. Loaded(v, w, T)
      BY <2>3 DEF Switches
    <3>. QED
      BY <2>5, <2>7, <3>1, LoadedTypes, Zenon
  <2>9. v.altSettings \in [Interfaces -> 0 .. MaxAlt]
    <3>1. r.altSettings \in [Interfaces -> 0 .. MaxAlt]
      BY <1>1 DEF Settings
    <3>. HIDE DEF alt, ifc
    <3>2. [r.altSettings EXCEPT ![ifc] = alt] \in [Interfaces -> 0 .. MaxAlt]
      BY <2>1, <3>1
    <3>. QED
      BY <2>2, <3>1, <3>2
  <2>10. Settings(v)
    BY <1>1, <2>4, <2>8, <2>9 DEF Settings
  <2>11. Regs(Status(v)) /\ Regs(Stalled(v))
    BY <2>4, <2>10, StatusTypes, ReadyTypes DEF Regs
  <2>12. Regs(r')
    BY <2>2, <2>11
  <2>. QED
    BY <1>1, <2>12, AnswerTypes
<1>. QED
  BY <1>2, <1>3
-----------------------------------------------------------------------------
(* The descriptors: what the device finds in the table is what is in the list. *)

Source(hs, q) ==
  CASE descType(q) = DEVICE -> Section(hs)[1]
    [] descType(q) = DEVICE_QUALIFIER -> Qualifiers(hs)[1]
    [] descType(q) \in {CONFIGURATION, OTHER_SPEED_CONF} -> Whole(tblSelHS(hs, q), value(q) + 1)
    [] descType(q) = STRING_ -> Strings[value(q) + 1]
    [] OTHER -> <<>>
Has(hs, q) ==
  \/ descType(q) = DEVICE
  \/ descType(q) = DEVICE_QUALIFIER /\ Qualifiers(hs) # <<>>
  \/ descType(q) \in {CONFIGURATION, OTHER_SPEED_CONF} /\ value(q) < numConfigs(tblSelHS(hs, q))
  \/ descType(q) = STRING_ /\ value(q) < Len(Strings)

LEMMA SelectLemma ==
  ASSUME NEW hs \in BOOLEAN, NEW q
  PROVE  tblSelHS(hs, q) \in BOOLEAN
  BY DEF tblSelHS

\* The first byte of a descriptor that is found.
LEMMA FirstByteLemma ==
  ASSUME NEW x, NEW d, Found(x, d)
  PROVE  x \in Nat /\ x # NotFound /\ Len(d) \in Nat /\ Len(d) > 0 /\ At(Table, x) = d[1]
<1>1. x \in Nat /\ d \in Bytes /\ d # <<>>
  BY DEF Found
<1>2. Len(d) \in Nat /\ Len(d) > 0
  <2>1. Len(d) \in Nat /\ Len(d) # 0
    BY <1>1, EmptySeq DEF Bytes
  <2>. QED
    BY <2>1
<1>3. 0 \in 0 .. Len(d) - 1 /\ x + 0 = x /\ 0 + 1 = 1
  BY <1>1, <1>2
<1>4. At(Table, x + 0) = d[0 + 1]
  BY <1>3, FoundLemma, ZenonT(60)
<1>. QED
  BY <1>1, <1>2, <1>3, <1>4 DEF NotFound

LEMMA DescriptorLemma ==
  ASSUME NEW hs \in BOOLEAN, NEW q \in Bytes, Len(q) = 8
  PROVE  LET x == DescriptorIdx(hs, q)
             d == Source(hs, q)
         IN  IF Has(hs, q) THEN x # NotFound /\ Found(x, d) /\ DescriptorSize(q, x) = Len(d)
             ELSE x = NotFound
<1>. DEFINE x   == DescriptorIdx(hs, q)
            d   == Source(hs, q)
            sel == tblSelHS(hs, q)
            n   == value(q)
            typ == descType(q)
<1>1. sel \in BOOLEAN /\ (typ # OTHER_SPEED_CONF => sel = hs)
  BY SelectLemma DEF tblSelHS, OtherSpeed
<1>2. n \in 0 .. 255 /\ typ \in 0 .. 255 /\ numConfigs(sel) \in 0 .. 255
  BY <1>1, ParmLemma, NumConfigsLemma
<1>3. ASSUME Found(x, d), DescriptorSize(q, x) = Len(d)
      PROVE  x # NotFound /\ Found(x, d) /\ DescriptorSize(q, x) = Len(d)
  BY <1>3, FirstByteLemma
<1>4. CASE typ = DEVICE
  <2>1. /\ x = selCfgIdxTbl(sel)[1] /\ d = Section(sel)[1] /\ Has(hs, q)
        /\ DescriptorSize(q, x) = At(Table, x)
    BY <1>1, <1>4 DEF DescriptorIdx, Source, Has, DescriptorSize, DEVICE, CONFIGURATION, STRING_,
       DEVICE_QUALIFIER, OTHER_SPEED_CONF
  <2>2. Found(x, d) /\ Len(d) = 18 /\ d[1] = 18
    BY <1>1, <2>1, DevicesAssumption
  <2>. QED
    BY <1>3, <2>1, <2>2, FirstByteLemma
<1>5. CASE typ = DEVICE_QUALIFIER
  <2>. DEFINE both == FS_QUAL_IDX_C > 0 /\ HS_QUAL_IDX_C > 0
  <2>1. /\ x = IF both THEN IF hs THEN HS_QUAL_IDX_C ELSE FS_QUAL_IDX_C ELSE NotFound
        /\ d = Qualifiers(hs)[1] /\ (Has(hs, q) <=> Qualifiers(hs) # <<>>)
        /\ DescriptorSize(q, x) = At(Table, x)
    BY <1>5 DEF DescriptorIdx, Source, Has, DescriptorSize, DEVICE, CONFIGURATION, STRING_,
       DEVICE_QUALIFIER, OTHER_SPEED_CONF
  <2>2. IF both THEN Qualifiers(hs) # <<>> /\ d[1] = Len(d) /\ Found(x, d)
                ELSE Qualifiers(hs) = <<>> /\ x = NotFound
    BY <2>1, QualifiersAssumption
  <2>. QED
    BY <1>3, <2>1, <2>2, FirstByteLemma
<1>6. CASE typ \in {CONFIGURATION, OTHER_SPEED_CONF}
  <2>1. /\ x = IF n < numConfigs(sel) THEN selCfgIdxTbl(sel)[n + 2] ELSE NotFound
        /\ d = Whole(sel, n + 1) /\ (Has(hs, q) <=> n < numConfigs(sel))
        /\ DescriptorSize(q, x) = At(Table, x + 2) + 256 * At(Table, x + 3)
    BY <1>6 DEF DescriptorIdx, Source, Has, DescriptorSize, DEVICE, CONFIGURATION, STRING_,
       DEVICE_QUALIFIER, OTHER_SPEED_CONF
  <2>2. ASSUME n < numConfigs(sel)
        PROVE  Found(x, d) /\ Len(d) = At(Table, x + 2) + 256 * At(Table, x + 3)
    <3>0. \A a, m \in 0 .. 255 : a < m => a + 1 \in 1 .. m
      OBVIOUS
    <3>1. n + 1 \in 1 .. numConfigs(sel)
      BY <1>2, <2>2, <3>0, Zenon
    <3>2. x = ConfigAt(sel, n + 1)
      BY <1>2, <2>1, <2>2 DEF ConfigAt
    <3>. QED
      BY <1>1, <2>1, <3>1, <3>2, ConfigurationsAssumption
  <2>. QED
    BY <1>3, <2>1, <2>2
<1>7. CASE typ = STRING_
  <2>1. /\ x = IF n \in DOMAIN StringIdx THEN StringIdx[n] ELSE NotFound
        /\ d = Strings[n + 1] /\ (Has(hs, q) <=> n < Len(Strings))
        /\ DescriptorSize(q, x) = At(Table, x)
    BY <1>7 DEF DescriptorIdx, Source, Has, DescriptorSize, DEVICE, CONFIGURATION, STRING_,
       DEVICE_QUALIFIER, OTHER_SPEED_CONF
  <2>2. n \in DOMAIN StringIdx <=> n < Len(Strings)
    <3>1. \A a \in 0 .. 255, m \in Nat : a \in 0 .. m - 1 <=> a < m
      OBVIOUS
    <3>2. Len(Strings) \in Nat /\ DOMAIN StringIdx = 0 .. Len(Strings) - 1
      BY StringsAssumption
    <3>3. n \in 0 .. Len(Strings) - 1 <=> n < Len(Strings)
      BY <1>2, <3>1, <3>2, Zenon
    <3>. HIDE DEF n
    <3>. QED
      BY <3>2, <3>3
  <2>3. n \in DOMAIN StringIdx => Found(x, d) /\ d[1] = Len(d)
    BY <2>1, StringsAssumption
  <2>. QED
    BY <1>3, <2>1, <2>2, <2>3, FirstByteLemma
<1>8. CASE typ \notin {DEVICE, DEVICE_QUALIFIER, CONFIGURATION, OTHER_SPEED_CONF, STRING_}
  BY <1>8 DEF DescriptorIdx, Has
<1>. QED
  BY <1>4, <1>5, <1>6, <1>7, <1>8

(* Bytes. *)

LEMMA TextLemma ==
  ASSUME NEW n \in Nat, NEW f \in [1 .. n -> 0 .. 255]
  PROVE  f \in Bytes /\ Len(f) = n
<1>1. f \in Seq(0 .. 255)
  <2>1. Seq(0 .. 255) = UNION {[1 .. m -> 0 .. 255] : m \in Nat}
    BY SeqDef
  <2>2. [1 .. n -> 0 .. 255] \in {[1 .. m -> 0 .. 255] : m \in Nat}
    OBVIOUS
  <2>. QED
    BY <2>1, <2>2
<1>2. Len(f) \in Nat /\ DOMAIN f = 1 .. Len(f) /\ DOMAIN f = 1 .. n
  BY <1>1, LenProperties
<1>3. \A l \in Nat : 1 .. l = 1 .. n => l = n
  <2>. SUFFICES ASSUME NEW l \in Nat, 1 .. l = 1 .. n PROVE l = n
    OBVIOUS
  <2>1. \A k \in Nat : k \in 1 .. l <=> k \in 1 .. n
    OBVIOUS
  <2>2. (l \in 1 .. l \/ l = 0) /\ (n \in 1 .. n \/ n = 0)
    OBVIOUS
  <2>3. l <= n /\ n <= l
    BY <2>1, <2>2
  <2>. QED
    BY <2>3
<1>. QED
  BY <1>1, <1>2, <1>3 DEF Bytes

LEMMA SliceLemma ==
  ASSUME NEW s \in Bytes, NEW n \in 0 .. Len(s)
  PROVE  /\ SubSeq(s, 1, n) \in Bytes /\ Len(SubSeq(s, 1, n)) = n
         /\ SubSeq(s, n + 1, Len(s)) \in Bytes /\ Len(SubSeq(s, n + 1, Len(s))) = Len(s) - n
         /\ SubSeq(s, 1, n) \o SubSeq(s, n + 1, Len(s)) = s
         /\ \A k \in 1 .. n : SubSeq(s, 1, n)[k] = s[k]
<1>1. s \in Seq(0 .. 255) /\ Len(s) \in Nat
  BY DEF Bytes
<1>2. \A k \in 1 .. Len(s) : s[k] \in 0 .. 255
  BY <1>1, ElementOfSeq
<1>3. /\ SubSeq(s, 1, n) \in Seq(0 .. 255) /\ Len(SubSeq(s, 1, n)) = IF 1 <= n THEN n - 1 + 1 ELSE 0
      /\ \A k \in 1 .. n - 1 + 1 : SubSeq(s, 1, n)[k] = s[1 + k - 1]
  BY <1>1, <1>2, SubSeqProperties
<1>4. /\ SubSeq(s, n + 1, Len(s)) \in Seq(0 .. 255)
      /\ Len(SubSeq(s, n + 1, Len(s))) = IF n + 1 <= Len(s) THEN Len(s) - (n + 1) + 1 ELSE 0
  BY <1>1, <1>2, SubSeqProperties
<1>5. SubSeq(s, 1, n) \o SubSeq(s, n + 1, Len(s)) = s
  <2>1. 1 \in 1 .. Len(s) + 1 /\ n \in 1 - 1 .. Len(s) /\ Len(s) \in n .. Len(s)
    BY <1>1
  <2>2. SubSeq(s, 1, n) \o SubSeq(s, n + 1, Len(s)) = SubSeq(s, 1, Len(s))
    BY <1>1, <2>1, ConcatAdjacentSubSeq
  <2>. QED
    BY <1>1, <2>2, SubSeqFull
<1>6. \A k \in 1 .. n : k \in 1 .. n - 1 + 1 /\ 1 + k - 1 = k
  BY <1>1
<1>7. Len(SubSeq(s, 1, n)) = n /\ Len(SubSeq(s, n + 1, Len(s))) = Len(s) - n
  BY <1>1, <1>3, <1>4
<1>. QED
  BY <1>3, <1>4, <1>5, <1>6, <1>7 DEF Bytes

\* What a descriptor is patched to, and what READ_DESCRIPTOR sends of it.
Patched(q, d) == IF OtherSpeed(q) /\ BothSpeeds THEN [d EXCEPT ![2] = OTHER_SPEED_CONF] ELSE d
SentOf(q, x, n) ==
  [k \in 1 .. n |-> IF k = 2 /\ OtherSpeed(q) /\ BothSpeeds THEN OTHER_SPEED_CONF
                    ELSE At(Table, x + k - 1)]

LEMMA SentLemma ==
  ASSUME NEW q, NEW x, NEW d, Found(x, d), NEW n \in 0 .. Len(d)
  PROVE  /\ SentOf(q, x, n) \in Bytes /\ Len(SentOf(q, x, n)) = n
         /\ Patched(q, d) \in Bytes /\ Len(Patched(q, d)) = Len(d)
         /\ SentOf(q, x, n) = SubSeq(Patched(q, d), 1, n)
<1>1. x \in Nat /\ d \in Bytes /\ Len(d) \in Nat /\ n \in Nat
  BY DEF Found, Bytes
<1>2. \A k \in 1 .. Len(d) : At(Table, x + k - 1) = d[k] /\ d[k] \in 0 .. 255
  BY <1>1, ElementOfSeq DEF Found, Bytes
<1>. DEFINE p == Patched(q, d)
            s == SentOf(q, x, n)
            other == OtherSpeed(q) /\ BothSpeeds
<1>3. /\ p \in Bytes /\ Len(p) = Len(d)
      /\ \A k \in 1 .. Len(d) : p[k] = IF k = 2 /\ other THEN OTHER_SPEED_CONF ELSE d[k]
  <2>1. CASE ~other
    BY <1>1, <2>1 DEF Patched
  <2>2. CASE other
    <3>1. p = [d EXCEPT ![2] = OTHER_SPEED_CONF] /\ OTHER_SPEED_CONF \in 0 .. 255
      BY <2>2 DEF Patched, OTHER_SPEED_CONF
    <3>2. CASE 2 \in 1 .. Len(d)
      BY <1>1, <2>2, <3>1, <3>2, ExceptSeq DEF Bytes
    <3>3. CASE 2 \notin 1 .. Len(d)
      <4>1. 2 \notin DOMAIN d
        BY <1>1, <3>3, LenProperties DEF Bytes
      <4>2. p = d
        BY <1>1, <3>1, <4>1 DEF Bytes
      <4>3. \A k \in 1 .. Len(d) : k # 2
        BY <3>3
      <4>. QED
        BY <1>1, <4>2, <4>3
    <3>. QED
      BY <3>2, <3>3
  <2>. QED
    BY <2>1, <2>2
<1>4. \A k \in 1 .. n : k \in 1 .. Len(d)
  BY <1>1
<1>5. \A k \in 1 .. n : s[k] = p[k] /\ s[k] \in 0 .. 255
  <2>. SUFFICES ASSUME NEW k \in 1 .. n PROVE s[k] = p[k] /\ s[k] \in 0 .. 255
    OBVIOUS
  <2>1. k \in 1 .. Len(d) /\ OTHER_SPEED_CONF \in 0 .. 255
    BY <1>4 DEF OTHER_SPEED_CONF
  <2>2. s[k] = IF k = 2 /\ other THEN OTHER_SPEED_CONF ELSE At(Table, x + k - 1)
    BY DEF SentOf
  <2>3. s[k] = IF k = 2 /\ other THEN OTHER_SPEED_CONF ELSE d[k]
    BY <1>2, <2>1, <2>2
  <2>. QED
    BY <1>2, <1>3, <2>1, <2>3
<1>6. s \in [1 .. n -> 0 .. 255]
  <2>1. s = [k \in 1 .. n |-> s[k]]
    BY DEF SentOf
  <2>. QED
    BY <1>5, <2>1
<1>7. s \in Bytes /\ Len(s) = n
  BY <1>1, <1>6, TextLemma
<1>. HIDE DEF s, p
<1>8. /\ SubSeq(p, 1, n) \in Bytes /\ Len(SubSeq(p, 1, n)) = n
      /\ \A k \in 1 .. n : SubSeq(p, 1, n)[k] = p[k]
  BY <1>3, SliceLemma
<1>9. s = SubSeq(p, 1, n)
  <2>1. \A k \in 1 .. Len(s) : s[k] = SubSeq(p, 1, n)[k]
    BY <1>5, <1>7, <1>8
  <2>. QED
    BY <1>7, <1>8, <2>1, SeqEqual DEF Bytes
<1>. QED
  BY <1>3, <1>7, <1>9 DEF s, p

\* What GET_DESCRIPTOR does.
LEMMA ReadLemma ==
  ASSUME Types, GetDescriptor
  PROVE  LET q == r.parm
             d == Source(r.hiSpeed, q)
             n == Least(length(q), Len(d))
         IN  IF Has(r.hiSpeed, q)
               THEN /\ d \in Bytes /\ Len(Patched(q, d)) = Len(d) /\ Patched(q, d) \in Bytes
                    /\ n \in 0 .. Len(d)
                    /\ \E match : r' = [r EXCEPT !.state = "READ_DESCRIPTOR",
                                                 !.out = SubSeq(Patched(q, d), 1, n),
                                                 !.sizeMatch = match]
               ELSE r' = Stalled(r)
<1>. DEFINE q    == r.parm
            hs   == r.hiSpeed
            x    == DescriptorIdx(hs, q)
            size == DescriptorSize(q, x)
            d    == Source(hs, q)
<1>1. r.state = "STD_REQUEST" /\ hs \in BOOLEAN
  BY DEF GetDescriptor, Std, Types, Regs, Settings
<1>2. q \in Bytes /\ Len(q) = 8 /\ length(q) \in Nat
  BY <1>1, ServedLemma
<1>3. IF Has(hs, q) THEN x # NotFound /\ Found(x, d) /\ size = Len(d) ELSE x = NotFound
  BY <1>1, <1>2, DescriptorLemma
<1>4. IF x = NotFound THEN r' = Stalled(r)
      ELSE \E match : r' = [r EXCEPT !.state = "READ_DESCRIPTOR",
                                     !.out = SentOf(q, x, Least(length(q), size)),
                                     !.sizeMatch = match]
  BY DEF GetDescriptor, Answer, SentOf
<1>. HIDE DEF x, size, d, q, hs
<1>5. ASSUME Has(hs, q)
      PROVE  /\ d \in Bytes /\ Len(Patched(q, d)) = Len(d) /\ Patched(q, d) \in Bytes
             /\ Least(length(q), size) \in 0 .. Len(d)
             /\ SentOf(q, x, Least(length(q), size)) = SubSeq(Patched(q, d), 1, Least(length(q), size))
  <2>1. Found(x, d) /\ size = Len(d)
    BY <1>3, <1>5
  <2>2. d \in Bytes /\ Len(d) \in Nat
    BY <2>1 DEF Found, Bytes
  <2>3. Least(length(q), size) \in 0 .. Len(d)
    BY <1>2, <2>1, <2>2 DEF Least
  <2>. QED
    BY <2>1, <2>2, <2>3, SentLemma
<1>6. CASE Has(hs, q)
  <2>1. size = Len(d) /\ x # NotFound
    BY <1>3, <1>6
  <2>2. \E match : r' = [r EXCEPT !.state = "READ_DESCRIPTOR",
                                  !.out = SubSeq(Patched(q, d), 1, Least(length(q), Len(d))),
                                  !.sizeMatch = match]
    BY <1>4, <1>5, <1>6, <2>1
  <2>. QED
    BY <1>5, <1>6, <2>1, <2>2, Zenon DEF d, q, hs
<1>7. CASE ~Has(hs, q)
  <2>1. r' = Stalled(r)
    BY <1>3, <1>4, <1>7
  <2>. QED
    BY <1>7, <2>1, Zenon DEF q, hs
<1>. QED
  BY <1>6, <1>7

LEMMA GetDescriptorTypes == ASSUME Types, GetDescriptor PROVE Types'
<1>. DEFINE p == Patched(r.parm, Source(r.hiSpeed, r.parm))
<1>1. /\ r.state = "STD_REQUEST" /\ UNCHANGED <<queue, host, belief>> /\ Regs(r)
      /\ Control(r) /\ Settings(r)
  BY DEF GetDescriptor, Std, Answer, Types, Regs
<1>2. CASE r' = Stalled(r)
  BY <1>1, <1>2, ReadyTypes, AnswerTypes
<1>3. CASE r' # Stalled(r)
  <2>1. PICK n, match : /\ p \in Bytes /\ n \in 0 .. Len(p)
                        /\ r' = [r EXCEPT !.state = "READ_DESCRIPTOR",
                                          !.out = SubSeq(p, 1, n), !.sizeMatch = match]
    BY <1>3, ReadLemma
  <2>. PICK out : out = SubSeq(p, 1, n)
    OBVIOUS
  <2>2. out \in Bytes
    BY <2>1, SliceLemma
  <2>3. Control(r')
    BY <1>1, <2>1, <2>2 DEF Control, Registers, States
  <2>4. SameSettings(r', r)
    BY <1>1, <2>1 DEF SameSettings, Setting, Control, Registers
  <2>5. Regs(r')
    BY <1>1, <2>3, <2>4, SettingsLemma DEF Regs
  <2>. QED
    BY <1>1, <2>5, AnswerTypes
<1>. QED
  BY <1>2, <1>3
-----------------------------------------------------------------------------
(* The types after the other steps. *)

LEMMA QueueLemma ==
  ASSUME NEW s \in Seq(Bytes), s # <<>>
  PROVE  /\ Head(s) \in Bytes /\ Tail(s) \in Seq(Bytes)
         /\ \A b \in Bytes : [s EXCEPT ![1] = b] \in Seq(Bytes)
<1>1. Head(s) \in Bytes /\ Tail(s) \in Seq(Bytes)
  BY HeadTailProperties
<1>2. 1 \in 1 .. Len(s)
  <2>1. Len(s) \in Nat /\ Len(s) # 0
    BY EmptySeq
  <2>. QED
    BY <2>1
<1>. QED
  BY <1>1, <1>2, ExceptSeq

LEMMA TakeSetupTypes == ASSUME Types, TakeSetup PROVE Types'
<1>. DEFINE first == Head(queue)
            l     == 8 - Len(r.parm)
            n     == Least(l, Len(first))
            parm  == r.parm \o SubSeq(first, 1, n)
            rest  == SubSeq(first, n + 1, Len(first))
<1>1. /\ queue # <<>> /\ r.state = "GET_PARAMS" /\ UNCHANGED <<host, belief>>
      /\ r' = IF Len(parm) = 8
                THEN [r EXCEPT !.parm = parm, !.stall = FALSE, !.state = "WAIT_EXT", !.vld = TRUE]
                ELSE [r EXCEPT !.parm = parm, !.stall = FALSE]
      /\ queue' = IF rest = <<>> THEN Tail(queue) ELSE [queue EXCEPT ![1] = rest]
  BY DEF TakeSetup
<1>2. Control(r) /\ Settings(r) /\ Link(queue, host, belief)
  BY DEF Types, Regs
<1>3. first \in Bytes /\ Tail(queue) \in Seq(Bytes) /\ \A b \in Bytes : [queue EXCEPT ![1] = b] \in Seq(Bytes)
  BY <1>1, <1>2, QueueLemma DEF Link
<1>4. r.parm \in Bytes /\ Len(r.parm) \in 0 .. 7 /\ Len(first) \in Nat
  <2>1. \A m \in 0 .. 8 : m < 8 => m \in 0 .. 7
    OBVIOUS
  <2>2. r.parm \in Bytes /\ Len(r.parm) \in 0 .. 8 /\ Len(r.parm) < 8
    BY <1>1, <1>2 DEF Control
  <2>3. Len(first) \in Nat
    BY <1>3 DEF Bytes
  <2>. QED
    BY <2>1, <2>2, <2>3, Zenon
<1>5. n \in 0 .. Len(first) /\ Len(r.parm) + n \in 0 .. 8
  <2>1. \A m \in 0 .. 7, k \in Nat : Least(8 - m, k) \in 0 .. k /\ m + Least(8 - m, k) \in 0 .. 8
    BY DEF Least
  <2>. QED
    BY <1>4, <2>1, Zenon
<1>. HIDE DEF first, n, l
<1>6. SubSeq(first, 1, n) \in Bytes /\ Len(SubSeq(first, 1, n)) = n /\ rest \in Bytes
  BY <1>3, <1>5, SliceLemma
<1>7. parm \in Bytes /\ Len(parm) = Len(r.parm) + n
  BY <1>4, <1>6, ConcatProperties DEF Bytes
<1>. HIDE DEF parm, rest
<1>8. Len(parm) \in 0 .. 8 /\ (Len(parm) < 8 <=> Len(parm) # 8)
  <2>1. \A m \in 0 .. 8 : m < 8 <=> m # 8
    OBVIOUS
  <2>2. Len(parm) \in 0 .. 8
    BY <1>5, <1>7
  <2>. QED
    BY <2>1, <2>2, Zenon
<1>9. Control(r')
  <2>1. DOMAIN r = Registers /\ r.out = <<>>
    BY <1>1, <1>2 DEF Control
  <2>2. /\ DOMAIN r' = Registers /\ r'.parm = parm /\ r'.stall = FALSE /\ r'.out = <<>>
        /\ r'.state = IF Len(parm) = 8 THEN "WAIT_EXT" ELSE "GET_PARAMS"
    BY <1>1, <2>1 DEF Registers
  <2>. QED
    BY <1>7, <1>8, <2>2, BytesLemma DEF Control, States
<1>10. SameSettings(r', r)
  BY <1>1, <1>2 DEF SameSettings, Setting, Control, Registers
<1>11. queue' \in Seq(Bytes)
  BY <1>1, <1>3, <1>6
<1>. QED
  BY <1>1, <1>2, <1>9, <1>10, <1>11, SettingsLemma DEF Types, Regs, Link

LEMMA LoseByteTypes == ASSUME Types, LoseByte PROVE Types'
<1>1. /\ queue # <<>> /\ Head(queue) # <<>> /\ UNCHANGED <<r, host, belief>>
      /\ queue' = Tail(queue) \/ queue' = [queue EXCEPT ![1] = Tail(@)]
  BY DEF LoseByte
<1>2. queue \in Seq(Bytes) /\ Link(queue, host, belief)
  BY DEF Types, Link
<1>3. /\ Head(queue) \in Bytes /\ Head(queue) = queue[1] /\ Tail(queue) \in Seq(Bytes)
      /\ \A b \in Bytes : [queue EXCEPT ![1] = b] \in Seq(Bytes)
  BY <1>1, <1>2, QueueLemma, HeadTailProperties
<1>4. Tail(Head(queue)) \in Bytes
  BY <1>1, <1>3, HeadTailProperties DEF Bytes
<1>5. queue' \in Seq(Bytes)
  BY <1>1, <1>3, <1>4
<1>. QED
  BY <1>1, <1>2, <1>5 DEF Types, Link

LEMMA StatusOutTypes == ASSUME Types, StatusOut PROVE Types'
<1>1. /\ queue # <<>> /\ UNCHANGED <<host, belief>> /\ queue' = Tail(queue)
      /\ r' = Ready(r) \/ r' = r
  BY DEF StatusOut
<1>2. queue' \in Seq(Bytes)
  BY <1>1, QueueLemma DEF Types, Link
<1>3. Regs(r')
  BY <1>1, ReadyTypes DEF Types
<1>. QED
  BY <1>1, <1>2, <1>3 DEF Types, Link

\* Registers that no property of a transfer is about.
LEMMA ControlStep ==
  ASSUME NEW v, NEW w, Regs(v), SameSettings(w, v), DOMAIN w = Registers,
         w.parm = v.parm, w.stall \in BOOLEAN, w.out = v.out, w.state \in States,
         v.out # <<>> => w.state = v.state, w.state = "GET_PARAMS" <=> v.state = "GET_PARAMS"
  PROVE  Regs(w)
<1>1. Control(w)
  BY DEF Regs, Control
<1>. QED
  BY <1>1, SettingsLemma DEF Regs

LEMMA TokOutTypes ==
  ASSUME NEW v, Regs(v)
  PROVE  Regs(TokOutSeen(v)) /\ SameSettings(TokOutSeen(v), v)
<1>1. SameSettings(v, v)
  BY DEF SameSettings
<1>2. DOMAIN v = Registers
  BY DEF Regs, Control
<1>3. \/ TokOutSeen(v) = v
      \/ v.state # "GET_PARAMS" /\ TokOutSeen(v) \in {Status(v), [Status(v) EXCEPT !.vld = FALSE]}
  BY DEF TokOutSeen
<1>. QED
  BY <1>1, <1>2, <1>3, StatusTypes, EndsLemma

LEMMA AgentTypes == ASSUME IInv, Types, AgentNext PROVE Types'
<1>1. Regs(r) /\ Control(r) /\ Settings(r) /\ DOMAIN r = Registers /\ Link(queue, host, belief)
  BY DEF Types, Regs, Control
<1>2. UNCHANGED <<queue, belief>>
  BY DEF AgentNext, AgentRefuses, AgentAccepts, AgentSends, AgentDone, AgentStep
<1>3. CASE AgentSends
  <2>. DEFINE sent == [k \in 1 .. length(r.parm) |-> 0]
  <2>1. /\ r.state = "WAIT_EXT_DONE" /\ r' = r
        /\ host' = [host EXCEPT !.phase = "status", !.got = sent]
    BY <1>3 DEF AgentSends
  <2>2. length(r.parm) \in Nat
    BY <2>1, ServedLemma
  <2>3. sent \in [1 .. length(r.parm) -> 0 .. 255]
    OBVIOUS
  <2>. HIDE DEF sent
  <2>4. sent \in Bytes
    BY <2>2, <2>3, TextLemma
  <2>5. host'.got = sent /\ host'.cut = host.cut
    BY <2>1 DEF IInv, Shape
  <2>. QED
    BY <1>1, <1>2, <2>1, <2>4, <2>5 DEF Types, Link
<1>4. CASE AgentRefuses \/ AgentAccepts \/ AgentDone
  <2>1. /\ r.state \in {"WAIT_EXT", "WAIT_EXT_DONE"} /\ host' = host
        /\ \/ r' = [r EXCEPT !.state = "STD_REQUEST", !.vld = FALSE]
           \/ r' = [r EXCEPT !.state = "WAIT_EXT_DONE"]
           \/ r' = [Status(r) EXCEPT !.vld = FALSE]
           \/ r' = [Stalled(r) EXCEPT !.vld = FALSE]
    BY <1>4 DEF AgentRefuses, AgentAccepts, AgentDone, AgentStep
  <2>2. ASSUME r' = [r EXCEPT !.state = "STD_REQUEST", !.vld = FALSE]
      PROVE  Regs(r')
    <3>1. /\ DOMAIN r' = Registers /\ r'.parm = r.parm /\ r'.stall = r.stall
          /\ r'.out = r.out /\ r'.state = "STD_REQUEST" /\ SameSettings(r', r)
      BY <1>1, <2>2 DEF Registers, SameSettings, Setting
    <3>. QED
      BY <1>1, <2>1, <3>1, ControlStep DEF Control, States
  <2>3. ASSUME r' = [r EXCEPT !.state = "WAIT_EXT_DONE"]
      PROVE  Regs(r')
    <3>1. /\ DOMAIN r' = Registers /\ r'.parm = r.parm /\ r'.stall = r.stall
          /\ r'.out = r.out /\ r'.state = "WAIT_EXT_DONE" /\ SameSettings(r', r)
      BY <1>1, <2>3 DEF Registers, SameSettings, Setting
    <3>. QED
      BY <1>1, <2>1, <3>1, ControlStep DEF Control, States
  <2>4. ASSUME r' = [Status(r) EXCEPT !.vld = FALSE]
      PROVE  Regs(r')
    BY <1>1, <2>1, <2>4, StatusTypes
  <2>5. ASSUME r' = [Stalled(r) EXCEPT !.vld = FALSE]
      PROVE  Regs(r')
    <3>. PICK v : v = Stalled(r)
      OBVIOUS
    <3>1. Regs(v)
      BY <1>1, ReadyTypes
    <3>2. Control(v) /\ DOMAIN v = Registers
      BY <3>1 DEF Regs, Control
    <3>3. /\ DOMAIN r' = Registers /\ r'.parm = v.parm /\ r'.stall = v.stall
          /\ r'.out = v.out /\ r'.state = v.state /\ SameSettings(r', v)
      BY <2>5, <3>2 DEF Registers, SameSettings, Setting
    <3>. QED
      BY <3>1, <3>2, <3>3, ControlStep DEF Control
  <2>6. Regs(r')
    BY <2>1, <2>2, <2>3, <2>4, <2>5
  <2>. QED
    BY <1>1, <1>2, <2>1, <2>6 DEF Types
<1>. QED
  BY <1>3, <1>4 DEF AgentNext

LEMMA HostSetupTypes == ASSUME IInv, Types, HostSetup \/ HostSetupData PROVE Types'
<1>1. Regs(r) /\ Control(r) /\ DOMAIN r = Registers /\ Link(queue, host, belief)
  BY DEF Types, Regs, Control
<1>2. CASE HostSetup
  <2>1. /\ r' = SetupToken(r, host.addr) /\ UNCHANGED <<queue, belief>>
        /\ \E q : host' = [host EXCEPT !.phase = "setup", !.req = q]
    BY <1>2 DEF HostSetup
  <2>2. host'.got = host.got /\ host'.cut = host.cut
    BY <2>1 DEF IInv, Shape
  <2>3. /\ DOMAIN r' = Registers /\ r'.parm = r.parm /\ r'.state = r.state /\ r'.out = r.out
        /\ r'.stall \in {FALSE, r.stall} /\ SameSettings(r', r)
    BY <1>1, <2>1 DEF SetupToken, Registers, SameSettings, Setting
  <2>4. Regs(r')
    BY <1>1, <2>3, ControlStep DEF Control
  <2>. QED
    BY <1>1, <2>1, <2>2, <2>4 DEF Types, Link
<1>3. CASE HostSetupData
  <2>1. UNCHANGED <<r, belief>> /\ queue' = Append(queue, host.req) /\ host.req \in Requests
    BY <1>3 DEF HostSetupData, IInv, Shape
  <2>2. host'.got = host.got /\ host'.cut = host.cut
    BY <1>3 DEF HostSetupData, IInv, Shape
  <2>3. host.req \in Bytes /\ queue \in Seq(Bytes)
    BY <1>1, <2>1, RequestLemma DEF Link
  <2>4. queue' \in Seq(Bytes)
    BY <2>1, <2>3, AppendProperties
  <2>. QED
    BY <1>1, <2>1, <2>2, <2>4 DEF Types, Link
<1>. QED
  BY <1>2, <1>3

LEMMA PacketLemma ==
  ASSUME Types
  PROVE  maxPktSize \in Nat
<1>. DEFINE x == FS_CFG_IDX_TABLE_C[1]
<1>1. selCfgIdxTbl(FALSE) = FS_CFG_IDX_TABLE_C
  BY DEF selCfgIdxTbl
<1>2. PICK d : Found(x, d) /\ Len(d) = 18
  BY <1>1, DevicesAssumption
<1>. HIDE DEF x
<1>3. \A j \in 0 .. Len(d) - 1 : At(Table, x + j) \in 0 .. 255
  BY <1>2, FoundLemma, Zenon
<1>4. At(Table, x + 7) \in 0 .. 255
  BY <1>2, <1>3
<1>. QED
  BY <1>4 DEF maxPktSize, x

\* A packet of the data stage.
LEMMA DataLemma ==
  ASSUME Types
  PROVE  LET n == Least(maxPktSize, Len(r.out))
         IN  /\ r.out \in Bytes /\ Len(r.out) \in Nat /\ n \in 0 .. Len(r.out)
             /\ SubSeq(r.out, 1, n) \in Bytes /\ SubSeq(r.out, n + 1, Len(r.out)) \in Bytes
             /\ SubSeq(r.out, 1, n) \o SubSeq(r.out, n + 1, Len(r.out)) = r.out
<1>. PICK out : out = r.out
  OBVIOUS
<1>. PICK m : m = maxPktSize
  OBVIOUS
<1>1. out \in Bytes /\ Len(out) \in Nat /\ m \in Nat
  BY PacketLemma DEF Types, Regs, Control, Bytes
<1>2. Least(m, Len(out)) \in 0 .. Len(out)
  BY <1>1 DEF Least
<1>. QED
  BY <1>1, <1>2, SliceLemma, Zenon

LEMMA HostInTypes == ASSUME IInv, Types, HostIn PROVE Types'
<1>. DEFINE n     == Least(maxPktSize, Len(r.out))
            bytes == SubSeq(r.out, 1, n)
            rest  == SubSeq(r.out, n + 1, Len(r.out))
            got   == host.got \o bytes
<1>1. Regs(r) /\ Control(r) /\ DOMAIN r = Registers /\ Link(queue, host, belief)
  BY DEF Types, Regs, Control
<1>2. /\ UNCHANGED <<queue, belief>> /\ r.state \in {"READ_DESCRIPTOR", "RETURN_VALUE"}
      /\ \/ r' = Status(r)
         \/ r' = [r EXCEPT !.out = rest]
         \/ r' = [r EXCEPT !.out = <<>>]
      /\ \E phase : \/ host' = [host EXCEPT !.got = got, !.phase = phase]
                    \/ host' = [[host EXCEPT !.got = got, !.phase = phase]
                                  EXCEPT !.phase = "data", !.open = TRUE]
                    \/ host' = [[host EXCEPT !.got = got, !.phase = phase] EXCEPT !.phase = "status"]
  BY DEF HostIn, Sent
<1>3. bytes \in Bytes /\ rest \in Bytes
  BY DataLemma
<1>. HIDE DEF n, bytes, rest
<1>4. got \in Bytes
  BY <1>1, <1>3, ConcatProperties DEF Link, Bytes
<1>. HIDE DEF got
<1>5. host'.got = got /\ host'.cut = host.cut
  BY <1>2 DEF IInv, Shape
<1>6. ASSUME NEW out \in Bytes, r' = [r EXCEPT !.out = out]
      PROVE  Regs(r')
  <2>1. Control(r')
    BY <1>1, <1>2, <1>6 DEF Control, Registers
  <2>2. SameSettings(r', r)
    BY <1>1, <1>6 DEF SameSettings, Setting, Registers
  <2>. QED
    BY <1>1, <2>1, <2>2, SettingsLemma DEF Regs
<1>7. Regs(r')
  BY <1>1, <1>2, <1>3, <1>6, StatusTypes, BytesLemma, ZenonT(60)
<1>. QED
  BY <1>1, <1>2, <1>4, <1>5, <1>7 DEF Types, Link

LEMMA IdleTypes ==
  ASSUME NEW a
  PROVE  Idle(a).got \in Bytes /\ Idle(a).cut \in BOOLEAN
  BY BytesLemma DEF Idle

LEMMA HostStatusTypes == ASSUME IInv, Types, HostStatusOut \/ HostStatusIn PROVE Types'
<1>1. Regs(r) /\ Settings(r) /\ DOMAIN r = Registers /\ Link(queue, host, belief)
  BY DEF Types, Regs, Control
<1>2. CASE HostStatusOut
  <2>1. /\ r' = TokOutSeen(r) /\ UNCHANGED belief
        /\ queue' = queue \/ queue' = Append(queue, <<>>)
        /\ host' = host \/ host' = Idle(host.addr)
    BY <1>2 DEF HostStatusOut
  <2>2. queue' \in Seq(Bytes)
    BY <1>1, <2>1, BytesLemma, AppendProperties DEF Link
  <2>. QED
    BY <1>1, <2>1, <2>2, TokOutTypes, IdleTypes DEF Types, Link
<1>3. CASE HostStatusIn
  <2>. DEFINE addr == value(r.parm) % 128
              v    == [Ready(r) EXCEPT !.devAddr = addr, !.devState = IF addr = 0 THEN "DEFLT" ELSE "ADDRESS"]
  <2>1. /\ r.state = "STATUS" /\ UNCHANGED <<queue, belief>>
        /\ host' = [host EXCEPT !.phase = "acking"]
        /\ r' = Ready(r) \/ r' = v
    BY <1>3 DEF HostStatusIn
  <2>2. addr \in 0 .. 127
    <3>1. value(r.parm) \in 0 .. 255
      BY <2>1, ServedLemma
    <3>. QED
      BY <3>1
  <2>. HIDE DEF addr
  <2>3. Regs(Ready(r)) /\ Control(Ready(r)) /\ Settings(Ready(r)) /\ DOMAIN Ready(r) = Registers
    BY <1>1, ReadyTypes DEF Regs, Control
  <2>. PICK w : w = Ready(r)
    OBVIOUS
  <2>4. Regs(v)
    <3>1. v = [w EXCEPT !.devAddr = addr, !.devState = IF addr = 0 THEN "DEFLT" ELSE "ADDRESS"]
      OBVIOUS
    <3>2. SameControl(v, w)
      BY <2>3, <3>1 DEF SameControl, Registers
    <3>3. Settings(v)
      BY <2>2, <2>3, <3>1 DEF Settings, Registers
    <3>. QED
      BY <2>3, <3>2, <3>3, ControlLemma DEF Regs
  <2>5. host'.got = host.got /\ host'.cut = host.cut
    BY <2>1 DEF IInv, Shape
  <2>. QED
    BY <1>1, <2>1, <2>3, <2>4, <2>5 DEF Types, Link
<1>. QED
  BY <1>2, <1>3

LEMMA LearnTypes ==
  ASSUME NEW hs, NEW b \in Beliefs, NEW q \in Requests
  PROVE  Learn(hs, b, q) \in Beliefs
<1>1. value(q) \in 0 .. 255 /\ epAddr(q) \in Nat
  BY RequestLemma
<1>2. \E w \in BOOLEAN, S \in SUBSET Nat :
        \/ Learn(hs, b, q) = [NoBelief EXCEPT !.cfg = value(q), !.wakeup = b.wakeup]
        \/ Learn(hs, b, q) = [b EXCEPT !.alt[index(q)] = value(q), !.halted = S]
        \/ Learn(hs, b, q) = [b EXCEPT !.halted = S]
        \/ Learn(hs, b, q) = [b EXCEPT !.wakeup = w]
        \/ Learn(hs, b, q) = b
  <2>. DEFINE Of(ifc, f) == \E x \in EndpointsOf[hs][b.cfg] : At(x.dsc, 2) = f /\ x.ifc = ifc
              A == {f \in b.halted : ~Of(index(q), f)}
              B == b.halted \cup {epAddr(q)}
              C == b.halted \ {epAddr(q)}
  <2>1. A \in SUBSET Nat /\ B \in SUBSET Nat /\ C \in SUBSET Nat
    BY <1>1 DEF Beliefs
  <2>2. (request(q) = SET_FEATURE) \in BOOLEAN
    OBVIOUS
  <2>3. \/ Learn(hs, b, q) = [NoBelief EXCEPT !.cfg = value(q), !.wakeup = b.wakeup]
        \/ Learn(hs, b, q) = [b EXCEPT !.alt[index(q)] = value(q), !.halted = A]
        \/ Learn(hs, b, q) = [b EXCEPT !.halted = B]
        \/ Learn(hs, b, q) = [b EXCEPT !.halted = C]
        \/ Learn(hs, b, q) = [b EXCEPT !.wakeup = request(q) = SET_FEATURE]
        \/ Learn(hs, b, q) = b
    BY DEF Learn
  <2>. HIDE DEF A, B, C
  <2>. QED
    BY <2>1, <2>2, <2>3
<1>3. 0 \in 0 .. 255 /\ NoBelief \in Beliefs
  BY DEF NoBelief, Beliefs
<1>4. [NoBelief EXCEPT !.cfg = value(q), !.wakeup = b.wakeup] \in Beliefs
  BY <1>1, <1>3 DEF Beliefs
<1>5. ASSUME NEW S \in SUBSET Nat
      PROVE  [b EXCEPT !.alt[index(q)] = value(q), !.halted = S] \in Beliefs
  <2>1. [b.alt EXCEPT ![index(q)] = value(q)] \in [Interfaces -> 0 .. 255]
    BY <1>1 DEF Beliefs
  <2>. QED
    BY <2>1 DEF Beliefs
<1>6. ASSUME NEW S \in SUBSET Nat, NEW w \in BOOLEAN
      PROVE  [b EXCEPT !.halted = S] \in Beliefs /\ [b EXCEPT !.wakeup = w] \in Beliefs
  BY DEF Beliefs
<1>. QED
  BY <1>2, <1>4, <1>5, <1>6

LEMMA HostEndsTypes ==
  ASSUME IInv, Types, HostAcks \/ HostStalled \/ HostStops \/ HostAbandons
  PROVE  Types'
<1>1. Regs(r) /\ Link(queue, host, belief) /\ belief \in Beliefs
  BY DEF Types, Link
<1>2. UNCHANGED <<r, queue>>
  BY DEF HostAcks, HostStalled, HostStops, HostAbandons
<1>3. host'.got \in Bytes /\ host'.cut \in BOOLEAN
  <2>1. \/ \E a : host' = Idle(a)
        \/ host' = [host EXCEPT !.phase = "status", !.cut = TRUE]
    BY DEF HostAcks, HostStalled, HostStops, HostAbandons
  <2>. QED
    BY <1>1, <2>1, IdleTypes DEF Link, IInv, Shape
<1>4. belief' \in Beliefs
  <2>1. CASE HostAcks
    BY <1>1, <2>1, LearnTypes DEF HostAcks, IInv, Shape
  <2>2. CASE HostStalled
    BY <1>1, <2>2 DEF HostStalled, Beliefs
  <2>3. CASE HostStops \/ HostAbandons
    BY <1>1, <2>3 DEF HostStops, HostAbandons
  <2>. QED
    BY <2>1, <2>2, <2>3
<1>. QED
  BY <1>1, <1>2, <1>3, <1>4 DEF Types, Link

LEMMA StartTypes ==
  ASSUME NEW hs \in BOOLEAN
  PROVE  Regs(RInit(hs)) /\ Link(<<>>, Idle(0), NoBelief)
<1>1. NoBelief \in Beliefs
  BY DEF NoBelief, Beliefs
<1>2. Link(<<>>, Idle(0), NoBelief)
  BY <1>1, IdleTypes, EmptySeq DEF Link
<1>3. Control(RInit(hs))
  <2>. PICK v : v = RInit(hs)
    OBVIOUS
  <2>1. /\ DOMAIN v = Registers /\ v.state = "GET_PARAMS" /\ v.stall \in BOOLEAN
        /\ v.parm = <<>> /\ v.out = <<>>
    BY DEF RInit, Registers
  <2>2. /\ v.parm \in Bytes /\ Len(v.parm) = 0 /\ v.out \in Bytes
    BY <2>1, BytesLemma
  <2>3. Control(v)
    BY <2>1, <2>2 DEF Control, States
  <2>. QED
    BY <2>3
<1>4. Settings(RInit(hs))
  <2>1. 0 \in PktSizes /\ 0 \in Interfaces /\ 0 \in 0 .. MaxAlt /\ 0 \in 0 .. numConfigs(hs)
    BY TableAssumption, NumConfigsLemma DEF PktSizes
  <2>2. /\ [e \in Endpoints |-> 0] \in [Endpoints -> PktSizes]
        /\ [e \in Endpoints |-> 0] \in [Endpoints -> Interfaces]
        /\ [i \in Interfaces |-> 0] \in [Interfaces -> 0 .. MaxAlt]
    BY <2>1
  <2>. QED
    BY <2>1, <2>2 DEF Settings, RInit
<1>. QED
  BY <1>2, <1>3, <1>4 DEF Regs

LEMMA DisturbedTypes == ASSUME IInv, Types, ForeignToken \/ BusReset PROVE Types'
<1>1. CASE ForeignToken
  <2>1. /\ UNCHANGED <<queue, host, belief>>
        /\ r' = TokOutSeen(r) \/ r' = [r EXCEPT !.vld = FALSE]
    BY <1>1 DEF ForeignToken
  <2>2. Regs(r) /\ Control(r) /\ DOMAIN r = Registers
    BY DEF Types, Regs, Control
  <2>3. ASSUME r' = [r EXCEPT !.vld = FALSE] PROVE Regs(r')
    <3>1. /\ DOMAIN r' = Registers /\ r'.parm = r.parm /\ r'.state = r.state /\ r'.out = r.out
          /\ r'.stall = r.stall /\ SameSettings(r', r)
      BY <2>2, <2>3 DEF Registers, SameSettings, Setting
    <3>. QED
      BY <2>2, <3>1, ControlStep DEF Control
  <2>. QED
    BY <2>1, <2>2, <2>3, TokOutTypes, AnswerTypes
<1>2. CASE BusReset
  BY <1>2, StartTypes DEF BusReset, Types
<1>. QED
  BY <1>1, <1>2

LEMMA TypesInit == Init => Types
  BY StartTypes DEF Init, Types

LEMMA TypesStep == ASSUME IInv, Types, Selected, [Next]_vars PROVE Types'
<1>1. CASE UNCHANGED vars
  BY <1>1 DEF vars, Types
<1>2. CASE EngineNext
  BY <1>2, TakeSetupTypes, LoseByteTypes, StatusOutTypes, FeatureTypes, GetTypes,
     SetConfigurationTypes, SetInterfaceTypes, GetDescriptorTypes DEF EngineNext
<1>3. CASE HostNext
  BY <1>3, HostSetupTypes, HostInTypes, HostStatusTypes, HostEndsTypes DEF HostNext
<1>4. CASE AgentNext
  BY <1>4, AgentTypes
<1>5. CASE HostSetup \/ HostStops \/ ForeignToken \/ HostAbandons \/ BusReset
  BY <1>5, HostSetupTypes, HostEndsTypes, DisturbedTypes
<1>. QED
  BY <1>1, <1>2, <1>3, <1>4, <1>5 DEF Next
-----------------------------------------------------------------------------
(* The settings: which steps leave them alone, and what the others do to the *)
(* endpoints in use.                                                         *)

LEMMA QuietEngine ==
  ASSUME Types, \/ TakeSetup \/ LoseByte \/ StatusOut \/ GetConfiguration \/ GetInterface
                \/ GetStatus \/ SetAddress \/ GetDescriptor \/ OtherRequest
  PROVE  SameSettings(r', r)
<1>1. DOMAIN r = Registers
  BY DEF Types, Regs, Control
<1>2. CASE TakeSetup
  <2>1. \E parm : \/ r' = [r EXCEPT !.parm = parm, !.stall = FALSE, !.state = "WAIT_EXT", !.vld = TRUE]
                  \/ r' = [r EXCEPT !.parm = parm, !.stall = FALSE]
    BY <1>2 DEF TakeSetup
  <2>. QED
    BY <1>1, <2>1 DEF SameSettings, Setting, Registers
<1>3. CASE LoseByte
  BY <1>3 DEF LoseByte, SameSettings
<1>4. CASE StatusOut \/ GetConfiguration \/ GetInterface \/ GetStatus \/ SetAddress \/ OtherRequest
  <2>1. \/ r' = r \/ r' = Ready(r) \/ r' = Status(r) \/ r' = Stalled(r) \/ \E b : r' = Return(r, b)
    BY <1>4 DEF StatusOut, GetConfiguration, GetInterface, GetStatus, SetAddress, OtherRequest, Answer
  <2>2. SameSettings(r, r)
    BY DEF SameSettings
  <2>. QED
    BY <1>1, <2>1, <2>2, EndsLemma
<1>5. CASE GetDescriptor
  <2>1. \/ r' = Stalled(r)
        \/ \E out, match : r' = [r EXCEPT !.state = "READ_DESCRIPTOR", !.out = out, !.sizeMatch = match]
    BY <1>5 DEF GetDescriptor, Answer
  <2>2. CASE r' = Stalled(r)
    BY <1>1, <2>2, EndsLemma
  <2>3. CASE r' # Stalled(r)
    BY <1>1, <2>1, <2>3 DEF SameSettings, Setting, Registers
  <2>. QED
    BY <2>2, <2>3
<1>. QED
  BY <1>2, <1>3, <1>4, <1>5

LEMMA QuietHost ==
  ASSUME Types, \/ AgentNext \/ HostSetup \/ HostSetupData \/ HostIn \/ HostStops \/ HostStatusOut
                \/ HostAcks \/ HostStalled \/ ForeignToken \/ HostAbandons \/ UNCHANGED vars
  PROVE  SameSettings(r', r)
<1>1. DOMAIN r = Registers /\ Regs(r) /\ SameSettings(r, r)
  BY DEF Types, Regs, Control, SameSettings
<1>2. \/ r' = r \/ r' = Status(r) \/ r' = TokOutSeen(r)
      \/ r' = [Status(r) EXCEPT !.vld = FALSE] \/ r' = [Stalled(r) EXCEPT !.vld = FALSE]
      \/ r' = [r EXCEPT !.vld = FALSE] \/ r' = SetupToken(r, host.addr)
      \/ r' = [r EXCEPT !.state = "STD_REQUEST", !.vld = FALSE]
      \/ r' = [r EXCEPT !.state = "WAIT_EXT_DONE"]
      \/ \E out : r' = [r EXCEPT !.out = out]
  BY DEF AgentNext, AgentRefuses, AgentAccepts, AgentSends, AgentDone, AgentStep, HostSetup, HostSetupData,
     HostIn, HostStops, HostStatusOut, HostAcks, HostStalled, ForeignToken, HostAbandons, vars
<1>3. /\ SameSettings(Status(r), r) /\ SameSettings(TokOutSeen(r), r)
      /\ SameSettings([Status(r) EXCEPT !.vld = FALSE], r)
  BY <1>1, EndsLemma, TokOutTypes
<1>4. SameSettings([Stalled(r) EXCEPT !.vld = FALSE], r)
  <2>. PICK v : v = Stalled(r)
    OBVIOUS
  <2>1. SameSettings(v, r) /\ DOMAIN v = Registers
    BY <1>1, EndsLemma, ReadyTypes DEF Regs, Control
  <2>. QED
    BY <2>1 DEF SameSettings, Setting, Registers
<1>5. SameSettings([r EXCEPT !.vld = FALSE], r) /\ SameSettings(SetupToken(r, host.addr), r)
  BY <1>1 DEF SameSettings, Setting, Registers, SetupToken
<1>6. /\ SameSettings([r EXCEPT !.state = "STD_REQUEST", !.vld = FALSE], r)
      /\ SameSettings([r EXCEPT !.state = "WAIT_EXT_DONE"], r)
      /\ \A out : SameSettings([r EXCEPT !.out = out], r)
  BY <1>1 DEF SameSettings, Setting, Registers
<1>. QED
  BY <1>1, <1>2, <1>3, <1>4, <1>5, <1>6, Zenon

\* What selects the endpoints, and what they are.
SameUse(w, v) ==
  /\ w.cfgIdx = v.cfgIdx /\ w.cfgCurr = v.cfgCurr /\ w.numIfc = v.numIfc
  /\ w.altSettings = v.altSettings /\ w.epSize = v.epSize /\ w.epAssoc = v.epAssoc
  /\ w.hiSpeed = v.hiSpeed /\ (w.devState = "CONFIGURED" => v.devState = "CONFIGURED")

LEMMA SameUseStep ==
  ASSUME Selected, OnlyUsed, SameUse(r', r)
  PROVE  Selected' /\ OnlyUsed'
<1>1. Selected'
  BY DEF SameUse, Selected, Configured
<1>2. OnlyUsed'
  BY DEF SameUse, OnlyUsed, Uses
<1>. QED
  BY <1>1, <1>2

LEMMA FeatureKeeps ==
  ASSUME Types, Feature
  PROVE  /\ SameUse(r', r) /\ r'.devAddr = r.devAddr /\ r'.devState = r.devState
<1>. DEFINE e   == epAddr(r.parm)
            set == request(r.parm) = SET_FEATURE
            a   == [r EXCEPT !.remWakeup = set]
            b   == [r EXCEPT !.halted = @ \cup {e}]
            c   == [r EXCEPT !.halted = @ \ {e}]
<1>1. DOMAIN r = Registers
  BY DEF Types, Regs, Control
<1>2. r' = Status(a) \/ r' = Status(b) \/ r' = Status(c) \/ r' = Stalled(r)
  BY DEF Feature, Answer
<1>3. \A v \in {a, b, c, r} : /\ DOMAIN v = Registers
                              /\ SameUse(v, r) /\ v.devAddr = r.devAddr /\ v.devState = r.devState
  BY <1>1 DEF SameUse, Registers
<1>. HIDE DEF a, b, c
<1>4. PICK v \in {a, b, c, r} : r' = Status(v) \/ r' = Stalled(v)
  BY <1>2
<1>5. SameSettings(r', v)
  BY <1>3, <1>4, EndsLemma
<1>. QED
  BY <1>3, <1>5, SameLemma DEF SameUse

LEMMA StatusInKeeps ==
  ASSUME Types, HostStatusIn
  PROVE  SameUse(r', r)
<1>. DEFINE addr == value(r.parm) % 128
<1>. PICK w : w = Ready(r)
  OBVIOUS
<1>1. r' = w \/ r' = [w EXCEPT !.devAddr = addr, !.devState = IF addr = 0 THEN "DEFLT" ELSE "ADDRESS"]
  BY DEF HostStatusIn
<1>2. DOMAIN w = Registers /\ SameSettings(w, r)
  BY ReadyTypes, EndsLemma DEF Types, Regs, Control
<1>3. /\ r'.cfgIdx = w.cfgIdx /\ r'.cfgCurr = w.cfgCurr /\ r'.numIfc = w.numIfc
      /\ r'.altSettings = w.altSettings /\ r'.epSize = w.epSize /\ r'.epAssoc = w.epAssoc
      /\ r'.hiSpeed = w.hiSpeed /\ (r'.devState = "CONFIGURED" => w.devState = "CONFIGURED")
  BY <1>1, <1>2 DEF Registers
<1>. QED
  BY <1>2, <1>3, SameLemma DEF SameUse

\* All endpoints are off.
LEMMA AllOff ==
  ASSUME r'.epSize = Zeros
  PROVE  OnlyUsed'
  BY DEF OnlyUsed, Zeros

LEMMA SetConfigurationUse ==
  ASSUME Types, Selected, OnlyUsed, SetConfiguration
  PROVE  Selected' /\ OnlyUsed'
<1>. DEFINE n  == value(r.parm)
            hs == r.hiSpeed
<1>1. PICK v :
        /\ Kept(v)
        /\ \/ /\ n = 0 /\ r' = Status(v) /\ Off(v) /\ SameSelection(v)
              /\ v.cfgCurr = 0 /\ v.devState = "ADDRESS"
           \/ /\ n > numConfigs(hs) /\ r' = Stalled(v) /\ Off(v) /\ SameSelection(v)
              /\ v.cfgCurr = r.cfgCurr /\ v.devState = r.devState
           \/ n \in 1 .. numConfigs(hs) /\ r' = Status(v) /\ Selects(v, n)
  BY ConfigurationLemma
<1>2. DOMAIN v = Registers /\ hs \in BOOLEAN /\ v.hiSpeed = hs
  BY <1>1 DEF Kept, SameControl, Types, Regs, Settings
<1>3. SameSettings(r', v)
  BY <1>1, <1>2, EndsLemma
<1>. HIDE DEF n
<1>4. CASE n \in 1 .. numConfigs(hs) /\ Selects(v, n)
  <2>. DEFINE S == {y \in EndpointsOf[hs][n] : y.alt = 0}
              num == NumInterfaces(hs, n)
  <2>1. /\ r'.cfgCurr = n /\ r'.cfgIdx = ConfigAt(hs, n) /\ r'.numIfc = num /\ r'.hiSpeed = hs
        /\ r'.altSettings = [i \in Interfaces |-> IF i < num THEN 0 ELSE r.altSettings[i]]
        /\ r'.epSize = v.epSize /\ r'.epAssoc = v.epAssoc
    BY <1>2, <1>3, <1>4, SameLemma DEF Selects
  <2>2. /\ num \in 0 .. 128 /\ \A i \in 0 .. num - 1 : i \in Interfaces
        /\ \A y \in EndpointsOf[hs][n] : y.ifc \in 0 .. num - 1 /\ Address(y) \in Endpoints
    BY <1>2, <1>4, OnLemma
  <2>3. \A i \in 0 .. num - 1 : r'.altSettings[i] = 0
    <3>1. \A i \in 0 .. num - 1 : i < num
      BY <2>2
    <3>. QED
      BY <2>1, <2>2, <3>1
  <2>4. Selected'
    <3>1. \A i \in 0 .. num - 1 : HasSetting(hs, n, i, 0)
      BY <1>2, <1>4, InterfacesAssumption
    <3>2. n # 0
      BY <1>4
    <3>. HIDE DEF num
    <3>. QED
      BY <2>1, <2>3, <3>1, <3>2 DEF Selected, num
  <2>5. Loaded(v, Unload(r), S)
    BY <1>4 DEF Selects
  <2>6. \A e \in Endpoints : Unload(r).epSize[e] = 0
    BY DEF Unload, Types, Regs, Control, Registers
  <2>7. ASSUME NEW e \in Endpoints, r'.epSize[e] # 0
        PROVE  \E y \in EndpointsOf[hs][n] :
                 /\ r'.altSettings[y.ifc] = y.alt /\ Address(y) = e
                 /\ r'.epSize[e] = PacketSize(y) /\ r'.epAssoc[e] = y.ifc
    <3>1. PICK y \in S : Address(y) = e
      BY <2>1, <2>5, <2>6, <2>7 DEF Loaded
    <3>. QED
      BY <2>1, <2>2, <2>3, <2>5, <3>1, ZenonT(60) DEF Loaded
  <2>8. OnlyUsed'
    BY <2>1, <2>7 DEF OnlyUsed, Uses
  <2>. QED
    BY <2>4, <2>8
<1>5. CASE Off(v) /\ SameSelection(v) /\ \/ v.cfgCurr = 0 /\ v.devState = "ADDRESS"
                                         \/ v.cfgCurr = r.cfgCurr /\ v.devState = r.devState
  <2>1. /\ r'.epSize = Zeros /\ r'.cfgIdx = r.cfgIdx /\ r'.numIfc = r.numIfc
        /\ r'.altSettings = r.altSettings /\ r'.hiSpeed = r.hiSpeed
        /\ r'.cfgCurr = v.cfgCurr /\ r'.devState = v.devState
    BY <1>2, <1>3, <1>5, SameLemma DEF Off, SameSelection
  <2>2. Selected'
    BY <1>5, <2>1 DEF Selected, Configured
  <2>. QED
    BY <2>1, <2>2, AllOff
<1>. QED
  BY <1>1, <1>4, <1>5

LEMMA SetInterfaceUse ==
  ASSUME Types, Selected, OnlyUsed, SetInterface
  PROVE  Selected' /\ OnlyUsed'
<1>. DEFINE ifc == index(r.parm)
            alt == value(r.parm)
            hs  == r.hiSpeed
            n   == r.cfgCurr
            S   == {y \in EndpointsOf[hs][n] : y.ifc = ifc /\ y.alt = alt}
<1>1. DOMAIN r = Registers /\ Settings(r) /\ hs \in BOOLEAN
  BY DEF Types, Regs, Control, Settings
<1>2. CASE r' = Stalled(r)
  <2>1. SameUse(r', r)
    BY <1>1, <1>2, EndsLemma, SameLemma DEF SameUse
  <2>. QED
    BY <2>1, SameUseStep
<1>3. CASE r' # Stalled(r)
  <2>1. /\ Configured /\ ifc \in Interfaces /\ ifc \in 0 .. r.numIfc - 1 /\ n \in 1 .. numConfigs(hs)
        /\ \E v : \/ r' = Stalled(v) /\ Switches(v, ifc, {}) /\ v.altSettings = r.altSettings
                  \/ /\ r' = Status(v) /\ Switches(v, ifc, S) /\ HasSetting(hs, n, ifc, alt)
                     /\ v.altSettings = [r.altSettings EXCEPT ![ifc] = alt]
    BY <1>3, InterfaceLemma, Zenon
  <2>2. PICK v : \/ r' = Stalled(v) /\ Switches(v, ifc, {}) /\ v.altSettings = r.altSettings
                 \/ /\ r' = Status(v) /\ Switches(v, ifc, S) /\ HasSetting(hs, n, ifc, alt)
                    /\ v.altSettings = [r.altSettings EXCEPT ![ifc] = alt]
    BY <2>1
  <2>3. PICK T \in SUBSET S : /\ Switches(v, ifc, T)
                              /\ \/ T = {} /\ v.altSettings = r.altSettings
                                 \/ /\ v.altSettings = [r.altSettings EXCEPT ![ifc] = alt]
                                    /\ HasSetting(hs, n, ifc, alt)
    BY <2>2
  <2>4. SameSettings(r', v)
    <3>1. DOMAIN v = Registers
      BY <2>3 DEF Switches, Kept, SameControl
    <3>. QED
      BY <2>2, <3>1, EndsLemma
  <2>5. /\ r'.cfgIdx = r.cfgIdx /\ r'.numIfc = r.numIfc /\ r'.cfgCurr = n /\ r'.devState = r.devState
        /\ r'.hiSpeed = hs /\ r'.altSettings = v.altSettings
        /\ r'.epSize = v.epSize /\ r'.epAssoc = v.epAssoc
    BY <2>3, <2>4, SameLemma DEF Switches, Kept
  <2>. DEFINE alts == r'.altSettings
  <2>6. /\ \A i \in Interfaces : i # ifc => alts[i] = r.altSettings[i]
        /\ alts[ifc] = r.altSettings[ifc] \/ (alts[ifc] = alt /\ HasSetting(hs, n, ifc, alt))
        /\ T # {} => alts[ifc] = alt
    <3>1. DOMAIN r.altSettings = Interfaces
      BY <1>1 DEF Settings
    <3>. HIDE DEF alt, ifc
    <3>. QED
      BY <2>1, <2>3, <2>5, <3>1
  <2>7. /\ r.numIfc = NumInterfaces(hs, n) /\ \A i \in 0 .. r.numIfc - 1 : i \in Interfaces
        /\ \A y \in EndpointsOf[hs][n] : y.ifc \in Interfaces
    BY <1>1, <2>1, OnLemma DEF Selected
  <2>8. Selected'
    <3>1. \A i \in 0 .. r.numIfc - 1 : HasSetting(hs, n, i, alts[i])
      <4>1. n # 0 /\ \A i \in 0 .. r.numIfc - 1 : HasSetting(hs, n, i, r.altSettings[i])
        BY <2>1 DEF Selected
      <4>. QED
        BY <2>6, <2>7, <4>1, Zenon
    <3>2. Configured' => Configured
      BY <2>5 DEF Configured
    <3>. QED
      BY <2>5, <3>1, <3>2 DEF Selected
  <2>9. ASSUME NEW e \in Endpoints, r'.epSize[e] # 0
        PROVE  \E y \in EndpointsOf[hs][n] :
                 /\ alts[y.ifc] = y.alt /\ Address(y) = e
                 /\ r'.epSize[e] = PacketSize(y) /\ r'.epAssoc[e] = y.ifc
    <3>. DEFINE off == DeactIfc(r, ifc)
    <3>1. Loaded(v, off, T)
      BY <2>3 DEF Switches
    <3>2. /\ off.epAssoc = r.epAssoc
          /\ \A f \in Endpoints : off.epSize[f] = IF r.epAssoc[f] = ifc THEN 0 ELSE r.epSize[f]
      BY <1>1 DEF DeactIfc, Registers
    <3>. HIDE DEF off, ifc, alt, alts
    <3>3. CASE \E y \in T : Address(y) = e
      <4>1. PICK y \in T : Address(y) = e
        BY <3>3
      <4>2. y \in EndpointsOf[hs][n] /\ y.ifc = ifc /\ y.alt = alt
        BY <2>3
      <4>3. alts[y.ifc] = y.alt
        BY <2>6, <4>2
      <4>4. v.epSize[e] = PacketSize(y) /\ v.epAssoc[e] = y.ifc
        BY <3>1, <4>1 DEF Loaded
      <4>. QED
        BY <2>5, <4>1, <4>2, <4>3, <4>4
    <3>4. CASE \A y \in T : Address(y) # e
      <4>1. v.epSize[e] = off.epSize[e] /\ v.epAssoc[e] = off.epAssoc[e]
        BY <3>1, <3>4 DEF Loaded
      <4>2. r.epAssoc[e] # ifc /\ r'.epSize[e] = r.epSize[e] /\ r'.epAssoc[e] = r.epAssoc[e]
        BY <2>5, <2>9, <3>2, <4>1
      <4>3. PICK y \in EndpointsOf[hs][n] : /\ r.altSettings[y.ifc] = y.alt /\ Address(y) = e
                                            /\ r.epSize[e] = PacketSize(y) /\ r.epAssoc[e] = y.ifc
        BY <2>9, <4>2 DEF OnlyUsed, Uses
      <4>4. alts[y.ifc] = y.alt
        BY <2>6, <2>7, <4>2, <4>3
      <4>. QED
        BY <4>2, <4>3, <4>4
    <3>. QED
      BY <3>3, <3>4
  <2>10. OnlyUsed'
    BY <2>5, <2>9 DEF OnlyUsed, Uses
  <2>. QED
    BY <2>8, <2>10
<1>. QED
  BY <1>2, <1>3

LEMMA StartUse ==
  ASSUME NEW hs \in BOOLEAN, r' = RInit(hs)
  PROVE  Selected' /\ OnlyUsed'
<1>1. r'.cfgCurr = 0 /\ r'.devState = "DEFLT" /\ r'.epSize = Zeros
  BY DEF RInit, Zeros
<1>2. Selected'
  BY <1>1 DEF Selected, Configured
<1>. QED
  BY <1>1, <1>2, AllOff

LEMMA SettingsInit == Init => SettingsInv
<1>. SUFFICES ASSUME Init PROVE SettingsInv
  OBVIOUS
<1>1. PICK hs \in BOOLEAN : r = RInit(hs)
  BY DEF Init
<1>2. r.cfgCurr = 0 /\ r.devState = "DEFLT" /\ r.epSize = Zeros
  BY <1>1 DEF RInit, Zeros
<1>3. Selected /\ OnlyUsed
  BY <1>2 DEF Selected, Configured, OnlyUsed, Zeros
<1>. QED
  BY <1>3, TypesInit DEF SettingsInv

LEMMA SettingsStep == ASSUME IInv, SettingsInv, [Next]_vars PROVE SettingsInv'
<1>. USE DEF SettingsInv
<1>1. Types'
  BY TypesStep
<1>2. ASSUME SameSettings(r', r) PROVE Selected' /\ OnlyUsed'
  <2>1. SameUse(r', r)
    BY <1>2, SameLemma DEF SameUse
  <2>. QED
    BY <2>1, SameUseStep
<1>3. CASE UNCHANGED vars
  BY <1>1, <1>2, <1>3, QuietHost
<1>4. CASE EngineNext
  BY <1>1, <1>2, <1>4, QuietEngine, FeatureKeeps, SameUseStep, SetConfigurationUse, SetInterfaceUse
     DEF EngineNext
<1>5. CASE HostNext
  BY <1>1, <1>2, <1>5, QuietHost, StatusInKeeps, SameUseStep DEF HostNext
<1>6. CASE AgentNext
  BY <1>1, <1>2, <1>6, QuietHost
<1>7. CASE HostSetup \/ HostStops \/ ForeignToken \/ HostAbandons
  BY <1>1, <1>2, <1>7, QuietHost
<1>8. CASE BusReset
  BY <1>1, <1>8, StartUse DEF BusReset
<1>. QED
  BY <1>3, <1>4, <1>5, <1>6, <1>7, <1>8 DEF Next

\* The registers have their types, whatever the host asks for and whatever disturbs it.
THEOREM TypeCorrect == Spec => []TypeOK
<1>1. Init => IInv /\ SettingsInv
  BY InitLemma, SettingsInit
<1>2. IInv /\ SettingsInv /\ [Next]_vars => (IInv /\ SettingsInv)'
  BY StepLemma, SettingsStep
<1>3. SettingsInv => TypeOK
  BY TypesLemma DEF SettingsInv
<1>. QED
  BY <1>1, <1>2, <1>3, PTL DEF Spec
-----------------------------------------------------------------------------
(* The steps, as far as the transfer goes. *)

Onward ==
  /\ r'.state \in {"STATUS", "RETURN_VALUE", "READ_DESCRIPTOR"} /\ DOMAIN r' = Registers
  /\ r'.parm = r.parm /\ r'.stall = r.stall /\ r'.devAddr = r.devAddr
Denied ==
  /\ r'.state = "GET_PARAMS" /\ r'.parm = <<>> /\ r'.stall /\ DOMAIN r' = Registers
  /\ r'.devAddr = r.devAddr

LEMMA EndsControl ==
  ASSUME Types, NEW v, Kept(v)
  PROVE  (r' = Status(v) => Onward) /\ (r' = Stalled(v) => Denied)
<1>1. /\ DOMAIN v = Registers /\ v.parm = r.parm /\ v.stall = r.stall /\ v.devAddr = r.devAddr
  BY DEF Kept, SameControl
<1>2. ASSUME r' = Status(v) PROVE Onward
  BY <1>1, <1>2 DEF Onward, Status, Registers
<1>3. ASSUME r' = Stalled(v) PROVE Denied
  <2>. PICK w : w = Ready(v)
    OBVIOUS
  <2>1. DOMAIN w = Registers /\ w.state = "GET_PARAMS" /\ w.parm = <<>> /\ w.devAddr = v.devAddr
    BY <1>1 DEF Ready, Registers
  <2>2. r' = [w EXCEPT !.stall = TRUE]
    BY <1>3 DEF Stalled
  <2>. QED
    BY <1>1, <2>1, <2>2 DEF Denied, Registers
<1>. QED
  BY <1>2, <1>3

Standard ==
  \/ Feature \/ GetConfiguration \/ GetInterface \/ GetStatus \/ SetAddress
  \/ SetConfiguration \/ SetInterface \/ GetDescriptor \/ OtherRequest

LEMMA StandardLemma ==
  ASSUME IInv, SettingsInv, Standard
  PROVE  /\ r.state = "STD_REQUEST" /\ UNCHANGED <<queue, host, belief, faults, hurt>>
         /\ Onward \/ Denied
<1>1. r.state = "STD_REQUEST" /\ UNCHANGED <<queue, host, belief, faults, hurt>>
  BY DEF Standard, Feature, GetConfiguration, GetInterface, GetStatus, SetAddress, SetConfiguration,
         SetInterface, GetDescriptor, OtherRequest, Std, Answer
<1>2. Types /\ Selected /\ DOMAIN r = Registers
  BY DEF SettingsInv, Types, Regs, Control
<1>3. Kept(r)
  BY <1>2 DEF Kept, SameControl
<1>4. CASE Feature
  <2>. DEFINE e   == epAddr(r.parm)
              set == request(r.parm) = SET_FEATURE
              a   == [r EXCEPT !.remWakeup = set]
              b   == [r EXCEPT !.halted = @ \cup {e}]
              c   == [r EXCEPT !.halted = @ \ {e}]
  <2>1. r' = Status(a) \/ r' = Status(b) \/ r' = Status(c) \/ r' = Stalled(r)
    BY <1>4 DEF Feature, Answer
  <2>2. /\ DOMAIN a = Registers /\ a.state = r.state /\ a.parm = r.parm /\ a.stall = r.stall
        /\ a.devAddr = r.devAddr /\ a.out = r.out
    BY <1>2 DEF Registers
  <2>3. /\ DOMAIN b = Registers /\ b.state = r.state /\ b.parm = r.parm /\ b.stall = r.stall
        /\ b.devAddr = r.devAddr /\ b.out = r.out
    BY <1>2 DEF Registers
  <2>4. /\ DOMAIN c = Registers /\ c.state = r.state /\ c.parm = r.parm /\ c.stall = r.stall
        /\ c.devAddr = r.devAddr /\ c.out = r.out
    BY <1>2 DEF Registers
  <2>. HIDE DEF a, b, c
  <2>5. \A v \in {a, b, c} : r' = Status(v) => Onward
    <3>. SUFFICES ASSUME NEW v \in {a, b, c}, r' = Status(v) PROVE Onward
      OBVIOUS
    <3>1. /\ DOMAIN v = Registers /\ v.parm = r.parm /\ v.stall = r.stall /\ v.devAddr = r.devAddr
      BY <2>2, <2>3, <2>4
    <3>. QED
      BY <3>1 DEF Onward, Status, Registers
  <2>. QED
    BY <1>1, <1>2, <1>3, <2>1, <2>5, EndsControl
<1>5. CASE GetConfiguration \/ GetInterface \/ GetStatus \/ SetAddress \/ OtherRequest
  <2>1. r' = Status(r) \/ r' = Stalled(r) \/ \E b : r' = Return(r, b)
    BY <1>5 DEF GetConfiguration, GetInterface, GetStatus, SetAddress, OtherRequest, Answer
  <2>2. ASSUME NEW b, r' = Return(r, b) PROVE Onward
    BY <1>2, <2>2 DEF Onward, Return, Registers
  <2>. QED
    BY <1>1, <1>2, <1>3, <2>1, <2>2, EndsControl
<1>6. CASE SetConfiguration
  <2>1. PICK v : Kept(v) /\ (r' = Status(v) \/ r' = Stalled(v))
    BY <1>2, <1>6, ConfigurationLemma, Zenon
  <2>. QED
    BY <1>1, <1>2, <2>1, EndsControl
<1>7. CASE SetInterface
  <2>1. PICK v : Kept(v) /\ (r' = Status(v) \/ r' = Stalled(v))
    BY <1>2, <1>3, <1>7, InterfaceLemma, Zenon DEF Switches
  <2>. QED
    BY <1>1, <1>2, <2>1, EndsControl
<1>8. CASE GetDescriptor
  <2>1. \/ r' = Stalled(r)
        \/ \E out, match : r' = [r EXCEPT !.state = "READ_DESCRIPTOR", !.out = out, !.sizeMatch = match]
    BY <1>8 DEF GetDescriptor, Answer
  <2>2. ASSUME r' # Stalled(r) PROVE Onward
    BY <1>2, <2>1, <2>2 DEF Onward, Registers
  <2>. QED
    BY <1>1, <1>2, <1>3, <2>2, EndsControl
<1>. QED
  BY <1>4, <1>5, <1>6, <1>7, <1>8 DEF Standard

\* In a transfer that is not disturbed a SETUP packet is taken whole.
LEMMA TakenLemma ==
  ASSUME IInv, ~hurt, TakeSetup
  PROVE  /\ host.phase \in {"data", "status"} /\ host.req \in Requests /\ Delivering
         /\ host.addr \in {0, r.devAddr} /\ UNCHANGED <<host, belief, faults, hurt>>
         /\ queue = <<host.req>> /\ queue' = <<>>
         /\ r' = [r EXCEPT !.parm = host.req, !.stall = FALSE, !.state = "WAIT_EXT", !.vld = TRUE]
         /\ DOMAIN r' = Registers /\ r'.state = "WAIT_EXT" /\ r'.parm = host.req /\ ~r'.stall
         /\ r'.devAddr = r.devAddr
<1>1. /\ UNCHANGED <<host, belief, faults, hurt>>
      /\ r.state = "GET_PARAMS" /\ queue # <<>> /\ Head(queue) # <<>>
  BY DEF TakeSetup
<1>2. /\ host.phase \in {"data", "status"} /\ host.req \in Requests /\ Delivering
      /\ queue = <<host.req>> /\ r.parm = <<>> /\ host.addr \in {0, r.devAddr}
  BY <1>1 DEF IInv, Shape, Lockstep, AtRest, Ending, Delivering, Serving, Refused, Addressed
<1>3. Head(queue) = host.req /\ Tail(queue) = <<>> /\ Len(r.parm) = 0
  BY <1>2, TailLemma, EmptySeq
<1>4. 8 - Len(r.parm) = 8 /\ Len(Head(queue)) = 8 /\ Len(host.req) = 8
  BY <1>2, <1>3, SetupLemma
<1>5. r.parm \o SubSeq(Head(queue), 1, 8) = host.req
  BY <1>2, <1>3, SetupLemma
<1>6. SubSeq(Head(queue), 8 + 1, 8) = <<>>
  BY <1>2, <1>3, SetupLemma
<1>7. /\ r' = [r EXCEPT !.parm = host.req, !.stall = FALSE, !.state = "WAIT_EXT", !.vld = TRUE]
      /\ queue' = <<>>
  BY <1>3, <1>4, <1>5, <1>6 DEF TakeSetup, Least
<1>8. /\ DOMAIN r' = Registers /\ r'.state = "WAIT_EXT" /\ r'.parm = host.req /\ ~r'.stall
      /\ r'.devAddr = r.devAddr
  BY <1>7 DEF IInv, Shape, Registers
<1>. QED
  BY <1>1, <1>2, <1>7, <1>8

\* Nor is an empty packet.
LEMMA EndedLemma ==
  ASSUME IInv, ~hurt, StatusOut
  PROVE  /\ UNCHANGED <<host, belief, faults, hurt>> /\ ~Serving
         /\ host.phase \in {"idle", "setup", "data", "status"}
         /\ r' = Ready(r) /\ DOMAIN r' = Registers /\ r'.state = "GET_PARAMS" /\ r'.parm = <<>>
         /\ r'.stall = r.stall /\ r'.devAddr = r.devAddr
<1>1. /\ UNCHANGED <<host, belief, faults, hurt>> /\ queue # <<>> /\ Head(queue) = <<>>
      /\ r' = IF r.state = "STATUS" /\ dev2Host(r.parm) THEN Ready(r) ELSE r
  BY DEF StatusOut
<1>2. host.phase # "idle" => host.req # <<>>
  BY SetupLemma DEF IInv, Shape
<1>3. /\ host.phase # "acking" /\ ~Serving /\ r.state = "STATUS" /\ dev2Host(r.parm)
  BY <1>1, <1>2, TailLemma DEF IInv, Shape, Lockstep, AtRest, Ending, Delivering, Serving, Refused
<1>4. /\ DOMAIN Ready(r) = Registers /\ Ready(r).state = "GET_PARAMS" /\ Ready(r).parm = <<>>
      /\ Ready(r).stall = r.stall /\ Ready(r).vld = r.vld /\ Ready(r).devAddr = r.devAddr
  BY ReadyLemma DEF IInv, Same
<1>. QED
  BY <1>1, <1>3, <1>4 DEF IInv, Shape

LEMMA NotLost ==
  ASSUME IInv, LoseByte
  PROVE  hurt
  BY DEF LoseByte, IInv, Shape, Lockstep, AtRest, Ending, Delivering, Serving, Refused

LEMMA AgentLemma ==
  ASSUME IInv, AgentRefuses \/ AgentAccepts \/ AgentDone
  PROVE  /\ r.state \in {"WAIT_EXT", "WAIT_EXT_DONE"} /\ UNCHANGED <<queue, host, belief, hurt>>
         /\ DOMAIN r' = Registers /\ r'.devAddr = r.devAddr
         /\ \/ r.state = "WAIT_EXT" /\ r'.state = "STD_REQUEST" /\ r'.parm = r.parm /\ r'.stall = r.stall
            \/ /\ r'.state \in {"WAIT_EXT_DONE", "STATUS"} /\ r'.parm = r.parm /\ r'.stall = r.stall
               /\ r.state = "WAIT_EXT" => reqType(r.parm) # STANDARD
            \/ r.state = "WAIT_EXT_DONE" /\ Denied
<1>1. DOMAIN r = Registers
  BY DEF IInv, Shape
<1>2. UNCHANGED <<queue, host, belief, hurt>>
  BY DEF AgentRefuses, AgentAccepts, AgentDone, AgentStep
<1>3. \/ r.state = "WAIT_EXT" /\ r' = [r EXCEPT !.state = "STD_REQUEST", !.vld = FALSE]
      \/ /\ r.state = "WAIT_EXT" /\ reqType(r.parm) # STANDARD
         /\ r' = [r EXCEPT !.state = "WAIT_EXT_DONE"] \/ r' = [Status(r) EXCEPT !.vld = FALSE]
      \/ r.state = "WAIT_EXT_DONE" /\ r' = [Status(r) EXCEPT !.vld = FALSE]
      \/ r.state = "WAIT_EXT_DONE" /\ r' = [Stalled(r) EXCEPT !.vld = FALSE]
  BY DEF AgentRefuses, AgentAccepts, AgentDone, AgentStep
<1>4. ASSUME r' = [r EXCEPT !.state = "STD_REQUEST", !.vld = FALSE]
      PROVE  /\ DOMAIN r' = Registers /\ r'.devAddr = r.devAddr /\ r'.state = "STD_REQUEST"
             /\ r'.parm = r.parm /\ r'.stall = r.stall
  BY <1>1, <1>4 DEF Registers
<1>5. ASSUME r' = [r EXCEPT !.state = "WAIT_EXT_DONE"] \/ r' = [Status(r) EXCEPT !.vld = FALSE]
      PROVE  /\ DOMAIN r' = Registers /\ r'.devAddr = r.devAddr
             /\ r'.state \in {"WAIT_EXT_DONE", "STATUS"} /\ r'.parm = r.parm /\ r'.stall = r.stall
  BY <1>1, <1>5 DEF Registers, Status
<1>6. ASSUME r' = [Stalled(r) EXCEPT !.vld = FALSE]
      PROVE  Denied
  <2>. PICK w : w = Ready(r)
    OBVIOUS
  <2>1. DOMAIN w = Registers /\ w.state = "GET_PARAMS" /\ w.parm = <<>> /\ w.devAddr = r.devAddr
    BY <1>1 DEF Ready, Registers
  <2>2. r' = [[w EXCEPT !.stall = TRUE] EXCEPT !.vld = FALSE]
    BY <1>6 DEF Stalled
  <2>. QED
    BY <2>1, <2>2 DEF Denied, Registers
<1>. QED
  BY <1>2, <1>3, <1>4, <1>5, <1>6 DEF Denied
=============================================================================
