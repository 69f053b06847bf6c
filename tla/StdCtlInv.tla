----------------------------- MODULE StdCtlInv -----------------------------
(***************************************************************************)
(* What the theorems about StdCtlEp rest on: the assumptions on the table  *)
(* and the requests of the host, and the inductive invariant.              *)
(***************************************************************************)
EXTENDS StdCtlEp

Bytes == Seq(0 .. 255)

(***************************************************************************)
(* The assumptions.  What the searches over the table find is what the     *)
(* list of the descriptors says; Usb2Desc makes such a table of a list.    *)
(***************************************************************************)

\* The descriptor d is at x.
Found(x, d) ==
  /\ x \in Nat /\ d \in Bytes /\ d # <<>> /\ x + Len(d) <= Len(Table)
  /\ \A k \in 1 .. Len(d) : At(Table, x + k - 1) = d[k]

ConfigAt(hs, n) == selCfgIdxTbl(hs)[n + 1]
NumInterfaces(hs, n) == At(Table, ConfigAt(hs, n) + 4)

ASSUME TableAssumption ==
  Table \in Bytes /\ MaxAlt \in 0 .. 127 /\ 0 \in Interfaces

ASSUME DevicesAssumption ==
  /\ Dual <=> BothSpeeds
  /\ \A hs \in BOOLEAN :
       LET d == Section(hs)[1]
       IN  Found(selCfgIdxTbl(hs)[1], d) /\ Len(d) = 18 /\ d[1] = 18

ASSUME ConfigurationsAssumption ==
  \A hs \in BOOLEAN :
    /\ numConfigs(hs) = Len(ConfigsOf[hs]) /\ DOMAIN ConfigsOf[hs] = 1 .. numConfigs(hs)
    /\ \A n \in 1 .. numConfigs(hs) :
         LET x == ConfigAt(hs, n)
         IN  /\ Found(x, Whole(hs, n)) /\ Len(Whole(hs, n)) >= 9
             /\ Len(Whole(hs, n)) = At(Table, x + 2) + 256 * At(Table, x + 3)
             /\ Config(hs, n) # <<>> /\ At(Config(hs, n)[1], 7) = At(Table, x + 7)

ASSUME QualifiersAssumption ==
  \A hs \in BOOLEAN :
    IF FS_QUAL_IDX_C > 0 /\ HS_QUAL_IDX_C > 0
      THEN LET d == Qualifiers(hs)[1]
           IN  /\ Qualifiers(hs) # <<>> /\ d[1] = Len(d)
               /\ Found(IF hs THEN HS_QUAL_IDX_C ELSE FS_QUAL_IDX_C, d)
      ELSE Qualifiers(hs) = <<>>

ASSUME StringsAssumption ==
  /\ Len(Strings) \in Nat /\ DOMAIN StringIdx = 0 .. Len(Strings) - 1
  /\ \A n \in DOMAIN StringIdx :
       Found(StringIdx[n], Strings[n + 1]) /\ Strings[n + 1][1] = Len(Strings[n + 1])

\* An endpoint as the list describes it, and as it is loaded from the table.
Address(y) == At(y.dsc, 2)
PacketSize(y) == At(y.dsc, 4) + 256 * At(y.dsc, 5)
InList(y) == <<Address(y), PacketSize(y), y.ifc>>
InTable(d) == <<EptAt(d.dsc), SizeAt(d.dsc), d.ifc>>
Loads(epts, ys) == {InTable(d) : d \in epts} = {InList(y) : y \in ys}

\* An endpoint belongs to one interface, and is at most once in a setting of it.
ASSUME EndpointsOfAssumption ==
  \A hs \in BOOLEAN : \A n \in 1 .. numConfigs(hs) : \A y \in EndpointsOf[hs][n] :
    /\ y.ifc \in 0 .. NumInterfaces(hs, n) - 1
    /\ Address(y) \in Endpoints /\ PacketSize(y) \in PktSizes
    /\ \A z \in EndpointsOf[hs][n] :
         Address(y) = Address(z) => y.ifc = z.ifc /\ (y.alt = z.alt => PacketSize(y) = PacketSize(z))

\* The interfaces are numbered from 0, each has a setting 0.
ASSUME InterfacesAssumption ==
  \A hs \in BOOLEAN : \A n \in 1 .. numConfigs(hs) :
    LET num == NumInterfaces(hs, n)
    IN  /\ num <= 128
        /\ \A i \in 0 .. num - 1 : i \in Interfaces /\ HasSetting(hs, n, i, 0)
        /\ \A k \in DOMAIN Config(hs, n) :
             LET d == Config(hs, n)[k]
             IN  Typ(d) = 4 => At(d, 2) \in 0 .. num - 1 /\ At(d, 3) \in 0 .. MaxAlt

\* A configuration is loaded with setting 0 of its interfaces.
ASSUME LoadAssumption ==
  \A hs \in BOOLEAN : \A n \in 1 .. numConfigs(hs) :
    LET x == ConfigAt(hs, n)
        num == NumInterfaces(hs, n)
    IN  /\ ~ConfigLoads[x].end /\ ConfigLoads[x].num = num
        /\ Loads(ConfigLoads[x].epts, {y \in EndpointsOf[hs][n] : y.alt = 0})
        /\ \A i \in 0 .. num - 1, a \in 0 .. MaxAlt :
             LET load == AltLoads[<<x, i, a>>]
             IN  IF HasSetting(hs, n, i, a)
                   THEN /\ ~load.end
                        /\ Loads(load.epts, {y \in EndpointsOf[hs][n] : y.ifc = i /\ y.alt = a})
                   ELSE load.end /\ load.epts = {}

\* The standard requests of the host are well-formed; it asks for the configuration
\* of the other speed only a device that has one.
ASSUME HostAssumption ==
  \A q \in Requests : reqType(q) = STANDARD =>
    /\ request(q) \in {GET_STATUS, GET_DESCRIPTOR, GET_CONFIGURATION, GET_INTERFACE} => dev2Host(q)
    /\ request(q) \in {CLEAR_FEATURE, SET_FEATURE, SET_ADDRESS, SET_CONFIGURATION, SET_INTERFACE}
         => ~dev2Host(q)
    /\ request(q) \in {GET_DESCRIPTOR, GET_CONFIGURATION, SET_CONFIGURATION, SET_ADDRESS}
         => recipient(q) = DEV
    /\ request(q) \in {GET_INTERFACE, SET_INTERFACE} => recipient(q) = IFC
    /\ request(q) \in {SET_FEATURE, CLEAR_FEATURE} => value(q) = IF recipient(q) = DEV THEN 1 ELSE 0
    /\ request(q) = GET_STATUS => length(q) >= 2
    /\ recipient(q) = EPT => index(q) % 128 < 16
    /\ request(q) = GET_DESCRIPTOR /\ OtherSpeed(q) => Dual
-----------------------------------------------------------------------------
(***************************************************************************)
(* The transfer.  While nothing has disturbed one, the engine and the host *)
(* go through it in lockstep, up to the packets in the queue.              *)
(***************************************************************************)

Registers == {"state", "parm", "vld", "stall", "out", "sizeMatch", "cfgIdx", "cfgCurr",
              "numIfc", "altSettings", "epSize", "epAssoc", "halted",
              "devState", "devAddr", "remWakeup", "hiSpeed"}

Shape ==
  /\ DOMAIN r = Registers
  /\ DOMAIN host = {"phase", "req", "got", "open", "cut", "addr"}
  /\ host.phase \in {"idle", "setup", "data", "status", "acking"}
  /\ host.phase # "idle" => host.req \in Requests

\* Nothing is on its way and the engine is ready.
AtRest == queue = <<>> /\ r.state = "GET_PARAMS" /\ r.parm = <<>>
\* The host is done with a read, the engine has yet to see the empty packet.
Ending == queue = << <<>> >> /\ r.state = "STATUS" /\ dev2Host(r.parm)
\* The SETUP packet is on its way, perhaps behind such an empty packet.
Delivering ==
  /\ ~r.stall /\ host.got = <<>> /\ (dev2Host(host.req) => host.phase = "data")
  /\ \/ queue = <<host.req>> /\ r.state = "GET_PARAMS" /\ r.parm = <<>>
     \/ queue = << <<>>, host.req >> /\ r.state = "STATUS" /\ dev2Host(r.parm)
\* The engine serves the request of the host.
Serving == queue = <<>> /\ ~r.stall /\ r.parm = host.req /\ r.state # "GET_PARAMS"
\* It has refused it.
Refused == AtRest /\ r.stall

\* The address of the host is stale until it sees that SET_ADDRESS is done.
Addressed ==
  IF host.phase = "acking" /\ request(host.req) = SET_ADDRESS
    THEN r.devAddr = value(host.req) ELSE host.addr \in {0, r.devAddr}

Lockstep ==
  /\ host.phase \in {"idle", "setup"} => host.got = <<>> /\ (AtRest \/ Ending)
  /\ host.phase = "setup" => ~r.stall
  /\ host.phase \in {"data", "status"} => Delivering \/ Serving \/ Refused
  /\ host.phase = "acking" => AtRest
  /\ Addressed

IInv == Shape /\ AgentKnows /\ (~hurt => Lockstep)
-----------------------------------------------------------------------------
(***************************************************************************)
(* The registers, whatever has happened.                                   *)
(***************************************************************************)

States == {"GET_PARAMS", "WAIT_EXT", "WAIT_EXT_DONE", "STD_REQUEST",
           "READ_DESCRIPTOR", "RETURN_VALUE", "STATUS"}
Beliefs == [cfg : 0 .. 255, alt : [Interfaces -> 0 .. 255], halted : SUBSET Nat,
            wakeup : BOOLEAN, spoiled : BOOLEAN]

\* The registers of the control transfer, and the settings of the device.
Control(v) ==
  /\ DOMAIN v = Registers
  /\ v.state \in States /\ v.stall \in BOOLEAN
  /\ v.parm \in Bytes /\ Len(v.parm) \in 0 .. 8
  /\ (v.state = "GET_PARAMS" <=> Len(v.parm) < 8)
  /\ v.out \in Bytes /\ (v.out # <<>> => v.state \in {"READ_DESCRIPTOR", "RETURN_VALUE"})
Settings(v) ==
  /\ v.altSettings \in [Interfaces -> 0 .. MaxAlt]
  /\ v.epSize \in [Endpoints -> PktSizes] /\ v.epAssoc \in [Endpoints -> Interfaces]
  /\ v.halted \in SUBSET Nat /\ v.remWakeup \in BOOLEAN
  /\ v.devState \in {"DEFLT", "ADDRESS", "CONFIGURED"} /\ v.devAddr \in 0 .. 127
  /\ v.hiSpeed \in BOOLEAN /\ v.cfgCurr \in 0 .. numConfigs(v.hiSpeed)
Regs(v) == Control(v) /\ Settings(v)
Link(q, h, b) ==
  q \in Seq(Bytes) /\ h.got \in Bytes /\ h.cut \in BOOLEAN /\ b \in Beliefs

Types == Regs(r) /\ Link(queue, host, belief)

\* What is selected is there.
Selected ==
  /\ Configured => r.cfgCurr # 0
  /\ r.cfgCurr # 0 =>
       /\ r.cfgIdx = ConfigAt(r.hiSpeed, r.cfgCurr) /\ r.numIfc = NumInterfaces(r.hiSpeed, r.cfgCurr)
       /\ \A i \in 0 .. r.numIfc - 1 : HasSetting(r.hiSpeed, r.cfgCurr, i, r.altSettings[i])

\* The endpoints that the device uses.
Uses(v, y) == y \in EndpointsOf[v.hiSpeed][v.cfgCurr] /\ v.altSettings[y.ifc] = y.alt

\* An endpoint that is on is one of them.
OnlyUsed ==
  \A e \in Endpoints : r.epSize[e] # 0 =>
    \E y \in EndpointsOf[r.hiSpeed][r.cfgCurr] :
      Uses(r, y) /\ Address(y) = e /\ r.epSize[e] = PacketSize(y) /\ r.epAssoc[e] = y.ifc
-----------------------------------------------------------------------------
(***************************************************************************)
(* What the host believes.  The device is ahead of it once a write is done.*)
(***************************************************************************)

Done == \/ host.phase = "acking"
        \/ host.phase = "status" /\ ~dev2Host(host.req) /\ Serving /\ r.state = "STATUS"
Effective == IF Done THEN Learn(r.hiSpeed, belief, host.req) ELSE belief

\* The device has refused a request that may have switched endpoints off.
Failing == /\ host.phase \in {"data", "status"} /\ r.stall
           /\ request(host.req) \in {SET_CONFIGURATION, SET_INTERFACE}

\* The registers v hold what b says; the endpoints are on, and halted if b says so.
InStep(v, b) ==
  /\ v.cfgCurr = b.cfg /\ (v.devState = "CONFIGURED" <=> b.cfg # 0) /\ v.remWakeup = b.wakeup
  /\ b.cfg # 0 => \A i \in 0 .. v.numIfc - 1 : v.altSettings[i] = b.alt[i]
  /\ \A e \in v.halted \cup b.halted : e % 128 # 0
Exact(v, b) ==
  \A y \in EndpointsOf[v.hiSpeed][v.cfgCurr] : Uses(v, y) =>
    /\ v.epSize[Address(y)] = PacketSize(y) /\ v.epAssoc[Address(y)] = y.ifc
    /\ Address(y) \in v.halted <=> Address(y) \in b.halted

\* The host has the address, and only sets it while there is no configuration.
Located ==
  /\ (host.phase = "acking" /\ request(host.req) = SET_ADDRESS) \/ r.devAddr = host.addr
  /\ host.phase # "idle" /\ request(host.req) = SET_ADDRESS => belief.cfg = 0

Believed ==
  /\ Located /\ InStep(r, Effective)
  /\ ~Effective.spoiled /\ ~Failing => Exact(r, Effective)
-----------------------------------------------------------------------------
(***************************************************************************)
(* The answer: what the host has got and what is still to be sent, in each *)
(* state of the engine.                                                    *)
(***************************************************************************)

Prefix(s, t) == Len(s) <= Len(t) /\ s = SubSeq(t, 1, Len(s))
Reading == host.phase \in {"data", "status"} /\ dev2Host(host.req) /\ Serving

\* Nothing is sent before the request is looked at; only an agent may be waited for
\* in a request that is not standard.
Waiting ==
  /\ r.state = "WAIT_EXT_DONE" => reqType(r.parm) # STANDARD
  /\ host.phase = "data" => dev2Host(host.req)
  /\ ~hurt /\ r.state \in {"READ_DESCRIPTOR", "RETURN_VALUE"} => dev2Host(r.parm)
  /\ ~hurt /\ Reading /\ r.state \in {"WAIT_EXT", "STD_REQUEST"} => host.phase = "data" /\ host.got = <<>>
  /\ ~hurt /\ host.phase = "acking" => ~r.stall

AnsweredBy(a) ==
  /\ host.phase \in {"data", "status"} /\ r.stall => a = Refusal
  /\ Done => a # Refusal
  /\ Reading /\ r.state \in {"READ_DESCRIPTOR", "RETURN_VALUE"} =>
       /\ a \in Bytes /\ Len(a) <= length(host.req) /\ host.got \o r.out = a
       /\ host.phase = "status" /\ ~host.cut => r.out = <<>>
  /\ Reading /\ r.state = "STATUS" =>
       host.got = a \/ (host.phase = "status" /\ host.cut /\ Prefix(host.got, a))

Answered ==
  ~belief.spoiled /\ host.phase \in {"data", "status", "acking"} =>
    LET a == Promised(r.hiSpeed, belief, host.req) IN a = Unspecified \/ AnsweredBy(a)

SettingsInv == Types /\ Selected /\ OnlyUsed
HostInv == Waiting /\ (~hurt => Believed /\ Answered)
=============================================================================
