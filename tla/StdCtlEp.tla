------------------------------ MODULE StdCtlEp ------------------------------
(***************************************************************************)
(* The standard control endpoint (core/hdl/Usb2StdCtlEp.vhd): it takes the  *)
(* SETUP packets of endpoint 0, offers them to the external agents, serves  *)
(* the standard requests from the table of descriptors and holds the state  *)
(* of the device; with the host that talks to it, the packet engine between *)
(* them and the tokens of other traffic on the bus.                         *)
(*                                                                         *)
(* A step of the host is a whole transaction.  The packet engine delivers   *)
(* what it has received some time after the host was answered: 'queue'.     *)
(* Reads of the table, which take several clocks, are atomic.               *)
(***************************************************************************)
EXTENDS Usb2DescPkg

LOCAL INSTANCE SequencesExt
LOCAL INSTANCE FiniteSetsExt

CONSTANTS
  Descriptors,   \* the descriptors of DESCRIPTORS_G, in order
  NumEndpoints,  \* NUM_ENDPOINTS_G
  Requests,      \* the SETUP packets of the host, 8 bytes each
  LateRequests,  \* bound: those of them it sends after a transfer was disturbed
  Foreign,       \* tokens for other devices or endpoints: a subset of {"OUT", "SETUP"}
  MaxFaults      \* bound: foreign tokens and transfers the host abandons

Table == FlattenSeq(Descriptors)

FS_CFG_IDX_TABLE_C == usb2AppGetConfigIdxTbl(Table, FALSE)
HS_CFG_IDX_TABLE_C == usb2AppGetConfigIdxTbl(Table, TRUE)
selCfgIdxTbl(hs) == IF hs /\ HS_CFG_IDX_TABLE_C # <<>> THEN HS_CFG_IDX_TABLE_C
                    ELSE FS_CFG_IDX_TABLE_C
numConfigs(hs) == At(Table, selCfgIdxTbl(hs)[1] + 17)
QualifierIdx(tbl) == IF tbl = <<>> THEN NotFound ELSE usb2NextOfType(Table, tbl[1], 6, TRUE)
FS_QUAL_IDX_C == QualifierIdx(FS_CFG_IDX_TABLE_C)
HS_QUAL_IDX_C == QualifierIdx(HS_CFG_IDX_TABLE_C)

\* The endpoints but 0, by address: bit 7 is set for IN.
Endpoints == (1 .. NumEndpoints - 1) \cup (129 .. 127 + NumEndpoints)
Interfaces == 0 .. usb2AppGetMaxInterfaces(Table) + 1
MaxAlt == usb2AppGetMaxAltsettings(Table) - 1

(* Fields of a SETUP packet. *)
dev2Host(q)  == q[1] >= 128
reqType(q)   == (q[1] \div 32) % 4
recipient(q) == q[1] % 4
request(q)   == q[2]
value(q)     == q[3]            \* the low byte
descType(q)  == q[4]            \* the high byte of value
index(q)     == q[5]            \* the low byte
length(q)    == q[7] + 256 * q[8]
epAddr(q)    == 128 * (index(q) \div 128) + (index(q) % 16)

STANDARD == 0
DEV == 0
IFC == 1
EPT == 2
GET_STATUS == 0
CLEAR_FEATURE == 1
SET_FEATURE == 3
SET_ADDRESS == 5
GET_DESCRIPTOR == 6
GET_CONFIGURATION == 8
SET_CONFIGURATION == 9
GET_INTERFACE == 10
SET_INTERFACE == 11

\* A host to device request has no data stage here: no standard request has one.
ASSUME RequestsAssumption ==
  \A q \in Requests : /\ q \in [1 .. 8 -> 0 .. 255]
                      /\ dev2Host(q) <=> length(q) > 0
\* The status stage knows SET_ADDRESS by its number alone (Usb2StdCtlEp.vhd:1001), so
\* no agent may serve a request with the same number.
ASSUME AddressAssumption ==
  \A q \in Requests : request(q) = SET_ADDRESS => reqType(q) = STANDARD /\ value(q) < 128
ASSUME LateAssumption == LateRequests \subseteq Requests
ASSUME ForeignAssumption == Foreign \subseteq {"OUT", "SETUP"} /\ MaxFaults \in Nat
ASSUME EndpointsAssumption == NumEndpoints \in 1 .. 16

VARIABLES
  r,        \* the registers
  queue,    \* payloads on their way from the packet engine; <<>>: an empty OUT packet
  host,     \* the transfer of the host, and the address it uses
  belief,   \* what the host has set up
  faults,   \* foreign tokens and abandoned transfers, so far
  hurt      \* one of them has disturbed a transfer

vars == <<r, queue, host, belief, faults, hurt>>

\* parm: bytes of the SETUP packet taken so far; out: bytes the answer still has,
\* 'flg' once there are none; stall: both directions of endpoint 0 are halted.
RInit(hs) ==
  [state |-> "GET_PARAMS", parm |-> <<>>, vld |-> FALSE, stall |-> FALSE,
   out |-> <<>>, sizeMatch |-> FALSE,
   cfgIdx |-> 0, cfgCurr |-> 0, numIfc |-> 0, altSettings |-> [i \in Interfaces |-> 0],
   epSize |-> [e \in Endpoints |-> 0], epAssoc |-> [e \in Endpoints |-> 0], halted |-> {},
   devState |-> "DEFLT", devAddr |-> 0, remWakeup |-> FALSE, hiSpeed |-> hs]

Idle(addr) == [phase |-> "idle", req |-> <<>>, got |-> <<>>, open |-> FALSE,
               cut |-> FALSE, addr |-> addr]
NoBelief == [cfg |-> 0, alt |-> [i \in Interfaces |-> 0], halted |-> {},
             wakeup |-> FALSE, spoiled |-> FALSE]

Init ==
  /\ \E hs \in BOOLEAN : r = RInit(hs)
  /\ queue = <<>>
  /\ host = Idle(0)
  /\ belief = NoBelief
  /\ faults = 0
  /\ hurt = FALSE

Least(m, n) == IF m <= n THEN m ELSE n
maxPktSize == IF r.hiSpeed THEN 64 ELSE At(Table, FS_CFG_IDX_TABLE_C[1] + 7)
-----------------------------------------------------------------------------
(* Registers after the end of a request. *)

\* Mutant: the count of the parameters is not reset.
MutReady(v) == [v EXCEPT !.state = "GET_PARAMS", !.out = <<>>]
Ready(v) == [v EXCEPT !.state = "GET_PARAMS", !.parm = <<>>, !.out = <<>>]
Stalled(v) == [Ready(v) EXCEPT !.stall = TRUE]
Status(v) == [v EXCEPT !.state = "STATUS", !.out = <<>>]
Return(v, bytes) == [v EXCEPT !.state = "RETURN_VALUE", !.out = bytes]

\* Mutant: the agent is not told that the read was cut short.
MutTokOutSeen(v) ==
  IF v.state = "READ_DESCRIPTOR" \/ (v.state = "WAIT_EXT_DONE" /\ dev2Host(v.parm))
    THEN Status(v) ELSE v

\* Mutant: an empty packet that is still to be sent is waited for.
MutTokOutLate(v) ==
  CASE v.state = "READ_DESCRIPTOR" /\ v.out # <<>> -> Status(v)
    [] v.state = "WAIT_EXT_DONE" /\ dev2Host(v.parm) -> [Status(v) EXCEPT !.vld = FALSE]
    [] OTHER -> v

\* Any OUT token ends a read.
TokOutSeen(v) ==
  CASE v.state = "READ_DESCRIPTOR" -> Status(v)
    [] v.state = "WAIT_EXT_DONE" /\ dev2Host(v.parm) -> [Status(v) EXCEPT !.vld = FALSE]
    [] OTHER -> v

(* The engine takes what the packet engine delivers.  The bytes of a SETUP  *)
(* packet are for GET_PARAMS, an empty OUT packet for STATUS; whatever      *)
(* comes in another state is lost.                                          *)

TakeSetup ==
  /\ queue # <<>> /\ Head(queue) # <<>> /\ r.state = "GET_PARAMS"
  /\ LET n    == Least(8 - Len(r.parm), Len(Head(queue)))
         parm == r.parm \o SubSeq(Head(queue), 1, n)
         rest == SubSeq(Head(queue), n + 1, Len(Head(queue)))
     IN  /\ r' = IF Len(parm) = 8
                   THEN [r EXCEPT !.parm = parm, !.stall = FALSE, !.state = "WAIT_EXT", !.vld = TRUE]
                   ELSE [r EXCEPT !.parm = parm, !.stall = FALSE]
         /\ queue' = IF rest = <<>> THEN Tail(queue) ELSE [queue EXCEPT ![1] = rest]
  /\ UNCHANGED <<host, belief, faults, hurt>>

LoseByte ==
  /\ queue # <<>> /\ Head(queue) # <<>> /\ r.state # "GET_PARAMS"
  /\ queue' = IF Len(Head(queue)) = 1 THEN Tail(queue) ELSE [queue EXCEPT ![1] = Tail(@)]
  /\ UNCHANGED <<r, host, belief, faults, hurt>>

StatusOut ==
  /\ queue # <<>> /\ Head(queue) = <<>>
  /\ queue' = Tail(queue)
  /\ r' = IF r.state = "STATUS" /\ dev2Host(r.parm) THEN Ready(r) ELSE r
  /\ UNCHANGED <<host, belief, faults, hurt>>
-----------------------------------------------------------------------------
(* The external agents see the request while 'vld'; they serve requests of  *)
(* a class or a vendor, or pass a request on.  An agent that has accepted a *)
(* request and sees 'vld' go away abandons it.                              *)

AgentStep(v) == r' = v /\ UNCHANGED <<queue, belief, faults, hurt>>

AgentRefuses ==
  /\ r.state = "WAIT_EXT" /\ r.vld
  /\ AgentStep([r EXCEPT !.state = "STD_REQUEST", !.vld = FALSE])
  /\ UNCHANGED host

AgentAccepts ==
  /\ r.state = "WAIT_EXT" /\ r.vld /\ reqType(r.parm) # STANDARD
  /\ \/ AgentStep([r EXCEPT !.state = "WAIT_EXT_DONE"])
     \/ /\ ~dev2Host(r.parm)
        /\ AgentStep([Status(r) EXCEPT !.vld = FALSE])
  /\ UNCHANGED host

\* The agent's data fits in one packet.
AgentSends ==
  /\ r.state = "WAIT_EXT_DONE" /\ r.vld /\ dev2Host(r.parm)
  /\ host.phase = "data" /\ ~r.stall
  /\ host' = [host EXCEPT !.phase = "status", !.got = [k \in 1 .. length(r.parm) |-> 0]]
  /\ UNCHANGED <<r, queue, belief, faults, hurt>>

AgentDone ==
  /\ r.state = "WAIT_EXT_DONE" /\ r.vld
  /\ \/ (dev2Host(r.parm) => host.phase # "data") /\ AgentStep([Status(r) EXCEPT !.vld = FALSE])
     \/ AgentStep([Stalled(r) EXCEPT !.vld = FALSE])
  /\ UNCHANGED host
-----------------------------------------------------------------------------
(* Standard requests.  A request that is not served is answered by STALL.   *)

Std(reqs) ==
  /\ r.state = "STD_REQUEST"
  /\ reqType(r.parm) = STANDARD /\ request(r.parm) \in reqs
  /\ recipient(r.parm) = IFC => index(r.parm) < r.numIfc
  /\ recipient(r.parm) = EPT => index(r.parm) % 16 < NumEndpoints
Answer(v) == r' = v /\ UNCHANGED <<queue, host, belief, faults, hurt>>

Configured == r.devState = "CONFIGURED"
\* An endpoint, or an interface, can be asked for.
Reachable == Configured \/ index(r.parm) % 128 = 0

Feature ==
  /\ Std({CLEAR_FEATURE, SET_FEATURE})
  /\ LET q   == r.parm
         e   == epAddr(q)
         set == request(q) = SET_FEATURE
     IN  Answer(
           CASE recipient(q) = DEV /\ value(q) % 4 = 1
                  /\ (At(Table, r.cfgIdx + 7) \div 32) % 2 = 1 -> Status([r EXCEPT !.remWakeup = set])
             [] recipient(q) = EPT /\ Reachable /\ value(q) % 4 = 0 /\ set /\ e % 128 # 0 ->
                  Status([r EXCEPT !.halted = @ \cup {e}])
             [] recipient(q) = EPT /\ Reachable /\ value(q) % 4 = 0 /\ ~set ->
                  Status([r EXCEPT !.halted = @ \ {e}])
             [] OTHER -> Stalled(r))

GetConfiguration == Std({GET_CONFIGURATION}) /\ Answer(Return(r, <<r.cfgCurr>>))

GetInterface ==
  /\ Std({GET_INTERFACE})
  /\ LET i == index(r.parm) % 128
     IN  Answer(IF Configured /\ i \in Interfaces THEN Return(r, <<r.altSettings[i]>>) ELSE Stalled(r))

GetStatus ==
  /\ Std({GET_STATUS})
  /\ Answer(
       CASE recipient(r.parm) = DEV -> Return(r, <<IF r.remWakeup THEN 2 ELSE 0, 0>>)
         [] recipient(r.parm) # DEV /\ ~Reachable -> Stalled(r)
         [] recipient(r.parm) = EPT /\ Reachable ->
              Return(r, <<IF epAddr(r.parm) \in r.halted THEN 1 ELSE 0, 0>>)
         [] OTHER -> Return(r, <<0, 0>>))

\* The address changes with the status stage.
SetAddress == Std({SET_ADDRESS}) /\ Answer(Status(r))
-----------------------------------------------------------------------------
(* LOAD_ALT and LOAD_EPTS: the first interface descriptor behind 'idx' with *)
(* this number and setting, and then as many endpoints as it has.  'end': a *)
(* sentinel came first.                                                     *)

LoadAlt(idx, ifc, alt) ==
  LET x    == FirstOf({y \in OfTypeFrom(Table, idx, 4, TRUE) \ {idx} :
                         At(Table, y + 2) = ifc /\ At(Table, y + 3) = alt})
      epts == InOrder(OfTypeFrom(Table, x, 5, TRUE))
      n    == At(Table, x + 4)
      used == SubSeq(epts, 1, Min({n, Len(epts)}))
  IN  IF x < 0 THEN [epts |-> {}, idx |-> idx, end |-> TRUE, num |-> ifc + 1]
      ELSE [epts |-> {[dsc |-> e, ifc |-> ifc] : e \in Range(used)},
            idx |-> IF used = <<>> THEN x ELSE Last(used),
            end |-> Len(epts) < n, num |-> ifc + 1]

\* SETUP_CONFIG: setting 0 of every interface, each found behind the one before;
\* 'num' of them until a sentinel.
LoadConfig(idx) ==
  LET Next_(s, i) == LET t == LoadAlt(s.idx, i - 1, 0)
                     IN  IF s.end THEN s ELSE [t EXCEPT !.epts = @ \cup s.epts]
  IN  FoldLeft(Next_, [epts |-> {}, idx |-> idx, end |-> FALSE, num |-> 0],
               [i \in 1 .. At(Table, idx + 4) |-> i])

\* The same for every configuration of the table.
Configurations == {x \in Visited(Table, 0, FALSE) : TypeAt(Table, x) = 2}
AltLoads == [x \in Configurations, ifc \in Interfaces, alt \in 0 .. MaxAlt |-> LoadAlt(x, ifc, alt)]
ConfigLoads == [x \in Configurations |-> LoadConfig(x)]

\* Sizes have eleven bits.
PktSizes == 0 .. 2047
EptAt(x) == At(Table, x + 2)
SizeAt(x) == (At(Table, x + 4) + 256 * At(Table, x + 5)) % 2048

\* Mutant: endpoints that were halted stay so.
MutLoadEpts(v, epts) ==
  LET addrs  == {EptAt(d.dsc) : d \in epts}
      Ept(e) == CHOOSE d \in epts : EptAt(d.dsc) = e
  IN  [v EXCEPT !.epSize  = [e \in Endpoints |-> IF e \in addrs THEN SizeAt(Ept(e).dsc) ELSE @[e]],
                !.epAssoc = [e \in Endpoints |-> IF e \in addrs THEN Ept(e).ifc ELSE @[e]]]

LoadEpts(v, epts) ==
  LET addrs  == {EptAt(d.dsc) : d \in epts}
      Ept(e) == CHOOSE d \in epts : EptAt(d.dsc) = e
  IN  [v EXCEPT !.epSize  = [e \in Endpoints |-> IF e \in addrs THEN SizeAt(Ept(e).dsc) ELSE @[e]],
                !.epAssoc = [e \in Endpoints |-> IF e \in addrs THEN Ept(e).ifc ELSE @[e]],
                !.halted  = @ \ addrs]

Unload(v) == [v EXCEPT !.epSize = [e \in Endpoints |-> 0], !.halted = {}]
LoadConfiguration(v, n, idx) ==
  [LoadEpts(v, ConfigLoads[idx].epts)
     EXCEPT !.cfgCurr = n, !.cfgIdx = idx, !.numIfc = At(Table, idx + 4),
            !.altSettings = [i \in Interfaces |-> IF i < ConfigLoads[idx].num THEN 0 ELSE @[i]]]

\* Whatever the value is, the endpoints are off.
SetConfiguration ==
  /\ Std({SET_CONFIGURATION})
  /\ LET n   == value(r.parm)
         idx == selCfgIdxTbl(r.hiSpeed)[n + 1]
         set == LoadConfiguration(Unload(r), n, idx)
     IN  Answer(CASE n = 0 -> Status([Unload(r) EXCEPT !.devState = "ADDRESS", !.cfgCurr = 0])
                  [] n > numConfigs(r.hiSpeed) -> Stalled(Unload(r))
                  [] OTHER -> IF ConfigLoads[idx].end THEN Stalled(set)
                              ELSE Status([set EXCEPT !.devState = "CONFIGURED"]))

\* Mutant: the endpoints of the old setting stay on.
MutDeactIfc(v, ifc) == v

\* DEACT_IFC: the endpoints of the interface are off before the new setting is
\* looked for.
DeactIfc(v, ifc) ==
  [v EXCEPT !.epSize = [e \in Endpoints |-> IF v.epAssoc[e] = ifc THEN 0 ELSE @[e]]]

SetInterface ==
  /\ Std({SET_INTERFACE})
  /\ LET ifc  == index(r.parm)
         alt  == value(r.parm)
         load == AltLoads[<<r.cfgIdx, ifc, alt>>]
         set  == LoadEpts(DeactIfc(r, ifc), load.epts)
     IN  Answer(IF ~Configured \/ ifc >= r.numIfc \/ alt > MaxAlt THEN Stalled(r)
                ELSE IF load.end THEN Stalled(set)
                ELSE Status([set EXCEPT !.altSettings[ifc] = alt]))

\* Not standard, not implemented, or for an interface or endpoint there is not.
OtherRequest ==
  /\ r.state = "STD_REQUEST"
  /\ ~Std({GET_STATUS, CLEAR_FEATURE, SET_FEATURE, SET_ADDRESS, GET_DESCRIPTOR,
           GET_CONFIGURATION, SET_CONFIGURATION, GET_INTERFACE, SET_INTERFACE})
  /\ Answer(Stalled(r))
-----------------------------------------------------------------------------
(* GET_DESCRIPTOR. *)

DEVICE == 1
CONFIGURATION == 2
STRING_ == 3
DEVICE_QUALIFIER == 6
OTHER_SPEED_CONF == 7

\* The table of configurations a request is about.
OtherSpeed(q) == descType(q) = OTHER_SPEED_CONF
BothSpeeds == FS_CFG_IDX_TABLE_C # <<>> /\ HS_CFG_IDX_TABLE_C # <<>>
tblSelHS(hs, q) == IF ~OtherSpeed(q) THEN hs
                   ELSE IF BothSpeeds THEN ~hs ELSE HS_CFG_IDX_TABLE_C = <<>>

StringIdx == [n \in 0 .. usb2AppGetNumStrings(Table) - 1 |-> usb2NthStringDescriptor(Table, n)]

\* Mutant: the qualifier of the speed that is not in use.
MutDescriptorIdx(hs, q) ==
  LET sel == tblSelHS(hs, q)
  IN  CASE descType(q) = DEVICE -> selCfgIdxTbl(sel)[1]
        [] descType(q) = DEVICE_QUALIFIER /\ FS_QUAL_IDX_C > 0 /\ HS_QUAL_IDX_C > 0 ->
             IF hs THEN FS_QUAL_IDX_C ELSE HS_QUAL_IDX_C
        [] descType(q) \in {CONFIGURATION, OTHER_SPEED_CONF} /\ value(q) < numConfigs(sel) ->
             selCfgIdxTbl(sel)[value(q) + 2]
        [] descType(q) = STRING_ /\ value(q) \in DOMAIN StringIdx -> StringIdx[value(q)]
        [] OTHER -> NotFound

\* Where the descriptor is; a configuration is counted from 0, the table has the
\* device in front, and string 0 are the language ids.
DescriptorIdx(hs, q) ==
  LET sel == tblSelHS(hs, q)
  IN  CASE descType(q) = DEVICE -> selCfgIdxTbl(sel)[1]
        [] descType(q) = DEVICE_QUALIFIER /\ FS_QUAL_IDX_C > 0 /\ HS_QUAL_IDX_C > 0 ->
             IF hs THEN HS_QUAL_IDX_C ELSE FS_QUAL_IDX_C
        [] descType(q) \in {CONFIGURATION, OTHER_SPEED_CONF} /\ value(q) < numConfigs(sel) ->
             selCfgIdxTbl(sel)[value(q) + 2]
        [] descType(q) = STRING_ /\ value(q) \in DOMAIN StringIdx -> StringIdx[value(q)]
        [] OTHER -> NotFound

\* A configuration comes with all that belongs to it.
DescriptorSize(q, x) ==
  IF descType(q) \in {CONFIGURATION, OTHER_SPEED_CONF}
    THEN At(Table, x + 2) + 256 * At(Table, x + 3) ELSE At(Table, x)

\* 'sizeMatch', which suppresses the empty packet, keeps its value unless the
\* host asks for no more than there is.
GetDescriptor ==
  /\ Std({GET_DESCRIPTOR})
  /\ LET q    == r.parm
         x    == DescriptorIdx(r.hiSpeed, q)
         size == DescriptorSize(q, x)
         n    == Least(length(q), size)
         Patched(k) == IF k = 2 /\ OtherSpeed(q) /\ BothSpeeds THEN OTHER_SPEED_CONF
                       ELSE At(Table, x + k - 1)
     IN  Answer(IF x = NotFound THEN Stalled(r)
                ELSE [r EXCEPT !.state = "READ_DESCRIPTOR",
                               !.out = [k \in 1 .. n |-> Patched(k)],
                               !.sizeMatch = IF length(q) > size THEN @
                                             ELSE length(q) % maxPktSize = 0])
-----------------------------------------------------------------------------
(* The descriptors as the host knows them, from the list and not the table.  *)

Typ(d) == At(d, 1)
Upto(l, typs) == LET over == {k \in DOMAIN l : Typ(l[k]) \in typs}
                 IN  IF over = {} THEN l ELSE SubSeq(l, 1, Min(over) - 1)
\* From the n-th descriptor of a type on.
FromNth(l, typ, n) ==
  LET at == {k \in DOMAIN l : Typ(l[k]) = typ}
  IN  IF n \in 1 .. Cardinality(at) THEN SubSeq(l, InOrder(at)[n], Len(l)) ELSE <<>>
NumOf(l, typ) == Len(SelectSeq(l, LAMBDA d : Typ(d) = typ))

Dual == NumOf(Descriptors, 1) = 2
Section(hs) == Upto(FromNth(Descriptors, 1, IF hs /\ Dual THEN 2 ELSE 1), {3, 255})
\* The configurations of a speed, each with all that belongs to it.
ConfigsOf ==
  [hs \in BOOLEAN |->
     [n \in 1 .. NumOf(Section(hs), 2) |->
        LET l == FromNth(Section(hs), 2, n) IN <<Head(l)>> \o Upto(Tail(l), {2})]]
Config(hs, n) == IF n \in DOMAIN ConfigsOf[hs] THEN ConfigsOf[hs][n] ELSE <<>>

\* Their endpoints, with the interface and the setting they are of.
EndpointsIn(l) ==
  LET Ifc(k) == l[Max({j \in 1 .. k : Typ(l[j]) = 4})]
  IN  {[dsc |-> l[k], ifc |-> At(Ifc(k), 2), alt |-> At(Ifc(k), 3)] :
         k \in {j \in DOMAIN l : Typ(l[j]) = 5}}
EndpointsOf ==
  [hs \in BOOLEAN |-> [n \in 0 .. Len(ConfigsOf[hs]) |-> EndpointsIn(Config(hs, n))]]
\* Those that a configuration and the settings of its interfaces select.
InUse(hs, cfg, alt) == {x.dsc : x \in {y \in EndpointsOf[hs][cfg] : alt[y.ifc] = y.alt}}
HasSetting(hs, cfg, ifc, alt) ==
  \E k \in DOMAIN Config(hs, cfg) :
    LET d == Config(hs, cfg)[k] IN Typ(d) = 4 /\ At(d, 2) = ifc /\ At(d, 3) = alt

Whole(hs, n) == FlattenSeq(Config(hs, n))
Qualifiers(hs) == SelectSeq(Section(hs), LAMBDA d : Typ(d) = 6)
Strings == SelectSeq(Descriptors, LAMBDA d : Typ(d) = 3)

\* What a GET_DESCRIPTOR asks for; <<>>: there is none.
Described(hs, q) ==
  LET speed == IF OtherSpeed(q) /\ Dual THEN ~hs ELSE hs
      n     == value(q) + 1
      there == n \in DOMAIN ConfigsOf[speed]
  IN  CASE descType(q) = DEVICE -> Section(hs)[1]
        [] descType(q) = CONFIGURATION /\ there -> Whole(speed, n)
        [] descType(q) = STRING_ /\ n <= Len(Strings) -> Strings[n]
        [] descType(q) = DEVICE_QUALIFIER /\ Qualifiers(hs) # <<>> -> Qualifiers(hs)[1]
        [] descType(q) = OTHER_SPEED_CONF /\ Dual /\ there ->
             [Whole(speed, n) EXCEPT ![2] = OTHER_SPEED_CONF]
        [] OTHER -> <<>>
-----------------------------------------------------------------------------
(* The host. *)

\* Mutant: the stall is only withdrawn when the SETUP packet is read.
MutSetupToken(v, addr) == [v EXCEPT !.vld = FALSE]

\* Any SETUP token ends 'vld'; one for this device withdraws the stall.
SetupToken(v, addr) ==
  [v EXCEPT !.vld = FALSE, !.stall = IF addr \in {0, v.devAddr} THEN FALSE ELSE @]

HostSetup ==
  /\ host.phase = "idle"
  /\ \E q \in IF hurt THEN LateRequests ELSE Requests :
       /\ request(q) = SET_ADDRESS /\ reqType(q) = STANDARD => host.addr = 0 /\ belief.cfg = 0
       /\ host' = [host EXCEPT !.phase = "setup", !.req = q]
  /\ host.addr \in {0, r.devAddr}
  /\ r' = SetupToken(r, host.addr)
  /\ UNCHANGED <<queue, belief, faults, hurt>>

\* The packet engine takes a SETUP packet unless the endpoint is stalled.
HostSetupData ==
  /\ host.phase = "setup" /\ ~r.stall
  /\ queue' = Append(queue, host.req)
  /\ host' = [host EXCEPT !.phase = IF dev2Host(host.req) THEN "data" ELSE "status"]
  /\ UNCHANGED <<r, belief, faults, hurt>>

\* An IN transaction of the data stage.  A packet ends when it is full or, after the
\* last byte, with 'don'.  Without 'don' a packet that is not full stays open.
Sent(q, got, bytes) == [host EXCEPT !.got = got \o bytes,
                                    !.phase = IF Len(got \o bytes) = length(q) THEN "status" ELSE @]
HostIn ==
  /\ host.phase = "data" /\ ~host.open /\ ~r.stall
  /\ r.state \in {"READ_DESCRIPTOR", "RETURN_VALUE"}
  /\ LET n     == Least(maxPktSize, Len(r.out))
         bytes == SubSeq(r.out, 1, n)
         last  == n = Len(r.out)
         full  == n = maxPktSize
         quiet == r.state = "READ_DESCRIPTOR" /\ r.sizeMatch /\ r.out # <<>>
         sent  == Sent(host.req, host.got, bytes)
     IN  CASE ~last -> /\ r' = [r EXCEPT !.out = SubSeq(@, n + 1, Len(@))]
                       /\ host' = sent
           [] last /\ full /\ quiet -> r' = Status(r) /\ host' = sent
           [] last /\ full /\ ~quiet -> r' = [r EXCEPT !.out = <<>>] /\ host' = sent
           [] last /\ ~full /\ quiet -> /\ r' = Status(r)
                                       /\ host' = [sent EXCEPT !.phase = "data", !.open = TRUE]
           [] last /\ ~full /\ ~quiet -> r' = Status(r) /\ host' = [sent EXCEPT !.phase = "status"]
  /\ UNCHANGED <<queue, belief, faults, hurt>>

\* The host goes to the status stage before it has read all it asked for.
HostStops ==
  /\ host.phase = "data" /\ ~host.open /\ host.got # <<>>
  /\ host' = [host EXCEPT !.phase = "status", !.cut = TRUE]
  /\ UNCHANGED <<r, queue, belief, faults, hurt>>

\* What the host knows of the device after a request was done.
Learn(hs, b, q) ==
  LET e == epAddr(q)
      StdReq(reqs) == reqType(q) = STANDARD /\ request(q) \in reqs
      Of(ifc, f) == \E x \in EndpointsOf[hs][b.cfg] : At(x.dsc, 2) = f /\ x.ifc = ifc
  IN  CASE StdReq({SET_CONFIGURATION}) -> [NoBelief EXCEPT !.cfg = value(q), !.wakeup = b.wakeup]
        [] StdReq({SET_INTERFACE}) ->
             [b EXCEPT !.alt[index(q)] = value(q), !.halted = {f \in @ : ~Of(index(q), f)}]
        [] StdReq({SET_FEATURE}) /\ recipient(q) = EPT -> [b EXCEPT !.halted = @ \cup {e}]
        [] StdReq({CLEAR_FEATURE}) /\ recipient(q) = EPT -> [b EXCEPT !.halted = @ \ {e}]
        [] StdReq({SET_FEATURE, CLEAR_FEATURE}) /\ recipient(q) = DEV ->
             [b EXCEPT !.wakeup = request(q) = SET_FEATURE]
        [] OTHER -> b

\* The status stage of a read: an OUT token and an empty packet, which the packet
\* engine takes if the engine waits for it.
HostStatusOut ==
  /\ host.phase = "status" /\ dev2Host(host.req) /\ ~r.stall
  /\ LET v == TokOutSeen(r)
         taken == v.state = "STATUS" /\ dev2Host(v.parm)
     IN  /\ v # r \/ taken
         /\ r' = v
         /\ queue' = IF taken THEN Append(queue, <<>>) ELSE queue
         /\ host' = IF taken THEN Idle(host.addr) ELSE host
  /\ UNCHANGED <<belief, faults, hurt>>

\* The status stage of a write: the engine is done when the packet engine has
\* taken the empty packet, the host when it has received it.
HostStatusIn ==
  /\ host.phase = "status" /\ ~dev2Host(host.req) /\ ~r.stall
  /\ r.state = "STATUS" /\ ~dev2Host(r.parm)
  /\ LET addr == value(r.parm) % 128
     IN  r' = IF request(r.parm) # SET_ADDRESS THEN Ready(r)
              ELSE [Ready(r) EXCEPT !.devAddr = addr,
                                    !.devState = IF addr = 0 THEN "DEFLT" ELSE "ADDRESS"]
  /\ host' = [host EXCEPT !.phase = "acking"]
  /\ UNCHANGED <<queue, belief, faults, hurt>>

HostAcks ==
  /\ host.phase = "acking"
  /\ belief' = Learn(r.hiSpeed, belief, host.req)
  /\ host' = Idle(IF request(host.req) = SET_ADDRESS /\ reqType(host.req) = STANDARD
                    THEN value(host.req) ELSE host.addr)
  /\ UNCHANGED <<r, queue, faults, hurt>>

\* A failed change of the configuration or an interface may have switched endpoints off.
HostStalled ==
  /\ host.phase \in {"data", "status"} /\ r.stall
  /\ host' = Idle(host.addr)
  /\ belief' = [belief EXCEPT !.spoiled = @ \/ request(host.req) \in {SET_CONFIGURATION, SET_INTERFACE}]
  /\ UNCHANGED <<r, queue, faults, hurt>>
-----------------------------------------------------------------------------
(* What disturbs a transfer. *)

\* A token that is not for endpoint 0 of this device, between two transactions.
ForeignToken ==
  /\ faults < MaxFaults
  /\ host.phase # "setup" /\ ~host.open
  /\ \E t \in Foreign :
       r' = IF t = "OUT" THEN TokOutSeen(r) ELSE [r EXCEPT !.vld = FALSE]
  /\ r' # r
  /\ hurt' = (hurt \/ host.phase = "data" \/ r.vld)
  /\ faults' = faults + 1
  /\ UNCHANGED <<queue, host, belief>>

\* The host gives up in the middle of a transfer.
HostAbandons ==
  /\ faults < MaxFaults
  /\ host.phase \in {"data", "status"}
  /\ host' = Idle(host.addr)
  /\ hurt' = TRUE
  /\ faults' = faults + 1
  /\ UNCHANGED <<r, queue, belief>>

\* A reset of the bus, after which the speed may be another one.
BusReset ==
  /\ \E hs \in BOOLEAN : r' = RInit(hs)
  /\ queue' = <<>> /\ host' = Idle(0) /\ belief' = NoBelief /\ hurt' = FALSE
  /\ UNCHANGED faults
-----------------------------------------------------------------------------
EngineNext ==
  \/ TakeSetup \/ LoseByte \/ StatusOut
  \/ Feature \/ GetConfiguration \/ GetInterface \/ GetStatus \/ SetAddress
  \/ SetConfiguration \/ SetInterface \/ GetDescriptor \/ OtherRequest
AgentNext == AgentRefuses \/ AgentAccepts \/ AgentSends \/ AgentDone
HostNext == HostSetupData \/ HostIn \/ HostStatusOut \/ HostStatusIn \/ HostAcks \/ HostStalled

Next == \/ EngineNext \/ AgentNext \/ HostNext
        \/ HostSetup \/ HostStops \/ ForeignToken \/ HostAbandons \/ BusReset

\* The engine is clocked, an agent answers, and a host goes on with a transfer it
\* has begun.  Nothing makes the host begin one, or the bus be reset.
Spec == /\ Init /\ [][Next]_vars
        /\ WF_vars(EngineNext) /\ WF_vars(AgentNext) /\ WF_vars(HostNext)
-----------------------------------------------------------------------------
(* Properties. *)

\* The registers have their types.
TypeOK ==
  /\ r.state \in {"GET_PARAMS", "WAIT_EXT", "WAIT_EXT_DONE", "STD_REQUEST",
                  "READ_DESCRIPTOR", "RETURN_VALUE", "STATUS"}
  /\ Len(r.parm) \in 0 .. 8 /\ (r.state = "GET_PARAMS" <=> Len(r.parm) < 8)
  /\ r.out \in Seq(0 .. 255) /\ (r.out # <<>> => r.state \in {"READ_DESCRIPTOR", "RETURN_VALUE"})
  /\ r.altSettings \in [Interfaces -> 0 .. MaxAlt]
  /\ r.epSize \in [Endpoints -> PktSizes] /\ r.epAssoc \in [Endpoints -> Interfaces]
  /\ r.devState \in {"DEFLT", "ADDRESS", "CONFIGURED"} /\ r.devAddr \in 0 .. 127
  /\ r.cfgCurr \in 0 .. numConfigs(r.hiSpeed)

\* The answer to a request that follows from what the host has set up before:
\* the data of a read, <<>> of a write, a Refusal, or Unspecified.
Refusal == <<-1>>
Unspecified == <<-2>>

Promised(hs, b, q) ==
  LET e == epAddr(q)
      Used == e % 128 = 0 \/ \E d \in InUse(hs, b.cfg, b.alt) : At(d, 2) = e
      Exists(alt) == HasSetting(hs, b.cfg, index(q), alt)
      desc == Described(hs, q)
      alt == b.alt[index(q)]
      Require(p, a) == IF p THEN a ELSE Refusal
      Is(req, rcp) == request(q) = req /\ recipient(q) = rcp
      IsFeature(rcp) == Is(SET_FEATURE, rcp) \/ Is(CLEAR_FEATURE, rcp)
  IN  IF reqType(q) # STANDARD THEN Unspecified ELSE
      CASE request(q) = GET_DESCRIPTOR ->
             Require(desc # <<>>, SubSeq(desc, 1, Least(length(q), Len(desc))))
        [] request(q) = GET_CONFIGURATION -> <<b.cfg>>
        [] request(q) = GET_INTERFACE -> Require(Exists(alt), <<alt>>)
        [] request(q) = SET_ADDRESS -> <<>>
        [] request(q) = SET_CONFIGURATION ->
             Require(value(q) = 0 \/ Config(hs, value(q)) # <<>>, <<>>)
        [] request(q) = SET_INTERFACE -> Require(Exists(value(q)), <<>>)
        [] Is(GET_STATUS, DEV) -> <<IF b.wakeup THEN 2 ELSE 0, 0>>
        [] Is(GET_STATUS, IFC) /\ b.cfg # 0 -> Require(Exists(alt), <<0, 0>>)
        [] Is(GET_STATUS, EPT) /\ Used -> <<IF e \in b.halted THEN 1 ELSE 0, 0>>
        [] IsFeature(EPT) /\ e % 128 # 0 /\ (b.cfg = 0 \/ Used) -> Require(b.cfg # 0, <<>>)
        [] IsFeature(DEV) /\ b.cfg # 0 ->
             Require((At(Config(hs, b.cfg)[1], 7) \div 32) % 2 = 1, <<>>)
        [] OTHER -> Unspecified

\* In a transfer that nothing disturbs the host reads exactly what the descriptors
\* and its own earlier requests make it expect, up to where it stops, and a request is
\* refused if and only if it has to be.
Answers ==
  LET a == Promised(r.hiSpeed, belief, host.req)
      n == Len(host.got)
      Read == IF host.cut THEN n <= Len(a) /\ host.got = SubSeq(a, 1, n) ELSE host.got = a
  IN  ~hurt /\ ~belief.spoiled /\ host.phase \notin {"idle", "setup"} =>
        \/ a = Unspecified
        \/ IF r.stall THEN a = Refusal
           ELSE CASE host.phase = "acking" -> a # Refusal
                  [] host.phase = "status" /\ dev2Host(host.req) -> Read
                  [] OTHER -> TRUE

\* What the device holds is what the host has set up, when neither is busy.
Agreement ==
  host.phase = "idle" /\ queue = <<>> /\ ~hurt /\ ~belief.spoiled =>
    /\ r.state = "GET_PARAMS" /\ r.devAddr = host.addr
    /\ r.cfgCurr = belief.cfg /\ r.remWakeup = belief.wakeup
    /\ Configured => \A i \in 0 .. r.numIfc - 1 : r.altSettings[i] = belief.alt[i]
    /\ \A d \in InUse(r.hiSpeed, belief.cfg, belief.alt) : At(d, 2) \in r.halted <=> At(d, 2) \in belief.halted

\* The packet engine is told the packet sizes of the endpoints in use, whatever has
\* happened to earlier transfers; those of an interface may be off after a failure.
SettingsLoaded ==
  LET used == InUse(r.hiSpeed, r.cfgCurr, r.altSettings)
      size(e) == LET d == {x \in used : At(x, 2) = e}
                 IN  IF d = {} THEN 0 ELSE LET x == CHOOSE x \in d : TRUE IN At(x, 4) + 256 * At(x, 5)
  IN  \A e \in Endpoints : \/ r.epSize[e] = size(e)
                           \/ (hurt \/ belief.spoiled \/ r.stall) /\ r.epSize[e] = 0

\* An agent that serves a request knows when it is over: "'vld' deasserted while not
\* don yet => agent must abort" (Usb2Pkg.vhd:550-552).
AgentKnows == r.vld => r.state \in {"WAIT_EXT", "WAIT_EXT_DONE"}

\* A SETUP packet is never rejected, nor lost, when the transfer before it was over,
\* and the device always answers to the address the host uses.
SetupTaken ==
  ~hurt => /\ host.phase = "setup" => ~r.stall
           /\ queue # <<>> /\ Head(queue) # <<>> => r.state = "GET_PARAMS"
           /\ host.phase # "acking" => host.addr \in {0, r.devAddr}

\* The engine waits for the status stage of a read while the host waits for data.
DataMissing ==
  r.state = "STATUS" /\ dev2Host(r.parm) /\ queue = <<>> /\ host.phase = "data"

\* An undisturbed transfer ends: the engine is ready for the next SETUP again,
\* unless it has left the host without an end of the data.
Served == (r.state # "GET_PARAMS") ~> (r.state = "GET_PARAMS" \/ hurt \/ DataMissing)

\* "the host may cut a control-read short by requesting status earlier [...] if we see
\* an OUT token fly by we move to STATUS" (Usb2StdCtlEp.vhd:932-935): it is the host of
\* this transfer that cuts it short.
ReadNotCut == hurt => ~DataMissing

\* "is the requested length an exact multiple of the packet size? suppress zero-length
\* delimiter in this case!" (Usb2StdCtlEp.vhd:917-918): in no other case.
DataEnds == ~hurt => ~DataMissing
=============================================================================
