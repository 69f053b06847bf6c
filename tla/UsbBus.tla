------------------------------- MODULE UsbBus -------------------------------
(***************************************************************************)
(* The packet engine on a bus: a host that runs transactions with data     *)
(* toggles and repeats what was not acknowledged, a wire that loses or     *)
(* corrupts packets, a PHY that aborts transmissions, and the endpoints'   *)
(* streams.  The host and the wire are external to the repository; they    *)
(* follow the rules of USB 2.0 chapter 8 that the engine relies on.        *)
(***************************************************************************)
EXTENDS PktProc, SequencesExt

CONSTANT Scenarios
(***************************************************************************)
(* A scenario fixes what happens around the engine in one behaviour:       *)
(*   inp     inp[e]: the bursts IN endpoint e will offer, one after the    *)
(*           other; for a framed endpoint a burst is a frame with its DON  *)
(*   outPkts outPkts[e]: the packets [tok, dat] the host will send to e    *)
(*   faults  how many packets may be lost or damaged                       *)
(*   lose    which: "tok" tokens, "dat" IN data, "pid" OUT data with its   *)
(*           PID, "crc" OUT data with a good PID, "ack", "hsk" handshakes  *)
(*   aborts  how many transmissions the PHY may abort                      *)
(*   halts   the endpoint directions <<dir, e>> the host may halt once     *)
(*   lag     packets may follow each other faster than the reader drains   *)
(*           the buffer                                                    *)
(***************************************************************************)
FaultKinds == {"tok", "dat", "pid", "crc", "ack", "hsk"}

Packet == [tok : {"OUT", "SETUP"}, dat : Seq(Byte)]

Scenario == [ inp : [EP -> Seq(Seq(Item))], outPkts : [EP -> Seq(Packet)], faults : Nat,
              lose : SUBSET FaultKinds, aborts : Nat, halts : SUBSET ({"inp", "out"} \X EP),
              lag : BOOLEAN ]

ASSUME ScenarioAssumption == Scenarios \subseteq Scenario

VARIABLES
  env,      \* the scenario, with the faults and aborts that are left
  todo,     \* todo[e]: the bursts endpoint e has not offered yet
  offered,  \* offered[e]: all that endpoint e has offered so far (history)
  tokDat,   \* the endpoint in the token register of Usb2PktRx, or NoPkt
  h,        \* the host: transaction state, endpoint
  hTglInp,  \* the host's data toggles
  hTglOut,
  hPing,    \* the OUT endpoints the host must PING first
  oIdx,     \* oIdx[e]: how many packets of outPkts[e] were acknowledged
  sent,     \* sent[e]: what endpoint e must see of these packets (history)
  rcv,      \* rcv[e]: the stream the host has received from endpoint e
  nLost,    \* packets lost or aborted, and transactions without an answer; the
            \* latter are counted until one is not accounted for
  nSilent

hostVars == <<h, hTglInp, hTglOut, hPing, oIdx, sent, rcv, nSilent>>
faultVars == <<env, nLost>>
busVars  == <<env, todo, offered, tokDat, h, hTglInp, hTglOut, hPing, oIdx, sent, rcv, nLost,
              nSilent>>
vars     == <<pktVars, busVars>>

Init ==
  /\ PktInit
  /\ env \in Scenarios
  /\ todo = env.inp
  /\ offered = [e \in EP |-> <<>>]
  /\ tokDat = NoPkt
  /\ h = [st |-> "idle", ep |-> 0]
  /\ hTglInp = [e \in EP |-> 0] /\ hTglOut = [e \in EP |-> 0]
  /\ hPing = {}
  /\ oIdx = [e \in EP |-> 0]
  /\ sent = [e \in EP |-> <<>>]
  /\ rcv = [e \in EP |-> <<>>]
  /\ nLost = 0 /\ nSilent = 0
-----------------------------------------------------------------------------
(* Endpoints.                                                              *)
EpOffer(e) ==
  /\ todo[e] # <<>>
  /\ src' = [src EXCEPT ![e] = @ \o Head(todo[e])]
  /\ offered' = [offered EXCEPT ![e] = @ \o Head(todo[e])]
  /\ todo' = [todo EXCEPT ![e] = Tail(@)]
  /\ UNCHANGED <<r, rd, mem, outRdy, halted, out, tx, wire, faultVars, tokDat, hostVars>>

EpReady(e) ==
  /\ env.outPkts[e] # <<>> /\ e \notin outRdy
  /\ outRdy' = outRdy \union {e}
  /\ UNCHANGED <<r, rd, mem, src, halted, out, tx, wire, busVars>>
-----------------------------------------------------------------------------
(* The engine's own steps, and the PHY aborting one of its packets.        *)
EngineStep ==
  /\ \/ WaitTx \/ Hsk \/ DataInpByte \/ DataInpDry \/ DataInpDon \/ DataRepByte
     \/ WaitDonTx \/ WaitDonNext \/ WaitFs \/ IdleRetryTimeout \/ Reader
  /\ UNCHANGED busVars

PhyAbort ==
  /\ env.aborts > 0
  /\ env' = [env EXCEPT !.aborts = @ - 1]
  /\ DataInpAbort \/ DataRepAbort \/ WaitDonAbort
  /\ nLost' = nLost + 1
  /\ UNCHANGED <<todo, offered, tokDat, hostVars>>

\* The engine waits longer for a handshake than the host takes to send one,
\* and (2 ms) longer for data than the host takes between token and data.
EngineTimeout ==
  /\ \/ WaitAckTimeout /\ h.st # "ack"
     \/ DataPidTimeout /\ h.st # "out"
  /\ wire = NoPkt
  /\ UNCHANGED busVars

\* Between transactions the host halts a direction of an endpoint, or clears
\* a halt (only one it has set) and resets its own data toggle too.
Halt(dir, e) ==
  /\ h.st = "idle" /\ r.state = "IDLE" /\ wire = NoPkt
  /\ \/ /\ <<dir, e>> \in env.halts
        /\ SetHalt(dir, e)
        /\ env' = [env EXCEPT !.halts = @ \ {<<dir, e>>}]
        /\ UNCHANGED <<hTglInp, hTglOut>>
     \/ /\ e \in halted[dir]
        /\ ClearHalt(dir, e)
        /\ IF dir = "inp" THEN hTglInp' = [hTglInp EXCEPT ![e] = 0] /\ UNCHANGED hTglOut
           ELSE hTglOut' = [hTglOut EXCEPT ![e] = 0] /\ UNCHANGED hTglInp
        /\ UNCHANGED env
  /\ UNCHANGED <<todo, offered, tokDat, h, hPing, oIdx, sent, rcv, nLost, nSilent>>

\* The device listens, and its reader keeps up unless the scenario lets it lag.
CanRx == /\ r.state \in {"IDLE", "DATA_PID", "WAIT_ACK"}
         /\ wire = NoPkt
         /\ env.lag \/ ReaderIdle

\* The header as Usb2PktRx passes it on: the token register belongs to the
\* last token seen, whatever packet comes now.
Hdr(p, t) == [pid |-> p, ep |-> IF t = NoPkt THEN 0 ELSE t, mine |-> t # NoPkt]

Lose(kind) ==
  /\ kind \in env.lose /\ env.faults > 0
  /\ env' = [env EXCEPT !.faults = @ - 1]
  /\ nLost' = nLost + 1

\* A packet of the host reaches the engine, or is lost on its way.  A damaged
\* token may still have reached the token register.
SendTok(pid, e) ==
  \/ /\ RxHdr(Hdr(pid, e)) /\ tokDat' = e
     /\ UNCHANGED faultVars
  \/ /\ Lose("tok") /\ tokDat' \in {tokDat, e}
     /\ UNCHANGED pktVars
-----------------------------------------------------------------------------
(* IN transactions of the host.                                            *)
HostIn(e) ==
  /\ h.st = "idle" /\ CanRx
  /\ env.inp[e] # <<>>
  /\ SendTok("IN", e)
  /\ h' = [st |-> "inp", ep |-> e]
  /\ UNCHANGED <<todo, offered, hTglInp, hTglOut, hPing, oIdx, sent, rcv, nSilent>>

\* A short packet ends a transfer, which matters to a framed pipe only.
Received(e, s) ==
  s \o (IF Len(s) < MaxPkt /\ e \notin Unframed THEN <<DON>> ELSE <<>>)

HostData ==
  /\ h.st = "inp" /\ wire # NoPkt /\ wire.pid \in DatPids
  /\ \/ /\ wire.pid = DatPid(hTglInp[h.ep])
        /\ rcv' = [rcv EXCEPT ![h.ep] = @ \o Received(h.ep, wire.dat)]
        /\ hTglInp' = [hTglInp EXCEPT ![h.ep] = 1 - @]
        /\ h' = [h EXCEPT !.st = "ack"]
        /\ UNCHANGED faultVars
     \/ /\ wire.pid # DatPid(hTglInp[h.ep])      \* a repeated packet
        /\ h' = [h EXCEPT !.st = "ack"]
        /\ UNCHANGED <<rcv, hTglInp, faultVars>>
     \/ /\ Lose("dat")
        /\ h' = [h EXCEPT !.st = "idle"]
        /\ UNCHANGED <<rcv, hTglInp>>
  /\ wire' = NoPkt
  /\ UNCHANGED <<r, rd, mem, epVars, tx, todo, offered, tokDat, hTglOut, hPing, oIdx, sent, nSilent>>

HostAck ==
  /\ h.st = "ack" /\ CanRx
  /\ \/ RxHdr(Hdr("ACK", tokDat)) /\ UNCHANGED faultVars
     \/ Lose("ack") /\ UNCHANGED pktVars
  /\ h' = [h EXCEPT !.st = "idle"]
  /\ UNCHANGED <<todo, offered, tokDat, hTglInp, hTglOut, hPing, oIdx, sent, rcv, nSilent>>

\* No data to fetch, or the endpoint is stalled: the transaction is over.
HostInRefused ==
  /\ h.st = "inp" /\ wire # NoPkt /\ wire.pid \in HskPids
  /\ h' = [h EXCEPT !.st = "idle"]
  /\ wire' = NoPkt
  /\ UNCHANGED <<r, rd, mem, epVars, tx, todo, offered, tokDat, faultVars,
                 hTglInp, hTglOut, hPing, oIdx, sent, rcv, nSilent>>
-----------------------------------------------------------------------------
(* OUT and SETUP transactions of the host.                                 *)
More(e)   == oIdx[e] < Len(env.outPkts[e])
OutPkt(e) == env.outPkts[e][oIdx[e] + 1]

\* What endpoint e must see of a packet: its bytes, and a marker if it ends
\* a transfer.  SETUP data go to the control port.
PktItems(p) ==
  LET port == IF p.tok = "SETUP" THEN "ctl" ELSE "out"
      s    == p.dat \o (IF Len(p.dat) < MaxPkt \/ p.tok = "SETUP" THEN <<DON>> ELSE <<>>)
  IN  [i \in DOMAIN s |-> [port |-> port, item |-> s[i]]]

HostPing(e) ==
  /\ h.st = "idle" /\ CanRx
  /\ More(e) /\ e \in hPing /\ OutPkt(e).tok = "OUT"
  /\ SendTok("PING", e)
  /\ h' = [st |-> "ping", ep |-> e]
  /\ UNCHANGED <<todo, offered, hTglInp, hTglOut, hPing, oIdx, sent, rcv, nSilent>>

HostOut(e) ==
  /\ h.st = "idle" /\ CanRx
  /\ More(e) /\ (e \notin hPing \/ OutPkt(e).tok = "SETUP")
  /\ SendTok(OutPkt(e).tok, e)
  /\ h' = [st |-> "out", ep |-> e]
  /\ UNCHANGED <<todo, offered, hTglInp, hTglOut, hPing, oIdx, sent, rcv, nSilent>>

OutPid(e) == IF OutPkt(e).tok = "SETUP" THEN "DATA0" ELSE DatPid(hTglOut[e])

\* The data packet follows its token, whether or not the device saw that.
HostOutPid ==
  /\ h.st = "out" /\ CanRx
  /\ \/ /\ RxHdr(Hdr(OutPid(h.ep), tokDat))
        /\ h' = [h EXCEPT !.st = "pld"]
        /\ UNCHANGED faultVars
     \/ /\ Lose("pid")
        /\ h' = [h EXCEPT !.st = "hsk"]
        /\ UNCHANGED pktVars
  /\ UNCHANGED <<todo, offered, tokDat, hTglInp, hTglOut, hPing, oIdx, sent, rcv, nSilent>>

Damaged(s) == [i \in DOMAIN s |-> 0]

HostOutPayload ==
  /\ h.st = "pld"
  /\ IF r.state \in {"DATA_OUT", "DRAIN"}
     THEN \/ RxData(OutPkt(h.ep).dat, FALSE) /\ UNCHANGED faultVars
          \/ RxData(Damaged(OutPkt(h.ep).dat), TRUE) /\ Lose("crc")
     ELSE UNCHANGED <<pktVars, faultVars>>
  /\ h' = [h EXCEPT !.st = "hsk"]
  /\ UNCHANGED <<todo, offered, tokDat, hTglInp, hTglOut, hPing, oIdx, sent, rcv, nSilent>>

Accepted(e) ==
  /\ oIdx' = [oIdx EXCEPT ![e] = @ + 1]
  /\ sent' = [sent EXCEPT ![e] = @ \o PktItems(OutPkt(e))]
  /\ LET setup == OutPkt(e).tok = "SETUP"
     IN  /\ hTglOut' = [hTglOut EXCEPT ![e] = IF setup THEN 1 ELSE 1 - @]
         /\ hTglInp' = [hTglInp EXCEPT ![e] = IF setup THEN 1 ELSE @]

\* The answer to a data packet or to a PING arrives, or is lost.
HostHsk ==
  /\ h.st \in {"hsk", "ping"} /\ wire # NoPkt
  /\ \/ /\ h.st = "hsk" /\ wire.pid \in {"ACK", "NYET"}
        /\ Accepted(h.ep)
        /\ hPing' = IF wire.pid = "NYET" THEN hPing \union {h.ep} ELSE hPing
        /\ UNCHANGED faultVars
     \/ /\ h.st = "ping" /\ wire.pid = "ACK"
        /\ hPing' = hPing \ {h.ep}
        /\ UNCHANGED <<oIdx, sent, hTglOut, hTglInp, faultVars>>
     \/ /\ wire.pid = "NAK"
        /\ hPing' = IF HiSpeed THEN hPing \union {h.ep} ELSE hPing
        /\ UNCHANGED <<oIdx, sent, hTglOut, hTglInp, faultVars>>
     \/ /\ wire.pid = "STALL"
        /\ UNCHANGED <<hPing, oIdx, sent, hTglOut, hTglInp, faultVars>>
     \/ /\ Lose("hsk")
        /\ UNCHANGED <<hPing, oIdx, sent, hTglOut, hTglInp>>
  /\ wire' = NoPkt
  /\ h' = [h EXCEPT !.st = "idle"]
  /\ UNCHANGED <<r, rd, mem, epVars, tx, todo, offered, tokDat, rcv, nSilent>>

\* The device does not answer.
HostSilence ==
  /\ h.st \in {"inp", "hsk", "ping"} /\ wire = NoPkt
  /\ r.state \in {"IDLE", "DATA_PID"}
  /\ h' = [h EXCEPT !.st = "idle"]
  /\ nSilent' = IF nSilent <= nLost THEN nSilent + 1 ELSE nSilent
  /\ UNCHANGED <<pktVars, faultVars, todo, offered, tokDat, hTglInp, hTglOut, hPing, oIdx, sent,
                 rcv>>

\* A start-of-frame packet; its frame number lands in the token register.
HostSof ==
  /\ h.st = "idle" /\ CanRx
  /\ RxHdr(Hdr("SOF", tokDat))
  /\ tokDat' = NoPkt
  /\ UNCHANGED <<todo, offered, faultVars, hostVars>>
-----------------------------------------------------------------------------
Next ==
  \/ \E e \in EP : EpOffer(e) \/ EpReady(e)
  \/ EngineStep \/ PhyAbort \/ EngineTimeout
  \/ \E e \in EP : Halt("inp", e) \/ Halt("out", e)
  \/ \E e \in EP : HostIn(e) \/ HostPing(e) \/ HostOut(e)
  \/ HostData \/ HostAck \/ HostInRefused
  \/ HostOutPid \/ HostOutPayload \/ HostHsk \/ HostSilence \/ HostSof

Spec == Init /\ [][Next]_vars

\* The host keeps polling the endpoints E, brings its transactions to an end;
\* endpoints offer their data and get ready again; the engine is clocked.
FairnessFor(E) ==
  /\ \A e \in EP : WF_vars(EpOffer(e)) /\ WF_vars(EpReady(e))
  /\ \A e \in E  : SF_vars(HostIn(e)) /\ SF_vars(HostPing(e)) /\ SF_vars(HostOut(e))
  /\ WF_vars(EngineStep) /\ WF_vars(EngineTimeout)
  /\ WF_vars(HostData \/ HostAck \/ HostInRefused)
  /\ WF_vars(HostOutPid \/ HostOutPayload \/ HostHsk \/ HostSilence)

FairSpec == Spec /\ FairnessFor(EP)
-----------------------------------------------------------------------------
(* What must hold.                                                         *)
HostStates == {"idle", "inp", "ack", "out", "pld", "hsk", "ping"}

\* Every register and queue of engine and host has its type; the host is in an
\* OUT transaction only while it has a packet to send.
TypeOK ==
  /\ PktTypeOK
  /\ env \in Scenario
  /\ todo \in [EP -> Seq(Seq(Item))]
  /\ offered \in [EP -> Seq(Item)]
  /\ tokDat \in EP \union {NoPkt}
  /\ h \in [st : HostStates, ep : EP]
  /\ hTglInp \in [EP -> {0, 1}] /\ hTglOut \in [EP -> {0, 1}]
  /\ hPing \subseteq EP
  /\ oIdx \in [EP -> Nat]
  /\ sent \in [EP -> Seq(Delivery)]
  /\ rcv \in [EP -> Seq(Item)]
  /\ nLost \in Nat /\ nSilent \in Nat
  /\ h.st \in {"out", "pld", "hsk"} => More(h.ep)

\* Everything endpoint e offers in the scenario.
Concat(ss)   == FoldLeft(LAMBDA s, t : s \o t, <<>>, ss)
InpStream(e) == Concat(env.inp[e])

OutStream(e) == FoldLeft(LAMBDA s, p : s \o PktItems(p), <<>>, env.outPkts[e])

\* Whatever packets and acknowledgements are lost, the host receives what the
\* endpoint offered: nothing twice, nothing missing, nothing reordered, framed
\* as offered (replay from the buffer, data toggles, ZLP generation).
InpFaithful == \A e \in EP : IsPrefix(rcv[e], offered[e])

\* An OUT endpoint sees exactly the packets the host sent to it, in order, its
\* transfers ended by don, SETUP data on the control port only: those the host
\* knows to have arrived, and the one it is sending.
OutFaithful ==
  \A e \in EP : IsPrefix(out[e], sent[e] \o (IF More(e) THEN PktItems(OutPkt(e)) ELSE <<>>))

\* Between transactions host and engine agree on the data toggle of every IN
\* endpoint, unless the engine still keeps the packet for it whose
\* acknowledgement was lost; OUT toggles differ only by an accepted packet.
ToggleAgreement ==
  (h.st = "idle" /\ r.state = "IDLE" /\ wire = NoPkt) =>
     \A e \in EP :
       /\ hTglInp[e] = r.dataTglInp[e] \/ (r.bufInpVld /\ r.bufInpEpIdx = e)
       /\ hTglOut[e] = r.dataTglOut[e] \/ (More(e) /\ "hsk" \in env.lose)

\* The device leaves the host without an answer only in transactions that
\* lost a packet or were aborted by the PHY, or in the one after: one fault
\* costs one retry.
SilenceIsLoss == nSilent <= nLost

\* IN data are dropped from the buffer only after the host has got them.
ReleaseAfterReceipt ==
  [][(BufBusy /\ ~BufBusy') => /\ r.state = "WAIT_ACK"
                                 /\ hTglInp[r.epIdx] # r.dataTglInp[r.epIdx]]_vars

\* While unacknowledged IN data occupy the buffer, no OUT packet is released
\* from it, and no data of another IN endpoint enter it.
BufferExclusive ==
  [][BufBusy => /\ r'.bufVldIdx = r.bufVldIdx
                /\ r'.bufInpEpIdx = r.bufInpEpIdx]_vars

\* Every stream is delivered, once the faults of the scenario are used up.
AllDelivered ==
  <>[](\A e \in EP : rcv[e] = InpStream(e) /\ out[e] = OutStream(e))

\* The IN direction implements a reliable pipe per endpoint: what an endpoint
\* gave away and the host has not got is in flight.
Flight(e) == SubSeq(offered[e], Len(rcv[e]) + 1, Len(offered[e]) - Len(src[e]))

Pipe == INSTANCE InpPipe WITH rest   <- src,
                              flight <- [e \in EP |-> Flight(e)],
                              got    <- rcv

ImplementsPipe == Pipe!Spec
=============================================================================
