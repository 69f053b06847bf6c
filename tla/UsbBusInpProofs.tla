--------------------------- MODULE UsbBusInpProofs ---------------------------
(***************************************************************************)
(* The IN direction of the packet engine delivers what the endpoints       *)
(* offer, in every scenario whose faults it masks.  Every step of engine,  *)
(* host, wire and endpoints keeps the invariant InpInv: first the          *)
(* arithmetic of buffer indices and of what an endpoint lacks, then one    *)
(* lemma per action that touches the IN direction, the step as a whole     *)
(* (InpStep) and what it leaves alone (KeptStep, StreamsStep).  Last the   *)
(* two ways in which an empty packet has an owner, and the theorems that   *)
(* follow from the invariant.                                              *)
(***************************************************************************)
EXTENDS UsbBusInv, UsbBusProofs

USE SizeAssumption
-----------------------------------------------------------------------------
(* Indices of the packet buffer.                                           *)
LEMMA ModOnce ==
  \A x \in Nat, b \in Nat \ {0} :
     /\ x < b => x % b = x
     /\ (b <= x /\ x < b + b) => x % b = x - b
  OBVIOUS

\* Less than a whole round ahead of index v.
LEMMA AheadValue ==
  ASSUME NEW v \in 0 .. BufSize - 1, NEW k \in 0 .. BufSize - 1
  PROVE  (v + k) % BufSize = IF v + k < BufSize THEN v + k ELSE v + k - BufSize
  <1>1. v + k \in Nat /\ v + k < BufSize + BufSize
    BY DEF Idx
  <1>2. PICK x \in Nat : x = v + k
    BY <1>1
  <1>3. x % BufSize = IF x < BufSize THEN x ELSE x - BufSize
    <2>1. x < BufSize => x % BufSize = x
      BY ModOnce
    <2>2. x < BufSize + BufSize
      BY <1>1, <1>2
    <2>3. BufSize <= x => x % BufSize = x - BufSize
      BY <2>2, ModOnce
    <2> QED BY <2>1, <2>3
  <1> QED BY <1>2, <1>3

LEMMA AheadInjective ==
  ASSUME NEW v \in 0 .. BufSize - 1, NEW i \in 0 .. BufSize - 1, NEW j \in 0 .. BufSize - 1,
         (v + i) % BufSize = (v + j) % BufSize
  PROVE  i = j
  <1>1. /\ (v + i) % BufSize = IF v + i < BufSize THEN v + i ELSE v + i - BufSize
        /\ (v + j) % BufSize = IF v + j < BufSize THEN v + j ELSE v + j - BufSize
    BY AheadValue
  <1>2. v \in Int /\ i < BufSize /\ j < BufSize
    BY DEF Idx
  <1> QED BY <1>1, <1>2

LEMMA AheadNext ==
  ASSUME NEW v \in 0 .. BufSize - 1, NEW k \in 0 .. BufSize - 1, k + 1 < BufSize
  PROVE  /\ Inc((v + k) % BufSize) = (v + (k + 1)) % BufSize
         /\ Dec((v + (k + 1)) % BufSize) = (v + k) % BufSize
  <1>1. /\ (v + k) % BufSize = IF v + k < BufSize THEN v + k ELSE v + k - BufSize
        /\ (v + (k + 1)) % BufSize = IF v + (k + 1) < BufSize THEN v + (k + 1)
                                     ELSE v + (k + 1) - BufSize
    <2>1. k + 1 \in 0 .. BufSize - 1
      OBVIOUS
    <2> QED BY <2>1, AheadValue
  <1>2. \A i \in 0 .. BufSize - 1 : (i + 1) % BufSize = IF i + 1 < BufSize THEN i + 1 ELSE 0
    <2> TAKE i \in 0 .. BufSize - 1
    <2>1. i + 1 \in Nat /\ i + 1 <= BufSize /\ i + 1 < BufSize + BufSize
      OBVIOUS
    <2> QED BY <2>1, ModOnce
  <1>3. \A i \in 0 .. BufSize - 1 :
          (i + BufSize - 1) % BufSize = IF i = 0 THEN BufSize - 1 ELSE i - 1
    <2> TAKE i \in 0 .. BufSize - 1
    <2>1. /\ i + BufSize - 1 \in Nat /\ i + BufSize - 1 < BufSize + BufSize
          /\ i # 0 => BufSize <= i + BufSize - 1 /\ (i + BufSize - 1) - BufSize = i - 1
      OBVIOUS
    <2>2. i = 0 => (i + BufSize - 1) % BufSize = BufSize - 1
      BY <2>1, ModOnce
    <2>3. i # 0 => (i + BufSize - 1) % BufSize = i - 1
      BY <2>1, ModOnce
    <2> QED BY <2>2, <2>3
  <1>4. (v + k) % BufSize \in Idx /\ (v + (k + 1)) % BufSize \in Idx
    BY <1>1 DEF Idx
  <1>5. Inc((v + k) % BufSize) = (v + (k + 1)) % BufSize
    BY <1>1, <1>2, <1>4 DEF Inc, Idx
  <1>6. Dec((v + (k + 1)) % BufSize) = (v + k) % BufSize
    BY <1>1, <1>3, <1>4 DEF Dec, Idx
  <1> QED BY <1>5, <1>6

\* The words of a packet in the buffer.
LEMMA PosFacts ==
  ASSUME r.bufVldIdx \in Idx
  PROVE  /\ Pos(0) = r.bufVldIdx
         /\ \A k \in 0 .. MaxPkt : Pos(k) \in Idx
         /\ \A k \in 0 .. MaxPkt - 1 : Inc(Pos(k)) = Pos(k + 1) /\ Dec(Pos(k + 1)) = Pos(k)
         /\ \A i, j \in 0 .. MaxPkt : Pos(i) = Pos(j) => i = j
  <1>1. \A v \in Idx : (v + 0) % BufSize = v
    <2> SUFFICES ASSUME NEW v \in 0 .. BufSize - 1 PROVE (v + 0) % BufSize = v
      BY DEF Idx
    <2>1. 0 \in 0 .. BufSize - 1 /\ v + 0 = v /\ v < BufSize
      OBVIOUS
    <2> QED BY <2>1, AheadValue
  <1>2. \A v \in Idx, k \in 0 .. MaxPkt : (v + k) % BufSize \in Idx
    BY AheadValue, BufferAssumption DEF Idx
  <1>3. \A v \in Idx, k \in 0 .. MaxPkt - 1 :
           /\ Inc((v + k) % BufSize) = (v + (k + 1)) % BufSize
           /\ Dec((v + (k + 1)) % BufSize) = (v + k) % BufSize
    <2> SUFFICES ASSUME NEW v \in 0 .. BufSize - 1, NEW k \in 0 .. MaxPkt - 1
                 PROVE  /\ Inc((v + k) % BufSize) = (v + (k + 1)) % BufSize
                        /\ Dec((v + (k + 1)) % BufSize) = (v + k) % BufSize
      BY DEF Idx
    <2>1. k \in 0 .. BufSize - 1 /\ k + 1 < BufSize
      BY BufferAssumption
    <2> QED BY <2>1, AheadNext
  <1>4. \A v \in Idx, i, j \in 0 .. MaxPkt :
           (v + i) % BufSize = (v + j) % BufSize => i = j
    <2> SUFFICES ASSUME NEW v \in 0 .. BufSize - 1,
                        NEW i \in 0 .. MaxPkt, NEW j \in 0 .. MaxPkt,
                        (v + i) % BufSize = (v + j) % BufSize
                 PROVE  i = j
      BY DEF Idx
    <2>1. i \in 0 .. BufSize - 1 /\ j \in 0 .. BufSize - 1
      BY BufferAssumption
    <2> QED BY <2>1, AheadInjective
  <1> QED BY <1>1, <1>2, <1>3, <1>4 DEF Pos
-----------------------------------------------------------------------------
(* What a step may leave alone.                                            *)
EnvKept ==
  /\ env'.lose = env.lose /\ env'.aborts = env.aborts
  /\ env'.outPkts = env.outPkts /\ env'.halts = env.halts

StreamsKept == src' = src /\ offered' = offered /\ rcv' = rcv

\* The host does not leave the state in which it acknowledges.
AckKept == (h.st = "ack" /\ "ack" \notin env.lose) => h' = h

LEMMA LoseKept ==
  ASSUME TypeOK, NEW k, Lose(k) \/ UNCHANGED faultVars
  PROVE  EnvKept
  BY DEF TypeOK, Scenario, Lose, faultVars, EnvKept

LEMMA EnvFrame ==
  ASSUME EnvInv, EnvKept, halted' = halted
  PROVE  EnvInv'
  BY DEF EnvInv, EnvKept, NoSetup, AbortsMasked, Lossless

LEMMA StreamFrame ==
  ASSUME StreamInv, StreamsKept
  PROVE  StreamInv'
  BY DEF StreamInv, StreamsKept, Taken

\* The toggles stay; the buffer keeps its owner and a complete packet.
LEMMA TglFrame ==
  ASSUME TglInv, StreamsKept, AckKept, env'.lose = env.lose, hTglInp' = hTglInp,
         r'.dataTglInp = r.dataTglInp, BufBusy => BufBusy',
         r.bufInpVld => r'.bufInpVld, r'.bufInpEpIdx = r.bufInpEpIdx
  PROVE  TglInv'
  BY DEF TglInv, StreamsKept, AckKept, Taken, Lacks, Behind

\* The engine's registers stay, as far as an IN transaction is concerned.
RegsKept ==
  /\ Phase' = Phase /\ TxNow' = TxNow
  /\ r'.epIdx = r.epIdx /\ r'.pid = r.pid /\ r'.tok = r.tok /\ r'.donFlg = r.donFlg
  /\ r'.dataTglInp = r.dataTglInp /\ r'.dataCounter = r.dataCounter
  /\ r'.bufRWIdx = r.bufRWIdx /\ r'.bufVldIdx = r.bufVldIdx /\ r'.bufEndIdx = r.bufEndIdx
  /\ r'.bufInpVld = r.bufInpVld /\ r'.bufInpPart = r.bufInpPart
  /\ r'.bufInpEpIdx = r.bufInpEpIdx /\ r'.retryExpired = r.retryExpired

LEMMA SameRegs ==
  ASSUME r' = r, tx' = tx
  PROVE  RegsKept
  BY DEF RegsKept, Phase, TxNow

\* The engine rests: whatever happens around it leaves its packet alone.
LEMMA DataFrame ==
  ASSUME DataInv, StreamsKept, env'.lose = env.lose, env'.aborts = env.aborts,
         hTglInp' = hTglInp, RegsKept, mem' = mem, wire' \in {wire, NoPkt}
  PROVE  DataInv'
  <1>1. Phase' = Phase /\ Owner' = Owner /\ (BufBusy <=> BufBusy')
    BY DEF Owner, BufBusy, RegsKept
  <1>2. \A e : (Behind(e) <=> Behind(e)')
    BY DEF Behind, RegsKept
  <1>3. \A e, k : Shape(e, k) => Shape(e, k)'
    BY ZenonT(60) DEF Shape, Lacks, Taken, Next1, StreamsKept, RegsKept
  <1>4. \A e, k : Exact(e, k) => Exact(e, k)'
    BY DEF Exact, Stores, Pos, Next1, StreamsKept, RegsKept
  <1>5. Blind => Blind'
    BY DEF Blind, Lossless
  <1>6. (Sent <=> Sent') /\ (OnWire' => OnWire /\ wire' = wire)
    BY <1>1 DEF Sent, OnWire, RegsKept
  <1>7. \A e, k : Holds(e, k) => Holds(e, k)'
    <2> TAKE e, k
    <2>1. Stores(e, k) => Stores(e, k)'
      BY DEF Stores, Pos, Next1, StreamsKept, RegsKept
    <2>2. \A s, j : Carries(s, e, j) => Carries(s, e, j)'
      BY DEF Carries, Next1, StreamsKept
    <2> QED BY <1>1, <1>4, <1>5, <1>6, <2>1, <2>2 DEF Holds, Pos, RegsKept
  <1> QED BY <1>1, <1>2, <1>3, <1>7 DEF DataInv

\* Steps of host, wire and endpoints that the engine does not see.
LEMMA StillFrame ==
  ASSUME InpInv, AlignInv', EnvKept, StreamsKept, AckKept, halted' = halted,
         hTglInp' = hTglInp, RegsKept, mem' = mem, wire' \in {wire, NoPkt}
  PROVE  InpInv'
  <1>1. EnvInv' /\ StreamInv' /\ TglInv' /\ DataInv'
    BY EnvFrame, StreamFrame, TglFrame, DataFrame DEF InpInv, EnvKept, BufBusy, RegsKept
  <1>2. OwnInv'
    BY DEF InpInv, OwnInv, BufBusy, StreamsKept, RegsKept
  <1> QED BY <1>1, <1>2 DEF InpInv
-----------------------------------------------------------------------------
(* Steps that the engine does not see.                                     *)
LEMMA SentStates ==
  /\ Sent => Phase \in InpStates \ {"DATA_INP", "DATA_REP"} /\ ~Sending
  /\ Sending => Phase \in InpStates /\ ~Sent
  BY DEF Sent, Sending, InpStates

LEMMA AlignStill ==
  ASSUME AlignInv, RegsKept, hTglInp' = hTglInp, env'.lose = env.lose,
         \/ h.st \notin {"inp", "ack"} /\ h'.st # "ack" /\ wire' \in {wire, NoPkt}
         \/ h.st = "ack" /\ h'.st = "idle" /\ "ack" \in env.lose /\ wire' = wire
         \/ /\ h.st = "inp" /\ h'.st = "idle" /\ wire # NoPkt /\ wire' = NoPkt
            /\ ("dat" \in env.lose \/ ~OnWire)
         \/ h.st = "inp" /\ h'.st = "idle" /\ Phase \notin InpStates /\ wire' = wire
         \/ h' = h /\ wire' = wire
         \/ h.st = "inp" /\ OnWire /\ h'.st = "ack" /\ h'.ep = h.ep /\ wire' = NoPkt
            /\ Behind(r.epIdx)
  PROVE  AlignInv' /\ AckKept
  <1>1. Phase' = Phase /\ (Sent <=> Sent') /\ (Sending <=> Sending')
    BY DEF Sent, Sending, RegsKept
  <1>2. OnWire' => OnWire /\ wire' = wire
    BY DEF OnWire
  <1>3. Lossless(env') <=> Lossless(env)
    BY DEF Lossless
  <1>4. "ack" \in env.lose \/ "dat" \in env.lose => ~Lossless(env)
    BY DEF Lossless
  <1>5. \A e : Behind(e)' <=> Behind(e)
    BY DEF Behind, RegsKept
  <1>6. wire = NoPkt => ~OnWire
    BY DEF OnWire
  <1>7. r'.epIdx = r.epIdx /\ r'.pid = r.pid /\ r'.dataTglInp = r.dataTglInp
    BY DEF RegsKept
  <1>8. CASE h.st \notin {"inp", "ack"} /\ h'.st # "ack" /\ wire' \in {wire, NoPkt}
    BY <1>1, <1>2, <1>3, <1>7, <1>8 DEF AlignInv, AckKept
  <1>9. CASE h.st = "ack" /\ h'.st = "idle" /\ "ack" \in env.lose /\ wire' = wire
    BY <1>1, <1>2, <1>3, <1>4, <1>6, <1>7, <1>9, SentStates DEF AlignInv, AckKept
  <1>10. CASE h.st = "inp" /\ h'.st = "idle" /\ wire # NoPkt /\ wire' = NoPkt
              /\ ("dat" \in env.lose \/ ~OnWire)
    BY <1>1, <1>2, <1>3, <1>4, <1>6, <1>7, <1>10 DEF AlignInv, AckKept, OnWire
  <1>11. CASE h.st = "inp" /\ h'.st = "idle" /\ Phase \notin InpStates /\ wire' = wire
    BY <1>1, <1>2, <1>3, <1>7, <1>11, SentStates DEF AlignInv, AckKept
  <1>12. CASE h' = h /\ wire' = wire
    BY <1>1, <1>2, <1>3, <1>5, <1>7, <1>12 DEF AlignInv, AckKept, OnWire
  <1>13. CASE h.st = "inp" /\ OnWire /\ h'.st = "ack" /\ h'.ep = h.ep /\ wire' = NoPkt
              /\ Behind(r.epIdx)
    BY <1>1, <1>2, <1>3, <1>5, <1>7, <1>13, SentStates DEF AlignInv, AckKept, OnWire
  <1> QED BY <1>8, <1>9, <1>10, <1>11, <1>12, <1>13

\* A token that is lost on its way.
LEMMA TokLostInp ==
  ASSUME TypeOK, InpInv, NEW e \in EP, HostIn(e) \/ HostPing(e) \/ HostOut(e),
         Lose("tok") /\ UNCHANGED pktVars
  PROVE  InpInv'
  <1>1. EnvKept
    BY LoseKept
  <1>2. h.st = "idle" /\ h'.st # "ack" /\ UNCHANGED <<offered, rcv, hTglInp>>
    BY DEF HostIn, HostPing, HostOut
  <1>3. UNCHANGED <<r, mem, src, halted, tx, wire>>
    BY DEF pktVars
  <1>4. AlignInv' /\ AckKept
    BY <1>1, <1>2, <1>3, AlignStill, SameRegs DEF EnvKept, InpInv
  <1> QED BY <1>1, <1>2, <1>3, <1>4, StillFrame, SameRegs DEF StreamsKept

LEMMA HostStillInp ==
  ASSUME TypeOK, InpInv,
         \/ HostOutPid /\ Lose("pid") /\ UNCHANGED pktVars
         \/ HostAck /\ Lose("ack") /\ UNCHANGED pktVars
         \/ HostOutPayload /\ UNCHANGED <<pktVars, faultVars>>
         \/ HostInRefused \/ HostHsk \/ HostSilence
         \/ HostData /\ UNCHANGED <<rcv, hTglInp>>
  PROVE  InpInv'
  <1>1. EnvKept
    BY LoseKept DEF HostInRefused, HostHsk, HostSilence, HostData
  <1>2. UNCHANGED <<r, mem, src, halted, tx, offered, rcv>>
    BY DEF pktVars, epVars, HostInRefused, HostHsk, HostSilence, HostData, HostOutPid,
           HostAck, HostOutPayload
  <1>3. hTglInp' = hTglInp
    <2>1. CASE HostHsk /\ Accepted(h.ep)
      <3>1. h.st = "hsk" \/ hTglInp' = hTglInp
        BY <2>1 DEF HostHsk
      <3>2. ASSUME h.st = "hsk" PROVE OutPkt(h.ep).tok = "OUT"
        <4>1. h.ep \in EP /\ More(h.ep)
          BY <3>2 DEF TypeOK
        <4>2. oIdx[h.ep] + 1 \in DOMAIN env.outPkts[h.ep]
          BY <4>1 DEF TypeOK, Scenario, More
        <4> QED BY <4>1, <4>2 DEF InpInv, EnvInv, NoSetup, OutPkt
      <3> QED BY <2>1, <3>1, <3>2 DEF Accepted, TypeOK
    <2>2. CASE ~(HostHsk /\ Accepted(h.ep))
      BY <2>2 DEF HostInRefused, HostHsk, HostSilence, HostData, HostOutPid,
                  HostAck, HostOutPayload
    <2> QED BY <2>1, <2>2
  <1>4. wire' \in {wire, NoPkt}
    BY DEF pktVars, HostInRefused, HostHsk, HostSilence, HostData, HostOutPid,
           HostAck, HostOutPayload
  <1>5. AlignInv' /\ AckKept
    <2>1. CASE HostOutPid \/ HostOutPayload \/ HostHsk
      <3>1. h.st \notin {"inp", "ack"} /\ h'.st # "ack"
        BY <2>1 DEF HostOutPid, HostOutPayload, HostHsk, TypeOK
      <3> QED BY <1>1, <1>2, <1>3, <1>4, <3>1, AlignStill, SameRegs DEF EnvKept, InpInv
    <2>2. CASE HostAck /\ Lose("ack") /\ UNCHANGED pktVars
      <3>1. h.st = "ack" /\ h'.st = "idle" /\ "ack" \in env.lose /\ wire' = wire
        BY <2>2 DEF HostAck, Lose, pktVars, TypeOK
      <3> QED BY <1>1, <1>2, <1>3, <3>1, AlignStill, SameRegs DEF EnvKept, InpInv
    <2>3. CASE HostInRefused
      <3>1. h.st = "inp" /\ h'.st = "idle" /\ wire # NoPkt /\ wire' = NoPkt /\ ~OnWire
        BY <2>3, PidTypes DEF HostInRefused, OnWire, TypeOK
      <3> QED BY <1>1, <1>2, <1>3, <3>1, AlignStill, SameRegs DEF EnvKept, InpInv
    <2>4. CASE HostSilence
      <3>1. h.st \notin {"ack"} /\ h'.st = "idle" /\ Phase \notin InpStates /\ wire' = wire
        BY <2>4 DEF HostSilence, Phase, InpStates, TypeOK, pktVars
      <3> QED BY <1>1, <1>2, <1>3, <3>1, AlignStill, SameRegs DEF EnvKept, InpInv
    <2>5. CASE HostData /\ UNCHANGED <<rcv, hTglInp>>
      <3>1. h.st = "inp" /\ OnWire /\ wire' = NoPkt /\ h'.ep = h.ep
        BY <2>5 DEF HostData, OnWire, TypeOK
      <3>2. CASE Lose("dat") /\ h' = [h EXCEPT !.st = "idle"]
        <4>1. "dat" \in env.lose /\ h'.st = "idle"
          BY <3>2 DEF Lose, TypeOK
        <4> QED BY <1>1, <1>2, <1>3, <3>1, <4>1, AlignStill, SameRegs DEF EnvKept, InpInv, OnWire
      <3>3. CASE wire.pid # DatPid(hTglInp[h.ep]) /\ h' = [h EXCEPT !.st = "ack"]
        <4>1. h'.st = "ack" /\ Behind(r.epIdx)
          BY <3>1, <3>3 DEF InpInv, AlignInv, Behind, TypeOK
        <4> QED BY <1>1, <1>2, <1>3, <3>1, <4>1, AlignStill, SameRegs DEF EnvKept, InpInv
      <3>4. CASE hTglInp' = [hTglInp EXCEPT ![h.ep] = 1 - @]
        <4>1. hTglInp[h.ep] \in {0, 1} /\ hTglInp \in [EP -> {0, 1}] /\ h.ep \in EP
          BY DEF TypeOK
        <4> QED BY <1>3, <3>4, <4>1
      <3> QED BY <2>5, <3>2, <3>3, <3>4 DEF HostData
    <2> QED BY <2>1, <2>2, <2>3, <2>4, <2>5
  <1> QED BY <1>1, <1>2, <1>3, <1>4, <1>5, StillFrame, SameRegs DEF StreamsKept
\* Nothing changes, or only what the IN direction does not depend on.
LEMMA IdleStepsInp ==
  ASSUME TypeOK, InpInv,
         \/ UNCHANGED vars
         \/ Reader /\ UNCHANGED busVars
         \/ \E e \in EP : EpReady(e)
         \/ WaitTx /\ UNCHANGED busVars
  PROVE  InpInv'
  <1>1. UNCHANGED <<env, h, hTglInp, rcv, offered, mem, src, halted, wire>>
    BY DEF vars, pktVars, busVars, Reader, EpReady, WaitTx, epVars
  <1>2. RegsKept
    <2>1. CASE WaitTx
      <3>1. r \in RegType /\ r' = [r EXCEPT !.state = r.nxtState] /\ r.state = "WAIT_TX"
        BY <2>1 DEF WaitTx, TypeOK, PktTypeOK
      <3>2. r'.state = r.nxtState /\ r'.nxtState = r.nxtState
        BY <3>1 DEF RegType
      <3>3. Phase' = Phase /\ TxNow' = TxNow
        BY <2>1, <3>1, <3>2 DEF Phase, TxNow, WaitTx
      <3>4. /\ r'.epIdx = r.epIdx /\ r'.pid = r.pid /\ r'.tok = r.tok /\ r'.donFlg = r.donFlg
            /\ r'.dataTglInp = r.dataTglInp /\ r'.dataCounter = r.dataCounter
            /\ r'.bufRWIdx = r.bufRWIdx /\ r'.bufVldIdx = r.bufVldIdx
            /\ r'.bufEndIdx = r.bufEndIdx
            /\ r'.bufInpVld = r.bufInpVld /\ r'.bufInpPart = r.bufInpPart
            /\ r'.bufInpEpIdx = r.bufInpEpIdx /\ r'.retryExpired = r.retryExpired
        BY <3>1 DEF RegType
      <3> QED BY <3>3, <3>4 DEF RegsKept
    <2>2. CASE ~WaitTx
      <3>1. r' = r /\ tx' = tx
        BY <2>2 DEF vars, pktVars, Reader, EpReady
      <3> QED BY <3>1, SameRegs
    <2> QED BY <2>1, <2>2
  <1>3. AlignInv' /\ AckKept
    BY <1>1, <1>2, AlignStill DEF InpInv
  <1> QED BY <1>1, <1>2, <1>3, StillFrame DEF EnvKept, StreamsKept
-----------------------------------------------------------------------------
(* Steps of the engine outside of IN transactions.                         *)
QuietRegs ==
  /\ Phase \notin InpStates /\ Phase' \notin InpStates
  /\ r'.dataTglInp = r.dataTglInp
  /\ r'.bufInpVld = r.bufInpVld /\ r'.bufInpPart = r.bufInpPart
  /\ r'.bufInpEpIdx = r.bufInpEpIdx /\ r'.retryExpired = r.retryExpired
  /\ r'.bufEndIdx = r.bufEndIdx
  /\ BufBusy => mem' = mem /\ r'.bufVldIdx = r.bufVldIdx
  /\ Phase' # "DATA_OUT" => r'.bufRWIdx = r'.bufVldIdx
  /\ r'.tok # "SETUP"

LEMMA QuietFrame ==
  ASSUME InpInv, QuietRegs, EnvKept, StreamsKept, halted' = halted, hTglInp' = hTglInp,
         wire' = wire \/ wire' = NoPkt \/ wire'.pid \notin DatPids, h'.st # "ack"
  PROVE  InpInv'
  <1>1. ~Sending /\ ~Sent /\ ~Sending' /\ ~Sent'
    BY DEF QuietRegs, Sending, Sent, InpStates
  <1>2. h.st # "ack" /\ ~OnWire /\ ~OnWire'
    BY <1>1 DEF InpInv, AlignInv, OnWire
  <1>3. AckKept /\ (BufBusy <=> BufBusy')
    BY <1>2 DEF AckKept, QuietRegs, BufBusy
  <1>4. EnvInv' /\ StreamInv' /\ TglInv'
    BY <1>3, EnvFrame, StreamFrame, TglFrame DEF InpInv, EnvKept, QuietRegs
  <1>5. AlignInv'
    BY <1>1, <1>2 DEF AlignInv
  <1>6. OwnInv'
    BY <1>3 DEF InpInv, OwnInv, QuietRegs, InpStates
  <1>7. DataInv'
    <2>1. Owner' = Owner /\ Phase # "DATA_INP" /\ Phase' # "DATA_INP"
      BY DEF Owner, QuietRegs, InpStates
    <2>2. SUFFICES ASSUME BufBusy, ~Behind(Owner)'
                   PROVE  \E k \in 0 .. MaxPkt : Shape(Owner, k)' /\ Holds(Owner, k)'
      BY <1>3, <2>1 DEF DataInv
    <2>3. ~Behind(Owner)
      BY <2>1, <2>2 DEF Behind, QuietRegs
    <2>4. PICK k \in 0 .. MaxPkt : Shape(Owner, k) /\ Holds(Owner, k)
      BY <2>2, <2>3 DEF InpInv, DataInv
    <2>5. Shape(Owner, k)'
      BY <2>1, <2>4 DEF Shape, Lacks, Taken, Next1, StreamsKept, QuietRegs
    <2>6. r.bufEndIdx = Pos(k) /\ Stores(Owner, k) /\ (r.bufInpPart => Blind)
      BY <2>4 DEF Holds, QuietRegs
    <2>7. r'.bufEndIdx = Pos(k)' /\ Stores(Owner, k)' /\ (r'.bufInpPart => Blind')
      BY <2>1, <2>2, <2>6 DEF Pos, Stores, Next1, Blind, Lossless, EnvKept, StreamsKept,
                               QuietRegs
    <2>8. Holds(Owner, k)'
      BY <1>1, <2>7 DEF Holds, QuietRegs, InpStates
    <2> QED BY <2>5, <2>8
  <1> QED BY <1>4, <1>5, <1>6, <1>7 DEF InpInv

LEMMA IdleQuiet ==
  ASSUME TypeOK, OwnInv, NEW p \in RxHeader, p.pid # "SETUP", r.state = "IDLE", mem' = mem,
         IdlePing(p) \/ IdleInpRefuse(p) \/ IdleOut(p) \/ r' = r
  PROVE  QuietRegs
  <1>1. r \in RegType /\ Phase = "IDLE" /\ r.tok # "SETUP" /\ r.bufRWIdx = r.bufVldIdx
    BY DEF TypeOK, PktTypeOK, Phase, OwnInv, InpStates
  <1>2. CASE IdlePing(p) \/ IdleInpRefuse(p)
    <2>1. PICK v \in {TokRegs(p), InpRegs(p)}, q \in {"ACK", "NAK", "STALL"} :
             r' = RespondHsk(v, q)
      BY <1>2 DEF IdlePing, IdleInpRefuse
    <2>2. v \in RegType
      BY <1>1, TokRegsType
    <2>3. /\ v.dataTglInp = r.dataTglInp /\ v.bufInpVld = r.bufInpVld
          /\ v.bufInpPart = r.bufInpPart /\ v.bufInpEpIdx = r.bufInpEpIdx
          /\ v.retryExpired = r.retryExpired /\ v.bufEndIdx = r.bufEndIdx
          /\ v.bufVldIdx = r.bufVldIdx /\ v.bufRWIdx = r.bufRWIdx /\ v.tok = p.pid
      BY <1>1, ZenonT(60) DEF TokRegs, InpRegs, RegType
    <2>4. r'.state = "WAIT_TX" /\ r'.nxtState = "HSK" /\ r'.tok = v.tok
      BY <2>1, <2>2 DEF RespondHsk, RegType
    <2>5. /\ r'.dataTglInp = v.dataTglInp /\ r'.bufInpVld = v.bufInpVld
          /\ r'.bufInpPart = v.bufInpPart /\ r'.bufInpEpIdx = v.bufInpEpIdx
          /\ r'.retryExpired = v.retryExpired /\ r'.bufEndIdx = v.bufEndIdx
          /\ r'.bufVldIdx = v.bufVldIdx /\ r'.bufRWIdx = v.bufRWIdx
      BY <2>1, <2>2 DEF RespondHsk, RegType
    <2> QED BY <1>1, <2>3, <2>4, <2>5 DEF QuietRegs, Phase, InpStates
  <1>3. CASE IdleOut(p)
    <2>1. r'.state = "DATA_PID" /\ r'.tok = p.pid
      BY <1>1, <1>3 DEF IdleOut, TokRegs, RegType
    <2>2. /\ r'.dataTglInp = r.dataTglInp /\ r'.bufInpVld = r.bufInpVld
          /\ r'.bufInpPart = r.bufInpPart /\ r'.bufInpEpIdx = r.bufInpEpIdx
          /\ r'.retryExpired = r.retryExpired /\ r'.bufEndIdx = r.bufEndIdx
          /\ r'.bufVldIdx = r.bufVldIdx /\ r'.bufRWIdx = r.bufRWIdx
      BY <1>1, <1>3 DEF IdleOut, TokRegs, RegType
    <2> QED BY <1>1, <2>1, <2>2 DEF QuietRegs, Phase, InpStates
  <1>4. CASE r' = r
    BY <1>1, <1>4 DEF QuietRegs, Phase, InpStates
  <1> QED BY <1>2, <1>3, <1>4

LEMMA OutQuiet ==
  ASSUME TypeOK, EngineInv, OwnInv, NEW p \in RxHeader, NEW s,
         \/ DataPid(p) \/ DataPidTimeout \/ Hsk \/ RxData(s, FALSE)
  PROVE  QuietRegs
  <1>1. /\ r \in RegType /\ r.tok # "SETUP" /\ r.state \in {"DATA_PID", "DATA_OUT", "DRAIN", "HSK"}
        /\ Phase = r.state /\ (Phase # "DATA_OUT" => r.bufRWIdx = r.bufVldIdx)
    BY DEF TypeOK, PktTypeOK, Phase, OwnInv, InpStates, DataPid, DataPidTimeout, Hsk, RxData
  <1>2. /\ r'.dataTglInp = r.dataTglInp /\ r'.bufInpVld = r.bufInpVld
        /\ r'.bufInpPart = r.bufInpPart /\ r'.bufInpEpIdx = r.bufInpEpIdx
        /\ r'.retryExpired = r.retryExpired /\ r'.bufEndIdx = r.bufEndIdx /\ r'.tok = r.tok
    <2>1. CASE DataPid(p)
      BY <1>1, <2>1, ZenonT(60) DEF DataPid, DataPidDrain, DataPidStore, DataPidOther, RegType
    <2>2. CASE DataPidTimeout \/ Hsk
      BY <1>1, <2>2, ZenonT(60) DEF DataPidTimeout, Hsk, RegType
    <2>3. CASE RxData(s, FALSE)
      BY <1>1, <2>3 DEF RxData, RegType
    <2> QED BY <2>1, <2>2, <2>3
  <1>3. CASE DataPidStore(p) /\ DataPid(p)
    <2>1. ~BufBusy /\ r'.state = "DATA_OUT"
      BY <1>1, <1>3 DEF DataPidStore, DataPidRefusal, RegType
    <2> QED BY <1>1, <1>2, <1>3, <2>1 DEF QuietRegs, Phase, InpStates, DataPid
  <1>4. CASE (DataPid(p) /\ ~DataPidStore(p)) \/ DataPidTimeout \/ Hsk
    <2>1. /\ r'.state \in {"DRAIN", "IDLE"} /\ mem' = mem
          /\ r'.bufVldIdx = r.bufVldIdx /\ r'.bufRWIdx = r.bufRWIdx
          /\ r.state # "DATA_OUT"
      BY <1>1, <1>4 DEF DataPid, DataPidDrain, DataPidOther, DataPidTimeout, Hsk, RegType
    <2> QED BY <1>1, <1>2, <2>1 DEF QuietRegs, Phase, InpStates
  <1>5. CASE RxData(s, FALSE)
    <2>1. r'.state = "WAIT_TX" /\ r'.nxtState = "HSK"
      BY <1>1, <1>5 DEF RxData, RegType
    <2>2. r'.bufRWIdx = r'.bufVldIdx
      BY <1>1, <1>5 DEF RxData, RegType
    <2>3. BufBusy => mem' = mem /\ r'.bufVldIdx = r.bufVldIdx
      BY <1>1, <1>5 DEF RxData, RegType, EngineInv, BufferInv
    <2> QED BY <1>1, <1>2, <1>5, <2>1, <2>2, <2>3 DEF QuietRegs, Phase, InpStates, RxData
  <1> QED BY <1>3, <1>4, <1>5
-----------------------------------------------------------------------------
(* An IN transaction ends: what was sent stays in the buffer.              *)
LEMMA StreamTypes ==
  ASSUME TypeOK, NEW e \in EP
  PROVE  /\ offered[e] \in Seq(Item) /\ src[e] \in Seq(Item) /\ rcv[e] \in Seq(Item)
         /\ Len(offered[e]) \in Nat /\ Len(src[e]) \in Nat /\ Len(rcv[e]) \in Nat
         /\ Taken(e) \in Int /\ Lacks(e) \in Int
  <1>1. offered[e] \in Seq(Item) /\ src[e] \in Seq(Item) /\ rcv[e] \in Seq(Item)
    BY DEF TypeOK, PktTypeOK
  <1>2. Len(offered[e]) \in Nat /\ Len(src[e]) \in Nat /\ Len(rcv[e]) \in Nat
    BY <1>1
  <1> QED BY <1>1, <1>2 DEF Taken, Lacks

\* In an IN transaction no other endpoint has data in the buffer.
LEMMA OnlyOwner ==
  ASSUME InpInv, Phase \in InpStates
  PROVE  \A e \in EP : (Lacks(e) > 0 \/ Behind(e)) => e = r.epIdx /\ r.bufInpEpIdx = e
  BY DEF InpInv, TglInv, OwnInv, BufBusy

\* The registers at the end of a transaction; what the buffer holds stays.
EndRegs ==
  /\ r'.state = "IDLE" /\ r'.bufRWIdx = r.bufVldIdx /\ r'.bufVldIdx = r.bufVldIdx
  /\ r'.dataTglInp = r.dataTglInp /\ r'.tok = r.tok
  /\ r'.bufInpVld = r.bufInpVld /\ r'.bufInpPart = r.bufInpPart
  /\ r'.bufInpEpIdx = r.bufInpEpIdx /\ r'.retryExpired = r.retryExpired

LEMMA EndFrame ==
  ASSUME InpInv, Phase \in InpStates, EndRegs, mem' = mem, StreamsKept, hTglInp' = hTglInp,
         env'.lose = env.lose, EnvInv', h.st # "ack", h'.st # "ack", wire' = NoPkt,
         BufBusy /\ ~Behind(r.epIdx) =>
            \A k \in 0 .. MaxPkt : Shape(r.epIdx, k) /\ Holds(r.epIdx, k) =>
               r'.bufEndIdx = Pos(k) /\ Stores(r.epIdx, k) /\ (r.bufInpPart => Blind')
  PROVE  InpInv'
  <1>1. Phase' = "IDLE" /\ ~Sending' /\ ~Sent' /\ ~OnWire' /\ (BufBusy <=> BufBusy')
    BY DEF EndRegs, Phase, Sending, Sent, OnWire, BufBusy
  <1>2. AlignInv'
    BY <1>1 DEF AlignInv
  <1>3. OwnInv'
    BY <1>1 DEF InpInv, OwnInv, EndRegs, InpStates
  <1>4. StreamInv' /\ TglInv'
    BY <1>1, StreamFrame, TglFrame DEF InpInv, EndRegs, AckKept
  <1>5. DataInv'
    <2>1. SUFFICES ASSUME BufBusy, ~Behind(Owner)'
                   PROVE  \E k \in 0 .. MaxPkt : Shape(Owner, k)' /\ Holds(Owner, k)'
      BY <1>1 DEF DataInv
    <2>2. Owner = r.epIdx /\ Owner' = r.epIdx
      BY <1>1, <2>1 DEF Owner, EndRegs, InpInv, OwnInv, InpStates
    <2>3. ~Behind(r.epIdx)
      BY <2>1, <2>2 DEF Behind, EndRegs
    <2>4. PICK k \in 0 .. MaxPkt : Shape(r.epIdx, k) /\ Holds(r.epIdx, k)
      BY <2>1, <2>2, <2>3 DEF InpInv, DataInv
    <2>5. Shape(Owner, k)'
      BY <2>2, <2>4 DEF Shape, Lacks, Taken, Next1, StreamsKept, EndRegs
    <2>6. r'.bufEndIdx = Pos(k) /\ Stores(r.epIdx, k) /\ (r.bufInpPart => Blind')
      BY <2>1, <2>3, <2>4
    <2>7. Holds(Owner, k)'
      BY <1>1, <2>2, <2>6 DEF Holds, Pos, Stores, Next1, StreamsKept, EndRegs, InpStates
    <2> QED BY <2>5, <2>7
  <1> QED BY <1>2, <1>3, <1>4, <1>5 DEF InpInv

LEMMA SaveRegs ==
  ASSUME r \in RegType, \/ r' = [SaveBuffer(r) EXCEPT !.state = "IDLE"]
                        \/ r' = [SaveBuffer(DataInpRegs) EXCEPT !.donFlg = FALSE, !.state = "IDLE"]
  PROVE  EndRegs /\ r'.bufEndIdx = r.bufRWIdx
  BY ZenonT(60) DEF RegType, SaveBuffer, DataInpRegs, EndRegs

\* No acknowledgement came: something was lost.
LEMMA UnackedInp ==
  ASSUME TypeOK, EngineInv, InpInv, r.state = "WAIT_ACK", wire = NoPkt, wire' = NoPkt,
         r' = [SaveBuffer(r) EXCEPT !.state = "IDLE"], mem' = mem, halted' = halted,
         StreamsKept, EnvKept, hTglInp' = hTglInp, h.st # "ack", h'.st # "ack"
  PROVE  InpInv'
  <1>1. Phase = "WAIT_ACK" /\ Phase \in InpStates /\ Sent /\ ~OnWire
    BY DEF Phase, Sent, OnWire, InpStates
  <1>2. EndRegs /\ r'.bufEndIdx = r.bufRWIdx
    BY SaveRegs DEF TypeOK, PktTypeOK
  <1>3. ~Lossless(env)
    BY <1>1 DEF InpInv, AlignInv
  <1>4. ~r.bufInpPart
    BY <1>1 DEF InpInv, OwnInv, EngineInv, BufferInv
  <1>5. \A k : Holds(r.epIdx, k) => Exact(r.epIdx, k)
    BY <1>1, <1>3 DEF Holds, Blind
  <1>6. \A k : Holds(r.epIdx, k) =>
               r'.bufEndIdx = Pos(k) /\ Stores(r.epIdx, k) /\ (r.bufInpPart => Blind')
    BY <1>2, <1>4, <1>5 DEF Exact
  <1>7. EnvInv' /\ env'.lose = env.lose
    BY EnvFrame DEF InpInv, EnvKept
  <1> QED BY <1>1, <1>2, <1>6, <1>7, EndFrame

\* The PHY aborts the packet.
LEMMA AbortEnv ==
  ASSUME TypeOK, EnvInv, env.aborts > 0, env' = [env EXCEPT !.aborts = @ - 1],
         halted' = halted
  PROVE  EnvInv' /\ env'.lose = env.lose /\ ~Blind /\ Blind'
  BY SMTT(30) DEF TypeOK, Scenario, EnvInv, AbortsMasked, Blind, NoSetup, Lossless

LEMMA AbortInp ==
  ASSUME TypeOK, EngineInv, InpInv, PhyAbort
  PROVE  InpInv'
  <1>1. /\ r \in RegType /\ mem' = mem /\ StreamsKept /\ hTglInp' = hTglInp /\ wire' = wire
        /\ h' = h /\ halted' = halted
    BY DEF TypeOK, PktTypeOK, PhyAbort, hostVars, DataInpAbort, DataRepAbort, WaitDonAbort,
           epVars, StreamsKept
  <1>2. EnvInv' /\ env'.lose = env.lose /\ ~Blind /\ Blind'
    BY <1>1, AbortEnv DEF PhyAbort, InpInv
  <1>3. Phase = r.state /\ Phase \in InpStates /\ Sending
    BY DEF PhyAbort, DataInpAbort, DataRepAbort, WaitDonAbort, Phase, InpStates, Sending
  <1>4. h.st = "inp" /\ wire = NoPkt
    BY <1>3 DEF InpInv, AlignInv
  <1>5. CASE DataInpAbort \/ WaitDonAbort
    <2>1. EndRegs /\ r'.bufEndIdx = r.bufRWIdx
      BY <1>1, <1>5, SaveRegs DEF DataInpAbort, WaitDonAbort
    <2>2. \A k : Holds(r.epIdx, k) => Exact(r.epIdx, k)
      BY <1>2, <1>3, <1>5 DEF Holds, DataInpAbort, WaitDonAbort
    <2>3. \A k : Holds(r.epIdx, k) =>
                 r'.bufEndIdx = Pos(k) /\ Stores(r.epIdx, k) /\ (r.bufInpPart => Blind')
      BY <1>2, <2>1, <2>2 DEF Exact
    <2> QED BY <1>1, <1>2, <1>3, <1>4, <2>1, <2>3, EndFrame
  <1>6. CASE DataRepAbort
    <2>1. EndRegs /\ r'.bufEndIdx = r.bufEndIdx
      BY <1>1, <1>6 DEF DataRepAbort, EndRegs, RegType
    <2>2. \A k : Holds(r.epIdx, k) =>
                 r'.bufEndIdx = Pos(k) /\ Stores(r.epIdx, k) /\ (r.bufInpPart => Blind')
      BY <1>2, <1>3, <1>6, <2>1 DEF Holds, DataRepAbort
    <2> QED BY <1>1, <1>2, <1>3, <1>4, <2>1, <2>2, EndFrame
  <1> QED BY <1>5, <1>6 DEF PhyAbort
-----------------------------------------------------------------------------
(* An IN transaction begins.                                               *)
\* The registers of a transaction with endpoint e, whose data phase begins in
\* state st.
BeginRegs(e, st, flg, rw, vld) ==
  /\ r'.state = "WAIT_TX" /\ r'.nxtState = st /\ r'.donFlg = flg
  /\ r'.epIdx = e /\ r'.tok = "IN" /\ r'.pid = DatPid(r.dataTglInp[e])
  /\ r'.dataTglInp = r.dataTglInp /\ r'.dataCounter = MaxPkt - 1
  /\ r'.bufRWIdx = rw /\ r'.bufVldIdx = r.bufVldIdx /\ r'.bufEndIdx = r.bufEndIdx
  /\ r'.bufInpVld = vld /\ r'.bufInpPart = r.bufInpPart
  /\ r'.bufInpEpIdx = r.bufInpEpIdx /\ r'.retryExpired = r.retryExpired

LEMMA BeginFacts ==
  ASSUME r \in RegType, NEW p \in RxHeader,
         IdleInpReplay(p) \/ IdleInpZlp(p) \/ IdleInpFresh(p)
  PROVE  /\ IdleInpReplay(p) =>
              IF r.bufRWIdx = r.bufEndIdx
              THEN BeginRegs(p.ep, "WAIT_DON", TRUE, r.bufRWIdx, r.bufInpVld)
              ELSE BeginRegs(p.ep, "DATA_REP", FALSE, Inc(r.bufRWIdx), r.bufInpVld)
         /\ IdleInpZlp(p) => BeginRegs(p.ep, "WAIT_DON", TRUE, r.bufRWIdx, TRUE)
         /\ IdleInpFresh(p) => BeginRegs(p.ep, "DATA_INP", FALSE, r.bufRWIdx, r.bufInpVld)
  <1> DEFINE v == SendRegs(p)
  <1>1. v \in RegType /\ p.pid = "IN"
    BY TokRegsType DEF IdleInpReplay, IdleInpZlp, IdleInpFresh, InpAccepted
  <1>2. /\ v.state = "WAIT_TX" /\ v.donFlg = FALSE
        /\ v.epIdx = p.ep /\ v.tok = "IN" /\ v.pid = DatPid(r.dataTglInp[p.ep])
        /\ v.dataTglInp = r.dataTglInp /\ v.dataCounter = MaxPkt - 1
        /\ v.bufRWIdx = r.bufRWIdx /\ v.bufVldIdx = r.bufVldIdx /\ v.bufEndIdx = r.bufEndIdx
        /\ v.bufInpVld = r.bufInpVld /\ v.bufInpPart = r.bufInpPart
        /\ v.bufInpEpIdx = r.bufInpEpIdx /\ v.retryExpired = r.retryExpired
    BY <1>1 DEF SendRegs, InpRegs, TokRegs, RegType
  <1>3. IdleInpReplay(p) => r' = IF r.bufRWIdx = r.bufEndIdx
                                 THEN [v EXCEPT !.nxtState = "WAIT_DON", !.donFlg = TRUE]
                                 ELSE [v EXCEPT !.nxtState = "DATA_REP", !.bufRWIdx = Inc(@)]
    BY DEF IdleInpReplay
  <1>4. IdleInpZlp(p) => r' = [v EXCEPT !.nxtState = "WAIT_DON", !.donFlg = TRUE,
                                        !.bufInpVld = TRUE, !.lstPktFullSz = @ \ {p.ep}]
    BY DEF IdleInpZlp
  <1>5. IdleInpFresh(p) => r' = [v EXCEPT !.nxtState = "DATA_INP"]
    BY DEF IdleInpFresh
  <1> HIDE DEF v
  <1>6. IdleInpReplay(p) /\ r.bufRWIdx = r.bufEndIdx =>
             BeginRegs(p.ep, "WAIT_DON", TRUE, r.bufRWIdx, r.bufInpVld)
    BY <1>1, <1>2, <1>3, ZenonT(60) DEF BeginRegs, RegType
  <1>7. ASSUME IdleInpReplay(p), r.bufRWIdx # r.bufEndIdx
        PROVE  BeginRegs(p.ep, "DATA_REP", FALSE, Inc(r.bufRWIdx), r.bufInpVld)
    <2>1. r' = [v EXCEPT !.nxtState = "DATA_REP", !.bufRWIdx = Inc(@)]
      BY <1>3, <1>7
    <2>2. r'.nxtState = "DATA_REP" /\ r'.bufRWIdx = Inc(v.bufRWIdx)
      BY <1>1, <2>1 DEF RegType
    <2>3. /\ r'.state = v.state /\ r'.donFlg = v.donFlg /\ r'.epIdx = v.epIdx /\ r'.tok = v.tok
          /\ r'.pid = v.pid /\ r'.dataTglInp = v.dataTglInp
          /\ r'.dataCounter = v.dataCounter /\ r'.bufVldIdx = v.bufVldIdx
          /\ r'.bufEndIdx = v.bufEndIdx /\ r'.bufInpVld = v.bufInpVld
          /\ r'.bufInpPart = v.bufInpPart /\ r'.bufInpEpIdx = v.bufInpEpIdx
          /\ r'.retryExpired = v.retryExpired
      BY <1>1, <2>1 DEF RegType
    <2> QED BY <1>2, <2>2, <2>3 DEF BeginRegs
  <1>8. ASSUME IdleInpZlp(p)
        PROVE  BeginRegs(p.ep, "WAIT_DON", TRUE, r.bufRWIdx, TRUE)
    <2>1. r' = [v EXCEPT !.nxtState = "WAIT_DON", !.donFlg = TRUE,
                         !.bufInpVld = TRUE, !.lstPktFullSz = @ \ {p.ep}]
      BY <1>4, <1>8
    <2>2. r'.nxtState = "WAIT_DON" /\ r'.donFlg = TRUE /\ r'.bufInpVld = TRUE
      BY <1>1, <2>1 DEF RegType
    <2>3. /\ r'.state = v.state /\ r'.epIdx = v.epIdx /\ r'.tok = v.tok
          /\ r'.pid = v.pid /\ r'.dataTglInp = v.dataTglInp
          /\ r'.dataCounter = v.dataCounter /\ r'.bufVldIdx = v.bufVldIdx
          /\ r'.bufRWIdx = v.bufRWIdx /\ r'.bufEndIdx = v.bufEndIdx
          /\ r'.bufInpPart = v.bufInpPart /\ r'.bufInpEpIdx = v.bufInpEpIdx
          /\ r'.retryExpired = v.retryExpired
      BY <1>1, <2>1 DEF RegType
    <2> QED BY <1>2, <2>2, <2>3 DEF BeginRegs
  <1>9. IdleInpFresh(p) => BeginRegs(p.ep, "DATA_INP", FALSE, r.bufRWIdx, r.bufInpVld)
    BY <1>1, <1>2, <1>5 DEF BeginRegs, RegType
  <1> QED BY <1>6, <1>7, <1>8, <1>9

\* What is common to the three ways to begin.
LEMMA BeginFrame ==
  ASSUME TypeOK, InpInv, NEW e \in EP, NEW st \in {"WAIT_DON", "DATA_REP", "DATA_INP"},
         NEW rw, NEW vld \in BOOLEAN,
         BeginRegs(e, st, st = "WAIT_DON", rw, vld), r.state = "IDLE", wire = NoPkt,
         wire' = NoPkt, h.st = "idle", h'.st = "inp", h'.ep = e, EnvKept, StreamsKept,
         halted' = halted, hTglInp' = hTglInp, mem' = mem, r.bufInpVld => vld,
         BufBusy' => r.bufInpEpIdx = e /\ ~r.retryExpired,
         st = "WAIT_DON" => vld,
         (st = "DATA_INP" /\ ~BufBusy') => src[e] # <<>>,
         ~Behind(e) => \E k \in 0 .. MaxPkt : Shape(e, k)' /\ Holds(e, k)'
  PROVE  InpInv'
  <1>1. /\ Phase = "IDLE" /\ Phase' = st /\ Phase' \in InpStates /\ Sending' /\ ~Sent'
        /\ ~OnWire'
    BY DEF BeginRegs, Phase, InpStates, Sending, Sent, OnWire
  <1>2. AlignInv'
    BY <1>1 DEF AlignInv, BeginRegs
  <1>3. OwnInv'
    BY <1>1 DEF OwnInv, BeginRegs, InpStates, StreamsKept
  <1>4. EnvInv' /\ StreamInv'
    BY EnvFrame, StreamFrame DEF InpInv
  <1>5. TglInv'
    BY TglFrame DEF InpInv, BeginRegs, AckKept, EnvKept, BufBusy
  <1>6. DataInv'
    <2>1. Owner' = e /\ (Behind(e) <=> Behind(e)')
      BY <1>1 DEF Owner, BeginRegs, Behind
    <2> QED BY <2>1 DEF DataInv
  <1> QED BY <1>2, <1>3, <1>4, <1>5, <1>6 DEF InpInv

\* A packet is begun anew: nothing of it is in the buffer, nothing of this
\* endpoint on its way.
LEMMA EmptyBegin ==
  ASSUME TypeOK, InpInv, ~BufBusy, r.state = "IDLE", NEW e \in EP
  PROVE  Lacks(e) = 0 /\ ~Behind(e) /\ r.bufRWIdx = Pos(0)
  <1>1. Lacks(e) <= 0 /\ ~Behind(e)
    BY StreamTypes DEF InpInv, TglInv, BufBusy
  <1>2. Lacks(e) >= 0
    BY StreamTypes DEF InpInv, StreamInv, Lacks
  <1>3. r.bufRWIdx = r.bufVldIdx /\ r.bufVldIdx \in Idx
    BY DEF InpInv, OwnInv, Phase, InpStates, TypeOK, PktTypeOK, RegType
  <1> QED BY <1>1, <1>2, <1>3, StreamTypes, PosFacts

LEMMA FreshBegin ==
  ASSUME TypeOK, InpInv, EmptyOwned, NEW p \in RxHeader, r.state = "IDLE",
         IdleInpZlp(p) \/ IdleInpFresh(p), wire = NoPkt, wire' = NoPkt, h.st = "idle",
         h'.st = "inp", h'.ep = p.ep, EnvKept, StreamsKept, halted' = halted,
         hTglInp' = hTglInp, mem' = mem
  PROVE  InpInv'
  <1> DEFINE e == p.ep
  <1>1. r \in RegType /\ e \in EP /\ ~BufBusy /\ ~r.bufInpVld /\ ~r.bufInpPart
    BY DEF TypeOK, PktTypeOK, RxHeader, IdleInpZlp, IdleInpFresh, BufBusy
  <1>2. Lacks(e) = 0 /\ ~Behind(e) /\ r.bufRWIdx = Pos(0) /\ 0 \in 0 .. MaxPkt /\ 0 < MaxPkt
    BY <1>1, EmptyBegin
  <1>3. PICK st \in {"WAIT_DON", "DATA_INP"}, vld \in BOOLEAN :
           /\ BeginRegs(e, st, st = "WAIT_DON", r.bufRWIdx, vld)
           /\ st = "WAIT_DON" => vld /\ e \in Unframed /\ Owns(e)
           /\ st = "DATA_INP" => ~vld /\ src[e] # <<>>
    <2>1. CASE IdleInpZlp(p)
      <3>1. BeginRegs(e, "WAIT_DON", TRUE, r.bufRWIdx, TRUE)
        BY <1>1, <2>1, BeginFacts
      <3>2. e \in Unframed /\ Owns(e)
        BY <1>1, <2>1 DEF IdleInpZlp, EmptyOwned
      <3> QED BY <3>1, <3>2
    <2>2. CASE IdleInpFresh(p)
      <3>1. BeginRegs(e, "DATA_INP", FALSE, r.bufRWIdx, FALSE)
        <4>1. BeginRegs(e, "DATA_INP", FALSE, r.bufRWIdx, r.bufInpVld)
          BY <1>1, <2>2, BeginFacts
        <4>2. r.bufInpVld = FALSE
          BY <1>1 DEF RegType
        <4> QED BY <4>1, <4>2
      <3>2. src[e] # <<>>
        BY <1>1, <2>2 DEF IdleInpFresh, InpAccepted, NothingToSend, Vld, Don
      <3> QED BY <3>1, <3>2
    <2> QED BY <2>1, <2>2
  <1>4. BufBusy' => st = "WAIT_DON"
    BY <1>1, <1>3 DEF BeginRegs, BufBusy
  <1>5. Lacks(e)' = 0
    BY <1>2 DEF Lacks, Taken, StreamsKept
  <1>6. Shape(e, 0)'
    BY <1>1, <1>2, <1>3, <1>5 DEF Shape, BeginRegs
  <1>7. Holds(e, 0)'
    <2>1. Phase' = st /\ TxNow' = <<>>
      BY <1>3 DEF BeginRegs, Phase, TxNow
    <2>2. Exact(e, 0)' /\ Carries(TxNow, e, 0)'
      BY <1>2, <1>3, <2>1 DEF Exact, Stores, Carries, Pos, BeginRegs
    <2>3. r'.dataCounter = MaxPkt - 1 - 0
      BY <1>3 DEF BeginRegs
    <2>4. ~Sent'
      BY <1>3, <2>1 DEF Sent, BeginRegs
    <2> QED BY <2>1, <2>2, <2>3, <2>4 DEF Holds, InpStates
  <1> QED BY <1>1, <1>2, <1>3, <1>4, <1>6, <1>7, BeginFrame DEF Owns

\* A packet (or the start of one) is sent again.
LEMMA ReplayBegin ==
  ASSUME TypeOK, EngineInv, InpInv, NEW p \in RxHeader, r.state = "IDLE", IdleInpReplay(p),
         wire = NoPkt, wire' = NoPkt, h.st = "idle", h'.st = "inp", h'.ep = p.ep, EnvKept,
         StreamsKept, halted' = halted, hTglInp' = hTglInp, mem' = mem
  PROVE  InpInv'
  <1> DEFINE e  == p.ep
             st == IF r.bufRWIdx = r.bufEndIdx THEN "WAIT_DON" ELSE "DATA_REP"
             rw == IF r.bufRWIdx = r.bufEndIdx THEN r.bufRWIdx ELSE Inc(r.bufRWIdx)
  <1>1. r \in RegType /\ e \in EP /\ BufBusy /\ r.bufInpEpIdx = e
    BY DEF TypeOK, PktTypeOK, RxHeader, IdleInpReplay, InpAccepted, BufForeign
  <1>2. BeginRegs(e, st, st = "WAIT_DON", rw, r.bufInpVld)
    BY <1>1, BeginFacts
  <1>3. Phase = "IDLE" /\ Owner = e /\ r.bufRWIdx = r.bufVldIdx /\ ~r.retryExpired
    BY <1>1 DEF Phase, Owner, InpStates, InpInv, OwnInv
  <1>4. r.bufVldIdx \in Idx /\ MaxPkt \in Nat \ {0}
    BY <1>1 DEF RegType
  <1>5. ASSUME NEW k \in 0 .. MaxPkt, Shape(e, k), Holds(e, k)
        PROVE  /\ Shape(e, k)' /\ Holds(e, k)'
               /\ r.bufRWIdx = r.bufEndIdx <=> k = 0
    <2>1. r.bufEndIdx = Pos(k) /\ Stores(e, k) /\ (r.bufInpPart => Blind)
      BY <1>3, <1>5 DEF Holds, InpStates
    <2>2. r.bufRWIdx = r.bufEndIdx <=> k = 0
      BY <1>3, <1>4, <2>1, PosFacts
    <2>3. Shape(e, k)'
      BY <1>2, <1>5 DEF Shape, Lacks, Taken, Next1, StreamsKept, BeginRegs
    <2>4. Phase' = st /\ TxNow' = <<>>
      BY <1>2 DEF BeginRegs, Phase, TxNow
    <2>5. Stores(e, k)' /\ Carries(<<>>, e, 0)' /\ r'.bufEndIdx = Pos(k)' /\ (r'.bufInpPart => Blind')
      BY <1>2, <2>1 DEF Stores, Carries, Pos, Next1, StreamsKept, BeginRegs, Blind, Lossless,
                        EnvKept
    <2>6. CASE k = 0
      <3>1. Exact(e, k)' /\ Phase' = "WAIT_DON"
        BY <1>2, <2>1, <2>2, <2>4, <2>5, <2>6 DEF Exact, BeginRegs, Pos
      <3> QED BY <1>2, <2>3, <2>2, <2>4, <2>5, <2>6, <3>1 DEF Holds, Sent, BeginRegs, InpStates
    <2>7. CASE k # 0
      <3>1. Phase' = "DATA_REP" /\ 0 < k
        BY <2>2, <2>4, <2>7
      <3>2. r'.bufRWIdx = Pos(1)'
        <4>1. 0 \in 0 .. MaxPkt - 1 /\ 0 + 1 = 1
          OBVIOUS
        <4>2. Inc(Pos(0)) = Pos(1) /\ Pos(0) = r.bufVldIdx
          BY <1>4, <4>1, PosFacts
        <4> QED BY <1>2, <1>3, <2>2, <2>7, <4>2 DEF BeginRegs, Pos
      <3>3. Len(TxNow') = 0 /\ 0 + 1 = 1 /\ MaxPkt - 1 - 0 = MaxPkt - 1
        BY <2>4
      <3> QED BY <1>2, <2>2, <2>3, <2>4, <2>5, <3>1, <3>2, <3>3
              DEF Holds, Sent, BeginRegs, InpStates
    <2> QED BY <2>2, <2>6, <2>7
  <1>6. ~Behind(e) => \E k \in 0 .. MaxPkt : Shape(e, k) /\ Holds(e, k)
    BY <1>1, <1>3 DEF InpInv, DataInv
  <1>7. st = "WAIT_DON" => r.bufInpVld
    <2>1. CASE Behind(e)
      BY <1>1, <2>1 DEF InpInv, TglInv
    <2>2. CASE ~Behind(e)
      <3>1. PICK k \in 0 .. MaxPkt : Shape(e, k) /\ Holds(e, k)
        BY <1>6, <2>2
      <3>2. st = "WAIT_DON" => k = 0
        BY <1>5, <3>1
      <3> QED BY <1>1, <3>1, <3>2 DEF Shape, BufBusy
    <2> QED BY <2>1, <2>2
  <1> QED BY <1>1, <1>2, <1>3, <1>5, <1>6, <1>7, BeginFrame DEF RegType
-----------------------------------------------------------------------------
(* The packet of an IN transaction goes out.                               *)
\* What is common to the steps inside of a transaction with endpoint e.
LEMMA SendFrame ==
  ASSUME TypeOK, InpInv, Phase \in InpStates, Phase' \in InpStates, NEW e \in EP, e = r.epIdx,
         env' = env, h' = h, hTglInp' = hTglInp, halted' = halted, rcv' = rcv,
         offered' = offered, \A f \in EP \ {e} : src'[f] = src[f],
         r'.epIdx = e, r'.tok = r.tok, r'.dataTglInp = r.dataTglInp,
         BufBusy', r'.bufInpEpIdx = e, ~r'.retryExpired, r.bufInpVld => r'.bufInpVld,
         Phase' \notin {"DATA_INP", "DATA_REP"} => r'.bufInpVld,
         Behind(e) => src' = src, StreamInv', AlignInv',
         ~Behind(e) => \E k \in 0 .. MaxPkt : Shape(e, k)' /\ Holds(e, k)'
  PROVE  InpInv'
  <1>1. EnvInv' /\ Owner' = e
    BY EnvFrame DEF InpInv, EnvKept, Owner
  <1>2. OwnInv'
    BY DEF InpInv, OwnInv, InpStates
  <1>3. TglInv'
    <2> SUFFICES ASSUME NEW f \in EP
                 PROVE  /\ Lacks(f)' > 0 => BufBusy' /\ r'.bufInpEpIdx = f
                        /\ Behind(f)' => r'.bufInpVld /\ r'.bufInpEpIdx = f /\ Lacks(f)' = 0
                        /\ ("ack" \notin env'.lose /\ Behind(f)') => h'.st = "ack" /\ h'.ep = f
      BY DEF TglInv
    <2>1. Behind(f)' <=> Behind(f)
      BY DEF Behind
    <2>2. (Lacks(f) > 0 \/ Behind(f)) => f = e
      BY OnlyOwner
    <2>3. f # e \/ Behind(e) => Lacks(f)' = Lacks(f)
      BY DEF Lacks, Taken
    <2> QED BY <2>1, <2>2, <2>3 DEF InpInv, TglInv
  <1>4. DataInv'
    <2>1. Behind(e)' <=> Behind(e)
      BY DEF Behind
    <2> QED BY <1>1, <2>1 DEF DataInv
  <1> QED BY <1>1, <1>2, <1>3, <1>4 DEF InpInv

\* The engine takes a packet from endpoint e and has sent k bytes of it.
Fetching(e, k) ==
  /\ e = r.epIdx /\ ~r.bufInpVld /\ ~Behind(e) /\ Phase = "DATA_INP"
  /\ Lacks(e) = k /\ k < MaxPkt /\ (r.bufInpPart <=> k > 0)
  /\ \A i \in 1 .. k : Next1(e, i) # DON
  /\ Carries(tx, e, k) /\ r.dataCounter = MaxPkt - 1 - k /\ (Exact(e, k) \/ Blind)
  /\ h.st = "inp" /\ h.ep = e /\ wire = NoPkt /\ r.pid = DatPid(r.dataTglInp[e])
  /\ r.bufInpPart => r.bufInpEpIdx = e /\ ~r.retryExpired

LEMMA FetchFacts ==
  ASSUME TypeOK, EngineInv, InpInv, r.state = "DATA_INP"
  PROVE  r.epIdx \in EP /\ \E k \in 0 .. MaxPkt : Fetching(r.epIdx, k)
  <1> DEFINE e == r.epIdx
  <1>1. r \in RegType /\ e \in EP /\ Phase = "DATA_INP" /\ Sending /\ TxNow = tx /\ Owner = e
    BY DEF TypeOK, PktTypeOK, RegType, Phase, Sending, TxNow, Owner, InpStates
  <1>2. ~r.bufInpVld /\ ~Behind(e)
    BY <1>1 DEF EngineInv, BufferInv, InpInv, TglInv
  <1>3. PICK k \in 0 .. MaxPkt : Shape(e, k) /\ Holds(e, k)
    BY <1>1, <1>2 DEF InpInv, DataInv
  <1>4. Lacks(e) = k /\ k < MaxPkt /\ (r.bufInpPart <=> k > 0) /\ \A i \in 1 .. k : Next1(e, i) # DON
    BY <1>2, <1>3 DEF Shape
  <1>5. Carries(tx, e, k) /\ r.dataCounter = MaxPkt - 1 - k /\ (Exact(e, k) \/ Blind)
    BY <1>1, <1>3 DEF Holds
  <1>6. h.st = "inp" /\ h.ep = e /\ wire = NoPkt /\ r.pid = DatPid(r.dataTglInp[e])
    BY <1>1 DEF InpInv, AlignInv
  <1>7. r.bufInpPart => r.bufInpEpIdx = e /\ ~r.retryExpired
    BY <1>1 DEF InpInv, OwnInv, BufBusy, InpStates
  <1> QED BY <1>1, <1>2, <1>4, <1>5, <1>6, <1>7 DEF Fetching

\* Endpoint e gives its next item away.
LEMMA PopInp ==
  ASSUME TypeOK, InpInv, NEW e \in EP, src[e] # <<>>, src' = [src EXCEPT ![e] = Tail(@)],
         offered' = offered, rcv' = rcv
  PROVE  /\ StreamInv' /\ Lacks(e)' = Lacks(e) + 1 /\ Next1(e, Lacks(e) + 1) = Head(src[e])
         /\ \A f \in EP \ {e} : src'[f] = src[f]
         /\ \A i : Next1(e, i)' = Next1(e, i)
  <1>1. src \in [EP -> Seq(Item)]
    BY DEF TypeOK, PktTypeOK
  <1>2. /\ src[e] \in Seq(Item) /\ Len(src[e]) \in Nat /\ Len(offered[e]) \in Nat
        /\ Len(rcv[e]) \in Nat /\ Len(src[e]) > 0 /\ Taken(e) = Len(offered[e]) - Len(src[e])
        /\ Lacks(e) = Taken(e) - Len(rcv[e])
    BY <1>1, StreamTypes DEF Taken, Lacks
  <1>3. /\ src'[e] = Tail(src[e]) /\ Len(src'[e]) = Len(src[e]) - 1
        /\ \A i \in 1 .. Len(src[e]) - 1 : src'[e][i] = src[e][i + 1]
        /\ Head(src[e]) = src[e][1]
    BY <1>1, <1>2
  <1>4. Taken(e)' = Taken(e) + 1 /\ Lacks(e)' = Lacks(e) + 1 /\ Taken(e) \in Int
    <2>1. PICK a, b, c \in Nat : a = Len(offered[e]) /\ b = Len(src[e]) /\ c = Len(rcv[e])
      BY <1>2
    <2>2. Taken(e) = a - b /\ Lacks(e) = a - b - c
      BY <1>2, <2>1
    <2>3. Taken(e)' = a - (b - 1) /\ Lacks(e)' = a - (b - 1) - c
      BY <1>3, <2>1 DEF Taken, Lacks
    <2> QED BY <2>2, <2>3
  <1>5. \A f \in EP \ {e} : src'[f] = src[f]
    BY <1>1
  <1>6. StreamInv'
    <2> SUFFICES ASSUME NEW f \in EP
                 PROVE  /\ Len(src'[f]) <= Len(offered[f]) /\ Len(rcv[f]) <= Taken(f)'
                        /\ \A i \in 1 .. Len(rcv[f]) : rcv[f][i] = offered[f][i]
                        /\ \A i \in 1 .. Len(src'[f]) : src'[f][i] = offered[f][Taken(f)' + i]
      BY DEF StreamInv
    <2>1. CASE f # e
      <3>1. Taken(f)' = Taken(f)
        BY <1>5, <2>1 DEF Taken
      <3> QED BY <1>5, <2>1, <3>1 DEF InpInv, StreamInv
    <2>2. CASE f = e
      <3>1. Len(src[e]) <= Len(offered[e]) /\ Len(rcv[e]) <= Taken(e)
        BY DEF InpInv, StreamInv
      <3>2. Len(src'[e]) <= Len(offered[e]) /\ Len(rcv[e]) <= Taken(e)'
        <4>1. PICK a, b, c \in Nat : a = Len(offered[e]) /\ b = Len(src[e]) /\ c = Len(rcv[e])
          BY <1>2
        <4>2. b <= a /\ c <= Taken(e) /\ Len(src'[e]) = b - 1
          BY <1>3, <3>1, <4>1
        <4> QED BY <1>4, <4>1, <4>2
      <3>3. ASSUME NEW i \in 1 .. Len(src'[e])
            PROVE  src'[e][i] = offered[e][Taken(e)' + i]
        <4>1. i \in 1 .. Len(src[e]) - 1 /\ i + 1 \in 1 .. Len(src[e])
          BY <1>2, <1>3
        <4>2. src[e][i + 1] = offered[e][Taken(e) + (i + 1)]
          BY <4>1 DEF InpInv, StreamInv
        <4>3. Taken(e) + (i + 1) = Taken(e)' + i
          BY <1>4
        <4> QED BY <1>3, <4>1, <4>2, <4>3
      <3> QED BY <2>2, <3>2, <3>3 DEF InpInv, StreamInv
    <2> QED BY <2>1, <2>2
  <1>7. Next1(e, Lacks(e) + 1) = Head(src[e])
    <2>1. 1 \in 1 .. Len(src[e])
      BY <1>2
    <2>2. src[e][1] = offered[e][Taken(e) + 1]
      BY <2>1 DEF InpInv, StreamInv
    <2>3. Len(rcv[e]) + (Lacks(e) + 1) = Taken(e) + 1
      BY <1>2, <1>4
    <2> QED BY <1>3, <2>2, <2>3 DEF Next1
  <1>8. \A i : Next1(e, i)' = Next1(e, i)
    BY DEF Next1
  <1> QED BY <1>4, <1>5, <1>6, <1>7, <1>8

LEMMA CntDown ==
  \A j \in Nat : j + 1 < MaxPkt => CntDec(MaxPkt - 1 - j) = MaxPkt - 1 - (j + 1)
  <1> SUFFICES ASSUME NEW j \in Nat, j + 1 < MaxPkt
               PROVE  CntDec(MaxPkt - 1 - j) = MaxPkt - 1 - (j + 1)
    OBVIOUS
  <1>1. PICK c \in Nat : c = MaxPkt - 1 - (j + 1) /\ c < CntMod
    OBVIOUS
  <1>2. MaxPkt - 1 - j = c + 1
    BY <1>1
  <1>3. CntDec(c + 1) = (c + CntMod) % CntMod
    <2>1. (c + 1) + CntMod - 1 = c + CntMod
      BY <1>1
    <2> QED BY <2>1 DEF CntDec
  <1>4. (c + CntMod) % CntMod = c
    <2>1. CntMod \in Nat \ {0} /\ c + CntMod \in Nat /\ CntMod <= c + CntMod
          /\ c + CntMod < CntMod + CntMod /\ (c + CntMod) - CntMod = c
      BY <1>1
    <2> QED BY <2>1, ModOnce
  <1> QED BY <1>1, <1>2, <1>3, <1>4

\* The bytes s with b behind them.
LEMMA CarriesMore ==
  ASSUME NEW e \in EP, NEW k \in Nat, NEW s \in Seq(Byte), Carries(s, e, k), NEW b \in Byte,
         Next1(e, k + 1) = b
  PROVE  Carries(Append(s, b), e, k + 1)
  <1>1. Len(s) = k /\ \A i \in 1 .. k : s[i] = Next1(e, i)
    BY DEF Carries
  <1>2. /\ Len(Append(s, b)) = k + 1 /\ Append(s, b)[k + 1] = b
        /\ \A i \in 1 .. k : Append(s, b)[i] = s[i]
    BY <1>1
  <1>3. \A i \in 1 .. k + 1 : i \in 1 .. k \/ i = k + 1
    OBVIOUS
  <1> QED BY <1>1, <1>2, <1>3 DEF Carries

\* A byte is written behind the first k.
LEMMA StoresMore ==
  ASSUME TypeOK, NEW e \in EP, NEW k \in 0 .. MaxPkt - 1, Exact(e, k), NEW b,
         Next1(e, k + 1) = b, mem' = [mem EXCEPT ![r.bufRWIdx] = DatWord(b)],
         r'.bufRWIdx = Inc(r.bufRWIdx), r'.bufVldIdx = r.bufVldIdx,
         \A i : Next1(e, i)' = Next1(e, i)
  PROVE  Exact(e, k + 1)'
  <1>1. r.bufVldIdx \in Idx /\ mem \in [Idx -> Words]
    BY DEF TypeOK, PktTypeOK, RegType
  <1>2. k + 1 \in 0 .. MaxPkt /\ k \in 0 .. MaxPkt
    OBVIOUS
  <1>3. r.bufRWIdx = Pos(k) /\ Pos(k) \in Idx /\ Inc(Pos(k)) = Pos(k + 1) /\ Stores(e, k)
    BY <1>1, <1>2, PosFacts DEF Exact
  <1>4. mem'[Pos(k)].dat = b
    BY <1>1, <1>3 DEF DatWord
  <1>5. ASSUME NEW i \in 1 .. k PROVE mem'[Pos(i - 1)].dat = Next1(e, i)
    <2>1. i - 1 \in 0 .. MaxPkt /\ i - 1 # k
      OBVIOUS
    <2>2. Pos(i - 1) # Pos(k) /\ Pos(i - 1) \in Idx
      BY <1>1, <1>2, <2>1, PosFacts
    <2>3. mem'[Pos(i - 1)] = mem[Pos(i - 1)]
      BY <1>1, <1>3, <2>2
    <2> QED BY <1>3, <2>3 DEF Stores
  <1>6. ASSUME NEW i \in 1 .. k + 1 PROVE mem'[Pos(i - 1)].dat = Next1(e, i)
    <2>1. CASE i = k + 1
      <3>1. i - 1 = k
        BY <2>1
      <3> QED BY <1>4, <2>1, <3>1
    <2>2. CASE i \in 1 .. k
      BY <1>5, <2>2
    <2> QED BY <2>1, <2>2
  <1>7. \A j : Pos(j)' = Pos(j)
    BY DEF Pos
  <1> QED BY <1>3, <1>6, <1>7 DEF Exact, Stores

\* The registers after a byte was taken.
LEMMA ByteRegs ==
  ASSUME TypeOK, DataInpByte
  PROVE  /\ r.dataCounter = 0 =>
               r'.state = "WAIT_DON" /\ ~r'.bufInpPart /\ r'.bufInpVld /\ r'.donFlg
         /\ r.dataCounter # 0 =>
               r'.state = "DATA_INP" /\ r'.bufInpPart /\ (r'.bufInpVld <=> r.bufInpVld)
         /\ r'.epIdx = r.epIdx /\ r'.tok = r.tok /\ r'.pid = r.pid
         /\ r'.dataTglInp = r.dataTglInp /\ r'.dataCounter = CntDec(r.dataCounter)
         /\ r'.bufRWIdx = Inc(r.bufRWIdx) /\ r'.bufVldIdx = r.bufVldIdx
         /\ r'.bufInpEpIdx = r.epIdx /\ ~r'.retryExpired
  <1>1. r \in RegType /\ DataInpRegs \in RegType /\ r.state = "DATA_INP" /\ r.epIdx \in EP
    BY DataInpRegsType DEF TypeOK, PktTypeOK, DataInpByte, RegType
  <1> DEFINE v == DataInpRegs
             last == r.dataCounter = 0
  <1>2. /\ v.state = r.state /\ v.epIdx = r.epIdx /\ v.tok = r.tok /\ v.pid = r.pid
        /\ v.dataTglInp = r.dataTglInp /\ v.dataCounter = r.dataCounter
        /\ v.bufRWIdx = r.bufRWIdx /\ v.bufVldIdx = r.bufVldIdx /\ v.bufInpVld = r.bufInpVld
        /\ v.donFlg = r.donFlg /\ v \in RegType
    BY <1>1 DEF DataInpRegs, RegType
  <1>3. \E part, vld, flg, st, full :
           /\ part = ~last /\ vld = (v.bufInpVld \/ last) /\ flg = (v.donFlg \/ last)
           /\ st = (IF last THEN "WAIT_DON" ELSE v.state)
           /\ r' = [v EXCEPT !.bufRWIdx = Inc(@), !.dataCounter = CntDec(@),
                             !.bufInpPart = part, !.bufInpVld = vld,
                             !.bufInpEpIdx = r.epIdx, !.retryExpired = FALSE,
                             !.donFlg = flg, !.state = st, !.lstPktFullSz = full]
    BY ZenonT(30) DEF DataInpByte
  <1> HIDE DEF v
  <1>4. PICK part, vld, flg, st, full :
           /\ part = ~last /\ vld = (v.bufInpVld \/ last) /\ flg = (v.donFlg \/ last)
           /\ st = (IF last THEN "WAIT_DON" ELSE v.state)
           /\ r' = [v EXCEPT !.bufRWIdx = Inc(@), !.dataCounter = CntDec(@),
                             !.bufInpPart = part, !.bufInpVld = vld,
                             !.bufInpEpIdx = r.epIdx, !.retryExpired = FALSE,
                             !.donFlg = flg, !.state = st, !.lstPktFullSz = full]
    BY <1>3
  <1>5. /\ r'.state = st /\ r'.epIdx = v.epIdx /\ r'.tok = v.tok /\ r'.pid = v.pid
        /\ r'.dataTglInp = v.dataTglInp /\ r'.dataCounter = CntDec(v.dataCounter)
        /\ r'.bufRWIdx = Inc(v.bufRWIdx) /\ r'.bufVldIdx = v.bufVldIdx
        /\ r'.bufInpPart = part /\ r'.bufInpVld = vld /\ r'.bufInpEpIdx = r.epIdx
        /\ r'.retryExpired = FALSE /\ r'.donFlg = flg
    BY <1>2, <1>4 DEF RegType
  <1>6. CASE last
    <2>1. part = FALSE /\ vld = TRUE /\ flg = TRUE /\ st = "WAIT_DON"
      BY <1>4, <1>6
    <2> QED BY <1>2, <1>5, <1>6, <2>1
  <1>7. CASE ~last
    <2>1. part = TRUE /\ (vld <=> v.bufInpVld) /\ st = "DATA_INP"
      BY <1>1, <1>2, <1>4, <1>7
    <2> QED BY <1>2, <1>5, <1>7, <2>1
  <1> QED BY <1>6, <1>7

LEMMA ByteInp ==
  ASSUME TypeOK, EngineInv, InpInv, DataInpByte, UNCHANGED busVars
  PROVE  InpInv'
  <1>1. PICK e \in EP, k \in 0 .. MaxPkt : e = r.epIdx /\ Fetching(e, k)
    BY FetchFacts DEF DataInpByte
  <1>2. PICK b \in Byte : b = Head(src[e]) /\ src[e] # <<>> /\ b # DON
    BY <1>1, SrcType DEF DataInpByte, Vld, TypeOK, Item
  <1>3. src' = [src EXCEPT ![e] = Tail(@)]
    BY <1>1 DEF DataInpByte, PopSrc
  <1>4. tx \in Seq(Byte) /\ r \in RegType
    BY DEF TypeOK, PktTypeOK
  <1>5. UNCHANGED <<env, h, hTglInp, halted, rcv, offered, wire>> /\ tx' = Append(tx, b)
        /\ mem' = [mem EXCEPT ![r.bufRWIdx] = DatWord(b)]
    BY <1>1, <1>2 DEF busVars, DataInpByte
  <1>6. /\ StreamInv' /\ Lacks(e)' = k + 1 /\ Next1(e, k + 1) = b
        /\ \A f \in EP \ {e} : src'[f] = src[f]
        /\ \A i : Next1(e, i)' = Next1(e, i)
    BY <1>1, <1>2, <1>3, <1>5, PopInp DEF Fetching
  <1>7. /\ r.dataCounter = 0 =>
               r'.state = "WAIT_DON" /\ ~r'.bufInpPart /\ r'.bufInpVld /\ r'.donFlg
        /\ r.dataCounter # 0 =>
               r'.state = "DATA_INP" /\ r'.bufInpPart /\ (r'.bufInpVld <=> r.bufInpVld)
        /\ r'.epIdx = e /\ r'.tok = r.tok /\ r'.pid = r.pid
        /\ r'.dataTglInp = r.dataTglInp /\ r'.dataCounter = CntDec(r.dataCounter)
        /\ r'.bufRWIdx = Inc(r.bufRWIdx) /\ r'.bufVldIdx = r.bufVldIdx
        /\ r'.bufInpEpIdx = e /\ ~r'.retryExpired
    BY <1>1, ByteRegs
  <1>8. r.dataCounter = 0 <=> k + 1 = MaxPkt
    BY <1>1 DEF Fetching
  <1>9. Phase' = r'.state /\ TxNow' = tx' /\ BufBusy'
    BY <1>7 DEF Phase, TxNow, BufBusy
  <1>10. AlignInv'
    <2>1. Sending' /\ ~Sent' /\ ~OnWire'
      BY <1>1, <1>5, <1>7, <1>9 DEF Sending, Sent, OnWire, Fetching
    <2> QED BY <1>1, <1>5, <1>7, <2>1 DEF AlignInv, Fetching
  <1>11. k + 1 \in 0 .. MaxPkt /\ Shape(e, k + 1)' /\ Holds(e, k + 1)'
    <2>1. k + 1 \in 0 .. MaxPkt /\ k \in 0 .. MaxPkt - 1 /\ k \in Nat /\ k + 1 > 0
      BY <1>1 DEF Fetching
    <2>2. \A i \in 1 .. k + 1 : Next1(e, i)' # DON
      <3>1. \A i \in 1 .. k + 1 : i \in 1 .. k \/ i = k + 1
        OBVIOUS
      <3> QED BY <1>1, <1>2, <1>6, <3>1 DEF Fetching
    <2>3. Shape(e, k + 1)'
      <3>1. r'.bufInpVld <=> k + 1 = MaxPkt
        BY <1>1, <1>7, <1>8 DEF Fetching
      <3>2. ~r'.bufInpVld => r'.bufInpPart /\ k + 1 < MaxPkt
        BY <1>7, <1>8, <2>1, <3>1
      <3> QED BY <1>6, <2>1, <2>2, <3>1, <3>2 DEF Shape
    <2>4. Carries(tx, e, k + 1)'
      <3>1. Carries(Append(tx, b), e, k + 1)
        BY <1>1, <1>4, <1>6, <2>1, CarriesMore DEF Fetching
      <3> QED BY <1>5, <1>6, <3>1 DEF Carries
    <2>5. Exact(e, k + 1)' \/ Blind'
      <3>1. Exact(e, k) => Exact(e, k + 1)'
        BY <1>5, <1>6, <1>7, <2>1, StoresMore
      <3>2. Blind => Blind'
        BY <1>5 DEF Blind
      <3> QED BY <1>1, <3>1, <3>2 DEF Fetching
    <2>6. r.dataCounter # 0 => r'.dataCounter = MaxPkt - 1 - (k + 1)
      <3>1. r.dataCounter = MaxPkt - 1 - k
        BY <1>1 DEF Fetching
      <3>2. r.dataCounter # 0 => k + 1 < MaxPkt
        BY <2>1, <1>8
      <3> QED BY <1>7, <2>1, <3>1, <3>2, CntDown
    <2>7. ~Sent' /\ Phase' \in InpStates /\ Phase' # "DATA_REP"
          /\ (Phase' = "DATA_INP" => r.dataCounter # 0)
      BY <1>7, <1>9 DEF Sent, InpStates
    <2>8. Carries(TxNow, e, k + 1)'
      BY <1>9, <2>4
    <2> QED BY <2>1, <2>3, <2>5, <2>6, <2>7, <2>8 DEF Holds
  <1>12. /\ Phase \in InpStates /\ Phase' \in InpStates /\ ~Behind(e)
         /\ (Phase' \notin {"DATA_INP", "DATA_REP"} => r'.bufInpVld)
         /\ ~r.bufInpVld
    BY <1>1, <1>7, <1>9 DEF Fetching, InpStates
  <1> QED BY <1>1, <1>5, <1>6, <1>7, <1>9, <1>10, <1>11, <1>12, SendFrame

\* The registers after the packet was found complete.
LEMMA CompleteRegs ==
  ASSUME TypeOK, NEW f \in BOOLEAN, r' = PacketComplete(DataInpRegs, f)
  PROVE  /\ r'.state = "WAIT_DON" /\ (r'.donFlg <=> f) /\ ~r'.bufInpPart /\ r'.bufInpVld
         /\ r'.epIdx = r.epIdx /\ r'.tok = r.tok /\ r'.pid = r.pid
         /\ r'.dataTglInp = r.dataTglInp
         /\ r'.bufRWIdx = r.bufRWIdx /\ r'.bufVldIdx = r.bufVldIdx
         /\ r'.bufInpEpIdx = r.bufInpEpIdx /\ r'.retryExpired = r.retryExpired
  <1> DEFINE v == DataInpRegs
  <1>1. v \in RegType
    BY DataInpRegsType DEF TypeOK, PktTypeOK
  <1>2. /\ v.epIdx = r.epIdx /\ v.tok = r.tok /\ v.pid = r.pid
        /\ v.dataTglInp = r.dataTglInp
        /\ v.bufRWIdx = r.bufRWIdx /\ v.bufVldIdx = r.bufVldIdx
        /\ v.bufInpEpIdx = r.bufInpEpIdx /\ v.retryExpired = r.retryExpired
    BY DEF DataInpRegs, RegType, TypeOK, PktTypeOK
  <1> HIDE DEF v
  <1>3. r' = PacketComplete(v, f)
    BY DEF v
  <1>4. /\ r'.state = "WAIT_DON" /\ r'.donFlg = f /\ r'.bufInpPart = FALSE
        /\ r'.bufInpVld = TRUE /\ r'.epIdx = v.epIdx /\ r'.tok = v.tok /\ r'.pid = v.pid
        /\ r'.dataTglInp = v.dataTglInp
        /\ r'.bufRWIdx = v.bufRWIdx /\ r'.bufVldIdx = v.bufVldIdx
        /\ r'.bufInpEpIdx = v.bufInpEpIdx /\ r'.retryExpired = v.retryExpired
    BY <1>1, <1>3, ZenonT(60) DEF PacketComplete, RegType
  <1> QED BY <1>2, <1>4

LEMMA CompleteInp ==
  ASSUME TypeOK, EngineInv, InpInv, EmptyOwned, DataInpDry \/ DataInpDon, UNCHANGED busVars
  PROVE  InpInv'
  <1>1. PICK e \in EP, k \in 0 .. MaxPkt : e = r.epIdx /\ Fetching(e, k)
    BY FetchFacts DEF DataInpDry, DataInpDon
  <1>2. UNCHANGED <<env, h, hTglInp, halted, rcv, offered, mem, tx>>
    BY DEF busVars, DataInpDry, DataInpDon, epVars
  <1>3. PICK f \in BOOLEAN :
           /\ r' = PacketComplete(DataInpRegs, f)
           /\ wire' = IF f THEN wire ELSE [pid |-> r.pid, dat |-> tx]
    BY DEF DataInpDry, DataInpDon
  <1>4. /\ r'.state = "WAIT_DON" /\ (r'.donFlg <=> f) /\ ~r'.bufInpPart /\ r'.bufInpVld
        /\ r'.epIdx = e /\ r'.tok = r.tok /\ r'.pid = r.pid
        /\ r'.dataTglInp = r.dataTglInp
        /\ r'.bufRWIdx = r.bufRWIdx /\ r'.bufVldIdx = r.bufVldIdx
        /\ r'.bufInpEpIdx = r.bufInpEpIdx /\ r'.retryExpired = r.retryExpired
    BY <1>1, <1>3, CompleteRegs
  <1>5. Phase' = "WAIT_DON" /\ TxNow' = tx /\ BufBusy' /\ Phase' \in InpStates
    BY <1>2, <1>4 DEF Phase, TxNow, BufBusy, InpStates
  <1>6. r.bufInpEpIdx = e /\ ~r.retryExpired
    <2>1. CASE BufBusy
      BY <1>1, <2>1 DEF Fetching, BufBusy
    <2>2. CASE ~BufBusy
      <3>1. src[e] # <<>>
        BY <1>1, <2>2 DEF InpInv, OwnInv, Fetching
      <3>2. Don(e)
        BY <1>1, <3>1 DEF DataInpDry, DataInpDon, Vld, Don
      <3> QED BY <1>1, <2>2, <3>2 DEF EmptyOwned, Owns, Fetching
    <2> QED BY <2>1, <2>2
  <1>7. PICK n \in {0, 1} :
           /\ StreamInv' /\ Lacks(e)' = k + n
           /\ \A g \in EP \ {e} : src'[g] = src[g]
           /\ \A i : Next1(e, i)' = Next1(e, i)
           /\ n = 0 => e \in Unframed
           /\ n = 1 => e \notin Unframed /\ Next1(e, k + 1) = DON
    <2>1. CASE DataInpDry
      <3>1. src' = src /\ e \in Unframed
        BY <1>1, <2>1 DEF DataInpDry, epVars
      <3>2. StreamInv' /\ Lacks(e)' = k
        BY <1>1, <1>2, <3>1, StreamFrame DEF InpInv, StreamsKept, Lacks, Taken, Fetching
      <3>3. \A i : Next1(e, i)' = Next1(e, i)
        BY <1>2 DEF Next1
      <3>4. k + 0 = k
        OBVIOUS
      <3> QED BY <3>1, <3>2, <3>3, <3>4
    <2>2. CASE DataInpDon
      <3>1. src[e] # <<>> /\ Head(src[e]) = DON /\ src' = [src EXCEPT ![e] = Tail(@)]
            /\ e \notin Unframed
        BY <1>1, <2>2 DEF DataInpDon, Don, PopSrc
      <3>2. /\ StreamInv' /\ Lacks(e)' = Lacks(e) + 1 /\ Next1(e, Lacks(e) + 1) = DON
            /\ \A g \in EP \ {e} : src'[g] = src[g]
            /\ \A i : Next1(e, i)' = Next1(e, i)
        BY <1>2, <3>1, PopInp
      <3> QED BY <1>1, <3>1, <3>2 DEF Fetching
    <2> QED BY <2>1, <2>2
  <1>8. (Sending' <=> f) /\ (Sent' <=> ~f)
    BY <1>4, <1>5 DEF Sending, Sent
  <1>9. /\ f => wire' = NoPkt
        /\ ~f => OnWire' /\ wire'.pid = r.pid /\ wire'.dat = tx
    <2>1. r.pid \in DatPids
      BY <1>1 DEF EngineInv, PidInv, Fetching, InpStates
    <2>2. ~f => wire' # NoPkt
      <3>1. [pid |-> r.pid, dat |-> tx] \in TxPacket
        BY DEF TypeOK, PktTypeOK, RegType, TxPacket
      <3> QED BY <1>3, <3>1, WireAssumption
    <2> QED BY <1>1, <1>3, <2>1, <2>2 DEF OnWire, Fetching
  <1>10. AlignInv'
    BY <1>1, <1>2, <1>4, <1>8, <1>9 DEF AlignInv, Fetching, OnWire
  <1>11. Shape(e, k)' /\ Holds(e, k)'
    <2>1. Shape(e, k)'
      <3>1. k + 0 = k /\ k < MaxPkt
        BY <1>1 DEF Fetching
      <3> QED BY <1>1, <1>4, <1>7, <3>1 DEF Shape, Fetching
    <2>2. Carries(tx, e, k)'
      BY <1>1, <1>2, <1>7 DEF Carries, Fetching
    <2>3. Exact(e, k)' \/ Blind'
      BY <1>1, <1>2, <1>4, <1>7 DEF Exact, Stores, Pos, Blind, Fetching
    <2>4. OnWire' => Carries(wire.dat, e, k)'
      BY <1>2, <1>9, <2>2 DEF Carries, OnWire
    <2>5. Carries(TxNow, e, k)'
      BY <1>2, <1>5, <2>2
    <2> QED BY <1>5, <2>1, <2>3, <2>4, <2>5 DEF Holds
  <1>12. Phase \in InpStates /\ ~Behind(e) /\ ~r.bufInpVld
    BY <1>1 DEF Fetching, InpStates
  <1> QED BY <1>1, <1>2, <1>4, <1>5, <1>6, <1>7, <1>10, <1>11, <1>12, SendFrame

\* The registers after a byte was sent again.
LEMMA RepRegs ==
  ASSUME TypeOK, DataRepByte
  PROVE  /\ r'.epIdx = r.epIdx /\ r'.tok = r.tok /\ r'.pid = r.pid
         /\ r'.dataTglInp = r.dataTglInp /\ r'.dataCounter = CntDec(r.dataCounter)
         /\ r'.bufVldIdx = r.bufVldIdx /\ r'.bufEndIdx = r.bufEndIdx
         /\ r'.bufInpVld = r.bufInpVld /\ r'.bufInpPart = r.bufInpPart
         /\ r'.bufInpEpIdx = r.bufInpEpIdx /\ r'.retryExpired = r.retryExpired
         /\ r.bufRWIdx # r.bufEndIdx =>
              r'.state = "DATA_REP" /\ r'.bufRWIdx = Inc(r.bufRWIdx)
         /\ (r.bufRWIdx = r.bufEndIdx /\ r.bufInpPart) =>
              r'.state = "DATA_INP" /\ r'.bufRWIdx = Inc(r.bufRWIdx)
         /\ (r.bufRWIdx = r.bufEndIdx /\ ~r.bufInpPart) =>
              r'.state = "WAIT_DON" /\ r'.bufRWIdx = r.bufRWIdx /\ r'.donFlg
  <1>1. r \in RegType /\ r.state = "DATA_REP"
    BY DEF TypeOK, PktTypeOK, DataRepByte
  <1> DEFINE v == [r EXCEPT !.dataCounter = CntDec(@)]
  <1>2. /\ v.epIdx = r.epIdx /\ v.tok = r.tok /\ v.pid = r.pid /\ v.state = r.state
        /\ v.dataTglInp = r.dataTglInp /\ v.dataCounter = CntDec(r.dataCounter)
        /\ v.bufVldIdx = r.bufVldIdx /\ v.bufEndIdx = r.bufEndIdx
        /\ v.bufInpVld = r.bufInpVld /\ v.bufInpPart = r.bufInpPart
        /\ v.bufInpEpIdx = r.bufInpEpIdx /\ v.retryExpired = r.retryExpired
        /\ v.bufRWIdx = r.bufRWIdx
    BY <1>1 DEF RegType
  <1>3. v \in RegType
    BY <1>1, WrapCnt DEF RegType
  <1>4. r' = IF r.bufRWIdx # r.bufEndIdx THEN [v EXCEPT !.bufRWIdx = Inc(@)]
             ELSE IF r.bufInpPart
             THEN [v EXCEPT !.bufRWIdx = Inc(@), !.state = "DATA_INP"]
             ELSE [v EXCEPT !.donFlg = TRUE, !.state = "WAIT_DON"]
    BY DEF DataRepByte
  <1> HIDE DEF v
  <1>5. CASE r.bufRWIdx # r.bufEndIdx
    <2>1. r' = [v EXCEPT !.bufRWIdx = Inc(@)]
      BY <1>4, <1>5
    <2> QED BY <1>1, <1>2, <1>3, <1>5, <2>1 DEF RegType
  <1>6. CASE r.bufRWIdx = r.bufEndIdx /\ r.bufInpPart
    <2>1. r' = [v EXCEPT !.bufRWIdx = Inc(@), !.state = "DATA_INP"]
      BY <1>4, <1>6
    <2> QED BY <1>1, <1>2, <1>3, <1>6, <2>1 DEF RegType
  <1>7. CASE r.bufRWIdx = r.bufEndIdx /\ ~r.bufInpPart
    <2>1. r' = [v EXCEPT !.donFlg = TRUE, !.state = "WAIT_DON"]
      BY <1>4, <1>7
    <2> QED BY <1>1, <1>2, <1>3, <1>7, <2>1 DEF RegType
  <1> QED BY <1>5, <1>6, <1>7

LEMMA RepInp ==
  ASSUME TypeOK, EngineInv, InpInv, DataRepByte, UNCHANGED busVars
  PROVE  InpInv'
  <1>1. PICK e \in EP : e = r.epIdx
    BY DEF TypeOK, PktTypeOK, RegType
  <1>2. UNCHANGED <<env, h, hTglInp, halted, rcv, offered, wire, src, mem>>
    BY DEF busVars, DataRepByte, epVars
  <1>3. /\ r.state = "DATA_REP" /\ Phase = "DATA_REP" /\ TxNow = tx /\ Phase \in InpStates
        /\ r \in RegType /\ tx \in Seq(Byte) /\ mem \in [Idx -> Words]
    BY DEF DataRepByte, Phase, TxNow, InpStates, TypeOK, PktTypeOK
  <1>4. BufBusy /\ r.bufInpEpIdx = e /\ ~r.retryExpired /\ Owner = e
        /\ ~(r.bufInpVld /\ r.bufInpPart)
    BY <1>1, <1>3 DEF InpInv, OwnInv, EngineInv, BufferInv, Owner, InpStates
  <1>5. /\ r'.epIdx = e /\ r'.tok = r.tok /\ r'.pid = r.pid
        /\ r'.dataTglInp = r.dataTglInp /\ r'.dataCounter = CntDec(r.dataCounter)
        /\ r'.bufVldIdx = r.bufVldIdx /\ r'.bufEndIdx = r.bufEndIdx
        /\ r'.bufInpVld = r.bufInpVld /\ r'.bufInpPart = r.bufInpPart
        /\ r'.bufInpEpIdx = r.bufInpEpIdx /\ r'.retryExpired = r.retryExpired
    BY <1>1, RepRegs
  <1>6. /\ r.bufRWIdx # r.bufEndIdx =>
              r'.state = "DATA_REP" /\ r'.bufRWIdx = Inc(r.bufRWIdx)
        /\ (r.bufRWIdx = r.bufEndIdx /\ r.bufInpPart) =>
              r'.state = "DATA_INP" /\ r'.bufRWIdx = Inc(r.bufRWIdx)
        /\ (r.bufRWIdx = r.bufEndIdx /\ ~r.bufInpPart) =>
              r'.state = "WAIT_DON" /\ r'.bufRWIdx = r.bufRWIdx /\ r'.donFlg
    BY RepRegs
  <1>7. /\ Phase' = r'.state /\ TxNow' = tx' /\ Phase' \in InpStates /\ Sending' /\ ~Sent'
        /\ BufBusy'
        /\ Phase' \notin {"DATA_INP", "DATA_REP"} => r'.bufInpVld
    BY <1>4, <1>5, <1>6 DEF Phase, TxNow, InpStates, Sending, Sent, BufBusy
  <1>8. AlignInv'
    <2>1. Sending /\ h.st = "inp" /\ h.ep = e /\ wire = NoPkt /\ r.pid = DatPid(r.dataTglInp[e])
      BY <1>1, <1>3 DEF InpInv, AlignInv, Sending
    <2> QED BY <1>2, <1>5, <1>7, <2>1 DEF AlignInv, OnWire
  <1>9. StreamInv'
    BY <1>2, StreamFrame DEF InpInv, StreamsKept
  <1>10. ASSUME ~Behind(e) PROVE \E k \in 0 .. MaxPkt : Shape(e, k)' /\ Holds(e, k)'
    <2>1. PICK k \in 0 .. MaxPkt : Shape(e, k) /\ Holds(e, k)
      BY <1>4, <1>10 DEF InpInv, DataInv
    <2>2. PICK j \in Nat : j = Len(tx) /\ j < k
      BY <1>3, <2>1 DEF Holds
    <2>3. /\ r.bufEndIdx = Pos(k) /\ Stores(e, k) /\ (r.bufInpPart => Blind)
          /\ Carries(tx, e, j) /\ r.bufRWIdx = Pos(j + 1) /\ r.dataCounter = MaxPkt - 1 - j
      BY <1>3, <2>1, <2>2 DEF Holds
    <2>4. r.bufVldIdx \in Idx /\ j \in 0 .. MaxPkt - 1 /\ j + 1 \in 0 .. MaxPkt
      BY <1>3, <2>2 DEF RegType
    <2>5. Dec(Pos(j + 1)) = Pos(j) /\ Pos(j) \in Idx /\ (Pos(j + 1) = Pos(k) <=> j + 1 = k)
      BY <2>4, PosFacts
    <2>6. PICK b \in Byte : b = mem[Dec(r.bufRWIdx)].dat /\ b = Next1(e, j + 1)
      <3>1. j + 1 \in 1 .. k /\ (j + 1) - 1 = j
        BY <2>2
      <3>2. mem[Pos(j)].dat = Next1(e, j + 1)
        BY <2>3, <3>1 DEF Stores
      <3>3. mem[Pos(j)].dat \in Byte
        BY <1>3, <2>5 DEF Words
      <3> QED BY <2>3, <2>5, <3>2, <3>3
    <2>7. tx' = Append(tx, b) /\ Carries(Append(tx, b), e, j + 1)
      BY <1>3, <2>2, <2>3, <2>6, CarriesMore DEF DataRepByte
    <2>8. Carries(tx, e, j + 1)' /\ Len(tx') = j + 1
      BY <1>2, <2>7 DEF Carries, Next1
    <2>9. Shape(e, k)'
      BY <1>2, <1>5, <2>1 DEF Shape, Lacks, Taken, Next1
    <2>10. Stores(e, k)' /\ Pos(k)' = Pos(k) /\ (r'.bufInpPart => Blind')
      BY <1>2, <1>5, <2>3 DEF Stores, Pos, Next1, Blind
    <2>11. j + 1 < MaxPkt => r'.dataCounter = MaxPkt - 1 - (j + 1)
      BY <1>5, <2>2, <2>3, CntDown
    <2>12. Carries(TxNow, e, j + 1)' /\ Len(TxNow') = j + 1
      BY <1>7, <2>8
    <2>13. Holds(e, k)'
      <3>1. CASE r.bufRWIdx # r.bufEndIdx
        <4>1. j + 1 # k /\ j + 1 < k /\ j + 1 < MaxPkt /\ j + 1 \in 0 .. MaxPkt - 1
          BY <2>2, <2>3, <2>5, <3>1
        <4>2. r'.bufRWIdx = Pos((j + 1) + 1)'
          <5>1. Inc(Pos(j + 1)) = Pos((j + 1) + 1)
            BY <2>4, <4>1, PosFacts
          <5> QED BY <1>5, <1>6, <2>3, <3>1, <5>1 DEF Pos
        <4>3. Phase' = "DATA_REP"
          BY <1>6, <1>7, <3>1
        <4> QED BY <1>5, <1>7, <2>3, <2>10, <2>11, <2>12, <4>1, <4>2, <4>3
                DEF Holds, InpStates
      <3>2. CASE r.bufRWIdx = r.bufEndIdx /\ r.bufInpPart
        <4>1. j + 1 = k /\ k < MaxPkt /\ Phase' = "DATA_INP"
          BY <1>4, <1>6, <1>7, <2>1, <2>3, <2>5, <3>2 DEF Shape
        <4>2. Blind'
          BY <1>5, <2>10, <3>2
        <4> QED BY <1>7, <2>11, <2>12, <4>1, <4>2 DEF Holds, InpStates
      <3>3. CASE r.bufRWIdx = r.bufEndIdx /\ ~r.bufInpPart
        <4>1. j + 1 = k /\ Phase' = "WAIT_DON" /\ r'.donFlg
          BY <1>6, <1>7, <2>3, <2>5, <3>3
        <4>2. Exact(e, k)'
          BY <1>5, <1>6, <2>3, <2>10, <3>3 DEF Exact
        <4> QED BY <1>7, <2>12, <4>1, <4>2 DEF Holds, InpStates
      <3> QED BY <3>1, <3>2, <3>3
    <2> QED BY <2>9, <2>13
  <1> QED BY <1>1, <1>2, <1>3, <1>4, <1>5, <1>7, <1>8, <1>9, <1>10, SendFrame

\* The packet is out; the engine waits for the acknowledgement.
LEMMA SentInp ==
  ASSUME TypeOK, EngineInv, InpInv, WaitDonTx \/ WaitDonNext \/ WaitFs, UNCHANGED busVars
  PROVE  InpInv'
  <1>1. PICK e \in EP : e = r.epIdx
    BY DEF TypeOK, PktTypeOK, RegType
  <1>2. UNCHANGED <<env, h, hTglInp, halted, rcv, offered, src, mem, tx>>
    BY DEF busVars, WaitDonTx, WaitDonNext, WaitFs, epVars
  <1>3. r \in RegType /\ Phase = r.state /\ Phase \in InpStates \ {"DATA_INP", "DATA_REP"}
    BY DEF WaitDonTx, WaitDonNext, WaitFs, Phase, InpStates, TypeOK, PktTypeOK
  <1>4. /\ r'.state \in InpStates \ {"DATA_INP", "DATA_REP"}
        /\ r'.epIdx = e /\ r'.tok = r.tok /\ r'.pid = r.pid
        /\ r'.dataTglInp = r.dataTglInp /\ r'.bufRWIdx = r.bufRWIdx
        /\ r'.bufVldIdx = r.bufVldIdx
        /\ r'.bufInpVld = r.bufInpVld /\ r'.bufInpPart = r.bufInpPart
        /\ r'.bufInpEpIdx = r.bufInpEpIdx /\ r'.retryExpired = r.retryExpired
    BY <1>1, <1>3 DEF WaitDonTx, WaitDonNext, WaitFs, InpStates, RegType
  <1>5. Phase' = r'.state /\ Phase' \in InpStates /\ Sent' /\ ~Sending'
    <2>1. WaitDonTx => r'.state = "WAIT_DON" /\ ~r'.donFlg
      BY <1>3 DEF WaitDonTx, RegType
    <2>2. WaitDonNext \/ WaitFs =>
            r'.state \in {"WAIT_FS_SE0", "WAIT_FS_J", "WAIT_FS_K", "WAIT_ACK"}
      BY <1>3 DEF WaitDonNext, WaitFs, RegType
    <2>3. Phase' = r'.state
      BY <1>4 DEF Phase, InpStates
    <2> QED BY <2>1, <2>2, <2>3 DEF Sent, Sending, InpStates
  <1>6. r.bufInpVld /\ BufBusy /\ BufBusy' /\ r.bufInpEpIdx = e /\ ~r.retryExpired /\ Owner = e
    BY <1>1, <1>3, <1>4 DEF InpInv, OwnInv, BufBusy, Owner
  <1>7. StreamInv'
    BY <1>2, StreamFrame DEF InpInv, StreamsKept
  <1>8. CASE WaitDonTx
    <2>1. Sending /\ wire' = [pid |-> r.pid, dat |-> tx] /\ TxNow = tx /\ Phase = "WAIT_DON"
      BY <1>3, <1>8 DEF WaitDonTx, Sending, TxNow
    <2>2. h.st = "inp" /\ h.ep = e /\ r.pid = DatPid(r.dataTglInp[e]) /\ wire = NoPkt
      BY <1>1, <2>1 DEF InpInv, AlignInv
    <2>3. OnWire' /\ wire'.pid = r.pid /\ wire'.dat = tx
      <3>1. [pid |-> r.pid, dat |-> tx] \in TxPacket
        BY DEF TypeOK, PktTypeOK, RegType, TxPacket
      <3>2. r.pid \in DatPids
        BY <1>3 DEF EngineInv, PidInv
      <3> QED BY <2>1, <3>1, <3>2, WireAssumption DEF OnWire
    <2>4. AlignInv'
      BY <1>2, <1>4, <1>5, <2>2, <2>3 DEF AlignInv
    <2>5. ASSUME ~Behind(e) PROVE \E k \in 0 .. MaxPkt : Shape(e, k)' /\ Holds(e, k)'
      <3>1. PICK k \in 0 .. MaxPkt : Shape(e, k) /\ Holds(e, k)
        BY <1>6, <2>5 DEF InpInv, DataInv
      <3>2. Carries(tx, e, k) /\ (Exact(e, k) \/ Blind)
        BY <1>8, <2>1, <3>1 DEF Holds, WaitDonTx
      <3>3. Shape(e, k)'
        BY <1>2, <1>4, <3>1 DEF Shape, Lacks, Taken, Next1
      <3>4. Carries(wire.dat, e, k)' /\ (Exact(e, k)' \/ Blind')
        BY <1>2, <1>4, <2>3, <3>2 DEF Carries, Next1, Exact, Stores, Pos, Blind
      <3>5. ~(Phase' = "WAIT_DON" /\ r'.donFlg) /\ Phase' \notin {"DATA_INP", "DATA_REP"}
        BY <1>4, <1>5 DEF Sending
      <3> QED BY <1>5, <3>3, <3>4, <3>5 DEF Holds
    <2> QED BY <1>1, <1>2, <1>3, <1>4, <1>5, <1>6, <1>7, <2>4, <2>5, SendFrame
  <1>9. CASE WaitDonNext \/ WaitFs
    <2>1. Sent /\ wire' = wire /\ (OnWire' <=> OnWire)
      BY <1>9, <1>3 DEF WaitDonNext, WaitFs, Sent, OnWire
    <2>2. \A g : Behind(g)' <=> Behind(g)
      BY <1>2, <1>4 DEF Behind
    <2>3. AlignInv'
      BY <1>1, <1>2, <1>4, <1>5, <2>1, <2>2 DEF InpInv, AlignInv
    <2>4. ASSUME ~Behind(e) PROVE \E k \in 0 .. MaxPkt : Shape(e, k)' /\ Holds(e, k)'
      <3>1. PICK k \in 0 .. MaxPkt : Shape(e, k) /\ Holds(e, k)
        BY <1>6, <2>4 DEF InpInv, DataInv
      <3>2. (OnWire => Carries(wire.dat, e, k)) /\ (Exact(e, k) \/ Blind)
        BY <2>1, <3>1 DEF Holds
      <3>3. Shape(e, k)'
        BY <1>2, <1>4, <3>1 DEF Shape, Lacks, Taken, Next1
      <3>4. (OnWire' => Carries(wire.dat, e, k)') /\ (Exact(e, k)' \/ Blind')
        BY <1>2, <1>4, <2>1, <3>2 DEF Carries, Next1, Exact, Stores, Pos, Blind
      <3>5. ~(Phase' = "WAIT_DON" /\ r'.donFlg) /\ Phase' \notin {"DATA_INP", "DATA_REP"}
        BY <1>4, <1>5 DEF Sending
      <3> QED BY <1>5, <3>3, <3>4, <3>5 DEF Holds
    <2> QED BY <1>1, <1>2, <1>3, <1>4, <1>5, <1>6, <1>7, <2>3, <2>4, SendFrame
  <1> QED BY <1>8, <1>9

\* The acknowledgement arrives: the engine learns what the host knows.
LEMMA AckedInp ==
  ASSUME TypeOK, EngineInv, InpInv, NEW p, p.pid = "ACK", WaitAck(p), h.st = "ack",
         h'.st = "idle", wire' = wire, UNCHANGED <<env, hTglInp, halted>>, StreamsKept
  PROVE  InpInv'
  <1>1. PICK e \in EP : e = r.epIdx
    BY DEF TypeOK, PktTypeOK, RegType
  <1>2. r \in RegType /\ hTglInp \in [EP -> {0, 1}] /\ r.dataTglInp \in [EP -> {0, 1}]
    BY DEF TypeOK, PktTypeOK, RegType
  <1>3. /\ Behind(e) /\ wire = NoPkt /\ Phase = "WAIT_ACK" /\ Phase \in InpStates
        /\ \A f \in EP : Lacks(f) <= 0 /\ (Behind(f) => f = e)
    <2>1. Behind(e) /\ wire = NoPkt
      BY <1>1 DEF InpInv, AlignInv
    <2>2. Phase = "WAIT_ACK" /\ Phase \in InpStates
      BY DEF WaitAck, Phase, InpStates
    <2>3. Lacks(e) = 0
      BY <2>1 DEF InpInv, TglInv
    <2>4. \A f \in EP : (Lacks(f) > 0 \/ Behind(f)) => f = e
      BY <1>1, <2>2, OnlyOwner
    <2> QED BY <2>1, <2>2, <2>3, <2>4, StreamTypes
  <1>4. /\ r'.state = "IDLE" /\ r'.dataTglInp = [r.dataTglInp EXCEPT ![e] = 1 - @]
        /\ r'.bufInpVld = FALSE /\ r'.bufInpPart = FALSE /\ r'.tok = r.tok
        /\ r'.bufRWIdx = r.bufVldIdx /\ r'.bufVldIdx = r.bufVldIdx
    <2> DEFINE v == invalidateBuffer(r)
    <2>1. /\ v \in RegType /\ v.dataTglInp = r.dataTglInp /\ v.bufInpVld = FALSE
          /\ v.bufInpPart = FALSE /\ v.tok = r.tok /\ v.bufRWIdx = r.bufVldIdx
          /\ v.bufVldIdx = r.bufVldIdx
      BY <1>2, InvalidateType DEF invalidateBuffer, RegType
    <2>2. r' = [v EXCEPT !.dataTglInp[e] = 1 - @, !.state = "IDLE"]
      BY <1>1 DEF WaitAck
    <2> HIDE DEF v
    <2> QED BY <2>1, <2>2 DEF RegType
  <1>5. \A f \in EP : ~Behind(f)'
    <2> TAKE f \in EP
    <2>1. CASE f = e
      <3>1. r'.dataTglInp[e] = 1 - r.dataTglInp[e]
        BY <1>2, <1>4
      <3>2. hTglInp[e] \in {0, 1} /\ r.dataTglInp[e] \in {0, 1} /\ hTglInp[e] # r.dataTglInp[e]
        BY <1>2, <1>3 DEF Behind
      <3> QED BY <2>1, <3>1, <3>2 DEF Behind
    <2>2. CASE f # e
      <3>1. r'.dataTglInp[f] = r.dataTglInp[f]
        BY <1>2, <1>4, <2>2
      <3> QED BY <1>3, <2>2, <3>1 DEF Behind
    <2> QED BY <2>1, <2>2
  <1>6. Phase' = "IDLE" /\ ~BufBusy' /\ ~Sending' /\ ~Sent' /\ ~OnWire'
    BY <1>3, <1>4 DEF Phase, BufBusy, Sending, Sent, OnWire
  <1>7. EnvInv' /\ StreamInv'
    BY EnvFrame, StreamFrame DEF InpInv, EnvKept
  <1>8. AlignInv' /\ DataInv'
    BY <1>6 DEF AlignInv, DataInv
  <1>9. OwnInv'
    BY <1>4, <1>6 DEF InpInv, OwnInv, InpStates
  <1>10. TglInv'
    <2>1. \A f \in EP : Lacks(f)' = Lacks(f)
      BY DEF Lacks, Taken, StreamsKept
    <2> QED BY <1>3, <1>5, <2>1, StreamTypes DEF TglInv
  <1> QED BY <1>7, <1>8, <1>9, <1>10 DEF InpInv
-----------------------------------------------------------------------------
(* A header arrives, or a timer expires.                                   *)
LEMMA RxHdrInp ==
  ASSUME TypeOK, EngineInv, InpInv, EmptyOwned, NEW p \in RxHeader, RxHdr(p), CanRx,
         p.pid \notin {"SETUP", "ACK"}, h.st # "ack", h'.st # "ack",
         p.pid = "IN" => h.st = "idle" /\ h'.st = "inp" /\ h'.ep = p.ep,
         UNCHANGED <<env, offered, rcv, hTglInp>>
  PROVE  InpInv'
  <1>1. /\ UNCHANGED <<src, halted, wire>> /\ wire = NoPkt /\ wire' = NoPkt
        /\ EnvKept /\ StreamsKept /\ OwnInv
    BY DEF RxHdr, epVars, CanRx, EnvKept, StreamsKept, InpInv
  <1>2. CASE Idle(p)
    <2>1. r.state = "IDLE" /\ mem' = mem
      BY <1>2 DEF Idle
    <2>2. CASE IdlePing(p) \/ IdleInpRefuse(p) \/ IdleOut(p) \/ r' = r
      BY <1>1, <2>1, <2>2, IdleQuiet, QuietFrame
    <2>3. CASE IdleInpReplay(p)
      <3>1. h.st = "idle" /\ h'.st = "inp" /\ h'.ep = p.ep
        BY <2>3 DEF IdleInpReplay, InpAccepted
      <3> QED BY <1>1, <2>1, <2>3, <3>1, ReplayBegin
    <2>4. CASE IdleInpZlp(p) \/ IdleInpFresh(p)
      <3>1. h.st = "idle" /\ h'.st = "inp" /\ h'.ep = p.ep
        BY <2>4 DEF IdleInpZlp, IdleInpFresh, InpAccepted
      <3> QED BY <1>1, <2>1, <2>4, <3>1, FreshBegin
    <2> QED BY <1>2, <2>2, <2>3, <2>4 DEF Idle
  <1>3. CASE DataPid(p)
    BY <1>1, <1>3, OutQuiet, QuietFrame
  <1>4. CASE WaitAck(p)
    <2>1. r.state = "WAIT_ACK" /\ r' = [SaveBuffer(r) EXCEPT !.state = "IDLE"] /\ mem' = mem
      BY <1>4 DEF WaitAck
    <2> QED BY <1>1, <2>1, UnackedInp
  <1> QED BY <1>2, <1>3, <1>4 DEF RxHdr

LEMMA HostTokInp ==
  ASSUME TypeOK, EngineInv, InpInv, EmptyOwned,
         NEW e \in EP, HostIn(e) \/ HostPing(e) \/ HostOut(e)
  PROVE  InpInv'
  <1>1. CASE Lose("tok") /\ UNCHANGED pktVars
    BY <1>1, TokLostInp
  <1>2. /\ h.st = "idle" /\ CanRx /\ h'.ep = e /\ UNCHANGED <<offered, rcv, hTglInp>>
        /\ h'.st = IF HostIn(e) THEN "inp" ELSE h'.st
        /\ h'.st # "ack"
    BY DEF HostIn, HostPing, HostOut
  <1>3. PICK q \in {"IN", "PING", "OUT"} : SendTok(q, e) /\ (q = "IN" => h'.st = "inp")
    <2>1. CASE HostIn(e) \/ HostPing(e)
      BY <2>1 DEF HostIn, HostPing
    <2>2. CASE HostOut(e)
      <3>1. /\ oIdx[e] \in Nat /\ env.outPkts[e] \in Seq(Packet)
            /\ oIdx[e] < Len(env.outPkts[e])
        BY <2>2 DEF HostOut, TypeOK, Scenario, More
      <3>2. oIdx[e] + 1 \in DOMAIN env.outPkts[e]
        BY <3>1
      <3>3. OutPkt(e).tok = "OUT"
        BY <3>2 DEF InpInv, EnvInv, NoSetup, OutPkt
      <3> QED BY <2>2, <3>3 DEF HostOut
    <2> QED BY <2>1, <2>2
  <1>4. CASE RxHdr(Hdr(q, e)) /\ UNCHANGED faultVars
    <2>1. Hdr(q, e) \in RxHeader /\ Hdr(q, e).pid = q /\ Hdr(q, e).ep = e
      <3>1. q \in Pids
        BY DEF Pids, TokPids
      <3> QED BY <3>1, HdrType, MarkerAssumption DEF Hdr
    <2>2. env' = env
      BY <1>4 DEF faultVars
    <2> QED BY <1>2, <1>3, <1>4, <2>1, <2>2, RxHdrInp
  <1> QED BY <1>1, <1>3, <1>4 DEF SendTok

LEMMA HostHdrInp ==
  ASSUME TypeOK, EngineInv, InpInv, EmptyOwned, HostOutPid \/ HostSof \/ HostAck
  PROVE  InpInv'
  <1>1. tokDat \in EP \union {NoPkt} /\ h \in [st : HostStates, ep : EP]
    BY DEF TypeOK
  <1>2. CASE HostOutPid
    <2>1. CASE Lose("pid") /\ UNCHANGED pktVars
      BY <1>2, <2>1, HostStillInp
    <2>2. CASE RxHdr(Hdr(OutPid(h.ep), tokDat)) /\ UNCHANGED faultVars
      <3>1. OutPid(h.ep) \in DatPids
        BY <1>1, PidTypes DEF OutPid, TypeOK, DatPids
      <3>2. /\ Hdr(OutPid(h.ep), tokDat) \in RxHeader
            /\ Hdr(OutPid(h.ep), tokDat).pid \notin {"SETUP", "ACK", "IN"}
        BY <1>1, <3>1, PidTypes, HdrType DEF Hdr, DatPids
      <3>3. h.st = "out" /\ h'.st # "ack" /\ CanRx /\ UNCHANGED <<env, offered, rcv, hTglInp>>
        BY <1>1, <1>2, <2>2 DEF HostOutPid, faultVars, Lose
      <3> QED BY <2>2, <3>2, <3>3, RxHdrInp
    <2> QED BY <1>2, <2>1, <2>2 DEF HostOutPid
  <1>3. CASE HostSof
    <2>1. "SOF" \in Pids
      BY DEF Pids, TokPids
    <2>2. Hdr("SOF", tokDat) \in RxHeader /\ Hdr("SOF", tokDat).pid = "SOF"
      BY <1>1, <2>1, HdrType DEF Hdr
    <2>3. /\ RxHdr(Hdr("SOF", tokDat)) /\ CanRx /\ h.st = "idle" /\ h' = h
          /\ UNCHANGED <<env, offered, rcv, hTglInp>>
      BY <1>3 DEF HostSof, hostVars, faultVars
    <2> QED BY <2>2, <2>3, RxHdrInp
  <1>4. CASE HostAck
    <2>1. CASE Lose("ack") /\ UNCHANGED pktVars
      BY <1>4, <2>1, HostStillInp
    <2>2. CASE RxHdr(Hdr("ACK", tokDat)) /\ UNCHANGED faultVars
      <3>1. h.st = "ack" /\ h'.st = "idle" /\ UNCHANGED <<env, hTglInp, offered, rcv>>
        BY <1>1, <1>4, <2>2 DEF HostAck, faultVars
      <3>2. UNCHANGED <<src, halted, wire>>
        BY <2>2 DEF RxHdr, epVars
      <3>3. r.state \notin {"IDLE", "DATA_PID"}
        BY <3>1 DEF InpInv, AlignInv, Sent, Phase
      <3>4. WaitAck(Hdr("ACK", tokDat))
        BY <2>2, <3>3 DEF RxHdr, Idle, DataPid
      <3>5. Hdr("ACK", tokDat).pid = "ACK"
        BY DEF Hdr
      <3> QED BY <3>1, <3>2, <3>4, <3>5, AckedInp DEF StreamsKept
    <2> QED BY <1>4, <2>1, <2>2 DEF HostAck
  <1> QED BY <1>2, <1>3, <1>4

LEMMA TimeoutInp ==
  ASSUME TypeOK, EngineInv, InpInv, EngineTimeout
  PROVE  InpInv'
  <1>1. /\ UNCHANGED <<env, h, hTglInp, rcv, offered, mem, src, halted, wire>> /\ wire = NoPkt
        /\ EnvKept /\ StreamsKept /\ OwnInv
    BY DEF EngineTimeout, WaitAckTimeout, DataPidTimeout, epVars, busVars, EnvKept,
           StreamsKept, InpInv
  <1>2. CASE WaitAckTimeout /\ h.st # "ack"
    BY <1>1, <1>2, UnackedInp DEF WaitAckTimeout
  <1>3. CASE DataPidTimeout
    <2>1. RxHeader # {}
      <3>1. Hdr("SOF", NoPkt) \in RxHeader
        BY HdrType DEF Pids, TokPids
      <3> QED BY <3>1
    <2>2. QuietRegs
      BY <1>1, <1>3, <2>1, OutQuiet
    <2>3. h.st # "ack"
      BY <1>3 DEF InpInv, AlignInv, Sent, Phase, DataPidTimeout
    <2> QED BY <1>1, <2>2, <2>3, QuietFrame
  <1> QED BY <1>2, <1>3 DEF EngineTimeout

LEMMA HskInp ==
  ASSUME TypeOK, EngineInv, InpInv, Hsk, UNCHANGED busVars
  PROVE  InpInv'
  <1>1. /\ UNCHANGED <<env, h, hTglInp, rcv, offered, mem, src, halted>>
        /\ EnvKept /\ StreamsKept /\ OwnInv
    BY DEF Hsk, epVars, busVars, EnvKept, StreamsKept, InpInv
  <1>2. PICK p : p \in RxHeader
    <2>1. Hdr("SOF", NoPkt) \in RxHeader
      BY HdrType DEF Pids, TokPids
    <2> QED BY <2>1
  <1>3. QuietRegs
    BY <1>1, <1>2, OutQuiet
  <1>4. h.st # "ack"
    BY DEF InpInv, AlignInv, Sent, Phase, Hsk
  <1>5. wire'.pid \notin DatPids
    <2>1. r.pid \in HskPids
      BY DEF EngineInv, PidInv, Hsk, Phase
    <2>2. HskPid \in HskPids
      BY <2>1 DEF HskPid, HskPids
    <2>3. wire'.pid = HskPid
      BY DEF Hsk
    <2> QED BY <2>2, <2>3, PidTypes
  <1> QED BY <1>1, <1>3, <1>4, <1>5, QuietFrame

\* The payload of an OUT packet (which no scenario of these damages).
LEMMA PayloadInp ==
  ASSUME TypeOK, EngineInv, InpInv, HostOutPayload
  PROVE  InpInv'
  <1>1. CASE UNCHANGED <<pktVars, faultVars>>
    BY <1>1, HostStillInp
  <1>2. CASE RxData(OutPkt(h.ep).dat, FALSE) /\ UNCHANGED faultVars
    <2>1. /\ h.st = "pld" /\ h'.st # "ack" /\ UNCHANGED <<env, hTglInp, rcv, offered>>
          /\ UNCHANGED <<src, halted, wire>>
      BY <1>2 DEF HostOutPayload, faultVars, TypeOK, RxData, epVars
    <2>2. PICK p : p \in RxHeader
      <3>1. Hdr("SOF", NoPkt) \in RxHeader
        BY HdrType DEF Pids, TokPids
      <3> QED BY <3>1
    <2>3. QuietRegs
      BY <1>2, <2>2, OutQuiet DEF InpInv
    <2> QED BY <2>1, <2>3, QuietFrame DEF EnvKept, StreamsKept
  <1>3. ~Lose("crc")
    BY DEF InpInv, EnvInv, Lose
  <1> QED BY <1>1, <1>2, <1>3 DEF HostOutPayload
-----------------------------------------------------------------------------
(* The host takes a packet.                                                *)
\* It gets exactly what it lacks of the stream.
LEMMA HostGets ==
  ASSUME TypeOK, InpInv, NEW e \in EP, e = r.epIdx, OnWire, ~Behind(e)
  PROVE  /\ Received(e, wire.dat) \in Seq(Item)
         /\ Len(Received(e, wire.dat)) = Lacks(e)
         /\ \A i \in 1 .. Lacks(e) : Received(e, wire.dat)[i] = Next1(e, i)
         /\ r.bufInpVld
         /\ Lacks(e) = MaxPkt \/ e \in Unframed \/ (Lacks(e) > 0 /\ Next1(e, Lacks(e)) = DON)
         /\ h.ep = e /\ wire.pid = DatPid(r.dataTglInp[e])
  <1>1. Sent /\ Phase \in InpStates \ {"DATA_INP", "DATA_REP"} /\ Owner = e
        /\ h.ep = e /\ wire.pid = DatPid(r.dataTglInp[e])
    BY SentStates DEF InpInv, AlignInv, Owner
  <1>2. r.bufInpVld
    BY <1>1 DEF InpInv, OwnInv
  <1>3. PICK k \in 0 .. MaxPkt : Shape(e, k) /\ Holds(e, k)
    BY <1>1, <1>2 DEF InpInv, DataInv, BufBusy
  <1>4. Carries(wire.dat, e, k)
    BY <1>1, <1>3 DEF Holds
  <1> DEFINE s == wire.dat
  <1>5. s \in Seq(Item) /\ s \in Seq(Byte) /\ Len(s) = k /\ \A i \in 1 .. k : s[i] = Next1(e, i)
    <2>1. wire \in TxPacket
      BY DEF OnWire, TypeOK, PktTypeOK
    <2>2. s \in Seq(Byte)
      BY <2>1 DEF TxPacket
    <2>3. s \in Seq(Item)
      BY <2>2 DEF Item
    <2> QED BY <1>4, <2>2, <2>3 DEF Carries
  <1> HIDE DEF s
  <1>6. CASE Lacks(e) = k /\ (e \in Unframed \/ k = MaxPkt)
    <2>1. Received(e, s) = s
      BY <1>5, <1>6 DEF Received
    <2> QED BY <1>1, <1>2, <1>5, <1>6, <2>1 DEF s
  <1>7. CASE Lacks(e) = k + 1 /\ e \notin Unframed /\ k < MaxPkt /\ Next1(e, k + 1) = DON
    <2>1. Received(e, s) = s \o <<DON>>
      BY <1>5, <1>7 DEF Received
    <2>2. DON \in Item
      BY DEF Item
    <2>3. /\ s \o <<DON>> \in Seq(Item) /\ Len(s \o <<DON>>) = k + 1
          /\ \A i \in 1 .. k : (s \o <<DON>>)[i] = s[i]
          /\ (s \o <<DON>>)[k + 1] = DON
      BY <1>5, <2>2
    <2>4. \A i \in 1 .. k + 1 : (s \o <<DON>>)[i] = Next1(e, i)
      BY <1>5, <1>7, <2>3
    <2> QED BY <1>1, <1>2, <1>7, <2>1, <2>3, <2>4 DEF s
  <1>8. \/ Lacks(e) = k /\ (e \in Unframed \/ k = MaxPkt)
        \/ Lacks(e) = k + 1 /\ e \notin Unframed /\ k < MaxPkt /\ Next1(e, k + 1) = DON
    BY <1>2, <1>3 DEF Shape
  <1> QED BY <1>6, <1>7, <1>8

LEMMA TakeInp ==
  ASSUME TypeOK, EngineInv, InpInv, HostData
  PROVE  InpInv'
  <1>1. CASE UNCHANGED <<rcv, hTglInp>>
    BY <1>1, HostStillInp
  <1>2. CASE /\ wire.pid = DatPid(hTglInp[h.ep])
             /\ rcv' = [rcv EXCEPT ![h.ep] = @ \o Received(h.ep, wire.dat)]
             /\ hTglInp' = [hTglInp EXCEPT ![h.ep] = 1 - @]
             /\ h' = [h EXCEPT !.st = "ack"]
             /\ UNCHANGED faultVars
    <2>1. PICK e \in EP : e = r.epIdx
      BY DEF TypeOK, PktTypeOK, RegType
    <2>2. /\ OnWire /\ wire' = NoPkt /\ UNCHANGED <<env, r, mem, src, halted, tx, offered>>
          /\ h' = [h EXCEPT !.st = "ack"] /\ h \in [st : HostStates, ep : EP]
          /\ hTglInp \in [EP -> {0, 1}] /\ r.dataTglInp \in [EP -> {0, 1}]
      BY <1>2 DEF HostData, OnWire, epVars, faultVars, TypeOK, PktTypeOK, RegType
    <2>3. h.ep = e /\ ~Behind(e) /\ Sent /\ Phase \in InpStates
      <3>1. h.ep = e /\ wire.pid = DatPid(r.dataTglInp[e]) /\ Sent
        BY <2>1, <2>2 DEF InpInv, AlignInv
      <3>2. DatPid(hTglInp[e]) = DatPid(r.dataTglInp[e])
        BY <1>2, <3>1
      <3>3. hTglInp[e] \in {0, 1} /\ r.dataTglInp[e] \in {0, 1}
        BY <2>2
      <3>4. hTglInp[e] = r.dataTglInp[e]
        BY <3>2, <3>3 DEF DatPid
      <3> QED BY <3>1, <3>4, SentStates DEF Behind
    <2> DEFINE t == Received(e, wire.dat)
    <2>4. /\ t \in Seq(Item) /\ Len(t) = Lacks(e) /\ r.bufInpVld
          /\ \A i \in 1 .. Lacks(e) : t[i] = Next1(e, i)
      BY <2>1, <2>2, <2>3, HostGets
    <2>5. rcv' = [rcv EXCEPT ![e] = @ \o t] /\ hTglInp' = [hTglInp EXCEPT ![e] = 1 - @]
          /\ h'.st = "ack" /\ h'.ep = e
      BY <1>2, <2>2, <2>3
    <2> HIDE DEF t
    <2>6. /\ rcv'[e] = rcv[e] \o t /\ Len(rcv'[e]) = Taken(e)
          /\ \A f \in EP \ {e} : rcv'[f] = rcv[f] /\ hTglInp'[f] = hTglInp[f]
          /\ hTglInp'[e] # hTglInp[e]
      <3>1. rcv \in [EP -> Seq(Item)] /\ rcv[e] \in Seq(Item)
        BY DEF TypeOK
      <3>2. rcv'[e] = rcv[e] \o t
        BY <2>5, <3>1
      <3>3. Len(rcv'[e]) = Len(rcv[e]) + Lacks(e)
        <4>1. t \in Seq(Item) /\ Len(t) = Lacks(e)
          BY <2>4
        <4>2. Len(rcv[e] \o t) = Len(rcv[e]) + Len(t)
          BY <3>1, <4>1
        <4> QED BY <3>2, <4>1, <4>2
      <3>4. Len(rcv[e]) + Lacks(e) = Taken(e)
        BY StreamTypes DEF Lacks
      <3>5. hTglInp[e] \in {0, 1} /\ hTglInp'[e] = 1 - hTglInp[e]
        BY <2>2, <2>5
      <3> QED BY <2>2, <2>5, <3>1, <3>2, <3>3, <3>4, <3>5
    <2>7. Phase' = Phase /\ Owner' = e /\ (Sent <=> Sent') /\ ~Sending' /\ ~OnWire'
          /\ (BufBusy <=> BufBusy')
      BY <2>1, <2>2, <2>3, SentStates DEF Phase, Owner, Sent, Sending, OnWire, BufBusy
    <2>8. \A f \in EP : Behind(f)' <=> f = e
      <3> TAKE f \in EP
      <3>1. Behind(e)'
        BY <2>2, <2>3, <2>6 DEF Behind
      <3>2. f # e => ~Behind(f) /\ (Behind(f)' <=> Behind(f))
        BY <2>1, <2>2, <2>3, <2>6, OnlyOwner DEF Behind
      <3> QED BY <3>1, <3>2
    <2>9. EnvInv' /\ OwnInv'
      BY <2>2, <2>7, EnvFrame DEF InpInv, EnvKept, OwnInv
    <2>10. AlignInv'
      BY <2>1, <2>2, <2>3, <2>5, <2>7, <2>8 DEF AlignInv
    <2>11. StreamInv'
      <3> SUFFICES ASSUME NEW f \in EP
                   PROVE  /\ Len(src[f]) <= Len(offered[f]) /\ Len(rcv'[f]) <= Taken(f)
                          /\ \A i \in 1 .. Len(rcv'[f]) : rcv'[f][i] = offered[f][i]
                          /\ \A i \in 1 .. Len(src[f]) : src[f][i] = offered[f][Taken(f) + i]
        BY <2>2 DEF StreamInv, Taken
      <3>1. CASE f # e
        BY <2>6, <3>1 DEF InpInv, StreamInv
      <3>2. CASE f = e
        <4>1. Len(rcv'[e]) <= Taken(e)
          BY <2>6, StreamTypes
        <4>2. ASSUME NEW i \in 1 .. Len(rcv'[e]) PROVE rcv'[e][i] = offered[e][i]
          <5>1. PICK n \in Nat, m \in Nat : n = Len(rcv[e]) /\ m = Lacks(e)
            <6>1. t \in Seq(Item) /\ Len(t) = Lacks(e)
              BY <2>4
            <6>2. Len(t) \in Nat
              BY <6>1
            <6> QED BY <6>1, <6>2, StreamTypes
          <5>2. rcv[e] \in Seq(Item) /\ Len(rcv'[e]) = n + m /\ i \in Nat
            <6>1. rcv[e] \in Seq(Item) /\ i \in Nat
              BY StreamTypes
            <6>2. Len(rcv'[e]) = Len(rcv[e]) + Lacks(e)
              BY <2>6, StreamTypes DEF Lacks
            <6> QED BY <5>1, <6>1, <6>2
          <5>3. CASE i <= n
            <6>1. rcv'[e][i] = rcv[e][i]
              BY <2>4, <2>6, <5>1, <5>2, <5>3
            <6> QED BY <5>1, <5>2, <5>3, <6>1 DEF InpInv, StreamInv
          <5>4. CASE i > n
            <6>1. i - n \in 1 .. m /\ n + (i - n) = i
              BY <5>2, <5>4
            <6>2. rcv'[e][i] = t[i - n]
              BY <2>4, <2>6, <5>1, <5>2, <5>4
            <6> QED BY <2>4, <5>1, <6>1, <6>2 DEF Next1
          <5> QED BY <5>2, <5>3, <5>4
        <4> QED BY <3>2, <4>1, <4>2 DEF InpInv, StreamInv
      <3> QED BY <3>1, <3>2
    <2>12. TglInv'
      <3>1. Lacks(e)' = 0
        BY <2>2, <2>6, StreamTypes DEF Lacks, Taken
      <3>2. \A f \in EP \ {e} : Lacks(f)' = Lacks(f) /\ ~(Lacks(f) > 0)
        BY <2>1, <2>2, <2>3, <2>6, OnlyOwner DEF Lacks, Taken
      <3>3. r.bufInpEpIdx = e
        BY <2>1, <2>3, <2>4 DEF InpInv, OwnInv, BufBusy
      <3> QED BY <2>2, <2>4, <2>5, <2>8, <3>1, <3>2, <3>3 DEF TglInv
    <2>13. DataInv'
      BY <2>7, <2>8 DEF DataInv
    <2> QED BY <2>9, <2>10, <2>11, <2>12, <2>13 DEF InpInv
  <1> QED BY <1>1, <1>2 DEF HostData
-----------------------------------------------------------------------------
(* Halts, and what the endpoints offer.                                    *)
LEMMA HaltInp ==
  ASSUME TypeOK, InpInv, NEW dir \in {"inp", "out"}, NEW e \in EP, Halt(dir, e)
  PROVE  InpInv'
  <1>1. /\ h.st = "idle" /\ h' = h /\ r.state = "IDLE" /\ wire = NoPkt /\ wire' = NoPkt
        /\ StreamsKept /\ mem' = mem /\ tx' = tx /\ r \in RegType /\ env \in Scenario
        /\ halted \in [inp : SUBSET EP, out : SUBSET EP] /\ hTglInp \in [EP -> {0, 1}]
    BY DEF Halt, SetHalt, ClearHalt, StreamsKept, TypeOK, PktTypeOK
  <1>2. CASE <<dir, e>> \in env.halts /\ SetHalt(dir, e) /\ hTglInp' = hTglInp
             /\ env' = [env EXCEPT !.halts = @ \ {<<dir, e>>}]
    <2>1. /\ r' = r /\ env'.lose = env.lose /\ env'.aborts = env.aborts
          /\ env'.outPkts = env.outPkts /\ env'.halts \subseteq env.halts
          /\ halted'.inp = IF dir = "inp" THEN halted.inp \union {e} ELSE halted.inp
      BY <1>1, <1>2 DEF SetHalt, Scenario
    <2>2. EnvInv'
      BY <1>2, <2>1 DEF InpInv, EnvInv, NoSetup, AbortsMasked, Lossless
    <2>3. RegsKept /\ AckKept
      BY <1>1, <2>1, SameRegs DEF AckKept
    <2>4. AlignInv'
      BY <1>1, <1>2, <2>1, <2>3, AlignStill DEF InpInv
    <2>5. OwnInv'
      BY <1>1, <2>1 DEF InpInv, OwnInv, StreamsKept, BufBusy, Phase
    <2>6. StreamInv' /\ TglInv' /\ DataInv'
      BY <1>1, <1>2, <2>1, <2>3, StreamFrame, TglFrame, DataFrame DEF InpInv, BufBusy
    <2> QED BY <2>2, <2>4, <2>5, <2>6 DEF InpInv
  <1>3. CASE e \in halted[dir] /\ ClearHalt(dir, e) /\ UNCHANGED env
             /\ hTglInp' = IF dir = "inp" THEN [hTglInp EXCEPT ![e] = 0] ELSE hTglInp
    <2>1. halted'.inp \subseteq halted.inp
      BY <1>1, <1>3 DEF ClearHalt
    <2>2. EnvInv'
      BY <1>3, <2>1 DEF InpInv, EnvInv, NoSetup, AbortsMasked, Lossless
    <2>3. /\ r'.state = r.state /\ r'.nxtState = r.nxtState
          /\ r'.epIdx = r.epIdx /\ r'.pid = r.pid /\ r'.tok = r.tok /\ r'.donFlg = r.donFlg
          /\ r'.dataCounter = r.dataCounter
          /\ r'.bufRWIdx = r.bufRWIdx /\ r'.bufVldIdx = r.bufVldIdx
          /\ r'.bufEndIdx = r.bufEndIdx
          /\ r'.bufInpVld = r.bufInpVld /\ r'.bufInpPart = r.bufInpPart
          /\ r'.bufInpEpIdx = r.bufInpEpIdx /\ r'.retryExpired = r.retryExpired
      BY <1>1, <1>3 DEF ClearHalt, RegType
    <2>4. \A f \in EP : hTglInp'[f] # r'.dataTglInp[f] <=> hTglInp[f] # r.dataTglInp[f]
      <3>1. CASE dir = "inp"
        <4>1. "ack" \notin env.lose
          BY <1>3, <3>1 DEF InpInv, EnvInv
        <4>2. hTglInp[e] = r.dataTglInp[e]
          BY <1>1, <4>1 DEF InpInv, TglInv, Behind
        <4>3. r'.dataTglInp = [r.dataTglInp EXCEPT ![e] = 0] /\ r.dataTglInp \in [EP -> {0, 1}]
          BY <1>1, <1>3, <3>1 DEF ClearHalt, RegType
        <4>4. hTglInp' = [hTglInp EXCEPT ![e] = 0]
          BY <1>3, <3>1
        <4> QED BY <1>1, <4>2, <4>3, <4>4
      <3>2. CASE dir # "inp"
        BY <1>1, <1>3, <3>2 DEF ClearHalt, RegType
      <3> QED BY <3>1, <3>2
    <2>5. Phase = "IDLE" /\ Phase' = "IDLE" /\ ~Sent /\ ~Sending /\ ~Sent' /\ ~Sending'
          /\ ~OnWire /\ ~OnWire' /\ (BufBusy <=> BufBusy') /\ Owner' = Owner
          /\ Owner \in EP
      BY <1>1, <2>3 DEF Phase, Sent, Sending, OnWire, BufBusy, Owner, InpStates, RegType
    <2>6. AlignInv'
      BY <1>1, <2>5 DEF AlignInv
    <2>7. OwnInv'
      BY <2>3, <2>5 DEF InpInv, OwnInv, InpStates
    <2>8. StreamInv'
      BY <1>1, StreamFrame DEF InpInv
    <2>9. \A f \in EP : (Behind(f)' <=> Behind(f)) /\ Lacks(f)' = Lacks(f)
      BY <1>1, <2>4 DEF Behind, Lacks, Taken, StreamsKept
    <2>10. TglInv'
      BY <1>1, <1>3, <2>3, <2>5, <2>9 DEF InpInv, TglInv
    <2>11. DataInv'
      <3>1. SUFFICES ASSUME BufBusy, ~Behind(Owner)
                     PROVE  \E k \in 0 .. MaxPkt : Shape(Owner, k)' /\ Holds(Owner, k)'
        BY <2>5, <2>9 DEF DataInv
      <3>2. PICK k \in 0 .. MaxPkt : Shape(Owner, k) /\ Holds(Owner, k)
        BY <3>1 DEF InpInv, DataInv
      <3>3. r.bufEndIdx = Pos(k) /\ Stores(Owner, k) /\ (r.bufInpPart => Blind)
        BY <2>5, <3>2 DEF Holds, InpStates
      <3>4. r'.bufEndIdx = Pos(k)' /\ Stores(Owner, k)' /\ (r'.bufInpPart => Blind')
        BY <1>1, <1>3, <2>3, <2>5, <3>3 DEF Pos, Stores, Next1, Blind, StreamsKept
      <3>5. Holds(Owner, k)'
        BY <2>5, <3>4 DEF Holds, InpStates
      <3>6. Shape(Owner, k)'
        BY <1>1, <2>3, <2>5, <3>2 DEF Shape, Lacks, Taken, Next1, StreamsKept
      <3> QED BY <3>5, <3>6
    <2> QED BY <2>2, <2>6, <2>7, <2>8, <2>10, <2>11 DEF InpInv
  <1> QED BY <1>2, <1>3 DEF Halt

\* The streams grow at their ends only.
LEMMA OfferStreams ==
  ASSUME TypeOK, StreamInv, NEW e \in EP, EpOffer(e)
  PROVE  /\ StreamInv'
         /\ \A f \in EP : /\ Taken(f)' = Taken(f) /\ Lacks(f)' = Lacks(f)
                          /\ src[f] # <<>> => src'[f] # <<>> /\ Head(src'[f]) = Head(src[f])
                          /\ \A i \in 1 .. Lacks(f) : Next1(f, i)' = Next1(f, i)
         /\ \A f \in EP \ {e} : src'[f] = src[f] /\ offered'[f] = offered[f]
  <1>1. PICK t \in Seq(Item) : t = Head(todo[e])
    <2>1. todo[e] \in Seq(Seq(Item)) /\ todo[e] # <<>>
      BY DEF EpOffer, TypeOK
    <2> QED BY <2>1
  <1>2. /\ src' = [src EXCEPT ![e] = @ \o t] /\ offered' = [offered EXCEPT ![e] = @ \o t]
        /\ rcv' = rcv /\ src \in [EP -> Seq(Item)] /\ offered \in [EP -> Seq(Item)]
    BY <1>1 DEF EpOffer, hostVars, TypeOK, PktTypeOK
  <1>3. PICK a \in Nat, b \in Nat, c \in Nat, n \in Nat :
           a = Len(offered[e]) /\ b = Len(src[e]) /\ c = Len(rcv[e]) /\ n = Len(t)
    <2>1. Len(t) \in Nat
      OBVIOUS
    <2>2. Len(offered[e]) \in Nat /\ Len(src[e]) \in Nat /\ Len(rcv[e]) \in Nat
      BY StreamTypes
    <2> QED BY <2>1, <2>2
  <1>4. src[e] \in Seq(Item) /\ offered[e] \in Seq(Item)
    BY <1>2
  <1>5. /\ src'[e] = src[e] \o t /\ Len(src'[e]) = b + n
        /\ \A i \in 1 .. b : src'[e][i] = src[e][i]
        /\ \A i \in b + 1 .. b + n : src'[e][i] = t[i - b]
    BY <1>2, <1>3, <1>4
  <1>6. /\ offered'[e] = offered[e] \o t /\ Len(offered'[e]) = a + n
        /\ \A i \in 1 .. a : offered'[e][i] = offered[e][i]
        /\ \A i \in a + 1 .. a + n : offered'[e][i] = t[i - a]
    BY <1>2, <1>3, <1>4
  <1>7. \A f \in EP \ {e} : src'[f] = src[f] /\ offered'[f] = offered[f]
    BY <1>2
  <1>8. /\ b <= a /\ c <= a - b /\ Taken(e) = a - b /\ Lacks(e) = a - b - c
        /\ Taken(e)' = a - b /\ Lacks(e)' = a - b - c
    <2>1. Taken(e) = a - b /\ Lacks(e) = a - b - c
      BY <1>3 DEF Taken, Lacks
    <2>2. Taken(e)' = (a + n) - (b + n)
      BY <1>5, <1>6 DEF Taken
    <2>3. Lacks(e)' = Taken(e)' - c
      BY <1>2, <1>3 DEF Lacks
    <2>4. Len(src[e]) <= Len(offered[e]) /\ Len(rcv[e]) <= Taken(e)
      BY DEF StreamInv
    <2>5. b <= a /\ c <= a - b
      BY <1>3, <2>1, <2>4
    <2>6. (a + n) - (b + n) = a - b
      OBVIOUS
    <2> QED BY <2>1, <2>2, <2>3, <2>5, <2>6
  <1>9. \A f \in EP : Taken(f)' = Taken(f) /\ Lacks(f)' = Lacks(f)
    BY <1>2, <1>7, <1>8 DEF Taken, Lacks
  <1>10. \A f \in EP : src[f] # <<>> => src'[f] # <<>> /\ Head(src'[f]) = Head(src[f])
    <2> SUFFICES ASSUME src[e] # <<>>
                 PROVE  src'[e] # <<>> /\ Head(src'[e]) = Head(src[e])
      BY <1>7
    <2>1. b > 0
      BY <1>3, <1>4
    <2>2. Head(src[e]) = src[e][1] /\ src'[e][1] = src[e][1]
      BY <1>4, <1>5, <2>1
    <2>3. src'[e] \in Seq(Item) /\ Len(src'[e]) > 0
      <3>1. src[e] \o t \in Seq(Item)
        BY <1>4
      <3>2. b + n > 0
        BY <2>1
      <3> QED BY <1>5, <3>1, <3>2
    <2>4. src'[e] # <<>> /\ Head(src'[e]) = src'[e][1]
      BY <2>3
    <2> QED BY <2>2, <2>4
  <1>11. ASSUME NEW f \in EP, NEW i \in 1 .. Lacks(f)
         PROVE  Next1(f, i)' = Next1(f, i)
    <2>1. CASE f = e
      <3>1. i \in Nat /\ c + i \in 1 .. a
        BY <1>8, <1>11, <2>1
      <3> QED BY <1>2, <1>3, <1>6, <2>1, <3>1 DEF Next1
    <2>2. CASE f # e
      BY <1>2, <1>7, <2>2 DEF Next1
    <2> QED BY <2>1, <2>2
  <1>12. StreamInv'
    <2> SUFFICES ASSUME NEW f \in EP
                 PROVE  /\ Len(src'[f]) <= Len(offered'[f]) /\ Len(rcv'[f]) <= Taken(f)'
                        /\ \A i \in 1 .. Len(rcv'[f]) : rcv'[f][i] = offered'[f][i]
                        /\ \A i \in 1 .. Len(src'[f]) : src'[f][i] = offered'[f][Taken(f)' + i]
      BY DEF StreamInv
    <2>1. CASE f # e
      BY <1>2, <1>7, <1>9, <2>1 DEF StreamInv
    <2>2. CASE f = e
      <3>1. Len(src'[e]) <= Len(offered'[e]) /\ Len(rcv'[e]) <= Taken(e)'
        BY <1>2, <1>3, <1>5, <1>6, <1>8
      <3>2. ASSUME NEW i \in 1 .. c PROVE rcv[e][i] = offered'[e][i]
        <4>1. i \in 1 .. a
          BY <1>8
        <4> QED BY <1>3, <1>6, <4>1 DEF StreamInv
      <3>3. ASSUME NEW i \in 1 .. b + n PROVE src'[e][i] = offered'[e][(a - b) + i]
        <4>1. i \in Nat
          OBVIOUS
        <4>2. CASE i <= b
          <5>1. i \in 1 .. b /\ (a - b) + i \in 1 .. a
            BY <1>8, <4>2
          <5>2. src[e][i] = offered[e][(a - b) + i]
            BY <1>3, <1>8, <5>1 DEF StreamInv
          <5> QED BY <1>5, <1>6, <5>1, <5>2
        <4>3. CASE i > b
          <5>1. i \in b + 1 .. b + n /\ (a - b) + i \in a + 1 .. a + n
            BY <4>3
          <5>2. ((a - b) + i) - a = i - b
            OBVIOUS
          <5> QED BY <1>5, <1>6, <5>1, <5>2
        <4> QED BY <4>1, <4>2, <4>3
      <3>4. \A i \in 1 .. Len(rcv'[e]) : rcv'[e][i] = offered'[e][i]
        BY <1>2, <1>3, <3>2
      <3>5. \A i \in 1 .. Len(src'[e]) : src'[e][i] = offered'[e][Taken(e)' + i]
        BY <1>5, <1>8, <3>3
      <3> QED BY <2>2, <3>1, <3>4, <3>5
    <2> QED BY <2>1, <2>2
  <1> QED BY <1>7, <1>9, <1>10, <1>11, <1>12

LEMMA OfferInp ==
  ASSUME TypeOK, InpInv, NEW e \in EP, EpOffer(e)
  PROVE  InpInv'
  <1>1. UNCHANGED <<r, mem, halted, tx, wire, env, h, hTglInp, rcv>>
    BY DEF EpOffer, faultVars, hostVars
  <1>2. /\ StreamInv'
        /\ \A f \in EP : /\ Taken(f)' = Taken(f) /\ Lacks(f)' = Lacks(f)
                         /\ src[f] # <<>> => src'[f] # <<>>
                         /\ \A i \in 1 .. Lacks(f) : Next1(f, i)' = Next1(f, i)
    BY OfferStreams DEF InpInv
  <1>3. /\ Phase' = Phase /\ TxNow' = TxNow /\ (Sent' <=> Sent) /\ (Sending' <=> Sending)
        /\ (OnWire' <=> OnWire) /\ Owner' = Owner /\ (BufBusy' <=> BufBusy)
        /\ \A f : Behind(f)' <=> Behind(f)
    BY <1>1 DEF Phase, TxNow, Sent, Sending, OnWire, Owner, BufBusy, Behind
  <1>4. r.epIdx \in EP /\ Owner \in EP
    BY DEF TypeOK, PktTypeOK, RegType, Owner
  <1>5. EnvInv' /\ AlignInv' /\ OwnInv' /\ TglInv'
    BY <1>1, <1>2, <1>3, <1>4 DEF InpInv, EnvInv, AlignInv, OwnInv, TglInv
  <1>6. DataInv'
    <2>1. SUFFICES ASSUME BufBusy \/ Phase = "DATA_INP", ~Behind(Owner)
                   PROVE  \E k \in 0 .. MaxPkt : Shape(Owner, k)' /\ Holds(Owner, k)'
      BY <1>3 DEF DataInv
    <2>2. PICK o \in EP, k \in 0 .. MaxPkt : o = Owner /\ Shape(o, k) /\ Holds(o, k)
      BY <1>4, <2>1 DEF InpInv, DataInv
    <2>3. Lacks(o) \in Int /\ k <= Lacks(o)
      BY <2>2, StreamTypes DEF Shape
    <2>4. /\ \A i \in 1 .. k : Next1(o, i)' = Next1(o, i)
          /\ Lacks(o) = k + 1 => Next1(o, k + 1)' = Next1(o, k + 1)
      BY <1>2, <2>3
    <2>5. Shape(o, k)'
      BY <1>1, <1>2, <2>2, <2>4 DEF Shape
    <2>6. /\ Carries(TxNow, o, k) => Carries(TxNow, o, k)'
          /\ Carries(wire.dat, o, k) => Carries(wire.dat, o, k)'
      BY <1>1, <1>3, <2>4 DEF Carries
    <2>7. Stores(o, k) => Stores(o, k)'
      BY <1>1, <2>4 DEF Stores, Pos
    <2>8. (Exact(o, k) => Exact(o, k)') /\ (Blind' <=> Blind) /\ Pos(k)' = Pos(k)
      BY <1>1, <2>7 DEF Exact, Pos, Blind
    <2>9. Holds(o, k)'
      <3>1. TxNow \in Seq(Byte)
        BY DEF TxNow, TypeOK, PktTypeOK
      <3>2. Len(TxNow) \in Nat
        BY <3>1
      <3>3. Phase = "DATA_REP" => Carries(TxNow, o, Len(TxNow))'
        <4>1. Phase = "DATA_REP" => Len(TxNow) < k /\ Carries(TxNow, o, Len(TxNow))
          BY <2>2 DEF Holds
        <4> QED BY <1>3, <2>4, <3>2, <4>1 DEF Carries
      <3>4. Pos(Len(TxNow) + 1)' = Pos(Len(TxNow) + 1)
        BY <1>1, <1>3 DEF Pos
      <3>5. /\ Phase \notin InpStates =>
                 r.bufEndIdx = Pos(k)' /\ Stores(o, k)' /\ (r.bufInpPart => Blind')
            /\ Phase = "DATA_REP" =>
                 /\ r.bufEndIdx = Pos(k)' /\ Stores(o, k)' /\ (r.bufInpPart => Blind')
                 /\ Len(TxNow) < k /\ r.bufRWIdx = Pos(Len(TxNow) + 1)'
                 /\ r.dataCounter = MaxPkt - 1 - Len(TxNow)
        BY <2>2, <2>7, <2>8, <3>4 DEF Holds
      <3>6. /\ Phase = "DATA_INP" =>
                 Carries(TxNow, o, k)' /\ r.dataCounter = MaxPkt - 1 - k /\ (Exact(o, k)' \/ Blind')
            /\ (Phase = "WAIT_DON" /\ r.donFlg) =>
                 Carries(TxNow, o, k)' /\ (Exact(o, k)' \/ Blind')
            /\ Sent => (OnWire => Carries(wire.dat, o, k)') /\ (Exact(o, k)' \/ Blind')
        BY <2>2, <2>6, <2>8 DEF Holds
      <3> QED BY <1>1, <1>3, <3>3, <3>5, <3>6 DEF Holds
    <2> QED BY <1>3, <2>2, <2>5, <2>9
  <1> QED BY <1>2, <1>5, <1>6 DEF InpInv
-----------------------------------------------------------------------------
(* Every step, but one in which an endpoint gives something away.          *)
\* The owner of the buffer and its packet stay, unless the packet was
\* acknowledged; a transaction begins only with an endpoint that has a packet.
KeptRegs ==
  /\ r'.lstPktFullSz \subseteq r.lstPktFullSz
  /\ r'.bufInpEpIdx = r.bufInpEpIdx /\ r'.retryExpired = r.retryExpired
  /\ BufBusy => r'.bufVldIdx = r.bufVldIdx
  /\ (BufBusy' /\ ~BufBusy) => r.lstPktFullSz \intersect Unframed # {}
  /\ (BufBusy /\ ~BufBusy') => r.state = "WAIT_ACK" /\ Behind(r.epIdx)
  /\ r'.bufInpPart <=> r.bufInpPart
  /\ Phase' \in InpStates =>
        \/ Phase \in InpStates /\ r'.epIdx = r.epIdx
        \/ src[r'.epIdx] # <<>> \/ r'.epIdx \in r.lstPktFullSz
        \/ BufBusy /\ r.bufInpEpIdx = r'.epIdx

\* The endpoint of the transaction gives a byte, a marker or the end away.
Fetches == (DataInpByte \/ DataInpDry \/ DataInpDon) /\ UNCHANGED busVars

LEMMA KeptSame ==
  ASSUME r' = r
  PROVE  KeptRegs
  BY DEF KeptRegs, BufBusy, Phase

LEMMA KeptQuiet ==
  ASSUME QuietRegs, r'.lstPktFullSz = r.lstPktFullSz
  PROVE  KeptRegs
  BY DEF QuietRegs, KeptRegs, BufBusy

LEMMA KeptHdr ==
  ASSUME TypeOK, EngineInv, InpInv, NEW p \in RxHeader, RxHdr(p), p.pid # "SETUP",
         p.pid = "ACK" => h.st = "ack"
  PROVE  KeptRegs
  <1>1. r \in RegType /\ p.ep \in EP /\ OwnInv
    BY DEF TypeOK, PktTypeOK, RxHeader, InpInv
  <1>2. CASE Idle(p)
    <2>1. r.state = "IDLE" /\ mem' = mem
      BY <1>2 DEF Idle
    <2>2. CASE IdlePing(p) \/ IdleInpRefuse(p) \/ IdleOut(p) \/ r' = r
      <3>1. r'.lstPktFullSz = r.lstPktFullSz
        <4>1. /\ TokRegs(p) \in RegType /\ TokRegs(p).lstPktFullSz = r.lstPktFullSz
              /\ InpRegs(p) \in RegType /\ InpRegs(p).lstPktFullSz = r.lstPktFullSz
          BY <1>1, TokRegsType DEF TokRegs, InpRegs, RegType
        <4>2. \A v \in RegType : \A q : RespondHsk(v, q).lstPktFullSz = v.lstPktFullSz
          BY DEF RespondHsk, RegType
        <4>3. IdleOut(p) => r'.lstPktFullSz = r.lstPktFullSz
          BY <4>1 DEF IdleOut, RegType
        <4> QED BY <2>2, <4>1, <4>2, <4>3 DEF IdlePing, IdleInpRefuse
      <3> QED BY <1>1, <2>1, <2>2, <3>1, IdleQuiet, KeptQuiet
    <2>3. CASE IdleInpReplay(p) \/ IdleInpZlp(p) \/ IdleInpFresh(p)
      <3>1. /\ SendRegs(p) \in RegType /\ SendRegs(p).lstPktFullSz = r.lstPktFullSz
        BY <1>1, TokRegsType DEF SendRegs, InpRegs, TokRegs, RegType
      <3>2. /\ r'.lstPktFullSz \subseteq r.lstPktFullSz
            /\ IdleInpZlp(p) => p.ep \in r.lstPktFullSz \intersect Unframed
        <4>1. CASE IdleInpReplay(p)
          <5>1. CASE r.bufRWIdx = r.bufEndIdx
            BY <3>1, <4>1, <5>1 DEF IdleInpReplay, IdleInpZlp, RegType
          <5>2. CASE r.bufRWIdx # r.bufEndIdx
            BY <3>1, <4>1, <5>2 DEF IdleInpReplay, IdleInpZlp, RegType
          <5> QED BY <5>1, <5>2
        <4>2. CASE IdleInpZlp(p)
          BY <3>1, <4>2 DEF IdleInpZlp, RegType
        <4>3. CASE IdleInpFresh(p)
          BY <3>1, <4>3 DEF IdleInpFresh, IdleInpZlp, RegType
        <4> QED BY <2>3, <4>1, <4>2, <4>3
      <3>3. /\ r'.epIdx = p.ep /\ r'.bufVldIdx = r.bufVldIdx
            /\ r'.bufInpEpIdx = r.bufInpEpIdx /\ r'.retryExpired = r.retryExpired
            /\ r'.bufInpPart = r.bufInpPart
            /\ IF IdleInpZlp(p) THEN r'.bufInpVld ELSE r'.bufInpVld = r.bufInpVld
        <4>1. /\ IdleInpReplay(p) => ~IdleInpZlp(p)
              /\ IdleInpFresh(p) => ~IdleInpZlp(p)
          BY DEF IdleInpReplay, IdleInpZlp, IdleInpFresh
        <4> QED BY <1>1, <2>3, <4>1, BeginFacts DEF BeginRegs
      <3>4. /\ r.state = "IDLE" /\ Phase \notin InpStates
            /\ src[p.ep] # <<>> \/ p.ep \in r.lstPktFullSz
               \/ (BufBusy /\ r.bufInpEpIdx = p.ep)
        BY <2>1, <2>3 DEF IdleInpReplay, IdleInpZlp, IdleInpFresh, InpAccepted, NothingToSend,
                          BufForeign, Vld, Don, BufBusy, Phase, InpStates
      <3> QED BY <3>2, <3>3, <3>4 DEF KeptRegs, BufBusy
    <2> QED BY <1>2, <2>2, <2>3 DEF Idle
  <1>3. CASE DataPid(p)
    <2>1. r'.lstPktFullSz = r.lstPktFullSz
      BY <1>1, <1>3 DEF DataPid, DataPidDrain, DataPidStore, DataPidOther, RegType
    <2> QED BY <1>1, <1>3, <2>1, OutQuiet, KeptQuiet
  <1>4. CASE WaitAck(p)
    <2>1. r.state = "WAIT_ACK" /\ Phase = "WAIT_ACK" /\ r.bufInpVld /\ ~r.bufInpPart
      BY <1>1, <1>4 DEF WaitAck, Phase, OwnInv, InpStates, EngineInv, BufferInv
    <2>2. CASE p.pid = "ACK"
      <3>1. Behind(r.epIdx)
        BY <2>2 DEF InpInv, AlignInv
      <3>2. /\ r'.lstPktFullSz = r.lstPktFullSz /\ r'.bufInpEpIdx = r.bufInpEpIdx
            /\ r'.retryExpired = r.retryExpired /\ r'.bufVldIdx = r.bufVldIdx
            /\ r'.state = "IDLE" /\ r'.bufInpPart = FALSE /\ r'.bufInpVld = FALSE
        BY <1>1, <1>4, <2>2 DEF WaitAck, invalidateBuffer, RegType
      <3> QED BY <2>1, <3>1, <3>2 DEF KeptRegs, BufBusy, Phase, InpStates
    <2>3. CASE p.pid # "ACK"
      <3>1. /\ r'.lstPktFullSz = r.lstPktFullSz /\ r'.bufInpEpIdx = r.bufInpEpIdx
            /\ r'.retryExpired = r.retryExpired /\ r'.bufVldIdx = r.bufVldIdx
            /\ r'.state = "IDLE" /\ r'.bufInpPart = r.bufInpPart /\ r'.bufInpVld = r.bufInpVld
        BY <1>1, <1>4, <2>3 DEF WaitAck, SaveBuffer, RegType
      <3> QED BY <2>1, <3>1 DEF KeptRegs, BufBusy, Phase, InpStates
    <2> QED BY <2>2, <2>3
  <1> QED BY <1>2, <1>3, <1>4 DEF RxHdr

LEMMA KeptEngine ==
  ASSUME TypeOK, EngineInv, InpInv, EngineStep \/ PhyAbort \/ EngineTimeout, ~Fetches
  PROVE  KeptRegs
  <1>1. r \in RegType /\ OwnInv
    BY DEF TypeOK, PktTypeOK, InpInv
  <1>2. CASE Hsk \/ DataPidTimeout
    <2>1. r'.lstPktFullSz = r.lstPktFullSz
      BY <1>1, <1>2 DEF Hsk, DataPidTimeout, RegType
    <2>2. PICK p : p \in RxHeader
      <3>1. Hdr("SOF", NoPkt) \in RxHeader
        BY HdrType DEF Pids, TokPids
      <3> QED BY <3>1
    <2> QED BY <1>1, <1>2, <2>1, <2>2, OutQuiet, KeptQuiet
  <1>3. CASE WaitTx
    <2>1. /\ Phase' = Phase /\ r'.epIdx = r.epIdx /\ r'.lstPktFullSz = r.lstPktFullSz
          /\ r'.bufInpEpIdx = r.bufInpEpIdx /\ r'.retryExpired = r.retryExpired
          /\ r'.bufVldIdx = r.bufVldIdx
          /\ r'.bufInpPart = r.bufInpPart /\ r'.bufInpVld = r.bufInpVld
      BY <1>1, <1>3 DEF WaitTx, Phase, RegType
    <2> QED BY <2>1 DEF KeptRegs, BufBusy
  <1>4. CASE DataRepByte \/ WaitDonTx \/ WaitDonNext \/ WaitFs
    <2>1. /\ r'.epIdx = r.epIdx /\ r'.lstPktFullSz = r.lstPktFullSz
          /\ r'.bufInpEpIdx = r.bufInpEpIdx /\ r'.retryExpired = r.retryExpired
          /\ r'.bufVldIdx = r.bufVldIdx
          /\ r'.bufInpPart = r.bufInpPart /\ r'.bufInpVld = r.bufInpVld
      <3>1. CASE DataRepByte
        <4>1. r' \in {v \in RegType :
                /\ v.epIdx = r.epIdx /\ v.lstPktFullSz = r.lstPktFullSz
                /\ v.bufInpEpIdx = r.bufInpEpIdx /\ v.retryExpired = r.retryExpired
                /\ v.bufVldIdx = r.bufVldIdx
                /\ v.bufInpPart = r.bufInpPart /\ v.bufInpVld = r.bufInpVld}
          <5> DEFINE v == [r EXCEPT !.dataCounter = CntDec(@)]
          <5>1. v \in RegType
            BY <1>1, WrapCnt DEF RegType
          <5>2. /\ v.epIdx = r.epIdx /\ v.lstPktFullSz = r.lstPktFullSz
                /\ v.bufInpEpIdx = r.bufInpEpIdx /\ v.retryExpired = r.retryExpired
                /\ v.bufVldIdx = r.bufVldIdx /\ v.bufRWIdx = r.bufRWIdx
                /\ v.bufInpPart = r.bufInpPart /\ v.bufInpVld = r.bufInpVld
            BY <1>1 DEF RegType
          <5>3. Inc(v.bufRWIdx) \in Idx
            BY <5>1, WrapIdx DEF RegType
          <5>4. \/ r' = [v EXCEPT !.bufRWIdx = Inc(@)]
                \/ r' = [v EXCEPT !.bufRWIdx = Inc(@), !.state = "DATA_INP"]
                \/ r' = [v EXCEPT !.donFlg = TRUE, !.state = "WAIT_DON"]
            BY <3>1 DEF DataRepByte
          <5> HIDE DEF v
          <5>5. CASE r' = [v EXCEPT !.bufRWIdx = Inc(@)]
            BY <5>1, <5>2, <5>3, <5>5 DEF RegType
          <5>6. CASE r' = [v EXCEPT !.bufRWIdx = Inc(@), !.state = "DATA_INP"]
            BY <5>1, <5>2, <5>3, <5>6 DEF RegType, States
          <5>7. CASE r' = [v EXCEPT !.donFlg = TRUE, !.state = "WAIT_DON"]
            BY <5>1, <5>2, <5>7 DEF RegType, States
          <5> QED BY <5>4, <5>5, <5>6, <5>7
        <4> QED BY <4>1
      <3>2. CASE WaitDonTx \/ WaitDonNext
        BY <1>1, <3>2 DEF WaitDonTx, WaitDonNext, RegType
      <3>3. CASE WaitFs
        BY <1>1, <3>3 DEF WaitFs, RegType
      <3> QED BY <1>4, <3>1, <3>2, <3>3
    <2>2. Phase \in InpStates
      BY <1>4 DEF DataRepByte, WaitDonTx, WaitDonNext, WaitFs, Phase, InpStates
    <2> QED BY <2>1, <2>2 DEF KeptRegs, BufBusy
  <1>5. CASE DataInpAbort \/ DataRepAbort \/ WaitDonAbort \/ WaitAckTimeout
    <2>1. r'.lstPktFullSz \subseteq r.lstPktFullSz
      <3>1. CASE DataInpAbort
        <4>1. DataInpRegs \in RegType /\ DataInpRegs.lstPktFullSz \subseteq r.lstPktFullSz
          BY <1>1 DEF DataInpRegs, RegType
        <4>2. r' = [SaveBuffer(DataInpRegs) EXCEPT !.donFlg = FALSE, !.state = "IDLE"]
          BY <3>1 DEF DataInpAbort
        <4>3. \A v \in RegType : [SaveBuffer(v) EXCEPT !.donFlg = FALSE, !.state = "IDLE"].lstPktFullSz
                                = v.lstPktFullSz
          BY DEF SaveBuffer, RegType
        <4> QED BY <4>1, <4>2, <4>3
      <3>2. CASE DataRepAbort
        BY <1>1, <3>2 DEF DataRepAbort, RegType
      <3>3. CASE WaitDonAbort \/ WaitAckTimeout
        BY <1>1, <3>3 DEF WaitDonAbort, WaitAckTimeout, SaveBuffer, RegType
      <3> QED BY <1>5, <3>1, <3>2, <3>3
    <2>2. EndRegs
      <3>1. CASE DataRepAbort
        BY <1>1, <3>1 DEF DataRepAbort, EndRegs, RegType
      <3>2. CASE DataInpAbort \/ WaitDonAbort \/ WaitAckTimeout
        BY <1>1, <3>2, SaveRegs DEF DataInpAbort, WaitDonAbort, WaitAckTimeout
      <3> QED BY <1>5, <3>1, <3>2
    <2> QED BY <2>1, <2>2 DEF EndRegs, KeptRegs, BufBusy, Phase, InpStates
  <1>6. ~IdleRetryTimeout
    BY <1>1 DEF IdleRetryTimeout, OwnInv
  <1>7. Reader => KeptRegs
    BY KeptSame DEF Reader
  <1> QED BY <1>2, <1>3, <1>4, <1>5, <1>6, <1>7
          DEF EngineStep, PhyAbort, EngineTimeout, Fetches

\* Which header a token of the host is, in a scenario without SETUP.
LEMMA TokPid ==
  ASSUME TypeOK, EnvInv, NEW e \in EP, HostIn(e) \/ HostPing(e) \/ HostOut(e)
  PROVE  \E q \in {"IN", "PING", "OUT"} : SendTok(q, e)
  <1>1. CASE HostIn(e) \/ HostPing(e)
    BY <1>1 DEF HostIn, HostPing
  <1>2. CASE HostOut(e)
    <2>1. oIdx[e] + 1 \in DOMAIN env.outPkts[e]
      <3>1. oIdx[e] \in Nat /\ env.outPkts[e] \in Seq(Packet)
        BY DEF TypeOK, Scenario
      <3> QED BY <1>2, <3>1 DEF HostOut, More
    <2>2. OutPkt(e).tok = "OUT"
      BY <2>1 DEF EnvInv, NoSetup, OutPkt
    <2> QED BY <1>2, <2>2 DEF HostOut
  <1> QED BY <1>1, <1>2

LEMMA KeptStep ==
  ASSUME TypeOK, EngineInv, InpInv, [Next]_vars, ~Fetches
  PROVE  KeptRegs
  <1>1. tokDat \in EP \union {NoPkt} /\ h \in [st : HostStates, ep : EP] /\ r \in RegType
        /\ EnvInv /\ OwnInv
    BY DEF TypeOK, PktTypeOK, InpInv
  <1>2. CASE r' = r
    BY <1>2, KeptSame
  <1>3. CASE EngineStep \/ PhyAbort \/ EngineTimeout
    BY <1>3, KeptEngine
  <1>4. ASSUME NEW e \in EP, HostIn(e) \/ HostPing(e) \/ HostOut(e)
        PROVE  KeptRegs
    <2>1. PICK q \in {"IN", "PING", "OUT"} : SendTok(q, e)
      BY <1>1, <1>4, TokPid
    <2>2. Hdr(q, e) \in RxHeader /\ Hdr(q, e).pid = q
      <3>1. q \in Pids
        BY DEF Pids, TokPids
      <3> QED BY <3>1, HdrType DEF Hdr
    <2>3. RxHdr(Hdr(q, e)) \/ r' = r
      BY <2>1 DEF SendTok, pktVars
    <2> QED BY <1>2, <2>2, <2>3, KeptHdr
  <1>5. CASE HostOutPid
    <2>1. OutPid(h.ep) \in DatPids
      BY <1>1, PidTypes DEF OutPid, TypeOK, DatPids
    <2>2. /\ Hdr(OutPid(h.ep), tokDat) \in RxHeader
          /\ Hdr(OutPid(h.ep), tokDat).pid \notin {"SETUP", "ACK"}
      BY <1>1, <2>1, PidTypes, HdrType DEF Hdr, DatPids
    <2> QED BY <1>2, <1>5, <2>2, KeptHdr DEF HostOutPid, pktVars
  <1>6. CASE HostSof \/ HostAck
    <2>1. "SOF" \in Pids /\ "ACK" \in Pids
      BY DEF Pids, TokPids, HskPids
    <2>2. /\ Hdr("SOF", tokDat) \in RxHeader /\ Hdr("SOF", tokDat).pid = "SOF"
          /\ Hdr("ACK", tokDat) \in RxHeader /\ Hdr("ACK", tokDat).pid = "ACK"
      BY <1>1, <2>1, HdrType DEF Hdr
    <2> QED BY <1>2, <1>6, <2>2, KeptHdr DEF HostSof, HostAck, pktVars
  <1>7. CASE HostOutPayload
    <2>1. CASE RxData(OutPkt(h.ep).dat, FALSE)
      <3>1. r'.lstPktFullSz = r.lstPktFullSz
        BY <1>1, <2>1 DEF RxData, RegType
      <3>2. PICK p : p \in RxHeader
        <4>1. Hdr("SOF", NoPkt) \in RxHeader
          BY HdrType DEF Pids, TokPids
        <4> QED BY <4>1
      <3> QED BY <1>1, <2>1, <3>1, <3>2, OutQuiet, KeptQuiet
    <2>2. ~Lose("crc")
      BY <1>1 DEF EnvInv, Lose
    <2> QED BY <1>2, <1>7, <2>1, <2>2 DEF HostOutPayload, pktVars
  <1>8. ASSUME NEW dir \in {"inp", "out"}, NEW e \in EP, Halt(dir, e)
        PROVE  KeptRegs
    <2>1. CASE SetHalt(dir, e)
      BY <1>2, <2>1 DEF SetHalt
    <2>2. CASE ClearHalt(dir, e)
      <3>1. /\ r'.state = r.state /\ r'.nxtState = r.nxtState /\ r'.epIdx = r.epIdx
            /\ r'.lstPktFullSz = r.lstPktFullSz
            /\ r'.bufInpEpIdx = r.bufInpEpIdx /\ r'.retryExpired = r.retryExpired
            /\ r'.bufVldIdx = r.bufVldIdx
            /\ r'.bufInpPart = r.bufInpPart /\ r'.bufInpVld = r.bufInpVld
        BY <1>1, <2>2 DEF ClearHalt, RegType
      <3> QED BY <3>1 DEF KeptRegs, BufBusy, Phase
    <2> QED BY <1>8, <2>1, <2>2 DEF Halt
  <1>9. CASE \E e \in EP : EpOffer(e) \/ EpReady(e)
    BY <1>2, <1>9 DEF EpOffer, EpReady
  <1>10. CASE HostData \/ HostInRefused \/ HostHsk \/ HostSilence \/ UNCHANGED vars
    BY <1>2, <1>10 DEF HostData, HostInRefused, HostHsk, HostSilence, vars, pktVars
  <1> QED BY <1>3, <1>4, <1>5, <1>6, <1>7, <1>8, <1>9, <1>10 DEF Next

\* What the host has changes only when it takes a packet, what is offered only
\* when an endpoint offers more.
LEMMA StreamsStep ==
  ASSUME [Next]_vars
  PROVE  /\ rcv' = rcv \/ HostData
         /\ UNCHANGED <<todo, offered>> \/ \E e \in EP : EpOffer(e)
         /\ src' = src \/ Fetches \/ \E e \in EP : EpOffer(e)
  <1>1. CASE \E e \in EP : EpOffer(e) \/ EpReady(e)
    BY <1>1 DEF EpOffer, EpReady, hostVars, busVars
  <1>2. CASE EngineStep \/ PhyAbort \/ EngineTimeout
    <2>1. UNCHANGED <<todo, offered, rcv>>
      BY <1>2 DEF EngineStep, PhyAbort, EngineTimeout, busVars, hostVars
    <2>2. src' = src \/ Fetches
      BY <1>2 DEF EngineStep, PhyAbort, EngineTimeout, Fetches, WaitTx, Hsk, DataRepByte,
                  WaitDonTx, WaitDonNext, WaitFs, IdleRetryTimeout, Reader, DataInpAbort,
                  DataRepAbort, WaitDonAbort, WaitAckTimeout, DataPidTimeout, epVars
    <2> QED BY <2>1, <2>2
  <1>3. CASE \E e \in EP : Halt("inp", e) \/ Halt("out", e)
    BY <1>3 DEF Halt, SetHalt, ClearHalt
  <1>4. CASE \E e \in EP : HostIn(e) \/ HostPing(e) \/ HostOut(e)
    BY <1>4 DEF HostIn, HostPing, HostOut, SendTok, RxHdr, epVars, pktVars
  <1>5. CASE HostData
    BY <1>5 DEF HostData, epVars
  <1>6. CASE HostAck \/ HostInRefused \/ HostOutPid \/ HostSof
    BY <1>6 DEF HostAck, HostInRefused, HostOutPid, HostSof, RxHdr, epVars, pktVars, hostVars
  <1>7. CASE HostOutPayload \/ HostHsk \/ HostSilence \/ UNCHANGED vars
    BY <1>7 DEF HostOutPayload, RxData, HostHsk, HostSilence, epVars, pktVars, vars, busVars
  <1> QED BY <1>1, <1>2, <1>3, <1>4, <1>5, <1>6, <1>7 DEF Next
-----------------------------------------------------------------------------
(* Every step keeps the invariant.                                         *)
LEMMA InpStep ==
  ASSUME TypeOK, EngineInv, InpInv, EmptyOwned, [Next]_vars
  PROVE  InpInv'
  <1>1. CASE UNCHANGED vars \/ \E e \in EP : EpReady(e)
    BY <1>1, IdleStepsInp
  <1>2. CASE \E e \in EP : EpOffer(e)
    BY <1>2, OfferInp
  <1>3. CASE EngineStep
    <2>1. ~IdleRetryTimeout
      BY DEF IdleRetryTimeout, InpInv, OwnInv
    <2> QED BY <1>3, <2>1, IdleStepsInp, HskInp, ByteInp, CompleteInp, RepInp, SentInp
            DEF EngineStep
  <1>4. CASE PhyAbort \/ EngineTimeout
    BY <1>4, AbortInp, TimeoutInp
  <1>5. CASE \E e \in EP : Halt("inp", e) \/ Halt("out", e)
    BY <1>5, HaltInp
  <1>6. CASE \E e \in EP : HostIn(e) \/ HostPing(e) \/ HostOut(e)
    BY <1>6, HostTokInp
  <1>7. CASE HostData
    BY <1>7, TakeInp
  <1>8. CASE HostAck \/ HostOutPid \/ HostSof
    BY <1>8, HostHdrInp
  <1>9. CASE HostInRefused \/ HostHsk \/ HostSilence
    BY <1>9, HostStillInp
  <1>10. CASE HostOutPayload
    BY <1>10, PayloadInp
  <1> QED BY <1>1, <1>2, <1>3, <1>4, <1>5, <1>6, <1>7, <1>8, <1>9, <1>10 DEF Next
-----------------------------------------------------------------------------
(* A packet is taken from an endpoint.                                     *)
LEMMA FetchRegs ==
  ASSUME TypeOK, Fetches
  PROVE  /\ r.state = "DATA_INP" /\ r.epIdx \in EP /\ r'.epIdx = r.epIdx
         /\ UNCHANGED <<todo, offered, rcv>> /\ r'.bufVldIdx = r.bufVldIdx /\ BufBusy'
         /\ DataInpByte =>
              /\ src[r.epIdx] # <<>> /\ Head(src[r.epIdx]) # DON
              /\ src' = [src EXCEPT ![r.epIdx] = Tail(@)]
              /\ r'.bufInpEpIdx = r.epIdx /\ ~r'.retryExpired
              /\ r'.lstPktFullSz \subseteq r.lstPktFullSz \union {r.epIdx}
              /\ IF r.dataCounter = 0 THEN ~r'.bufInpPart /\ r'.bufInpVld ELSE r'.bufInpPart
         /\ DataInpDry =>
              /\ r.epIdx \in Unframed /\ src' = src
              /\ src[r.epIdx] # <<>> => Head(src[r.epIdx]) = DON
         /\ DataInpDon =>
              /\ src[r.epIdx] # <<>> /\ Head(src[r.epIdx]) = DON
              /\ src' = [src EXCEPT ![r.epIdx] = Tail(@)]
         /\ DataInpDry \/ DataInpDon =>
              /\ r'.bufInpEpIdx = r.bufInpEpIdx /\ r'.retryExpired = r.retryExpired
              /\ r'.lstPktFullSz \subseteq r.lstPktFullSz
              /\ ~r'.bufInpPart /\ r'.bufInpVld
  <1>1. /\ r \in RegType /\ r.state = "DATA_INP" /\ r.epIdx \in EP
        /\ UNCHANGED <<todo, offered, rcv>>
    BY DEF TypeOK, PktTypeOK, RegType, Fetches, DataInpByte, DataInpDry, DataInpDon, busVars
  <1>2. DataInpRegs \in RegType /\ DataInpRegs.lstPktFullSz \subseteq r.lstPktFullSz
    BY <1>1 DEF DataInpRegs, RegType
  <1>3. ASSUME DataInpByte
        PROVE  /\ src[r.epIdx] # <<>> /\ Head(src[r.epIdx]) # DON
               /\ src' = [src EXCEPT ![r.epIdx] = Tail(@)]
               /\ r'.bufInpEpIdx = r.epIdx /\ ~r'.retryExpired
               /\ r'.lstPktFullSz \subseteq r.lstPktFullSz \union {r.epIdx}
               /\ IF r.dataCounter = 0 THEN ~r'.bufInpPart /\ r'.bufInpVld ELSE r'.bufInpPart
               /\ r'.epIdx = r.epIdx /\ r'.bufVldIdx = r.bufVldIdx
    <2>1. r'.lstPktFullSz \subseteq r.lstPktFullSz \union {r.epIdx}
      <3>1. r' = [[DataInpRegs EXCEPT
                    !.bufRWIdx = Inc(@), !.dataCounter = CntDec(@),
                    !.bufInpPart = ~(r.dataCounter = 0), !.bufInpVld = @ \/ r.dataCounter = 0,
                    !.bufInpEpIdx = r.epIdx, !.retryExpired = FALSE,
                    !.donFlg = @ \/ r.dataCounter = 0,
                    !.state = IF r.dataCounter = 0 THEN "WAIT_DON" ELSE @]
                  EXCEPT !.lstPktFullSz = IF r.dataCounter = 0 THEN r.lstPktFullSz \union {r.epIdx}
                                          ELSE r.lstPktFullSz \ {r.epIdx}]
        BY <1>3 DEF DataInpByte
      <3> QED BY <1>2, <3>1 DEF RegType
    <2>2. src[r.epIdx] # <<>> /\ Head(src[r.epIdx]) # DON
          /\ src' = [src EXCEPT ![r.epIdx] = Tail(@)]
      BY <1>3 DEF DataInpByte, Vld, PopSrc
    <2> QED BY <1>3, <2>1, <2>2, ByteRegs
  <1>4. ASSUME DataInpDry \/ DataInpDon
        PROVE  /\ r'.bufInpEpIdx = r.bufInpEpIdx /\ r'.retryExpired = r.retryExpired
               /\ r'.lstPktFullSz \subseteq r.lstPktFullSz
               /\ ~r'.bufInpPart /\ r'.bufInpVld
               /\ r'.epIdx = r.epIdx /\ r'.bufVldIdx = r.bufVldIdx
    <2>1. PICK f \in BOOLEAN : r' = PacketComplete(DataInpRegs, f)
      BY <1>4 DEF DataInpDry, DataInpDon
    <2>2. \A v \in RegType : PacketComplete(v, f).lstPktFullSz = v.lstPktFullSz
      BY DEF PacketComplete, RegType
    <2> QED BY <1>2, <2>1, <2>2, CompleteRegs
  <1>5. DataInpDry => /\ r.epIdx \in Unframed /\ src' = src
                      /\ src[r.epIdx] # <<>> => Head(src[r.epIdx]) = DON
    BY DEF DataInpDry, Vld, epVars
  <1>6. DataInpDon => /\ src[r.epIdx] # <<>> /\ Head(src[r.epIdx]) = DON
                      /\ src' = [src EXCEPT ![r.epIdx] = Tail(@)]
    BY DEF DataInpDon, Don, PopSrc
  <1> QED BY <1>1, <1>3, <1>4, <1>5, <1>6 DEF Fetches, BufBusy
-----------------------------------------------------------------------------
(* One endpoint.                                                           *)
LEMMA SoleOwned ==
  ASSUME NEW e \in EP, SoleInv(e)
  PROVE  EmptyOwned
  BY DEF SoleInv, EmptyOwned, InpStates, Don

LEMMA SoleInit ==
  ASSUME Init, NEW e \in EP, SoleFrom(env, e)
  PROVE  SoleInv(e)
  BY DEF Init, PktInit, RInit, SoleFrom, SoleInv, Phase, InpStates, BufBusy

LEMMA SoleStep ==
  ASSUME TypeOK, EngineInv, InpInv, NEW e \in EP, SoleInv(e), [Next]_vars
  PROVE  SoleInv(e)'
  <1>1. r.epIdx \in EP /\ r'.epIdx \in EP /\ src \in [EP -> Seq(Item)]
    <2>1. TypeOK'
      BY TypeStep
    <2> QED BY <2>1 DEF TypeOK, PktTypeOK, RegType
  <1>2. CASE Fetches
    <2>1. /\ r.epIdx = e /\ r'.epIdx = e /\ UNCHANGED todo
          /\ \A f \in EP \ {e} : src'[f] = src[f]
      <3>1. r.epIdx = e
        BY <1>2, FetchRegs DEF SoleInv, Phase, InpStates
      <3> QED BY <1>1, <1>2, <3>1, FetchRegs DEF Fetches
    <2>2. CASE DataInpByte
      BY <1>2, <2>1, <2>2, FetchRegs DEF SoleInv, Owns
    <2>3. CASE DataInpDry \/ DataInpDon
      <3>1. Owns(e) /\ r.lstPktFullSz \subseteq {e}
        <4>1. DataInpDry /\ ~BufBusy => src[e] # <<>>
          BY <2>1 DEF InpInv, OwnInv, Phase, DataInpDry
        <4>2. BufBusy => Owns(e)
          BY <2>1, <2>3 DEF InpInv, OwnInv, Phase, DataInpDry, DataInpDon, Owns, InpStates
        <4>3. ~BufBusy => src[e] # <<>> /\ Head(src[e]) = DON
          BY <1>2, <2>1, <2>3, <4>1, FetchRegs
        <4> QED BY <4>2, <4>3 DEF SoleInv
      <3> QED BY <1>2, <2>1, <2>3, <3>1, FetchRegs DEF SoleInv, Owns
    <2> QED BY <1>2, <2>2, <2>3 DEF Fetches
  <1>3. CASE ~Fetches
    <2>1. KeptRegs
      BY <1>3, KeptStep
    <2>2. Phase' \in InpStates => r'.epIdx = e
      BY <1>1, <2>1 DEF KeptRegs, SoleInv, Owns
    <2>3. ASSUME Owns(e), r.lstPktFullSz \subseteq {e}
          PROVE  Owns(e)' /\ r'.lstPktFullSz \subseteq {e}
      BY <2>1, <2>3 DEF KeptRegs, Owns
    <2>4. ASSUME ~BufBusy, r.lstPktFullSz = {}
          PROVE  ~BufBusy' /\ r'.lstPktFullSz = {}
      BY <2>1, <2>4 DEF KeptRegs
    <2>5. CASE UNCHANGED <<src, todo>>
      BY <2>2, <2>3, <2>4, <2>5 DEF SoleInv
    <2>6. CASE \E f \in EP : EpOffer(f)
      <3>1. EpOffer(e)
        BY <2>6 DEF EpOffer, SoleInv
      <3>2. /\ todo[e] # <<>> /\ todo \in [EP -> Seq(Seq(Item))]
            /\ src' = [src EXCEPT ![e] = @ \o Head(todo[e])]
            /\ todo' = [todo EXCEPT ![e] = Tail(@)]
        BY <3>1 DEF EpOffer, TypeOK
      <3>3. \A f \in EP \ {e} : src'[f] = <<>> /\ todo'[f] = <<>>
        BY <1>1, <3>2 DEF SoleInv
      <3>4. ASSUME ~BufBusy, r.lstPktFullSz = {},
                   src[e] # <<>> => Head(src[e]) # DON,
                   (src[e] = <<>> /\ todo[e] # <<>>) => todo[e][1] # <<>> /\ todo[e][1][1] # DON
            PROVE  src'[e] # <<>> /\ Head(src'[e]) # DON
        <4>1. CASE src[e] # <<>>
          BY <3>1, <3>4, <4>1, OfferStreams DEF InpInv
        <4>2. CASE src[e] = <<>>
          <5>1. PICK t \in Seq(Item) : t = Head(todo[e]) /\ t # <<>> /\ t[1] # DON
            <6>1. todo[e] \in Seq(Seq(Item))
              BY <3>2
            <6>2. Head(todo[e]) = todo[e][1] /\ Head(todo[e]) \in Seq(Item)
              BY <3>2, <6>1
            <6> QED BY <3>2, <3>4, <4>2, <6>2
          <5>2. src'[e] = <<>> \o t
            BY <1>1, <3>2, <4>2, <5>1
          <5>3. <<>> \o t = t /\ Head(t) = t[1]
            BY <5>1
          <5> QED BY <5>1, <5>2, <5>3
        <4> QED BY <4>1, <4>2
      <3> QED BY <2>2, <2>3, <2>4, <3>3, <3>4 DEF SoleInv
    <2> QED BY <1>3, <2>5, <2>6, StreamsStep
  <1> QED BY <1>2, <1>3
-----------------------------------------------------------------------------
(* Frames without empty packets.                                           *)
\* A stream that ends with a whole frame goes on with the next one.
LEMMA CutJoin ==
  ASSUME NEW f \in Seq(Item), NEW S, Cut(f, S), Len(f) + 1 \in S,
         NEW t \in Seq(Item), NEW T, Cut(t, T), Len(t) + 1 \in T
  PROVE  \E U \in SUBSET (1 .. Len(f \o t) + 1) :
            Cut(f \o t, U) /\ Len(f \o t) + 1 \in U /\ S \subseteq U
  <1>1. PICK a \in Nat, b \in Nat : a = Len(f) /\ b = Len(t)
    <2>1. Len(f) \in Nat /\ Len(t) \in Nat
      OBVIOUS
    <2> QED BY <2>1
  <1>2. PICK g \in Seq(Item) : g = f \o t
    <2>1. f \o t \in Seq(Item)
      OBVIOUS
    <2> QED BY <2>1
  <1>3. /\ Len(g) = a + b
        /\ \A i \in 1 .. a : g[i] = f[i]
        /\ \A i \in 1 .. b : g[a + i] = t[i]
    <2>1. Len(g) = a + b /\ \A i \in 1 .. a : g[i] = f[i]
      BY <1>1, <1>2
    <2>2. ASSUME NEW i \in 1 .. b PROVE g[a + i] = t[i]
      <3>1. a + i \in a + 1 .. a + b /\ (a + i) - a = i
        OBVIOUS
      <3> QED BY <1>1, <1>2, <3>1
    <2> QED BY <2>1, <2>2
  <1>4. /\ S \subseteq 1 .. a + 1 /\ 1 \in S /\ a + 1 \in S
        /\ T \subseteq 1 .. b + 1 /\ 1 \in T /\ b + 1 \in T
        /\ a # 0 => f[a] = DON
        /\ b # 0 => t[b] = DON
        /\ \A p \in S : p <= a => f[p] # DON
        /\ \A p \in T : p <= b => t[p] # DON
    <2>1. (a = 0 <=> f = <<>>) /\ (b = 0 <=> t = <<>>)
      BY <1>1
    <2> QED BY <1>1, <2>1 DEF Cut
  <1>5. /\ \A p \in S, q \in 1 .. a + 1 :
             (p < q /\ \A i \in p .. q - 1 : f[i] # DON) =>
                /\ q = p + MaxPkt => q \in S
                /\ (q < p + MaxPkt /\ q <= a /\ f[q] = DON) => q + 1 \in S
        /\ \A p \in T, q \in 1 .. b + 1 :
             (p < q /\ \A i \in p .. q - 1 : t[i] # DON) =>
                /\ q = p + MaxPkt => q \in T
                /\ (q < p + MaxPkt /\ q <= b /\ t[q] = DON) => q + 1 \in T
    BY <1>1 DEF Cut
  <1> DEFINE U == S \union {a + p : p \in T}
  <1>6. /\ U \subseteq 1 .. a + b + 1 /\ 1 \in U /\ a + b + 1 \in U /\ S \subseteq U
        /\ \A p \in T : a + p \in U
    <2>1. \A p \in T : a + p \in U
      OBVIOUS
    <2>2. \A p \in T : a + p \in 1 .. a + b + 1
      BY <1>4
    <2>3. \A p \in S : p \in 1 .. a + b + 1
      BY <1>4
    <2>4. a + (b + 1) \in U /\ a + (b + 1) = a + b + 1
      BY <1>4, <2>1
    <2>5. S \subseteq U
      OBVIOUS
    <2>6. U \subseteq 1 .. a + b + 1
      BY <2>2, <2>3
    <2> QED BY <1>4, <2>1, <2>4, <2>5, <2>6
  <1>7. \A p \in U : (p \in S /\ p <= a) \/ \E q \in T : p = a + q
    <2> SUFFICES ASSUME NEW p \in S, p > a PROVE \E q \in T : p = a + q
      BY <1>4
    <2>1. p = a + 1 /\ 1 \in T
      BY <1>4
    <2> QED BY <2>1
  <1> HIDE DEF U
  <1>8. g # <<>> => g[Len(g)] = DON
    <2>1. CASE b # 0
      <3>1. b \in 1 .. b
        BY <2>1
      <3> QED BY <1>3, <1>4, <2>1, <3>1
    <2>2. CASE b = 0 /\ a # 0
      <3>1. Len(g) = a /\ a \in 1 .. a
        BY <1>3, <2>2
      <3> QED BY <1>3, <1>4, <2>2, <3>1
    <2>3. CASE b = 0 /\ a = 0
      BY <1>3, <2>3
    <2> QED BY <2>1, <2>2, <2>3
  <1>9. ASSUME NEW p \in U, p <= a + b PROVE g[p] # DON
    <2>1. CASE p \in S /\ p <= a
      <3>1. p \in 1 .. a
        BY <1>4, <2>1
      <3> QED BY <1>3, <1>4, <2>1, <3>1
    <2>2. CASE \E q \in T : p = a + q
      <3>1. PICK q \in T : p = a + q
        BY <2>2
      <3>2. q \in 1 .. b /\ q <= b
        BY <1>4, <1>9, <3>1
      <3> QED BY <1>3, <1>4, <3>1, <3>2
    <2> QED BY <1>7, <2>1, <2>2
  <1>10. ASSUME NEW p \in U, NEW q \in 1 .. a + b + 1,
                p < q, \A i \in p .. q - 1 : g[i] # DON
         PROVE  /\ q = p + MaxPkt => q \in U
                /\ (q < p + MaxPkt /\ q <= a + b /\ g[q] = DON) => q + 1 \in U
    <2>1. CASE p \in S /\ p <= a
      <3>1. p \in 1 .. a /\ q \in Int
        BY <1>4, <2>1
      <3>2. q <= a
        <4>1. SUFFICES ASSUME q > a PROVE FALSE
          BY <3>1
        <4>2. a \in p .. q - 1 /\ a \in 1 .. a /\ a # 0
          BY <3>1, <4>1
        <4> QED BY <1>3, <1>4, <1>10, <4>2
      <3>3. \A i \in p .. q - 1 : f[i] # DON
        <4> TAKE i \in p .. q - 1
        <4>1. i \in 1 .. a
          BY <3>1, <3>2
        <4> QED BY <1>3, <1>10, <4>1
      <3>4. q \in 1 .. a + 1 /\ q \in 1 .. a
        BY <3>1, <3>2
      <3>5. /\ q = p + MaxPkt => q \in S
            /\ (q < p + MaxPkt /\ q <= a /\ f[q] = DON) => q + 1 \in S
        BY <1>5, <1>10, <2>1, <3>3, <3>4
      <3> QED BY <1>3, <1>6, <3>2, <3>4, <3>5
    <2>2. CASE \E x \in T : p = a + x
      <3>1. PICK x \in T : p = a + x
        BY <2>2
      <3>2. x \in 1 .. b + 1 /\ p \in Int /\ q \in Int /\ x \in Int
        BY <1>4, <3>1
      <3>3. PICK y \in 1 .. b + 1 : q = a + y
        <4>1. q - a \in 1 .. b + 1 /\ q = a + (q - a)
          BY <1>10, <3>1, <3>2
        <4> QED BY <4>1
      <3>4. x < y
        BY <1>10, <3>1, <3>2, <3>3
      <3>5. \A i \in x .. y - 1 : t[i] # DON
        <4> TAKE i \in x .. y - 1
        <4>1. i \in 1 .. b /\ a + i \in p .. q - 1
          BY <3>1, <3>2, <3>3
        <4> QED BY <1>3, <1>10, <4>1
      <3>6. /\ y = x + MaxPkt => y \in T
            /\ (y < x + MaxPkt /\ y <= b /\ t[y] = DON) => y + 1 \in T
        BY <1>5, <3>4, <3>5
      <3>7. q = p + MaxPkt => q \in U
        <4>1. q = p + MaxPkt => y = x + MaxPkt
          BY <3>1, <3>2, <3>3
        <4> QED BY <1>6, <3>3, <3>6, <4>1
      <3>8. (q < p + MaxPkt /\ q <= a + b /\ g[q] = DON) => q + 1 \in U
        <4> SUFFICES ASSUME q < p + MaxPkt, q <= a + b, g[q] = DON PROVE q + 1 \in U
          OBVIOUS
        <4>1. y < x + MaxPkt /\ y <= b /\ y \in 1 .. b
          BY <3>1, <3>2, <3>3
        <4>2. y + 1 \in T
          BY <1>3, <3>3, <3>6, <4>1
        <4>3. q + 1 = a + (y + 1)
          BY <3>3
        <4> QED BY <1>6, <4>2, <4>3
      <3> QED BY <3>7, <3>8
    <2> QED BY <1>7, <2>1, <2>2
  <1>11. Cut(g, U)
    BY <1>3, <1>6, <1>8, <1>9, <1>10 DEF Cut
  <1> QED BY <1>2, <1>3, <1>6, <1>11

LEMMA SplitOwned ==
  ASSUME TypeOK, InpInv, SplitInv
  PROVE  EmptyOwned
  <1> SUFFICES ASSUME ~BufBusy, Phase = "DATA_INP", Don(r.epIdx) PROVE FALSE
    BY DEF EmptyOwned, SplitInv
  <1>1. PICK e \in EP : e = r.epIdx
    BY DEF TypeOK, PktTypeOK, RegType
  <1>2. PICK a \in Nat, b \in Nat : a = Len(offered[e]) /\ b = Len(src[e])
    BY StreamTypes
  <1>3. src[e] \in Seq(Item) /\ src[e] # <<>> /\ Head(src[e]) = DON
    BY <1>1, StreamTypes DEF Don
  <1>4. b > 0 /\ src[e][1] = DON
    BY <1>2, <1>3
  <1>5. b <= a /\ Taken(e) = a - b
    BY <1>2 DEF InpInv, StreamInv, Taken
  <1>6. src[e][1] = offered[e][Taken(e) + 1]
    BY <1>2, <1>4 DEF InpInv, StreamInv
  <1>7. PICK S : Cut(offered[e], S) /\ Mark(e) \in S
    BY DEF SplitInv
  <1>8. Mark(e) = Taken(e) + 1
    BY DEF Mark, BufBusy
  <1>9. Taken(e) + 1 <= a
    BY <1>4, <1>5
  <1>10. offered[e][Taken(e) + 1] # DON
    BY <1>2, <1>7, <1>8, <1>9 DEF Cut
  <1> QED BY <1>4, <1>6, <1>10

LEMMA SplitInit ==
  ASSUME Init, FramesSplit(env)
  PROVE  SplitInv
  <1>1. /\ r = RInit /\ todo = env.inp /\ offered = [e \in EP |-> <<>>]
        /\ src = [e \in EP |-> <<>>]
    BY DEF Init, PktInit
  <1>2. ASSUME NEW e \in EP
        PROVE  Cut(offered[e], {1}) /\ Len(offered[e]) + 1 = 1 /\ Mark(e) = 1
    <2>1. offered[e] = <<>> /\ src[e] = <<>> /\ ~r.bufInpPart
      BY <1>1 DEF RInit
    <2>2. Len(offered[e]) = 0 /\ Taken(e) = 0
      BY <2>1 DEF Taken
    <2>3. Mark(e) = 1
      BY <2>1, <2>2 DEF Mark
    <2>4. Cut(offered[e], {1})
      BY <2>1, <2>2 DEF Cut
    <2> QED BY <2>2, <2>3, <2>4
  <1>3. ASSUME NEW e \in EP
        PROVE  \E S \in SUBSET (1 .. Len(offered[e]) + 1) :
                  Cut(offered[e], S) /\ Len(offered[e]) + 1 \in S /\ Mark(e) \in S
    <2>1. {1} \in SUBSET (1 .. Len(offered[e]) + 1)
      BY <1>2
    <2> QED BY <1>2, <2>1
  <1>4. \A e \in EP : (todo[e] # <<>> \/ offered[e] # <<>>) => e \notin Unframed
    BY <1>1 DEF FramesSplit
  <1>5. ASSUME NEW e \in EP, NEW i \in DOMAIN todo[e] PROVE Splits(todo[e][i])
    <2>1. todo[e] = env.inp[e]
      BY <1>1
    <2>2. CASE env.inp[e] # <<>>
      BY <1>5, <2>1, <2>2 DEF FramesSplit
    <2>3. CASE env.inp[e] = <<>>
      BY <1>5, <2>1, <2>3
    <2> QED BY <2>2, <2>3
  <1> QED BY <1>1, <1>3, <1>4, <1>5 DEF SplitInv, RInit

\* The mark of endpoint e, when a packet is taken from it.
LEMMA SplitFetch ==
  ASSUME TypeOK, EngineInv, InpInv, SplitInv, Fetches
  PROVE  SplitInv'
  <1>1. PICK e \in EP, k \in 0 .. MaxPkt : e = r.epIdx /\ Fetching(e, k)
    BY FetchFacts, FetchRegs
  <1>2. UNCHANGED <<todo, offered, rcv>>
    BY FetchRegs
  <1>3. PICK a \in Nat, b \in Nat, c \in Nat :
           a = Len(offered[e]) /\ b = Len(src[e]) /\ c = Len(rcv[e])
    BY StreamTypes
  <1>4. /\ Taken(e) = c + k /\ Taken(e) = a - b /\ k < MaxPkt
        /\ ~r.bufInpVld /\ (r.bufInpPart <=> k > 0) /\ (r.bufInpPart => r.bufInpEpIdx = e)
        /\ \A i \in 1 .. k : Next1(e, i) # DON
        /\ r.dataCounter = MaxPkt - 1 - k
    <2>1. Taken(e) = a - b /\ Lacks(e) = Taken(e) - c
      BY <1>3 DEF Taken, Lacks
    <2>2. Lacks(e) = k
      BY <1>1 DEF Fetching
    <2> QED BY <1>1, <2>1, <2>2 DEF Fetching
  <1>5. Mark(e) = c + 1
    BY <1>3, <1>4 DEF Mark
  <1>6. e \notin Unframed
    <2>1. src[e] # <<>> \/ k > 0
      <3>1. ~BufBusy => src[e] # <<>>
        BY <1>1, FetchRegs DEF InpInv, OwnInv, Phase
      <3> QED BY <1>4, <3>1 DEF BufBusy
    <2>2. src[e] \in Seq(Item) /\ offered[e] \in Seq(Item)
      BY StreamTypes
    <2>3. b > 0 \/ k > 0
      BY <1>3, <2>1, <2>2
    <2>4. a > 0
      BY <1>4, <2>3
    <2>5. offered[e] # <<>>
      BY <1>3, <2>2, <2>4
    <2> QED BY <2>5 DEF SplitInv
  <1>7. ~DataInpDry
    BY <1>1, <1>6 DEF DataInpDry
  <1>8. /\ src[e] # <<>> /\ src' = [src EXCEPT ![e] = Tail(@)]
        /\ DataInpByte => Head(src[e]) # DON
        /\ DataInpDon => Head(src[e]) = DON
    BY <1>1, <1>7, FetchRegs DEF Fetches
  <1>9. /\ Lacks(e)' = k + 1 /\ Next1(e, k + 1) = Head(src[e])
        /\ \A f \in EP \ {e} : src'[f] = src[f]
    <2>1. Lacks(e)' = Lacks(e) + 1 /\ Next1(e, Lacks(e) + 1) = Head(src[e])
          /\ \A f \in EP \ {e} : src'[f] = src[f]
      BY <1>2, <1>8, PopInp
    <2> QED BY <1>1, <2>1 DEF Fetching
  <1>10. Taken(e)' = c + k + 1 /\ b > 0
    <2>1. src[e] \in Seq(Item)
      BY StreamTypes
    <2>2. Len(src'[e]) = b - 1 /\ b > 0
      <3>1. src'[e] = Tail(src[e])
        BY <1>8, StreamTypes DEF TypeOK, PktTypeOK
      <3>2. b > 0
        BY <1>3, <1>8, <2>1
      <3>3. Len(Tail(src[e])) = Len(src[e]) - 1
        BY <1>8, <2>1
      <3> QED BY <1>3, <3>1, <3>2, <3>3
    <2>3. Taken(e)' = a - (b - 1)
      BY <1>2, <1>3, <2>2 DEF Taken
    <2> QED BY <1>4, <2>2, <2>3
  <1>11. PICK S \in SUBSET (1 .. a + 1) : Cut(offered[e], S) /\ a + 1 \in S /\ c + 1 \in S
    BY <1>3, <1>5 DEF SplitInv
  <1>12. \A i \in c + 1 .. c + k : offered[e][i] # DON
    <2> TAKE i \in c + 1 .. c + k
    <2>1. i - c \in 1 .. k /\ c + (i - c) = i
      OBVIOUS
    <2>2. Next1(e, i - c) = offered[e][i]
      BY <1>3, <2>1 DEF Next1
    <2> QED BY <1>4, <2>1, <2>2
  <1>13. offered[e][c + k + 1] = Head(src[e])
    <2>1. Next1(e, k + 1) = offered[e][c + (k + 1)]
      BY <1>3 DEF Next1
    <2> QED BY <1>9, <2>1
  <1>14. c + k + 1 <= a
    BY <1>4, <1>10
  <1>15. /\ \A p \in S : p <= a => offered[e][p] # DON
         /\ \A p \in S, q \in 1 .. a + 1 :
              (p < q /\ \A i \in p .. q - 1 : offered[e][i] # DON) =>
                 /\ q = p + MaxPkt => q \in S
                 /\ (q < p + MaxPkt /\ q <= a /\ offered[e][q] = DON) => q + 1 \in S
    BY <1>3, <1>11 DEF Cut
  <1>16. Mark(e)' \in S /\ r'.lstPktFullSz \subseteq r.lstPktFullSz \union {e}
    <2>1. CASE DataInpByte
      <3>1. /\ r'.bufInpEpIdx = e /\ r'.lstPktFullSz \subseteq r.lstPktFullSz \union {e}
            /\ IF r.dataCounter = 0 THEN ~r'.bufInpPart ELSE r'.bufInpPart
        BY <1>1, <2>1, FetchRegs
      <3>2. CASE r.dataCounter # 0
        BY <1>2, <1>3, <1>11, <3>1, <3>2 DEF Mark
      <3>3. CASE r.dataCounter = 0
        <4>1. Mark(e)' = c + k + 1 + 1
          BY <1>10, <3>1, <3>3 DEF Mark
        <4>2. k + 1 = MaxPkt
          BY <1>4, <3>3
        <4>3. c + k + 1 + 1 = (c + 1) + MaxPkt /\ c + k + 1 + 1 \in 1 .. a + 1
          BY <1>14, <4>2
        <4>4. \A i \in c + 1 .. (c + k + 1 + 1) - 1 : offered[e][i] # DON
          <5> TAKE i \in c + 1 .. (c + k + 1 + 1) - 1
          <5>1. i \in c + 1 .. c + k \/ i = c + k + 1
            OBVIOUS
          <5> QED BY <1>8, <1>12, <1>13, <2>1, <5>1
        <4>5. c + 1 < c + k + 1 + 1
          OBVIOUS
        <4>6. c + k + 1 + 1 \in S
          BY <1>11, <1>15, <4>3, <4>4, <4>5
        <4> QED BY <3>1, <4>1, <4>6
      <3> QED BY <3>2, <3>3
    <2>2. CASE DataInpDon
      <3>1. ~r'.bufInpPart /\ r'.lstPktFullSz \subseteq r.lstPktFullSz
        BY <2>2, FetchRegs
      <3>2. Mark(e)' = c + k + 1 + 1
        BY <1>10, <3>1 DEF Mark
      <3>3. offered[e][c + k + 1] = DON
        BY <1>8, <1>13, <2>2
      <3>4. k # 0
        <4>1. k = 0 => c + 1 = c + k + 1
          OBVIOUS
        <4> QED BY <1>11, <1>14, <1>15, <3>3, <4>1
      <3>5. c + 1 < c + k + 1 /\ c + k + 1 < (c + 1) + MaxPkt /\ c + k + 1 \in 1 .. a + 1
        BY <1>4, <1>14, <3>4
      <3>6. \A i \in c + 1 .. (c + k + 1) - 1 : offered[e][i] # DON
        <4>1. (c + k + 1) - 1 = c + k
          OBVIOUS
        <4> QED BY <1>12, <4>1
      <3>7. (c + k + 1) + 1 \in S
        BY <1>11, <1>14, <1>15, <3>3, <3>5, <3>6
      <3> QED BY <3>1, <3>2, <3>7
    <2> QED BY <1>7, <2>1, <2>2 DEF Fetches
  <1>17. ASSUME NEW f \in EP \ {e} PROVE Mark(f)' = Mark(f)
    <2>1. ~(r.bufInpPart /\ r.bufInpEpIdx = f)
      BY <1>4
    <2>2. ~(r'.bufInpPart /\ r'.bufInpEpIdx = f)
      BY <1>1, <1>7, FetchRegs DEF Fetches
    <2>3. Taken(f)' = Taken(f)
      BY <1>2, <1>9 DEF Taken
    <2> QED BY <2>1, <2>2, <2>3 DEF Mark
  <1>18. ASSUME NEW f \in EP
         PROVE  \E Q \in SUBSET (1 .. Len(offered'[f]) + 1) :
                   Cut(offered'[f], Q) /\ Len(offered'[f]) + 1 \in Q /\ Mark(f)' \in Q
    <2>1. CASE f = e
      BY <1>2, <1>3, <1>11, <1>16, <2>1
    <2>2. CASE f # e
      BY <1>2, <1>17, <2>2 DEF SplitInv
    <2> QED BY <2>1, <2>2
  <1> QED BY <1>2, <1>6, <1>16, <1>18 DEF SplitInv

LEMMA SplitOffer ==
  ASSUME TypeOK, InpInv, SplitInv, NEW e \in EP, EpOffer(e)
  PROVE  SplitInv'
  <1>1. /\ r' = r /\ rcv' = rcv /\ todo[e] # <<>> /\ todo \in [EP -> Seq(Seq(Item))]
        /\ todo' = [todo EXCEPT ![e] = Tail(@)]
        /\ offered' = [offered EXCEPT ![e] = @ \o Head(todo[e])]
        /\ offered \in [EP -> Seq(Item)]
    BY DEF EpOffer, hostVars, TypeOK
  <1>2. \A f \in EP : Mark(f)' = Mark(f)
    BY <1>1, OfferStreams DEF Mark, InpInv
  <1>3. todo[e] \in Seq(Seq(Item)) /\ Len(todo[e]) \in Nat \ {0}
    BY <1>1
  <1>4. PICK t \in Seq(Item) : t = Head(todo[e]) /\ Splits(t)
    <2>1. Head(todo[e]) = todo[e][1] /\ 1 \in DOMAIN todo[e] /\ Head(todo[e]) \in Seq(Item)
      BY <1>1, <1>3
    <2> QED BY <2>1 DEF SplitInv
  <1>5. e \notin Unframed
    BY <1>1 DEF SplitInv
  <1>6. offered'[e] = offered[e] \o t
    BY <1>1, <1>4
  <1>7. \E U \in SUBSET (1 .. Len(offered'[e]) + 1) :
           Cut(offered'[e], U) /\ Len(offered'[e]) + 1 \in U /\ Mark(e) \in U
    <2>1. PICK S : Cut(offered[e], S) /\ Len(offered[e]) + 1 \in S /\ Mark(e) \in S
      BY DEF SplitInv
    <2>2. PICK T : Cut(t, T) /\ Len(t) + 1 \in T
      BY <1>4 DEF Splits
    <2>3. offered[e] \in Seq(Item)
      BY <1>1
    <2>4. PICK U \in SUBSET (1 .. Len(offered[e] \o t) + 1) :
             Cut(offered[e] \o t, U) /\ Len(offered[e] \o t) + 1 \in U /\ S \subseteq U
      BY <2>1, <2>2, <2>3, CutJoin
    <2> QED BY <1>6, <2>1, <2>4
  <1>8. \A i \in DOMAIN todo'[e] : Splits(todo'[e][i])
    <2> TAKE i \in DOMAIN todo'[e]
    <2>1. todo'[e] = Tail(todo[e])
      BY <1>1
    <2>2. i \in 1 .. Len(todo[e]) - 1 /\ todo'[e][i] = todo[e][i + 1]
      BY <1>3, <2>1
    <2>3. i + 1 \in DOMAIN todo[e]
      BY <1>3, <2>2
    <2> QED BY <2>2, <2>3 DEF SplitInv
  <1>9. \A f \in EP \ {e} : todo'[f] = todo[f] /\ offered'[f] = offered[f]
    BY <1>1
  <1>10. ASSUME NEW f \in EP
         PROVE  \E U \in SUBSET (1 .. Len(offered'[f]) + 1) :
                   Cut(offered'[f], U) /\ Len(offered'[f]) + 1 \in U /\ Mark(f)' \in U
    <2>1. CASE f = e
      BY <1>2, <1>7, <2>1
    <2>2. CASE f # e
      BY <1>2, <1>9, <2>2 DEF SplitInv
    <2> QED BY <2>1, <2>2
  <1>11. ASSUME NEW f \in EP
         PROVE  /\ (todo'[f] # <<>> \/ offered'[f] # <<>>) => f \notin Unframed
                /\ \A i \in DOMAIN todo'[f] : Splits(todo'[f][i])
    <2>1. CASE f = e
      BY <1>5, <1>8, <2>1
    <2>2. CASE f # e
      BY <1>9, <2>2 DEF SplitInv
    <2> QED BY <2>1, <2>2
  <1> QED BY <1>1, <1>10, <1>11 DEF SplitInv

LEMMA SplitStep ==
  ASSUME TypeOK, EngineInv, InpInv, SplitInv, [Next]_vars
  PROVE  SplitInv'
  <1>1. CASE Fetches
    BY <1>1, SplitFetch
  <1>2. CASE \E e \in EP : EpOffer(e)
    BY <1>2, SplitOffer
  <1>3. CASE ~Fetches /\ UNCHANGED <<src, todo, offered>>
    <2>1. KeptRegs
      BY <1>3, KeptStep
    <2>2. rcv' = rcv \/ ~r.bufInpPart
      <3>1. ASSUME HostData PROVE ~r.bufInpPart
        <4>1. OnWire
          BY <3>1 DEF HostData, OnWire
        <4>2. r.bufInpVld
          BY <4>1, SentStates DEF InpInv, AlignInv, OwnInv
        <4> QED BY <4>2 DEF EngineInv, BufferInv
      <3> QED BY <3>1, StreamsStep
    <2>3. \A e \in EP : Mark(e)' = Mark(e)
      BY <1>3, <2>1, <2>2 DEF KeptRegs, Mark, Taken
    <2> QED BY <1>3, <2>1, <2>3 DEF KeptRegs, SplitInv
  <1> QED BY <1>1, <1>2, <1>3, StreamsStep
-----------------------------------------------------------------------------
(* No endpoint offers anything.                                            *)
LEMMA NoInpInit ==
  ASSUME Init, NoInp(env)
  PROVE  NoInpInv
  BY DEF Init, PktInit, RInit, NoInp, NoInpInv, Phase, InpStates, BufBusy

\* The engine's registers when there is nothing to send.
IdleBuf == Phase' \notin InpStates /\ ~BufBusy'

LEMMA NoInpHdr ==
  ASSUME TypeOK, NoInpInv, NEW p \in RxHeader, p.pid # "IN", RxHdr(p)
  PROVE  IdleBuf
  <1>1. r \in RegType /\ Phase \notin InpStates /\ ~r.bufInpVld /\ ~r.bufInpPart
    BY DEF TypeOK, PktTypeOK, NoInpInv, BufBusy
  <1>2. CASE Idle(p)
    <2>1. IdlePing(p) \/ IdleOut(p) \/ r' = r
      BY <1>2 DEF Idle, IdleInpRefuse, IdleInpReplay, IdleInpZlp, IdleInpFresh, InpAccepted
    <2>2. /\ TokRegs(p) \in RegType
          /\ TokRegs(p).bufInpVld = r.bufInpVld /\ TokRegs(p).bufInpPart = r.bufInpPart
      BY <1>1, TokRegsType DEF TokRegs, RegType
    <2>3. CASE IdlePing(p)
      <3>1. PICK q : r' = RespondHsk(TokRegs(p), q)
        BY <2>3 DEF IdlePing
      <3>2. /\ r'.state = "WAIT_TX" /\ r'.nxtState = "HSK"
            /\ r'.bufInpVld = r.bufInpVld /\ r'.bufInpPart = r.bufInpPart
        BY <2>2, <3>1 DEF RespondHsk, RegType
      <3> QED BY <1>1, <3>2 DEF IdleBuf, Phase, BufBusy, InpStates
    <2>4. CASE IdleOut(p)
      <3>1. /\ r'.state = "DATA_PID"
            /\ r'.bufInpVld = r.bufInpVld /\ r'.bufInpPart = r.bufInpPart
        BY <2>2, <2>4 DEF IdleOut, RegType
      <3> QED BY <1>1, <3>1 DEF IdleBuf, Phase, BufBusy, InpStates
    <2>5. CASE r' = r
      BY <1>1, <2>5 DEF IdleBuf, Phase, BufBusy
    <2> QED BY <2>1, <2>3, <2>4, <2>5
  <1>3. CASE DataPid(p)
    <2>1. /\ r'.state \in {"DRAIN", "DATA_OUT", "IDLE"}
          /\ r'.bufInpVld = r.bufInpVld /\ r'.bufInpPart = r.bufInpPart
      BY <1>1, <1>3 DEF DataPid, DataPidDrain, DataPidStore, DataPidOther, RegType
    <2> QED BY <1>1, <2>1 DEF IdleBuf, Phase, BufBusy, InpStates
  <1>4. ~WaitAck(p)
    BY <1>1 DEF WaitAck, Phase, InpStates
  <1> QED BY <1>2, <1>3, <1>4 DEF RxHdr

LEMMA NoInpEngine ==
  ASSUME TypeOK, NoInpInv, EngineStep \/ PhyAbort \/ EngineTimeout
  PROVE  IdleBuf /\ UNCHANGED <<env, todo, offered, rcv, src, h>>
  <1>1. r \in RegType /\ Phase \notin InpStates /\ ~r.bufInpVld /\ ~r.bufInpPart
    BY DEF TypeOK, PktTypeOK, NoInpInv, BufBusy
  <1>2. (WaitTx \/ Hsk \/ Reader \/ DataPidTimeout) /\ UNCHANGED busVars
    BY <1>1 DEF EngineStep, PhyAbort, EngineTimeout, DataInpByte, DataInpDry, DataInpDon,
                DataRepByte, WaitDonTx, WaitDonNext, WaitFs, IdleRetryTimeout, DataInpAbort,
                DataRepAbort, WaitDonAbort, WaitAckTimeout, Phase, InpStates, BufBusy
  <1>3. UNCHANGED <<env, todo, offered, rcv, src, h>>
    BY <1>2 DEF busVars, WaitTx, Hsk, Reader, DataPidTimeout, epVars
  <1>4. CASE WaitTx
    <2>1. /\ Phase' = Phase /\ r'.bufInpVld = r.bufInpVld /\ r'.bufInpPart = r.bufInpPart
      BY <1>1, <1>4 DEF WaitTx, Phase, RegType
    <2> QED BY <1>1, <1>3, <2>1 DEF IdleBuf, BufBusy
  <1>5. CASE Hsk \/ DataPidTimeout
    <2>1. /\ r'.state = "IDLE" /\ r'.bufInpVld = r.bufInpVld /\ r'.bufInpPart = r.bufInpPart
      BY <1>1, <1>5 DEF Hsk, DataPidTimeout, RegType
    <2> QED BY <1>1, <1>3, <2>1 DEF IdleBuf, BufBusy, Phase, InpStates
  <1>6. CASE Reader
    BY <1>1, <1>3, <1>6 DEF Reader, IdleBuf, BufBusy, Phase
  <1> QED BY <1>2, <1>4, <1>5, <1>6

LEMMA NoInpStep ==
  ASSUME TypeOK, NoInpInv, [Next]_vars
  PROVE  NoInpInv'
  <1>1. /\ r \in RegType /\ Phase \notin InpStates /\ ~BufBusy /\ ~r.bufInpVld /\ ~r.bufInpPart
        /\ h.st \notin {"inp", "ack"} /\ \A e \in EP : env.inp[e] = <<>> /\ todo[e] = <<>>
        /\ h \in [st : HostStates, ep : EP] /\ tokDat \in EP \union {NoPkt}
    BY DEF TypeOK, PktTypeOK, NoInpInv, BufBusy, NoInp
  <1>2. \A k : Lose(k) \/ UNCHANGED faultVars => env'.inp = env.inp
    BY DEF Lose, faultVars, TypeOK, Scenario
  <1>3. SUFFICES /\ env'.inp = env.inp /\ UNCHANGED <<todo, offered, rcv, src>>
                 /\ IdleBuf /\ h'.st \notin {"inp", "ack"}
    BY DEF NoInpInv, NoInp, IdleBuf
  <1>4. ASSUME r' = r
        PROVE  IdleBuf
    BY <1>1, <1>4 DEF IdleBuf, Phase, BufBusy
  <1>5. CASE EngineStep \/ PhyAbort \/ EngineTimeout
    BY <1>1, <1>5, NoInpEngine
  <1>6. ASSUME NEW e \in EP, HostPing(e) \/ HostOut(e)
        PROVE  /\ env'.inp = env.inp /\ UNCHANGED <<todo, offered, rcv, src>>
               /\ IdleBuf /\ h'.st \notin {"inp", "ack"}
    <2>1. UNCHANGED <<todo, offered, rcv>> /\ h'.st \notin {"inp", "ack"}
      BY <1>6 DEF HostPing, HostOut
    <2>2. PICK q \in {"PING", "OUT", "SETUP"} : SendTok(q, e)
      <3>1. HostOut(e) => OutPkt(e) \in Packet
        BY OutPktType DEF HostOut
      <3> QED BY <1>6, <3>1 DEF HostPing, HostOut, Packet
    <2>3. Hdr(q, e) \in RxHeader /\ Hdr(q, e).pid = q
      <3>1. q \in Pids
        BY DEF Pids, TokPids
      <3> QED BY <3>1, HdrType DEF Hdr
    <2>4. CASE RxHdr(Hdr(q, e)) /\ UNCHANGED faultVars
      BY <1>2, <2>1, <2>3, <2>4, NoInpHdr DEF RxHdr, epVars
    <2>5. CASE Lose("tok") /\ UNCHANGED pktVars
      BY <1>2, <1>4, <2>1, <2>5 DEF pktVars
    <2> QED BY <2>2, <2>4, <2>5 DEF SendTok
  <1>7. CASE HostOutPid
    <2>1. UNCHANGED <<todo, offered, rcv>> /\ h'.st \notin {"inp", "ack"}
      BY <1>1, <1>7 DEF HostOutPid
    <2>2. OutPid(h.ep) \in DatPids
      BY <1>1, PidTypes DEF OutPid, TypeOK, DatPids
    <2>3. /\ Hdr(OutPid(h.ep), tokDat) \in RxHeader
          /\ Hdr(OutPid(h.ep), tokDat).pid # "IN"
      BY <1>1, <2>2, PidTypes, HdrType DEF Hdr, DatPids
    <2>4. CASE RxHdr(Hdr(OutPid(h.ep), tokDat)) /\ UNCHANGED faultVars
      BY <1>2, <2>1, <2>3, <2>4, NoInpHdr DEF RxHdr, epVars
    <2>5. CASE Lose("pid") /\ UNCHANGED pktVars
      BY <1>2, <1>4, <2>1, <2>5 DEF pktVars
    <2> QED BY <1>7, <2>4, <2>5 DEF HostOutPid
  <1>8. CASE HostSof
    <2>1. "SOF" \in Pids
      BY DEF Pids, TokPids
    <2>2. Hdr("SOF", tokDat) \in RxHeader /\ Hdr("SOF", tokDat).pid # "IN"
      BY <1>1, <2>1, HdrType DEF Hdr
    <2>3. /\ UNCHANGED <<env, todo, offered, rcv, src, h>> /\ RxHdr(Hdr("SOF", tokDat))
      BY <1>8 DEF HostSof, hostVars, faultVars, RxHdr, epVars
    <2> QED BY <1>1, <2>2, <2>3, NoInpHdr
  <1>9. CASE HostOutPayload
    <2>1. UNCHANGED <<todo, offered, rcv>> /\ h'.st \notin {"inp", "ack"}
      BY <1>1, <1>9 DEF HostOutPayload
    <2>2. ASSUME NEW s, NEW err \in BOOLEAN, RxData(s, err)
          PROVE  IdleBuf /\ src' = src
      <3>1. /\ r'.state = "IDLE" \/ (r'.state = "WAIT_TX" /\ r'.nxtState = "HSK")
            /\ r'.bufInpVld = r.bufInpVld /\ r'.bufInpPart = r.bufInpPart
        BY <1>1, <2>2 DEF RxData, RegType
      <3> QED BY <1>1, <2>2, <3>1 DEF IdleBuf, Phase, BufBusy, InpStates, RxData, epVars
    <2> QED BY <1>2, <1>4, <1>9, <2>1, <2>2 DEF HostOutPayload, pktVars, faultVars
  <1>10. ASSUME NEW dir \in {"inp", "out"}, NEW e \in EP, Halt(dir, e)
         PROVE  /\ env'.inp = env.inp /\ UNCHANGED <<todo, offered, rcv, src, h>> /\ IdleBuf
    <2>1. env'.inp = env.inp /\ UNCHANGED <<todo, offered, rcv, h, src>>
      BY <1>10 DEF Halt, TypeOK, Scenario, SetHalt, ClearHalt
    <2>2. CASE SetHalt(dir, e)
      BY <1>4, <2>1, <2>2 DEF SetHalt
    <2>3. CASE ClearHalt(dir, e)
      <3>1. /\ r'.state = r.state /\ r'.nxtState = r.nxtState
            /\ r'.bufInpPart = r.bufInpPart /\ r'.bufInpVld = r.bufInpVld
        BY <1>1, <2>3 DEF ClearHalt, RegType
      <3> QED BY <1>1, <2>1, <3>1 DEF IdleBuf, Phase, BufBusy
    <2> QED BY <1>10, <2>2, <2>3 DEF Halt
  <1>11. CASE \E e \in EP : EpOffer(e) \/ EpReady(e) \/ HostIn(e)
    <2>1. \E e \in EP : EpReady(e)
      BY <1>1, <1>11 DEF EpOffer, HostIn
    <2> QED BY <1>1, <1>4, <2>1 DEF EpReady, busVars
  <1>12. ~HostData /\ ~HostAck /\ ~HostInRefused
    BY <1>1 DEF HostData, HostAck, HostInRefused
  <1>13. CASE HostHsk \/ HostSilence \/ UNCHANGED vars
    <2>1. UNCHANGED <<todo, offered, rcv, src, r>> /\ h'.st \notin {"inp", "ack"}
      BY <1>1, <1>13 DEF HostHsk, HostSilence, vars, pktVars, epVars, busVars
    <2>2. env'.inp = env.inp
      BY <1>2, <1>13 DEF HostHsk, HostSilence, vars, busVars, faultVars
    <2> QED BY <1>4, <2>1, <2>2
  <1> QED BY <1>1, <1>5, <1>6, <1>7, <1>8, <1>9, <1>10, <1>11, <1>12, <1>13 DEF Next
-----------------------------------------------------------------------------
(* The invariant of every scenario whose faults the engine masks.          *)
LEMMA InpInit ==
  ASSUME Init, Maskable(env)
  PROVE  InpInv
  <1>1. /\ r = RInit /\ src = [e \in EP |-> <<>>] /\ offered = [e \in EP |-> <<>>]
        /\ rcv = [e \in EP |-> <<>>] /\ wire = NoPkt /\ h.st = "idle" /\ halted.inp = {}
        /\ hTglInp = [e \in EP |-> 0]
    BY DEF Init, PktInit
  <1>2. Phase = "IDLE" /\ ~Sending /\ ~Sent /\ ~OnWire /\ ~BufBusy
    BY <1>1 DEF Phase, Sending, Sent, OnWire, BufBusy, RInit
  <1>3. EnvInv
    BY <1>1 DEF EnvInv, Maskable
  <1>4. AlignInv
    BY <1>1, <1>2 DEF AlignInv
  <1>5. OwnInv
    BY <1>1, <1>2 DEF OwnInv, InpStates, RInit
  <1>6. \A e \in EP : /\ Len(src[e]) = 0 /\ Len(offered[e]) = 0 /\ Len(rcv[e]) = 0
                      /\ Taken(e) = 0 /\ Lacks(e) = 0 /\ ~Behind(e)
    <2>1. TAKE e \in EP
    <2>2. src[e] = <<>> /\ offered[e] = <<>> /\ rcv[e] = <<>>
      BY <1>1
    <2>3. Len(src[e]) = 0 /\ Len(offered[e]) = 0 /\ Len(rcv[e]) = 0
      BY <2>2
    <2>4. hTglInp[e] = 0 /\ r.dataTglInp[e] = 0
      BY <1>1 DEF RInit
    <2> QED BY <2>3, <2>4 DEF Taken, Lacks, Behind
  <1>7. StreamInv /\ TglInv
    BY <1>6 DEF StreamInv, TglInv
  <1>8. DataInv
    BY <1>2 DEF DataInv
  <1> QED BY <1>3, <1>4, <1>5, <1>7, <1>8 DEF InpInv

LEMMA MaskedInit ==
  ASSUME Init, InpMasked(env)
  PROVE  MaskedInv
  BY NoInpInit, InpInit, SoleInit, SplitInit DEF InpMasked, MaskedInv

LEMMA MaskedStep ==
  ASSUME TypeOK, EngineInv, MaskedInv, [Next]_vars
  PROVE  MaskedInv'
  <1>1. CASE NoInpInv
    BY <1>1, NoInpStep DEF MaskedInv
  <1>2. ASSUME InpInv, NEW e \in EP, SoleInv(e) PROVE MaskedInv'
    BY <1>2, SoleOwned, InpStep, SoleStep DEF MaskedInv
  <1>3. CASE InpInv /\ SplitInv
    BY <1>3, SplitOwned, InpStep, SplitStep DEF MaskedInv
  <1> QED BY <1>1, <1>2, <1>3 DEF MaskedInv

LEMMA MaskedSafe ==
  ASSUME \A s \in Scenarios : InpMasked(s)
  PROVE  Spec => []MaskedInv
  <1>1. Init => MaskedInv
    BY MaskedInit DEF Init
  <1>2. TypeOK /\ EngineInv /\ MaskedInv /\ [Next]_vars => MaskedInv'
    BY MaskedStep
  <1> QED BY <1>1, <1>2, TypeCorrect, EngineSafe, PTL DEF Spec
-----------------------------------------------------------------------------
(* What follows for the host and for the buffer.                           *)
LEMMA PrefixItems ==
  ASSUME NEW s \in Seq(Item), NEW t \in Seq(Item), Len(s) <= Len(t),
         \A i \in 1 .. Len(s) : s[i] = t[i]
  PROVE  IsPrefix(s, t)
  BY DEF IsPrefix

\* Usb2PktProc with its retry buffer and data toggles: the host gets what an
\* endpoint offered, in order, nothing twice and nothing missing, whatever
\* packets are lost, as long as the scenario's faults are of a masked kind.
THEOREM InpFaithfulHolds ==
  ASSUME \A s \in Scenarios : InpMasked(s)
  PROVE  Spec => []InpFaithful
  <1>1. TypeOK /\ NoInpInv => InpFaithful
    <2> SUFFICES ASSUME TypeOK, NoInpInv, NEW e \in EP
                 PROVE  IsPrefix(rcv[e], offered[e])
      BY DEF InpFaithful
    <2>1. rcv[e] \in Seq(Item) /\ offered[e] \in Seq(Item)
      BY DEF TypeOK
    <2>2. Len(rcv[e]) = 0 /\ Len(offered[e]) = 0
      BY DEF NoInpInv
    <2>3. Len(rcv[e]) <= Len(offered[e]) /\ \A i \in 1 .. Len(rcv[e]) : rcv[e][i] = offered[e][i]
      BY <2>2
    <2> QED BY <2>1, <2>3, PrefixItems
  <1>2. TypeOK /\ InpInv => InpFaithful
    <2> SUFFICES ASSUME TypeOK, InpInv, NEW e \in EP
                 PROVE  IsPrefix(rcv[e], offered[e])
      BY DEF InpFaithful
    <2>1. rcv[e] \in Seq(Item) /\ offered[e] \in Seq(Item) /\ src[e] \in Seq(Item)
      BY DEF TypeOK, PktTypeOK
    <2>2. /\ Len(rcv[e]) <= Len(offered[e]) - Len(src[e])
          /\ \A i \in 1 .. Len(rcv[e]) : rcv[e][i] = offered[e][i]
      BY DEF InpInv, StreamInv, Taken
    <2>3. PICK a \in Nat, b \in Nat, c \in Nat :
             a = Len(offered[e]) /\ b = Len(src[e]) /\ c = Len(rcv[e])
      <3>1. Len(offered[e]) \in Nat /\ Len(src[e]) \in Nat /\ Len(rcv[e]) \in Nat
        BY <2>1
      <3> QED BY <3>1
    <2>4. Len(rcv[e]) <= Len(offered[e])
      <3>1. c <= a - b
        BY <2>2, <2>3
      <3>2. c <= a
        BY <3>1
      <3> QED BY <2>3, <3>2
    <2> QED BY <2>1, <2>2, <2>4, PrefixItems
  <1>3. TypeOK /\ MaskedInv => InpFaithful
    BY <1>1, <1>2 DEF MaskedInv
  <1> QED BY <1>3, TypeCorrect, MaskedSafe, PTL

\* Usb2PktProc.vhd, WAIT_ACK: the packet in the buffer is given up only when
\* the host has it, which its data toggle shows.
THEOREM ReleaseAfterReceiptHolds ==
  ASSUME \A s \in Scenarios : InpMasked(s)
  PROVE  Spec => ReleaseAfterReceipt
  <1>1. ASSUME TypeOK, EngineInv, MaskedInv, [Next]_vars, BufBusy, ~BufBusy'
        PROVE  r.state = "WAIT_ACK" /\ hTglInp[r.epIdx] # r.dataTglInp[r.epIdx]
    <2>1. InpInv
      BY <1>1 DEF MaskedInv, NoInpInv
    <2>2. ~Fetches
      BY <1>1, FetchRegs
    <2> QED BY <1>1, <2>1, <2>2, KeptStep DEF KeptRegs, Behind
  <1>2. TypeOK /\ EngineInv /\ MaskedInv /\ [Next]_vars =>
          [(BufBusy /\ ~BufBusy') => /\ r.state = "WAIT_ACK"
                                      /\ hTglInp[r.epIdx] # r.dataTglInp[r.epIdx]]_vars
    BY <1>1
  <1> QED BY <1>2, TypeCorrect, EngineSafe, MaskedSafe, PTL DEF Spec, ReleaseAfterReceipt

\* The single packet buffer of Usb2PktProc: as long as it keeps an IN packet
\* for a repetition, no OUT packet is released through it and no other
\* endpoint's data enter it.
THEOREM BufferExclusiveHolds ==
  ASSUME \A s \in Scenarios : InpMasked(s)
  PROVE  Spec => BufferExclusive
  <1>1. ASSUME TypeOK, EngineInv, MaskedInv, [Next]_vars, BufBusy
        PROVE  r'.bufVldIdx = r.bufVldIdx /\ r'.bufInpEpIdx = r.bufInpEpIdx
    <2>1. InpInv
      BY <1>1 DEF MaskedInv, NoInpInv
    <2>2. CASE Fetches
      <3>1. r.state = "DATA_INP" => r.bufInpEpIdx = r.epIdx
        BY <1>1, <2>1 DEF InpInv, OwnInv, Phase, InpStates
      <3> QED BY <1>1, <2>2, <3>1, FetchRegs DEF Fetches
    <2>3. CASE ~Fetches
      BY <1>1, <2>1, <2>3, KeptStep DEF KeptRegs
    <2> QED BY <2>2, <2>3
  <1>2. TypeOK /\ EngineInv /\ MaskedInv /\ [Next]_vars =>
          [BufBusy => /\ r'.bufVldIdx = r.bufVldIdx
                      /\ r'.bufInpEpIdx = r.bufInpEpIdx]_vars
    BY <1>1
  <1> QED BY <1>2, TypeCorrect, EngineSafe, MaskedSafe, PTL DEF Spec, BufferExclusive
-----------------------------------------------------------------------------
(* The pipe.                                                               *)
LEMMA PartItems ==
  ASSUME NEW s \in Seq(Item), NEW x \in Nat, NEW y \in Nat, x <= y, y <= Len(s)
  PROVE  /\ SubSeq(s, x + 1, y) \in Seq(Item) /\ Len(SubSeq(s, x + 1, y)) = y - x
         /\ \A i \in 1 .. y - x : SubSeq(s, x + 1, y)[i] = s[x + i]
  <1>1. PICK n \in Nat, m \in Nat : n = y - x /\ m = x + 1
    OBVIOUS
  <1>2. n = 1 + y - m /\ \A i \in 1 .. n : i + m - 1 = x + i /\ x + i \in 1 .. Len(s)
    BY <1>1
  <1>3. SubSeq(s, m, y) = [i \in 1 .. n |-> s[i + m - 1]]
    BY <1>2
  <1>4. SubSeq(s, m, y) = [i \in 1 .. n |-> s[x + i]]
    BY <1>2, <1>3
  <1>5. \A i \in 1 .. n : s[x + i] \in Item
    BY <1>2
  <1>6. [i \in 1 .. n |-> s[x + i]] \in [1 .. n -> Item]
    BY <1>5
  <1>7. SubSeq(s, m, y) \in Seq(Item) /\ Len(SubSeq(s, m, y)) = n
        /\ \A i \in 1 .. n : SubSeq(s, m, y)[i] = s[x + i]
    <2>1. PICK g \in [1 .. n -> Item] : g = [i \in 1 .. n |-> s[x + i]]
      BY <1>6
    <2>2. g \in Seq(Item) /\ Len(g) = n
      OBVIOUS
    <2>3. \A i \in 1 .. n : g[i] = s[x + i]
      BY <2>1
    <2> QED BY <1>4, <2>1, <2>2, <2>3
  <1> QED BY <1>1, <1>7

\* What an endpoint gave away and the host has not got.
LEMMA FlightItems ==
  ASSUME TypeOK, StreamInv, NEW e \in EP
  PROVE  /\ Flight(e) \in Seq(Item) /\ Len(Flight(e)) = Lacks(e) /\ Lacks(e) \in Nat
         /\ \A i \in 1 .. Lacks(e) : Flight(e)[i] = Next1(e, i)
  <1>1. offered[e] \in Seq(Item) /\ src[e] \in Seq(Item) /\ rcv[e] \in Seq(Item)
    BY DEF TypeOK, PktTypeOK
  <1>2. PICK a \in Nat, b \in Nat, c \in Nat :
           a = Len(offered[e]) /\ b = Len(src[e]) /\ c = Len(rcv[e])
    <2>1. Len(offered[e]) \in Nat /\ Len(src[e]) \in Nat /\ Len(rcv[e]) \in Nat
      BY <1>1
    <2> QED BY <2>1
  <1>3. b <= a /\ c <= a - b /\ Lacks(e) = (a - b) - c /\ Flight(e) = SubSeq(offered[e], c + 1, a - b)
    BY <1>2 DEF StreamInv, Taken, Lacks, Flight
  <1>4. PICK n \in Nat, y \in Nat : y = a - b /\ n = y - c
    BY <1>3
  <1>5. y <= Len(offered[e]) /\ c <= y
    <2>1. y <= a /\ c <= y
      BY <1>3, <1>4
    <2> QED BY <1>2, <2>1
  <1>6. /\ SubSeq(offered[e], c + 1, y) \in Seq(Item) /\ Len(SubSeq(offered[e], c + 1, y)) = n
        /\ \A i \in 1 .. n : SubSeq(offered[e], c + 1, y)[i] = offered[e][c + i]
    <2>1. PICK o \in Seq(Item) : o = offered[e]
      BY <1>1
    <2>2. c <= y /\ y <= Len(o)
      BY <1>5, <2>1
    <2>3. /\ SubSeq(o, c + 1, y) \in Seq(Item) /\ Len(SubSeq(o, c + 1, y)) = y - c
          /\ \A i \in 1 .. y - c : SubSeq(o, c + 1, y)[i] = o[c + i]
      BY <2>2, PartItems
    <2> QED BY <1>4, <2>1, <2>3
  <1> QED BY <1>2, <1>3, <1>4, <1>6 DEF Next1

\* Sequences are what their items make them.
LEMMA SameItems ==
  ASSUME NEW s \in Seq(Item), NEW t \in Seq(Item), Len(s) = Len(t),
         \A i \in 1 .. Len(s) : s[i] = t[i]
  PROVE  s = t
  OBVIOUS

LEMMA EmptyItems ==
  ASSUME NEW s \in Seq(Item), Len(s) = 0
  PROVE  s = <<>>
  OBVIOUS

LEMMA JoinLength ==
  \A s, t \in Seq(Item) : Len(s \o t) = Len(s) + Len(t)
  OBVIOUS

\* The packet arrives; a packet without items only shows its toggle.
LEMMA ArrivePipe ==
  ASSUME TypeOK, InpInv, HostData
  PROVE  UNCHANGED Pipe!pipeVars \/ \E e \in EP : Pipe!Arrive(e)
  <1>1. PICK e \in EP : e = r.epIdx
    BY DEF TypeOK, PktTypeOK, RegType
  <1>2. OnWire /\ h.ep = e /\ wire.pid = DatPid(r.dataTglInp[e]) /\ UNCHANGED <<src, offered>>
    BY <1>1 DEF HostData, OnWire, InpInv, AlignInv, epVars
  <1>3. CASE rcv' = rcv
    BY <1>2, <1>3 DEF Pipe!pipeVars, Flight
  <1>4. CASE /\ wire.pid = DatPid(hTglInp[h.ep])
             /\ rcv' = [rcv EXCEPT ![h.ep] = @ \o Received(h.ep, wire.dat)]
    <2>1. ~Behind(e)
      <3>1. hTglInp[e] \in {0, 1} /\ r.dataTglInp[e] \in {0, 1}
        BY DEF TypeOK, PktTypeOK, RegType
      <3> QED BY <1>2, <1>4, <3>1 DEF Behind, DatPid
    <2>2. /\ Received(e, wire.dat) \in Seq(Item) /\ Len(Received(e, wire.dat)) = Lacks(e)
          /\ \A i \in 1 .. Lacks(e) : Received(e, wire.dat)[i] = Next1(e, i)
          /\ Lacks(e) = MaxPkt \/ e \in Unframed \/ (Lacks(e) > 0 /\ Next1(e, Lacks(e)) = DON)
      BY <1>1, <1>2, <2>1, HostGets
    <2>3. /\ Flight(e) \in Seq(Item) /\ Len(Flight(e)) = Lacks(e) /\ Lacks(e) \in Nat
          /\ \A i \in 1 .. Lacks(e) : Flight(e)[i] = Next1(e, i)
      BY FlightItems DEF InpInv
    <2>4. Received(e, wire.dat) = Flight(e)
      BY <2>2, <2>3, SameItems
    <2>5. /\ rcv' = [rcv EXCEPT ![e] = @ \o Flight(e)] /\ rcv \in [EP -> Seq(Item)]
          /\ rcv[e] \in Seq(Item) /\ offered[e] \in Seq(Item) /\ src[e] \in Seq(Item)
      BY <1>2, <1>4, <2>4 DEF TypeOK, PktTypeOK
    <2>6. CASE Lacks(e) = 0
      <3>1. Flight(e) = <<>>
        BY <2>3, <2>6, EmptyItems
      <3>2. rcv[e] \o <<>> = rcv[e]
        BY <2>5
      <3>3. rcv' = rcv
        BY <2>5, <3>1, <3>2
      <3> QED BY <1>3, <3>3
    <2>7. CASE Lacks(e) # 0
      <3>1. Flight(e) # <<>>
        <4>1. Len(<<>>) = 0
          OBVIOUS
        <4> QED BY <2>3, <2>7, <4>1
      <3>2. Pipe!Full(Flight(e)) \/ e \in Unframed
        BY <2>2, <2>3, <2>7, <3>1 DEF Pipe!Full, Pipe!EndsFrame
      <3>3. \A f \in EP \ {e} : Flight(f)' = Flight(f)
        BY <1>2, <2>5 DEF Flight
      <3>4. Flight(e)' = <<>>
        <4>1. PICK a \in Nat, b \in Nat, c \in Nat :
                 a = Len(offered[e]) /\ b = Len(src[e]) /\ c = Len(rcv[e])
          <5>1. Len(offered[e]) \in Nat /\ Len(src[e]) \in Nat /\ Len(rcv[e]) \in Nat
            BY <2>5
          <5> QED BY <5>1
        <4>2. Lacks(e) = (a - b) - c /\ b <= a
          BY <4>1 DEF Lacks, Taken, InpInv, StreamInv
        <4>3. Len(rcv'[e]) = c + Lacks(e)
          <5>1. rcv'[e] = rcv[e] \o Flight(e)
            BY <2>5
          <5>2. Len(rcv[e] \o Flight(e)) = Len(rcv[e]) + Len(Flight(e))
            BY <2>3, <2>5, JoinLength
          <5> QED BY <2>3, <4>1, <5>1, <5>2
        <4>4. PICK y \in Nat : y = a - b
          BY <4>2
        <4>5. Len(rcv'[e]) = y
          BY <2>3, <4>2, <4>3, <4>4
        <4>6. Flight(e)' = SubSeq(offered[e], y + 1, y)
          BY <1>2, <4>1, <4>4, <4>5 DEF Flight
        <4>7. y <= Len(offered[e])
          <5>1. y <= a
            BY <4>4
          <5> QED BY <4>1, <5>1
        <4>8. SubSeq(offered[e], y + 1, y) \in Seq(Item) /\ Len(SubSeq(offered[e], y + 1, y)) = y - y
          <5>1. PICK o \in Seq(Item) : o = offered[e]
            BY <2>5
          <5>2. y <= y /\ y <= Len(o)
            BY <4>7, <5>1
          <5>3. SubSeq(o, y + 1, y) \in Seq(Item) /\ Len(SubSeq(o, y + 1, y)) = y - y
            BY <5>2, PartItems
          <5> QED BY <5>1, <5>3
        <4> QED BY <4>6, <4>8, EmptyItems
      <3>5. [f \in EP |-> Flight(f)]' = [[f \in EP |-> Flight(f)] EXCEPT ![e] = <<>>]
        BY <3>3, <3>4
      <3>6. rcv' = [rcv EXCEPT ![e] = @ \o [f \in EP |-> Flight(f)][e]]
        BY <2>5
      <3>7. [f \in EP |-> Flight(f)][e] = Flight(e)
        OBVIOUS
      <3>8. Pipe!Arrive(e)
        BY <1>2, <3>1, <3>2, <3>5, <3>6, <3>7 DEF Pipe!Arrive
      <3> QED BY <3>8
    <2> QED BY <2>6, <2>7
  <1> QED BY <1>3, <1>4 DEF HostData
\* The endpoint gives a byte or the marker away, into the packet in flight.
LEMMA TakePipe ==
  ASSUME TypeOK, EngineInv, InpInv, Fetches
  PROVE  UNCHANGED Pipe!pipeVars \/ \E e \in EP : Pipe!Take(e)
  <1>1. PICK e \in EP : e = r.epIdx
    BY FetchRegs
  <1>2. Phase = "DATA_INP" /\ UNCHANGED <<offered, rcv>> /\ ~r.bufInpVld
    BY FetchRegs DEF Phase, EngineInv, BufferInv
  <1>3. CASE src' = src
    BY <1>2, <1>3 DEF Pipe!pipeVars, Flight
  <1>4. CASE /\ src[e] # <<>>
             /\ src' = [src EXCEPT ![e] = Tail(@)]
    <2>1. \A f \in EP : /\ Flight(f) \in Seq(Item) /\ Len(Flight(f)) = Lacks(f) /\ Lacks(f) \in Nat
                        /\ \A i \in 1 .. Lacks(f) : Flight(f)[i] = Next1(f, i)
      BY FlightItems DEF InpInv
    <2>2. \A f \in EP \ {e} : Flight(f) = <<>>
      <3>1. TAKE f \in EP \ {e}
      <3>2. ~(Lacks(f) > 0)
        BY <1>1, <1>2 DEF InpInv, TglInv, OwnInv, InpStates
      <3>3. Lacks(f) = 0
        BY <2>1, <3>2
      <3> QED BY <2>1, <3>3, EmptyItems
    <2>3. ~Pipe!Full(Flight(e))
      <3>1. ~Behind(e)
        BY <1>2 DEF InpInv, TglInv
      <3>2. PICK k \in 0 .. MaxPkt : Shape(e, k)
        BY <1>1, <1>2, <3>1 DEF InpInv, DataInv, Owner, InpStates
      <3>3. Lacks(e) = k /\ k < MaxPkt /\ \A i \in 1 .. k : Next1(e, i) # DON
        BY <1>2, <3>2 DEF Shape
      <3>4. Len(Flight(e)) = k /\ \A i \in 1 .. k : Flight(e)[i] # DON
        BY <2>1, <3>3
      <3>5. Flight(e) # <<>> => k \in 1 .. k
        BY <2>1, <3>4, EmptyItems
      <3> QED BY <3>3, <3>4, <3>5 DEF Pipe!Full, Pipe!EndsFrame
    <2>4. \A f \in EP \ {e} : Flight(f)' = Flight(f)
      BY <1>2, <1>4 DEF Flight, TypeOK, PktTypeOK
    <2>5. Flight(e)' = Append(Flight(e), Head(src[e]))
      <3>1. offered[e] \in Seq(Item) /\ src[e] \in Seq(Item) /\ rcv[e] \in Seq(Item)
            /\ src \in [EP -> Seq(Item)]
        BY DEF TypeOK, PktTypeOK
      <3>2. PICK a \in Nat, b \in Nat, c \in Nat :
               a = Len(offered[e]) /\ b = Len(src[e]) /\ c = Len(rcv[e])
        <4>1. Len(offered[e]) \in Nat /\ Len(src[e]) \in Nat /\ Len(rcv[e]) \in Nat
          BY <3>1
        <4> QED BY <4>1
      <3>3. /\ b <= a /\ c <= a - b /\ Lacks(e) = (a - b) - c /\ Taken(e) = a - b
            /\ \A i \in 1 .. b : src[e][i] = offered[e][(a - b) + i]
        BY <3>2 DEF InpInv, StreamInv, Taken, Lacks
      <3>4. b > 0 /\ Head(src[e]) = src[e][1] /\ Len(src'[e]) = b - 1 /\ Head(src[e]) \in Item
        <4>1. Len(src[e]) > 0 /\ Head(src[e]) = src[e][1] /\ Head(src[e]) \in Item
              /\ Len(Tail(src[e])) = Len(src[e]) - 1
          BY <1>4, <3>1
        <4>2. src'[e] = Tail(src[e])
          BY <1>4, <3>1
        <4> QED BY <3>2, <4>1, <4>2
      <3>5. PICK y \in Nat, n \in Nat : y = (a - b) + 1 /\ n = (a - b) - c
        BY <3>3
      <3>6. c <= y /\ y <= a /\ a - (b - 1) = y /\ y - c = n + 1
        BY <3>3, <3>4, <3>5
      <3>7. Flight(e)' = SubSeq(offered[e], c + 1, y)
        BY <1>2, <3>2, <3>4, <3>6 DEF Flight
      <3>8. /\ SubSeq(offered[e], c + 1, y) \in Seq(Item)
            /\ Len(SubSeq(offered[e], c + 1, y)) = n + 1
            /\ \A i \in 1 .. n + 1 : SubSeq(offered[e], c + 1, y)[i] = offered[e][c + i]
        <4>1. PICK o \in Seq(Item) : o = offered[e]
          BY <3>1
        <4>2. c <= y /\ y <= Len(o)
          BY <3>2, <3>6, <4>1
        <4>3. /\ SubSeq(o, c + 1, y) \in Seq(Item) /\ Len(SubSeq(o, c + 1, y)) = y - c
              /\ \A i \in 1 .. y - c : SubSeq(o, c + 1, y)[i] = o[c + i]
          BY <4>2, PartItems
        <4> QED BY <3>6, <4>1, <4>3
      <3>9. offered[e][c + (n + 1)] = Head(src[e])
        <4>1. c + (n + 1) = (a - b) + 1 /\ 1 \in 1 .. b
          BY <3>4, <3>5
        <4> QED BY <3>3, <3>4, <4>1
      <3>10. /\ Flight(e) \in Seq(Item) /\ Len(Flight(e)) = n
             /\ \A i \in 1 .. n : Flight(e)[i] = offered[e][c + i]
        BY <2>1, <3>2, <3>3, <3>5 DEF Next1
      <3>11. \A s \in Seq(Item), x \in Item :
                /\ Append(s, x) \in Seq(Item) /\ Len(Append(s, x)) = Len(s) + 1
                /\ \A i \in 1 .. Len(s) : Append(s, x)[i] = s[i]
                /\ Append(s, x)[Len(s) + 1] = x
        OBVIOUS
      <3>12. /\ Append(Flight(e), Head(src[e])) \in Seq(Item)
             /\ Len(Append(Flight(e), Head(src[e]))) = n + 1
             /\ \A i \in 1 .. n + 1 : Append(Flight(e), Head(src[e]))[i] = offered[e][c + i]
        <4>1. /\ Append(Flight(e), Head(src[e])) \in Seq(Item)
              /\ Len(Append(Flight(e), Head(src[e]))) = n + 1
              /\ \A i \in 1 .. n : Append(Flight(e), Head(src[e]))[i] = Flight(e)[i]
              /\ Append(Flight(e), Head(src[e]))[n + 1] = Head(src[e])
          BY <3>4, <3>10, <3>11
        <4>2. \A i \in 1 .. n + 1 : i \in 1 .. n \/ i = n + 1
          OBVIOUS
        <4> QED BY <3>9, <3>10, <4>1, <4>2
      <3>13. SubSeq(offered[e], c + 1, y) = Append(Flight(e), Head(src[e]))
        BY <3>8, <3>12, SameItems
      <3> QED BY <3>7, <3>13
    <2>6. [f \in EP |-> Flight(f)]' =
            [[f \in EP |-> Flight(f)] EXCEPT ![e] = Append(@, Head(src[e]))]
      BY <2>4, <2>5
    <2>7. \A f \in EP : [g \in EP |-> Flight(g)][f] = Flight(f)
      OBVIOUS
    <2>8. Pipe!Take(e)
      BY <1>2, <1>4, <2>2, <2>3, <2>6, <2>7 DEF Pipe!Take
    <2> QED BY <2>8
  <1> QED BY <1>1, <1>3, <1>4, FetchRegs DEF Fetches

\* The endpoint offers a burst.
LEMMA OfferPipe ==
  ASSUME TypeOK, InpInv, NEW e \in EP, EpOffer(e)
  PROVE  Pipe!Offer(e)
  <1>1. /\ src \in [EP -> Seq(Item)] /\ todo[e] # <<>> /\ todo[e] \in Seq(Seq(Item))
        /\ offered \in [EP -> Seq(Item)] /\ rcv \in [EP -> Seq(Item)]
        /\ src' = [src EXCEPT ![e] = @ \o Head(todo[e])] /\ rcv' = rcv
        /\ offered' = [offered EXCEPT ![e] = @ \o Head(todo[e])]
    BY DEF EpOffer, TypeOK, PktTypeOK, hostVars
  <1>2. PICK t \in Seq(Item), s \in Seq(Item), o \in Seq(Item) :
           t = Head(todo[e]) /\ s = src[e] /\ o = offered[e]
    <2>1. Head(todo[e]) \in Seq(Item)
      BY <1>1
    <2> QED BY <1>1, <2>1
  <1>3. src'[e] = s \o t /\ offered'[e] = o \o t
    BY <1>1, <1>2
  <1>4. Len(s \o t) >= Len(s) /\ SubSeq(s \o t, 1, Len(s)) = s
    OBVIOUS
  <1>5. \A f \in EP \ {e} : src'[f] = src[f] /\ offered'[f] = offered[f]
    BY <1>1
  <1>6. Flight(e)' = Flight(e)
    <2>1. PICK a \in Nat, b \in Nat, c \in Nat, d \in Nat :
             a = Len(o) /\ b = Len(s) /\ c = Len(rcv[e]) /\ d = Len(t)
      <3>1. Len(o) \in Nat /\ Len(s) \in Nat /\ Len(rcv[e]) \in Nat /\ Len(t) \in Nat
        BY <1>1
      <3> QED BY <3>1
    <2>2. b <= a /\ c <= a - b
      BY <1>2, <2>1 DEF InpInv, StreamInv, Taken
    <2>3. PICK y \in Nat, n \in Nat : y = a - b /\ n = y - c
      BY <2>2
    <2>4. (a + d) - (b + d) = y /\ y <= a /\ c <= y /\ y <= a + d
      BY <2>2, <2>3
    <2>5. /\ Len(s \o t) = b + d /\ Len(o \o t) = a + d /\ o \o t \in Seq(Item)
          /\ \A i \in 1 .. a : (o \o t)[i] = o[i]
      BY <2>1
    <2>6. Flight(e) = SubSeq(o, c + 1, y) /\ Flight(e)' = SubSeq(o \o t, c + 1, y)
      BY <1>1, <1>2, <1>3, <2>1, <2>3, <2>4, <2>5 DEF Flight
    <2>7. /\ SubSeq(o, c + 1, y) \in Seq(Item) /\ Len(SubSeq(o, c + 1, y)) = n
          /\ \A i \in 1 .. n : SubSeq(o, c + 1, y)[i] = o[c + i]
      <3>1. y <= Len(o) /\ c <= y
        BY <2>1, <2>4
      <3>2. /\ SubSeq(o, c + 1, y) \in Seq(Item) /\ Len(SubSeq(o, c + 1, y)) = y - c
            /\ \A i \in 1 .. y - c : SubSeq(o, c + 1, y)[i] = o[c + i]
        BY <3>1, PartItems
      <3> QED BY <2>3, <3>2
    <2>8. /\ SubSeq(o \o t, c + 1, y) \in Seq(Item) /\ Len(SubSeq(o \o t, c + 1, y)) = n
          /\ \A i \in 1 .. n : SubSeq(o \o t, c + 1, y)[i] = (o \o t)[c + i]
      BY <2>3, <2>4, <2>5, PartItems
    <2>9. \A i \in 1 .. n : c + i \in 1 .. a
      BY <2>3, <2>4
    <2> QED BY <2>5, <2>6, <2>7, <2>8, <2>9, SameItems
  <1>7. \A f \in EP : Flight(f)' = Flight(f)
    BY <1>1, <1>5, <1>6 DEF Flight
  <1>8. [f \in EP |-> Flight(f)]' = [f \in EP |-> Flight(f)]
    BY <1>7
  <1>9. DOMAIN src' = EP
    BY <1>1
  <1> QED BY <1>1, <1>2, <1>3, <1>4, <1>5, <1>8, <1>9 DEF Pipe!Offer

LEMMA PipeInit ==
  ASSUME Init, TypeOK
  PROVE  Pipe!Init
  <1>1. /\ src = [e \in EP |-> <<>>] /\ rcv = [e \in EP |-> <<>>]
        /\ offered = [e \in EP |-> <<>>]
    BY DEF Init, PktInit
  <1>2. \A e \in EP : Flight(e) = <<>>
    <2>1. TAKE e \in EP
    <2>2. Flight(e) = SubSeq(<<>>, 1, 0)
      <3>1. offered[e] = <<>> /\ src[e] = <<>> /\ rcv[e] = <<>> /\ Len(<<>>) = 0
        BY <1>1
      <3> QED BY <3>1 DEF Flight
    <2>3. <<>> \in Seq(Item) /\ Len(<<>>) = 0
      OBVIOUS
    <2>4. SubSeq(<<>>, 0 + 1, 0) \in Seq(Item) /\ Len(SubSeq(<<>>, 0 + 1, 0)) = 0 - 0
      BY <2>3, PartItems
    <2> QED BY <2>2, <2>4, EmptyItems
  <1> QED BY <1>1, <1>2 DEF Pipe!Init

LEMMA PipeStep ==
  ASSUME TypeOK, EngineInv, MaskedInv, [Next]_vars
  PROVE  [Pipe!Next]_(Pipe!pipeVars)
  <1>1. CASE NoInpInv
    <2>1. ~Fetches
      BY <1>1, FetchRegs DEF NoInpInv, Phase, InpStates
    <2>2. ~HostData /\ \A e \in EP : ~EpOffer(e)
      BY <1>1 DEF NoInpInv, HostData, EpOffer
    <2> QED BY <2>1, <2>2, StreamsStep DEF Pipe!pipeVars, Flight
  <1>2. CASE InpInv
    <2>1. CASE HostData
      BY <1>2, <2>1, ArrivePipe DEF Pipe!Next
    <2>2. CASE Fetches
      BY <1>2, <2>2, TakePipe DEF Pipe!Next
    <2>3. CASE \E e \in EP : EpOffer(e)
      BY <1>2, <2>3, OfferPipe DEF Pipe!Next
    <2>4. CASE UNCHANGED <<src, offered, rcv>>
      BY <2>4 DEF Pipe!pipeVars, Flight
    <2> QED BY <2>1, <2>2, <2>3, <2>4, StreamsStep
  <1> QED BY <1>1, <1>2 DEF MaskedInv

\* Buffer, toggles and handshakes of Usb2PktProc implement a pipe per endpoint:
\* a single packet in flight, of a single endpoint, that arrives whole.
THEOREM ImplementsPipeHolds ==
  ASSUME \A s \in Scenarios : InpMasked(s)
  PROVE  Spec => ImplementsPipe
  <1>1. Init /\ TypeOK => Pipe!Init
    BY PipeInit
  <1>2. TypeOK /\ EngineInv /\ MaskedInv /\ [Next]_vars => [Pipe!Next]_(Pipe!pipeVars)
    BY PipeStep
  <1> QED BY <1>1, <1>2, TypeCorrect, EngineSafe, MaskedSafe, PTL
          DEF Spec, ImplementsPipe, Pipe!Spec
=============================================================================
