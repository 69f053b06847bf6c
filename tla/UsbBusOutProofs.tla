--------------------------- MODULE UsbBusOutProofs ---------------------------
(***************************************************************************)
(* The OUT direction of the packet engine delivers what the host sends, in *)
(* every scenario whose faults it masks: the reader of received packets,   *)
(* then one lemma per action that touches the OUT direction, the step as a *)
(* whole, and the theorems that follow from the invariant OutInv.          *)
(***************************************************************************)
EXTENDS UsbBusOutInv, UsbBusInpProofs

USE SizeAssumption
-----------------------------------------------------------------------------
(* Streams and indices.                                                    *)
LEMMA OutTypes ==
  ASSUME TypeOK, NEW e \in EP
  PROVE  /\ Total(e) \in Seq(Delivery) /\ out[e] \in Seq(Delivery) /\ sent[e] \in Seq(Delivery)
         /\ Len(Total(e)) \in Nat /\ Len(out[e]) \in Nat /\ Rest(e) \in Int
  <1>1. sent[e] \in Seq(Delivery) /\ out[e] \in Seq(Delivery)
    BY DEF TypeOK, PktTypeOK
  <1>2. ASSUME Took(e) PROVE PktItems(OutPkt(e)) \in Seq(Delivery)
    BY <1>2, OutPktType, PktItemsType DEF Took
  <1>3. Total(e) \in Seq(Delivery)
    <2>1. CASE Took(e)
      <3>1. Total(e) = sent[e] \o PktItems(OutPkt(e))
        BY <2>1 DEF Total
      <3> QED BY <1>1, <1>2, <2>1, <3>1
    <2>2. CASE ~Took(e)
      <3>1. Total(e) = sent[e] \o <<>>
        BY <2>2 DEF Total
      <3>2. sent[e] \o <<>> \in Seq(Delivery)
        BY <1>1
      <3> QED BY <3>1, <3>2
    <2> QED BY <2>1, <2>2
  <1>4. Len(Total(e)) \in Nat /\ Len(out[e]) \in Nat
    BY <1>1, <1>3
  <1> QED BY <1>1, <1>3, <1>4 DEF Rest

\* Indices of the buffer, counted from an index of it.
LEMMA AheadFacts ==
  ASSUME NEW v \in Idx
  PROVE  /\ Ahead(v, 0) = v /\ Ahead(v, 1) = Inc(v)
         /\ \A i \in 0 .. BufSize - 1 : Ahead(v, i) \in Idx /\ (Ahead(v, i) = v => i = 0)
         /\ \A i \in 0 .. BufSize - 1, j \in 0 .. BufSize - 1 :
              i + j < BufSize => Ahead(Ahead(v, i), j) = Ahead(v, i + j)
  <1>0. v \in 0 .. BufSize - 1
    BY DEF Idx
  <1>1. \A i \in 0 .. BufSize - 1 :
          Ahead(v, i) = IF v + i < BufSize THEN v + i ELSE v + i - BufSize
    BY <1>0, AheadValue DEF Ahead
  <1>2. \A i \in 0 .. BufSize - 1 : Ahead(v, i) \in 0 .. BufSize - 1
    BY <1>0, <1>1
  <1>3. Ahead(v, 0) = v /\ Ahead(v, 1) = Inc(v)
    <2>1. 0 \in 0 .. BufSize - 1
      OBVIOUS
    <2> QED BY <1>0, <1>1, <2>1 DEF Ahead, Inc
  <1>4. \A i \in 0 .. BufSize - 1 : Ahead(v, i) = v => i = 0
    BY <1>0, <1>1
  <1>5. ASSUME NEW i \in 0 .. BufSize - 1, NEW j \in 0 .. BufSize - 1, i + j < BufSize
        PROVE  Ahead(Ahead(v, i), j) = Ahead(v, i + j)
    <2>1. PICK u \in 0 .. BufSize - 1 : u = Ahead(v, i)
      BY <1>2
    <2>2. Ahead(u, j) = IF u + j < BufSize THEN u + j ELSE u + j - BufSize
      BY AheadValue DEF Ahead
    <2>3. u = IF v + i < BufSize THEN v + i ELSE v + i - BufSize
      BY <1>1, <2>1
    <2>4. i + j \in 0 .. BufSize - 1
      BY <1>5
    <2>5. Ahead(v, i + j) = IF v + (i + j) < BufSize THEN v + (i + j) ELSE v + (i + j) - BufSize
      BY <1>1, <2>4
    <2> QED BY <1>0, <1>5, <2>1, <2>2, <2>3, <2>5
  <1> QED BY <1>2, <1>3, <1>4, <1>5 DEF Idx
-----------------------------------------------------------------------------
(* The reader.                                                             *)
LEMMA IdleReader ==
  ASSUME TypeOK
  PROVE  ReaderIdle <=> /\ rd.mst = "none" /\ rd.bufRdIdx = r.bufVldIdx
                        /\ rd.dataCounter >= MaxPkt /\ ~rd.isSetup
  <1>1. rd \in BufReaderType /\ rd.bufRdIdx \in Idx /\ rd.dataCounter \in Nat
    BY DEF TypeOK, PktTypeOK, BufReaderType, Cnt, Idx
  <1>2. Inc(rd.bufRdIdx) # rd.bufRdIdx
    <2>1. 1 \in 0 .. BufSize - 1
      BY HeaderAssumption
    <2> QED BY <1>1, <2>1, AheadFacts
  <1>3. ASSUME rd.mst = "none"
        PROVE  RdNext = rd <=> /\ rd.bufRdIdx = r.bufVldIdx
                               /\ rd.dataCounter >= MaxPkt /\ ~rd.isSetup
    <2>1. CASE rd.bufRdIdx = r.bufVldIdx
      <3>1. RdNext = [rd EXCEPT !.mst = IF rd.dataCounter < MaxPkt \/ rd.isSetup
                                        THEN "don" ELSE "none"]
        BY <1>1, <1>3, <2>1 DEF RdNext, BufReaderType
      <3> QED BY <1>1, <1>3, <2>1, <3>1 DEF BufReaderType
    <2>2. CASE rd.bufRdIdx # r.bufVldIdx
      <3>1. RdNext.bufRdIdx = Inc(rd.bufRdIdx)
        BY <1>1, <1>3, <2>2 DEF RdNext, BufReaderType
      <3> QED BY <1>2, <2>2, <3>1
    <2> QED BY <2>1, <2>2
  <1> QED BY <1>3 DEF ReaderIdle

\* A reader that has nothing to do stays so until a packet is released.
LEMMA IdleKept ==
  ASSUME TypeOK, ReaderIdle, rd' = rd, r'.bufVldIdx = r.bufVldIdx
  PROVE  ReaderIdle'
  <1>1. /\ rd.mst = "none" /\ rd.bufRdIdx = r.bufVldIdx
        /\ rd.dataCounter >= MaxPkt /\ ~rd.isSetup /\ rd \in BufReaderType
    BY IdleReader DEF TypeOK, PktTypeOK
  <1>2. rd.dataCounter \in Nat /\ ~(rd.dataCounter < MaxPkt)
    BY <1>1 DEF BufReaderType, Cnt
  <1>3. RdNext' = [[rd EXCEPT !.mst = "none"] EXCEPT !.mst = "none"]
    BY <1>1, <1>2 DEF RdNext
  <1> QED BY <1>1, <1>3 DEF ReaderIdle, BufReaderType

\* Then all packets have been delivered.
LEMMA IdleDrained ==
  ASSUME TypeOK, ReadInv, ReaderIdle
  PROVE  Drained
  <1>1. /\ rd.mst = "none" /\ rd.bufRdIdx = r.bufVldIdx
        /\ rd.dataCounter >= MaxPkt /\ ~rd.isSetup
        /\ rd.bufRdIdx \in Idx /\ rd.epIdx \in EP /\ rd.dataCounter \in Nat
    <2>1. rd.bufRdIdx \in Idx /\ rd.epIdx \in EP /\ rd.dataCounter \in Nat
      BY DEF TypeOK, PktTypeOK, BufReaderType, Cnt
    <2> QED BY <2>1, IdleReader
  <1>2. PICK v \in Idx : v = rd.bufRdIdx
    BY <1>1
  <1>3. ASSUME NEW w \in 0 .. MaxPkt, Unread(w)
        PROVE  FALSE
    <2>1. v = Ahead(Ahead(v, 1), w)
      BY <1>1, <1>2, <1>3 DEF Unread, Comes
    <2>2. 1 \in 0 .. BufSize - 1 /\ w \in 0 .. BufSize - 1 /\ 1 + w < BufSize
          /\ 1 + w \in 0 .. BufSize - 1 /\ 1 + w # 0
      BY HeaderAssumption
    <2> QED BY <2>1, <2>2, AheadFacts
  <1>4. ASSUME NEW w \in 0 .. MaxPkt, Reading(w)
        PROVE  Drained
    <2>1. v = Ahead(v, w) /\ rd.dataCounter + w <= MaxPkt /\ Only(rd.epIdx)
          /\ Rest(rd.epIdx) = 0 + w + (IF rd.dataCounter + w < MaxPkt \/ rd.isSetup THEN 1 ELSE 0)
      BY <1>1, <1>2, <1>4 DEF Reading, Comes
    <2>2. w = 0
      <3>1. w \in 0 .. BufSize - 1
        BY HeaderAssumption
      <3> QED BY <2>1, <3>1, AheadFacts
    <2>3. Rest(rd.epIdx) = 0
      BY <1>1, <2>1, <2>2
    <2> QED BY <1>1, <2>1, <2>3 DEF Drained, Only
  <1> QED BY <1>1, <1>3, <1>4 DEF ReadInv, Ending

\* What reader and endpoints depend on.
LEMMA ReadFrame ==
  ASSUME TypeOK, ReadInv, GotInv, \A e \in EP : Total(e)' = Total(e),
         rd' = rd, out' = out, r'.bufVldIdx = r.bufVldIdx, mem' = mem \/ ReaderIdle
  PROVE  ReadInv' /\ GotInv'
  <1>1. \A e \in EP : Rest(e)' = Rest(e) /\ \A i : Due(e, i)' = Due(e, i)
    BY DEF Rest, Due
  <1>2. GotInv'
    BY DEF GotInv
  <1>3. CASE ReaderIdle
    <2>1. Drained
      BY <1>3, IdleDrained
    <2>2. Drained'
      BY <1>1, <2>1 DEF Drained
    <2> QED BY <1>2, <2>2 DEF ReadInv
  <1>4. CASE mem' = mem
    <2>1. rd.epIdx \in EP /\ rd.bufRdIdx \in Idx
      BY DEF TypeOK, PktTypeOK, BufReaderType
    <2>2. \A e \in EP : Only(e)' <=> Only(e)
      BY <1>1 DEF Only
    <2>3. \A e \in EP : \A setup, n, pos, w, end :
             Comes(e, setup, n, pos, w, end) => Comes(e, setup, n, pos, w, end)'
      BY <1>1, <1>4 DEF Comes
    <2>4. Drained => Drained'
      BY <1>1 DEF Drained
    <2>5. Ending => Ending'
      BY <1>1, <2>1, <2>2 DEF Ending, Port
    <2>6. ASSUME NEW w \in 0 .. MaxPkt, Unread(w)
          PROVE  Unread(w)'
      <3>0. PICK v \in Idx : v = rd.bufRdIdx
        BY <2>1
      <3>1. PICK hd \in Words : hd = mem[rd.bufRdIdx]
        <4>1. mem \in [Idx -> Words]
          BY DEF TypeOK, PktTypeOK
        <4>2. mem[v] \in Words
          BY <4>1
        <4> QED BY <3>0, <4>2
      <3>2. hd.ep \in EP
        BY DEF Words
      <3>3. Comes(hd.ep, hd.tok = "SETUP", 0, Ahead(v, 1), w, w < MaxPkt \/ hd.tok = "SETUP")
        BY <2>6, <3>0, <3>1 DEF Unread
      <3>4. Comes(hd.ep, hd.tok = "SETUP", 0, Ahead(v, 1), w, w < MaxPkt \/ hd.tok = "SETUP")'
        BY <2>3, <3>2, <3>3
      <3> QED BY <1>4, <2>2, <2>6, <3>0, <3>1, <3>2, <3>4 DEF Unread
    <2>7. \A w \in 0 .. MaxPkt : Reading(w) => Reading(w)'
      BY <1>1, <1>4, <2>1, <2>2, <2>3 DEF Reading, Port
    <2> QED BY <1>2, <2>4, <2>5, <2>6, <2>7 DEF ReadInv
  <1> QED BY <1>3, <1>4

\* What the addressed endpoint takes is what was due.
LEMMA DeliverDue ==
  ASSUME TypeOK, GotInv, Deliver, \A f \in EP : Total(f)' = Total(f),
         NEW e \in EP, e = rd.epIdx, NEW n \in {0, 1}, n = IF rd.mst = "none" THEN 0 ELSE 1,
         n = 1 => /\ Rest(e) > 0
                  /\ Due(e, 1) = [port |-> Port, item |-> IF rd.mst = "don" THEN DON ELSE rd.dat]
  PROVE  /\ GotInv'
         /\ \A f \in EP \ {e} : Rest(f)' = Rest(f)
         /\ Rest(e)' = Rest(e) - n
         /\ \A i \in Nat : Due(e, i)' = Due(e, n + i)
  <1>1. PICK s \in Seq(Delivery), t \in Seq(Delivery), a \in Nat, b \in Nat :
           s = out[e] /\ t = Total(e) /\ a = Len(s) /\ b = Len(t)
    BY OutTypes
  <1>2. a <= b /\ \A i \in 1 .. a : s[i] = t[i]
    BY <1>1 DEF GotInv
  <1>3. Total(e)' = t /\ Rest(e) = b - a /\ \A i : Due(e, i) = t[a + i]
    BY <1>1 DEF Rest, Due
  <1>4. out \in [EP -> Seq(Delivery)]
    BY DEF TypeOK, PktTypeOK
  <1>5. CASE n = 0
    <2>1. out' = out
      BY <1>5 DEF Deliver
    <2>2. GotInv'
      BY <2>1 DEF GotInv
    <2>3. \A f \in EP : Rest(f)' = Rest(f)
      BY <2>1 DEF Rest
    <2>4. \A i \in Nat : 0 + i = i /\ Due(e, i)' = Due(e, i)
      BY <2>1 DEF Due
    <2> QED BY <1>3, <1>5, <2>2, <2>3, <2>4
  <1>6. CASE n = 1
    <2>1. PICK x : x = [port |-> Port, item |-> IF rd.mst = "don" THEN DON ELSE rd.dat]
      OBVIOUS
    <2>2. out' = [out EXCEPT ![e] = Append(s, x)]
      BY <1>1, <1>6, <2>1 DEF Deliver
    <2>3. out'[e] = Append(s, x) /\ \A f \in EP \ {e} : out'[f] = out[f]
      BY <1>4, <2>2
    <2>4. /\ Len(Append(s, x)) = a + 1
          /\ \A i \in 1 .. a : Append(s, x)[i] = s[i]
          /\ Append(s, x)[a + 1] = x
      BY <1>1
    <2>5. x = t[a + 1] /\ a < b
      BY <1>3, <1>6, <2>1
    <2>6. Len(out'[e]) = a + 1 /\ \A i \in 1 .. a + 1 : out'[e][i] = t[i]
      BY <1>2, <2>3, <2>4, <2>5
    <2>7. Rest(e)' = Rest(e) - 1 /\ \A i \in Nat : Due(e, i)' = Due(e, 1 + i)
      <3>1. Rest(e)' = b - (a + 1)
        BY <1>1, <1>3, <2>6 DEF Rest
      <3>2. ASSUME NEW i \in Nat PROVE Due(e, i)' = Due(e, 1 + i)
        <4>1. Due(e, i)' = t[(a + 1) + i] /\ Due(e, 1 + i) = t[a + (1 + i)]
          BY <1>3, <2>6 DEF Due
        <4>2. (a + 1) + i = a + (1 + i)
          OBVIOUS
        <4> QED BY <4>1, <4>2
      <3> QED BY <1>3, <3>1, <3>2
    <2>8. GotInv'
      <3>1. Len(out'[e]) <= Len(Total(e)') /\ \A i \in 1 .. Len(out'[e]) : out'[e][i] = Total(e)'[i]
        BY <1>1, <1>3, <2>5, <2>6
      <3>2. ASSUME NEW f \in EP \ {e}
            PROVE  /\ Len(out'[f]) <= Len(Total(f)')
                   /\ \A i \in 1 .. Len(out'[f]) : out'[f][i] = Total(f)'[i]
        <4>1. out'[f] = out[f] /\ Total(f)' = Total(f)
          BY <2>3
        <4> QED BY <4>1 DEF GotInv
      <3>3. \A f \in EP : /\ Len(out'[f]) <= Len(Total(f)')
                         /\ \A i \in 1 .. Len(out'[f]) : out'[f][i] = Total(f)'[i]
        BY <3>1, <3>2
      <3> QED BY <3>3 DEF GotInv
    <2>9. \A f \in EP \ {e} : Rest(f)' = Rest(f)
      BY <2>3 DEF Rest
    <2> QED BY <1>6, <2>7, <2>8, <2>9
  <1> QED BY <1>5, <1>6

\* What the reader does next.
LEMMA ReaderRegs ==
  ASSUME TypeOK, Reader
  PROVE  /\ rd.mst = "don" =>
              /\ rd'.mst = "none" /\ rd'.bufRdIdx = rd.bufRdIdx
              /\ rd'.dataCounter = CntMod - 1 /\ ~rd'.isSetup
         /\ (rd.mst # "don" /\ rd.bufRdIdx = r.bufVldIdx) =>
              /\ rd'.bufRdIdx = rd.bufRdIdx /\ rd'.epIdx = rd.epIdx
              /\ rd'.isSetup = rd.isSetup /\ rd'.dataCounter = rd.dataCounter
              /\ rd'.mst = IF rd.dataCounter < MaxPkt \/ rd.isSetup THEN "don" ELSE "none"
         /\ (rd.mst # "don" /\ rd.bufRdIdx # r.bufVldIdx /\ RdWord.hdr) =>
              /\ rd'.bufRdIdx = Inc(rd.bufRdIdx) /\ rd'.epIdx = RdWord.ep
              /\ rd'.isSetup = (RdWord.tok = "SETUP") /\ rd'.dataCounter = 0
              /\ rd'.mst = IF rd.dataCounter < MaxPkt \/ rd.isSetup THEN "don" ELSE "none"
         /\ (rd.mst # "don" /\ rd.bufRdIdx # r.bufVldIdx /\ ~RdWord.hdr) =>
              /\ rd'.bufRdIdx = Inc(rd.bufRdIdx) /\ rd'.epIdx = rd.epIdx
              /\ rd'.isSetup = rd.isSetup /\ rd'.dataCounter = CntInc(rd.dataCounter)
              /\ rd'.mst = "vld" /\ rd'.dat = RdWord.dat
  <1>1. rd \in BufReaderType /\ rd' = RdNext
    BY DEF TypeOK, PktTypeOK, Reader
  <1> DEFINE v == [rd EXCEPT !.mst = "none"]
             w == [v EXCEPT !.mst = IF rd.dataCounter < MaxPkt \/ rd.isSetup
                                    THEN "don" ELSE "none"]
  <1>2. CASE rd.mst = "don"
    <2>1. rd' = [v EXCEPT !.dataCounter = CntMod - 1, !.isSetup = FALSE]
      BY <1>1, <1>2 DEF RdNext
    <2> QED BY <1>1, <1>2, <2>1 DEF BufReaderType
  <1>3. CASE rd.mst # "don" /\ rd.bufRdIdx = r.bufVldIdx
    <2>1. rd' = w
      BY <1>1, <1>3 DEF RdNext
    <2> QED BY <1>1, <1>3, <2>1 DEF BufReaderType
  <1>4. CASE rd.mst # "don" /\ rd.bufRdIdx # r.bufVldIdx /\ RdWord.hdr
    <2>1. PICK word, setup : word = RdWord /\ setup = (RdWord.tok = "SETUP")
      OBVIOUS
    <2>2. rd' = [w EXCEPT !.epIdx = word.ep, !.isSetup = setup,
                          !.dataCounter = 0, !.bufRdIdx = Inc(@)]
      BY <1>1, <1>4, <2>1 DEF RdNext
    <2> QED BY <1>1, <1>4, <2>1, <2>2 DEF BufReaderType
  <1>5. CASE rd.mst # "don" /\ rd.bufRdIdx # r.bufVldIdx /\ ~RdWord.hdr
    <2>1. rd' = [v EXCEPT !.dataCounter = CntInc(@), !.mst = "vld", !.dat = RdWord.dat,
                          !.bufRdIdx = Inc(@)]
      BY <1>1, <1>5 DEF RdNext
    <2> QED BY <1>1, <1>5, <2>1 DEF BufReaderType
  <1> QED BY <1>2, <1>3, <1>4, <1>5

LEMMA UnreadStep ==
  ASSUME TypeOK, GotInv, Reader, \A f \in EP : Total(f)' = Total(f),
         NEW w \in 0 .. MaxPkt, Unread(w)
  PROVE  ReadInv' /\ GotInv'
  <1>1. /\ rd \in BufReaderType /\ rd.mst = "none" /\ rd.dataCounter \in Nat
        /\ ~(rd.dataCounter < MaxPkt) /\ ~rd.isSetup /\ mem \in [Idx -> Words]
        /\ r.bufVldIdx \in Idx
    <2>1. /\ rd \in BufReaderType /\ rd.dataCounter \in Nat /\ mem \in [Idx -> Words]
          /\ r.bufVldIdx \in Idx
      BY DEF TypeOK, PktTypeOK, RegType, BufReaderType, Cnt
    <2>2. rd.mst = "none" /\ rd.dataCounter >= MaxPkt /\ ~rd.isSetup
      BY DEF Unread
    <2> QED BY <2>1, <2>2
  <1>2. PICK v \in Idx : v = rd.bufRdIdx
    BY <1>1 DEF BufReaderType
  <1>3. PICK hd \in Words : hd = mem[v]
    BY <1>1
  <1>4. PICK e \in EP, setup \in BOOLEAN : e = hd.ep /\ setup = (hd.tok = "SETUP")
    BY DEF Words
  <1>5. hd.hdr /\ Only(e) /\ Comes(e, setup, 0, Ahead(v, 1), w, w < MaxPkt \/ setup)
    BY <1>2, <1>3, <1>4 DEF Unread
  <1>6. v # r.bufVldIdx
    <2>1. 1 \in 0 .. BufSize - 1 /\ w \in 0 .. BufSize - 1 /\ 1 + w < BufSize
          /\ 1 + w \in 0 .. BufSize - 1 /\ 1 + w # 0
      BY HeaderAssumption
    <2> QED BY <1>5, <2>1, AheadFacts DEF Comes
  <1>7. /\ rd'.bufRdIdx = Ahead(v, 1) /\ rd'.epIdx = e /\ rd'.isSetup = setup
        /\ rd'.dataCounter = 0 /\ rd'.mst = "none"
    BY <1>1, <1>2, <1>3, <1>4, <1>5, <1>6, ReaderRegs, AheadFacts DEF RdWord
  <1>8. out' = out /\ r' = r /\ mem' = mem
    BY <1>1 DEF Reader, Deliver
  <1>9. GotInv' /\ \A f \in EP : Rest(f)' = Rest(f) /\ \A i : Due(f, i)' = Due(f, i)
    BY <1>8 DEF GotInv, Rest, Due
  <1>10. Only(e)' /\ Comes(e, setup, 0, Ahead(v, 1), w, w < MaxPkt \/ setup)'
    BY <1>5, <1>8, <1>9 DEF Only, Comes
  <1>11. Reading(w)'
    <2>1. 0 + w = w /\ w <= MaxPkt
      OBVIOUS
    <2> QED BY <1>7, <1>10, <2>1 DEF Reading
  <1> QED BY <1>9, <1>11 DEF ReadInv

LEMMA ReadingStep ==
  ASSUME TypeOK, GotInv, Reader, \A f \in EP : Total(f)' = Total(f),
         NEW w \in 0 .. MaxPkt, Reading(w)
  PROVE  ReadInv' /\ GotInv'
  <1>1. /\ rd \in BufReaderType /\ rd.mst \in {"none", "vld"} /\ mem \in [Idx -> Words]
        /\ r.bufVldIdx \in Idx
    BY DEF TypeOK, PktTypeOK, RegType, BufReaderType, Reading
  <1>2. PICK v \in Idx, c \in Nat, e \in EP, setup \in BOOLEAN :
           v = rd.bufRdIdx /\ c = rd.dataCounter /\ e = rd.epIdx /\ setup = rd.isSetup
    BY <1>1 DEF BufReaderType, Cnt
  <1>3. PICK n \in {0, 1} : n = IF rd.mst = "vld" THEN 1 ELSE 0
    OBVIOUS
  <1>4. PICK end \in BOOLEAN : end = (c + w < MaxPkt \/ setup)
    OBVIOUS
  <1>5. /\ c + w <= MaxPkt /\ Only(e) /\ Comes(e, setup, n, v, w, end)
        /\ n = 1 => Due(e, 1) = [port |-> Port, item |-> rd.dat]
    BY <1>2, <1>3, <1>4 DEF Reading
  <1>6. Rest(e) = n + w + (IF end THEN 1 ELSE 0)
    BY <1>5 DEF Comes
  <1>7. r' = r /\ mem' = mem /\ Deliver
    BY DEF Reader
  <1>8. /\ GotInv'
        /\ \A f \in EP \ {e} : Rest(f)' = Rest(f)
        /\ Rest(e)' = w + (IF end THEN 1 ELSE 0)
        /\ \A i \in Nat : Due(e, i)' = Due(e, n + i)
    <2>1. n = IF rd.mst = "none" THEN 0 ELSE 1
      BY <1>1, <1>3
    <2>2. n = 1 => /\ Rest(e) > 0
                   /\ Due(e, 1) = [port |-> Port, item |-> IF rd.mst = "don" THEN DON ELSE rd.dat]
      BY <1>1, <1>5, <1>6
    <2>3. /\ GotInv'
          /\ \A f \in EP \ {e} : Rest(f)' = Rest(f)
          /\ Rest(e)' = Rest(e) - n
          /\ \A i \in Nat : Due(e, i)' = Due(e, n + i)
      BY <1>2, <1>7, <2>1, <2>2, DeliverDue
    <2> QED BY <1>6, <2>3
  <1>9. Only(e)'
    BY <1>5, <1>8 DEF Only
  <1>10. CASE w = 0
    <2>1. v = r.bufVldIdx
      BY <1>5, <1>10, AheadFacts DEF Comes
    <2>2. /\ rd'.bufRdIdx = v /\ rd'.epIdx = e /\ rd'.isSetup = setup /\ rd'.dataCounter = c
          /\ rd'.mst = IF c < MaxPkt \/ setup THEN "don" ELSE "none"
      BY <1>1, <1>2, <2>1, ReaderRegs
    <2>3. CASE end
      <3>1. rd'.mst = "don" /\ Rest(e)' = 1
        BY <1>4, <1>8, <1>10, <2>2, <2>3
      <3>2. Due(e, 1)' = [port |-> PortOf(setup), item |-> DON]
        <4>1. n + 0 + 1 = n + 1
          OBVIOUS
        <4> QED BY <1>5, <1>8, <1>10, <2>3, <4>1 DEF Comes
      <3>3. Ending'
        BY <1>7, <1>9, <2>1, <2>2, <3>1, <3>2 DEF Ending, Port, PortOf
      <3> QED BY <1>8, <3>3 DEF ReadInv
    <2>4. CASE ~end
      <3>1. rd'.mst = "none" /\ Rest(e)' = 0 /\ ~setup /\ c >= MaxPkt
        <4>1. c + w = c /\ w + 0 = 0
          BY <1>10
        <4>2. ~(c < MaxPkt) /\ ~setup
          BY <1>4, <2>4, <4>1
        <4> QED BY <1>8, <2>2, <2>4, <4>1, <4>2
      <3>2. Drained'
        BY <1>7, <1>9, <2>1, <2>2, <3>1 DEF Drained, Only
      <3> QED BY <1>8, <3>2 DEF ReadInv
    <2> QED BY <2>3, <2>4
  <1>11. CASE w # 0
    <2>1. PICK u \in 0 .. MaxPkt : u + 1 = w
      <3>1. w - 1 \in 0 .. MaxPkt /\ (w - 1) + 1 = w
        BY <1>11
      <3> QED BY <3>1
    <2>2. w \in 0 .. BufSize - 1 /\ 1 \in 0 .. BufSize - 1 /\ u \in 0 .. BufSize - 1
          /\ 1 + u < BufSize /\ 1 + u = w /\ w \in Nat
      BY <2>1, BufferAssumption, HeaderAssumption
    <2>3. v # r.bufVldIdx
      BY <1>5, <1>11, <2>2, AheadFacts DEF Comes
    <2>4. /\ \A i \in 1 .. w : ~mem[Ahead(v, i - 1)].hdr
          /\ \A i \in 1 .. w : Due(e, n + i) = [port |-> PortOf(setup),
                                                item |-> mem[Ahead(v, i - 1)].dat]
      BY <1>5 DEF Comes
    <2>5. ~mem[v].hdr /\ Due(e, n + 1) = [port |-> PortOf(setup), item |-> mem[v].dat]
      <3>1. 1 \in 1 .. w /\ 1 - 1 = 0
        BY <2>2
      <3> QED BY <2>4, <3>1, AheadFacts
    <2>6. /\ rd'.bufRdIdx = Ahead(v, 1) /\ rd'.epIdx = e /\ rd'.isSetup = setup
          /\ rd'.dataCounter = c + 1 /\ rd'.mst = "vld" /\ rd'.dat = mem[v].dat
      <3>1. CntInc(c) = c + 1
        <4>1. c + 1 \in Nat /\ c + 1 < CntMod /\ CntMod \in Nat \ {0}
          BY <1>5, <2>1
        <4> QED BY <4>1, ModOnce DEF CntInc
      <3>2. rd.mst # "don" /\ rd.bufRdIdx # r.bufVldIdx /\ ~RdWord.hdr
        BY <1>1, <1>2, <2>3, <2>5 DEF RdWord
      <3> QED BY <1>2, <3>1, <3>2, ReaderRegs, AheadFacts DEF RdWord
    <2>7. \A i \in Nat : Ahead(Ahead(v, 1), i) = Ahead(v, 1 + i) \/ i > u
      <3> SUFFICES ASSUME NEW i \in Nat, i <= u PROVE Ahead(Ahead(v, 1), i) = Ahead(v, 1 + i)
        OBVIOUS
      <3>1. i \in 0 .. BufSize - 1 /\ 1 + i < BufSize
        BY <2>2
      <3> QED BY <2>2, <3>1, AheadFacts
    <2>8. Comes(e, setup, 1, Ahead(v, 1), u, end)'
      <3>1. r'.bufVldIdx = Ahead(Ahead(v, 1), u)
        BY <1>5, <1>7, <2>2, <2>7 DEF Comes
      <3>2. Rest(e)' = 1 + u + (IF end THEN 1 ELSE 0)
        BY <1>8, <2>2
      <3>3. ASSUME NEW i \in 1 .. u
            PROVE  /\ ~mem'[Ahead(Ahead(v, 1), i - 1)].hdr
                   /\ Due(e, 1 + i)' = [port |-> PortOf(setup),
                                        item |-> mem'[Ahead(Ahead(v, 1), i - 1)].dat]
        <4>1. PICK j \in 1 .. w : j = 1 + i
          BY <2>2
        <4>2. i - 1 \in Nat /\ ~(i - 1 > u) /\ 1 + (i - 1) = j - 1 /\ n + (1 + i) = n + j
          BY <2>1, <4>1
        <4>3. Ahead(Ahead(v, 1), i - 1) = Ahead(v, j - 1)
          BY <2>7, <4>2
        <4>4. Due(e, 1 + i)' = Due(e, n + j)
          BY <1>8, <4>1, <4>2
        <4> QED BY <1>7, <2>4, <4>3, <4>4
      <3>4. end => Due(e, 1 + u + 1)' = [port |-> PortOf(setup), item |-> DON]
        <4>1. n + (1 + u + 1) = n + w + 1 /\ 1 + u + 1 \in Nat
          BY <2>2
        <4>2. Due(e, 1 + u + 1)' = Due(e, n + w + 1)
          BY <1>8, <4>1
        <4> QED BY <1>5, <4>2 DEF Comes
      <3> QED BY <3>1, <3>2, <3>3, <3>4 DEF Comes
    <2>9. Due(e, 1)' = [port |-> PortOf(setup), item |-> mem[v].dat]
      BY <1>8, <2>5
    <2>10. Reading(u)'
      <3>1. (c + 1) + u = c + w
        BY <2>2
      <3> QED BY <1>4, <1>5, <1>9, <2>6, <2>8, <2>9, <3>1 DEF Reading, Port, PortOf
    <2> QED BY <1>8, <2>10 DEF ReadInv
  <1> QED BY <1>10, <1>11

LEMMA EndingStep ==
  ASSUME TypeOK, GotInv, Reader, \A f \in EP : Total(f)' = Total(f), Ending
  PROVE  ReadInv' /\ GotInv'
  <1>1. PICK e \in EP : e = rd.epIdx
    BY DEF TypeOK, PktTypeOK, BufReaderType
  <1>2. /\ rd.mst = "don" /\ rd.bufRdIdx = r.bufVldIdx /\ Only(e)
        /\ Rest(e) = 1 /\ Due(e, 1) = [port |-> Port, item |-> DON]
    BY <1>1 DEF Ending
  <1>3. r' = r /\ Deliver
    BY DEF Reader
  <1>4. GotInv' /\ Rest(e)' = 0 /\ \A f \in EP \ {e} : Rest(f)' = Rest(f)
    <2>1. 1 \in {0, 1} /\ 1 = IF rd.mst = "none" THEN 0 ELSE 1
      BY <1>2
    <2> QED BY <1>1, <1>2, <1>3, <2>1, DeliverDue
  <1>5. /\ rd'.mst = "none" /\ rd'.bufRdIdx = r'.bufVldIdx
        /\ rd'.dataCounter >= MaxPkt /\ ~rd'.isSetup
    <2>1. CntMod - 1 >= MaxPkt
      OBVIOUS
    <2> QED BY <1>2, <1>3, <2>1, ReaderRegs
  <1>6. Drained'
    BY <1>2, <1>4, <1>5 DEF Drained, Only
  <1> QED BY <1>4, <1>6 DEF ReadInv

LEMMA ReaderStep ==
  ASSUME TypeOK, ReadInv, GotInv, Reader, \A f \in EP : Total(f)' = Total(f)
  PROVE  ReadInv' /\ GotInv'
  <1>1. ~Drained
    BY IdleReader DEF Reader, Drained
  <1> QED BY <1>1, UnreadStep, ReadingStep, EndingStep DEF ReadInv
-----------------------------------------------------------------------------
(* What a step may leave alone.                                            *)
OutEnvKept ==
  /\ env'.lose = env.lose /\ env'.outPkts = env.outPkts
  /\ env'.halts = env.halts /\ env'.lag = env.lag

HostKept ==
  UNCHANGED <<sent, oIdx, hTglOut>> /\ (h.st # "inp" => hTglInp' = hTglInp)

OutRegs ==
  /\ r'.dataTglOut = r.dataTglOut /\ r'.bufVldIdx = r.bufVldIdx /\ r'.deadInp = r.deadInp
  /\ r'.retryExpired => r.retryExpired /\ r'.bufInpEpIdx = r.bufInpEpIdx
  /\ r.state # "WAIT_ACK" => r'.dataTglInp = r.dataTglInp

\* The engine's answer is still on its way; those of S arrive.
AnswerKept(S) ==
  \A e \in EP : /\ Positive(e)' => Positive(e)
                /\ (e \in S /\ Positive(e)) => Positive(e)'

LEMMA OutEnvLose ==
  ASSUME TypeOK, NEW k, Lose(k) \/ UNCHANGED faultVars
  PROVE  OutEnvKept
  BY DEF TypeOK, Scenario, Lose, faultVars, OutEnvKept

LEMMA PlainFrame ==
  ASSUME OutPlain(env), OutEnvKept
  PROVE  OutPlain(env')
  BY DEF OutPlain, OutEnvKept, HasOut

LEMMA SureFrame ==
  ASSUME NEW S, SureInv(S), OutEnvKept, OutRegs, halted' = halted
  PROVE  SureInv(S)'
  BY DEF SureInv, Sure, Certain, Fragile, HasSetup, OutEnvKept, OutRegs

\* A packet the host has is a packet of the scenario.
LEMMA MorePkt ==
  ASSUME TypeOK, NEW e \in EP, More(e)
  PROVE  /\ HasOut(env, e) /\ OutPkt(e) \in Packet
         /\ OutPkt(e).tok = "SETUP" => HasSetup(env, e)
         /\ OutPlain(env) => Len(OutPkt(e).dat) <= MaxPkt
  <1>1. PICK s \in Seq(Packet), n \in Nat : s = env.outPkts[e] /\ n = oIdx[e]
    BY DEF TypeOK, Scenario
  <1>2. n < Len(s)
    BY <1>1 DEF More
  <1>3. n + 1 \in DOMAIN s /\ s # <<>> /\ OutPkt(e) = s[n + 1]
    BY <1>1, <1>2 DEF OutPkt
  <1>4. OutPkt(e) \in Packet
    BY OutPktType
  <1> QED BY <1>1, <1>3, <1>4 DEF HasOut, HasSetup, OutPlain

LEMMA TookFrame ==
  ASSUME TypeOK, NEW S, SureInv(S), TookInv(S), HostKept, OutEnvKept,
         r'.dataTglOut = r.dataTglOut, AnswerKept(S)
  PROVE  TookInv(S)' /\ \A e \in EP : Total(e)' = Total(e) /\ (Took(e)' <=> Took(e))
  <1>1. \A e \in EP : (More(e)' <=> More(e)) /\ OutPkt(e)' = OutPkt(e)
    BY DEF More, OutPkt, HostKept, OutEnvKept
  <1>2. ASSUME NEW e \in EP
        PROVE  Took(e)' <=> Took(e)
    <2>1. CASE More(e) /\ OutPkt(e).tok = "SETUP"
      <3>1. e \in S
        BY <2>1, MorePkt DEF SureInv, Fragile
      <3> QED BY <1>1, <2>1, <3>1 DEF Took, AnswerKept
    <2>2. CASE ~(More(e) /\ OutPkt(e).tok = "SETUP")
      BY <1>1, <2>2 DEF Took, HostKept
    <2> QED BY <2>1, <2>2
  <1>3. \A e \in EP : Total(e)' = Total(e)
    BY <1>1, <1>2 DEF Total, HostKept
  <1>4. TookInv(S)'
    BY <1>1, <1>2 DEF TookInv, HostKept, AnswerKept
  <1> QED BY <1>2, <1>3, <1>4

\* What a step keeps: the invariant, and the toggles of the IN direction where
\* there are no IN data.
OutNext(S) == OutInv(S)' /\ ((NoInpInv /\ SetupTgl) => SetupTgl')

\* Nothing is received, released, delivered or acknowledged.
LEMMA StillOut ==
  ASSUME TypeOK, NEW S, OutInv(S), HostKept, OutEnvKept, OutRegs, AnswerKept(S),
         halted' = halted, rd' = rd, out' = out, mem' = mem \/ ReaderIdle,
         TransInv', BufOutInv'
  PROVE  OutNext(S)
  <1>1. /\ OutPlain(env) /\ SureInv(S) /\ TookInv(S) /\ ReadInv /\ GotInv
        /\ r'.dataTglOut = r.dataTglOut /\ r'.bufVldIdx = r.bufVldIdx
    BY DEF OutInv, OutRegs
  <1>2. TookInv(S)' /\ \A e \in EP : Total(e)' = Total(e) /\ (Took(e)' <=> Took(e))
    BY <1>1, TookFrame
  <1>3. ReadInv' /\ GotInv'
    BY <1>1, <1>2, ReadFrame
  <1>4. OutPlain(env') /\ SureInv(S)'
    BY <1>1, PlainFrame, SureFrame
  <1>5. (NoInpInv /\ SetupTgl) => SetupTgl'
    <2>1. NoInpInv => hTglInp' = hTglInp /\ r'.dataTglInp = r.dataTglInp
      BY DEF NoInpInv, Phase, InpStates, HostKept, OutRegs
    <2>2. \A e \in EP : OutPkt(e)' = OutPkt(e) /\ (Positive(e)' => Positive(e))
      BY DEF OutPkt, HostKept, OutEnvKept, AnswerKept
    <2> QED BY <1>2, <2>1, <2>2 DEF SetupTgl
  <1> QED BY <1>2, <1>3, <1>4, <1>5 DEF OutInv, OutNext

LEMMA NoAnswer ==
  ASSUME h.st # "hsk", h'.st # "hsk", NEW S
  PROVE  AnswerKept(S)
  BY DEF AnswerKept, Positive

\* What the engine and the host do that they share with no OUT transaction.
LEMMA SameRegsOut ==
  ASSUME r' = r
  PROVE  OutRegs
  BY DEF OutRegs
-----------------------------------------------------------------------------
(* Steps that the engine does not see.                                     *)
\* An IN transaction is going on.
LEMMA InpOut ==
  ASSUME TypeOK, NEW S, OutInv(S), Phase \in InpStates, HostKept, OutEnvKept, OutRegs,
         halted' = halted, rd' = rd, out' = out,
         Phase' \in InpStates \/ (r'.state = "IDLE" /\ r'.bufRWIdx = r'.bufVldIdx),
         h' = h \/ h'.st \notin {"out", "pld", "hsk"}
                \/ (h'.st = "out" /\ wire' = NoPkt /\ r'.state = "IDLE")
  PROVE  OutNext(S)
  <1>1. ReaderIdle /\ h.st \notin {"out", "pld", "hsk"}
    BY DEF OutInv, TransInv, BufOutInv, Phase, InpStates
  <1>2. ReaderIdle'
    BY <1>1, IdleKept DEF OutRegs
  <1>3. h'.st \notin {"pld", "hsk"} /\ (h'.st = "out" => wire' = NoPkt /\ r'.state = "IDLE")
    BY <1>1
  <1>4. AnswerKept(S)
    BY <1>1, <1>3, NoAnswer
  <1>5. Phase' \in InpStates \/ (Phase' = "IDLE" /\ r'.bufRWIdx = r'.bufVldIdx)
    BY DEF Phase
  <1>6. TransInv'
    BY <1>3, <1>5 DEF TransInv, InpStates
  <1>7. BufOutInv'
    BY <1>2, <1>5 DEF BufOutInv, InpStates
  <1> QED BY <1>1, <1>4, <1>6, <1>7, StillOut

\* The engine's registers stay.
LEMMA RestOut ==
  ASSUME TypeOK, NEW S, OutInv(S), HostKept, OutEnvKept, AnswerKept(S),
         UNCHANGED <<r, rd, mem, out, halted>>, TransInv'
  PROVE  OutNext(S)
  <1>1. OutRegs
    BY SameRegsOut
  <1>2. BufOutInv'
    <2>1. Phase' = Phase
      BY DEF Phase
    <2>2. ReaderIdle => ReaderIdle'
      BY IdleKept
    <2> QED BY <2>1, <2>2 DEF OutInv, BufOutInv
  <1> QED BY <1>1, <1>2, StillOut
-----------------------------------------------------------------------------
(* The engine's own steps.                                                 *)
\* What the steps of an IN transaction do to the registers.
LEMMA DataInpRegsOut ==
  ASSUME r \in RegType
  PROVE  /\ DataInpRegs \in RegType
         /\ DataInpRegs.dataTglOut = r.dataTglOut /\ DataInpRegs.bufVldIdx = r.bufVldIdx
         /\ DataInpRegs.deadInp = r.deadInp /\ DataInpRegs.dataTglInp = r.dataTglInp /\ DataInpRegs.retryExpired = r.retryExpired
         /\ DataInpRegs.bufInpEpIdx = r.bufInpEpIdx
  BY DataInpRegsType DEF DataInpRegs, RegType

LEMMA ByteRegsOut ==
  ASSUME r \in RegType, DataInpByte
  PROVE  OutRegs /\ r'.state \in {"DATA_INP", "WAIT_DON"}
  <1> DEFINE v == DataInpRegs
             last == r.dataCounter = 0
  <1>1. /\ v \in RegType
        /\ v.dataTglOut = r.dataTglOut /\ v.bufVldIdx = r.bufVldIdx /\ v.deadInp = r.deadInp
        /\ v.dataTglInp = r.dataTglInp
    BY DataInpRegsOut
  <1>2. v.state = "DATA_INP"
    BY DEF DataInpByte, DataInpRegs, RegType
  <1>3. \E part, vld, flg, st, full :
           /\ st = (IF last THEN "WAIT_DON" ELSE v.state)
           /\ r' = [v EXCEPT !.bufRWIdx = Inc(@), !.dataCounter = CntDec(@),
                             !.bufInpPart = part, !.bufInpVld = vld,
                             !.bufInpEpIdx = r.epIdx, !.retryExpired = FALSE,
                             !.donFlg = flg, !.state = st, !.lstPktFullSz = full]
    BY ZenonT(30) DEF DataInpByte
  <1> HIDE DEF v
  <1>4. PICK part, vld, flg, st, full :
           /\ st = (IF last THEN "WAIT_DON" ELSE v.state)
           /\ r' = [v EXCEPT !.bufRWIdx = Inc(@), !.dataCounter = CntDec(@),
                             !.bufInpPart = part, !.bufInpVld = vld,
                             !.bufInpEpIdx = r.epIdx, !.retryExpired = FALSE,
                             !.donFlg = flg, !.state = st, !.lstPktFullSz = full]
    BY <1>3
  <1>5. /\ r'.dataTglOut = v.dataTglOut /\ r'.bufVldIdx = v.bufVldIdx
        /\ r'.deadInp = v.deadInp /\ r'.dataTglInp = v.dataTglInp /\ r'.retryExpired = FALSE /\ r'.state = st
    BY <1>1, <1>4 DEF RegType
  <1> QED BY <1>1, <1>2, <1>4, <1>5 DEF OutRegs

LEMMA CompleteRegsOut ==
  ASSUME r \in RegType, DataInpDry \/ DataInpDon
  PROVE  OutRegs /\ r'.state = "WAIT_DON"
  <1> DEFINE v == DataInpRegs
  <1>1. /\ v \in RegType
        /\ v.dataTglOut = r.dataTglOut /\ v.bufVldIdx = r.bufVldIdx /\ v.deadInp = r.deadInp
        /\ v.dataTglInp = r.dataTglInp
        /\ v.retryExpired = r.retryExpired /\ v.bufInpEpIdx = r.bufInpEpIdx
    BY DataInpRegsOut
  <1>2. PICK f \in BOOLEAN : r' = PacketComplete(v, f)
    BY DEF DataInpDry, DataInpDon
  <1> HIDE DEF v
  <1>3. /\ r'.dataTglOut = v.dataTglOut /\ r'.bufVldIdx = v.bufVldIdx
        /\ r'.deadInp = v.deadInp /\ r'.dataTglInp = v.dataTglInp /\ r'.retryExpired = v.retryExpired
        /\ r'.bufInpEpIdx = v.bufInpEpIdx /\ r'.state = "WAIT_DON"
    BY <1>1, <1>2 DEF PacketComplete, RegType
  <1> QED BY <1>1, <1>3 DEF OutRegs

LEMMA RepRegsOut ==
  ASSUME r \in RegType, DataRepByte
  PROVE  OutRegs /\ r'.state \in {"DATA_REP", "DATA_INP", "WAIT_DON"}
  <1> DEFINE v == [r EXCEPT !.dataCounter = CntDec(@)]
  <1>1. /\ v \in RegType
        /\ v.dataTglOut = r.dataTglOut /\ v.bufVldIdx = r.bufVldIdx /\ v.deadInp = r.deadInp
        /\ v.dataTglInp = r.dataTglInp
        /\ v.retryExpired = r.retryExpired /\ v.bufInpEpIdx = r.bufInpEpIdx
        /\ v.state = "DATA_REP"
    BY WrapCnt DEF DataRepByte, RegType
  <1>2. \/ r' = [v EXCEPT !.bufRWIdx = Inc(@)]
        \/ r' = [v EXCEPT !.bufRWIdx = Inc(@), !.state = "DATA_INP"]
        \/ r' = [v EXCEPT !.donFlg = TRUE, !.state = "WAIT_DON"]
    BY DEF DataRepByte
  <1> HIDE DEF v
  <1>3. CASE r' = [v EXCEPT !.bufRWIdx = Inc(@)]
    BY <1>1, <1>3 DEF RegType, OutRegs
  <1>4. CASE r' = [v EXCEPT !.bufRWIdx = Inc(@), !.state = "DATA_INP"]
    BY <1>1, <1>4 DEF RegType, OutRegs
  <1>5. CASE r' = [v EXCEPT !.donFlg = TRUE, !.state = "WAIT_DON"]
    BY <1>1, <1>5 DEF RegType, OutRegs
  <1> QED BY <1>2, <1>3, <1>4, <1>5

LEMMA SavedRegsOut ==
  ASSUME r \in RegType,
         DataInpAbort \/ DataRepAbort \/ WaitDonAbort \/ WaitAckTimeout
  PROVE  OutRegs /\ r'.state = "IDLE" /\ r'.bufRWIdx = r'.bufVldIdx
  <1>1. CASE DataInpAbort
    <2> DEFINE v == DataInpRegs
    <2>1. /\ v \in RegType
          /\ v.dataTglOut = r.dataTglOut /\ v.bufVldIdx = r.bufVldIdx /\ v.deadInp = r.deadInp
          /\ v.dataTglInp = r.dataTglInp
          /\ v.retryExpired = r.retryExpired /\ v.bufInpEpIdx = r.bufInpEpIdx
      BY DataInpRegsOut
    <2>2. r' = [SaveBuffer(v) EXCEPT !.donFlg = FALSE, !.state = "IDLE"]
      BY <1>1 DEF DataInpAbort
    <2> HIDE DEF v
    <2>3. /\ r'.dataTglOut = v.dataTglOut /\ r'.bufVldIdx = v.bufVldIdx
          /\ r'.deadInp = v.deadInp /\ r'.dataTglInp = v.dataTglInp /\ r'.retryExpired = v.retryExpired
          /\ r'.bufInpEpIdx = v.bufInpEpIdx /\ r'.state = "IDLE" /\ r'.bufRWIdx = v.bufVldIdx
      BY <2>1, <2>2 DEF SaveBuffer, RegType
    <2> QED BY <2>1, <2>3 DEF OutRegs
  <1>2. CASE DataRepAbort
    BY <1>2 DEF DataRepAbort, OutRegs, RegType
  <1>3. CASE WaitDonAbort \/ WaitAckTimeout
    <2>1. r' = [SaveBuffer(r) EXCEPT !.state = "IDLE"]
      BY <1>3 DEF WaitDonAbort, WaitAckTimeout
    <2>2. /\ r'.dataTglOut = r.dataTglOut /\ r'.bufVldIdx = r.bufVldIdx
          /\ r'.deadInp = r.deadInp /\ r'.dataTglInp = r.dataTglInp /\ r'.retryExpired = r.retryExpired
          /\ r'.bufInpEpIdx = r.bufInpEpIdx /\ r'.state = "IDLE" /\ r'.bufRWIdx = r.bufVldIdx
      BY <2>1 DEF SaveBuffer, RegType
    <2> QED BY <2>2 DEF OutRegs
  <1> QED BY <1>1, <1>2, <1>3

LEMMA WaitRegsOut ==
  ASSUME r \in RegType, WaitDonTx \/ WaitDonNext \/ WaitFs
  PROVE  OutRegs /\ r'.state \in InpStates
  <1>1. CASE WaitDonTx \/ WaitDonNext
    BY <1>1 DEF WaitDonTx, WaitDonNext, OutRegs, RegType, InpStates
  <1>2. CASE WaitFs
    BY <1>2 DEF WaitFs, OutRegs, RegType, InpStates
  <1> QED BY <1>1, <1>2

LEMMA BusKept ==
  ASSUME UNCHANGED busVars
  PROVE  HostKept /\ OutEnvKept /\ h' = h
  BY DEF busVars, HostKept, OutEnvKept

\* A step of an IN transaction.
LEMMA EngineInpOut ==
  ASSUME TypeOK, NEW S, OutInv(S), HostKept, OutEnvKept, h' = h,
         \/ DataInpByte \/ DataInpDry \/ DataInpDon \/ DataRepByte
         \/ WaitDonTx \/ WaitDonNext \/ WaitFs
         \/ DataInpAbort \/ DataRepAbort \/ WaitDonAbort \/ WaitAckTimeout
  PROVE  OutNext(S)
  <1>1. r \in RegType
    BY DEF TypeOK, PktTypeOK
  <1>2. Phase \in InpStates /\ UNCHANGED <<halted, rd, out>>
    BY DEF DataInpByte, DataInpDry, DataInpDon, DataRepByte, WaitDonTx, WaitDonNext, WaitFs,
           DataInpAbort, DataRepAbort, WaitDonAbort, WaitAckTimeout, epVars, Phase, InpStates
  <1>3. /\ OutRegs
        /\ r'.state \in InpStates \/ (r'.state = "IDLE" /\ r'.bufRWIdx = r'.bufVldIdx)
    BY <1>1, ByteRegsOut, CompleteRegsOut, RepRegsOut, SavedRegsOut, WaitRegsOut DEF InpStates
  <1>4. Phase' \in InpStates \/ (r'.state = "IDLE" /\ r'.bufRWIdx = r'.bufVldIdx)
    BY <1>3 DEF Phase, InpStates
  <1> QED BY <1>2, <1>3, <1>4, InpOut

LEMMA WaitTxOut ==
  ASSUME TypeOK, NEW S, OutInv(S), WaitTx, UNCHANGED busVars
  PROVE  OutNext(S)
  <1>1. r \in RegType /\ r.state = "WAIT_TX" /\ r' = [r EXCEPT !.state = r.nxtState]
    BY DEF TypeOK, PktTypeOK, WaitTx
  <1>2. /\ r'.state = r.nxtState /\ r'.nxtState = r.nxtState /\ Phase' = Phase
        /\ r'.epIdx = r.epIdx /\ r'.tok = r.tok /\ r'.pid = r.pid
        /\ r'.bufRWIdx = r.bufRWIdx /\ OutRegs
    BY <1>1 DEF RegType, Phase, OutRegs
  <1>3. UNCHANGED <<halted, rd, out, mem, wire>> /\ HostKept /\ OutEnvKept /\ UNCHANGED busVars
    BY BusKept DEF WaitTx, epVars
  <1>4. AnswerKept(S)
    BY <1>2, <1>3 DEF AnswerKept, Positive, busVars
  <1>5. TransInv'
    <2>1. /\ h.st # "out"
          /\ h.st = "pld" => FALSE
          /\ h.st = "hsk" => r'.state = "HSK"
      BY <1>1, <1>2 DEF OutInv, TransInv, Phase
    <2>2. OutPkt(h.ep)' = OutPkt(h.ep) /\ UNCHANGED <<h, halted, wire, hTglOut>>
      BY <1>3 DEF OutPkt, busVars
    <2>3. r'.dataTglOut = r.dataTglOut
      BY <1>2 DEF OutRegs
    <2> QED BY <1>2, <2>1, <2>2, <2>3 DEF OutInv, TransInv, InStep
  <1>6. BufOutInv'
    <2>1. ReaderIdle => ReaderIdle'
      BY <1>2, <1>3, IdleKept DEF OutRegs
    <2>2. mem' = mem /\ r'.bufVldIdx = r.bufVldIdx
      BY <1>2, <1>3 DEF OutRegs
    <2> QED BY <1>2, <2>1, <2>2 DEF OutInv, BufOutInv
  <1> QED BY <1>2, <1>3, <1>4, <1>5, <1>6, StillOut
-----------------------------------------------------------------------------
(* A header reaches the engine.                                            *)
\* The registers after a token.
LEMMA TokRegsOut ==
  ASSUME r \in RegType, NEW p \in RxHeader,
         NEW v, v \in {TokRegs(p), InpRegs(p), SendRegs(p)}
  PROVE  /\ v \in RegType
         /\ v.dataTglOut = r.dataTglOut /\ v.bufVldIdx = r.bufVldIdx /\ v.deadInp = r.deadInp
         /\ v.dataTglInp = r.dataTglInp
         /\ v.retryExpired = r.retryExpired /\ v.bufInpEpIdx = r.bufInpEpIdx
         /\ v.bufRWIdx = r.bufRWIdx /\ v.tok = p.pid /\ v.epIdx = p.ep
  <1>1. v \in RegType
    BY TokRegsType
  <1>2. p.pid \in Pids /\ p.ep \in EP
    BY DEF RxHeader
  <1>3. CASE v = TokRegs(p)
    BY <1>1, <1>2, <1>3 DEF TokRegs, RegType
  <1>4. CASE v = InpRegs(p)
    BY <1>1, <1>2, <1>4 DEF InpRegs, TokRegs, RegType
  <1>5. CASE v = SendRegs(p)
    BY <1>1, <1>2, <1>5 DEF SendRegs, InpRegs, TokRegs, RegType
  <1> QED BY <1>3, <1>4, <1>5

\* A token is refused, starts an IN transaction, or an OUT transaction.
Refuses  == /\ r'.state = "WAIT_TX" /\ r'.nxtState = "HSK" /\ r'.bufRWIdx = r.bufRWIdx
            /\ r'.pid \in {"ACK", "NAK", "STALL"}
Begins   == r'.state = "WAIT_TX" /\ r'.nxtState \in InpStates
Awaits(p) == /\ r'.state = "DATA_PID" /\ r'.epIdx = p.ep /\ r'.tok = p.pid
             /\ r'.bufRWIdx = r.bufRWIdx

LEMMA IdleOutRegs ==
  ASSUME r \in RegType, NEW p \in RxHeader, Idle(p)
  PROVE  /\ OutRegs /\ mem' = mem
         /\ r' = r \/ (p.pid \in {"PING", "IN"} /\ Refuses) \/ (p.pid = "IN" /\ Begins)
                   \/ (p.pid \notin {"PING", "IN"} /\ Awaits(p))
  <1>1. mem' = mem
    BY DEF Idle
  <1>2. CASE r' = r
    BY <1>1, <1>2, SameRegsOut
  <1>3. ASSUME NEW v, v \in {TokRegs(p), InpRegs(p)}, NEW q \in {"ACK", "NAK", "STALL"},
               r' = RespondHsk(v, q)
        PROVE  OutRegs /\ Refuses
    <2>1. /\ v \in RegType
          /\ v.dataTglOut = r.dataTglOut /\ v.bufVldIdx = r.bufVldIdx /\ v.deadInp = r.deadInp
          /\ v.dataTglInp = r.dataTglInp
          /\ v.retryExpired = r.retryExpired /\ v.bufInpEpIdx = r.bufInpEpIdx
          /\ v.bufRWIdx = r.bufRWIdx
      BY <1>3, TokRegsOut
    <2>2. /\ r'.dataTglOut = v.dataTglOut /\ r'.bufVldIdx = v.bufVldIdx
          /\ r'.deadInp = v.deadInp /\ r'.dataTglInp = v.dataTglInp /\ r'.retryExpired = v.retryExpired
          /\ r'.bufInpEpIdx = v.bufInpEpIdx /\ r'.bufRWIdx = v.bufRWIdx
          /\ r'.state = "WAIT_TX" /\ r'.nxtState = "HSK" /\ r'.pid = q
      BY <1>3, <2>1 DEF RespondHsk, RegType
    <2> QED BY <1>3, <2>1, <2>2 DEF OutRegs, Refuses
  <1>4. CASE IdlePing(p)
    <2>1. PICK q \in {"ACK", "NAK", "STALL"} : r' = RespondHsk(TokRegs(p), q)
      BY <1>4 DEF IdlePing
    <2> QED BY <1>1, <1>3, <1>4, <2>1 DEF IdlePing
  <1>5. CASE IdleInpRefuse(p)
    <2>1. PICK q \in {"ACK", "NAK", "STALL"} : r' = RespondHsk(InpRegs(p), q)
      BY <1>5 DEF IdleInpRefuse
    <2> QED BY <1>1, <1>3, <1>5, <2>1 DEF IdleInpRefuse
  <1>6. CASE IdleInpReplay(p) \/ IdleInpZlp(p) \/ IdleInpFresh(p)
    <2> DEFINE v == SendRegs(p)
    <2>1. /\ v \in RegType
          /\ v.dataTglOut = r.dataTglOut /\ v.bufVldIdx = r.bufVldIdx /\ v.deadInp = r.deadInp
          /\ v.dataTglInp = r.dataTglInp
          /\ v.retryExpired = r.retryExpired /\ v.bufInpEpIdx = r.bufInpEpIdx
      BY TokRegsOut
    <2>2. v.state = "WAIT_TX"
      BY DEF SendRegs, InpRegs, TokRegs, RegType
    <2>3. \/ r' = [v EXCEPT !.nxtState = "WAIT_DON", !.donFlg = TRUE]
          \/ r' = [v EXCEPT !.nxtState = "DATA_REP", !.bufRWIdx = Inc(@)]
          \/ r' = [v EXCEPT !.nxtState = "WAIT_DON", !.donFlg = TRUE, !.bufInpVld = TRUE,
                            !.lstPktFullSz = @ \ {p.ep}]
          \/ r' = [v EXCEPT !.nxtState = "DATA_INP"]
      BY <1>6 DEF IdleInpReplay, IdleInpZlp, IdleInpFresh
    <2>4. p.pid = "IN"
      BY <1>6 DEF IdleInpReplay, IdleInpZlp, IdleInpFresh, InpAccepted
    <2> HIDE DEF v
    <2>5. /\ r'.dataTglOut = v.dataTglOut /\ r'.bufVldIdx = v.bufVldIdx
          /\ r'.deadInp = v.deadInp /\ r'.dataTglInp = v.dataTglInp /\ r'.retryExpired = v.retryExpired
          /\ r'.bufInpEpIdx = v.bufInpEpIdx /\ r'.state = v.state
          /\ r'.nxtState \in {"WAIT_DON", "DATA_REP", "DATA_INP"}
      BY <2>1, <2>3, ZenonT(60) DEF RegType
    <2> QED BY <1>1, <2>1, <2>2, <2>4, <2>5 DEF OutRegs, Begins, InpStates
  <1>7. CASE IdleOut(p)
    <2> DEFINE v == TokRegs(p)
    <2>1. /\ v \in RegType
          /\ v.dataTglOut = r.dataTglOut /\ v.bufVldIdx = r.bufVldIdx /\ v.deadInp = r.deadInp
          /\ v.dataTglInp = r.dataTglInp
          /\ v.retryExpired = r.retryExpired /\ v.bufInpEpIdx = r.bufInpEpIdx
          /\ v.bufRWIdx = r.bufRWIdx /\ v.tok = p.pid /\ v.epIdx = p.ep
      BY TokRegsOut
    <2>2. r' = [v EXCEPT !.dataCounter = MaxPkt - 1, !.state = "DATA_PID"]
          /\ p.pid \notin {"PING", "IN"}
      BY <1>7 DEF IdleOut
    <2> HIDE DEF v
    <2>3. /\ r'.dataTglOut = v.dataTglOut /\ r'.bufVldIdx = v.bufVldIdx
          /\ r'.deadInp = v.deadInp /\ r'.dataTglInp = v.dataTglInp /\ r'.retryExpired = v.retryExpired
          /\ r'.bufInpEpIdx = v.bufInpEpIdx /\ r'.bufRWIdx = v.bufRWIdx
          /\ r'.tok = v.tok /\ r'.epIdx = v.epIdx /\ r'.state = "DATA_PID"
      BY <2>1, <2>2 DEF RegType
    <2> QED BY <1>1, <2>1, <2>2, <2>3 DEF OutRegs, Awaits
  <1> QED BY <1>2, <1>4, <1>5, <1>6, <1>7 DEF Idle

LEMMA WaitAckRegsOut ==
  ASSUME r \in RegType, NEW p, WaitAck(p)
  PROVE  OutRegs /\ r'.state = "IDLE" /\ r'.bufRWIdx = r'.bufVldIdx
  <1>1. CASE p.pid = "ACK"
    <2> DEFINE v == invalidateBuffer(r)
    <2>1. v \in RegType
      BY InvalidateType
    <2>2. /\ v.dataTglOut = r.dataTglOut /\ v.bufVldIdx = r.bufVldIdx /\ v.deadInp = r.deadInp
          /\ v.retryExpired = r.retryExpired /\ v.bufInpEpIdx = r.bufInpEpIdx
          /\ v.bufRWIdx = r.bufVldIdx
      BY DEF invalidateBuffer, RegType
    <2>3. r' = [v EXCEPT !.dataTglInp[r.epIdx] = 1 - @, !.state = "IDLE"]
      BY <1>1 DEF WaitAck
    <2> HIDE DEF v
    <2>4. /\ r'.dataTglOut = v.dataTglOut /\ r'.bufVldIdx = v.bufVldIdx
          /\ r'.deadInp = v.deadInp /\ r'.retryExpired = v.retryExpired
          /\ r'.bufInpEpIdx = v.bufInpEpIdx /\ r'.state = "IDLE" /\ r'.bufRWIdx = v.bufRWIdx
      BY <2>1, <2>3 DEF RegType
    <2> QED BY <2>2, <2>4 DEF OutRegs, WaitAck
  <1>2. CASE p.pid # "ACK"
    <2>1. r' = [SaveBuffer(r) EXCEPT !.state = "IDLE"]
      BY <1>2 DEF WaitAck
    <2>2. /\ r'.dataTglOut = r.dataTglOut /\ r'.bufVldIdx = r.bufVldIdx
          /\ r'.deadInp = r.deadInp /\ r'.retryExpired = r.retryExpired
          /\ r'.bufInpEpIdx = r.bufInpEpIdx /\ r'.state = "IDLE" /\ r'.bufRWIdx = r.bufVldIdx
      BY <2>1 DEF SaveBuffer, RegType
    <2> QED BY <2>2 DEF OutRegs, WaitAck
  <1> QED BY <1>1, <1>2

\* A header that is no data packet, between transactions.
LEMMA HeaderOut ==
  ASSUME TypeOK, NEW S, OutInv(S), NEW p \in RxHeader, p.pid \notin DatPids, RxHdr(p), CanRx,
         HostKept, OutEnvKept, h.st \in {"idle", "ack"},
         h'.st \in {"idle", "inp", "ping", "out"},
         h'.st = "out" => /\ h'.ep = p.ep /\ p.pid = OutPkt(p.ep).tok
                          /\ p.pid \notin {"PING", "IN"}
  PROVE  OutNext(S)
  <1>1. r \in RegType
    BY DEF TypeOK, PktTypeOK
  <1>2. /\ UNCHANGED <<rd, halted, out, wire>> /\ wire = NoPkt
        /\ ReaderIdle /\ r.state \in {"IDLE", "DATA_PID", "WAIT_ACK"}
    BY DEF RxHdr, CanRx, epVars, OutInv, OutPlain
  <1>3. AnswerKept(S)
    BY NoAnswer
  <1>4. CASE r.state = "WAIT_ACK"
    <2>1. WaitAck(p)
      BY <1>4 DEF RxHdr, Idle, DataPid
    <2>2. OutRegs /\ r'.state = "IDLE" /\ r'.bufRWIdx = r'.bufVldIdx
      BY <1>1, <2>1, WaitAckRegsOut
    <2>3. Phase \in InpStates
      BY <1>4 DEF Phase, InpStates
    <2> QED BY <1>2, <2>2, <2>3, InpOut
  <1>5. CASE r.state # "WAIT_ACK"
    <2>1. /\ OutRegs /\ mem' = mem
          /\ \/ r' = r /\ r.state = "IDLE"
             \/ h'.st # "out" /\ Refuses
             \/ h'.st # "out" /\ Begins
             \/ Awaits(p)
             \/ r'.state = "IDLE" /\ r'.bufRWIdx = r.bufRWIdx
      <3>1. CASE Idle(p)
        BY <1>1, <3>1, IdleOutRegs DEF Idle
      <3>2. CASE DataPid(p)
        <4>1. r' = [r EXCEPT !.state = "IDLE"] /\ mem' = mem
          BY <3>2 DEF DataPid, DataPidDrain, DataPidStore, DataPidOther
        <4>2. /\ r'.dataTglOut = r.dataTglOut /\ r'.bufVldIdx = r.bufVldIdx
              /\ r'.deadInp = r.deadInp /\ r'.dataTglInp = r.dataTglInp /\ r'.retryExpired = r.retryExpired
              /\ r'.bufInpEpIdx = r.bufInpEpIdx /\ r'.state = "IDLE" /\ r'.bufRWIdx = r.bufRWIdx
          BY <1>1, <4>1 DEF RegType
        <4> QED BY <4>1, <4>2 DEF OutRegs
      <3> QED BY <1>5, <3>1, <3>2 DEF RxHdr, WaitAck
    <2>2. /\ r.bufRWIdx = r.bufVldIdx /\ Phase \in {"IDLE", "DATA_PID"}
      BY <1>2, <1>5 DEF OutInv, BufOutInv, Phase, InpStates
    <2>3. r'.bufVldIdx = r.bufVldIdx
      BY <2>1 DEF OutRegs
    <2>4. ReaderIdle'
      BY <1>2, <2>3, IdleKept
    <2>5. BufOutInv'
      BY <1>2, <1>5, <2>1, <2>2, <2>3, <2>4 DEF BufOutInv, Phase, InpStates, Refuses, Begins, Awaits
    <2>6. TransInv'
      <3>1. h'.st = "out" => wire' = NoPkt /\ (r'.state = "IDLE" \/ (r'.state = "DATA_PID" /\ InStep'))
        <4>1. OutPkt(p.ep)' = OutPkt(p.ep)
          BY DEF OutPkt, HostKept, OutEnvKept
        <4> QED BY <1>2, <2>1, <4>1 DEF Awaits, InStep
      <3>2. Phase' \in {"IDLE", "DATA_PID", "HSK"} \union InpStates
            /\ (Phase' = "HSK" => r'.pid # "NYET")
        BY <2>1 DEF Phase, Refuses, Begins, Awaits, InpStates
      <3> QED BY <3>1, <3>2 DEF TransInv, InpStates
    <2> QED BY <1>2, <1>3, <2>1, <2>5, <2>6, StillOut
  <1> QED BY <1>4, <1>5

\* The host changes its state without the engine noticing.
LEMMA UnseenOut ==
  ASSUME TypeOK, NEW S, OutInv(S), HostKept, OutEnvKept, AnswerKept(S),
         UNCHANGED <<r, rd, mem, out, halted>>,
         h.st # "pld", h'.st \notin {"out", "pld", "hsk"}
  PROVE  OutNext(S)
  <1>1. TransInv'
    BY DEF OutInv, TransInv, Phase
  <1> QED BY <1>1, RestOut

LEMMA HostTokOut ==
  ASSUME TypeOK, NEW S, OutInv(S), NEW e \in EP, HostIn(e) \/ HostPing(e) \/ HostOut(e)
  PROVE  OutNext(S)
  <1>1. HostKept /\ h.st = "idle" /\ CanRx
    BY DEF HostIn, HostPing, HostOut, HostKept
  <1>2. PICK q \in {"IN", "PING", "OUT", "SETUP"}, st \in {"inp", "ping", "out"} :
          /\ SendTok(q, e) /\ h' = [st |-> st, ep |-> e]
          /\ st = "out" => More(e) /\ q = OutPkt(e).tok /\ q \in {"OUT", "SETUP"}
    <2>1. CASE HostIn(e)
      BY <2>1 DEF HostIn
    <2>2. CASE HostPing(e)
      BY <2>2 DEF HostPing
    <2>3. CASE HostOut(e)
      <3>1. More(e) /\ OutPkt(e) \in Packet
        BY <2>3, MorePkt DEF HostOut
      <3>2. OutPkt(e).tok \in {"OUT", "SETUP"}
        BY <3>1 DEF Packet
      <3> QED BY <2>3, <3>1, <3>2 DEF HostOut
    <2> QED BY <2>1, <2>2, <2>3
  <1>3. CASE RxHdr(Hdr(q, e)) /\ UNCHANGED faultVars
    <2>1. PICK p \in RxHeader : p = Hdr(q, e)
      <3>1. q \in Pids
        BY DEF Pids, TokPids
      <3> QED BY <3>1, HdrType
    <2>2. p.pid = q /\ p.ep = e /\ p.pid \notin DatPids
      BY <2>1, MarkerAssumption DEF Hdr, DatPids
    <2>3. OutEnvKept
      BY <1>3, OutEnvLose
    <2> QED BY <1>1, <1>2, <1>3, <2>1, <2>2, <2>3, HeaderOut
  <1>4. CASE Lose("tok") /\ UNCHANGED pktVars
    <2>1. OutEnvKept
      BY <1>4, OutEnvLose
    <2>2. st # "out"
      BY <1>2, <1>4, MorePkt DEF OutInv, OutPlain, Lose
    <2>3. AnswerKept(S)
      BY <1>1, <1>2, <2>2, NoAnswer
    <2> QED BY <1>1, <1>2, <1>4, <2>1, <2>2, <2>3, UnseenOut DEF pktVars
  <1> QED BY <1>2, <1>3, <1>4 DEF SendTok

LEMMA HostAckOut ==
  ASSUME TypeOK, NEW S, OutInv(S), HostAck \/ HostSof
  PROVE  OutNext(S)
  <1>1. /\ HostKept /\ h.st \in {"idle", "ack"} /\ h'.st = "idle" /\ CanRx
        /\ tokDat \in EP \union {NoPkt}
    BY DEF HostAck, HostSof, HostKept, hostVars, TypeOK
  <1>2. CASE \E q \in {"ACK", "SOF"} : RxHdr(Hdr(q, tokDat)) /\ UNCHANGED faultVars
    <2>1. PICK q \in {"ACK", "SOF"} : RxHdr(Hdr(q, tokDat)) /\ UNCHANGED faultVars
      BY <1>2
    <2>2. PICK p \in RxHeader : p = Hdr(q, tokDat)
      <3>1. q \in Pids
        BY DEF Pids, TokPids, HskPids
      <3> QED BY <1>1, <3>1, HdrType
    <2>3. p.pid = q /\ p.pid \notin DatPids
      BY <2>2 DEF Hdr, DatPids
    <2>4. OutEnvKept
      BY <2>1, OutEnvLose
    <2> QED BY <1>1, <2>1, <2>2, <2>3, <2>4, HeaderOut
  <1>3. CASE Lose("ack") /\ UNCHANGED pktVars
    <2>1. OutEnvKept
      BY <1>3, OutEnvLose
    <2>2. AnswerKept(S)
      BY <1>1, NoAnswer
    <2> QED BY <1>1, <1>3, <2>1, <2>2, UnseenOut DEF pktVars
  <1> QED BY <1>2, <1>3 DEF HostAck, HostSof
-----------------------------------------------------------------------------
(* The data of an OUT transaction.                                         *)
LEMMA HostOutPidOut ==
  ASSUME TypeOK, NEW S, OutInv(S), HostOutPid
  PROVE  OutNext(S)
  <1>1. /\ HostKept /\ h.st = "out" /\ CanRx /\ wire = NoPkt /\ ReaderIdle
        /\ r \in RegType /\ tokDat \in EP \union {NoPkt} /\ h.ep \in EP /\ h'.ep = h.ep
        /\ More(h.ep) /\ \A t : [h EXCEPT !.st = t].st = t
    BY DEF HostOutPid, HostKept, TypeOK, PktTypeOK, CanRx, OutInv, OutPlain
  <1>2. TransInv /\ BufOutInv /\ SureInv(S) /\ TookInv(S)
    BY DEF OutInv
  <1>3. CASE Lose("pid") /\ UNCHANGED pktVars /\ h'.st = "hsk"
    <2>1. OutEnvKept
      BY <1>3, OutEnvLose
    <2>2. Phase' = Phase /\ r.state \in {"IDLE", "DATA_PID"} /\ r' = r /\ wire' = NoPkt
      BY <1>1, <1>2, <1>3 DEF Phase, pktVars, TransInv
    <2>3. AnswerKept(S)
      BY <1>1, <2>2 DEF AnswerKept, Positive, Phase
    <2>4. TransInv'
      BY <1>3, <2>2 DEF TransInv, Phase
    <2> QED BY <1>1, <1>3, <2>1, <2>3, <2>4, RestOut DEF pktVars
  <1>4. CASE RxHdr(Hdr(OutPid(h.ep), tokDat)) /\ UNCHANGED faultVars /\ h'.st = "pld"
    <2>1. OutPid(h.ep) \in DatPids
      BY <1>1, PidTypes DEF OutPid, TypeOK, DatPids
    <2>2. PICK p \in RxHeader : p = Hdr(OutPid(h.ep), tokDat)
      BY <1>1, <2>1, PidTypes, HdrType
    <2>3. p.pid = OutPid(h.ep) /\ p.pid \in DatPids
      BY <2>1, <2>2 DEF Hdr
    <2>4. OutEnvKept
      BY <1>4, OutEnvLose
    <2>5. /\ UNCHANGED <<rd, halted, out, wire>>
          /\ Idle(p) \/ DataPid(p) \/ WaitAck(p)
      BY <1>4, <2>2 DEF RxHdr, epVars
    <2>6. AnswerKept(S)
      BY <1>4, <1>1, NoAnswer
    <2>7. r.state \in {"IDLE", "DATA_PID"} /\ r.bufRWIdx = r.bufVldIdx
      BY <1>1, <1>2 DEF TransInv, BufOutInv, Phase, InpStates
    <2>8. CASE Idle(p)
      <3>1. /\ OutRegs /\ mem' = mem /\ r'.state \in {"IDLE", "DATA_PID"}
            /\ r'.bufRWIdx = r.bufRWIdx
        <4>1. p.pid \notin {"PING", "IN"}
          BY <2>3 DEF DatPids
        <4> QED BY <1>1, <2>8, <4>1, IdleOutRegs DEF Idle, Awaits
      <3>2. ReaderIdle' /\ r'.bufVldIdx = r.bufVldIdx
        BY <1>1, <2>5, <3>1, IdleKept DEF OutRegs
      <3>3. BufOutInv'
        BY <2>7, <3>1, <3>2 DEF BufOutInv, Phase
      <3>4. TransInv'
        BY <1>1, <1>4, <2>5, <3>1 DEF TransInv, Phase
      <3> QED BY <1>1, <2>4, <2>5, <2>6, <3>1, <3>3, <3>4, StillOut
    <2>9. CASE DataPid(p)
      <3>1. InStep /\ r.state = "DATA_PID"
        BY <1>1, <1>2, <2>9 DEF DataPid, TransInv
      <3>2. InStep' <=> r'.epIdx = r.epIdx /\ r'.tok = r.tok
        BY <1>1, <2>4, <3>1 DEF InStep, OutPkt, HostKept, OutEnvKept
      <3> DEFINE e == h.ep
      <3>3. CASE DataPidDrain(p)
        <4>1. /\ r' = [r EXCEPT !.pid = DataPidRefusal(p), !.state = "DRAIN"]
              /\ mem' = mem /\ DataPidRefusal(p) # "none"
          BY <3>3 DEF DataPidDrain
        <4>2. /\ OutRegs /\ r'.bufRWIdx = r.bufRWIdx /\ r'.epIdx = r.epIdx /\ r'.tok = r.tok
              /\ r'.state = "DRAIN" /\ r'.pid = DataPidRefusal(p)
          BY <1>1, <4>1 DEF RegType, OutRegs
        <4>3. DataPidRefusal(p) \in {"STALL", "ACK", "NAK"}
              /\ (DataPidRefusal(p) = "ACK" => /\ r.epIdx \notin halted.out
                                               /\ ~sequenceOutMatch(p))
          BY <4>1 DEF DataPidRefusal, HaltedOut
        <4>4. ~sequenceOutMatch(p) => r.tok # "SETUP" /\ hTglOut[e] # r.dataTglOut[e]
          BY <2>3, <3>1 DEF sequenceOutMatch, OutPid, InStep
        <4>5. ReaderIdle' /\ r'.bufVldIdx = r.bufVldIdx
          BY <1>1, <2>5, <4>2, IdleKept DEF OutRegs
        <4>6. BufOutInv'
          BY <2>7, <4>2, <4>5 DEF BufOutInv, Phase
        <4>7. TransInv'
          <5>1. Phase' = "DRAIN" /\ h'.st = "pld" /\ wire' = NoPkt /\ halted' = halted
                /\ hTglOut' = hTglOut /\ r'.dataTglOut = r.dataTglOut
            BY <1>1, <1>4, <2>5, <4>2 DEF Phase, HostKept, OutRegs
          <5> QED BY <1>1, <3>1, <3>2, <4>2, <4>3, <4>4, <5>1 DEF TransInv, InStep
        <4> QED BY <1>1, <2>4, <2>5, <2>6, <4>1, <4>2, <4>6, <4>7, StillOut
      <3>4. CASE DataPidStore(p)
        <4>1. /\ r' = [r EXCEPT !.pid = "ACK", !.state = "DATA_OUT", !.bufRWIdx = Inc(@)]
              /\ mem' = [mem EXCEPT ![r.bufRWIdx] = HdrWord(r.tok, r.epIdx)]
              /\ ~HaltedOut(r.epIdx) /\ sequenceOutMatch(p)
          BY <3>4 DEF DataPidStore, DataPidRefusal
        <4>2. /\ OutRegs /\ r'.bufRWIdx = Inc(r.bufVldIdx) /\ r'.epIdx = r.epIdx /\ r'.tok = r.tok
              /\ r'.state = "DATA_OUT" /\ r'.pid = "ACK"
          BY <1>1, <2>7, <4>1 DEF RegType, OutRegs
        <4>3. sequenceOutMatch(p) => (r.tok = "SETUP" \/ hTglOut[e] = r.dataTglOut[e])
          <5>1. hTglOut[e] \in {0, 1} /\ r.dataTglOut[e] \in {0, 1}
            BY <1>1 DEF TypeOK, RegType
          <5> QED BY <2>3, <3>1, <5>1 DEF sequenceOutMatch, OutPid, InStep, DatPid
        <4>4. ReaderIdle' /\ r'.bufVldIdx = r.bufVldIdx
          BY <1>1, <2>5, <4>2, IdleKept DEF OutRegs
        <4>5. mem'[r.bufVldIdx] = HdrWord(r.tok, r.epIdx)
          <5>1. mem \in [Idx -> Words] /\ r.bufVldIdx \in Idx
            BY <1>1 DEF TypeOK, PktTypeOK, RegType
          <5> QED BY <2>7, <4>1, <5>1
        <4>6. BufOutInv'
          BY <4>2, <4>4, <4>5 DEF BufOutInv, Phase
        <4>7. TransInv'
          <5>1. Phase' = "DATA_OUT" /\ h'.st = "pld" /\ wire' = NoPkt /\ halted' = halted
                /\ hTglOut' = hTglOut /\ r'.dataTglOut = r.dataTglOut
            BY <1>1, <1>4, <2>5, <4>2 DEF Phase, HostKept, OutRegs
          <5> QED BY <1>1, <3>1, <3>2, <4>1, <4>2, <4>3, <5>1
                  DEF TransInv, InStep, HaltedOut
        <4> QED BY <1>1, <2>4, <2>5, <2>6, <4>2, <4>6, <4>7, StillOut
      <3> QED BY <2>3, <2>9, <3>3, <3>4 DEF DataPid, DataPidOther
    <2> QED BY <2>5, <2>7, <2>8, <2>9 DEF WaitAck
  <1> QED BY <1>3, <1>4, <1>1 DEF HostOutPid

\* The words written behind the header at v.
LEMMA StoredWords ==
  ASSUME mem \in [Idx -> Words], NEW v \in Idx, NEW s \in Seq(Byte), Len(s) <= MaxPkt
  PROVE  /\ Stored(Inc(v), s)[v] = mem[v]
         /\ \A i \in 1 .. Len(s) : Stored(Inc(v), s)[Ahead(Inc(v), i - 1)] = DatWord(s[i])
  <1>0. Len(s) \in Nat /\ Len(s) + 1 < BufSize /\ v \in 0 .. BufSize - 1
    BY HeaderAssumption DEF Idx
  <1>1. PICK u \in 0 .. BufSize - 1 : u = Inc(v)
    <2>1. Inc(v) \in Idx
      BY WrapIdx
    <2> QED BY <2>1 DEF Idx
  <1>2. u = IF v + 1 < BufSize THEN v + 1 ELSE v + 1 - BufSize
    <2>1. 1 \in 0 .. BufSize - 1
      BY <1>0
    <2> QED BY <1>0, <1>1, <2>1, AheadValue DEF Inc
  <1>3. ASSUME NEW j \in Idx
        PROVE  Stored(u, s)[j] = LET k == (j + BufSize - u) % BufSize
                                 IN  IF k < Len(s) THEN DatWord(s[k + 1]) ELSE mem[j]
    BY DEF Stored
  <1>4. (v + BufSize - u) % BufSize = BufSize - 1
    <2>1. PICK x \in Nat : x = v + BufSize - u
      BY <1>0
    <2>2. x = BufSize - 1 \/ x = BufSize + BufSize - 1
      BY <1>0, <1>2, <2>1
    <2>3. x % BufSize = BufSize - 1
      <3>1. CASE x = BufSize - 1
        <4>1. x < BufSize
          BY <3>1
        <4> QED BY <3>1, <4>1, ModOnce
      <3>2. CASE x = BufSize + BufSize - 1
        <4>1. BufSize <= x /\ x < BufSize + BufSize /\ x - BufSize = BufSize - 1
          BY <3>2
        <4> QED BY <4>1, ModOnce
      <3> QED BY <2>2, <3>1, <3>2
    <2> QED BY <2>1, <2>3
  <1>5. Stored(u, s)[v] = mem[v]
    <2>1. ~(BufSize - 1 < Len(s))
      BY <1>0
    <2> QED BY <1>3, <1>4, <2>1
  <1>6. ASSUME NEW i \in 1 .. Len(s)
        PROVE  Stored(u, s)[Ahead(u, i - 1)] = DatWord(s[i])
    <2>1. PICK j \in 0 .. BufSize - 1 : j = i - 1
      BY <1>0
    <2>2. Ahead(u, j) = IF u + j < BufSize THEN u + j ELSE u + j - BufSize
      BY AheadValue DEF Ahead
    <2>3. Ahead(u, j) \in Idx
      BY <2>2 DEF Idx
    <2>4. (Ahead(u, j) + BufSize - u) % BufSize = j
      <3>1. PICK x \in Nat : x = Ahead(u, j) + BufSize - u
        BY <2>2
      <3>2. x = j \/ x = BufSize + j
        BY <2>2, <3>1
      <3>3. x % BufSize = j
        <4>1. CASE x = j
          <5>1. x < BufSize
            BY <4>1
          <5> QED BY <4>1, <5>1, ModOnce
        <4>2. CASE x = BufSize + j
          <5>1. BufSize <= x /\ x < BufSize + BufSize /\ x - BufSize = j
            BY <4>2
          <5> QED BY <5>1, ModOnce
        <4> QED BY <3>2, <4>1, <4>2
      <3> QED BY <3>1, <3>3
    <2>5. j < Len(s) /\ j + 1 = i
      BY <1>0, <2>1
    <2> QED BY <1>3, <2>1, <2>3, <2>4, <2>5
  <1> QED BY <1>1, <1>5, <1>6

LEMMA JoinItems ==
  ASSUME NEW s \in Seq(Delivery), NEW t \in Seq(Delivery)
  PROVE  /\ s \o t \in Seq(Delivery) /\ Len(s \o t) = Len(s) + Len(t) /\ s \o <<>> = s
         /\ \A i \in 1 .. Len(s) : (s \o t)[i] = s[i]
         /\ \A i \in 1 .. Len(t) : (s \o t)[Len(s) + i] = t[i]
  OBVIOUS

\* What is known when the payload of a packet comes.
LEMMA PayloadFacts ==
  ASSUME TypeOK, NEW S, OutInv(S), HostOutPayload
  PROVE  /\ h.st = "pld" /\ h'.st = "hsk" /\ h'.ep = h.ep /\ HostKept /\ More(h.ep)
         /\ h.ep \in EP /\ wire = NoPkt /\ r \in RegType /\ OutPkt(h.ep) \in Packet
         /\ Len(OutPkt(h.ep).dat) \in Nat /\ Len(OutPkt(h.ep).dat) <= MaxPkt
         /\ r.state \in {"IDLE", "DATA_PID", "DATA_OUT", "DRAIN"}
         /\ r.state \in {"DATA_OUT", "DRAIN"} =>
              /\ RxData(OutPkt(h.ep).dat, FALSE) /\ UNCHANGED faultVars
              /\ InStep /\ ReaderIdle
         /\ \A e \in EP : ~Positive(e)
  <1>1. /\ h.st = "pld" /\ h \in [st : HostStates, ep : EP] /\ h' = [h EXCEPT !.st = "hsk"]
        /\ HostKept /\ More(h.ep) /\ r \in RegType
    BY DEF HostOutPayload, TypeOK, PktTypeOK, HostKept
  <1>2. h'.st = "hsk" /\ h'.ep = h.ep /\ h.ep \in EP
    BY <1>1
  <1>3. TransInv /\ BufOutInv /\ OutPlain(env)
    BY DEF OutInv
  <1>4. wire = NoPkt /\ r.state \in {"IDLE", "DATA_PID", "DATA_OUT", "DRAIN"}
    BY <1>1, <1>3 DEF TransInv
  <1>5. OutPkt(h.ep) \in Packet /\ Len(OutPkt(h.ep).dat) <= MaxPkt
    BY <1>1, <1>2, <1>3, MorePkt
  <1>6. OutPkt(h.ep).dat \in Seq(Byte)
    BY <1>5 DEF Packet
  <1>7. r.state \in {"DATA_OUT", "DRAIN"} =>
              /\ RxData(OutPkt(h.ep).dat, FALSE) /\ UNCHANGED faultVars
              /\ InStep /\ ReaderIdle
    BY <1>3 DEF HostOutPayload, OutPlain, Lose, TransInv, BufOutInv, Phase
  <1>8. \A e \in EP : ~Positive(e)
    BY <1>1 DEF Positive
  <1>9. Len(OutPkt(h.ep).dat) \in Nat
    BY <1>6
  <1>10. h.st = "pld" /\ HostKept /\ More(h.ep) /\ r \in RegType
    BY <1>1
  <1> QED BY <1>2, <1>4, <1>5, <1>7, <1>8, <1>9, <1>10

\* The engine has discarded the packet.
LEMMA PayloadDrain ==
  ASSUME TypeOK, NEW S, OutInv(S), HostOutPayload, r.state = "DRAIN"
  PROVE  OutNext(S)
  <1>1. /\ h.st = "pld" /\ h'.st = "hsk" /\ h'.ep = h.ep /\ HostKept /\ More(h.ep)
        /\ h.ep \in EP /\ wire = NoPkt /\ r \in RegType /\ InStep /\ ReaderIdle
        /\ RxData(OutPkt(h.ep).dat, FALSE) /\ UNCHANGED faultVars
        /\ \A e \in EP : ~Positive(e)
    BY PayloadFacts
  <1>2. OutEnvKept /\ mem' = mem /\ UNCHANGED <<rd, halted, out, wire>>
    BY <1>1, OutEnvLose DEF RxData, epVars
  <1>3. r' = [[r EXCEPT !.bufRWIdx = r.bufRWIdx] EXCEPT !.nxtState = "HSK", !.state = "WAIT_TX"]
    BY <1>1 DEF RxData
  <1>4. /\ OutRegs /\ r'.bufRWIdx = r.bufRWIdx /\ r'.state = "WAIT_TX" /\ r'.nxtState = "HSK"
        /\ r'.pid = r.pid /\ r'.tok = r.tok /\ r'.epIdx = r.epIdx
    BY <1>1, <1>3 DEF OutRegs, RegType
  <1>5. /\ TransInv /\ BufOutInv /\ SureInv(S) /\ TookInv(S) /\ OutPlain(env)
        /\ ReadInv /\ GotInv
    BY DEF OutInv
  <1>6. r.pid = "ACK" => /\ OutPkt(h.ep).tok # "SETUP" /\ Took(h.ep)
                         /\ hTglOut[h.ep] # r.dataTglOut[h.ep] /\ h.ep \notin halted.out
    <2>1. Phase = "DRAIN"
      BY DEF Phase
    <2> QED BY <1>1, <1>5, <2>1 DEF TransInv, InStep, Took
  <1>7. ASSUME NEW e \in EP
        PROVE  /\ More(e)' <=> More(e)
               /\ OutPkt(e)' = OutPkt(e) /\ hTglOut'[e] = hTglOut[e]
               /\ r'.dataTglOut[e] = r.dataTglOut[e]
               /\ Positive(e)' <=> e = h.ep /\ r.pid = "ACK"
    <2>1. Positive(e)' <=> e = h.ep /\ r.pid = "ACK"
      BY <1>1, <1>2, <1>4 DEF Positive, Phase
    <2> QED BY <1>2, <1>4, <1>1, <2>1 DEF More, OutPkt, HostKept, OutEnvKept, OutRegs
  <1>8. \A e \in EP : Took(e)' <=> Took(e)
    BY <1>1, <1>6, <1>7 DEF Took
  <1>9. \A e \in EP : Total(e)' = Total(e)
    BY <1>1, <1>7, <1>8 DEF Total, HostKept
  <1>10. TookInv(S)'
    BY <1>1, <1>5, <1>6, <1>7, <1>8 DEF TookInv
  <1>11. ReadInv' /\ GotInv'
    BY <1>2, <1>4, <1>5, <1>9, ReadFrame DEF OutRegs
  <1>12. OutPlain(env') /\ SureInv(S)'
    BY <1>2, <1>4, <1>5, PlainFrame, SureFrame
  <1>13. BufOutInv'
    <2>1. r.bufRWIdx = r.bufVldIdx
      BY <1>5 DEF BufOutInv, Phase, InpStates
    <2> QED BY <1>4, <2>1 DEF BufOutInv, Phase, OutRegs
  <1>14. TransInv'
    <2>1. Phase = "DRAIN" /\ Phase' = "HSK" /\ h.ep = r.epIdx
      BY <1>1, <1>4 DEF Phase, InStep
    <2>2. r.pid # "NYET"
      BY <1>5, <2>1 DEF TransInv
    <2> QED BY <1>1, <1>2, <1>4, <1>6, <2>1, <2>2 DEF TransInv
  <1>15. (NoInpInv /\ SetupTgl) => SetupTgl'
    <2>1. hTglInp' = hTglInp /\ r'.dataTglInp = r.dataTglInp
      BY <1>1, <1>4 DEF HostKept, OutRegs
    <2> QED BY <1>1, <1>6, <1>7, <1>8, <2>1 DEF SetupTgl
  <1> QED BY <1>10, <1>11, <1>12, <1>13, <1>14, <1>15 DEF OutInv, OutNext

\* The registers after the packet was stored.
StoreRegs(n, setup) ==
  /\ r'.bufVldIdx = (r.bufRWIdx + n) % BufSize /\ r'.bufRWIdx = r'.bufVldIdx
  /\ r'.state = "WAIT_TX" /\ r'.nxtState = "HSK"
  /\ r'.pid = r.pid /\ r'.tok = r.tok /\ r'.epIdx = r.epIdx
  /\ r'.dataTglOut[r.epIdx] = (IF setup THEN 1 ELSE 1 - r.dataTglOut[r.epIdx])
  /\ \A f \in EP \ {r.epIdx} : r'.dataTglOut[f] = r.dataTglOut[f]
  /\ r'.dataTglInp[r.epIdx] = (IF setup THEN 1 ELSE r.dataTglInp[r.epIdx])
  /\ \A f \in EP \ {r.epIdx} : r'.dataTglInp[f] = r.dataTglInp[f]
  /\ r'.deadInp = r.deadInp /\ r'.retryExpired = r.retryExpired
  /\ r'.bufInpEpIdx = r.bufInpEpIdx

LEMMA StoreFacts ==
  ASSUME r \in RegType, r.state = "DATA_OUT", NEW s \in Seq(Byte), RxData(s, FALSE)
  PROVE  /\ StoreRegs(Len(s), r.tok = "SETUP")
         /\ mem' = Stored(r.bufRWIdx, s) /\ UNCHANGED <<rd, halted, out, wire>>
  <1>1. PICK rw \in Idx : rw = (r.bufRWIdx + Len(s)) % BufSize
    <2>1. r.bufRWIdx + Len(s) \in Nat
      BY DEF RegType, Idx
    <2> QED BY <2>1 DEF Idx
  <1>2. PICK a \in {0, 1} : a = IF r.tok = "SETUP" THEN 1 ELSE 1 - r.dataTglOut[r.epIdx]
    <2>1. r.dataTglOut[r.epIdx] \in {0, 1}
      BY DEF RegType
    <2> QED BY <2>1
  <1>3. PICK b \in {0, 1} : b = IF r.tok = "SETUP" THEN 1 ELSE r.dataTglInp[r.epIdx]
    <2>1. r.dataTglInp[r.epIdx] \in {0, 1}
      BY DEF RegType
    <2> QED BY <2>1
  <1>4. PICK e \in EP : e = r.epIdx
    BY DEF RegType
  <1>5. mem' = Stored(r.bufRWIdx, s) /\ UNCHANGED <<rd, halted, out, wire>>
    BY DEF RxData, epVars
  <1> DEFINE v == [r EXCEPT !.bufRWIdx = rw]
  <1>6. /\ v \in RegType /\ v.bufRWIdx = rw /\ v.pid = r.pid /\ v.tok = r.tok /\ v.epIdx = e
        /\ v.dataTglOut = r.dataTglOut /\ v.dataTglInp = r.dataTglInp
        /\ v.deadInp = r.deadInp /\ v.retryExpired = r.retryExpired
        /\ v.bufInpEpIdx = r.bufInpEpIdx
    BY <1>4 DEF RegType
  <1>7. r' = [v EXCEPT !.bufVldIdx = rw, !.nxtState = "HSK", !.state = "WAIT_TX",
                       !.dataTglOut[e] = IF r.tok = "SETUP" THEN 1 ELSE 1 - @,
                       !.dataTglInp[e] = IF r.tok = "SETUP" THEN 1 ELSE @]
    BY <1>1, <1>4 DEF RxData
  <1>8. v.dataTglOut[e] = r.dataTglOut[e] /\ v.dataTglInp[e] = r.dataTglInp[e]
    BY <1>6
  <1> HIDE DEF v
  <1>9. r' = [v EXCEPT !.bufVldIdx = rw, !.nxtState = "HSK", !.state = "WAIT_TX",
                       !.dataTglOut[e] = a, !.dataTglInp[e] = b]
    BY <1>2, <1>3, <1>4, <1>7, <1>8
  <1>10. /\ r'.bufVldIdx = rw /\ r'.bufRWIdx = v.bufRWIdx
         /\ r'.state = "WAIT_TX" /\ r'.nxtState = "HSK"
         /\ r'.pid = v.pid /\ r'.tok = v.tok /\ r'.epIdx = v.epIdx
         /\ r'.deadInp = v.deadInp /\ r'.retryExpired = v.retryExpired
         /\ r'.bufInpEpIdx = v.bufInpEpIdx
    BY <1>6, <1>9 DEF RegType
  <1>11. /\ r'.dataTglOut = [v.dataTglOut EXCEPT ![e] = a]
         /\ r'.dataTglInp = [v.dataTglInp EXCEPT ![e] = b]
    BY <1>6, <1>9 DEF RegType
  <1>12. /\ r'.dataTglOut[e] = a /\ \A f \in EP \ {e} : r'.dataTglOut[f] = r.dataTglOut[f]
         /\ r'.dataTglInp[e] = b /\ \A f \in EP \ {e} : r'.dataTglInp[f] = r.dataTglInp[f]
    BY <1>6, <1>11 DEF RegType
  <1> QED BY <1>1, <1>2, <1>3, <1>4, <1>5, <1>6, <1>10, <1>12 DEF StoreRegs

\* The engine has got the packet and releases it to the reader.
LEMMA PayloadStore ==
  ASSUME TypeOK, NEW S, OutInv(S), HostOutPayload, r.state = "DATA_OUT"
  PROVE  OutNext(S)
  <1>1. /\ h.st = "pld" /\ h'.st = "hsk" /\ h'.ep = h.ep /\ HostKept /\ More(h.ep)
        /\ h.ep \in EP /\ wire = NoPkt /\ r \in RegType /\ InStep /\ ReaderIdle
        /\ RxData(OutPkt(h.ep).dat, FALSE) /\ UNCHANGED faultVars
        /\ \A e \in EP : ~Positive(e)
    BY PayloadFacts
  <1>2. PICK e \in EP, pkt \in Packet : e = h.ep /\ pkt = OutPkt(h.ep)
    BY <1>1, PayloadFacts
  <1>3. PICK s \in Seq(Byte), n \in Nat, setup \in BOOLEAN :
           s = pkt.dat /\ n = Len(s) /\ setup = (pkt.tok = "SETUP")
    <2>1. PICK s \in Seq(Byte) : s = pkt.dat
      BY DEF Packet
    <2>2. Len(s) \in Nat /\ (pkt.tok = "SETUP") \in BOOLEAN
      OBVIOUS
    <2> QED BY <2>1, <2>2
  <1>4. n <= MaxPkt /\ r.epIdx = e /\ r.tok = pkt.tok
    BY <1>1, <1>2, <1>3, PayloadFacts DEF InStep
  <1>5. /\ StoreRegs(n, setup) /\ mem' = Stored(r.bufRWIdx, s)
        /\ UNCHANGED <<rd, halted, out, wire>>
    BY <1>1, <1>2, <1>3, <1>4, StoreFacts
  <1>6. OutEnvKept
    BY <1>1, OutEnvLose
  <1>7. /\ TransInv /\ BufOutInv /\ SureInv(S) /\ TookInv(S) /\ OutPlain(env)
        /\ ReadInv /\ GotInv
    BY DEF OutInv
  <1>8. /\ r.pid = "ACK" /\ e \notin halted.out
        /\ setup \/ hTglOut[e] = r.dataTglOut[e]
        /\ r.bufRWIdx = Inc(r.bufVldIdx) /\ mem[r.bufVldIdx] = HdrWord(r.tok, e)
    BY <1>2, <1>3, <1>4, <1>7 DEF TransInv, BufOutInv, Phase
  <1>9. ASSUME NEW f \in EP
        PROVE  /\ More(f)' <=> More(f)
               /\ OutPkt(f)' = OutPkt(f) /\ hTglOut'[f] = hTglOut[f] /\ sent'[f] = sent[f]
               /\ f # e => r'.dataTglOut[f] = r.dataTglOut[f]
               /\ Positive(f)' <=> f = e
    <2>1. Positive(f)' <=> f = e
      BY <1>1, <1>2, <1>5, <1>8 DEF Positive, Phase, StoreRegs
    <2>2. f # e => r'.dataTglOut[f] = r.dataTglOut[f]
      BY <1>4, <1>5 DEF StoreRegs
    <2> QED BY <1>1, <1>6, <2>1, <2>2 DEF More, OutPkt, HostKept, OutEnvKept
  <1>10. ~Took(e) /\ Took(e)'
    <2>1. ~Took(e)
      BY <1>1, <1>2, <1>3, <1>8 DEF Took
    <2>2. CASE setup
      BY <1>1, <1>2, <1>3, <1>9, <2>1, <2>2 DEF Took
    <2>3. CASE ~setup
      <3>1. r'.dataTglOut[e] = 1 - r.dataTglOut[e] /\ r.dataTglOut[e] \in {0, 1}
        BY <1>1, <1>4, <1>5, <2>3 DEF StoreRegs, RegType
      <3>2. hTglOut'[e] # r'.dataTglOut[e]
        BY <1>8, <1>9, <2>3, <3>1
      <3> QED BY <1>1, <1>2, <1>3, <1>9, <2>1, <2>3, <3>2 DEF Took
    <2> QED BY <2>1, <2>2, <2>3
  <1>11. \A f \in EP \ {e} : Took(f)' <=> Took(f)
    BY <1>1, <1>9 DEF Took
  <1>12. TookInv(S)'
    <2>1. setup => r'.dataTglOut[e] = 1
      BY <1>4, <1>5 DEF StoreRegs
    <2>2. OutPkt(e)' = pkt
      BY <1>2, <1>9
    <2> QED BY <1>1, <1>3, <1>7, <1>9, <1>10, <1>11, <2>1, <2>2 DEF TookInv
  <1>13. PICK p \in Seq(Delivery), q \in Seq(Delivery) :
            /\ p = Total(e) /\ q = PktItems(pkt) /\ p = sent[e]
            /\ Total(e)' = p \o q /\ out[e] \in Seq(Delivery)
    <2>2. PktItems(pkt) \in Seq(Delivery) /\ sent[e] \in Seq(Delivery) /\ out[e] \in Seq(Delivery)
      BY PktItemsType, OutTypes
    <2>3. Total(e) = sent[e]
      <3>1. Total(e) = sent[e] \o <<>>
        BY <1>10 DEF Total
      <3> QED BY <2>2, <3>1, JoinItems
    <2>4. Total(e)' = sent[e] \o PktItems(pkt)
      BY <1>2, <1>9, <1>10 DEF Total
    <2> QED BY <2>2, <2>3, <2>4
  <1>14. PICK end \in BOOLEAN : end = (n < MaxPkt \/ setup)
    OBVIOUS
  <1>15. /\ Len(q) = n + (IF end THEN 1 ELSE 0)
         /\ \A i \in 1 .. n : q[i] = [port |-> PortOf(setup), item |-> s[i]]
         /\ end => q[n + 1] = [port |-> PortOf(setup), item |-> DON]
    BY <1>3, <1>13, <1>14, PktItemsType DEF PortOf
  <1>16. /\ rd.mst = "none" /\ rd.dataCounter >= MaxPkt /\ ~rd.isSetup
         /\ rd.bufRdIdx = r.bufVldIdx /\ \A f \in EP : Rest(f) = 0
    BY <1>1, <1>7, IdleDrained DEF Drained
  <1>17. Len(out[e]) = Len(p) /\ Len(p) \in Nat
    <2>1. PICK a \in Nat, b \in Nat : a = Len(out[e]) /\ b = Len(p)
      <3>1. out[e] \in Seq(Delivery)
        BY <1>13
      <3>2. Len(out[e]) \in Nat /\ Len(p) \in Nat
        BY <3>1
      <3> QED BY <3>2
    <2>2. Rest(e) = b - a /\ Rest(e) = 0
      BY <1>13, <1>16, <2>1 DEF Rest
    <2> QED BY <2>1, <2>2
  <1>18. \A f \in EP \ {e} : Total(f)' = Total(f)
    BY <1>9, <1>11 DEF Total
  <1>19. /\ \A f \in EP \ {e} : Rest(f)' = 0
         /\ Rest(e)' = n + (IF end THEN 1 ELSE 0)
         /\ \A i \in 1 .. Len(q) : Due(e, i)' = q[i]
    <2>1. \A f \in EP \ {e} : Rest(f)' = 0
      BY <1>5, <1>16, <1>18 DEF Rest
    <2>2. Len(p \o q) = Len(p) + Len(q) /\ \A i \in 1 .. Len(q) : (p \o q)[Len(p) + i] = q[i]
      BY JoinItems
    <2>3. Rest(e)' = (Len(p) + Len(q)) - Len(p)
      BY <1>5, <1>13, <1>17, <2>2 DEF Rest
    <2>4. Rest(e)' = n + (IF end THEN 1 ELSE 0)
      BY <1>15, <1>17, <2>3
    <2>5. \A i \in 1 .. Len(q) : Due(e, i)' = q[i]
      BY <1>5, <1>13, <1>17, <2>2 DEF Due
    <2> QED BY <2>1, <2>4, <2>5
  <1>20. GotInv'
    <2>1. Len(p \o q) = Len(p) + Len(q) /\ \A i \in 1 .. Len(p) : (p \o q)[i] = p[i]
      BY JoinItems
    <2>2. Len(q) \in Nat
      BY <1>13
    <2>3. Len(out'[e]) <= Len(Total(e)') /\ \A i \in 1 .. Len(out'[e]) : out'[e][i] = Total(e)'[i]
      <3>1. \A i \in 1 .. Len(out[e]) : out[e][i] = p[i]
        BY <1>7, <1>13 DEF GotInv
      <3> QED BY <1>5, <1>13, <1>17, <2>1, <2>2, <3>1
    <2>4. \A f \in EP \ {e} : /\ Len(out'[f]) <= Len(Total(f)')
                            /\ \A i \in 1 .. Len(out'[f]) : out'[f][i] = Total(f)'[i]
      BY <1>5, <1>7, <1>18 DEF GotInv
    <2> QED BY <2>3, <2>4 DEF GotInv
  <1>21. PICK v \in Idx : v = r.bufVldIdx
    BY <1>1 DEF RegType
  <1>22. /\ mem'[v] = HdrWord(r.tok, e)
         /\ \A i \in 1 .. n : mem'[Ahead(Inc(v), i - 1)] = DatWord(s[i])
    <2>1. mem \in [Idx -> Words] /\ Len(s) <= MaxPkt
      BY <1>3, <1>4 DEF TypeOK, PktTypeOK
    <2> QED BY <1>3, <1>5, <1>8, <1>21, <2>1, StoredWords
  <1>23. Unread(n)'
    <2>1. Comes(e, setup, 0, Ahead(v, 1), n, end)'
      <3>1. r'.bufVldIdx = Ahead(Ahead(v, 1), n)
        BY <1>5, <1>8, <1>21, AheadFacts DEF StoreRegs, Ahead
      <3>2. Rest(e)' = 0 + n + (IF end THEN 1 ELSE 0)
        BY <1>19
      <3>3. ASSUME NEW i \in 1 .. n
            PROVE  /\ ~mem'[Ahead(Ahead(v, 1), i - 1)].hdr
                   /\ Due(e, 0 + i)' = [port |-> PortOf(setup),
                                        item |-> mem'[Ahead(Ahead(v, 1), i - 1)].dat]
        <4>1. 0 + i = i /\ i \in 1 .. Len(q)
          BY <1>15
        <4>2. mem'[Ahead(Ahead(v, 1), i - 1)] = DatWord(s[i])
          BY <1>21, <1>22, AheadFacts
        <4>3. ~DatWord(s[i]).hdr /\ DatWord(s[i]).dat = s[i]
          BY DEF DatWord
        <4>4. Due(e, 0 + i)' = q[i] /\ q[i] = [port |-> PortOf(setup), item |-> s[i]]
          BY <1>15, <1>19, <4>1
        <4> QED BY <4>2, <4>3, <4>4
      <3>4. end => Due(e, 0 + n + 1)' = [port |-> PortOf(setup), item |-> DON]
        <4>1. end => 0 + n + 1 = n + 1 /\ n + 1 \in 1 .. Len(q)
          BY <1>15
        <4> QED BY <1>15, <1>19, <4>1
      <3> QED BY <3>1, <3>2, <3>3, <3>4 DEF Comes
    <2>2. Only(e)'
      BY <1>19 DEF Only
    <2>3. rd'.bufRdIdx = v /\ mem'[rd'.bufRdIdx] = HdrWord(r.tok, e)
      BY <1>5, <1>16, <1>21, <1>22
    <2>4. HdrWord(r.tok, e).ep = e /\ HdrWord(r.tok, e).hdr
          /\ setup = (HdrWord(r.tok, e).tok = "SETUP")
      BY <1>3, <1>4 DEF HdrWord
    <2>5. rd'.mst = "none" /\ rd'.dataCounter >= MaxPkt /\ ~rd'.isSetup
      BY <1>5, <1>16
    <2> QED BY <1>14, <2>1, <2>2, <2>3, <2>4, <2>5 DEF Unread
  <1>24. ReadInv'
    <2>1. n \in 0 .. MaxPkt
      BY <1>4
    <2> QED BY <1>23, <2>1 DEF ReadInv
  <1>25. OutPlain(env') /\ SureInv(S)'
    <2>1. OutPlain(env')
      BY <1>6, <1>7, PlainFrame
    <2>2. SureInv(S)'
      BY <1>5, <1>6, <1>7 DEF SureInv, Sure, Certain, Fragile, HasSetup, OutEnvKept, StoreRegs
    <2> QED BY <2>1, <2>2
  <1>26. BufOutInv'
    BY <1>5 DEF BufOutInv, Phase, StoreRegs
  <1>27. TransInv'
    BY <1>1, <1>2, <1>4, <1>5, <1>8 DEF TransInv, Phase, StoreRegs
  <1>28. (NoInpInv /\ SetupTgl) => SetupTgl'
    <2>1. hTglInp' = hTglInp
      BY <1>1 DEF HostKept
    <2>2. ASSUME NEW f \in EP \ {e}, SetupTgl
          PROVE  /\ r'.dataTglInp[f] = hTglInp'[f] \/ (Took(f)' /\ OutPkt(f)'.tok = "SETUP")
                 /\ ~Positive(f)'
      BY <1>4, <1>5, <1>9, <1>11, <2>1, <2>2 DEF SetupTgl, StoreRegs
    <2>3. r'.dataTglInp[e] = IF setup THEN 1 ELSE r.dataTglInp[e]
      BY <1>4, <1>5 DEF StoreRegs
    <2>4. SetupTgl => (setup \/ hTglInp[e] = r.dataTglInp[e])
      BY <1>10 DEF SetupTgl
    <2>5. OutPkt(e)' = OutPkt(e) /\ (OutPkt(e).tok = "SETUP" <=> setup)
      BY <1>2, <1>3, <1>9
    <2> QED BY <1>10, <2>1, <2>2, <2>3, <2>4, <2>5 DEF SetupTgl
  <1> QED BY <1>12, <1>20, <1>24, <1>25, <1>26, <1>27, <1>28 DEF OutInv, OutNext

LEMMA PayloadOut ==
  ASSUME TypeOK, NEW S, OutInv(S), HostOutPayload
  PROVE  OutNext(S)
  <1>1. /\ h.st = "pld" /\ h'.st = "hsk" /\ h'.ep = h.ep /\ HostKept /\ wire = NoPkt
        /\ r.state \in {"IDLE", "DATA_PID", "DATA_OUT", "DRAIN"}
        /\ \A e \in EP : ~Positive(e)
    BY PayloadFacts
  <1>2. CASE r.state \in {"IDLE", "DATA_PID"}
    <2>1. UNCHANGED <<pktVars, faultVars>>
      BY <1>2 DEF HostOutPayload
    <2>2. OutEnvKept
      BY <2>1, OutEnvLose
    <2>3. AnswerKept(S)
      BY <1>1, <1>2, <2>1 DEF AnswerKept, Positive, Phase, pktVars
    <2>4. TransInv'
      BY <1>1, <1>2, <2>1 DEF TransInv, Phase, pktVars
    <2> QED BY <1>1, <2>1, <2>2, <2>3, <2>4, RestOut DEF pktVars
  <1> QED BY <1>1, <1>2, PayloadDrain, PayloadStore
-----------------------------------------------------------------------------
(* The answer.                                                             *)
LEMMA HskOut ==
  ASSUME TypeOK, NEW S, OutInv(S), Hsk, UNCHANGED busVars
  PROVE  OutNext(S)
  <1>1. /\ r \in RegType /\ r.state = "HSK" /\ UNCHANGED <<halted, rd, out, mem>>
        /\ wire' = [pid |-> HskPid, dat |-> <<>>] /\ HostKept /\ OutEnvKept /\ h' = h
    BY BusKept DEF Hsk, epVars, TypeOK, PktTypeOK
  <1>2. PICK q \in Pids : q = HskPid
    BY <1>1 DEF HskPid, RegType, Pids, HskPids
  <1>3. /\ OutRegs /\ r'.state = "IDLE" /\ r'.bufRWIdx = r.bufRWIdx
    <2>1. r' = [r EXCEPT !.pid = q, !.donFlg = TRUE, !.state = "IDLE"]
      BY <1>2 DEF Hsk
    <2> QED BY <1>1, <2>1 DEF OutRegs, RegType
  <1>4. Phase = "HSK" /\ Phase' = "IDLE"
    BY <1>1, <1>3 DEF Phase
  <1>5. wire' # NoPkt /\ wire'.pid = q
    <2>1. [pid |-> q, dat |-> <<>>] \in TxPacket
      BY DEF TxPacket
    <2> QED BY <1>1, <1>2, <2>1, WireAssumption
  <1>6. TransInv /\ BufOutInv /\ SureInv(S)
    BY DEF OutInv
  <1>7. AnswerKept(S)
    <2>1. ASSUME NEW e \in EP, Positive(e)'
          PROVE  Positive(e)
      <3>1. h.st = "hsk" /\ h.ep = e /\ q \in {"ACK", "NYET"}
        BY <1>1, <1>4, <1>5, <2>1 DEF Positive
      <3>2. r.pid = "ACK"
        BY <1>2, <1>4, <1>6, <3>1 DEF HskPid, TransInv
      <3> QED BY <1>4, <3>1, <3>2 DEF Positive
    <2>2. ASSUME NEW e \in EP, e \in S, Positive(e)
          PROVE  Positive(e)'
      <3>1. h.st = "hsk" /\ h.ep = e /\ r.pid = "ACK" /\ r.epIdx = e /\ e \notin halted.out
        BY <1>4, <1>6, <2>2 DEF Positive, TransInv
      <3>2. e \notin halted.inp \union r.deadInp
        BY <1>6, <2>2 DEF SureInv, Sure
      <3>3. q \in {"ACK", "NYET"}
        BY <1>2, <3>1, <3>2 DEF HskPid, HaltedInp, HaltedOut
      <3> QED BY <1>1, <1>5, <3>1, <3>3 DEF Positive
    <2> QED BY <2>1, <2>2 DEF AnswerKept
  <1>8. TransInv'
    <2>1. h.st \notin {"out", "pld"}
      BY <1>1, <1>6 DEF TransInv
    <2> QED BY <1>1, <1>3, <1>4, <2>1 DEF TransInv
  <1>9. BufOutInv'
    BY <1>3, <1>4, <1>6 DEF BufOutInv, OutRegs, InpStates
  <1> QED BY <1>1, <1>3, <1>7, <1>8, <1>9, StillOut

\* The host learns that its packet was accepted, and turns to the next one.
LEMMA AcceptedOut ==
  ASSUME TypeOK, NEW S, OutInv(S), NEW e \in EP, Positive(e), wire # NoPkt, Accepted(e),
         h'.st = "idle", OutEnvKept, UNCHANGED <<r, rd, mem, out, halted>>
  PROVE  OutNext(S)
  <1>1. /\ TransInv /\ BufOutInv /\ SureInv(S) /\ TookInv(S) /\ OutPlain(env)
        /\ ReadInv /\ GotInv
    BY DEF OutInv
  <1>2. /\ h.st = "hsk" /\ h.ep = e /\ Took(e) /\ More(e)
        /\ OutPkt(e).tok = "SETUP" => r.dataTglOut[e] = 1
    BY <1>1 DEF Positive, TookInv, Took
  <1>3. \A f \in EP : ~Positive(f)'
    BY DEF Positive
  <1>4. PICK a \in {0, 1}, b \in {0, 1} : a = hTglOut[e] /\ b = r.dataTglOut[e]
    BY DEF TypeOK, PktTypeOK, RegType
  <1>5. hTglOut'[e] = b
    <2>1. hTglOut'[e] = IF OutPkt(e).tok = "SETUP" THEN 1 ELSE 1 - a
      BY <1>4 DEF Accepted, TypeOK
    <2>2. OutPkt(e).tok # "SETUP" => a # b
      BY <1>2, <1>4 DEF Took
    <2> QED BY <1>2, <1>4, <2>1, <2>2
  <1>6. ~Took(e)'
    BY <1>3, <1>4, <1>5 DEF Took
  <1>7. ASSUME NEW f \in EP \ {e}
        PROVE  /\ oIdx'[f] = oIdx[f] /\ sent'[f] = sent[f] /\ hTglOut'[f] = hTglOut[f]
               /\ Took(f)' <=> Took(f)
               /\ OutPkt(f)' = OutPkt(f)
    <2>1. oIdx'[f] = oIdx[f] /\ sent'[f] = sent[f] /\ hTglOut'[f] = hTglOut[f]
      BY DEF Accepted, TypeOK
    <2>2. ~Positive(f)
      BY <1>2 DEF Positive
    <2>3. OutPkt(f)' = OutPkt(f) /\ (More(f)' <=> More(f))
      BY <2>1 DEF OutPkt, More, OutEnvKept
    <2> QED BY <1>3, <2>1, <2>2, <2>3 DEF Took
  <1>8. \A f \in EP : Total(f)' = Total(f)
    <2>1. Total(e)' = Total(e)
      <3>1. PktItems(OutPkt(e)) \in Seq(Delivery) /\ sent[e] \in Seq(Delivery)
        BY <1>2, OutPktType, PktItemsType, OutTypes
      <3>2. sent'[e] = sent[e] \o PktItems(OutPkt(e))
        BY DEF Accepted, TypeOK
      <3>3. Total(e) = sent'[e] /\ Total(e)' = sent'[e] \o <<>>
        BY <1>2, <1>6, <3>2 DEF Total
      <3> QED BY <3>1, <3>2, <3>3, JoinItems
    <2>2. \A f \in EP \ {e} : Total(f)' = Total(f)
      BY <1>7 DEF Total
    <2> QED BY <2>1, <2>2
  <1>9. TookInv(S)'
    <2>1. \A f \in EP : hTglOut'[f] # r'.dataTglOut[f] => Took(f)'
      BY <1>1, <1>4, <1>5, <1>7 DEF TookInv
    <2>2. ASSUME NEW f \in EP, Took(f)', f \in S
          PROVE  FALSE
      <3>1. f # e /\ Took(f)
        BY <1>6, <1>7, <2>2
      <3> QED BY <1>1, <1>2, <2>2, <3>1 DEF TookInv, Positive
    <2> QED BY <1>3, <2>1, <2>2 DEF TookInv
  <1>10. ReadInv' /\ GotInv'
    BY <1>1, <1>8, ReadFrame
  <1>11. OutPlain(env') /\ SureInv(S)'
    BY <1>1, PlainFrame, SureFrame, SameRegsOut
  <1>12. TransInv' /\ BufOutInv'
    <2>1. Phase' = Phase /\ (ReaderIdle => ReaderIdle')
      BY IdleKept DEF Phase
    <2>2. Phase \notin {"DATA_OUT", "DRAIN"}
      BY <1>1, <1>2 DEF TransInv
    <2>3. TransInv'
      BY <1>1, <2>1, <2>2 DEF TransInv
    <2>4. BufOutInv'
      BY <1>1, <2>1 DEF BufOutInv
    <2> QED BY <2>3, <2>4
  <1>13. (NoInpInv /\ SetupTgl) => SetupTgl'
    <2>1. /\ hTglInp'[e] = (IF OutPkt(e).tok = "SETUP" THEN 1 ELSE hTglInp[e])
          /\ \A f \in EP \ {e} : hTglInp'[f] = hTglInp[f]
      BY DEF Accepted, TypeOK
    <2>2. SetupTgl => /\ hTglInp'[e] = r.dataTglInp[e]
                      /\ \A f \in EP \ {e} : hTglInp'[f] # r.dataTglInp[f] =>
                            Took(f) /\ OutPkt(f).tok = "SETUP"
      BY <2>1 DEF SetupTgl
    <2> QED BY <1>3, <1>7, <2>2 DEF SetupTgl
  <1> QED BY <1>9, <1>10, <1>11, <1>12, <1>13 DEF OutInv, OutNext

LEMMA HostHskOut ==
  ASSUME TypeOK, NEW S, OutInv(S), HostHsk
  PROVE  OutNext(S)
  <1>1. /\ h.st \in {"hsk", "ping"} /\ wire # NoPkt /\ wire' = NoPkt /\ h'.st = "idle"
        /\ UNCHANGED <<r, rd, mem, out, halted>>
        /\ h.ep \in EP
    BY DEF HostHsk, epVars, TypeOK
  <1>2. OutEnvKept
    <2>1. Lose("hsk") \/ UNCHANGED faultVars
      BY DEF HostHsk
    <2> QED BY <2>1, OutEnvLose
  <1>3. CASE h.st = "hsk" /\ wire.pid \in {"ACK", "NYET"} /\ Accepted(h.ep)
    <2>1. Positive(h.ep)
      BY <1>1, <1>3 DEF Positive
    <2> QED BY <1>1, <1>2, <1>3, <2>1, AcceptedOut
  <1>4. CASE HostKept /\ (\/ h.st = "ping" \/ wire.pid \in {"NAK", "STALL"} \/ Lose("hsk"))
    <2>1. ASSUME NEW e \in EP, e \in S, Positive(e)
          PROVE  FALSE
      <3>1. "hsk" \notin env.lose
        BY <2>1 DEF OutInv, SureInv, Sure, Certain
      <3>2. ~(Phase = "HSK" /\ h.st = "hsk")
        BY <1>1 DEF OutInv, TransInv
      <3> QED BY <1>4, <2>1, <3>1, <3>2 DEF Positive, Lose
    <2>2. AnswerKept(S)
      BY <1>1, <2>1 DEF AnswerKept, Positive
    <2> QED BY <1>1, <1>2, <1>4, <2>2, UnseenOut
  <1> QED BY <1>3, <1>4 DEF HostHsk, HostKept

LEMMA HostEndOut ==
  ASSUME TypeOK, NEW S, OutInv(S), HostSilence \/ HostData \/ HostInRefused
  PROVE  OutNext(S)
  <1>1. /\ HostKept /\ h.st \in {"inp", "hsk", "ping"} /\ h'.st \in {"idle", "ack"}
        /\ UNCHANGED <<r, rd, mem, out, halted>>
    BY DEF HostSilence, HostData, HostInRefused, HostKept, epVars, pktVars, TypeOK
  <1>2. OutEnvKept
    <2>1. Lose("dat") \/ UNCHANGED faultVars
      BY DEF HostSilence, HostData, HostInRefused
    <2> QED BY <2>1, OutEnvLose
  <1>3. AnswerKept(S)
    <2>1. h.st = "hsk" => wire = NoPkt /\ Phase # "HSK"
      BY DEF HostSilence, HostData, HostInRefused, Phase
    <2> QED BY <1>1, <2>1 DEF AnswerKept, Positive
  <1> QED BY <1>1, <1>2, <1>3, UnseenOut
-----------------------------------------------------------------------------
(* Timeouts and halts.                                                     *)
LEMMA TimeoutOut ==
  ASSUME TypeOK, NEW S, OutInv(S), EngineTimeout
  PROVE  OutNext(S)
  <1>1. HostKept /\ OutEnvKept /\ h' = h /\ wire = NoPkt
    BY BusKept DEF EngineTimeout
  <1>2. CASE WaitAckTimeout
    BY <1>1, <1>2, EngineInpOut
  <1>3. CASE DataPidTimeout /\ h.st # "out"
    <2>1. /\ r \in RegType /\ r.state = "DATA_PID" /\ r' = [r EXCEPT !.state = "IDLE"]
          /\ UNCHANGED <<rd, mem, halted, out, wire>>
      BY <1>3 DEF DataPidTimeout, epVars, TypeOK, PktTypeOK
    <2>2. OutRegs /\ r'.bufRWIdx = r.bufRWIdx /\ r'.state = "IDLE"
      BY <2>1 DEF OutRegs, RegType
    <2>3. Phase = "DATA_PID" /\ Phase' = "IDLE"
      BY <2>1, <2>2 DEF Phase
    <2>4. AnswerKept(S)
      BY <1>1, <2>1, <2>3 DEF AnswerKept, Positive
    <2>5. TransInv'
      BY <1>1, <1>3, <2>1, <2>2, <2>3 DEF TransInv
    <2>6. BufOutInv'
      BY <2>2, <2>3 DEF OutInv, BufOutInv, OutRegs, InpStates
    <2> QED BY <1>1, <2>1, <2>2, <2>4, <2>5, <2>6, StillOut
  <1> QED BY <1>2, <1>3 DEF EngineTimeout

\* The engine gives up an IN packet and stalls its endpoint.
LEMMA RetryOut ==
  ASSUME TypeOK, NEW S, OutInv(S), 0 \in S => MaskedInv, IdleRetryTimeout, UNCHANGED busVars
  PROVE  OutNext(S)
  <1>1. HostKept /\ OutEnvKept /\ h' = h
    BY BusKept
  <1>2. /\ r \in RegType /\ r.state = "IDLE" /\ r.retryExpired /\ BufBusy
        /\ UNCHANGED <<rd, mem, halted, out, wire>>
    BY DEF IdleRetryTimeout, epVars, TypeOK, PktTypeOK
  <1>3. /\ TransInv /\ BufOutInv /\ SureInv(S) /\ TookInv(S) /\ OutPlain(env)
        /\ ReadInv /\ GotInv
    BY DEF OutInv
  <1>4. r.bufInpEpIdx = 0 /\ r.deadInp \subseteq {0}
    BY <1>2, <1>3 DEF SureInv
  <1>5. 0 \notin S
    BY <1>2 DEF MaskedInv, NoInpInv, InpInv, OwnInv
  <1>6. /\ r'.deadInp = r.deadInp \union {0} /\ r'.dataTglOut = r.dataTglOut
        /\ r'.bufVldIdx = r.bufVldIdx /\ r'.bufRWIdx = r.bufVldIdx /\ r'.state = "IDLE"
        /\ r'.retryExpired = r.retryExpired /\ r'.bufInpEpIdx = r.bufInpEpIdx
    <2> DEFINE v == [r EXCEPT !.deadInp = @ \union {r.bufInpEpIdx}]
    <2>1. /\ v \in RegType /\ v.deadInp = r.deadInp \union {0} /\ v.dataTglOut = r.dataTglOut
          /\ v.bufVldIdx = r.bufVldIdx /\ v.state = "IDLE"
          /\ v.retryExpired = r.retryExpired /\ v.bufInpEpIdx = r.bufInpEpIdx
      BY <1>2, <1>4 DEF RegType
    <2>2. r' = invalidateBuffer(v)
      BY DEF IdleRetryTimeout
    <2> HIDE DEF v
    <2>3. /\ r'.deadInp = v.deadInp /\ r'.dataTglOut = v.dataTglOut
          /\ r'.bufVldIdx = v.bufVldIdx /\ r'.bufRWIdx = v.bufVldIdx /\ r'.state = v.state
          /\ r'.retryExpired = v.retryExpired /\ r'.bufInpEpIdx = v.bufInpEpIdx
      BY <2>1, <2>2 DEF invalidateBuffer, RegType
    <2> QED BY <2>1, <2>3
  <1>7. Phase' = Phase /\ Phase = "IDLE"
    BY <1>2, <1>6 DEF Phase
  <1>8. AnswerKept(S)
    BY <1>1, <1>2, <1>7 DEF AnswerKept, Positive
  <1>9. TookInv(S)' /\ \A e \in EP : Total(e)' = Total(e)
    BY <1>1, <1>3, <1>6, <1>8, TookFrame
  <1>10. ReadInv' /\ GotInv'
    BY <1>2, <1>3, <1>6, <1>9, ReadFrame
  <1>11. OutPlain(env')
    BY <1>1, <1>3, PlainFrame
  <1>12. SureInv(S)'
    BY <1>1, <1>2, <1>3, <1>4, <1>5, <1>6
       DEF SureInv, Sure, Certain, Fragile, HasSetup, OutEnvKept
  <1>13. TransInv'
    <2>1. OutPkt(h.ep)' = OutPkt(h.ep)
      BY <1>1 DEF OutPkt, HostKept, OutEnvKept
    <2> QED BY <1>1, <1>2, <1>3, <1>6, <1>7, <2>1 DEF TransInv
  <1>14. BufOutInv'
    BY <1>6, <1>7 DEF BufOutInv
  <1>15. ~NoInpInv
    BY <1>2 DEF NoInpInv
  <1> QED BY <1>9, <1>10, <1>11, <1>12, <1>13, <1>14, <1>15 DEF OutInv, OutNext

\* A halted OUT endpoint has no packet of which the host does not know.
LEMMA HaltOut ==
  ASSUME TypeOK, NEW S, OutInv(S), NEW dir \in {"inp", "out"}, NEW e \in EP, Halt(dir, e)
  PROVE  OutNext(S)
  <1>1. /\ h.st = "idle" /\ h' = h /\ r.state = "IDLE" /\ wire = NoPkt
        /\ UNCHANGED <<rd, mem, out, wire, oIdx, sent>> /\ r \in RegType
        /\ halted \in [inp : SUBSET EP, out : SUBSET EP]
    BY DEF Halt, SetHalt, ClearHalt, TypeOK, PktTypeOK
  <1>2. /\ TransInv /\ BufOutInv /\ SureInv(S) /\ TookInv(S) /\ OutPlain(env)
        /\ ReadInv /\ GotInv
    BY DEF OutInv
  <1>3. /\ env'.lose = env.lose /\ env'.outPkts = env.outPkts /\ env'.lag = env.lag
        /\ \A x : x \in env'.halts => x \in env.halts
    <2>1. env' = env \/ env' = [env EXCEPT !.halts = @ \ {<<dir, e>>}]
      BY DEF Halt
    <2>2. env \in Scenario
      BY DEF TypeOK
    <2> QED BY <2>1, <2>2 DEF Scenario
  <1>4. \A f \in EP : /\ ~Positive(f) /\ ~Positive(f)'
                      /\ OutPkt(f)' = OutPkt(f) /\ (More(f)' <=> More(f))
    BY <1>1, <1>3 DEF Positive, OutPkt, More
  <1>5. OutPlain(env')
    BY <1>2, <1>3 DEF OutPlain, HasOut
  <1>6. \A f \in EP : \/ hTglInp'[f] = r'.dataTglInp[f]
                      \/ hTglInp'[f] = hTglInp[f] /\ r'.dataTglInp[f] = r.dataTglInp[f]
    <2>1. CASE SetHalt(dir, e) /\ hTglInp' = hTglInp
      BY <2>1 DEF SetHalt
    <2>2. CASE dir = "out" /\ ClearHalt(dir, e) /\ hTglInp' = hTglInp
      <3>1. r' = [r EXCEPT !.dataTglOut[e] = 0]
        BY <2>2 DEF ClearHalt
      <3>2. r'.dataTglInp = r.dataTglInp
        BY <1>1, <3>1 DEF RegType
      <3> QED BY <2>2, <3>2
    <2>3. CASE dir = "inp" /\ ClearHalt(dir, e) /\ hTglInp' = [hTglInp EXCEPT ![e] = 0]
      <3>1. r' = [r EXCEPT !.dataTglInp[e] = 0]
        BY <2>3 DEF ClearHalt
      <3>2. r'.dataTglInp = [r.dataTglInp EXCEPT ![e] = 0] /\ r.dataTglInp \in [EP -> {0, 1}]
        BY <1>1, <3>1 DEF RegType
      <3> QED BY <2>3, <3>2 DEF TypeOK
    <2> QED BY <2>1, <2>2, <2>3 DEF Halt
  <1>7. ASSUME SureInv(S)', TookInv(S)', BufOutInv', \A f \in EP : Took(f)' <=> Took(f),
               r'.state = "IDLE", r'.bufVldIdx = r.bufVldIdx
        PROVE  OutNext(S)
    <2>1. \A f \in EP : Total(f)' = Total(f)
      BY <1>1, <1>4, <1>7 DEF Total
    <2>2. ReadInv' /\ GotInv'
      BY <1>1, <1>2, <1>7, <2>1, ReadFrame
    <2>3. TransInv'
      BY <1>1, <1>7 DEF TransInv, Phase
    <2>4. (NoInpInv /\ SetupTgl) => SetupTgl'
      BY <1>4, <1>6, <1>7 DEF SetupTgl
    <2> QED BY <1>5, <1>7, <2>2, <2>3, <2>4 DEF OutInv, OutNext
  <1>8. CASE <<dir, e>> \in env.halts /\ SetHalt(dir, e) /\ hTglOut' = hTglOut
    <2>1. r' = r /\ halted' = [halted EXCEPT ![dir] = @ \union {e}]
      BY <1>8 DEF SetHalt
    <2>2. /\ dir = "inp" => halted'.inp = halted.inp \union {e} /\ halted'.out = halted.out
          /\ dir = "out" => halted'.out = halted.out \union {e} /\ halted'.inp = halted.inp
      BY <1>1, <2>1
    <2>3. SureInv(S)'
      <3>1. \A f \in S : Sure(f)'
        BY <1>2, <1>3, <1>8, <2>1, <2>2 DEF SureInv, Sure, Certain
      <3>2. \A f \in EP : Fragile(env', f) \/ f \in halted'.out => f \in S
        BY <1>2, <1>3, <1>8, <2>2 DEF SureInv, Fragile, HasSetup
      <3>3. \A f \in EP : HasSetup(env', f) => f \notin halted'.out /\ <<"out", f>> \notin env'.halts
        BY <1>2, <1>3, <1>8, <2>2 DEF SureInv, HasSetup
      <3> QED BY <1>2, <2>1, <3>1, <3>2, <3>3 DEF SureInv
    <2>4. \A f \in EP : Took(f)' <=> Took(f)
      BY <1>4, <1>8, <2>1 DEF Took
    <2>5. TookInv(S)'
      BY <1>2, <1>4, <1>8, <2>1, <2>4 DEF TookInv
    <2>6. BufOutInv'
      BY <1>1, <1>2, <2>1, IdleKept DEF BufOutInv, Phase
    <2> QED BY <1>1, <1>7, <2>1, <2>3, <2>4, <2>5, <2>6
  <1>9. CASE /\ e \in halted[dir] /\ ClearHalt(dir, e) /\ env' = env
             /\ IF dir = "inp" THEN hTglOut' = hTglOut
                ELSE hTglOut' = [hTglOut EXCEPT ![e] = 0]
    <2>1. halted' = [halted EXCEPT ![dir] = @ \ {e}]
      BY <1>9 DEF ClearHalt
    <2>2. /\ dir = "inp" => halted'.inp = halted.inp \ {e} /\ halted'.out = halted.out
          /\ dir = "out" => halted'.out = halted.out \ {e} /\ halted'.inp = halted.inp
      BY <1>1, <2>1
    <2>3. /\ r'.state = "IDLE" /\ r'.bufRWIdx = r.bufRWIdx /\ r'.bufVldIdx = r.bufVldIdx
          /\ r'.deadInp = r.deadInp /\ r'.retryExpired = r.retryExpired
          /\ r'.bufInpEpIdx = r.bufInpEpIdx
          /\ dir = "inp" => r'.dataTglOut = r.dataTglOut
          /\ dir = "out" => r'.dataTglOut = [r.dataTglOut EXCEPT ![e] = 0]
      <3>1. r' = [r EXCEPT !.dataTglInp[e] = 0] \/ r' = [r EXCEPT !.dataTglOut[e] = 0]
        BY <1>9 DEF ClearHalt
      <3>2. /\ r'.state = "IDLE" /\ r'.bufRWIdx = r.bufRWIdx /\ r'.bufVldIdx = r.bufVldIdx
            /\ r'.deadInp = r.deadInp /\ r'.retryExpired = r.retryExpired
            /\ r'.bufInpEpIdx = r.bufInpEpIdx
        BY <1>1, <3>1 DEF RegType
      <3>3. dir = "inp" => r' = [r EXCEPT !.dataTglInp[e] = 0]
        BY <1>9 DEF ClearHalt
      <3>4. dir = "out" => r' = [r EXCEPT !.dataTglOut[e] = 0]
        BY <1>9 DEF ClearHalt
      <3>5. dir = "inp" => r'.dataTglOut = r.dataTglOut
        BY <1>1, <3>3 DEF RegType
      <3>6. dir = "out" => r'.dataTglOut = [r.dataTglOut EXCEPT ![e] = 0]
        BY <1>1, <3>4 DEF RegType
      <3> QED BY <3>2, <3>5, <3>6
    <2>4. SureInv(S)'
      BY <1>2, <1>9, <2>2, <2>3 DEF SureInv, Sure
    <2>5. ASSUME NEW f \in EP
          PROVE  /\ Took(f)' <=> Took(f)
                 /\ hTglOut'[f] # r'.dataTglOut[f] => hTglOut[f] # r.dataTglOut[f]
      <3>1. CASE dir = "inp" \/ f # e
        <4>1. hTglOut'[f] = hTglOut[f] /\ r'.dataTglOut[f] = r.dataTglOut[f]
          BY <1>1, <1>9, <2>3, <3>1 DEF TypeOK, RegType
        <4> QED BY <1>4, <4>1 DEF Took
      <3>2. CASE dir = "out" /\ f = e
        <4>1. hTglOut'[e] = 0 /\ r'.dataTglOut[e] = 0
          BY <1>1, <1>9, <2>3, <3>2 DEF TypeOK, RegType
        <4>2. e \in S
          BY <1>2, <1>9, <3>2 DEF SureInv
        <4>3. ~Took(e)
          BY <1>2, <1>4, <4>2 DEF TookInv
        <4>4. ~Took(e)'
          BY <1>4, <4>1 DEF Took
        <4> QED BY <3>2, <4>1, <4>3, <4>4
      <3> QED BY <3>1, <3>2
    <2>6. TookInv(S)'
      BY <1>2, <1>4, <2>5 DEF TookInv
    <2>7. BufOutInv'
      BY <1>1, <1>2, <2>3, IdleKept DEF BufOutInv, Phase
    <2> QED BY <1>7, <2>3, <2>4, <2>5, <2>6, <2>7
  <1> QED BY <1>8, <1>9 DEF Halt
-----------------------------------------------------------------------------
(* The step as a whole.                                                    *)
LEMMA ReaderOut ==
  ASSUME TypeOK, NEW S, OutInv(S), Reader, UNCHANGED busVars
  PROVE  OutNext(S)
  <1>1. HostKept /\ OutEnvKept /\ h' = h /\ UNCHANGED <<hTglInp, hTglOut>>
    BY BusKept DEF busVars
  <1>2. ~ReaderIdle /\ UNCHANGED <<r, mem, halted, wire>>
    BY DEF Reader
  <1>3. /\ TransInv /\ BufOutInv /\ SureInv(S) /\ TookInv(S) /\ OutPlain(env)
        /\ ReadInv /\ GotInv
    BY DEF OutInv
  <1>4. Phase' = Phase /\ OutRegs
    BY <1>2, SameRegsOut DEF Phase
  <1>5. \A e \in EP : Positive(e)' <=> Positive(e)
    BY <1>1, <1>2, <1>4 DEF Positive
  <1>6. TookInv(S)' /\ \A e \in EP : Total(e)' = Total(e) /\ (Took(e)' <=> Took(e))
    <2>1. AnswerKept(S)
      BY <1>5 DEF AnswerKept
    <2> QED BY <1>1, <1>2, <1>3, <2>1, TookFrame
  <1>7. ReadInv' /\ GotInv'
    BY <1>3, <1>6, ReaderStep
  <1>8. OutPlain(env') /\ SureInv(S)'
    BY <1>1, <1>2, <1>3, <1>4, PlainFrame, SureFrame
  <1>9. \A e \in EP : OutPkt(e)' = OutPkt(e)
    BY <1>1 DEF OutPkt, HostKept, OutEnvKept
  <1>10. TransInv'
    <2>1. InStep' <=> InStep
      BY <1>1, <1>2, <1>9 DEF InStep, TypeOK
    <2> QED BY <1>1, <1>2, <1>3, <1>4, <2>1 DEF TransInv
  <1>11. BufOutInv'
    BY <1>2, <1>3, <1>4 DEF BufOutInv
  <1>12. SetupTgl => SetupTgl'
    BY <1>1, <1>2, <1>5, <1>6, <1>9 DEF SetupTgl
  <1> QED BY <1>6, <1>7, <1>8, <1>10, <1>11, <1>12 DEF OutInv, OutNext

\* Steps of which the OUT direction sees nothing.
LEMMA IdleOutStep ==
  ASSUME TypeOK, NEW S, OutInv(S), UNCHANGED vars \/ \E e \in EP : EpOffer(e) \/ EpReady(e)
  PROVE  OutNext(S)
  <1>1. /\ UNCHANGED <<r, rd, mem, out, halted, wire, h>> /\ HostKept
        /\ UNCHANGED faultVars
    BY DEF EpOffer, EpReady, vars, pktVars, busVars, hostVars, faultVars, HostKept
  <1>2. OutEnvKept
    BY <1>1, OutEnvLose
  <1>3. Phase' = Phase /\ AnswerKept(S)
    BY <1>1 DEF Phase, AnswerKept, Positive
  <1>4. TransInv'
    <2>1. InStep' <=> InStep
      BY <1>1, <1>2 DEF InStep, OutPkt, HostKept, OutEnvKept
    <2> QED BY <1>1, <1>3, <2>1 DEF OutInv, TransInv, HostKept
  <1> QED BY <1>1, <1>2, <1>3, <1>4, RestOut

LEMMA EngineOut ==
  ASSUME TypeOK, NEW S, OutInv(S), 0 \in S => MaskedInv, EngineStep \/ PhyAbort
  PROVE  OutNext(S)
  <1>1. CASE EngineStep
    <2>1. UNCHANGED busVars /\ HostKept /\ OutEnvKept /\ h' = h
      BY <1>1, BusKept DEF EngineStep
    <2> QED BY <1>1, <2>1, WaitTxOut, HskOut, RetryOut, ReaderOut, EngineInpOut DEF EngineStep
  <1>2. CASE PhyAbort
    <2>1. HostKept /\ h' = h
      BY <1>2 DEF PhyAbort, hostVars, HostKept
    <2>2. OutEnvKept
      <3>1. env' = [env EXCEPT !.aborts = @ - 1] /\ env \in Scenario
        BY <1>2 DEF PhyAbort, TypeOK
      <3> QED BY <3>1 DEF OutEnvKept, Scenario
    <2> QED BY <1>2, <2>1, <2>2, EngineInpOut DEF PhyAbort
  <1> QED BY <1>1, <1>2

LEMMA OutStep ==
  ASSUME TypeOK, NEW S, OutInv(S), 0 \in S => MaskedInv, [Next]_vars
  PROVE  OutNext(S)
  <1>1. CASE UNCHANGED vars \/ \E e \in EP : EpOffer(e) \/ EpReady(e)
    BY <1>1, IdleOutStep
  <1>2. CASE EngineStep \/ PhyAbort \/ EngineTimeout
    BY <1>2, EngineOut, TimeoutOut
  <1>3. CASE \E e \in EP : Halt("inp", e) \/ Halt("out", e)
    BY <1>3, HaltOut
  <1>4. CASE \E e \in EP : HostIn(e) \/ HostPing(e) \/ HostOut(e)
    BY <1>4, HostTokOut
  <1>5. CASE HostData \/ HostInRefused \/ HostSilence
    BY <1>5, HostEndOut
  <1>6. CASE HostAck \/ HostSof
    BY <1>6, HostAckOut
  <1>7. CASE HostOutPid
    BY <1>7, HostOutPidOut
  <1>8. CASE HostOutPayload
    BY <1>8, PayloadOut
  <1>9. CASE HostHsk
    BY <1>9, HostHskOut
  <1> QED BY <1>1, <1>2, <1>3, <1>4, <1>5, <1>6, <1>7, <1>8, <1>9 DEF Next

LEMMA OutInit ==
  ASSUME Init, TypeOK, OutPlain(env), NEW S \in SUBSET EP, \A e \in S : Certain(env, e),
         \A e \in EP : Fragile(env, e) => e \in S,
         \A e \in EP : HasSetup(env, e) => <<"out", e>> \notin env.halts
  PROVE  OutInv(S) /\ SetupTgl
  <1>1. /\ r = RInit /\ rd = RdInit /\ wire = NoPkt /\ h.st = "idle"
        /\ halted.inp = {} /\ halted.out = {}
        /\ \A e \in EP : /\ out[e] = <<>> /\ sent[e] = <<>>
                         /\ hTglInp[e] = 0 /\ hTglOut[e] = 0
    BY DEF Init, PktInit
  <1>2. /\ r.state = "IDLE" /\ r.bufRWIdx = 0 /\ r.bufVldIdx = 0 /\ r.bufInpEpIdx = 0
        /\ r.deadInp = {} /\ r.pid = "ACK"
        /\ \A e \in EP : r.dataTglInp[e] = 0 /\ r.dataTglOut[e] = 0
        /\ rd.bufRdIdx = 0 /\ rd.mst = "none" /\ ~rd.isSetup /\ rd.dataCounter = CntMod - 1
    BY <1>1 DEF RInit, RdInit
  <1>3. \A e \in EP : ~Positive(e) /\ ~Took(e)
    BY <1>1, <1>2 DEF Positive, Took
  <1>4. \A e \in EP : Total(e) = <<>>
    BY <1>1, <1>3 DEF Total
  <1>5. SureInv(S)
    BY <1>1, <1>2 DEF SureInv, Sure
  <1>6. TookInv(S) /\ SetupTgl
    BY <1>1, <1>2, <1>3 DEF TookInv, SetupTgl
  <1>7. Phase = "IDLE"
    BY <1>2 DEF Phase
  <1>8. TransInv /\ BufOutInv
    BY <1>1, <1>2, <1>7 DEF TransInv, BufOutInv
  <1>9. ReadInv
    <2>1. \A e \in EP : Rest(e) = 0
      BY <1>1, <1>4 DEF Rest
    <2>2. CntMod - 1 >= MaxPkt
      OBVIOUS
    <2> QED BY <1>2, <2>1, <2>2 DEF Drained, ReadInv
  <1>10. GotInv
    BY <1>1, <1>4 DEF GotInv
  <1> QED BY <1>5, <1>6, <1>8, <1>9, <1>10 DEF OutInv
-----------------------------------------------------------------------------
(* The theorems.                                                           *)
LEMMA OutMaskedInit ==
  ASSUME Init, OutMasked(env)
  PROVE  OutMaskedInv
  <1>1. TypeOK /\ OutPlain(env)
    BY InitType DEF OutMasked
  <1> DEFINE S == {e \in EP : Fragile(env, e)}
  <1>2. S \in SUBSET EP /\ OutInv(S)
    <2>1. \A e \in S : Certain(env, e)
      BY DEF OutMasked
    <2>2. \A e \in EP : HasSetup(env, e) => <<"out", e>> \notin env.halts
      BY DEF OutMasked, Fragile
    <2> QED BY <1>1, <2>1, <2>2, OutInit
  <1>3. 0 \in S => MaskedInv
    BY MaskedInit DEF OutMasked
  <1> QED BY <1>2, <1>3 DEF OutMaskedInv

LEMMA OutMaskedStep ==
  ASSUME TypeOK, EngineInv, OutMaskedInv, [Next]_vars
  PROVE  OutMaskedInv'
  <1>1. PICK S \in SUBSET EP : OutInv(S) /\ (0 \in S => MaskedInv)
    BY DEF OutMaskedInv
  <1>2. OutInv(S)'
    BY <1>1, OutStep DEF OutNext
  <1>3. 0 \in S => MaskedInv'
    BY <1>1, MaskedStep
  <1> QED BY <1>2, <1>3 DEF OutMaskedInv

LEMMA OutMaskedSafe ==
  ASSUME \A s \in Scenarios : OutMasked(s)
  PROVE  Spec => []OutMaskedInv
  <1>1. Init => OutMaskedInv
    <2>1. Init => env \in Scenarios
      BY DEF Init
    <2> QED BY <2>1, OutMaskedInit
  <1>2. TypeOK /\ EngineInv /\ OutMaskedInv /\ [Next]_vars => OutMaskedInv'
    BY OutMaskedStep
  <1> QED BY <1>1, <1>2, TypeCorrect, EngineSafe, PTL DEF Spec

LEMMA PrefixDeliveries ==
  ASSUME NEW s \in Seq(Delivery), NEW t \in Seq(Delivery), Len(s) <= Len(t),
         \A i \in 1 .. Len(s) : s[i] = t[i]
  PROVE  IsPrefix(s, t)
  BY DEF IsPrefix

\* Usb2PktProc and its reader of received packets: an OUT endpoint sees exactly
\* the packets the host sends to it, in order and marked as they end, whatever
\* is lost, as long as the scenario's faults are of a masked kind.
THEOREM OutFaithfulHolds ==
  ASSUME \A s \in Scenarios : OutMasked(s)
  PROVE  Spec => []OutFaithful
  <1>1. TypeOK /\ OutMaskedInv => OutFaithful
    <2> SUFFICES ASSUME TypeOK, OutMaskedInv, NEW e \in EP
                 PROVE  IsPrefix(out[e], sent[e] \o (IF More(e) THEN PktItems(OutPkt(e)) ELSE <<>>))
      BY DEF OutFaithful
    <2>1. GotInv
      BY DEF OutMaskedInv, OutInv
    <2>2. PICK o \in Seq(Delivery), s \in Seq(Delivery), t \in Seq(Delivery) :
             o = out[e] /\ s = sent[e] /\ t = Total(e)
      BY OutTypes
    <2>3. Len(o) <= Len(t) /\ \A i \in 1 .. Len(o) : o[i] = t[i]
      BY <2>1, <2>2 DEF GotInv
    <2>4. PICK q \in Seq(Delivery) : q = IF More(e) THEN PktItems(OutPkt(e)) ELSE <<>>
      <3>1. CASE More(e)
        <4>1. PktItems(OutPkt(e)) \in Seq(Delivery)
          BY <3>1, OutPktType, PktItemsType
        <4> QED BY <3>1, <4>1
      <3>2. CASE ~More(e)
        <4>1. <<>> \in Seq(Delivery)
          OBVIOUS
        <4> QED BY <3>2, <4>1
      <3> QED BY <3>1, <3>2
    <2>5. t = s \o q \/ t = s
      <3>1. CASE Took(e)
        <4>1. More(e)
          BY <3>1 DEF Took
        <4> QED BY <2>2, <2>4, <3>1, <4>1 DEF Total
      <3>2. CASE ~Took(e)
        <4>1. t = s \o <<>>
          BY <2>2, <3>2 DEF Total
        <4> QED BY <4>1, JoinItems
      <3> QED BY <3>1, <3>2
    <2>6. /\ s \o q \in Seq(Delivery) /\ Len(o) <= Len(s \o q)
          /\ \A i \in 1 .. Len(o) : o[i] = (s \o q)[i]
      <3>1. /\ s \o q \in Seq(Delivery) /\ Len(s \o q) = Len(s) + Len(q)
            /\ \A i \in 1 .. Len(s) : (s \o q)[i] = s[i]
        BY JoinItems
      <3>2. Len(s) \in Nat /\ Len(q) \in Nat /\ Len(o) \in Nat
        OBVIOUS
      <3> QED BY <2>3, <2>5, <3>1, <3>2
    <2> QED BY <2>2, <2>4, <2>6, PrefixDeliveries
  <1> QED BY <1>1, TypeCorrect, OutMaskedSafe, PTL

LEMMA ToggleInit ==
  ASSUME Init, ToggleMasked(env)
  PROVE  ToggleInv
  <1>1. TypeOK /\ OutPlain(env) /\ OutMasked(env) /\ InpMasked(env)
    BY InitType DEF ToggleMasked, OutMasked
  <1> DEFINE S == {e \in EP : Fragile(env, e) \/ ("hsk" \notin env.lose /\ HasOut(env, e))}
  <1>2. S \in SUBSET EP /\ OutInv(S) /\ SetupTgl
    <2>1. \A e \in S : Certain(env, e)
      BY <1>1 DEF OutMasked, ToggleMasked
    <2>2. \A e \in EP : HasSetup(env, e) => <<"out", e>> \notin env.halts
      BY <1>1 DEF OutMasked, Fragile
    <2>3. \A e \in EP : Fragile(env, e) => e \in S
      OBVIOUS
    <2> QED BY <1>1, <2>1, <2>2, <2>3, OutInit
  <1>3. NoInpInv \/ (InpInv /\ ((\E e \in EP : SoleInv(e)) \/ SplitInv))
    BY <1>1, NoInpInit, InpInit, SoleInit, SplitInit DEF InpMasked
  <1> QED BY <1>2, <1>3 DEF ToggleInv

LEMMA ToggleStep ==
  ASSUME TypeOK, EngineInv, ToggleInv, [Next]_vars
  PROVE  ToggleInv'
  <1>1. PICK S \in SUBSET EP :
           OutInv(S) /\ ("hsk" \notin env.lose => \A e \in EP : HasOut(env, e) => e \in S)
    BY DEF ToggleInv
  <1>2. MaskedInv
    BY DEF ToggleInv, MaskedInv
  <1>3. OutInv(S)' /\ ((NoInpInv /\ SetupTgl) => SetupTgl')
    BY <1>1, <1>2, OutStep DEF OutNext
  <1>4. env'.lose = env.lose /\ env'.outPkts = env.outPkts
    BY EnvStep
  <1>5. CASE NoInpInv /\ SetupTgl
    BY <1>1, <1>3, <1>4, <1>5, NoInpStep DEF ToggleInv, HasOut
  <1>6. CASE InpInv /\ ((\E e \in EP : SoleInv(e)) \/ SplitInv)
    <2>1. InpInv' /\ ((\E e \in EP : SoleInv(e)') \/ SplitInv')
      BY <1>6, InpStep, SoleStep, SplitStep, SoleOwned, SplitOwned
    <2> QED BY <1>1, <1>3, <1>4, <2>1 DEF ToggleInv, HasOut
  <1> QED BY <1>5, <1>6 DEF ToggleInv

\* Usb2PktProc's data toggles: between transactions the engine and the host
\* agree on them, or the engine keeps the packet that made the difference.
THEOREM ToggleAgreementHolds ==
  ASSUME \A s \in Scenarios : ToggleMasked(s)
  PROVE  Spec => []ToggleAgreement
  <1>1. Init => ToggleInv
    <2>1. Init => env \in Scenarios
      BY DEF Init
    <2> QED BY <2>1, ToggleInit
  <1>2. TypeOK /\ EngineInv /\ ToggleInv /\ [Next]_vars => ToggleInv'
    BY ToggleStep
  <1>3. TypeOK /\ ToggleInv => ToggleAgreement
    <2> SUFFICES ASSUME TypeOK, ToggleInv, h.st = "idle", NEW e \in EP
                 PROVE  /\ hTglInp[e] = r.dataTglInp[e] \/ (r.bufInpVld /\ r.bufInpEpIdx = e)
                        /\ hTglOut[e] = r.dataTglOut[e] \/ (More(e) /\ "hsk" \in env.lose)
      BY DEF ToggleAgreement
    <2>1. PICK S \in SUBSET EP :
             OutInv(S) /\ ("hsk" \notin env.lose => \A f \in EP : HasOut(env, f) => f \in S)
      BY DEF ToggleInv
    <2>2. TookInv(S) /\ ~Positive(e)
      BY <2>1 DEF OutInv, Positive
    <2>3. hTglInp[e] = r.dataTglInp[e] \/ (r.bufInpVld /\ r.bufInpEpIdx = e)
      <3>1. CASE NoInpInv /\ SetupTgl
        BY <2>2, <3>1 DEF SetupTgl, Took
      <3>2. CASE InpInv
        BY <3>2 DEF InpInv, TglInv, Behind
      <3> QED BY <3>1, <3>2 DEF ToggleInv
    <2>4. hTglOut[e] # r.dataTglOut[e] => More(e) /\ "hsk" \in env.lose
      <3>1. hTglOut[e] # r.dataTglOut[e] => Took(e) /\ e \notin S
        BY <2>2 DEF TookInv
      <3>2. Took(e) => More(e)
        BY DEF Took
      <3> QED BY <2>1, <3>1, <3>2, MorePkt
    <2> QED BY <2>3, <2>4
  <1> QED BY <1>1, <1>2, <1>3, TypeCorrect, EngineSafe, PTL DEF Spec
=============================================================================
