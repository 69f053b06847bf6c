------------------------------ MODULE Usb2Desc ------------------------------
(***************************************************************************)
(* The descriptor generator scripts/Usb2Desc.py: descriptors, the context  *)
(* that collects them with the strings they name, and wrapup().            *)
(*                                                                         *)
(* A descriptor is its content, a sequence of bytes: offset k of the code  *)
(* is element k + 1.  A context is a record of the list of descriptors,    *)
(* the string table and the flag 'wrapped'.  A string is the sequence of   *)
(* its UTF-16 code units; None and the empty string are <<>>.              *)
(***************************************************************************)
EXTENDS Integers, Sequences

LOCAL INSTANCE SequencesExt

Byte == 0 .. 255

\* acc(): an attribute of n bytes, least significant first; the rest is cut off.
LE(v, n) == [i \in 1 .. n |-> (v \div 256^(i - 1)) % 256]

Get(d, off) == d[off + 1]
Get2(d, off) == d[off + 1] + 256 * d[off + 2]
Set(d, off, v, n) ==
  [i \in DOMAIN d |-> IF i \in off + 1 .. off + n THEN LE(v, n)[i - off] ELSE d[i]]
-----------------------------------------------------------------------------
(* Descriptor types. *)

DEVICE == 1
CONFIGURATION == 2
STRING_ == 3
INTERFACE == 4
ENDPOINT == 5
DEVICE_QUALIFIER == 6
INTERFACE_ASSOCIATION == 11
CS_INTERFACE == 36
CS_ENDPOINT == 37
SENTINEL == 255

bDescriptorType(d) == Get(d, 1)

\* Mutant: the header is not part of the length.
MutDesc(typ, body) == <<Len(body) % 256, typ>> \o body

\* The constructor of every descriptor class writes the length and the type.
Desc(typ, body) == <<(Len(body) + 2) % 256, typ>> \o body

(* Descriptor classes.  Attributes holding a string are 0 until it is named. *)

SentinelDesc == Desc(SENTINEL, <<>>)
StringDesc(s) == Desc(STRING_, FlattenSeq([i \in DOMAIN s |-> LE(s[i], 2)]))
LangIdDesc(id) == Desc(STRING_, LE(id, 2))

DeviceDesc(class, pktSize0, vendor, product, release) ==
  Desc(DEVICE, LE(512, 2) \o class \o <<pktSize0>> \o LE(vendor, 2) \o LE(product, 2)
                 \o LE(release, 2) \o <<0, 0, 0, 0>>)
\* The device of the constructor, no attribute set.
BlankDevice == DeviceDesc(<<0, 0, 0>>, 0, 0, 0, 512)
QualifierDesc(dev) == Desc(DEVICE_QUALIFIER, SubSeq(dev, 3, 8) \o <<Get(dev, 17), 0>>)

ConfigurationDesc(attributes, power) ==
  Desc(CONFIGURATION, <<0, 0, 0, 0, 0, 128 + (attributes % 128), power>>)
InterfaceDesc(num, alt, class) == Desc(INTERFACE, <<num, alt, 0>> \o class \o <<0>>)
InterfaceAssociationDesc(first, count, class) ==
  Desc(INTERFACE_ASSOCIATION, <<first, count>> \o class \o <<0>>)
EndpointDesc(addr, attributes, pktSize, interval) ==
  Desc(ENDPOINT, <<addr, attributes>> \o LE(pktSize, 2) \o <<interval>>)

\* CDC
CDCHeaderDesc == Desc(CS_INTERFACE, <<0>> \o LE(288, 2))
CallManagementDesc(caps, dataIfc) == Desc(CS_INTERFACE, <<1, caps, dataIfc>>)
ACMDesc(caps) == Desc(CS_INTERFACE, <<2, caps>>)
UnionDesc(ctlIfc, subs) == Desc(CS_INTERFACE, <<6, ctlIfc>> \o subs)
EthernetDesc(mcFilters) ==
  Desc(CS_INTERFACE, <<15, 0>> \o LE(0, 4) \o LE(1514, 2) \o LE(mcFilters, 2) \o <<0>>)
NCMDesc(caps) == Desc(CS_INTERFACE, <<26>> \o LE(256, 2) \o <<caps>>)

\* Audio class 2
AudioHeaderDesc(category, totalLength) ==
  Desc(CS_INTERFACE, <<1>> \o LE(512, 2) \o <<category>> \o LE(totalLength, 2) \o <<0>>)
ClockSourceDesc(id, attributes, controls) ==
  Desc(CS_INTERFACE, <<10, id, attributes, controls, 0, 0>>)
InputTerminalDesc(id, typ, clock, channels, config) ==
  Desc(CS_INTERFACE, <<2, id % 256>> \o LE(typ, 2) \o <<0, clock, channels>>
                       \o LE(config, 4) \o <<0>> \o LE(0, 2) \o <<0>>)
OutputTerminalDesc(id, typ, source, clock) ==
  Desc(CS_INTERFACE, <<3, id>> \o LE(typ, 2) \o <<0, source, clock>> \o LE(0, 2) \o <<0>>)
FeatureUnitDesc(id, source, controls) ==
  Desc(CS_INTERFACE, <<6, id, source>>
                       \o FlattenSeq([i \in DOMAIN controls |-> LE(controls[i], 4)]) \o <<0>>)
ASInterfaceDesc(link, format, channels, config) ==
  Desc(CS_INTERFACE, <<1, link, 0, 1>> \o LE(format, 4) \o <<channels>> \o LE(config, 4) \o <<0>>)
FormatType1Desc(slotSize, bits) == Desc(CS_INTERFACE, <<2, 1, slotSize, bits>>)
ASEndpointDesc == Desc(CS_ENDPOINT, <<1, 0, 0, 0, 0, 0>>)

\* The selector unit grows with its pins; the two attributes behind them move.
SelectorUnitDesc == Desc(CS_INTERFACE, <<5, 0, 0, 0, 0>>)
bNrInPins(d, n) ==
  LET grown == SubSeq(d, 1, 5) \o [k \in 1 .. n |-> 0] \o SubSeq(d, Len(d) - 1, Len(d))
  IN  Set(Set(grown, 0, 7 + n, 1), 4, n, 1)
baSourceID(d, ids) == SubSeq(d, 1, 5) \o ids \o SubSeq(d, Len(d) - 1, Len(d))
selControlsOff(d) == Len(d) - 2
iSelectorOff(d) == Len(d) - 1
-----------------------------------------------------------------------------
(* The context. *)

NewContext == [descs |-> <<>>, strtbl |-> <<>>, wrapped |-> FALSE]

\* Mutants: a string is not looked up; the last one comes first; the language ids
\* are not counted.
MutPrependString(tbl, s) == IF s = <<>> \/ s \in Range(tbl) THEN tbl ELSE <<s>> \o tbl
MutAddString(tbl, s) == IF s = <<>> THEN tbl ELSE Append(tbl, s)
MutStringIndex(tbl, s) == IF s = <<>> THEN 0 ELSE (CHOOSE k \in DOMAIN tbl : tbl[k] = s) - 1

addString(tbl, s) ==
  IF s = <<>> \/ \E k \in DOMAIN tbl : tbl[k] = s THEN tbl ELSE Append(tbl, s)
stringIndex(tbl, s) == IF s = <<>> THEN 0 ELSE CHOOSE k \in DOMAIN tbl : tbl[k] = s

\* d.iXxx(s) for the descriptor at i of an open context.
cvtString(c, i, off, s) ==
  LET tbl == addString(c.strtbl, s)
  IN  [c EXCEPT !.strtbl = tbl, !.descs[i] = Set(@, off, stringIndex(tbl, s), 1)]

\* factory(): create a descriptor and append it, and set its strings, each a pair
\* of an offset and a string, in this order.
append(c, d) == [c EXCEPT !.descs = Append(@, d)]
create(c, d, names) ==
  FoldLeft(LAMBDA e, n : cvtString(e, Len(e.descs), n[1], n[2]), append(c, d), names)

\* clone(): a new object of the class gets every attribute of this one.
clone(c, i) == [c EXCEPT !.descs = Append(@, @[i])]
-----------------------------------------------------------------------------
(* wrapup() reads the list once and fills in what it counts when the        *)
(* device, configuration or interface that the count belongs to is over.    *)
(* The record holds its local variables; devd, cnfd and ifcd are positions, *)
(* None or, before the first assignment, Unbound: to use one that is not a  *)
(* position raises an exception.                                            *)

None == 0
Unbound == -1

WrapLocals(descs) ==
  [descs |-> descs, devds |-> <<>>, devd |-> None, cnfd |-> Unbound, ifcd |-> Unbound,
   nume |-> Unbound, numc |-> 0, ifn |-> 0, totl |-> 0, raised |-> FALSE]

Raise(w) == [w EXCEPT !.raised = TRUE]


\* ifcd.bNumEndpoints(nume)
CloseInterface(w) ==
  IF w.ifcd <= 0 THEN Raise(w) ELSE [w EXCEPT !.descs[w.ifcd] = Set(@, 4, w.nume, 1)]

\* cnfd.wTotalLength(totl); cnfd.bNumInterfaces(ifn + 1)
CloseConfiguration(w) ==
  LET v == CloseInterface(w)
  IN  IF v.raised THEN v
      ELSE IF v.cnfd <= 0 THEN Raise(v)
      ELSE [v EXCEPT !.descs[v.cnfd] = Set(Set(@, 2, v.totl, 2), 4, v.ifn + 1, 1)]

\* Mutant: the test for the first device is forgotten.
MutWrapDevice(w, i) ==
  LET v == CloseConfiguration(w)
  IN  IF v.raised THEN v
      ELSE [v EXCEPT !.numc = 0, !.cnfd = None, !.devd = i, !.devds = Append(@, i)]

WrapDevice(w, i) ==
  LET v == CloseConfiguration(w)
      closed == IF w.devd = None THEN w
                ELSE IF v.raised THEN v
                ELSE [v EXCEPT !.descs[v.devd] = Set(@, 17, v.numc, 1)]
  IN  IF closed.raised THEN closed
      ELSE [closed EXCEPT !.numc = 0, !.cnfd = None, !.devd = i, !.devds = Append(@, i)]

WrapConfiguration(w, i) ==
  LET closed == IF w.cnfd = None THEN w ELSE CloseConfiguration(w)
  IN  IF w.cnfd = Unbound THEN Raise(w)
      ELSE IF closed.raised THEN closed
      ELSE [closed EXCEPT !.cnfd = i, !.ifcd = None, !.totl = 0, !.ifn = -1, !.numc = @ + 1,
                          !.descs[i] = Set(@, 5, w.numc + 1, 1)]

\* Mutant: alternate settings are counted as interfaces.
MutWrapInterface(w, i) ==
  LET closed == IF w.ifcd = None THEN w ELSE CloseInterface(w)
  IN  IF closed.raised THEN closed ELSE [closed EXCEPT !.nume = 0, !.ifcd = i, !.ifn = @ + 1]

WrapInterface(w, i) ==
  LET closed == IF w.ifcd = None THEN w ELSE CloseInterface(w)
  IN  IF closed.raised THEN closed
      ELSE [closed EXCEPT !.nume = 0, !.ifcd = i,
                          !.ifn = IF Get(w.descs[i], 3) = 0 THEN @ + 1 ELSE @]

WrapEndpoint(w, i) == IF w.nume = Unbound THEN Raise(w) ELSE [w EXCEPT !.nume = @ + 1]

\* Mutant: a separating sentinel is counted.
MutWrapStep(w, i) ==
  LET typ == bDescriptorType(w.descs[i])
      v   == CASE typ = DEVICE        -> WrapDevice(w, i)
               [] typ = CONFIGURATION -> WrapConfiguration(w, i)
               [] typ = INTERFACE     -> WrapInterface(w, i)
               [] typ = ENDPOINT      -> WrapEndpoint(w, i)
               [] OTHER               -> w
  IN  [v EXCEPT !.totl = @ + Get(v.descs[i], 0)]

WrapStep(w, i) ==
  LET typ == bDescriptorType(w.descs[i])
      v   == CASE typ = DEVICE        -> WrapDevice(w, i)
               [] typ = CONFIGURATION -> WrapConfiguration(w, i)
               [] typ = INTERFACE     -> WrapInterface(w, i)
               [] typ = ENDPOINT      -> WrapEndpoint(w, i)
               [] OTHER               -> w
  IN  IF w.raised THEN w
      ELSE IF v.raised \/ typ = SENTINEL THEN v
      ELSE [v EXCEPT !.totl = @ + Get(v.descs[i], 0)]

\* The scan, with a device appended as an end mark.
WrapScan(descs) ==
  LET marked == Append(descs, BlankDevice)
  IN  FoldLeft(WrapStep, WrapLocals(marked), [i \in DOMAIN marked |-> i])

\* Mutant: each device gets the qualifier made of itself.
MutAddQualifiers(descs, devds) ==
  IF Len(devds) <= 2 THEN descs
  ELSE InsertAt(InsertAt(descs, devds[1] + 1, QualifierDesc(descs[devds[1]])),
                devds[2] + 2, QualifierDesc(descs[devds[2]]))

\* Two device descriptors are those of full and high speed: each gets the
\* qualifier of the other one.
AddQualifiers(descs, devds) ==
  LET fsd  == devds[1]
      hsd  == devds[2]
      fsq  == QualifierDesc(descs[hsd])
      hsq  == QualifierDesc(descs[fsd])
  IN  IF Len(devds) <= 2 THEN descs
      ELSE InsertAt(InsertAt(descs, fsd + 1, fsq), hsd + 2, hsq)

\* Mutant: the mark is removed after an exception.
MutWrapup(c) ==
  LET w == WrapScan(c.descs)
  IN  IF w.raised THEN [c EXCEPT !.descs = Front(w.descs)]
      ELSE [c EXCEPT !.descs = AddQualifiers(Front(w.descs), w.devds) \o <<SentinelDesc>>,
                     !.wrapped = TRUE]

\* What wrapup() leaves behind, after an exception too: the mark, and what was
\* filled in before.
wrapup(c) ==
  LET w       == WrapScan(c.descs)
      strings == IF c.strtbl = <<>> THEN <<>>
                 ELSE <<LangIdDesc(1033)>> \o [k \in DOMAIN c.strtbl |-> StringDesc(c.strtbl[k])]
  IN  IF w.raised THEN [c EXCEPT !.descs = w.descs]
      ELSE [c EXCEPT !.descs = AddQualifiers(Front(w.descs), w.devds) \o strings \o <<SentinelDesc>>,
                     !.wrapped = TRUE]
wrapupRaises(c) == WrapScan(c.descs).raised

\* emitVhdlByteArray(): all descriptors, one after the other.
VhdlByteArray(c) == FlattenSeq(c.descs)
=============================================================================
