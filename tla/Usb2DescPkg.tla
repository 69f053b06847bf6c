---------------------------- MODULE Usb2DescPkg ----------------------------
(***************************************************************************)
(* How the firmware reads the table (core/hdl/Usb2DescPkg.vhd): a table is  *)
(* one sequence of bytes, a descriptor an index into it, counted from 0,    *)
(* and -1 is "not found".  A search walks from descriptor to descriptor by  *)
(* their lengths; here it picks from the set of those it would visit.       *)
(***************************************************************************)
EXTENDS Integers, Sequences

LOCAL INSTANCE SequencesExt
LOCAL INSTANCE FiniteSetsExt

NotFound == -1
\* The result of a search that hits 'assert ... severity failure'.
Failure == -2

At(d, x) == d[x + 1]
TypeAt(d, x) == At(d, x + 1)
SubtypeAt(d, x) == At(d, x + 2)
IsSentinel(typ) == typ >= 128

\* a: stop at a sentinel.
usb2NextDescriptor(d, i, a) ==
  IF i < 0 THEN i
  ELSE LET x == i + At(d, i)
       IN  IF x >= Len(d) - 1 THEN NotFound
           ELSE IF a /\ IsSentinel(TypeAt(d, x)) THEN NotFound
           ELSE x

\* The descriptors that a walk from i visits, the first one included.
Visited(d, i, a) ==
  LET v[x \in Int] == IF x < 0 THEN {} ELSE {x} \cup v[usb2NextDescriptor(d, x, a)]
  IN  v[i]

\* The descriptors of a set in the order of the table.
InOrder(S) == [k \in 1 .. Cardinality(S) |-> CHOOSE x \in S : Cardinality({y \in S : y <= x}) = k]
FirstOf(S) == IF S = {} THEN NotFound ELSE Min(S)

OfTypeFrom(d, i, t, a) == {x \in Visited(d, i, a) : TypeAt(d, x) = t}
usb2NextOfType(d, i, t, a) == FirstOf(OfTypeFrom(d, i, t, a))

\* A class-specific descriptor of interface i, before the next interface or endpoint.
usb2NextCsDescriptor(d, i, st, a) ==
  LET Cs(x) == TypeAt(d, x) = 36 /\ SubtypeAt(d, x) = st
      x == FirstOf({y \in Visited(d, usb2NextDescriptor(d, i, a), a) : TypeAt(d, y) \in {4, 5} \/ Cs(y)})
  IN  IF TypeAt(d, i) # 4 THEN Failure
      ELSE IF x >= 0 /\ Cs(x) THEN x ELSE NotFound

findMax(d, t, o, m) ==
  Max({At(d, x + o) % m : x \in OfTypeFrom(d, 0, t, FALSE)} \cup {NotFound})
usb2AppGetMaxEndpointAddr(d) == Max({0, findMax(d, 5, 2, 16)}) + 1
usb2AppGetMaxInterfaces(d) == findMax(d, 4, 2, 128) + 1
usb2AppGetMaxAltsettings(d) == findMax(d, 4, 3, 128) + 1

usb2CountDescriptors(d, i, t, a) == Cardinality(OfTypeFrom(d, i, t, a))
Usb2AppGetNumConfigurations(d, i) == usb2CountDescriptors(d, i, 2, TRUE)
usb2AppGetNumStrings(d) == usb2CountDescriptors(d, 0, 3, FALSE)

deviceDescriptorIndex(d, hs) ==
  LET i == usb2NextOfType(d, 0, 1, FALSE)
  IN  IF hs THEN usb2NextOfType(d, usb2NextDescriptor(d, i, FALSE), 1, FALSE) ELSE i

\* Index 0 is the device, index n its n-th configuration; no device, no table.
usb2AppGetConfigIdxTbl(d, hs) ==
  LET dev == deviceDescriptorIndex(d, hs)
      cfgs == InOrder(OfTypeFrom(d, dev, 2, FALSE))
  IN  IF dev < 0 THEN <<>>
      ELSE <<dev>> \o SubSeq(cfgs, 1, Usb2AppGetNumConfigurations(d, dev))

\* n = 0 are the language ids.
usb2NthStringDescriptor(d, n) ==
  LET strings == InOrder(OfTypeFrom(d, usb2NextOfType(d, 0, 3, FALSE), 3, TRUE))
  IN  IF n + 1 \in DOMAIN strings THEN strings[n + 1] ELSE NotFound

usb2NextIfcDescriptor(d, i, c, s) ==
  FirstOf({x \in OfTypeFrom(d, i, 4, TRUE) : At(d, x + 5) = c /\ At(d, x + 6) = s})

IfcAssocsFrom(d, i, c, s, p) ==
  {x \in OfTypeFrom(d, i, 11, TRUE) : At(d, x + 4) = c /\ At(d, x + 5) = s /\ At(d, x + 6) = p}
usb2NextIfcAssocDescriptor(d, i, c, s, p) == FirstOf(IfcAssocsFrom(d, i, c, s, p))
-----------------------------------------------------------------------------
(* Ethernet; s is the subclass of ECM or NCM. *)

usb2EthNetworkingDescriptor(d, i, s) ==
  LET x == usb2NextIfcDescriptor(d, i, 2, s)
  IN  IF x < 0 THEN NotFound ELSE usb2NextCsDescriptor(d, x, 15, TRUE)

usb2EthMacAddrStringDescriptor(d, i, s) ==
  LET x == usb2EthNetworkingDescriptor(d, i, s)
  IN  IF x < 0 THEN NotFound ELSE usb2NthStringDescriptor(d, At(d, x + 3))

\* Mutant: only small letters are told from digits.
MutNibble(u) == (u + IF u >= 97 THEN 9 ELSE 0) % 16

\* The lower nibble of a digit; letters of either case start at nibble 1.
Nibble(u) == (u + IF u >= 65 THEN 9 ELSE 0) % 16
\* Whatever string it is, twelve characters are taken, at most to the end of the table.
getMacAddr(d, i, s) ==
  LET x == usb2EthMacAddrStringDescriptor(d, i, s)
  IN  IF x < 0 THEN <<>>
      ELSE IF x + 26 > Len(d) THEN Failure
      ELSE [k \in 1 .. 6 |-> 16 * Nibble(At(d, x + 4 * k - 2)) + Nibble(At(d, x + 4 * k))]

usb2GetNCMNetworkCapabilities(d, i) ==
  LET x == usb2NextIfcDescriptor(d, i, 2, 13)
      n == IF x > 0 THEN usb2NextCsDescriptor(d, x, 26, TRUE) ELSE NotFound
  IN  IF n > 0 THEN At(d, n + 5) ELSE NotFound

usb2GetNumMCFilters(d, i, s) ==
  LET x == usb2EthNetworkingDescriptor(d, i, s)
  IN  IF x < 0 THEN Failure ELSE At(d, x + 10) + 256 * (At(d, x + 11) % 128)
usb2GetMCFilterPerfect(d, i, s) == At(d, usb2EthNetworkingDescriptor(d, i, s) + 11) < 128
-----------------------------------------------------------------------------
(* Audio class 2; s: the streaming, not the control interface. *)

\* The interface is the first one of the class with anything but an interface
\* behind it: alternate setting 0 of the streaming interface is empty.
usb2NextCsUAC2(d, i, t, s) ==
  LET ifcs == {x \in OfTypeFrom(d, i, 4, TRUE) :
                 At(d, x + 5) = 1 /\ At(d, x + 6) = (IF s THEN 2 ELSE 1)}
      last == {x \in ifcs : usb2NextDescriptor(d, x, TRUE) < 0}
      x    == FirstOf({y \in ifcs \ last : /\ At(d, y + 7) = 32
                                           /\ TypeAt(d, usb2NextDescriptor(d, y, TRUE)) # 4})
  IN  IF x < 0 THEN NotFound ELSE usb2NextCsDescriptor(d, x, t, TRUE)

usb2NextUAC2IfcAssocDescriptor(d, i, c) ==
  FirstOf({r \in IfcAssocsFrom(d, i, 1, 0, 32) :
             LET x == usb2NextCsUAC2(d, r, 1, FALSE) IN x >= 0 /\ At(d, x + 5) = c})

usb2GetUAC2NumChannels(d, i) ==
  LET x == usb2NextCsUAC2(d, i, 1, TRUE) IN IF x < 0 THEN Failure ELSE At(d, x + 10)
usb2GetUAC2SubSlotSize(d, i) ==
  LET x == usb2NextCsUAC2(d, i, 2, TRUE) IN IF x < 0 THEN Failure ELSE At(d, x + 4)
usb2GetUAC2SelectorUnitPins(d, i) ==
  LET x == usb2NextCsUAC2(d, i, 5, FALSE) IN IF x < 0 THEN 0 ELSE At(d, x + 4)
-----------------------------------------------------------------------------
(* What the example device (example/hdl/Usb2ExampleDev.vhd:281-374) makes of *)
(* the table: which functions there are, and the endpoints and interfaces    *)
(* their agents are wired to.                                                *)

IfcAssoc(d, fcn) ==
  CASE fcn = "ACM"  -> usb2NextIfcAssocDescriptor(d, 0, 2, 2, 0)
    [] fcn = "SPKR" -> Max({usb2NextIfcAssocDescriptor(d, 0, 1, 34, 48),
                            usb2NextUAC2IfcAssocDescriptor(d, 0, 1)})
    [] fcn = "MICR" -> usb2NextUAC2IfcAssocDescriptor(d, 0, 3)
    [] fcn = "ECM"  -> usb2NextIfcAssocDescriptor(d, 0, 2, 6, 0)
    [] fcn = "NCM"  -> usb2NextIfcAssocDescriptor(d, 0, 2, 13, 0)
Have(d, fcn) == IfcAssoc(d, fcn) >= 0

Functions5 == <<"ACM", "SPKR", "MICR", "ECM", "NCM">>
Audio == {"SPKR", "MICR"}

\* The functions before fcn in the order of the table.
Before(d, fcn) == LET k == CHOOSE j \in DOMAIN Functions5 : Functions5[j] = fcn
                  IN  {Functions5[j] : j \in 1 .. k - 1}

CTL_IFC_NUM(d, fcn) == 2 * Cardinality({f \in Before(d, fcn) : Have(d, f)})

\* The first endpoint pair: bulk or isochronous data; the notifications have the next.
EP_IDX(d, fcn) ==
  (IF Have(d, fcn) THEN 1 ELSE 0)
    + FoldSet(LAMBDA f, n : n + IF ~Have(d, f) THEN 0 ELSE IF f \in Audio THEN 1 ELSE 2,
              0, Before(d, fcn))

\* Evaluated whether there is an ACM function or not.
acmCapabilities(d) ==
  LET i == usb2NextDescriptor(d, IfcAssoc(d, "ACM"), FALSE)
      x == usb2NextCsDescriptor(d, i, 2, FALSE)
  IN  IF x < 0 THEN Failure ELSE At(d, x + 3)
=============================================================================
