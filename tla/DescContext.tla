---------------------------- MODULE DescContext ----------------------------
(***************************************************************************)
(* A script that builds a table with the context of Usb2Desc.py: it        *)
(* creates descriptors in any order, names them, clones them, calls        *)
(* wrapup() whenever it likes, catches the exceptions and goes on.  A call *)
(* that raises at once and changes nothing is a disabled action.           *)
(***************************************************************************)
EXTENDS Usb2Desc

LOCAL INSTANCE SequencesExt
LOCAL INSTANCE FiniteSetsExt

CONSTANTS
  Strings,       \* the strings a script uses, none of them empty
  PacketSizes,   \* values of bMaxPacketSize0
  MaxNames,      \* bound: calls that set a string
  MaxStrays,     \* bound: descriptors created at a place the layout does not allow
  MaxEffort      \* bound: descriptors and names together, a stray descriptor counts thrice

ASSUME StringsAssumption == Strings \subseteq Seq(0 .. 65535) \ {<<>>}
ASSUME BoundsAssumption == MaxNames \in Nat /\ MaxStrays \in Nat /\ MaxEffort \in Nat

VARIABLES
  ctx,      \* the context
  named,    \* named[k]: the string the script gave the k-th descriptor it created
  names,    \* calls that set a string, so far
  strays,   \* descriptors created out of order, so far
  failed    \* wrapup() has raised

vars == <<ctx, named, names, strays, failed>>

Init ==
  /\ ctx = NewContext
  /\ named = <<>>
  /\ names = 0
  /\ strays = 0
  /\ failed = FALSE
-----------------------------------------------------------------------------
(* The layout the firmware expects: one section, or one per speed with a    *)
(* sentinel between them; in a section a device, then its configurations,   *)
(* each with its interfaces, each with its endpoints.                       *)

CountOf(typ, descs) == Len(SelectSeq(descs, LAMBDA d : bDescriptorType(d) = typ))

LastOf(typs, descs) == LET k == {i \in DOMAIN descs : bDescriptorType(descs[i]) \in typs}
                       IN  IF k = {} THEN 0 ELSE Max(k)

Fits(d, descs) ==
  LET typ  == bDescriptorType(d)
      prev == IF descs = <<>> THEN 0 ELSE bDescriptorType(Last(descs))
      over == {INTERFACE, ENDPOINT}
  IN  CASE typ = DEVICE        -> prev = 0 \/ prev = SENTINEL
        [] typ = CONFIGURATION -> prev \in {DEVICE} \cup over
        [] typ = INTERFACE     -> \/ prev \in over
                                  \/ prev = CONFIGURATION /\ Get(d, 3) = 0
        [] typ = ENDPOINT      -> prev \in over
        [] typ = SENTINEL      -> prev \in over /\ CountOf(SENTINEL, descs) = 0

\* The list, as created, is complete and in order.
InLayout(descs) ==
  /\ strays = 0 /\ ~failed
  /\ descs # <<>> /\ bDescriptorType(Last(descs)) \in {INTERFACE, ENDPOINT}
-----------------------------------------------------------------------------
(* Calls. *)

Effort == Len(ctx.descs) + names + 2 * strays

Created(d) ==
  /\ ~ctx.wrapped
  /\ strays' = IF Fits(d, ctx.descs) THEN strays ELSE strays + 1
  /\ strays' <= MaxStrays /\ Effort + 1 + 2 * (strays' - strays) <= MaxEffort
  /\ UNCHANGED <<names, failed>>

Create(d) ==
  /\ Created(d)
  /\ ctx' = append(ctx, d)
  /\ named' = Append(named, <<>>)

CreateDevice == \E p \in PacketSizes : Create(DeviceDesc(<<0, 0, 0>>, p, 4617, 1, 512))
CreateConfiguration == Create(ConfigurationDesc(0, 50))
\* The script numbers the interfaces of a configuration; an alternate setting
\* has the number of the interface before it.
CreateInterface ==
  \E alt \in {0, 1} :
    LET here == SubSeq(ctx.descs, LastOf({CONFIGURATION}, ctx.descs) + 1, Len(ctx.descs))
        num  == Len(SelectSeq(here, LAMBDA d : bDescriptorType(d) = INTERFACE /\ Get(d, 3) = 0))
    IN  Create(InterfaceDesc(IF alt = 0 THEN num ELSE (num + 255) % 256, alt, <<255, 0, 0>>))
CreateEndpoint == Create(EndpointDesc(129, 2, 64, 0))
CreateSentinel == Create(SentinelDesc)

\* clone() of a device or a configuration, strings included.
Clone ==
  \E i \in DOMAIN ctx.descs :
    /\ bDescriptorType(ctx.descs[i]) \in {DEVICE, CONFIGURATION}
    /\ Created(ctx.descs[i])
    /\ ctx' = clone(ctx, i)
    /\ named' = Append(named, named[i])

\* The string a script sets: the product, or the name of what is described.
nameOffset(d) ==
  CASE bDescriptorType(d) = DEVICE -> 15
    [] bDescriptorType(d) = CONFIGURATION -> 6
    [] bDescriptorType(d) = INTERFACE -> 8
    [] OTHER -> 0

\* A name may replace an earlier one, whose string stays in the table.
Name ==
  \E i \in DOMAIN ctx.descs, s \in Strings :
    /\ ~ctx.wrapped
    /\ names < MaxNames /\ Effort < MaxEffort
    /\ nameOffset(ctx.descs[i]) # 0
    /\ ctx' = cvtString(ctx, i, nameOffset(ctx.descs[i]), s)
    /\ named' = [named EXCEPT ![i] = s]
    /\ names' = names + 1
    /\ UNCHANGED <<strays, failed>>

\* After an exception the device that marks the end stays in the list.
Wrapup ==
  /\ ~ctx.wrapped
  /\ Effort <= MaxEffort
  /\ ctx' = wrapup(ctx)
  /\ failed' = (failed \/ wrapupRaises(ctx))
  /\ named' = IF Len(ctx'.descs) > Len(named) /\ ~ctx'.wrapped THEN Append(named, <<>>) ELSE named
  /\ UNCHANGED <<names, strays>>

Next ==
  \/ CreateDevice \/ CreateConfiguration \/ CreateInterface
  \/ CreateEndpoint \/ CreateSentinel
  \/ Clone \/ Name \/ Wrapup

Spec == Init /\ [][Next]_vars
-----------------------------------------------------------------------------
(* Properties. *)

\* The context is well-formed: every descriptor is a byte string that holds its
\* own length, and no string is there twice or empty.
TypeOK ==
  /\ \A i \in DOMAIN ctx.descs : LET d == ctx.descs[i]
                                 IN  d \in Seq(Byte) /\ Len(d) >= 2 /\ Get(d, 0) = Len(d)
  /\ ctx.wrapped \in BOOLEAN /\ failed \in BOOLEAN
  /\ ctx.strtbl \in Seq(Strings)
  /\ names \in 0 .. MaxNames /\ strays \in 0 .. MaxStrays
  /\ ctx.wrapped \/ Len(named) = Len(ctx.descs)

\* The strings of the table are pairwise different ("finds or adds a string").
UniqueStrings == \A i, j \in DOMAIN ctx.strtbl : ctx.strtbl[i] = ctx.strtbl[j] => i = j

\* The descriptors of the script in a table: without those wrapup() inserts.
OfScript(descs) ==
  SubSeq(SelectSeq(descs, LAMBDA d : bDescriptorType(d) \notin {DEVICE_QUALIFIER, STRING_}),
         1, Len(named))

\* The positions that belong to the descriptor at i: all up to the next one of these types.
Scope(l, i, typs) ==
  LET over == {k \in i + 1 .. Len(l) : bDescriptorType(l[k]) \in typs}
  IN  i .. (IF over = {} THEN Len(l) ELSE Min(over) - 1)
OfType(l, range, typ) == {k \in range : bDescriptorType(l[k]) = typ}

\* What wrapup() counts is right in every table that follows the layout: the
\* host reads a whole configuration by wTotalLength, and the firmware selects a
\* configuration by its value, taking the values for 1, 2, ... in order.
CountsRight ==
  LET l == OfScript(ctx.descs)
      section == {DEVICE, SENTINEL}
      ConfigurationRight(i) ==
        LET sc   == Scope(l, i, section \cup {CONFIGURATION})
            dev  == Max({k \in 1 .. i : bDescriptorType(l[k]) = DEVICE})
        IN  /\ Get2(l[i], 2) = FoldSet(LAMBDA k, n : n + Len(l[k]), 0, sc)
            /\ Get(l[i], 4) = Cardinality({Get(l[k], 2) : k \in OfType(l, sc, INTERFACE)})
            /\ Get(l[i], 5) = Cardinality(OfType(l, dev .. i, CONFIGURATION))
      InterfaceRight(i) ==
        Get(l[i], 4) = Cardinality(OfType(l, Scope(l, i, section \cup {CONFIGURATION, INTERFACE}),
                                          ENDPOINT))
      DeviceRight(i) ==
        Get(l[i], 17) = Cardinality(OfType(l, Scope(l, i, section), CONFIGURATION))
  IN  ctx.wrapped /\ strays = 0 =>
        \A i \in DOMAIN l :
          CASE bDescriptorType(l[i]) = CONFIGURATION -> ConfigurationRight(i)
            [] bDescriptorType(l[i]) = INTERFACE     -> InterfaceRight(i)
            [] bDescriptorType(l[i]) = DEVICE        -> DeviceRight(i)
            [] OTHER                                 -> TRUE

\* With a device per speed each is followed by a qualifier that describes the
\* other one (README.md:838-852); with one device there is no qualifier.
QualifiersRight ==
  LET t    == ctx.descs
      devs == OfType(t, DOMAIN t, DEVICE)
      Describes(q, d) == /\ Get2(q, 2) = Get2(d, 2) /\ SubSeq(q, 5, 8) = SubSeq(d, 5, 8)
                         /\ Get(q, 8) = Get(d, 17)
  IN  ctx.wrapped /\ strays = 0 =>
        /\ Cardinality(OfType(t, DOMAIN t, DEVICE_QUALIFIER))
             = IF Cardinality(devs) = 1 THEN 0 ELSE Cardinality(devs)
        /\ \A i, j \in devs : i # j => /\ bDescriptorType(t[i + 1]) = DEVICE_QUALIFIER
                                       /\ Describes(t[i + 1], t[j])

\* Every string the script set is the one the index in the table stands for,
\* for clones, renamed descriptors and strings used twice too.
NamesResolve ==
  LET l == OfScript(ctx.descs)
      strings == SelectSeq(ctx.descs, LAMBDA d : bDescriptorType(d) = STRING_)
  IN  ctx.wrapped =>
        /\ Len(l) = Len(named)
        /\ \A k \in DOMAIN l :
             LET n == Get(l[k], nameOffset(l[k]))
             IN  nameOffset(l[k]) # 0 =>
                   IF named[k] = <<>> THEN n = 0
                   ELSE n + 1 \in DOMAIN strings /\ strings[n + 1] = StringDesc(named[k])

\* wrapup() never rejects what follows the layout.
LayoutAccepted == InLayout(ctx.descs) /\ ~ctx.wrapped => ~wrapupRaises(ctx)

\* A context whose wrapup() raised is lost: no repair, retry or addition makes a
\* table of it, which would hold the device that marks the end.
FailureIsFinal == failed => ~ctx.wrapped

\* A string keeps its index: descriptors refer to it from the moment they are named.
StringsStay ==
  [][\A k \in DOMAIN ctx.strtbl : k \in DOMAIN ctx.strtbl' /\ ctx.strtbl'[k] = ctx.strtbl[k]]_vars
=============================================================================
