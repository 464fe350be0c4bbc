-------------------------- MODULE MCSmartnetParser --------------------------
(***************************************************************************)
(* What a radio system may send, for TLC: one burst per way through the     *)
(* parser, and the delayed and interleaved idles that the comments of       *)
(* process_osws describe.                                                   *)
(***************************************************************************)
EXTENDS SmartnetParser

\* Words to and from a group, and an individual.
G(cmd, addr) == [cmd |-> cmd, grp |-> TRUE, addr |-> addr, part |-> 1]
I(cmd, addr) == [cmd |-> cmd, grp |-> FALSE, addr |-> addr, part |-> 1]
Other(w) == [w EXCEPT !.part = 2]

OneIdle == I("2f8", "id")
Analog  == <<I("308", "id"), G("rx", "id")>>
Digital == <<G("321", "id"), G("rx", "id")>>
CcThree == <<I("308", "id"), G("30b", "28"), I("rx", "1f")>>
System  == <<I("308", "id"), G("320", "id"), I("30b", "60")>>
Affiliation == <<I("308", "id"), I("310", "id")>>
Ring    == <<I("321", "id"), I("317", "id")>>

\* A message with a delayed idle of one word after its n-th word.
Delayed(m, n) == SubSeq(m, 1, n) \o <<Other(OneIdle)>> \o SubSeq(m, n + 1, Len(m))

\* An idle of two words around the first word of a message.
Around(m) == <<Other(I("308", "id")), Head(m), Other(OneIdle)>> \o Tail(m)

Grants == {Analog, Digital, <<G("rx", "id")>>}

Idles == {<<OneIdle>>, <<I("308", "id"), OneIdle>>}

Others ==
  {CcThree, System, Affiliation, Ring, <<I("308", "id"), I("30b", "60")>>, <<I("other", "id")>>}

Interleaved ==
  {Delayed(Analog, 1), Delayed(Digital, 1), Delayed(Affiliation, 1), Delayed(Ring, 1),
   Delayed(CcThree, 2), Delayed(System, 2), Around(Analog), Around(Digital)}

Standard == Grants \cup Idles \cup Others \cup Interleaved

ObtAnalog == <<I("tx", "id"), G("rx", "id")>>

ObtBursts ==
  {ObtAnalog, <<G("rx", "id")>>, <<I("tx", "id"), OneIdle>>, <<I("tx", "id"), I("rx", "id")>>,
   <<G("tx", "id"), G("320", "id"), I("30b", "60")>>, Digital, <<OneIdle>>}

BothRadios == {Standard, ObtBursts}
Simple == {Grants \cup Idles}

\* What the theorems on what is told ask of a radio's bursts holds of these.
ASSUME LawfulAssumption == LawfulRadios
=============================================================================
