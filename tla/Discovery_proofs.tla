----------------------------- MODULE Discovery_proofs -----------------------------
(***************************************************************************)
(* What the card knows of its modules after the discovery at boot, for     *)
(* every population, every limit, every number of attempts and every loss  *)
(* of requests and replies; proved of the whole of Discovery, whose other  *)
(* steps leave the probe alone.  And what the host has of the descriptor,  *)
(* for every length of it and of the chunks it is read in.                 *)
(***************************************************************************)
EXTENDS Discovery, SequenceTheorems, WellFoundedInduction, TLAPS

(* The banks that the attempt under way is done with *)
Visited(b) ==
  \/ Booted
  \/ bank = "m31in" /\ b # "m31in"
  \/ bank = "m31out" /\ b = "waveshare"

(* The search proper knows that its lower bound exists, and, unless it     *)
(* missed an answer, that nothing it could find lies above its upper one.  *)
SearchInv ==
  searching =>
    /\ count[bank] = 0
    /\ low < attached[bank]
    /\ ~missed[bank] => attached[bank] <= high + 1 \/ high = Limit[bank] - 1

CountInv ==
  \A b \in Bank :
    /\ count[b] <= Usable(b)
    /\ count[b] > 0 /\ ~missed[b] => count[b] = Usable(b)

(* A bank that was found absent in this attempt *)
AbsentInv ==
  \A b \in Bank :
    Visited(b) /\ count[b] = 0 /\ attached[b] > 0
      => missed[b] \/ (b = "m31in" /\ count["m31out"] = 0)

ProbeInv == ProbeTypeOK /\ SearchInv /\ CountInv /\ AbsentInv
-----------------------------------------------------------------------------
(* Rounding up keeps the middle above the lower bound. *)
LEMMA MiddleBounds ==
  ASSUME low \in Nat, high \in Nat, low < high
  PROVE  Middle \in Nat /\ low < Middle /\ Middle <= high
BY SMT DEF Middle

LEMMA ProbeInitHolds == ProbeInit => ProbeInv
<1> SUFFICES ASSUME ProbeInit PROVE ProbeInv
  OBVIOUS
<1>1. attached \in [Bank -> Nat]
  BY PlantsAssumption DEF ProbeInit
<1>2. bank = "waveshare" /\ searching = FALSE /\ count = [b \in Bank |-> 0]
  BY DEF ProbeInit, BootValues
<1>3. ProbeTypeOK
  <2>1. attempt \in 1..Probes
    BY ProbesAssumption DEF ProbeInit, BootValues
  <2>2. missed \in [Bank -> BOOLEAN] /\ count \in [Bank -> Nat] /\ low = 0 /\ high = 0
    BY DEF ProbeInit, BootValues
  <2> QED
    BY <1>1, <1>2, <2>1, <2>2 DEF ProbeTypeOK, Bank
<1>4. CountInv
  BY <1>1, <1>2, LimitAssumption DEF CountInv, Usable
<1>5. AbsentInv
  BY <1>2 DEF AbsentInv, Visited, Booted
<1> QED
  BY <1>2, <1>3, <1>4, <1>5 DEF ProbeInv, SearchInv

LEMMA PowerCycleHolds == PowerCycle => ProbeInv'
<1> SUFFICES ASSUME PowerCycle PROVE ProbeInv'
  OBVIOUS
<1>1. attached' \in [Bank -> Nat]
  BY PlantsAssumption DEF PowerCycle
<1>2. bank' = "waveshare" /\ searching' = FALSE /\ count' = [b \in Bank |-> 0]
  BY DEF PowerCycle
<1>3. ProbeTypeOK'
  <2>1. attempt' \in 1..Probes
    BY ProbesAssumption DEF PowerCycle
  <2>2. missed' \in [Bank -> BOOLEAN] /\ count' \in [Bank -> Nat] /\ low' = 0 /\ high' = 0
    BY DEF PowerCycle
  <2> QED
    BY <1>1, <1>2, <2>1, <2>2 DEF ProbeTypeOK, Bank
<1>4. CountInv'
  BY <1>1, <1>2, LimitAssumption DEF CountInv, Usable
<1>5. AbsentInv'
  BY <1>2 DEF AbsentInv, Visited, Booted
<1> QED
  BY <1>2, <1>3, <1>4, <1>5 DEF ProbeInv, SearchInv

(* Moving on ends a search, and of the banks newly visited the one it      *)
(* leaves is the only one.                                                 *)
LEMMA AdvanceMoves ==
  ASSUME bank \in Bank, attempt \in 1..Probes, Advance
  PROVE  /\ searching' = FALSE /\ low' = 0 /\ high' = 0
         /\ attempt' \in 1..Probes
         /\ bank' \in Bank \cup {"done"}
         /\ \A b \in Bank : Visited(b)' => Visited(b) \/ b = bank
BY ProbesAssumption DEF Advance, Visited, Booted, Bank

LEMMA NotWantedHolds == ProbeInv /\ NotWanted => ProbeInv'
<1> SUFFICES ASSUME ProbeInv, NotWanted PROVE ProbeInv'
  OBVIOUS
<1> USE DEF ProbeInv
<1>1. bank \in Bank /\ attempt \in 1..Probes
  BY DEF NotWanted, ProbeTypeOK, Booted
<1>2. Advance /\ UNCHANGED <<attached, count, missed>>
  BY DEF NotWanted
<1>3. ProbeTypeOK' /\ SearchInv' /\ CountInv'
  BY <1>1, <1>2, AdvanceMoves DEF ProbeTypeOK, SearchInv, CountInv, Usable
<1>4. AbsentInv'
  <2> SUFFICES ASSUME NEW b \in Bank, Visited(b)', count[b] = 0, attached[b] > 0
               PROVE  missed[b] \/ (b = "m31in" /\ count["m31out"] = 0)
    BY <1>2 DEF AbsentInv
  <2>1. CASE Visited(b)
    BY <2>1 DEF AbsentInv
  <2>2. CASE b = bank
    <3>1. b = "m31in" /\ ~(count["m31out"] > 0)
      BY <2>2 DEF NotWanted, Wanted
    <3>2. count["m31out"] \in Nat
      BY DEF ProbeTypeOK, Bank
    <3> QED
      BY <3>1, <3>2
  <2> QED
    BY <1>1, <1>2, <2>1, <2>2, AdvanceMoves
<1> QED
  BY <1>3, <1>4

(* After a first read the bank is searched, or taken to be absent: then it *)
(* is, or an answer was lost.                                              *)
LEMMA FirstReadHolds ==
  ASSUME ProbeInv, NEW lost \in BOOLEAN, FirstRead(lost)
  PROVE  ProbeInv'
<1> USE DEF ProbeInv
<1>1. /\ bank \in Bank /\ attempt \in 1..Probes
      /\ attached \in [Bank -> Nat] /\ count \in [Bank -> Nat]
      /\ missed \in [Bank -> BOOLEAN]
      /\ Limit[bank] \in Nat \ {0}
  BY LimitAssumption DEF FirstRead, ProbeTypeOK, Booted
<1>2. /\ attached' = attached /\ count' = count
      /\ missed' \in [Bank -> BOOLEAN]
      /\ missed'[bank] = (lost /\ attached[bank] > 0)
      /\ \A b \in Bank : b # bank => missed'[b] = missed[b]
  BY <1>1 DEF FirstRead
<1>3. count[bank] = 0
  BY DEF FirstRead, Wanted
<1>4. CountInv'
  <2> SUFFICES ASSUME NEW b \in Bank
               PROVE  /\ count[b] <= Usable(b)
                      /\ count[b] > 0 /\ ~missed'[b] => count[b] = Usable(b)
    BY <1>2 DEF CountInv, Usable
  <2>1. CASE b = bank
    BY <1>3, <2>1 DEF CountInv
  <2>2. CASE b # bank
    BY <1>2, <2>2 DEF CountInv
  <2> QED
    BY <2>1, <2>2
<1>5. CASE Answers(0, lost)
  <2>1. /\ searching' = TRUE /\ low' = 0 /\ high' = Limit[bank] - 1
        /\ UNCHANGED <<attempt, bank>>
    BY <1>5 DEF FirstRead
  <2>2. ProbeTypeOK'
    BY <1>1, <1>2, <2>1 DEF FirstRead, ProbeTypeOK, Booted
  <2>3. SearchInv'
    BY <1>2, <1>3, <1>5, <2>1 DEF SearchInv, Answers
  <2>4. AbsentInv'
    BY <1>1, <1>2, <2>1 DEF AbsentInv, Visited, Booted, Bank
  <2> QED
    BY <1>4, <2>2, <2>3, <2>4
<1>6. CASE ~Answers(0, lost)
  <2>1. Advance
    BY <1>6 DEF FirstRead
  <2>2. ProbeTypeOK' /\ SearchInv'
    BY <1>1, <1>2, <2>1, AdvanceMoves DEF ProbeTypeOK, SearchInv
  <2>3. AbsentInv'
    <3> SUFFICES ASSUME NEW b \in Bank, Visited(b)', count[b] = 0, attached[b] > 0
                 PROVE  missed'[b] \/ (b = "m31in" /\ count["m31out"] = 0)
      BY <1>2 DEF AbsentInv
    <3>1. CASE b = bank
      BY <1>2, <1>6, <3>1 DEF Answers
    <3>2. CASE b # bank
      BY <1>1, <1>2, <2>1, <3>2, AdvanceMoves DEF AbsentInv
    <3> QED
      BY <3>1, <3>2
  <2> QED
    BY <1>4, <2>2, <2>3
<1> QED
  BY <1>5, <1>6

LEMMA SearchReadHolds ==
  ASSUME ProbeInv, NEW lost \in BOOLEAN, SearchRead(lost)
  PROVE  ProbeInv'
<1> USE DEF ProbeInv
<1>1. /\ bank \in Bank /\ low \in Nat /\ high \in Nat /\ low < high
      /\ attached \in [Bank -> Nat] /\ missed \in [Bank -> BOOLEAN]
      /\ Limit[bank] \in Nat \ {0} /\ high < Limit[bank]
  BY LimitAssumption DEF SearchRead, ProbeTypeOK, Booted
<1>2. Middle \in Nat /\ low < Middle /\ Middle <= high
  BY <1>1, MiddleBounds
<1>3. /\ UNCHANGED <<attached, attempt, bank, searching, count>>
      /\ missed' \in [Bank -> BOOLEAN]
      /\ missed'[bank] = (missed[bank] \/ (lost /\ Middle < attached[bank]))
      /\ \A b \in Bank : b # bank => missed'[b] = missed[b]
  BY <1>1 DEF SearchRead
<1>4. low' \in Nat /\ high' \in Nat /\ low' <= high' /\ high' < Limit[bank]
  BY <1>1, <1>2 DEF SearchRead
<1>5. ProbeTypeOK'
  BY <1>3, <1>4 DEF ProbeTypeOK, Booted
<1>6. SearchInv'
  <2>1. count[bank] = 0 /\ low < attached[bank]
    BY DEF SearchInv, SearchRead
  <2>2. ~missed[bank] => attached[bank] <= high + 1 \/ high = Limit[bank] - 1
    BY DEF SearchInv, SearchRead
  <2>3. CASE Answers(Middle, lost)
    <3>1. low' = Middle /\ high' = high /\ Middle < attached[bank]
      BY <2>3 DEF SearchRead, Answers
    <3> QED
      BY <1>3, <2>1, <2>2, <3>1 DEF SearchInv
  <2>4. CASE ~Answers(Middle, lost)
    <3>1. low' = low /\ high' = Middle - 1
      BY <2>4 DEF SearchRead
    <3>2. ~missed'[bank] => ~(Middle < attached[bank])
      BY <1>3, <2>4 DEF Answers
    <3>3. attached[bank] \in Nat
      BY <1>1
    <3>4. ~missed'[bank] => attached[bank] <= high' + 1
      BY <1>2, <3>1, <3>2, <3>3
    <3> QED
      BY <1>3, <2>1, <3>1, <3>4 DEF SearchInv
  <2> QED
    BY <2>3, <2>4
<1>7. \A b \in Bank : missed[b] => missed'[b]
  BY <1>3
<1>8. CountInv'
  BY <1>3, <1>7 DEF CountInv, Usable
<1>9. AbsentInv'
  BY <1>3, <1>7 DEF AbsentInv, Visited, Booted
<1> QED
  BY <1>5, <1>6, <1>8, <1>9

(* Where the bounds meet, the count is what the search knows.              *)
LEMMA FoundHolds == ProbeInv /\ Found => ProbeInv'
<1> SUFFICES ASSUME ProbeInv, Found PROVE ProbeInv'
  OBVIOUS
<1> USE DEF ProbeInv
<1>1. /\ bank \in Bank /\ attempt \in 1..Probes
      /\ low \in Nat /\ high = low /\ low < Limit[bank]
      /\ attached \in [Bank -> Nat] /\ count \in [Bank -> Nat]
      /\ Limit[bank] \in Nat \ {0}
  <2>1. searching /\ low >= high
    BY DEF Found
  <2>2. bank \in Bank /\ low \in Nat /\ high \in Nat /\ low <= high /\ high < Limit[bank]
    BY <2>1 DEF ProbeTypeOK, Booted
  <2>3. high = low
    BY <2>1, <2>2
  <2> QED
    BY <2>2, <2>3, LimitAssumption DEF ProbeTypeOK
<1>2. /\ UNCHANGED <<attached, missed>>
      /\ count' \in [Bank -> Nat]
      /\ count'[bank] = low + 1
      /\ \A b \in Bank : b # bank => count'[b] = count[b]
  BY <1>1 DEF Found
<1>3. Advance
  BY DEF Found
<1>4. ProbeTypeOK' /\ SearchInv'
  BY <1>1, <1>2, <1>3, AdvanceMoves DEF ProbeTypeOK, SearchInv
<1>5. CountInv'
  <2>1. low < attached[bank] /\ attached[bank] \in Nat
    BY <1>1 DEF SearchInv, Found
  <2>2. ~missed[bank] => attached[bank] <= high + 1 \/ high = Limit[bank] - 1
    BY DEF SearchInv, Found
  <2>3. /\ count'[bank] <= Usable(bank)
        /\ ~missed[bank] => count'[bank] = Usable(bank)
    BY <1>1, <1>2, <2>1, <2>2 DEF Usable
  <2> QED
    BY <1>2, <2>3 DEF CountInv, Usable
<1>6. AbsentInv'
  <2> SUFFICES ASSUME NEW b \in Bank, Visited(b)', count'[b] = 0, attached[b] > 0
               PROVE  missed[b] \/ (b = "m31in" /\ count'["m31out"] = 0)
    BY <1>2 DEF AbsentInv
  <2>1. b # bank
    BY <1>1, <1>2
  <2>2. Visited(b) /\ count[b] = 0
    BY <1>1, <1>2, <1>3, <2>1, AdvanceMoves
  <2>3. missed[b] \/ (b = "m31in" /\ count["m31out"] = 0)
    BY <2>2 DEF AbsentInv
  <2>4. b = "m31in" => Booted \/ b = bank
    BY <2>2 DEF Visited
  <2> QED
    BY <1>1, <2>1, <2>3, <2>4 DEF Booted, Bank
<1> QED
  BY <1>4, <1>5, <1>6

LEMMA ProbeStepHolds == ProbeInv /\ ProbeStep => ProbeInv'
BY NotWantedHolds, FirstReadHolds, SearchReadHolds, FoundHolds DEF ProbeStep

LEMMA StutterHolds == ProbeInv /\ UNCHANGED probeVars => ProbeInv'
BY DEF ProbeInv, ProbeTypeOK, SearchInv, CountInv, AbsentInv, Visited, Booted,
       Usable, probeVars
-----------------------------------------------------------------------------
LEMMA DiscoveryStep == [Next]_vars => ProbeStep \/ PowerCycle \/ UNCHANGED probeVars
<1> SUFFICES ASSUME [Next]_vars PROVE ProbeStep \/ PowerCycle \/ UNCHANGED probeVars
  OBVIOUS
<1>1. CASE Probe
  BY <1>1 DEF Probe
<1>2. CASE PowerLoss
  BY <1>2 DEF PowerLoss
<1>3. CASE (\E a \in Address : Lease(a)) \/ LeaseLost \/ LinkLost \/ AgeOut \/ HandleEvent
  BY <1>3 DEF Lease, LeaseLost, LinkLost, AddressBecomes, AgeOut, HandleEvent
<1>4. CASE SsdpStep
  BY <1>4 DEF SsdpStep, Ready, ReadAddress, OpenFails, Open, Burst, Turn, Leave,
              AnswerSearch, NoSearch, Periodic
<1>5. CASE HttpOpen \/ AcceptFails \/ SilentClient \/ ReceiveTimeout
  BY <1>5 DEF HttpOpen, AcceptFails, SilentClient, ReceiveTimeout
<1>6. CASE Fetch \/ SendSearch \/ GivesUp \/ ReadChunk
  BY <1>6 DEF Fetch, SendSearch, GivesUp, ReadChunk
<1>7. CASE UNCHANGED vars
  BY <1>7 DEF vars
<1> QED
  BY <1>1, <1>2, <1>3, <1>4, <1>5, <1>6, <1>7 DEF Next

LEMMA ProbeInvHolds == Spec => []ProbeInv
<1>1. Init => ProbeInv
  BY ProbeInitHolds DEF Init
<1>2. ProbeInv /\ [Next]_vars => ProbeInv'
  BY DiscoveryStep, ProbeStepHolds, PowerCycleHolds, StutterHolds
<1> QED
  BY <1>1, <1>2, PTL DEF Spec

(* Whatever the bus loses, and however often the card starts again: no     *)
(* bank is taken for larger than it is, and none for smaller or absent     *)
(* unless its latest search missed an answer (rs485_discrete.c).           *)
THEOREM PopulationSound == Spec => []CountsAreSound
<1>1. ProbeInv => CountsAreSound
  BY DEF ProbeInv, CountInv, AbsentInv, Visited, CountsAreSound
<1> QED
  BY <1>1, ProbeInvHolds, PTL
-----------------------------------------------------------------------------
(* The parts of the type invariant, by who writes them *)
NetOK ==
  /\ addr \in Address \cup {NoAddr}
  /\ addr # NoAddr => Booted
  /\ events \in Seq({"got_ip", "disconnected"}) /\ Len(events) <= MaxEvents
  /\ gotIp \in BOOLEAN /\ member \in BOOLEAN

SsdpOK ==
  /\ search \in BOOLEAN
  /\ pc \in {"wait", "read", "open", "burst", "turn", "select", "timers"}
  /\ bound \in Address \cup {NoAddr}
  /\ left \in 0..BurstSize /\ (left > 0 <=> pc = "burst")

HostOK ==
  /\ kind \in {"listener", "searcher"}
  /\ known \in SUBSET Address /\ known \in {{}} \cup {{a} : a \in Address}
  /\ host \in {"seek", "reading", "done"}
  /\ host \in {"reading", "done"} => addr # NoAddr /\ known = {addr}

(* A host has the beginning of the descriptor the card built at this boot, *)
(* and all of it when it is done.                                          *)
BlobOf(c) == Descriptor(c["m31in"], c["waveshare"] + c["m31out"])

ReadOK ==
  LET blob == BlobOf(count)
  IN  /\ read \in Seq(Nat)
      /\ host = "seek" => read = <<>>
      /\ host # "seek" =>
           /\ Len(read) <= Len(blob)
           /\ \A i \in 1..Len(read) : read[i] = blob[i]
      /\ host = "done" => Len(read) = Len(blob)
      /\ Len(read) <= BlobMax

HttpOK == http \in {"wait", "listen", "client"}

DiscoveryInv == NetOK /\ SsdpOK /\ HttpOK /\ HostOK /\ ReadOK
-----------------------------------------------------------------------------
LEMMA ConcatType ==
  ASSUME NEW s \in Seq(Nat), NEW t \in Seq(Nat)
  PROVE  s \o t \in Seq(Nat)
BY ConcatProperties

(* The descriptor is a sequence of numbers. *)
LEMMA TlvType ==
  ASSUME NEW tag \in Nat, NEW value \in Seq(Nat)
  PROVE  Tlv(tag, value) \in Seq(Nat)
<1>1. <<tag, Len(value)>> \in Seq(Nat)
  OBVIOUS
<1> QED
  BY <1>1, ConcatType DEF Tlv

LEMMA ItemTypes ==
  /\ \A n \in Nat : <<n>> \in Seq(Nat)
  /\ Text \in Nat /\ GroupLabel \in Nat /\ PortGroup \in Nat /\ BoardInfo \in Nat
  /\ OutDriver \in Nat /\ Relay \in Nat /\ Version \in Nat
  /\ Discrete \in Nat /\ HidAxis \in Nat /\ HidButton \in Nat
  /\ Axes \in Nat /\ Buttons \in Nat
BY DEF Text, GroupLabel, PortGroup, BoardInfo, OutDriver, Relay, Version,
       Discrete, HidAxis, HidButton, Axes, Buttons

LEMMA GroupType ==
  ASSUME NEW k \in Nat, NEW i \in Nat, NEW o \in Nat, NEW more \in Seq(Nat)
  PROVE  Group(k, i, o, more) \in Seq(Nat)
<1>1. Tlv(GroupLabel, <<Text>>) \in Seq(Nat)
  BY TlvType, ItemTypes
<1>2. <<k, 0, i, o, 0>> \in Seq(Nat)
  OBVIOUS
<1>3. <<k, 0, i, o, 0>> \o Tlv(GroupLabel, <<Text>>) \in Seq(Nat)
  BY <1>1, <1>2, ConcatType
<1>4. <<k, 0, i, o, 0>> \o Tlv(GroupLabel, <<Text>>) \o more \in Seq(Nat)
  BY <1>3, ConcatType
<1> QED
  BY <1>4, TlvType, ItemTypes DEF Group

LEMMA DescriptorType ==
  ASSUME NEW i \in Nat, NEW o \in Nat
  PROVE  Descriptor(i, o) \in Seq(Nat)
<1> DEFINE head == <<Version, 0, 0>>
           board == Tlv(BoardInfo, Tlv(1, <<Text>>) \o Tlv(2, <<Text>>))
           ports == IF i > 0 \/ o > 0
                   THEN Group(Discrete, i, o, Tlv(OutDriver, <<Relay>>)) ELSE <<>>
           axes == Group(HidAxis, 0, Axes, <<>>)
           keys == Group(HidButton, 0, Buttons, <<>>)
<1>1. head \in Seq(Nat)
  BY ItemTypes
<1>2. board \in Seq(Nat)
  <2>1. Tlv(1, <<Text>>) \in Seq(Nat) /\ Tlv(2, <<Text>>) \in Seq(Nat)
    BY TlvType, ItemTypes
  <2>2. Tlv(1, <<Text>>) \o Tlv(2, <<Text>>) \in Seq(Nat)
    BY <2>1, ConcatType
  <2> QED
    BY <2>2, TlvType, ItemTypes
<1>3. ports \in Seq(Nat)
  <2>1. Tlv(OutDriver, <<Relay>>) \in Seq(Nat)
    BY TlvType, ItemTypes
  <2>2. Group(Discrete, i, o, Tlv(OutDriver, <<Relay>>)) \in Seq(Nat)
    BY <2>1, GroupType, ItemTypes
  <2>3. <<>> \in Seq(Nat)
    OBVIOUS
  <2> QED
    BY <2>2, <2>3
<1>4. axes \in Seq(Nat) /\ keys \in Seq(Nat)
  <2>1. <<>> \in Seq(Nat) /\ 0 \in Nat
    OBVIOUS
  <2> QED
    BY <2>1, GroupType, ItemTypes
<1>5. Descriptor(i, o) = head \o board \o ports \o axes \o keys
  BY Zenon DEF Descriptor
<1> HIDE DEF head, board, ports, axes, keys
<1>6. head \o board \in Seq(Nat)
  BY <1>1, <1>2, ConcatType
<1>7. head \o board \o ports \in Seq(Nat)
  BY <1>3, <1>6, ConcatType
<1>8. head \o board \o ports \o axes \in Seq(Nat)
  BY <1>4, <1>7, ConcatType
<1> QED
  BY <1>4, <1>5, <1>8, ConcatType

-----------------------------------------------------------------------------
(* Induction over the natural numbers, and its twin, the least element *)
LEMMA LeastNat ==
  ASSUME NEW T \in SUBSET Nat, T # {}
  PROVE  \E n \in T : \A m \in T : n <= m
<1> DEFINE R == OpToRel(<, Nat)
<1>1. IsWellFoundedOn(R, Nat)
  BY NatLessThanWellFounded
<1>2. R = {p \in Nat \X Nat : p[1] < p[2]}
  BY DEF OpToRel
<1> HIDE DEF R
<1>3. PICK x \in T : \A y \in T : ~(<<y, x>> \in R)
  BY <1>1, WFMin
<1>4. ASSUME NEW y \in T PROVE x <= y
  <2>1. y < x => <<y, x>> \in R
    BY <1>2
  <2> QED
    BY <1>3, <2>1
<1> QED
  BY <1>4

LEMMA SetInduction ==
  ASSUME NEW P \in SUBSET Nat, 0 \in P, \A n \in P : n + 1 \in P
  PROVE  P = Nat
<1> DEFINE T == Nat \ P
<1>1. SUFFICES ASSUME T # {} PROVE FALSE
  OBVIOUS
<1>2. T \in SUBSET Nat
  OBVIOUS
<1>3. PICK x \in T : \A y \in T : x <= y
  BY <1>1, <1>2, LeastNat
<1>4. x \in Nat /\ x # 0 /\ x - 1 \in Nat /\ (x - 1) + 1 = x
  BY <1>3
<1>5. x - 1 \notin T
  BY <1>3, <1>4
<1> QED
  BY <1>3, <1>4, <1>5

(* The reference reader: its recursion has a solution, for every sequence  *)
(* of numbers, because each step goes forward.                             *)
Reader(blob, f) == f = [o \in Nat |-> GroupsFrom(blob, o, f)]

LEMMA ReaderExists ==
  ASSUME NEW blob \in Seq(Nat)
  PROVE  \E f : Reader(blob, f)
<1> DEFINE L == Len(blob)
           Part(n) == \E f : f = [o \in Nat |-> IF o + n >= L THEN GroupsFrom(blob, o, f)
                                                ELSE <<>>]
           P == {n \in Nat : Part(n)}
<1>0. L \in Nat
  BY LenProperties
<1>1. 0 \in P
  <2> DEFINE f == [o \in Nat |-> <<>>]
  <2>1. \A o \in Nat : o >= L => GroupsFrom(blob, o, f) = <<>>
    BY <1>0 DEF GroupsFrom
  <2>2. f = [o \in Nat |-> IF o + 0 >= L THEN GroupsFrom(blob, o, f) ELSE <<>>]
    BY <2>1
  <2> HIDE DEF f
  <2> QED
    BY <2>2
<1>2. ASSUME NEW n \in P PROVE n + 1 \in P
  <2>0. n \in Nat /\ n + 1 \in Nat
    OBVIOUS
  <2>1. PICK g : g = [o \in Nat |-> IF o + n >= L THEN GroupsFrom(blob, o, g) ELSE <<>>]
    OBVIOUS
  <2> DEFINE f == [o \in Nat |-> IF o + n + 1 = L THEN GroupsFrom(blob, o, g) ELSE g[o]]
  <2>2. \A o \in Nat : o + n >= L => f[o] = g[o]
    BY <1>0
  <2>3. ASSUME NEW o \in Nat, o + (n + 1) >= L
        PROVE  GroupsFrom(blob, o, f) = GroupsFrom(blob, o, g)
    <3>1. CASE o + 2 > Len(blob)
      BY <3>1 DEF GroupsFrom
    <3>2. CASE ~(o + 2 > Len(blob))
      <4>1. o + 2 \in 1..Len(blob)
        BY <1>0, <3>2
      <4>2. PICK b \in Nat : b = blob[o + 2]
        BY <4>1, ElementOfSeq
      <4>3. o + 2 + b \in Nat /\ (o + 2 + b) + n >= L
        <5> HIDE DEF f, L, P
        <5> QED
          BY <1>0, <2>0, <2>3
      <4>4. f[o + 2 + b] = g[o + 2 + b]
        BY <2>2, <4>3
      <4>5. f[o + 2 + blob[o + 2]] = g[o + 2 + blob[o + 2]]
        BY <4>2, <4>4
      <4> HIDE DEF f
      <4> QED
        BY <4>5 DEF GroupsFrom
    <3> QED
      BY <3>1, <3>2
  <2>4. ASSUME NEW o \in Nat
        PROVE  f[o] = IF o + (n + 1) >= L THEN GroupsFrom(blob, o, f) ELSE <<>>
    <3>1. f[o] = IF o + n + 1 = L THEN GroupsFrom(blob, o, g) ELSE g[o]
      OBVIOUS
    <3>2. g[o] = IF o + n >= L THEN GroupsFrom(blob, o, g) ELSE <<>>
      BY <2>1
    <3> HIDE DEF f
    <3>3. CASE o + n + 1 = L
      BY <1>0, <2>3, <3>1, <3>3
    <3>4. CASE o + n >= L
      BY <1>0, <2>3, <3>1, <3>2, <3>4
    <3>5. CASE o + n + 1 < L
      BY <1>0, <3>1, <3>2, <3>5
    <3> QED
      BY <1>0, <3>3, <3>4, <3>5
  <2>5. f = [o \in Nat |-> f[o]]
    OBVIOUS
  <2>6. f = [o \in Nat |-> IF o + (n + 1) >= L THEN GroupsFrom(blob, o, f) ELSE <<>>]
    BY <2>4, <2>5
  <2> HIDE DEF f
  <2>7. Part(n + 1)
    BY <2>6
  <2> HIDE DEF Part
  <2> QED
    BY <2>0, <2>7
<1>3. P = Nat
  <2> HIDE DEF P
  <2>1. P \in SUBSET Nat
    BY DEF P
  <2> QED
    BY <1>1, <1>2, <2>1, SetInduction
<1>4. L \in P
  BY <1>0, <1>3
<1>5. PICK f : f = [o \in Nat |-> IF o + L >= L THEN GroupsFrom(blob, o, f) ELSE <<>>]
  BY <1>4
<1>6. \A o \in Nat : o + L >= L
  BY <1>0
<1>7. f = [o \in Nat |-> GroupsFrom(blob, o, f)]
  BY <1>5, <1>6
<1> QED
  BY <1>7 DEF Reader

LEMMA PortGroupsRead ==
  ASSUME NEW blob \in Seq(Nat)
  PROVE  \E f : Reader(blob, f) /\ PortGroups(blob) = f[3]
<1> DEFINE f == CHOOSE from : from = [o \in Nat |-> GroupsFrom(blob, o, from)]
<1>1. f = [o \in Nat |-> GroupsFrom(blob, o, f)]
  BY ReaderExists DEF Reader
<1>2. PortGroups(blob) = f[3]
  BY DEF PortGroups
<1> HIDE DEF f
<1> QED
  BY <1>1, <1>2 DEF Reader

(* Concatenation, with a name that the provers do not take apart *)
Cat(s, t) == s \o t

LEMMA CatType ==
  \A s, t \in Seq(Nat) : Cat(s, t) \in Seq(Nat) /\ Len(Cat(s, t)) = Len(s) + Len(t)
BY ConcatProperties DEF Cat

LEMMA CatAssociates ==
  \A s, t, u \in Seq(Nat) : Cat(Cat(s, t), u) = Cat(s, Cat(t, u))
BY ConcatAssociative, SMTT(60) DEF Cat

LEMMA CatEmpty == \A s \in Seq(Nat) : Cat(s, <<>>) = s /\ Cat(<<>>, s) = s
BY ConcatEmptySeq DEF Cat

LEMMA CatLists ==
  ASSUME NEW x, NEW y, NEW z
  PROVE  /\ Cat(<<x>>, <<>>) = <<x>>
         /\ Cat(<<x>>, <<y>>) = <<x, y>>
         /\ Cat(<<x>>, <<y, z>>) = <<x, y, z>>
         /\ Cat(<<>>, <<x, y>>) = <<x, y>>
         /\ Cat(<<>>, <<x, y, z>>) = <<x, y, z>>
<1>1. Cat(<<x>>, <<>>) = <<x>>
  BY DEF Cat
<1> DEFINE S == {x, y, z}
<1>0. <<x>> \in Seq(S) /\ Len(<<x>>) = 1
  OBVIOUS
<1>2. Cat(<<x>>, <<y>>) = <<x, y>>
  <2> DEFINE c == <<x>> \o <<y>>
  <2>1. <<y>> \in Seq(S) /\ Len(<<y>>) = 1
    OBVIOUS
  <2>2. c \in Seq(S) /\ Len(c) = 2 /\ c[1] = x /\ c[2] = y
    BY <1>0, <2>1, ConcatProperties
  <2>3. <<x, y>> \in Seq(S) /\ Len(<<x, y>>) = 2 /\ <<x, y>>[1] = x /\ <<x, y>>[2] = y
    OBVIOUS
  <2>4. c = <<x, y>>
    <3> HIDE DEF c
    <3>1. \A n \in 1..Len(c) : c[n] = <<x, y>>[n]
      BY <2>2, <2>3
    <3> HIDE DEF S
    <3> QED
      BY <2>2, <2>3, <3>1, SeqEqual
  <2> QED
    BY <2>4 DEF Cat
<1>3. Cat(<<x>>, <<y, z>>) = <<x, y, z>>
  <2> DEFINE c == <<x>> \o <<y, z>>
             d == <<x, y, z>>
  <2>1. <<y, z>> \in Seq(S) /\ Len(<<y, z>>) = 2
    OBVIOUS
  <2>2. c \in Seq(S) /\ Len(c) = 3 /\ c[1] = x /\ c[2] = y /\ c[3] = z
    BY <1>0, <2>1, ConcatProperties
  <2>3. d \in Seq(S) /\ Len(d) = 3 /\ d[1] = x /\ d[2] = y /\ d[3] = z
    OBVIOUS
  <2>4. c = d
    <3> HIDE DEF c, d
    <3>1. \A n \in 1..Len(c) : c[n] = d[n]
      BY <2>2, <2>3
    <3> HIDE DEF S
    <3> QED
      BY <2>2, <2>3, <3>1, SeqEqual
  <2> QED
    BY <2>4 DEF Cat
<1>4. Cat(<<>>, <<x, y>>) = <<x, y>>
  BY DEF Cat
<1>5. Cat(<<>>, <<x, y, z>>) = <<x, y, z>>
  BY DEF Cat
<1> QED
  BY <1>1, <1>2, <1>3, <1>4, <1>5

LEMMA FrontOfConcat ==
  ASSUME NEW s \in Seq(Nat), NEW t \in Seq(Nat)
  PROVE  /\ s \o t \in Seq(Nat) /\ Len(s \o t) >= Len(s)
         /\ \A n \in 1..Len(s) : (s \o t)[n] = s[n]
<1>1. Len(s) \in Nat /\ Len(t) \in Nat
  BY LenProperties
<1>2. s \o t \in Seq(Nat) /\ Len(s \o t) = Len(s) + Len(t)
  BY ConcatProperties
<1>3. ASSUME NEW n \in 1..Len(s) PROVE (s \o t)[n] = s[n]
  <2>1. n \in 1..Len(s) + Len(t) /\ n <= Len(s)
    BY <1>1
  <2> QED
    BY <2>1, ConcatProperties
<1> QED
  BY <1>1, <1>2, <1>3

(* Where a sequence of the descriptor has the items of s, after o of them  *)
Spells(blob, o, s) == \A k \in 1..Len(s) : o + k <= Len(blob) /\ blob[o + k] = s[k]

LEMMA MiddleSpells ==
  ASSUME NEW a \in Seq(Nat), NEW s \in Seq(Nat), NEW b \in Seq(Nat)
  PROVE  Spells(a \o s \o b, Len(a), s)
<1>1. a \o s \in Seq(Nat) /\ Len(a \o s) = Len(a) + Len(s)
  BY ConcatProperties
<1>2. Len((a \o s) \o b) = Len(a) + Len(s) + Len(b)
  BY <1>1, ConcatProperties
<1>3. Len(a) \in Nat /\ Len(s) \in Nat /\ Len(b) \in Nat
  BY LenProperties
<1>4. ASSUME NEW k \in 1..Len(s)
      PROVE  Len(a) + k <= Len((a \o s) \o b) /\ ((a \o s) \o b)[Len(a) + k] = s[k]
  <2>1. Len(a) + k \in 1..Len(a) + Len(s) /\ ~(Len(a) + k <= Len(a))
    BY <1>3
  <2>2. ((a \o s) \o b)[Len(a) + k] = (a \o s)[Len(a) + k]
    BY <1>1, <1>3, <2>1, ConcatProperties
  <2>3. (a \o s)[Len(a) + k] = s[(Len(a) + k) - Len(a)]
    BY <1>3, <2>1, ConcatProperties
  <2> QED
    BY <1>2, <1>3, <2>2, <2>3
<1> QED
  BY <1>4 DEF Spells

(* The reader at an entry of the descriptor: it takes down a port group,   *)
(* and goes on behind the entry's value.                                   *)
Item(k, i, o) == [kind |-> k, inputs |-> i, outputs |-> o]
GroupOf(value) == Item(value[1], value[3], value[4])
Takes(f, o, items, p) == f[o] = items \o f[p]

LEMMA EntryIsRead ==
  ASSUME NEW blob \in Seq(Nat), NEW f, Reader(blob, f), NEW o \in Nat,
         NEW tag \in Nat, NEW value \in Seq(Nat), Spells(blob, o, Tlv(tag, value))
  PROVE  /\ tag # PortGroup => Takes(f, o, <<>>, o + 2 + Len(value))
         /\ tag = PortGroup /\ Len(value) >= 4
              => Takes(f, o, <<GroupOf(value)>>, o + 2 + Len(value))
<1> DEFINE t == Tlv(tag, value)
<1>0. Len(value) \in Nat
  BY LenProperties
<1>1. /\ Len(t) = 2 + Len(value) /\ t[1] = tag /\ t[2] = Len(value)
      /\ \A k \in 1..Len(value) : t[2 + k] = value[k]
  <2>1. <<tag, Len(value)>> \in Seq(Nat) /\ Len(<<tag, Len(value)>>) = 2
    BY <1>0
  <2>2. Len(t) = 2 + Len(value)
    BY <2>1, ConcatProperties DEF Tlv
  <2>3. t[1] = tag /\ t[2] = Len(value)
    BY <1>0, <2>1, ConcatProperties DEF Tlv
  <2>4. ASSUME NEW k \in 1..Len(value) PROVE t[2 + k] = value[k]
    <3>1. 2 + k \in 1..2 + Len(value) /\ ~(2 + k <= 2) /\ (2 + k) - 2 = k
      BY <1>0
    <3> QED
      BY <2>1, <3>1, ConcatProperties DEF Tlv
  <2> QED
    BY <2>2, <2>3, <2>4
<1> HIDE DEF t
<1>2. \A k \in 1..Len(t) : o + k <= Len(blob) /\ blob[o + k] = t[k]
  BY DEF Spells, t
<1>3. o + 2 <= Len(blob) /\ blob[o + 1] = tag /\ blob[o + 2] = Len(value)
  <2>1. 1 \in 1..Len(t) /\ 2 \in 1..Len(t)
    BY <1>0, <1>1
  <2> QED
    BY <1>1, <1>2, <2>1
<1>4. f[o] = GroupsFrom(blob, o, f)
  BY DEF Reader
<1>5. ~(o + 2 > Len(blob))
  BY <1>3, LenProperties
<1>6. CASE tag # PortGroup
  BY <1>3, <1>4, <1>5, <1>6 DEF GroupsFrom, Takes
<1>7. ASSUME tag = PortGroup, Len(value) >= 4
      PROVE  Takes(f, o, <<GroupOf(value)>>, o + 2 + Len(value))
  <2>1. 3 \in 1..Len(t) /\ 5 \in 1..Len(t) /\ 6 \in 1..Len(t)
    BY <1>0, <1>1, <1>7
  <2>2. t[2 + 1] = value[1] /\ t[2 + 3] = value[3] /\ t[2 + 4] = value[4]
    <3>1. 1 \in 1..Len(value) /\ 3 \in 1..Len(value) /\ 4 \in 1..Len(value)
      BY <1>0, <1>7
    <3> QED
      BY <1>1, <3>1
  <2>3. blob[o + 3] = value[1] /\ blob[o + 5] = value[3] /\ blob[o + 6] = value[4]
    BY <1>2, <2>1, <2>2
  <2> QED
    BY <1>3, <1>4, <1>5, <1>7, <2>3
    DEF GroupsFrom, GroupOf, Item, Takes
<1> QED
  BY <1>6, <1>7

LEMMA EndIsRead ==
  ASSUME NEW blob \in Seq(Nat), NEW f, Reader(blob, f)
  PROVE  f[Len(blob)] = <<>>
<1>1. Len(blob) \in Nat /\ Len(blob) + 2 > Len(blob)
  BY LenProperties
<1> QED
  BY <1>1 DEF Reader, GroupsFrom

LEMMA EntryMoves ==
  ASSUME NEW a \in Seq(Nat), NEW b \in Seq(Nat), NEW tag \in Nat,
         NEW value \in Seq(Nat), NEW f, Reader(Cat(Cat(a, Tlv(tag, value)), b), f)
  PROVE  /\ tag # PortGroup => Takes(f, Len(a), <<>>, Len(Cat(a, Tlv(tag, value))))
         /\ tag = PortGroup /\ Len(value) >= 4
              => Takes(f, Len(a), <<GroupOf(value)>>, Len(Cat(a, Tlv(tag, value))))
<1> DEFINE t == Tlv(tag, value)
           blob == Cat(Cat(a, t), b)
<1>1. t \in Seq(Nat) /\ Len(t) = 2 + Len(value)
  <2>1. <<tag, Len(value)>> \in Seq(Nat) /\ Len(<<tag, Len(value)>>) = 2
    BY LenProperties
  <2> QED
    BY <2>1, ConcatProperties DEF Tlv
<1>2. Spells(blob, Len(a), t)
  BY <1>1, MiddleSpells DEF Cat
<1>3. Len(a) \in Nat /\ Len(value) \in Nat
  BY LenProperties
<1>4. Spells(blob, Len(a), Tlv(tag, value)) /\ Reader(blob, f)
  BY <1>2
<1> HIDE DEF t
<1>5. Cat(a, t) \in Seq(Nat) /\ Len(Cat(a, t)) = Len(a) + Len(t) /\ blob \in Seq(Nat)
  BY <1>1, CatType
<1> HIDE DEF blob
<1>6. Len(a) + 2 + Len(value) = Len(Cat(a, t))
  BY <1>1, <1>3, <1>5
<1>7. /\ tag # PortGroup => Takes(f, Len(a), <<>>, Len(a) + 2 + Len(value))
      /\ tag = PortGroup /\ Len(value) >= 4
           => Takes(f, Len(a), <<GroupOf(value)>>, Len(a) + 2 + Len(value))
  BY <1>3, <1>4, <1>5, EntryIsRead
<1> QED
  BY <1>6, <1>7 DEF t

(* A port group's entry, and what the reader makes of it *)
LEMMA GroupMoves ==
  ASSUME NEW a \in Seq(Nat), NEW b \in Seq(Nat), NEW k \in Nat, NEW i \in Nat,
         NEW o \in Nat, NEW more \in Seq(Nat), NEW f,
         Reader(Cat(Cat(a, Group(k, i, o, more)), b), f)
  PROVE  Takes(f, Len(a), <<Item(k, i, o)>>, Len(Cat(a, Group(k, i, o, more))))
<1> DEFINE fields == <<k, 0, i, o, 0>>
           label == Tlv(GroupLabel, <<Text>>)
           front == fields \o label
           value == front \o more
<1>1. /\ fields \in Seq(Nat) /\ Len(fields) = 5
      /\ fields[1] = k /\ fields[3] = i /\ fields[4] = o
  OBVIOUS
<1>2. label \in Seq(Nat)
  BY TlvType, ItemTypes
<1>3. Group(k, i, o, more) = Tlv(PortGroup, value)
  BY DEF Group
<1> HIDE DEF fields, label
<1>4. /\ front \in Seq(Nat) /\ Len(front) >= Len(fields)
      /\ \A n \in 1..Len(fields) : front[n] = fields[n]
  BY <1>1, <1>2, FrontOfConcat
<1> HIDE DEF front
<1>5. /\ value \in Seq(Nat) /\ Len(value) >= Len(front)
      /\ \A n \in 1..Len(front) : value[n] = front[n]
  BY <1>4, FrontOfConcat
<1> HIDE DEF value
<1>6. Len(front) \in Nat /\ Len(value) \in Nat /\ Len(front) >= 5 /\ Len(value) >= 5
  <2>1. Len(front) \in Nat /\ Len(value) \in Nat
    BY <1>4, <1>5, LenProperties
  <2>2. Len(front) >= 5
    BY <1>1, <1>4
  <2>3. Len(value) >= Len(front)
    BY <1>5
  <2> QED
    BY <2>1, <2>2, <2>3
<1>7. \A n \in {1, 3, 4} : value[n] = fields[n]
  <2>1. \A n \in {1, 3, 4} : n \in 1..Len(fields) /\ n \in 1..Len(front)
    BY <1>1, <1>6
  <2> QED
    BY <1>4, <1>5, <2>1
<1>8. Reader(Cat(Cat(a, Tlv(PortGroup, value)), b), f) /\ PortGroup \in Nat
  BY <1>3, ItemTypes
<1>9. Takes(f, Len(a), <<GroupOf(value)>>, Len(Cat(a, Tlv(PortGroup, value))))
  <2>1. Len(value) >= 4
    BY <1>6
  <2> QED
    BY <1>5, <1>8, <2>1, EntryMoves
<1>10. GroupOf(value) = Item(k, i, o)
  BY <1>1, <1>7 DEF GroupOf
<1> QED
  BY <1>3, <1>9, <1>10

(* What the card writes is what a reader gets, for every population.       *)
LEMMA DescriptorReadsBack ==
  ASSUME NEW i \in Nat, NEW o \in Nat
  PROVE  PortGroups(Descriptor(i, o)) = Groups(i, o)
<1> DEFINE head == <<Version, 0, 0>>
           about == Tlv(1, <<Text>>) \o Tlv(2, <<Text>>)
           board == Tlv(BoardInfo, about)
           driver == Tlv(OutDriver, <<Relay>>)
           ports == IF i > 0 \/ o > 0 THEN Group(Discrete, i, o, driver) ELSE <<>>
           axes == Group(HidAxis, 0, Axes, <<>>)
           keys == Group(HidButton, 0, Buttons, <<>>)
           blob == Descriptor(i, o)
           discrete == Item(Discrete, i, o)
           axis == Item(HidAxis, 0, Axes)
           button == Item(HidButton, 0, Buttons)
           upToBoard == Cat(head, board)
           upToPorts == Cat(upToBoard, ports)
           upToAxes == Cat(upToPorts, axes)
<1>0. <<>> \in Seq(Nat) /\ 0 \in Nat /\ BoardInfo # PortGroup
  BY DEF BoardInfo, PortGroup
<1>1. head \in Seq(Nat) /\ Len(head) = 3
  BY ItemTypes
<1>2. about \in Seq(Nat) /\ board \in Seq(Nat)
  <2>1. Tlv(1, <<Text>>) \in Seq(Nat) /\ Tlv(2, <<Text>>) \in Seq(Nat)
    BY TlvType, ItemTypes
  <2>2. about \in Seq(Nat)
    BY <2>1, ConcatType
  <2> HIDE DEF about
  <2> QED
    BY <2>2, TlvType, ItemTypes
<1>3. driver \in Seq(Nat) /\ Group(Discrete, i, o, driver) \in Seq(Nat)
  <2>1. driver \in Seq(Nat)
    BY TlvType, ItemTypes
  <2> HIDE DEF driver
  <2> QED
    BY <2>1, GroupType, ItemTypes
<1>4. ports \in Seq(Nat)
  BY <1>0, <1>3
<1>5. axes \in Seq(Nat) /\ keys \in Seq(Nat)
  BY <1>0, GroupType, ItemTypes
<1>6. blob = Cat(upToAxes, keys) /\ blob \in Seq(Nat)
  <2>1. blob = head \o board \o ports \o axes \o keys
    BY Zenon DEF Descriptor
  <2> HIDE DEF head, board, ports, axes, keys
  <2> QED
    BY <2>1, DescriptorType DEF Cat
<1>7. PICK f : Reader(blob, f) /\ PortGroups(blob) = f[3]
  <2> HIDE DEF blob
  <2> QED
    BY <1>6, PortGroupsRead
<1> HIDE DEF about, head, blob, driver
<1>8. /\ board = Tlv(BoardInfo, about)
      /\ i > 0 \/ o > 0 => ports = Group(Discrete, i, o, driver)
      /\ ~(i > 0 \/ o > 0) => ports = <<>>
      /\ axes = Group(HidAxis, 0, Axes, <<>>)
      /\ keys = Group(HidButton, 0, Buttons, <<>>)
  OBVIOUS
<1> HIDE DEF board, ports, axes, keys
<1>9. upToBoard \in Seq(Nat) /\ upToPorts \in Seq(Nat) /\ upToAxes \in Seq(Nat)
  BY <1>1, <1>2, <1>4, <1>5, CatType
<1>10. Takes(f, 3, <<>>, Len(upToBoard))
  <2> DEFINE rest == Cat(Cat(ports, axes), keys)
  <2>1. Cat(ports, axes) \in Seq(Nat) /\ rest \in Seq(Nat)
    BY <1>4, <1>5, CatType
  <2>2. blob = Cat(upToBoard, rest)
    <3>1. upToAxes = Cat(upToBoard, Cat(ports, axes))
      BY <1>4, <1>5, <1>9, CatAssociates
    <3>2. Cat(Cat(upToBoard, Cat(ports, axes)), keys) = Cat(upToBoard, rest)
      <4> HIDE DEF upToBoard
      <4> QED
        BY <1>5, <1>9, <2>1, CatAssociates
    <3> QED
      BY <1>6, <3>1, <3>2
  <2> HIDE DEF rest
  <2>3. Reader(Cat(Cat(head, Tlv(BoardInfo, about)), rest), f)
    BY <1>7, <1>8, <2>2
  <2>4. Takes(f, Len(head), <<>>, Len(Cat(head, Tlv(BoardInfo, about))))
    BY <1>0, <1>1, <1>2, <2>1, <2>3, EntryMoves, ItemTypes
  <2> QED
    BY <1>1, <1>8, <2>4
<1>11. i > 0 \/ o > 0 => Takes(f, Len(upToBoard), <<discrete>>, Len(upToPorts))
  <2> SUFFICES ASSUME i > 0 \/ o > 0
               PROVE  Takes(f, Len(upToBoard), <<discrete>>, Len(upToPorts))
    OBVIOUS
  <2>1. ports = Group(Discrete, i, o, driver)
    BY <1>8
  <2>2. Cat(axes, keys) \in Seq(Nat)
    BY <1>5, CatType
  <2>3. blob = Cat(upToPorts, Cat(axes, keys))
    <3> HIDE DEF upToPorts
    <3> QED
      BY <1>5, <1>6, <1>9, CatAssociates
  <2> HIDE DEF upToBoard
  <2>4. Reader(Cat(Cat(upToBoard, Group(Discrete, i, o, driver)), Cat(axes, keys)), f)
    BY <1>7, <2>1, <2>3
  <2>5. Takes(f, Len(upToBoard), <<discrete>>, Len(Cat(upToBoard, Group(Discrete, i, o, driver))))
    BY <1>3, <1>9, <2>2, <2>4, GroupMoves, ItemTypes
  <2> QED
    BY <2>1, <2>5
<1>12. Takes(f, Len(upToPorts), <<axis>>, Len(upToAxes))
  <2> HIDE DEF upToPorts
  <2>1. Reader(Cat(Cat(upToPorts, Group(HidAxis, 0, Axes, <<>>)), keys), f)
    BY <1>6, <1>7, <1>8
  <2>2. Takes(f, Len(upToPorts), <<axis>>, Len(Cat(upToPorts, Group(HidAxis, 0, Axes, <<>>))))
    BY <1>0, <1>5, <1>9, <2>1, GroupMoves, ItemTypes
  <2> QED
    BY <1>8, <2>2
<1>13. Takes(f, Len(upToAxes), <<button>>, Len(blob))
  <2> HIDE DEF upToAxes
  <2>1. Cat(blob, <<>>) = blob
    BY <1>6, CatEmpty
  <2>2. Reader(Cat(Cat(upToAxes, Group(HidButton, 0, Buttons, <<>>)), <<>>), f)
    BY <1>6, <1>7, <1>8, <2>1
  <2>3. Takes(f, Len(upToAxes), <<button>>, Len(Cat(upToAxes, Group(HidButton, 0, Buttons, <<>>))))
    BY <1>0, <1>9, <2>2, GroupMoves, ItemTypes
  <2> QED
    BY <1>6, <1>8, <2>3
<1>14. f[Len(blob)] = <<>>
  BY <1>6, <1>7, EndIsRead
<1>15. Groups(i, o) = IF i > 0 \/ o > 0 THEN <<discrete, axis, button>> ELSE <<axis, button>>
  <2>1. Groups(i, o) = Cat(IF i + o > 0 THEN <<discrete>> ELSE <<>>, <<axis, button>>)
    BY DEF Groups, Cat, discrete, axis, button, Item
  <2>2. i + o > 0 <=> i > 0 \/ o > 0
    OBVIOUS
  <2> HIDE DEF discrete, axis, button
  <2> QED
    BY <2>1, <2>2, CatLists
<1> HIDE DEF discrete, axis, button
<1>16. f[Len(upToPorts)] = <<axis, button>>
  <2> HIDE DEF upToPorts, upToAxes
  <2>1. f[Len(upToAxes)] = Cat(<<button>>, f[Len(blob)])
    BY <1>13 DEF Takes, Cat
  <2>2. f[Len(upToPorts)] = Cat(<<axis>>, f[Len(upToAxes)])
    BY <1>12 DEF Takes, Cat
  <2> QED
    BY <1>14, <2>1, <2>2, CatLists
<1>17. f[3] = Groups(i, o)
  <2>0. f[3] = Cat(<<>>, f[Len(upToBoard)])
    BY <1>10 DEF Takes, Cat
  <2>1. CASE i > 0 \/ o > 0
    <3>1. f[Len(upToBoard)] = Cat(<<discrete>>, f[Len(upToPorts)])
      BY <1>11, <2>1 DEF Takes, Cat
    <3> HIDE DEF upToBoard, upToPorts
    <3>2. f[Len(upToBoard)] = <<discrete, axis, button>>
      BY <1>16, <3>1, CatLists, ZenonT(60)
    <3>3. f[3] = <<discrete, axis, button>>
      BY <2>0, <3>2, CatLists
    <3> QED
      BY <1>15, <2>1, <3>3
  <2>2. CASE ~(i > 0 \/ o > 0)
    <3>1. upToPorts = upToBoard
      <4>1. ports = <<>>
        BY <1>8, <2>2
      <4> HIDE DEF upToBoard
      <4> QED
        BY <1>9, <4>1, CatEmpty
    <3> HIDE DEF upToBoard, upToPorts
    <3> QED
      BY <1>15, <1>16, <2>0, <2>2, <3>1, CatLists
  <2> QED
    BY <2>1, <2>2
<1> QED
  BY <1>7, <1>17 DEF blob

(* A chunk goes on where the host is, and no further than the end.         *)
LEMMA ChunkContinues ==
  ASSUME NEW blob \in Seq(Nat), NEW o \in 0..Len(blob)
  PROVE  /\ Chunk(blob, o) \in Seq(Nat)
         /\ o + Len(Chunk(blob, o)) <= Len(blob)
         /\ \A i \in 1..Len(Chunk(blob, o)) : Chunk(blob, o)[i] = blob[o + i]
<1> DEFINE e == IF Len(blob) - o < ChunkMax THEN Len(blob) ELSE o + ChunkMax
<1>1. e \in o..Len(blob)
  BY ChunkMaxAssumption
<1>2. Chunk(blob, o) = SubSeq(blob, o + 1, e)
  BY DEF Chunk
<1> HIDE DEF e
<1>3. \A i \in (o + 1)..e : blob[i] \in Nat
  BY <1>1
<1>4. /\ SubSeq(blob, o + 1, e) \in Seq(Nat)
      /\ Len(SubSeq(blob, o + 1, e)) = e - o
      /\ \A i \in 1..(e - o) : SubSeq(blob, o + 1, e)[i] = blob[o + i]
  BY <1>1, <1>3, SubSeqProperties
<1> QED
  BY <1>1, <1>2, <1>4
-----------------------------------------------------------------------------
(* What a step leaves alone keeps its part of the invariant. *)
LEMMA SsdpKept == SsdpOK /\ UNCHANGED ssdpVars => SsdpOK'
BY DEF SsdpOK, ssdpVars

LEMMA HostKept == HostOK /\ UNCHANGED <<addr, hostVars>> => HostOK'
BY DEF HostOK, hostVars

LEMMA ReadKept == ReadOK /\ UNCHANGED <<count, read, host>> => ReadOK'
BY DEF ReadOK

(* A host that starts over has nothing of the descriptor. *)
LEMMA SeekHolds ==
  ASSUME HostOK, NEW as \in SUBSET Address,
         as \in {{}} \cup {{a} : a \in Address}, SeekAgain(as)
  PROVE  HostOK' /\ ReadOK'
<1>1. HostOK'
  BY DEF SeekAgain, HostOK
<1>2. read' = <<>> /\ host' = "seek"
  BY DEF SeekAgain
<1> QED
  BY <1>1, <1>2, BlobMaxAssumption DEF ReadOK

(* The probe has ended when the host reads, so the descriptor stands still.*)
LEMMA ProbeLeavesHost ==
  ASSUME ProbeInv, NetOK, HostOK, ReadOK, ProbeStep, UNCHANGED <<netVars, hostVars>>
  PROVE  NetOK' /\ HostOK' /\ ReadOK'
<1>1. ~Booted
  BY DEF ProbeStep, NotWanted, FirstRead, SearchRead, Found, ProbeInv, ProbeTypeOK
<1>2. addr = NoAddr /\ host = "seek"
  BY <1>1 DEF NetOK, HostOK
<1>3. NetOK'
  BY <1>2 DEF NetOK, netVars
<1>4. HostOK'
  BY HostKept DEF netVars
<1>5. ReadOK'
  BY <1>2 DEF ReadOK, hostVars
<1> QED
  BY <1>3, <1>4, <1>5

LEMMA HearsHolds ==
  ASSUME NetOK, HostOK, ReadOK, addr # NoAddr, Hears, UNCHANGED <<count, addr>>
  PROVE  HostOK' /\ ReadOK'
<1>1. CASE known = {addr}
  BY <1>1, HostKept, ReadKept DEF Hears, hostVars
<1>2. CASE known # {addr}
  <2>1. addr \in Address
    BY DEF NetOK
  <2>2. {addr} \in SUBSET Address /\ {addr} \in {{}} \cup {{a} : a \in Address}
    BY <2>1
  <2>3. SeekAgain({addr})
    BY <1>2 DEF Hears
  <2> QED
    BY <2>2, <2>3, SeekHolds
<1> QED
  BY <1>1, <1>2

LEMMA NotifyHolds ==
  ASSUME NetOK, HostOK, ReadOK, NEW heard \in BOOLEAN, Notify(heard),
         UNCHANGED <<count, addr>>
  PROVE  HostOK' /\ ReadOK'
BY HearsHolds, HostKept, ReadKept DEF Notify, hostVars
-----------------------------------------------------------------------------
LEMMA DiscoveryInit == Init => DiscoveryInv
<1> SUFFICES ASSUME Init PROVE DiscoveryInv
  OBVIOUS
<1>1. NetOK
  <2>1. addr = NoAddr /\ events = <<>> /\ gotIp = FALSE /\ member = FALSE
    BY DEF Init
  <2>2. events \in Seq({"got_ip", "disconnected"}) /\ Len(events) <= MaxEvents
    BY <2>1, MaxEventsAssumption
  <2> QED
    BY <2>1, <2>2 DEF NetOK
<1>2. SsdpOK /\ HttpOK
  <2>1. pc = "wait" /\ bound = NoAddr /\ left = 0 /\ search = FALSE /\ http = "wait"
    BY DEF Init
  <2>2. left \in 0..BurstSize /\ (left > 0 <=> pc = "burst")
    BY <2>1, BurstAssumption
  <2> QED
    BY <2>1, <2>2 DEF SsdpOK, HttpOK
<1>3. HostOK
  BY DEF Init, HostOK
<1>4. ReadOK
  BY BlobMaxAssumption DEF Init, ReadOK
<1> QED
  BY <1>1, <1>2, <1>3, <1>4 DEF DiscoveryInv

LEMMA NetworkHolds ==
  ASSUME DiscoveryInv,
         (\E a \in Address : Lease(a)) \/ LeaseLost \/ LinkLost \/ AgeOut \/ HandleEvent
  PROVE  DiscoveryInv'
<1> USE DEF DiscoveryInv
<1>1. ASSUME NEW a \in Address \cup {NoAddr}, AddressBecomes(a),
             events' \in {events, Append(events, "got_ip"), Append(events, "disconnected")},
             member' \in BOOLEAN
      PROVE  DiscoveryInv'
  <2>1. NetOK'
    BY <1>1, MaxEventsAssumption DEF AddressBecomes, NetOK, Booted, probeVars
  <2>2. known \in SUBSET Address /\ known \in {{}} \cup {{b} : b \in Address}
    BY DEF HostOK
  <2>3. HostOK' /\ ReadOK'
    BY <1>1, <2>2, SeekHolds DEF AddressBecomes
  <2>4. SsdpOK' /\ HttpOK'
    BY <1>1, SsdpKept DEF AddressBecomes, HttpOK
  <2> QED
    BY <2>1, <2>3, <2>4
<1>2. ASSUME NEW a \in Address, Lease(a)
      PROVE  DiscoveryInv'
  BY <1>1, <1>2 DEF Lease, NetOK
<1>3. CASE LeaseLost
  BY <1>1, <1>3 DEF LeaseLost, NetOK
<1>4. CASE LinkLost
  BY <1>1, <1>4 DEF LinkLost, NetOK
<1>5. CASE AgeOut \/ HandleEvent
  <2>1. NetOK'
    <3>1. CASE AgeOut
      BY <3>1 DEF AgeOut, NetOK, Booted, probeVars
    <3>2. CASE HandleEvent
      <4>1. events' \in Seq({"got_ip", "disconnected"}) /\ Len(events') <= MaxEvents
        BY <3>2, MaxEventsAssumption DEF HandleEvent, NetOK
      <4>2. UNCHANGED <<addr, member, bank>> /\ gotIp' \in BOOLEAN
        BY <3>2 DEF HandleEvent, probeVars
      <4> QED
        BY <4>1, <4>2 DEF NetOK, Booted
    <3> QED
      BY <1>5, <3>1, <3>2
  <2>2. UNCHANGED <<addr, count, ssdpVars, http, hostVars>>
    BY <1>5 DEF AgeOut, HandleEvent, probeVars
  <2> QED
    BY <2>1, <2>2, SsdpKept, HostKept, ReadKept DEF HttpOK, hostVars
<1> QED
  BY <1>2, <1>3, <1>4, <1>5

LEMMA SsdpHolds ==
  ASSUME DiscoveryInv, SsdpStep
  PROVE  DiscoveryInv'
<1> USE DEF DiscoveryInv
<1>1. /\ UNCHANGED <<addr, events, gotIp, http, probeVars, count>>
      /\ member' \in BOOLEAN
  BY DEF SsdpStep, Ready, ReadAddress, OpenFails, Open, Burst, Turn, Leave, NetOK,
         AnswerSearch, NoSearch, Periodic, netVars, Rejoin, probeVars
<1>2. NetOK' /\ HttpOK'
  BY <1>1 DEF NetOK, HttpOK, Booted, probeVars
<1>3. CASE Ready \/ ReadAddress \/ OpenFails \/ Open \/ Turn \/ Leave \/ NoSearch
  <2>1. SsdpOK'
    <3>1. left \in 0..BurstSize /\ (left > 0 <=> pc = "burst")
      BY DEF SsdpOK
    <3>2. left' \in 0..BurstSize /\ (left' > 0 <=> pc' = "burst")
      BY <1>3, <3>1, BurstAssumption
      DEF Ready, ReadAddress, OpenFails, Open, Turn, Leave, NoSearch
    <3>3. /\ search' \in BOOLEAN
          /\ pc' \in {"wait", "read", "open", "burst", "turn", "select", "timers"}
          /\ bound' \in Address \cup {NoAddr}
      BY <1>3 DEF Ready, ReadAddress, OpenFails, Open, Turn, Leave, NoSearch, SsdpOK, NetOK
    <3> QED
      BY <3>2, <3>3 DEF SsdpOK
  <2>2. UNCHANGED hostVars
    BY <1>3 DEF Ready, ReadAddress, OpenFails, Open, Turn, Leave, NoSearch
  <2> QED
    BY <1>1, <1>2, <2>1, <2>2, HostKept, ReadKept DEF hostVars
<1>4. ASSUME NEW heard \in BOOLEAN, Burst(heard)
      PROVE  DiscoveryInv'
  <2>1. SsdpOK'
    BY <1>4, BurstAssumption DEF Burst, SsdpOK
  <2>2. HostOK' /\ ReadOK'
    BY <1>1, <1>4, NotifyHolds DEF Burst
  <2> QED
    BY <1>2, <2>1, <2>2
<1>5. ASSUME NEW heard \in BOOLEAN, AnswerSearch(heard)
      PROVE  DiscoveryInv'
  <2>1. SsdpOK'
    BY <1>5 DEF AnswerSearch, SsdpOK
  <2>2. HostOK' /\ ReadOK'
    BY <1>1, <1>5, HearsHolds, HostKept, ReadKept DEF AnswerSearch, hostVars
  <2> QED
    BY <1>2, <2>1, <2>2
<1>6. ASSUME NEW notify \in BOOLEAN, NEW heard \in BOOLEAN, NEW rejoin \in BOOLEAN,
             Periodic(notify, heard, rejoin)
      PROVE  DiscoveryInv'
  <2>1. SsdpOK'
    BY <1>6 DEF Periodic, SsdpOK
  <2>2. HostOK' /\ ReadOK'
    BY <1>1, <1>6, NotifyHolds, HostKept, ReadKept DEF Periodic, hostVars
  <2> QED
    BY <1>2, <2>1, <2>2
<1> QED
  BY <1>3, <1>4, <1>5, <1>6 DEF SsdpStep

(* A chunk that is answered is the next part of the descriptor. *)
LEMMA ReadChunkHolds ==
  ASSUME ProbeInv, DiscoveryInv, ReadChunk
  PROVE  HostOK' /\ ReadOK'
<1> DEFINE blob == BlobOf(count)
           part == Chunk(blob, Len(read))
<1>1. blob \in Seq(Nat)
  <2>1. count["m31in"] \in Nat /\ count["waveshare"] + count["m31out"] \in Nat
    BY DEF ProbeInv, ProbeTypeOK, Bank
  <2> QED
    BY <2>1, DescriptorType DEF BlobOf
<1>2. blob = Blob
  BY DEF BlobOf, Blob
<1>3. /\ read \in Seq(Nat) /\ Len(read) \in 0..Len(blob)
      /\ \A i \in 1..Len(read) : read[i] = blob[i]
  <2>1. host = "reading"
    BY DEF ReadChunk
  <2> QED
    BY <1>1, <2>1 DEF DiscoveryInv, ReadOK
<1>4. /\ part \in Seq(Nat)
      /\ Len(read) + Len(part) <= Len(blob)
      /\ \A i \in 1..Len(part) : part[i] = blob[Len(read) + i]
  BY <1>1, <1>3, ChunkContinues
<1> HIDE DEF blob
<1>5. /\ Len(blob) <= BlobMax
      /\ read' = read \o part
      /\ host' = IF Len(read') = Len(blob) THEN "done" ELSE "reading"
  <2> DEFINE ack == GetCapabilities(blob, Version, Len(read))
  <2>1. ack.status = "ok" => ack.bytes = part /\ ack.total = Len(blob) /\ Len(blob) <= BlobMax
    BY DEF GetCapabilities, Available
  <2>2. /\ ack.status = "ok"
        /\ read' = read \o ack.bytes
        /\ host' = IF Len(read') = ack.total THEN "done" ELSE "reading"
    BY <1>2 DEF ReadChunk
  <2> QED
    BY <2>1, <2>2
<1> HIDE DEF part
<1>6. /\ read' \in Seq(Nat)
      /\ Len(read') = Len(read) + Len(part)
      /\ \A i \in 1..Len(read') : read'[i] = IF i <= Len(read) THEN read[i] ELSE part[i - Len(read)]
  BY <1>3, <1>4, <1>5, ConcatProperties
<1>7. Len(read') <= Len(blob) /\ \A i \in 1..Len(read') : read'[i] = blob[i]
  <2>1. Len(read') <= Len(blob)
    BY <1>4, <1>6
  <2>2. ASSUME NEW i \in 1..Len(read') PROVE read'[i] = blob[i]
    <3>1. CASE i <= Len(read)
      BY <1>3, <1>6, <3>1, SMTT(60)
    <3>2. CASE ~(i <= Len(read))
      <4>1. i - Len(read) \in 1..Len(part)
        BY <1>3, <1>4, <1>6, <3>2
      <4>2. part[i - Len(read)] = blob[Len(read) + (i - Len(read))]
        BY <1>4, <4>1
      <4>3. Len(read) + (i - Len(read)) = i
        BY <1>3
      <4> QED
        BY <1>6, <3>2, <4>2, <4>3
    <3> QED
      BY <3>1, <3>2
  <2> QED
    BY <2>1, <2>2
<1>8. count' = count /\ UNCHANGED <<addr, kind, known>> /\ host = "reading"
  BY DEF ReadChunk, probeVars, netVars
<1>9. blob' = blob
  BY <1>8 DEF blob
<1>10. HostOK'
  BY <1>5, <1>8 DEF DiscoveryInv, HostOK
<1>11. ReadOK'
  <2>1. BlobOf(count') = blob
    BY <1>8 DEF blob
  <2>2. Len(read') <= BlobMax
    BY <1>1, <1>5, <1>6, <1>7, BlobMaxAssumption
  <2>3. host' # "seek" /\ (host' = "done" => Len(read') = Len(blob))
    BY <1>5
  <2> QED
    BY <1>6, <1>7, <2>1, <2>2, <2>3 DEF ReadOK
<1> QED
  BY <1>10, <1>11

LEMMA DiscoveryStepHolds == ProbeInv /\ DiscoveryInv /\ [Next]_vars => DiscoveryInv'
<1> SUFFICES ASSUME ProbeInv, DiscoveryInv, [Next]_vars PROVE DiscoveryInv'
  OBVIOUS
<1> USE DEF DiscoveryInv
<1>1. CASE Probe
  <2>1. ProbeStep /\ UNCHANGED <<netVars, ssdpVars, http, hostVars>>
    BY <1>1 DEF Probe
  <2> QED
    BY <2>1, ProbeLeavesHost, SsdpKept DEF HttpOK
<1>2. CASE PowerLoss
  <2>1. /\ addr' = NoAddr /\ events' = <<>> /\ gotIp' = FALSE /\ member' = FALSE
        /\ pc' = "wait" /\ bound' = NoAddr /\ left' = 0 /\ search' = FALSE
        /\ http' = "wait"
    BY <1>2 DEF PowerLoss
  <2>2. NetOK' /\ SsdpOK' /\ HttpOK'
    <3>1. /\ events' \in Seq({"got_ip", "disconnected"}) /\ Len(events') <= MaxEvents
          /\ left' \in 0..BurstSize /\ (left' > 0 <=> pc' = "burst")
      BY <2>1, MaxEventsAssumption, BurstAssumption
    <3> QED
      BY <2>1, <3>1 DEF NetOK, SsdpOK, HttpOK
  <2>3. known \in SUBSET Address /\ known \in {{}} \cup {{b} : b \in Address}
    BY DEF HostOK
  <2>4. HostOK' /\ ReadOK'
    BY <1>2, <2>3, SeekHolds DEF PowerLoss
  <2> QED
    BY <2>2, <2>4
<1>3. CASE (\E a \in Address : Lease(a)) \/ LeaseLost \/ LinkLost \/ AgeOut \/ HandleEvent
  BY <1>3, NetworkHolds
<1>4. CASE SsdpStep
  BY <1>4, SsdpHolds
<1>5. CASE HttpOpen \/ AcceptFails \/ SilentClient \/ ReceiveTimeout
  <2>1. HttpOK' /\ UNCHANGED <<probeVars, netVars, ssdpVars, hostVars>>
    BY <1>5 DEF HttpOpen, AcceptFails, SilentClient, ReceiveTimeout, HttpOK
  <2>2. NetOK'
    BY <2>1 DEF NetOK, netVars, probeVars, Booted
  <2> QED
    BY <2>1, <2>2, SsdpKept, HostKept, ReadKept DEF netVars, hostVars, probeVars
<1>6. CASE Fetch
  <2>1. UNCHANGED <<probeVars, netVars, ssdpVars, http, kind, known, read>>
        /\ host = "seek" /\ host' = "reading" /\ Reachable
    BY <1>6 DEF Fetch
  <2>2. NetOK' /\ HttpOK' /\ SsdpOK'
    BY <2>1, SsdpKept DEF NetOK, netVars, probeVars, Booted, HttpOK
  <2>3. HostOK'
    BY <2>1 DEF HostOK, Reachable, netVars
  <2>4. ReadOK'
    <3>1. count' = count /\ read = <<>> /\ read' = <<>>
      BY <2>1 DEF probeVars, ReadOK
    <3>2. BlobOf(count) \in Seq(Nat)
      <4>1. count["m31in"] \in Nat /\ count["waveshare"] + count["m31out"] \in Nat
        BY DEF ProbeInv, ProbeTypeOK, Bank
      <4> QED
        BY <4>1, DescriptorType DEF BlobOf
    <3>3. Len(BlobOf(count)) >= 0
      BY <3>2
    <3> QED
      BY <2>1, <3>1, <3>3, BlobMaxAssumption DEF ReadOK
  <2> QED
    BY <2>2, <2>3, <2>4
<1>7. CASE SendSearch
  <2>1. UNCHANGED <<probeVars, netVars, http, hostVars, pc, bound, left>> /\ search' = TRUE
    BY <1>7 DEF SendSearch
  <2>2. NetOK' /\ HttpOK' /\ SsdpOK'
    BY <2>1 DEF NetOK, netVars, probeVars, Booted, HttpOK, SsdpOK
  <2> QED
    BY <2>1, <2>2, HostKept, ReadKept DEF netVars, hostVars, probeVars
<1>8. CASE GivesUp
  <2>1. UNCHANGED <<probeVars, netVars, ssdpVars, http>> /\ SeekAgain({})
    BY <1>8 DEF GivesUp
  <2>2. NetOK' /\ HttpOK' /\ SsdpOK'
    BY <2>1, SsdpKept DEF NetOK, netVars, probeVars, Booted, HttpOK
  <2> QED
    BY <2>1, <2>2, SeekHolds
<1>9. CASE ReadChunk
  <2>1. UNCHANGED <<probeVars, netVars, ssdpVars, http>>
    BY <1>9 DEF ReadChunk
  <2>2. NetOK' /\ HttpOK' /\ SsdpOK'
    BY <2>1, SsdpKept DEF NetOK, netVars, probeVars, Booted, HttpOK
  <2> QED
    BY <1>9, <2>2, ReadChunkHolds
<1>10. CASE UNCHANGED vars
  <2>1. NetOK' /\ HttpOK'
    BY <1>10 DEF vars, NetOK, netVars, probeVars, Booted, HttpOK
  <2> QED
    BY <1>10, <2>1, SsdpKept, HostKept, ReadKept DEF vars, netVars, hostVars, probeVars
<1> QED
  BY <1>1, <1>2, <1>3, <1>4, <1>5, <1>6, <1>7, <1>8, <1>9, <1>10 DEF Next

LEMMA DiscoveryInductive == Spec => [](ProbeInv /\ DiscoveryInv)
BY ProbeInvHolds, DiscoveryInit, DiscoveryStepHolds, PTL DEF Spec

(* The network has an address only once the card knows its modules; only   *)
(* the startup burst counts down; and a host that reads does so at the     *)
(* address the card has now (net_eth.c, ssdp_task.c, capabilities.c).      *)
THEOREM TypeCorrect == Spec => []TypeOK
<1>1. ProbeInv /\ DiscoveryInv => TypeOK
  BY DEF ProbeInv, DiscoveryInv, NetOK, SsdpOK, HttpOK, HostOK, ReadOK, TypeOK
<1> QED
  BY <1>1, DiscoveryInductive, PTL

(* A host that is done has the descriptor of the modules the card found at *)
(* this boot, item for item, however many chunks it took, and whatever     *)
(* power losses and changes of address began a reading over                *)
(* (handle_get_capabilities, comm_core.c; capabilities_init).              *)
ReadIsDescriptor ==
  host = "done" =>
    /\ Booted
    /\ Available(Blob)
    /\ read = Blob

(* What a host took for the descriptor is the descriptor, for every        *)
(* population, chunk size and moment of a restart (capabilities.c).        *)
THEOREM DescriptorIsRead == Spec => []ReadIsDescriptor
<1>1. ProbeInv /\ DiscoveryInv => ReadIsDescriptor
  <2> SUFFICES ASSUME ProbeInv, DiscoveryInv, host = "done" PROVE Booted /\ Available(Blob) /\ read = Blob
    BY DEF ReadIsDescriptor
  <2>1. Booted
    BY DEF DiscoveryInv, HostOK, NetOK
  <2>2. count["m31in"] \in Nat /\ count["waveshare"] + count["m31out"] \in Nat
    BY DEF ProbeInv, ProbeTypeOK, Bank
  <2>3. BlobOf(count) \in Seq(Nat) /\ BlobOf(count) = Blob
    BY <2>2, DescriptorType DEF BlobOf, Blob
  <2>4. /\ read \in Seq(Nat) /\ Len(read) = Len(BlobOf(count))
        /\ \A i \in 1..Len(read) : read[i] = BlobOf(count)[i]
        /\ Len(read) <= BlobMax
    BY DEF DiscoveryInv, ReadOK
  <2> QED
    BY <2>1, <2>3, <2>4, SMTT(60) DEF Available
<1> QED
  BY <1>1, DiscoveryInductive, PTL

(* The safety half of HostFindsCard: the port groups that a reader finds   *)
(* in what a host has read are those of the modules the card has counted.  *)
ReadsThePorts ==
  host = "done" =>
    PortGroups(read) = Groups(count["m31in"], count["waveshare"] + count["m31out"])

(* Stepping through the entries by the lengths written in them, a host     *)
(* gets the counts the card writes (capabilities.c), for every population. *)
THEOREM PortsAreRead == Spec => []ReadsThePorts
<1>1. ProbeInv /\ ReadIsDescriptor => ReadsThePorts
  <2> SUFFICES ASSUME ProbeInv, read = Blob
               PROVE  PortGroups(read)
                        = Groups(count["m31in"], count["waveshare"] + count["m31out"])
    BY DEF ReadIsDescriptor, ReadsThePorts
  <2>1. count["m31in"] \in Nat /\ count["waveshare"] + count["m31out"] \in Nat
    BY DEF ProbeInv, ProbeTypeOK, Bank
  <2> QED
    BY <2>1, DescriptorReadsBack DEF Blob
<1> QED
  BY <1>1, DescriptorIsRead, DiscoveryInductive, PTL
=================================================================================
