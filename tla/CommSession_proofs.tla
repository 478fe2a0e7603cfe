-------------------------- MODULE CommSession_proofs --------------------------
(***************************************************************************)
(* Theorems about the control session for every set of subsystems and      *)
(* addresses, every size of the receive buffer, and any number of requests *)
(* and session numbers.                                                    *)
(***************************************************************************)
EXTENDS CommSession, SequenceTheorems, WellFoundedInduction, TLAPS

(* Every frame the card still holds was sent in the latest session; that   *)
(* includes the rest of a batch whose session has already been dropped.    *)
AllFrom(pieces, n) ==
  \A i \in 1..Len(pieces) :
    pieces[i] # Noise => pieces[i].frame.session = n

Latest ==
  /\ AllFrom(rx, last)
  /\ AllFrom(batch, last)
  /\ AllFrom(wire, last)

Quiet ==
  /\ pc # "input" => batch = <<>>
  /\ alive => client # 0

(* The part of the invariant that is about what is buffered, and the part  *)
(* about what is enabled                                                   *)
StreamInv == StreamOK /\ Latest
OwnedInv  == ConfOK /\ OwnedByLatest
LoopInv   == LoopOK /\ Quiet

IInv == LoopInv /\ StreamInv /\ OwnedInv /\ NetOK /\ HistoryOK

streamVars  == <<rx, batch, off, wire, last>>
historyVars == <<requests, answered>>

LEMMA NextSessionType == last \in Session => (last % Sessions) + 1 \in Session
BY SessionsAssumption DEF Session

LEMMA PieceFields ==
  ASSUME NEW p \in Piece, p.half # 0
  PROVE  p # Noise /\ p.frame \in Frame
BY DEF Piece, Noise

LEMMA SubSeqPieces ==
  ASSUME NEW k, NEW s \in Seq(Piece), NEW m \in 1..(Len(s) + 1), NEW n \in 0..Len(s)
  PROVE  /\ SubSeq(s, m, n) \in Seq(Piece)
         /\ Len(SubSeq(s, m, n)) = IF m <= n THEN n - m + 1 ELSE 0
         /\ AllFrom(s, k) => AllFrom(SubSeq(s, m, n), k)
<1>1. /\ SubSeq(s, m, n) \in Seq(Piece)
      /\ Len(SubSeq(s, m, n)) = IF m <= n THEN n - m + 1 ELSE 0
      /\ \A i \in 1..Len(SubSeq(s, m, n)) : SubSeq(s, m, n)[i] = s[m + i - 1]
  BY SubSeqProperties
<1> QED
  BY <1>1 DEF AllFrom

LEMMA ConcatPieces ==
  ASSUME NEW k, NEW s \in Seq(Piece), NEW t \in Seq(Piece)
  PROVE  /\ s \o t \in Seq(Piece)
         /\ Len(s \o t) = Len(s) + Len(t)
         /\ AllFrom(s, k) /\ AllFrom(t, k) => AllFrom(s \o t, k)
<1>1. /\ s \o t \in Seq(Piece)
      /\ Len(s \o t) = Len(s) + Len(t)
      /\ \A i \in 1..Len(s \o t) :
           (s \o t)[i] = IF i <= Len(s) THEN s[i] ELSE t[i - Len(s)]
  BY ConcatProperties
<1> QED
  BY <1>1 DEF AllFrom

LEMMA EmptyPieces ==
  ASSUME NEW k
  PROVE  <<>> \in Seq(Piece) /\ Len(<<>>) = 0 /\ AllFrom(<<>>, k)
BY DEF AllFrom

LEMMA AllOffType == AllOff \in [Subsystem -> 0..Sessions] /\ 0 \in 0..Sessions
BY SessionsAssumption DEF AllOff

(* A request that is dispatched is one of the latest session. *)
LEMMA RequestOfLatest ==
  ASSUME StreamInv, Whole
  PROVE  /\ Request \in Frame
         /\ Request.session = last
         /\ off + 2 \in 0..Len(batch)
<1>1. off + 1 \in 1..Len(batch) /\ off + 2 \in 0..Len(batch)
  BY DEF StreamInv, StreamOK, Whole, Rest
<1>2. batch[off + 1] \in Piece /\ batch[off + 1].half = 1
  BY <1>1 DEF StreamInv, StreamOK, Whole
<1> QED
  BY <1>1, <1>2, PieceFields DEF StreamInv, Latest, AllFrom, Request
-----------------------------------------------------------------------------
(* What a step leaves alone keeps its part of the invariant. *)
LEMMA StreamKept == StreamInv /\ UNCHANGED streamVars => StreamInv'
BY DEF StreamInv, StreamOK, Latest, AllFrom, streamVars

LEMMA OwnedKept == OwnedInv /\ UNCHANGED <<confVars, last>> => OwnedInv'
BY DEF OwnedInv, ConfOK, OwnedByLatest, confVars

LEMMA NetKept == NetOK /\ UNCHANGED netVars => NetOK'
BY DEF NetOK, netVars

LEMMA HistoryKept == HistoryOK /\ UNCHANGED historyVars => HistoryOK'
BY DEF HistoryOK, historyVars

(* Dropping the client empties the buffer and leaves nothing enabled. *)
LEMMA DropHolds ==
  ASSUME LoopInv, StreamInv, DropClient, UNCHANGED <<batch, last>>,
         off' \in 0..Len(batch)
  PROVE  StreamInv' /\ OwnedInv' /\ client' = 0 /\ alive' = FALSE
<1>1. StreamInv'
  BY RxPiecesAssumption, EmptyPieces
  DEF DropClient, StreamInv, StreamOK, Latest, AllFrom
<1>2. OwnedInv'
  BY AllOffType DEF DropClient, OwnedInv, ConfOK, OwnedByLatest, AllOff
<1> QED
  BY <1>1, <1>2 DEF DropClient

LEMMA InitHolds == Init => IInv
<1> SUFFICES ASSUME Init PROVE IInv
  OBVIOUS
<1>1. LoopInv
  <2>1. last \in Session
    BY SessionsAssumption DEF Init, Session
  <2> QED
    BY <2>1 DEF Init, LoopInv, LoopOK, Quiet
<1>2. StreamInv
  BY RxPiecesAssumption, EmptyPieces DEF Init, StreamInv, StreamOK, Latest
<1>3. OwnedInv
  BY AllOffType DEF Init, OwnedInv, ConfOK, OwnedByLatest, AllOff
<1>4. NetOK /\ HistoryOK
  BY DEF Init, NetOK, HistoryOK
<1> QED
  BY <1>1, <1>2, <1>3, <1>4 DEF IInv

LEMMA RestartHolds == IInv /\ Restart => IInv'
<1> SUFFICES ASSUME IInv, Restart PROVE IInv'
  OBVIOUS
<1>1. LoopInv'
  BY DEF IInv, Restart, LoopInv, LoopOK, Quiet
<1>2. StreamInv'
  BY RxPiecesAssumption DEF Restart, StreamInv, StreamOK, Latest, AllFrom
<1>3. OwnedInv'
  BY AllOffType DEF Restart, OwnedInv, ConfOK, OwnedByLatest, AllOff
<1>4. NetOK' /\ HistoryOK'
  BY NetKept, HistoryKept DEF IInv, Restart, historyVars
<1> QED
  BY <1>1, <1>2, <1>3, <1>4 DEF IInv
-----------------------------------------------------------------------------
LEMMA CommStepHolds == IInv /\ CommStep => IInv'
<1> SUFFICES ASSUME LoopInv, StreamInv, OwnedInv, NetOK, HistoryOK, CommStep
             PROVE  LoopInv' /\ StreamInv' /\ OwnedInv' /\ NetOK' /\ HistoryOK'
  BY DEF IInv
<1> USE StreamKept, OwnedKept, NetKept, HistoryKept
    DEF streamVars, historyVars, hostVars
<1>1. ASSUME NEW ok \in BOOLEAN, Bind(ok)
      PROVE  LoopInv' /\ StreamInv' /\ OwnedInv' /\ NetOK' /\ HistoryOK'
  <2>1. LoopInv'
    BY <1>1 DEF Bind, LoopInv, LoopOK, Quiet, NetOK
  <2> QED
    BY <1>1, <2>1 DEF Bind
<1>2. CASE Turn
  <2>1. CASE NetworkStable \/ client = 0
    <3>1. LoopInv'
      BY <1>2, <2>1 DEF Turn, LoopInv, LoopOK, Quiet
    <3> QED
      BY <1>2, <2>1, <3>1 DEF Turn, confVars
  <2>2. CASE ~NetworkStable /\ client # 0
    <3>1. DropClient /\ UNCHANGED <<batch, off, netVars, last, historyVars>>
          /\ off' \in 0..Len(batch)
      BY <1>2, <2>2 DEF Turn, StreamInv, StreamOK
    <3>2. LoopInv'
      BY <1>2, <2>2, <3>1 DEF Turn, DropClient, LoopInv, LoopOK, Quiet
    <3> QED
      BY <3>1, <3>2, DropHolds
  <2> QED
    BY <2>1, <2>2
<1>3. CASE Accept
  <2>1. CASE knocking /\ client = 0
    <3>1. last' \in Session /\ client' = last' /\ client' # 0
      BY <1>3, <2>1, NextSessionType DEF Accept, LoopInv, LoopOK, Session
    <3>2. LoopInv'
      BY <1>3, <2>1, <3>1 DEF Accept, LoopInv, LoopOK, Quiet
    <3>3. StreamInv'
      BY <1>3, <2>1, RxPiecesAssumption
      DEF Accept, LoopInv, Quiet, StreamInv, StreamOK, Latest, AllFrom
    <3>4. OwnedInv'
      BY <1>3, <2>1, AllOffType
      DEF Accept, OwnedInv, ConfOK, OwnedByLatest, AllOff
    <3>5. NetOK' /\ HistoryOK'
      BY <1>3, <2>1 DEF Accept, HistoryOK
    <3> QED
      BY <3>2, <3>3, <3>4, <3>5
  <2>2. CASE ~(knocking /\ client = 0)
    <3>1. LoopInv'
      BY <1>3, <2>2 DEF Accept, LoopInv, LoopOK, Quiet
    <3> QED
      BY <1>3, <2>2, <3>1 DEF Accept, confVars
  <2> QED
    BY <2>1, <2>2
<1>4. CASE Receive
  <2> DEFINE kept == IF Len(rx) = RxPieces THEN <<>> ELSE rx
  <2>1. PICK n \in 1..(RxPieces - Len(kept)) :
          /\ n <= Len(wire)
          /\ batch' = kept \o SubSeq(wire, 1, n)
          /\ wire' = SubSeq(wire, n + 1, Len(wire))
    BY <1>4 DEF Receive
  <2>2. kept \in Seq(Piece) /\ AllFrom(kept, last) /\ Len(kept) \in 0..RxPieces
    BY RxPiecesAssumption, EmptyPieces DEF StreamInv, StreamOK, Latest
  <2>3. /\ wire \in Seq(Piece) /\ AllFrom(wire, last)
        /\ n \in 0..Len(wire) /\ n + 1 \in 1..(Len(wire) + 1) /\ n >= 1
    BY <2>1, <2>2, RxPiecesAssumption DEF StreamInv, StreamOK, Latest
  <2>4. /\ SubSeq(wire, 1, n) \in Seq(Piece)
        /\ Len(SubSeq(wire, 1, n)) = n
        /\ AllFrom(SubSeq(wire, 1, n), last)
    BY <2>3, SubSeqPieces
  <2>5. wire' \in Seq(Piece) /\ AllFrom(wire', last)
    <3>1. Len(wire) \in 0..Len(wire)
      BY <2>3
    <3> QED
      BY <2>1, <2>3, <3>1, SubSeqPieces
  <2>6. batch' \in Seq(Piece) /\ Len(batch') <= RxPieces /\ AllFrom(batch', last)
    <3>1. n <= RxPieces - Len(kept)
      BY <2>1, <2>2, RxPiecesAssumption
    <3>2. n \in Int /\ Len(kept) \in Int
      BY <2>2, <2>3
    <3> DEFINE head == SubSeq(wire, 1, n)
    <3> HIDE DEF kept, head
    <3>3. head \in Seq(Piece) /\ Len(head) = n /\ AllFrom(head, last)
      BY <2>4 DEF head
    <3>4. /\ kept \o head \in Seq(Piece)
          /\ Len(kept \o head) = Len(kept) + Len(head)
          /\ AllFrom(kept \o head, last)
      BY <2>2, <3>3, ConcatPieces
    <3>5. batch' = kept \o head
      BY <2>1 DEF head
    <3> QED
      BY <3>1, <3>2, <3>3, <3>4, <3>5, RxPiecesAssumption
  <2>7. rx' = batch' /\ off' = 0 /\ pc' = "input" /\ last' = last
    BY <1>4 DEF Receive
  <2>8. StreamInv'
    BY <2>5, <2>6, <2>7 DEF StreamInv, StreamOK, Latest, AllFrom
  <2>9. LoopInv'
    BY <1>4, <2>7 DEF Receive, LoopInv, LoopOK, Quiet
  <2> QED
    BY <1>4, <2>8, <2>9 DEF Receive
<1>5. CASE NothingToRead
  <2>1. LoopInv'
    BY <1>5 DEF NothingToRead, LoopInv, LoopOK, Quiet
  <2> QED
    BY <1>5, <2>1 DEF NothingToRead
<1>6. CASE ReadError
  <2>1. off' \in 0..Len(batch)
    BY <1>6 DEF ReadError, StreamInv, StreamOK
  <2>2. LoopInv'
    BY <1>6 DEF ReadError, DropClient, LoopInv, LoopOK, Quiet
  <2> QED
    BY <1>6, <2>1, <2>2, DropHolds DEF ReadError
<1>7. CASE Skip
  <2>1. off + 1 \in 0..Len(batch)
    BY <1>7 DEF Skip, Rest, StreamInv, StreamOK
  <2>2. StreamInv'
    BY <1>7, <2>1 DEF Skip, StreamInv, StreamOK, Latest, AllFrom
  <2>3. LoopInv'
    BY <1>7 DEF Skip, LoopInv, LoopOK, Quiet
  <2> QED
    BY <1>7, <2>2, <2>3 DEF Skip
<1>8. CASE Dispatch
  <2>1. /\ Request \in Frame
        /\ Request.session = last /\ last \in Session
        /\ off + 2 \in 0..Len(batch)
    BY <1>8, RequestOfLatest DEF Dispatch, Dispatching, LoopInv, LoopOK
  <2>2. OwnedInv'
    <3>1. /\ enabled' \in [Subsystem -> 0..Sessions]
          /\ \A s \in Subsystem : enabled'[s] \in {0, last}
      <4> DEFINE c == Request.cmd
      <4>1. last \in 0..Sessions /\ 0 \in 0..Sessions
        BY <2>1, SessionsAssumption DEF Session
      <4>2. /\ enabled' \in {enabled, [enabled EXCEPT ![c[2]] = last],
                             [enabled EXCEPT ![c[2]] = 0]}
            /\ enabled \in [Subsystem -> 0..Sessions]
            /\ \A s \in Subsystem : enabled[s] \in {0, last}
        BY <1>8, <2>1 DEF Dispatch, Applied, OwnedInv, ConfOK, OwnedByLatest
      <4> HIDE DEF c
      <4> QED
        BY <4>1, <4>2
    <3>2. verbose' \in 0..Sessions
      BY <1>8, <2>1, SessionsAssumption
      DEF Dispatch, Threshold, OwnedInv, ConfOK, Session
    <3> QED
      BY <1>8, <3>1, <3>2
      DEF Dispatch, Dispatching, OwnedInv, ConfOK, OwnedByLatest
  <2>3. StreamInv'
    BY <1>8, <2>1
    DEF Dispatch, Dispatching, StreamInv, StreamOK, Latest, AllFrom
  <2>4. HistoryOK'
    BY <1>8, <2>1 DEF Dispatch, Dispatching, HistoryOK
  <2>5. LoopInv'
    BY <1>8 DEF Dispatch, Dispatching, LoopInv, LoopOK, Quiet
  <2> QED
    BY <1>8, <2>2, <2>3, <2>4, <2>5 DEF Dispatch, Dispatching
<1>9. CASE DispatchDrops
  <2>1. off' \in 0..Len(batch)
    BY <1>9, RequestOfLatest DEF DispatchDrops, Dispatching
  <2>2. LoopInv'
    BY <1>9 DEF DispatchDrops, Dispatching, DropClient, LoopInv, LoopOK, Quiet
  <2> QED
    BY <1>9, <2>1, <2>2, DropHolds DEF DispatchDrops, Dispatching
<1>10. CASE Reboot
  BY <1>10, RestartHolds DEF Reboot, IInv
<1>11. CASE InputDone
  <2>1. /\ batch \in Seq(Piece) /\ AllFrom(batch, last)
        /\ off + 1 \in 1..(Len(batch) + 1)
        /\ Len(batch) \in 0..RxPieces
    BY RxPiecesAssumption DEF StreamInv, StreamOK, Latest
  <2>2. LET rest == SubSeq(batch, off + 1, Len(batch))
        IN  rest \in Seq(Piece) /\ Len(rest) <= RxPieces /\ AllFrom(rest, last)
    BY <2>1, SubSeqPieces, RxPiecesAssumption
  <2>3. rx' \in Seq(Piece) /\ Len(rx') <= RxPieces /\ AllFrom(rx', last)
    BY <1>11, <2>2 DEF InputDone, StreamInv, StreamOK, Latest
  <2>4. StreamInv'
    BY <1>11, <2>3, RxPiecesAssumption
    DEF InputDone, StreamInv, StreamOK, Latest, AllFrom
  <2>5. LoopInv'
    BY <1>11 DEF InputDone, LoopInv, LoopOK, Quiet
  <2> QED
    BY <1>11, <2>4, <2>5 DEF InputDone
<1>12. CASE Status
  <2>1. LoopInv'
    BY <1>12 DEF Status, LoopInv, LoopOK, Quiet
  <2> QED
    BY <1>12, <2>1 DEF Status
<1>13. CASE StatusDrops
  <2>1. off' \in 0..Len(batch)
    BY <1>13 DEF StatusDrops, StreamInv, StreamOK
  <2>2. LoopInv'
    BY <1>13 DEF StatusDrops, DropClient, LoopInv, LoopOK, Quiet
  <2> QED
    BY <1>13, <2>1, <2>2, DropHolds DEF StatusDrops
<1> QED
  BY <1>1, <1>2, <1>3, <1>4, <1>5, <1>6, <1>7, <1>8, <1>9, <1>10, <1>11, <1>12,
     <1>13 DEF CommStep
-----------------------------------------------------------------------------
(* The two pieces of a frame of the session *)
LEMMA SentPieces ==
  ASSUME NEW f \in Frame, f.session = last
  PROVE  Pieces(<<f>>) \in Seq(Piece) /\ AllFrom(Pieces(<<f>>), last)
<1> DEFINE p == [frame |-> f, half |-> 1]
           q == [frame |-> f, half |-> 2]
<1>1. Pieces(<<f>>) = <<p, q>>
  <2>1. Pieces(<<f>>) = [i \in 1..2 |-> [frame |-> f, half |-> 2 - (i % 2)]]
    BY DEF Pieces
  <2>2. 2 - (1 % 2) = 1 /\ 2 - (2 % 2) = 2
    OBVIOUS
  <2> QED
    BY <2>1, <2>2
<1>2. p \in Piece /\ q \in Piece /\ p.frame.session = last /\ q.frame.session = last
  BY DEF Piece
<1> HIDE DEF p, q
<1>3. <<p, q>> \in Seq(Piece)
  BY <1>2
<1>4. Len(<<p, q>>) = 2 /\ <<p, q>>[1] = p /\ <<p, q>>[2] = q
  OBVIOUS
<1>5. \A i \in 1..Len(<<p, q>>) : <<p, q>>[i] \in {p, q}
  BY <1>4
<1>6. AllFrom(<<p, q>>, last)
  BY <1>2, <1>5 DEF AllFrom
<1> QED
  BY <1>1, <1>3, <1>6

LEMMA WorldStepHolds == IInv /\ WorldStep => IInv'
<1> SUFFICES ASSUME LoopInv, StreamInv, OwnedInv, NetOK, HistoryOK, WorldStep
             PROVE  LoopInv' /\ StreamInv' /\ OwnedInv' /\ NetOK' /\ HistoryOK'
  BY DEF IInv
<1> USE StreamKept, OwnedKept, NetKept, HistoryKept
    DEF streamVars, historyVars, hostVars, taskVars
<1>1. CASE PowerLoss
  BY <1>1, RestartHolds DEF PowerLoss, IInv
<1>2. CASE LinkChange
  <2>1. NetOK'
    BY <1>2 DEF LinkChange, NetOK
  <2>2. LoopInv'
    BY <1>2 DEF LinkChange, LoopInv, LoopOK, Quiet
  <2> QED
    BY <1>2, <2>1, <2>2 DEF LinkChange
<1>3. CASE AddressChange
  <2>1. NetOK'
    BY <1>3 DEF AddressChange, NetOK
  <2>2. LoopInv'
    BY <1>3 DEF AddressChange, LoopInv, LoopOK, Quiet
  <2> QED
    BY <1>3, <2>1, <2>2 DEF AddressChange
<1>4. CASE Knock
  <2>1. LoopInv'
    BY <1>4 DEF Knock, LoopInv, LoopOK, Quiet
  <2> QED
    BY <1>4, <2>1 DEF Knock
<1>5. CASE Leave
  <2>1. wire' \in Seq(Piece) /\ AllFrom(wire', last)
    <3>1. PICK n \in 0..Len(wire) : wire' = SubSeq(wire, 1, n)
      BY <1>5 DEF Leave
    <3>2. wire \in Seq(Piece) /\ AllFrom(wire, last) /\ 1 \in 1..(Len(wire) + 1)
      BY DEF StreamInv, StreamOK, Latest
    <3> QED
      BY <3>1, <3>2, SubSeqPieces
  <2>2. StreamInv'
    BY <1>5, <2>1 DEF Leave, StreamInv, StreamOK, Latest, AllFrom
  <2>3. LoopInv'
    BY <1>5 DEF Leave, LoopInv, LoopOK, Quiet
  <2> QED
    BY <1>5, <2>2, <2>3 DEF Leave
<1>6. CASE SendNoise
  <2>1. wire \in Seq(Piece) /\ AllFrom(wire, last) /\ Noise \in Piece
    BY DEF StreamInv, StreamOK, Latest, Piece
  <2>2. wire' = Append(wire, Noise)
    BY <1>6 DEF SendNoise
  <2>3. wire' \in Seq(Piece) /\ AllFrom(wire', last)
    BY <2>1, <2>2, AppendProperties DEF AllFrom
  <2>4. StreamInv'
    BY <1>6, <2>3 DEF SendNoise, StreamInv, StreamOK, Latest, AllFrom
  <2>5. LoopInv'
    BY <1>6 DEF SendNoise, LoopInv, LoopOK, Quiet
  <2> QED
    BY <1>6, <2>4, <2>5 DEF SendNoise
<1>7. ASSUME NEW c \in Command, Send(c)
      PROVE  LoopInv' /\ StreamInv' /\ OwnedInv' /\ NetOK' /\ HistoryOK'
  <2> DEFINE f == [session |-> client, nr |-> Len(requests) + 1, cmd |-> c]
  <2>1. client = last /\ last \in Session
    BY <1>7 DEF Send, LoopInv, LoopOK, Quiet
  <2>2. f \in Frame /\ f.session = last
    BY <1>7, <2>1, MaxRequestsAssumption DEF Send, Frame, HistoryOK
  <2>3. wire' = wire \o Pieces(<<f>>) /\ requests' = Append(requests, f)
    BY <1>7 DEF Send
  <2>4. wire' \in Seq(Piece) /\ AllFrom(wire', last)
    BY <2>2, <2>3, SentPieces, ConcatPieces DEF StreamInv, StreamOK, Latest
  <2>5. StreamInv'
    BY <1>7, <2>4 DEF Send, StreamInv, StreamOK, Latest, AllFrom
  <2>6. HistoryOK'
    BY <1>7, <2>2, <2>3 DEF Send, HistoryOK
  <2>7. LoopInv'
    BY <1>7 DEF Send, LoopInv, LoopOK, Quiet
  <2> QED
    BY <1>7, <2>5, <2>6, <2>7 DEF Send
<1> QED
  BY <1>1, <1>2, <1>3, <1>4, <1>5, <1>6, <1>7 DEF WorldStep

(* Whatever was enabled was enabled by the latest session (the type        *)
(* invariant says besides that the reassembly buffer never overflows).     *)
THEOREM SessionCorrect == Spec => [](TypeOK /\ OwnedByLatest)
<1>1. IInv /\ UNCHANGED vars => IInv'
  BY StreamKept, OwnedKept, NetKept, HistoryKept
  DEF vars, taskVars, hostVars, IInv, LoopInv, LoopOK, Quiet, streamVars,
      historyVars
<1>2. IInv /\ [Next]_vars => IInv'
  BY <1>1, CommStepHolds, WorldStepHolds DEF Next
<1>3. IInv => TypeOK /\ OwnedByLatest
  BY DEF IInv, LoopInv, StreamInv, OwnedInv, TypeOK
<1> QED
  BY InitHolds, <1>2, <1>3, PTL DEF Spec

(* The reassembly buffer never overflows, the scanner stays in its batch,  *)
(* and the client is the latest session or nobody.                         *)
THEOREM TypeCorrect == Spec => []TypeOK
<1>1. TypeOK /\ OwnedByLatest => TypeOK
  OBVIOUS
<1> QED
  BY <1>1, SessionCorrect, PTL
-----------------------------------------------------------------------------
(* Induction over the natural numbers, by sets *)
LEMMA SetInduction ==
  ASSUME NEW P \in SUBSET Nat, 0 \in P, \A n \in P : n + 1 \in P
  PROVE  P = Nat
<1> DEFINE T == Nat \ P
           R == OpToRel(<, Nat)
<1>1. SUFFICES ASSUME T # {} PROVE FALSE
  OBVIOUS
<1>2. IsWellFoundedOn(R, Nat)
  BY NatLessThanWellFounded
<1>3. R = {p \in Nat \X Nat : p[1] < p[2]}
  BY DEF OpToRel
<1> HIDE DEF R
<1>4. PICK x \in T : \A y \in T : ~(<<y, x>> \in R)
  <2>1. T \subseteq Nat
    OBVIOUS
  <2> QED
    BY <1>1, <1>2, <2>1, WFMin
<1>5. x \in Nat /\ x # 0
  BY <1>4
<1>6. x - 1 \in Nat /\ (x - 1) + 1 = x
  BY <1>5
<1>7. <<x - 1, x>> \in R
  BY <1>3, <1>5, <1>6
<1>8. x - 1 \notin T
  BY <1>4, <1>7
<1> QED
  BY <1>4, <1>6, <1>8

(* The frames of a sequence of pieces: the recursion has a solution, yields*)
(* pieces, and takes two sequences together one after the other.           *)
Selects(s, f) == \A i \in 0..Len(s) : f[i] = FramesUpTo(s, i, f)

LEMMA SelectExists ==
  ASSUME NEW s \in Seq(Piece)
  PROVE  \E f : f = [i \in 0..Len(s) |-> FramesUpTo(s, i, f)]
<1> DEFINE Part(k) == \E f : f = [i \in 0..k |-> FramesUpTo(s, i, f)]
           P == {k \in Nat : Part(k)}
<1>1. 0 \in P
  <2> DEFINE f == [i \in 0..0 |-> <<>>]
  <2>1. \A i \in 0..0 : f[i] = FramesUpTo(s, i, f)
    BY DEF FramesUpTo
  <2>2. f = [i \in 0..0 |-> f[i]]
    OBVIOUS
  <2>3. f = [i \in 0..0 |-> FramesUpTo(s, i, f)]
    BY <2>1, <2>2
  <2> HIDE DEF f
  <2> QED
    BY <2>3
<1>2. ASSUME NEW k \in P PROVE k + 1 \in P
  <2>1. PICK g : g = [i \in 0..k |-> FramesUpTo(s, i, g)]
    OBVIOUS
  <2> DEFINE f == [i \in 0..(k + 1) |-> IF i = k + 1 THEN FramesUpTo(s, i, g) ELSE g[i]]
  <2>2. \A i \in 0..k : f[i] = g[i]
    OBVIOUS
  <2>3. ASSUME NEW i \in 0..(k + 1) PROVE f[i] = FramesUpTo(s, i, f)
    <3>1. i # 0 => i - 1 \in 0..k
      OBVIOUS
    <3>2. FramesUpTo(s, i, f) = FramesUpTo(s, i, g)
      <4>1. i # 0 => f[i - 1] = g[i - 1]
        BY <2>2, <3>1
      <4> HIDE DEF f
      <4> QED
        BY <4>1 DEF FramesUpTo
    <3>3. CASE i = k + 1
      BY <3>2, <3>3
    <3>4. CASE i # k + 1
      <4>1. i \in 0..k
        BY <3>4
      <4>2. g[i] = FramesUpTo(s, i, g)
        BY <2>1, <4>1
      <4> QED
        BY <3>2, <3>4, <4>2
    <3> QED
      BY <3>3, <3>4
  <2>4. f = [i \in 0..(k + 1) |-> f[i]]
    OBVIOUS
  <2>5. f = [i \in 0..(k + 1) |-> FramesUpTo(s, i, f)]
    BY <2>3, <2>4
  <2> HIDE DEF f
  <2>6. Part(k + 1)
    BY <2>5
  <2> QED
    BY <2>6
<1>3. P = Nat
  <2> HIDE DEF P
  <2>1. P \in SUBSET Nat
    BY DEF P
  <2> QED
    BY <1>1, <1>2, <2>1, SetInduction
<1>4. Len(s) \in P
  BY <1>3, LenProperties
<1> QED
  BY <1>4

LEMMA FramesAre ==
  ASSUME NEW s \in Seq(Piece)
  PROVE  \E f : Selects(s, f) /\ Frames(s) = f[Len(s)]
<1> DEFINE f == CHOOSE upTo : upTo = [i \in 0..Len(s) |-> FramesUpTo(s, i, upTo)]
<1>1. f = [i \in 0..Len(s) |-> FramesUpTo(s, i, f)]
  BY SelectExists
<1>2. Frames(s) = f[Len(s)]
  BY DEF Frames
<1> HIDE DEF f
<1>3. \A i \in 0..Len(s) : f[i] = FramesUpTo(s, i, f)
  BY <1>1
<1> QED
  BY <1>2, <1>3 DEF Selects

LEMMA SelectType ==
  ASSUME NEW s \in Seq(Piece), NEW f, Selects(s, f)
  PROVE  \A i \in 0..Len(s) : f[i] \in Seq(Piece)
<1> DEFINE P == {i \in Nat : i <= Len(s) => f[i] \in Seq(Piece)}
<1>0. Len(s) \in Nat
  BY LenProperties
<1>1. 0 \in P
  <2>1. 0 \in 0..Len(s)
    BY <1>0
  <2>2. f[0] = <<>>
    BY <2>1 DEF Selects, FramesUpTo
  <2>3. f[0] \in Seq(Piece)
    BY <2>2, EmptyPieces
  <2> QED
    BY <2>3
<1>2. ASSUME NEW i \in P PROVE i + 1 \in P
  <2> SUFFICES ASSUME i + 1 <= Len(s) PROVE f[i + 1] \in Seq(Piece)
    OBVIOUS
  <2>1. /\ i \in Nat /\ i + 1 \in 0..Len(s) /\ i + 1 # 0 /\ (i + 1) - 1 = i
        /\ f[i] \in Seq(Piece)
    BY <1>0
  <2>2. f[i + 1] = IF s[i + 1] = Noise THEN f[i] ELSE Append(f[i], s[i + 1])
    BY <2>1 DEF Selects, FramesUpTo
  <2>3. s[i + 1] \in Piece
    <3>1. i + 1 \in 1..Len(s)
      BY <2>1
    <3> QED
      BY <3>1, ElementOfSeq
  <2> QED
    BY <2>1, <2>2, <2>3, AppendProperties
<1>3. P = Nat
  <2> HIDE DEF P
  <2>1. P \in SUBSET Nat
    BY DEF P
  <2> QED
    BY <1>1, <1>2, <2>1, SetInduction
<1>4. ASSUME NEW i \in 0..Len(s) PROVE f[i] \in Seq(Piece)
  <2>1. i \in P
    BY <1>3
  <2> QED
    BY <2>1
<1> QED
  BY <1>4

LEMMA JoinedItems ==
  ASSUME NEW s \in Seq(Piece), NEW t \in Seq(Piece)
  PROVE  /\ s \o t \in Seq(Piece) /\ Len(s \o t) = Len(s) + Len(t)
         /\ Len(s) \in Nat /\ Len(t) \in Nat
         /\ \A i \in 1..Len(s) : (s \o t)[i] = s[i]
         /\ \A i \in 1..Len(t) : (s \o t)[Len(s) + i] = t[i]
<1>1. Len(s) \in Nat /\ Len(t) \in Nat
  BY LenProperties
<1>2. /\ s \o t \in Seq(Piece) /\ Len(s \o t) = Len(s) + Len(t)
      /\ \A i \in 1..(Len(s) + Len(t)) :
           (s \o t)[i] = IF i <= Len(s) THEN s[i] ELSE t[i - Len(s)]
  BY ConcatProperties
<1>3. ASSUME NEW i \in 1..Len(s) PROVE (s \o t)[i] = s[i]
  BY <1>1, <1>2
<1>4. ASSUME NEW i \in 1..Len(t) PROVE (s \o t)[Len(s) + i] = t[i]
  <2>1. /\ Len(s) + i \in 1..(Len(s) + Len(t)) /\ ~(Len(s) + i <= Len(s))
        /\ (Len(s) + i) - Len(s) = i
    BY <1>1
  <2> QED
    BY <1>2, <2>1
<1> QED
  BY <1>1, <1>2, <1>3, <1>4

LEMMA AppendJoined ==
  ASSUME NEW a \in Seq(Piece), NEW b \in Seq(Piece), NEW p \in Piece
  PROVE  Append(a \o b, p) = a \o Append(b, p)
<1>1. a \o b \in Seq(Piece)
  BY ConcatProperties
<1> DEFINE q == <<p>>
<1>2. q \in Seq(Piece)
  OBVIOUS
<1>3. Append(a \o b, p) = (a \o b) \o q /\ Append(b, p) = b \o q
  BY <1>1, AppendIsConcat
<1> HIDE DEF q
<1>4. (a \o b) \o q = a \o (b \o q)
  BY <1>2, ConcatAssociative, SMTT(60)
<1> QED
  BY <1>3, <1>4

LEMMA SelectFirst ==
  ASSUME NEW s \in Seq(Piece), NEW t \in Seq(Piece), NEW f, NEW h,
         Selects(s, f), Selects(s \o t, h)
  PROVE  h[Len(s)] = f[Len(s)]
<1> DEFINE P == {i \in Nat : i <= Len(s) => h[i] = f[i]}
           u == s \o t
<1>0. /\ Len(s) \in Nat /\ Len(t) \in Nat /\ Len(u) = Len(s) + Len(t)
      /\ \A i \in 1..Len(s) : u[i] = s[i]
  BY JoinedItems
<1> HIDE DEF u
<1>1. 0 \in P
  <2>1. 0 \in 0..Len(s) /\ 0 \in 0..Len(u)
    BY <1>0
  <2> QED
    BY <2>1 DEF Selects, FramesUpTo, u
<1>2. ASSUME NEW i \in P PROVE i + 1 \in P
  <2> SUFFICES ASSUME i + 1 <= Len(s) PROVE h[i + 1] = f[i + 1]
    OBVIOUS
  <2>1. /\ i \in Nat /\ i + 1 \in 0..Len(s) /\ i + 1 \in 0..Len(u) /\ i + 1 # 0
        /\ (i + 1) - 1 = i /\ h[i] = f[i]
    BY <1>0
  <2>2. u[i + 1] = s[i + 1]
    BY <1>0, <2>1
  <2>3. f[i + 1] = IF s[i + 1] = Noise THEN f[i] ELSE Append(f[i], s[i + 1])
    BY <2>1 DEF Selects, FramesUpTo
  <2>4. h[i + 1] = IF u[i + 1] = Noise THEN h[i] ELSE Append(h[i], u[i + 1])
    BY <2>1 DEF Selects, FramesUpTo, u
  <2> QED
    BY <2>1, <2>2, <2>3, <2>4
<1>3. P = Nat
  <2> HIDE DEF P
  <2>1. P \in SUBSET Nat
    BY DEF P
  <2> QED
    BY <1>1, <1>2, <2>1, SetInduction
<1>4. Len(s) \in P
  BY <1>0, <1>3
<1> QED
  BY <1>0, <1>4

Joins(s, t, f, g, h) == h[Len(s \o t)] = f[Len(s)] \o g[Len(t)]

LEMMA SelectSecond ==
  ASSUME NEW s \in Seq(Piece), NEW t \in Seq(Piece), NEW f, NEW g, NEW h,
         Selects(s, f), Selects(t, g), Selects(s \o t, h)
  PROVE  Joins(s, t, f, g, h)
<1> DEFINE n == Len(s)
           u == s \o t
           a == f[n]
           P == {i \in Nat : i <= Len(t) => h[n + i] = a \o g[i]}
<1>0. /\ n \in Nat /\ Len(t) \in Nat /\ Len(u) = n + Len(t)
      /\ \A i \in 1..Len(t) : u[n + i] = t[i]
  BY JoinedItems
<1>1. a \in Seq(Piece) /\ \A i \in 0..Len(t) : g[i] \in Seq(Piece)
  BY <1>0, SelectType
<1>2. h[n] = a
  BY SelectFirst
<1> HIDE DEF u, n, a
<1>3. 0 \in P
  <2>1. 0 \in 0..Len(t) /\ n + 0 = n
    BY <1>0
  <2>2. g[0] = <<>>
    BY <2>1 DEF Selects, FramesUpTo
  <2>3. a \o g[0] = a
    BY <1>1, <2>2, ConcatEmptySeq
  <2>4. h[n + 0] = a \o g[0]
    BY <1>2, <2>1, <2>3
  <2> QED
    BY <2>4
<1>4. ASSUME NEW i \in P PROVE i + 1 \in P
  <2> SUFFICES ASSUME i + 1 <= Len(t) PROVE h[n + (i + 1)] = a \o g[i + 1]
    OBVIOUS
  <2> DEFINE j == n + (i + 1)
  <2>1. /\ i \in Nat /\ i \in 0..Len(t) /\ i + 1 \in 0..Len(t) /\ i + 1 # 0
        /\ i + 1 \in 1..Len(t) /\ (i + 1) - 1 = i
        /\ j \in 0..Len(u) /\ j # 0 /\ j - 1 = n + i
    BY <1>0
  <2>2. h[n + i] = a \o g[i] /\ u[j] = t[i + 1]
    BY <1>0, <2>1
  <2> HIDE DEF j
  <2>3. g[i + 1] = IF t[i + 1] = Noise THEN g[i] ELSE Append(g[i], t[i + 1])
    BY <2>1 DEF Selects, FramesUpTo
  <2>4. h[j] = IF u[j] = Noise THEN h[n + i] ELSE Append(h[n + i], u[j])
    BY <2>1 DEF Selects, FramesUpTo, u
  <2>5. t[i + 1] \in Piece
    BY <2>1, ElementOfSeq
  <2>6. g[i] \in Seq(Piece)
    BY <1>1, <2>1
  <2>7. Append(a \o g[i], t[i + 1]) = a \o Append(g[i], t[i + 1])
    BY <1>1, <2>5, <2>6, AppendJoined
  <2>8. h[j] = a \o g[i + 1]
    BY <2>2, <2>3, <2>4, <2>7
  <2> QED
    BY <2>8 DEF j
<1>5. P = Nat
  <2> HIDE DEF P
  <2>1. P \in SUBSET Nat
    BY DEF P
  <2> QED
    BY <1>3, <1>4, <2>1, SetInduction
<1>6. Len(t) \in P
  BY <1>0, <1>5
<1>7. h[n + Len(t)] = a \o g[Len(t)]
  <2>1. Len(t) <= Len(t)
    BY <1>0
  <2> QED
    BY <1>6, <2>1
<1>8. Len(s \o t) = n + Len(t)
  BY <1>0 DEF u
<1> QED
  BY <1>7, <1>8 DEF n, a, Joins

LEMMA FramesConcat ==
  ASSUME NEW s \in Seq(Piece), NEW t \in Seq(Piece)
  PROVE  /\ Frames(s \o t) = Frames(s) \o Frames(t)
         /\ Frames(s) \in Seq(Piece)
<1>1. PICK f : Selects(s, f) /\ Frames(s) = f[Len(s)]
  BY FramesAre
<1>2. PICK g : Selects(t, g) /\ Frames(t) = g[Len(t)]
  BY FramesAre
<1>3. s \o t \in Seq(Piece) /\ Len(s \o t) = Len(s) + Len(t) /\ Len(s) \in 0..Len(s)
  BY JoinedItems
<1>4. PICK h : Selects(s \o t, h) /\ Frames(s \o t) = h[Len(s \o t)]
  BY <1>3, FramesAre
<1>5. f[Len(s)] \in Seq(Piece)
  BY <1>1, <1>3, SelectType
<1>6. Joins(s, t, f, g, h)
  BY <1>1, <1>2, <1>4, SelectSecond
<1>7. h[Len(s \o t)] = f[Len(s)] \o g[Len(t)]
  BY <1>6 DEF Joins
<1> QED
  BY <1>1, <1>2, <1>4, <1>5, <1>7

LEMMA FramesType ==
  ASSUME NEW s \in Seq(Piece)
  PROVE  Frames(s) \in Seq(Piece)
BY FramesConcat

LEMMA FramesEmpty == Frames(<<>>) = <<>>
<1>1. PICK f : Selects(<<>>, f) /\ Frames(<<>>) = f[Len(<<>>)]
  BY FramesAre, EmptyPieces
<1>2. Len(<<>>) = 0 /\ 0 \in 0..0
  OBVIOUS
<1> QED
  BY <1>1, <1>2 DEF Selects, FramesUpTo

LEMMA FramesOne ==
  ASSUME NEW p \in Piece
  PROVE  Frames(<<p>>) = IF p = Noise THEN <<>> ELSE <<p>>
<1> DEFINE s == <<p>>
<1>1. s \in Seq(Piece) /\ Len(s) = 1 /\ s[1] = p
  OBVIOUS
<1> HIDE DEF s
<1>2. PICK f : Selects(s, f) /\ Frames(s) = f[Len(s)]
  BY <1>1, FramesAre
<1>3. 0 \in 0..Len(s) /\ 1 \in 0..Len(s) /\ 1 # 0 /\ 1 - 1 = 0
  BY <1>1
<1>4. f[0] = <<>>
  BY <1>2, <1>3 DEF Selects, FramesUpTo
<1>5. f[1] = IF s[1] = Noise THEN f[0] ELSE Append(f[0], s[1])
  BY <1>2, <1>3 DEF Selects, FramesUpTo
<1>6. Append(<<>>, p) = <<p>>
  OBVIOUS
<1> QED
  BY <1>1, <1>2, <1>4, <1>5, <1>6 DEF s
-----------------------------------------------------------------------------
(* The pieces of frames, and what precedes the rest of a stream *)
LEMMA PieceOfFrames ==
  ASSUME NEW a \in Seq(Frame)
  PROVE  /\ Pieces(a) \in Seq(Piece) /\ Len(Pieces(a)) = 2 * Len(a)
         /\ \A i \in 1..(2 * Len(a)) :
              /\ (i + 1) \div 2 \in 1..Len(a)
              /\ Pieces(a)[i] = [frame |-> a[(i + 1) \div 2], half |-> 2 - (i % 2)]
<1>1. Len(a) \in Nat
  BY LenProperties
<1>2. \A i \in 1..(2 * Len(a)) : (i + 1) \div 2 \in 1..Len(a)
  BY <1>1
<1>3. \A i \in 1..(2 * Len(a)) : 2 - (i % 2) \in {1, 2}
  BY <1>1
<1>4. \A i \in 1..(2 * Len(a)) :
        Pieces(a)[i] = [frame |-> a[(i + 1) \div 2], half |-> 2 - (i % 2)]
  BY DEF Pieces
<1>5. ASSUME NEW i \in 1..(2 * Len(a)) PROVE Pieces(a)[i] \in Piece
  <2> DEFINE k == (i + 1) \div 2
             h == 2 - (i % 2)
  <2>1. k \in 1..Len(a) /\ h \in {1, 2}
    BY <1>2, <1>3
  <2>2. Pieces(a)[i] = [frame |-> a[k], half |-> h]
    BY <1>4
  <2> HIDE DEF k, h
  <2>3. a[k] \in Frame
    BY <2>1, ElementOfSeq
  <2> QED
    BY <2>1, <2>2, <2>3 DEF Piece
<1>6. Pieces(a) \in [1..(2 * Len(a)) -> Piece]
  BY <1>5 DEF Pieces
<1>7. 2 * Len(a) \in Nat
  BY <1>1
<1> HIDE DEF Pieces
<1>8. Pieces(a) \in Seq(Piece) /\ Len(Pieces(a)) = 2 * Len(a)
  <2> DEFINE n == 2 * Len(a)
  <2> HIDE DEF n
  <2>1. Pieces(a) \in [1..n -> Piece] /\ n \in Nat
    BY <1>6, <1>7 DEF n
  <2>2. Pieces(a) \in Seq(Piece) /\ Len(Pieces(a)) = n
    BY <2>1
  <2> QED
    BY <2>2 DEF n
<1> QED
  BY <1>2, <1>4, <1>8

LEMMA PairOf ==
  ASSUME NEW f \in Frame
  PROVE  Pieces(<<f>>) = <<[frame |-> f, half |-> 1], [frame |-> f, half |-> 2]>>
<1>1. Pieces(<<f>>) = [i \in 1..2 |-> [frame |-> f, half |-> 2 - (i % 2)]]
  BY DEF Pieces
<1>2. 2 - (1 % 2) = 1 /\ 2 - (2 % 2) = 2
  OBVIOUS
<1> QED
  BY <1>1, <1>2

LEMMA PiecesAppend ==
  ASSUME NEW a \in Seq(Frame), NEW r \in Frame
  PROVE  Pieces(Append(a, r)) = Pieces(a) \o Pieces(<<r>>)
<1> DEFINE n == Len(a)
           b == Append(a, r)
           c == <<r>>
<1>1. /\ n \in Nat /\ b \in Seq(Frame) /\ Len(b) = n + 1
      /\ \A j \in 1..n : b[j] = a[j]
      /\ b[n + 1] = r
  BY LenProperties, AppendProperties
<1>2. c \in Seq(Frame) /\ Len(c) = 1 /\ c[1] = r
  OBVIOUS
<1> HIDE DEF n, b, c
<1>3. /\ Pieces(a) \in Seq(Piece) /\ Len(Pieces(a)) = 2 * n
      /\ \A i \in 1..(2 * n) :
           /\ (i + 1) \div 2 \in 1..n
           /\ Pieces(a)[i] = [frame |-> a[(i + 1) \div 2], half |-> 2 - (i % 2)]
  BY PieceOfFrames DEF n
<1>4. /\ Pieces(b) \in Seq(Piece) /\ Len(Pieces(b)) = 2 * (n + 1)
      /\ \A i \in 1..(2 * (n + 1)) :
           Pieces(b)[i] = [frame |-> b[(i + 1) \div 2], half |-> 2 - (i % 2)]
  BY <1>1, PieceOfFrames
<1>5. /\ Pieces(c) \in Seq(Piece) /\ Len(Pieces(c)) = 2
      /\ Pieces(c)[1] = [frame |-> r, half |-> 1]
      /\ Pieces(c)[2] = [frame |-> r, half |-> 2]
  <2>1. Pieces(c) = <<[frame |-> r, half |-> 1], [frame |-> r, half |-> 2]>>
    BY PairOf DEF c
  <2>2. Pieces(c) \in Seq(Piece) /\ Len(Pieces(c)) = 2 * Len(c)
    BY <1>2, PieceOfFrames
  <2> QED
    BY <1>2, <2>1, <2>2
<1> DEFINE p == Pieces(a)
           q == Pieces(c)
           u == Pieces(b)
<1> HIDE DEF p, q, u
<1>6. /\ p \o q \in Seq(Piece) /\ Len(p \o q) = Len(p) + Len(q)
      /\ \A i \in 1..Len(p) : (p \o q)[i] = p[i]
      /\ \A i \in 1..Len(q) : (p \o q)[Len(p) + i] = q[i]
  BY <1>3, <1>5, JoinedItems DEF p, q
<1>7. u \in Seq(Piece) /\ Len(u) = Len(p \o q) /\ Len(u) = 2 * n + 2
  BY <1>1, <1>3, <1>4, <1>5, <1>6 DEF p, q, u
<1>8. ASSUME NEW i \in 1..Len(u) PROVE u[i] = (p \o q)[i]
  <2>1. u[i] = [frame |-> b[(i + 1) \div 2], half |-> 2 - (i % 2)]
    BY <1>1, <1>4, <1>7 DEF u
  <2>2. CASE i <= 2 * n
    <3>1. i \in 1..(2 * n)
      BY <1>1, <1>7, <2>2
    <3>2. b[(i + 1) \div 2] = a[(i + 1) \div 2]
      BY <1>1, <1>3, <3>1
    <3>3. (p \o q)[i] = p[i]
      BY <1>3, <1>6, <3>1 DEF p
    <3> QED
      BY <1>3, <2>1, <3>1, <3>2, <3>3 DEF p
  <2>3. CASE i = 2 * n + 1
    <3>1. (i + 1) \div 2 = n + 1 /\ 2 - (i % 2) = 1
      BY <1>1, <2>3
    <3>2. (p \o q)[2 * n + 1] = q[1]
      BY <1>3, <1>5, <1>6 DEF p, q
    <3> QED
      BY <1>1, <1>5, <2>1, <2>3, <3>1, <3>2 DEF q
  <2>4. CASE i = 2 * n + 2
    <3>1. (i + 1) \div 2 = n + 1 /\ 2 - (i % 2) = 2
      BY <1>1, <2>4
    <3>2. (p \o q)[2 * n + 2] = q[2]
      BY <1>3, <1>5, <1>6 DEF p, q
    <3> QED
      BY <1>1, <1>5, <2>1, <2>4, <3>1, <3>2 DEF q
  <2>5. i <= 2 * n \/ i = 2 * n + 1 \/ i = 2 * n + 2
    <3>1. n \in Nat /\ i \in 1..(2 * n + 2)
      BY <1>1, <1>7
    <3> QED
      BY <3>1
  <2> QED
    BY <2>2, <2>3, <2>4, <2>5
<1>9. u = p \o q
  BY <1>6, <1>7, <1>8, SeqEqual
<1> QED
  BY <1>9 DEF u, p, q, b, c

LEMMA TwoPieces ==
  ASSUME NEW p \in Piece, NEW q \in Piece
  PROVE  <<p>> \o <<q>> = <<p, q>>
<1> DEFINE s == <<p>>
           t == <<q>>
           u == s \o t
<1>1. /\ s \in Seq(Piece) /\ Len(s) = 1 /\ s[1] = p
      /\ t \in Seq(Piece) /\ Len(t) = 1 /\ t[1] = q
  OBVIOUS
<1> HIDE DEF s, t
<1>2. /\ u \in Seq(Piece) /\ Len(u) = Len(s) + Len(t)
      /\ \A i \in 1..Len(s) : u[i] = s[i]
      /\ \A i \in 1..Len(t) : u[Len(s) + i] = t[i]
  BY <1>1, JoinedItems
<1> HIDE DEF u
<1>3. u \in Seq(Piece) /\ Len(u) = 2 /\ u[1] = p /\ u[2] = q
  BY <1>1, <1>2
<1>4. u = <<p, q>>
  BY <1>3
<1> QED
  BY <1>4 DEF u, s, t

LEMMA FramesOfPair ==
  ASSUME NEW f \in Frame
  PROVE  Frames(Pieces(<<f>>)) = Pieces(<<f>>)
<1> DEFINE p == [frame |-> f, half |-> 1]
           q == [frame |-> f, half |-> 2]
           s == <<p>>
           t == <<q>>
<1>1. p \in Piece /\ q \in Piece /\ p # Noise /\ q # Noise
  BY DEF Piece, Noise
<1> HIDE DEF p, q
<1>2. s \in Seq(Piece) /\ t \in Seq(Piece) /\ s \o t = <<p, q>>
  <2>1. s \in Seq(Piece) /\ t \in Seq(Piece)
    BY <1>1
  <2>2. s \o t = <<p, q>>
    BY <1>1, TwoPieces
  <2> QED
    BY <2>1, <2>2
<1>3. Frames(s) = s /\ Frames(t) = t
  BY <1>1, FramesOne
<1>4. Pieces(<<f>>) = s \o t
  BY <1>2, PairOf DEF p, q
<1> HIDE DEF s, t
<1>5. Frames(s \o t) = Frames(s) \o Frames(t)
  BY <1>2, FramesConcat
<1> QED
  BY <1>3, <1>4, <1>5
-----------------------------------------------------------------------------
(* What a stream owes: the requests not answered yet are its frames, and   *)
(* the two pieces of a frame follow each other.                            *)
Unbroken(s) ==
  \A i \in 1..Len(s) :
    s[i].half = 1 =>
      i + 1 \in 1..Len(s) /\ s[i + 1] = [frame |-> s[i].frame, half |-> 2]

Accounted(s, sent, done) ==
  Pieces(sent) = Pieces(done) \o Frames(s) /\ Unbroken(s)

LEMMA UnbrokenRest ==
  ASSUME NEW p \in Piece, NEW s \in Seq(Piece), Unbroken(<<p>> \o s)
  PROVE  /\ Unbroken(s)
         /\ p.half = 1 => Len(s) >= 1 /\ s[1] = [frame |-> p.frame, half |-> 2]
<1> DEFINE x == <<p>>
           u == x \o s
<1>1. x \in Seq(Piece) /\ Len(x) = 1 /\ x[1] = p
  OBVIOUS
<1> HIDE DEF x
<1>2. /\ Len(u) = Len(x) + Len(s) /\ Len(s) \in Nat
      /\ \A i \in 1..Len(x) : u[i] = x[i]
      /\ \A i \in 1..Len(s) : u[Len(x) + i] = s[i]
  BY <1>1, JoinedItems
<1>3. Unbroken(u)
  BY DEF x
<1> HIDE DEF u
<1>4. Len(u) = 1 + Len(s) /\ u[1] = p /\ \A i \in 1..Len(s) : u[1 + i] = s[i]
  BY <1>1, <1>2
<1>5. ASSUME NEW i \in 1..Len(s), s[i].half = 1
      PROVE  i + 1 \in 1..Len(s) /\ s[i + 1] = [frame |-> s[i].frame, half |-> 2]
  <2> DEFINE j == 1 + i
  <2>1. j \in 1..Len(u) /\ u[j] = s[i]
    BY <1>2, <1>4
  <2>2. j + 1 \in 1..Len(u) /\ u[j + 1] = [frame |-> u[j].frame, half |-> 2]
    BY <1>3, <1>5, <2>1 DEF Unbroken
  <2>3. i + 1 \in 1..Len(s) /\ j + 1 = 1 + (i + 1)
    BY <1>2, <1>4, <2>2
  <2>4. u[1 + (i + 1)] = s[i + 1]
    BY <1>4, <2>3
  <2> QED
    BY <2>1, <2>2, <2>3, <2>4
<1>6. ASSUME p.half = 1
      PROVE  Len(s) >= 1 /\ s[1] = [frame |-> p.frame, half |-> 2]
  <2>1. 1 \in 1..Len(u)
    BY <1>2, <1>4
  <2>2. 1 + 1 \in 1..Len(u) /\ u[1 + 1] = [frame |-> u[1].frame, half |-> 2]
    BY <1>3, <1>4, <1>6, <2>1 DEF Unbroken
  <2>3. 1 \in 1..Len(s)
    BY <1>2, <1>4, <2>2
  <2>4. u[1 + 1] = s[1]
    BY <1>4, <2>3
  <2> QED
    BY <1>4, <2>2, <2>3, <2>4
<1> QED
  BY <1>5, <1>6 DEF Unbroken

(* Noise at the head owes nothing; anything else is the first half of the  *)
(* oldest request not answered yet.                                        *)
LEMMA NoiseOwesNothing ==
  ASSUME NEW s \in Seq(Piece), NEW sent \in Seq(Frame), NEW done \in Seq(Frame),
         Accounted(<<Noise>> \o s, sent, done)
  PROVE  Accounted(s, sent, done)
<1>1. Noise \in Piece /\ <<Noise>> \in Seq(Piece)
  BY DEF Piece
<1>2. Frames(<<Noise>>) = <<>> /\ Frames(s) \in Seq(Piece)
  BY <1>1, FramesOne, FramesConcat
<1> DEFINE x == <<Noise>>
<1> HIDE DEF x
<1>3. Frames(x \o s) = Frames(x) \o Frames(s)
  BY <1>1, FramesConcat DEF x
<1>4. Frames(x \o s) = Frames(s)
  BY <1>2, <1>3, ConcatEmptySeq DEF x
<1>5. Unbroken(s)
  BY <1>1, UnbrokenRest DEF Accounted
<1> QED
  BY <1>4, <1>5 DEF Accounted, x

LEMMA HeadIsFirstHalf ==
  ASSUME NEW p \in Piece, NEW s \in Seq(Piece),
         NEW sent \in Seq(Frame), NEW done \in Seq(Frame),
         Accounted(<<p>> \o s, sent, done), p # Noise
  PROVE  p.half = 1 /\ Len(s) >= 1 /\ s[1] = [frame |-> p.frame, half |-> 2]
<1> DEFINE x == <<p>>
           a == Pieces(done)
           r == Frames(s)
           b == x \o r
           n == Len(a)
           u == Pieces(sent)
<1>1. x \in Seq(Piece) /\ Len(x) = 1 /\ x[1] = p /\ Frames(x) = x
  BY FramesOne
<1>2. Accounted(x \o s, sent, done)
  OBVIOUS
<1> HIDE DEF x
<1>3. Frames(x \o s) = Frames(x) \o r /\ r \in Seq(Piece)
  BY <1>1, FramesConcat
<1>4. u = a \o b
  BY <1>1, <1>2, <1>3 DEF Accounted
<1>5. a \in Seq(Piece) /\ n = 2 * Len(done) /\ Len(done) \in Nat
  BY PieceOfFrames, LenProperties
<1> HIDE DEF r
<1>6. /\ b \in Seq(Piece) /\ Len(b) = Len(x) + Len(r) /\ Len(r) \in Nat
      /\ \A i \in 1..Len(x) : b[i] = x[i]
  BY <1>1, <1>3, JoinedItems
<1> HIDE DEF a, b
<1>7. /\ Len(a \o b) = Len(a) + Len(b)
      /\ \A i \in 1..Len(b) : (a \o b)[Len(a) + i] = b[i]
  BY <1>5, <1>6, JoinedItems
<1>8. b[1] = p /\ 1 \in 1..Len(b)
  BY <1>1, <1>6
<1> HIDE DEF u, n
<1>9. u[n + 1] = p /\ n + 1 \in 1..Len(u)
  <2>1. n \in Nat /\ Len(b) \in Nat
    BY <1>1, <1>5, <1>6
  <2> QED
    BY <1>4, <1>7, <1>8, <2>1 DEF n
<1>10. u[n + 1].half = 1
  <2>1. /\ Len(u) = 2 * Len(sent)
        /\ \A i \in 1..(2 * Len(sent)) :
             u[i] = [frame |-> sent[(i + 1) \div 2], half |-> 2 - (i % 2)]
    BY PieceOfFrames DEF u
  <2>2. u[n + 1] = [frame |-> sent[((n + 1) + 1) \div 2], half |-> 2 - ((n + 1) % 2)]
    BY <1>9, <2>1
  <2>3. 2 - ((n + 1) % 2) = 1
    <3>1. (2 * Len(done) + 1) % 2 = 1
      BY <1>5
    <3> QED
      BY <1>5, <3>1
  <2> QED
    BY <2>2, <2>3
<1>11. Unbroken(<<p>> \o s)
  BY <1>2 DEF Accounted, x
<1> QED
  BY <1>9, <1>10, <1>11, UnbrokenRest

(* An answered request is no longer owed, and one sent is. *)
LEMMA AnsweredIsPaid ==
  ASSUME NEW f \in Frame, NEW s \in Seq(Piece),
         NEW sent \in Seq(Frame), NEW done \in Seq(Frame),
         Accounted(Pieces(<<f>>) \o s, sent, done)
  PROVE  Accounted(s, sent, Append(done, f))
<1> DEFINE x == Pieces(<<f>>)
           a == Pieces(done)
           r == Frames(s)
           p == [frame |-> f, half |-> 1]
           q == [frame |-> f, half |-> 2]
<1>1. x \in Seq(Piece) /\ Frames(x) = x /\ a \in Seq(Piece)
  <2>1. <<f>> \in Seq(Frame)
    OBVIOUS
  <2> QED
    BY <2>1, PieceOfFrames, FramesOfPair
<1>2. Accounted(x \o s, sent, done)
  OBVIOUS
<1>3. Pieces(Append(done, f)) = a \o x
  BY PiecesAppend
<1> HIDE DEF x
<1>4. Frames(x \o s) = Frames(x) \o Frames(s) /\ r \in Seq(Piece)
  BY <1>1, FramesConcat, FramesType
<1>5. Pieces(sent) = Pieces(Append(done, f)) \o r
  <2>1. Pieces(sent) = a \o (x \o r)
    BY <1>1, <1>2, <1>4 DEF Accounted
  <2>2. (a \o x) \o r = a \o (x \o r)
    BY <1>1, <1>4, ConcatAssociative, SMTT(60)
  <2> QED
    BY <1>3, <2>1, <2>2
<1>6. Unbroken(s)
  <2>1. p \in Piece /\ q \in Piece
    BY DEF Piece
  <2>2. x = <<p>> \o <<q>>
    BY <2>1, TwoPieces, PairOf DEF x
  <2> HIDE DEF p, q
  <2>3. /\ <<p>> \in Seq(Piece) /\ <<q>> \in Seq(Piece)
        /\ <<q>> \o s \in Seq(Piece)
    BY <2>1, ConcatProperties
  <2>4. x \o s = <<p>> \o (<<q>> \o s)
    BY <2>2, <2>3, ConcatAssociative, SMTT(60)
  <2>5. Unbroken(x \o s)
    BY <1>2 DEF Accounted
  <2>6. Unbroken(<<q>> \o s)
    BY <2>1, <2>3, <2>4, <2>5, UnbrokenRest
  <2> QED
    BY <2>1, <2>6, UnbrokenRest
<1> QED
  BY <1>5, <1>6 DEF Accounted

(* What is appended to an unbroken stream, unbroken itself, keeps it so. *)
LEMMA UnbrokenJoined ==
  ASSUME NEW s \in Seq(Piece), NEW t \in Seq(Piece), Unbroken(s), Unbroken(t)
  PROVE  Unbroken(s \o t)
<1> DEFINE u == s \o t
<1>1. /\ Len(u) = Len(s) + Len(t) /\ Len(s) \in Nat /\ Len(t) \in Nat
      /\ \A i \in 1..Len(s) : u[i] = s[i]
      /\ \A i \in 1..Len(t) : u[Len(s) + i] = t[i]
  BY JoinedItems
<1> HIDE DEF u
<1>2. ASSUME NEW i \in 1..Len(u), u[i].half = 1
      PROVE  i + 1 \in 1..Len(u) /\ u[i + 1] = [frame |-> u[i].frame, half |-> 2]
  <2>1. CASE i \in 1..Len(s)
    <3>1. i + 1 \in 1..Len(s) /\ s[i + 1] = [frame |-> s[i].frame, half |-> 2]
      BY <1>1, <1>2, <2>1 DEF Unbroken
    <3> QED
      BY <1>1, <2>1, <3>1
  <2>2. CASE i \notin 1..Len(s)
    <3> DEFINE j == i - Len(s)
    <3>1. j \in 1..Len(t) /\ Len(s) + j = i
      BY <1>1, <2>2
    <3> HIDE DEF j
    <3>2. u[i] = t[j]
      BY <1>1, <3>1
    <3>3. j + 1 \in 1..Len(t) /\ t[j + 1] = [frame |-> t[j].frame, half |-> 2]
      BY <1>2, <3>1, <3>2 DEF Unbroken
    <3>4. Len(s) + (j + 1) = i + 1 /\ i + 1 \in 1..Len(u)
      <4>1. j \in Nat /\ i = Len(s) + j
        BY <1>1, <3>1
      <4>2. j + 1 <= Len(t)
        BY <1>1, <3>3
      <4> QED
        BY <1>1, <4>1, <4>2
    <3>5. u[Len(s) + (j + 1)] = t[j + 1]
      BY <1>1, <3>3
    <3> QED
      BY <3>2, <3>3, <3>4, <3>5
  <2> QED
    BY <2>1, <2>2
<1> QED
  BY <1>2 DEF Unbroken, u

LEMMA SentIsOwed ==
  ASSUME NEW f \in Frame, NEW s \in Seq(Piece),
         NEW sent \in Seq(Frame), NEW done \in Seq(Frame),
         Accounted(s, sent, done)
  PROVE  Accounted(s \o Pieces(<<f>>), Append(sent, f), done)
<1> DEFINE x == Pieces(<<f>>)
           a == Pieces(done)
           r == Frames(s)
<1>1. x \in Seq(Piece) /\ Frames(x) = x /\ a \in Seq(Piece)
  <2>1. <<f>> \in Seq(Frame)
    OBVIOUS
  <2> QED
    BY <2>1, PieceOfFrames, FramesOfPair
<1>2. Unbroken(x)
  <2>1. /\ Len(x) = 2 /\ x[1] = [frame |-> f, half |-> 1]
        /\ x[2] = [frame |-> f, half |-> 2]
    BY PairOf
  <2> HIDE DEF x
  <2>2. ASSUME NEW i \in 1..Len(x), x[i].half = 1
        PROVE  i + 1 \in 1..Len(x) /\ x[i + 1] = [frame |-> x[i].frame, half |-> 2]
    <3>1. i = 1 \/ i = 2
      BY <2>1
    <3>2. i = 1
      BY <2>1, <2>2, <3>1
    <3> QED
      BY <2>1, <3>2
  <2> QED
    BY <2>2 DEF Unbroken
<1> HIDE DEF x
<1>3. Frames(s \o x) = r \o x /\ r \in Seq(Piece)
  BY <1>1, FramesConcat
<1>4. Pieces(Append(sent, f)) = (a \o r) \o x
  BY PiecesAppend DEF Accounted, x
<1> HIDE DEF a, r
<1>5. (a \o r) \o x = a \o (r \o x)
  BY <1>1, <1>3, ConcatAssociative, SMTT(60)
<1>6. Pieces(Append(sent, f)) = a \o Frames(s \o x)
  BY <1>3, <1>4, <1>5
<1>7. Unbroken(s \o x)
  BY <1>1, <1>2, UnbrokenJoined DEF Accounted
<1> QED
  BY <1>6, <1>7 DEF Accounted, a, x

LEMMA NoiseIsNotOwed ==
  ASSUME NEW s \in Seq(Piece), NEW sent \in Seq(Frame), NEW done \in Seq(Frame),
         Accounted(s, sent, done)
  PROVE  Accounted(s \o <<Noise>>, sent, done)
<1>1. Noise \in Piece /\ <<Noise>> \in Seq(Piece) /\ Unbroken(<<Noise>>)
  BY DEF Piece, Noise, Unbroken
<1> DEFINE x == <<Noise>>
<1>2. Frames(x) = <<>>
  BY <1>1, FramesOne
<1> HIDE DEF x
<1>3. Frames(s \o x) = Frames(s) \o Frames(x) /\ Frames(s) \in Seq(Piece)
  BY <1>1, FramesConcat DEF x
<1>4. Frames(s \o x) = Frames(s)
  BY <1>2, <1>3, ConcatEmptySeq
<1>5. Unbroken(s \o x)
  BY <1>1, UnbrokenJoined DEF Accounted, x
<1> QED
  BY <1>4, <1>5 DEF Accounted, x

LEMMA NothingOwed == Accounted(<<>>, <<>>, <<>>)
<1>1. <<>> \in Seq(Frame) /\ Len(<<>>) = 0
  OBVIOUS
<1>2. Pieces(<<>>) \in Seq(Piece) /\ Len(Pieces(<<>>)) = 0
  <2>1. Pieces(<<>>) \in Seq(Piece) /\ Len(Pieces(<<>>)) = 2 * Len(<<>>)
    BY <1>1, PieceOfFrames
  <2> QED
    BY <1>1, <2>1
<1>3. Pieces(<<>>) = <<>>
  BY <1>2
<1>4. Unbroken(<<>>)
  BY DEF Unbroken
<1> QED
  BY <1>3, <1>4, FramesEmpty, EmptyPieces, ConcatEmptySeq DEF Accounted
-----------------------------------------------------------------------------
(* Between two calls of the scanner less than a frame is kept, so that the *)
(* next read has room; and after the client was dropped from inside a call *)
(* the buffer stays empty.  What is kept and what the wire holds account   *)
(* for every request of a connection that lasts.                           *)
RxShort ==
  /\ pc # "input" => Len(rx) <= 1
  /\ pc = "input" /\ client = 0 => rx = <<>>

Owing(s) == Accounted(s, requests, answered)

FlowInv == RxShort /\ (alive => Owing(Buffered \o wire))

LEMMA BufferedType ==
  ASSUME IInv
  PROVE  Buffered \in Seq(Piece) /\ wire \in Seq(Piece)
<1>1. /\ batch \in Seq(Piece) /\ rx \in Seq(Piece) /\ wire \in Seq(Piece)
      /\ off \in 0..Len(batch) /\ Len(batch) \in Nat
  BY LenProperties DEF IInv, StreamInv, StreamOK
<1>2. off + 1 \in 1..(Len(batch) + 1) /\ Len(batch) \in 0..Len(batch)
  BY <1>1
<1>3. SubSeq(batch, off + 1, Len(batch)) \in Seq(Piece)
  BY <1>1, <1>2, SubSeqPieces
<1> QED
  BY <1>1, <1>3 DEF Buffered

(* Without a connection that lasts there is nothing to account for. *)
LEMMA DroppedFlow ==
  ASSUME alive' = FALSE, rx' = <<>>
  PROVE  FlowInv'
BY DEF FlowInv, RxShort

LEMMA ReceiveFlow == IInv /\ FlowInv /\ Receive => FlowInv'
<1> SUFFICES ASSUME IInv, FlowInv, Receive PROVE FlowInv'
  OBVIOUS
<1> DEFINE k == Len(wire)
<1>1. /\ rx \in Seq(Piece) /\ wire \in Seq(Piece) /\ k \in Nat
      /\ pc = "client" /\ client # 0 /\ Len(rx) # RxPieces
  BY LenProperties, RxPiecesAssumption
  DEF IInv, StreamInv, StreamOK, FlowInv, RxShort, Receive
<1>2. PICK n \in 1..(RxPieces - Len(rx)) :
        /\ n <= k
        /\ batch' = rx \o SubSeq(wire, 1, n)
        /\ wire' = SubSeq(wire, n + 1, k)
  BY <1>1 DEF Receive
<1>3. /\ pc' = "input" /\ client' = client /\ off' = 0 /\ alive' = alive
      /\ requests' = requests /\ answered' = answered
  BY DEF Receive
<1>4. n \in 0..k /\ n \in 1 - 1..k /\ 1 \in 1..(k + 1) /\ n + 1 \in 1..(k + 1) /\ k \in n..k
  BY <1>1, <1>2
<1> DEFINE a == SubSeq(wire, 1, n)
           b == SubSeq(wire, n + 1, k)
<1>5. a \in Seq(Piece) /\ b \in Seq(Piece)
  <2>1. k \in 0..k
    BY <1>1
  <2> QED
    BY <1>1, <1>4, <2>1, SubSeqPieces
<1>6. a \o b = wire
  <2>1. a \o b = SubSeq(wire, 1, k)
    BY <1>1, <1>4, ConcatAdjacentSubSeq
  <2> QED
    BY <1>1, <2>1, SubSeqFull
<1> HIDE DEF a, b
<1>7. batch' = rx \o a /\ wire' = b /\ rx \o a \in Seq(Piece)
  BY <1>1, <1>2, <1>5, ConcatProperties DEF a, b
<1>8. SubSeq(batch', 1, Len(batch')) = batch'
  BY <1>7, SubSeqFull
<1>9. Buffered' = rx \o a
  BY <1>3, <1>7, <1>8 DEF Buffered
<1>10. Buffered' \o wire' = rx \o wire
  <2>1. (rx \o a) \o b = rx \o (a \o b)
    BY <1>1, <1>5, ConcatAssociative, SMTT(60)
  <2> QED
    BY <1>6, <1>7, <1>9, <2>1
<1>11. Buffered = rx
  BY <1>1 DEF Buffered
<1> QED
  BY <1>1, <1>3, <1>10, <1>11 DEF FlowInv, RxShort, Owing

LEMMA SkipFlow == IInv /\ FlowInv /\ Skip => FlowInv'
<1> SUFFICES ASSUME IInv, FlowInv, Skip PROVE FlowInv'
  OBVIOUS
<1>1. /\ batch \in Seq(Piece) /\ wire \in Seq(Piece)
      /\ off \in 0..Len(batch) /\ Len(batch) \in Nat
      /\ requests \in Seq(Frame) /\ answered \in Seq(Frame)
  BY LenProperties DEF IInv, StreamInv, StreamOK, HistoryOK
<1>2. /\ pc = "input" /\ pc' = "input" /\ off' = off + 1
      /\ Rest >= 1 /\ ~Whole /\ (batch[off + 1].half # 1 \/ Rest >= 2)
      /\ UNCHANGED <<rx, client, batch, wire, alive, requests, answered>>
  BY DEF Skip, confVars, netVars, hostVars
<1> DEFINE p == batch[off + 1]
           s == SubSeq(batch, off + 2, Len(batch))
<1>3. off + 1 \in 1..Len(batch) /\ off + 2 \in 1..(Len(batch) + 1)
      /\ Len(batch) \in off + 1..Len(batch) /\ (off + 1) + 1 = off + 2
  BY <1>1, <1>2 DEF Rest
<1>4. /\ p \in Piece /\ s \in Seq(Piece) /\ Buffered = <<p>> \o s
      /\ Buffered' = s
  <2>1. p \in Piece
    BY <1>1, <1>3, ElementOfSeq
  <2>2. s \in Seq(Piece)
    BY <1>1, <1>3, SubSeqPieces
  <2>3. SubSeq(batch, off + 1, Len(batch)) = <<p>> \o s
    BY <1>1, <1>3, SubSeqRecursiveFirst
  <2> QED
    BY <1>2, <1>3, <2>1, <2>2, <2>3 DEF Buffered
<1>5. Rest >= 2 => Len(s) >= 1 /\ s[1] = batch[off + 2]
  <2>1. SUFFICES ASSUME Rest >= 2 PROVE Len(s) >= 1 /\ s[1] = batch[off + 2]
    OBVIOUS
  <2>2. off + 2 \in 1..Len(batch) /\ Len(batch) \in off + 2..Len(batch)
    BY <1>1, <2>1 DEF Rest
  <2>3. s # <<>> /\ Head(s) = batch[off + 2]
    <3>1. Head(s) = batch[off + 2]
      BY <1>1, <2>2, HeadTailOfSubSeq
    <3>2. Len(s) = IF off + 2 <= Len(batch) THEN Len(batch) - (off + 2) + 1 ELSE 0
      BY <1>1, <1>3, SubSeqPieces
    <3>3. Len(s) >= 1
      BY <1>1, <2>2, <3>2
    <3>4. s # <<>>
      <4> HIDE DEF s
      <4> QED
        BY <3>3, EmptyPieces
    <3> QED
      BY <3>1, <3>4
  <2> QED
    BY <1>4, <2>3
<1> HIDE DEF p, s
<1> DEFINE t == s \o wire
<1>6. t \in Seq(Piece) /\ Buffered \o wire = <<p>> \o t /\ Buffered' \o wire' = t
  <2>1. <<p>> \in Seq(Piece)
    BY <1>4
  <2> QED
    BY <1>1, <1>2, <1>4, <2>1, ConcatProperties, ConcatAssociative, SMTT(60)
<1>7. Rest >= 2 => t[1] = batch[off + 2]
  BY <1>1, <1>4, <1>5, ConcatProperties
<1> HIDE DEF t
<1>8. ASSUME alive PROVE Accounted(t, requests, answered)
  <2>1. Accounted(<<p>> \o t, requests, answered)
    BY <1>6, <1>8 DEF FlowInv, Owing
  <2>2. p = Noise
    <3> SUFFICES ASSUME p # Noise PROVE FALSE
      OBVIOUS
    <3>1. p.half = 1 /\ t[1] = [frame |-> p.frame, half |-> 2]
      BY <1>1, <1>4, <1>6, <2>1, HeadIsFirstHalf
    <3>2. Rest >= 2
      BY <1>2, <3>1 DEF p
    <3> QED
      BY <1>2, <1>7, <3>1, <3>2 DEF Whole, p
  <2> QED
    BY <1>1, <1>6, <2>1, <2>2, NoiseOwesNothing
<1> QED
  BY <1>2, <1>6, <1>8 DEF FlowInv, RxShort, Owing

LEMMA DispatchFlow == IInv /\ FlowInv /\ Dispatch => FlowInv'
<1> SUFFICES ASSUME IInv, FlowInv, Dispatch PROVE FlowInv'
  OBVIOUS
<1>1. /\ batch \in Seq(Piece) /\ wire \in Seq(Piece)
      /\ off \in 0..Len(batch) /\ Len(batch) \in Nat
      /\ requests \in Seq(Frame) /\ answered \in Seq(Frame)
      /\ alive => client # 0
  BY LenProperties DEF IInv, LoopInv, Quiet, StreamInv, StreamOK, HistoryOK
<1>2. /\ pc = "input" /\ pc' = "input" /\ off' = off + 2 /\ Whole
      /\ UNCHANGED <<rx, client, batch, wire, alive, requests>>
      /\ client # 0 => answered' = Append(answered, Request)
  BY DEF Dispatch, Dispatching
<1> DEFINE p == batch[off + 1]
           q == batch[off + 2]
           s == SubSeq(batch, off + 3, Len(batch))
           x == Pieces(<<Request>>)
<1>3. /\ off + 1 \in 1..Len(batch) /\ Len(batch) \in off + 1..Len(batch)
      /\ off + 2 \in 1..Len(batch) /\ Len(batch) \in off + 2..Len(batch)
      /\ off + 3 \in 1..(Len(batch) + 1)
      /\ (off + 1) + 1 = off + 2 /\ (off + 2) + 1 = off + 3
  BY <1>1, <1>2 DEF Whole, Rest
<1>4. /\ Request \in Frame /\ p = [frame |-> Request, half |-> 1]
      /\ q = [frame |-> Request, half |-> 2] /\ p \in Piece /\ q \in Piece
  <2>1. p \in Piece /\ q \in Piece
    BY <1>1, <1>3, ElementOfSeq
  <2>2. p.half = 1 /\ q = [frame |-> p.frame, half |-> 2] /\ p.frame = Request
    BY <1>2 DEF Whole, Request
  <2> HIDE DEF p, q
  <2> QED
    BY <2>1, <2>2 DEF Piece, Noise
<1>5. s \in Seq(Piece) /\ Buffered' = s
  BY <1>1, <1>2, <1>3, SubSeqPieces DEF Buffered
<1>6. Buffered = <<p>> \o (<<q>> \o s)
  <2>1. SubSeq(batch, off + 1, Len(batch)) = <<p>> \o SubSeq(batch, off + 2, Len(batch))
    BY <1>1, <1>3, SubSeqRecursiveFirst
  <2>2. SubSeq(batch, off + 2, Len(batch)) = <<q>> \o s
    BY <1>1, <1>3, SubSeqRecursiveFirst
  <2> QED
    BY <1>2, <2>1, <2>2 DEF Buffered
<1>7. x = <<p>> \o <<q>> /\ x \in Seq(Piece)
  <2>1. x = <<p, q>>
    BY <1>4, PairOf
  <2>2. <<Request>> \in Seq(Frame)
    BY <1>4
  <2> QED
    BY <1>4, <2>1, <2>2, TwoPieces, PieceOfFrames
<1> HIDE DEF p, q, s, x
<1>8. Buffered \o wire = x \o (s \o wire) /\ s \o wire \in Seq(Piece)
  <2>1. <<p>> \in Seq(Piece) /\ <<q>> \in Seq(Piece)
    BY <1>4
  <2>2. Buffered = x \o s
    BY <1>5, <1>6, <1>7, <2>1, ConcatAssociative, SMTT(60)
  <2> QED
    BY <1>1, <1>5, <1>7, <2>2, ConcatAssociative, ConcatProperties, SMTT(60)
<1>9. ASSUME alive PROVE Accounted(s \o wire, requests, Append(answered, Request))
  <2>1. Accounted(x \o (s \o wire), requests, answered)
    BY <1>8, <1>9 DEF FlowInv, Owing
  <2> QED
    BY <1>1, <1>4, <1>8, <2>1, AnsweredIsPaid DEF x
<1> QED
  BY <1>1, <1>2, <1>5, <1>9 DEF FlowInv, RxShort, Owing

LEMMA InputDoneFlow == IInv /\ FlowInv /\ InputDone => FlowInv'
<1> SUFFICES ASSUME IInv, FlowInv, InputDone PROVE FlowInv'
  OBVIOUS
<1>1. /\ batch \in Seq(Piece) /\ off \in 0..Len(batch) /\ Len(batch) \in Nat
      /\ alive => client # 0
  BY LenProperties DEF IInv, LoopInv, Quiet, StreamInv, StreamOK
<1>2. /\ pc = "input" /\ pc' = "status" /\ Rest \in {0, 1}
      /\ UNCHANGED <<client, wire, alive, requests, answered>>
      /\ rx' = IF client # 0 THEN SubSeq(batch, off + 1, Len(batch)) ELSE rx
  BY DEF InputDone, hostVars
<1>3. Len(SubSeq(batch, off + 1, Len(batch))) <= 1
  <2>1. off + 1 \in 1..(Len(batch) + 1) /\ Len(batch) \in 0..Len(batch)
    BY <1>1
  <2>2. Len(SubSeq(batch, off + 1, Len(batch)))
          = IF off + 1 <= Len(batch) THEN Len(batch) - (off + 1) + 1 ELSE 0
    BY <1>1, <2>1, SubSeqPieces
  <2>3. Len(batch) - (off + 1) + 1 <= 1
    BY <1>1, <1>2 DEF Rest
  <2> DEFINE n == Len(SubSeq(batch, off + 1, Len(batch)))
             m == Len(batch) - (off + 1) + 1
  <2>4. n = m \/ n = 0
    BY <2>2
  <2>5. m <= 1
    BY <2>3
  <2> HIDE DEF n, m
  <2>6. n <= 1
    BY <2>4, <2>5
  <2> QED
    BY <2>6 DEF n
<1>4. Len(rx') <= 1
  <2>1. CASE client # 0
    BY <1>2, <1>3, <2>1
  <2>2. CASE client = 0
    <3>1. rx' = <<>>
      BY <1>2, <2>2 DEF FlowInv, RxShort
    <3> QED
      BY <3>1
  <2> QED
    BY <2>1, <2>2
<1>5. alive => Buffered' = Buffered
  BY <1>1, <1>2 DEF Buffered
<1> QED
  BY <1>2, <1>4, <1>5 DEF FlowInv, RxShort, Owing

(* A step of the loop that leaves the stream and the history alone *)
LEMMA LoopFlow ==
  ASSUME FlowInv, pc # "input", pc' # "input",
         UNCHANGED <<rx, wire, alive, requests, answered>>
  PROVE  FlowInv'
BY DEF FlowInv, RxShort, Owing, Buffered

LEMMA CommStepFlow == IInv /\ FlowInv /\ CommStep => FlowInv'
<1> SUFFICES ASSUME IInv, FlowInv, CommStep PROVE FlowInv'
  OBVIOUS
<1>1. ASSUME NEW ok \in BOOLEAN, Bind(ok) PROVE FlowInv'
  BY <1>1, LoopFlow DEF Bind, hostVars
<1>2. CASE Turn
  <2>1. CASE NetworkStable \/ client = 0
    BY <1>2, <2>1, LoopFlow DEF Turn
  <2>2. CASE ~(NetworkStable \/ client = 0)
    BY <1>2, <2>2, DroppedFlow DEF Turn, DropClient
  <2> QED
    BY <2>1, <2>2
<1>3. CASE Accept
  <2>1. CASE knocking /\ client = 0
    <3>1. /\ rx' = <<>> /\ wire' = <<>> /\ requests' = <<>> /\ answered' = <<>>
          /\ pc' = "client"
      BY <1>3, <2>1 DEF Accept
    <3>2. Buffered' \o wire' = <<>>
      BY <3>1, EmptyPieces, ConcatEmptySeq DEF Buffered
    <3> QED
      BY <3>1, <3>2, NothingOwed, EmptyPieces DEF FlowInv, RxShort, Owing
  <2>2. CASE ~(knocking /\ client = 0)
    BY <1>3, <2>2, LoopFlow DEF Accept
  <2> QED
    BY <2>1, <2>2
<1>4. CASE Receive
  BY <1>4, ReceiveFlow
<1>5. CASE NothingToRead
  BY <1>5, LoopFlow DEF NothingToRead, hostVars
<1>6. CASE ReadError
  BY <1>6, DroppedFlow DEF ReadError, DropClient
<1>7. CASE Skip
  BY <1>7, SkipFlow
<1>8. CASE Dispatch
  BY <1>8, DispatchFlow
<1>9. CASE DispatchDrops
  BY <1>9, DroppedFlow DEF DispatchDrops, DropClient
<1>10. CASE Reboot
  BY <1>10, DroppedFlow DEF Reboot, Restart
<1>11. CASE InputDone
  BY <1>11, InputDoneFlow
<1>12. CASE Status
  BY <1>12, LoopFlow DEF Status, hostVars
<1>13. CASE StatusDrops
  BY <1>13, DroppedFlow DEF StatusDrops, DropClient
<1> QED
  BY <1>1, <1>2, <1>3, <1>4, <1>5, <1>6, <1>7, <1>8, <1>9, <1>10, <1>11, <1>12,
     <1>13 DEF CommStep

LEMMA WorldStepFlow == IInv /\ FlowInv /\ WorldStep => FlowInv'
<1> SUFFICES ASSUME IInv, FlowInv, WorldStep PROVE FlowInv'
  OBVIOUS
<1> DEFINE s == Buffered \o wire
<1>1. /\ Buffered \in Seq(Piece) /\ wire \in Seq(Piece) /\ s \in Seq(Piece)
      /\ requests \in Seq(Frame) /\ answered \in Seq(Frame)
  BY BufferedType, ConcatProperties DEF IInv, HistoryOK
<1>2. UNCHANGED taskVars => Buffered' = Buffered
  BY DEF taskVars, Buffered
<1>3. UNCHANGED taskVars /\ RxShort => RxShort'
  BY DEF taskVars, RxShort
<1>4. CASE PowerLoss
  BY <1>4, DroppedFlow DEF PowerLoss, Restart
<1>5. CASE LinkChange \/ AddressChange \/ Knock
  BY <1>2, <1>3, <1>5
  DEF LinkChange, AddressChange, Knock, hostVars, FlowInv, Owing
<1>6. CASE Leave
  BY <1>3, <1>6 DEF Leave, FlowInv
<1>7. CASE SendNoise
  <2>1. /\ UNCHANGED taskVars /\ UNCHANGED <<requests, answered>> /\ alive
        /\ wire' = Append(wire, Noise)
    BY <1>7 DEF SendNoise
  <2>2. Noise \in Piece /\ <<Noise>> \in Seq(Piece)
    BY DEF Piece
  <2>3. wire' = wire \o <<Noise>>
    BY <1>1, <2>1, <2>2, AppendIsConcat
  <2> DEFINE x == <<Noise>>
  <2> HIDE DEF x
  <2>4. Buffered' \o wire' = s \o x
    BY <1>1, <1>2, <2>1, <2>2, <2>3, ConcatAssociative, SMTT(60) DEF x
  <2>5. Accounted(s, requests, answered)
    BY <2>1 DEF FlowInv, Owing
  <2> HIDE DEF s
  <2>6. Accounted(s \o x, requests, answered)
    BY <1>1, <2>5, NoiseIsNotOwed DEF x
  <2> QED
    BY <1>3, <2>1, <2>4, <2>6 DEF FlowInv, Owing
<1>8. ASSUME NEW c \in Command, Send(c) PROVE FlowInv'
  <2> DEFINE f == [session |-> client, nr |-> Len(requests) + 1, cmd |-> c]
             x == Pieces(<<f>>)
  <2>1. /\ UNCHANGED taskVars /\ UNCHANGED answered /\ alive
        /\ Len(requests) < MaxRequests
        /\ requests' = Append(requests, f) /\ wire' = wire \o x
    BY <1>8 DEF Send
  <2>2. f \in Frame
    <3>1. client \in Session
      BY <2>1 DEF IInv, LoopInv, LoopOK, Quiet
    <3>2. Len(requests) + 1 \in 1..MaxRequests
      BY <1>1, <2>1, LenProperties, MaxRequestsAssumption
    <3> QED
      BY <3>1, <3>2 DEF Frame
  <2> HIDE DEF f
  <2>3. x \in Seq(Piece)
    <3>1. <<f>> \in Seq(Frame)
      BY <2>2
    <3> QED
      BY <3>1, PieceOfFrames
  <2>4. Accounted(s, requests, answered)
    BY <2>1 DEF FlowInv, Owing
  <2>5. Accounted(s \o x, Append(requests, f), answered)
    <3> HIDE DEF s
    <3> QED
      BY <1>1, <2>2, <2>4, SentIsOwed
  <2> HIDE DEF x
  <2>6. Buffered' \o wire' = s \o x
    <3>1. (Buffered \o wire) \o x = Buffered \o (wire \o x)
      BY <1>1, <2>3, ConcatAssociative, SMTT(60)
    <3> QED
      BY <1>2, <2>1, <3>1
  <2> QED
    BY <1>3, <2>1, <2>5, <2>6 DEF FlowInv, Owing
<1> QED
  BY <1>4, <1>5, <1>6, <1>7, <1>8 DEF WorldStep

(* Every request of a connection that lasts is answered once and in order, *)
(* or still on its way, whatever the reads cut and whatever noise is in it.*)
THEOREM StreamCorrect == Spec => []StreamIntact
<1>1. Init => IInv /\ FlowInv
  BY InitHolds, EmptyPieces DEF Init, FlowInv, RxShort
<1>2. IInv /\ [Next]_vars => IInv'
  <2>1. IInv /\ UNCHANGED vars => IInv'
    BY StreamKept, OwnedKept, NetKept, HistoryKept
    DEF vars, taskVars, hostVars, IInv, LoopInv, LoopOK, Quiet, streamVars,
        historyVars
  <2> QED
    BY <2>1, CommStepHolds, WorldStepHolds DEF Next
<1>3. IInv /\ FlowInv /\ [Next]_vars => FlowInv'
  <2>1. FlowInv /\ UNCHANGED vars => FlowInv'
    BY DEF vars, taskVars, hostVars, FlowInv, RxShort, Owing, Buffered
  <2> QED
    BY <2>1, CommStepFlow, WorldStepFlow DEF Next
<1>4. FlowInv => StreamIntact
  BY DEF FlowInv, Owing, Accounted, StreamIntact
<1> QED
  BY <1>1, <1>2, <1>3, <1>4, PTL DEF Spec
=============================================================================
