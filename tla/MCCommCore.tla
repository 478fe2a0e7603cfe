------------------------------ MODULE MCCommCore ------------------------------
(***************************************************************************)
(* An instance of CommCore: channel 0 exists and channel 1 does not, a     *)
(* timetable holds one label, and a payload at most two records.  Byte     *)
(* values are modulo 16.                                                   *)
(***************************************************************************)
EXTENDS CommCore, TLC

MCHead == <<11, 10>>

F(cmd, payload) == BuildFrame(0, cmd, payload)

(* Records, as bytes *)
TxOk == 0
RxOk == 4
TxBad == 1
NoChannel == 2
TxOn == 1
TxDown == 0
RxDown == 4

Requests ==
  {F(1, <<TxOk, RxOk>>), F(1, <<RxOk, TxBad>>),
   F(2, <<TxOn>>), F(2, <<RxDown, TxDown>>), F(2, <<NoChannel, TxOn>>),
   F(4, <<0, 1>>), F(5, <<>>), F(6, <<1>>), F(Query, <<>>)}

Corrupted(f) == [f EXCEPT ![Len(f)] = (@ + 1) % Radix]

(* The first byte of a head before a frame, a head whose size is not       *)
(* followed by as many bytes, one whose size cannot be, and a wrong sum    *)
FalseHead == <<11, 10, 0, 2, 1>>
BadSize   == <<11, 10, 0, 9, 1>>

Noise == {<<11>> \o F(5, <<0>>), FalseHead, BadSize, Corrupted(F(2, <<TxOn>>)) \o F(2, <<TxOn>>)}

Pairs ==
  {F(1, <<TxOk, RxOk>>) \o F(2, <<TxOn>>), F(Query, <<>>) \o F(2, <<RxDown, TxDown>>)}

MCItems == Requests \cup Noise \cup Pairs

MCDatagrams ==
  {F(Ping, <<>>), Corrupted(F(Ping, <<>>)), <<0>> \o F(Ping, <<>>),
   F(3, <<0>>) \o F(5, <<0>>), F(2, <<TxOn>>), F(1, <<TxOk>>) \o F(Query, <<>>)}
(* The peers differ in name only. *)
PeerSymmetry == Permutations(Peer)
===============================================================================
