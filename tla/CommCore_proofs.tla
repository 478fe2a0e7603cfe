----------------------------- MODULE CommCore_proofs -----------------------------
(***************************************************************************)
(* The channel tables agree, and the reassembly buffer never fills up, for *)
(* every size, every input and every cut of the stream.  First for the     *)
(* channels by themselves, then for what the wire makes of them.           *)
(***************************************************************************)
EXTENDS CommCore, SequenceTheorems, WellFoundedInduction, TLAPS

ArincInv == ArincTypeOK /\ TablesAgree

LEMMA OffType ==
  /\ ChnlOff \in [Dir -> [Channel -> [setup : BOOLEAN, enabled : BOOLEAN]]]
  /\ TxOff \in [Channel -> TxState]
  /\ TxCleared \in TxState
  /\ \A c \in Channel : Len(TxOff[c].labels) <= MaxLabels
<1>1. TxCleared \in TxState
  BY DEF TxCleared, TxState
<1>2. Len(TxCleared.labels) <= MaxLabels
  BY MaxLabelsAssumption DEF TxCleared
<1> QED
  BY <1>1, <1>2 DEF ChnlOff, TxOff

LEMMA ArincInitHolds == ArincInit => ArincInv
<1> SUFFICES ASSUME ArincInit PROVE ArincInv
  OBVIOUS
<1>1. job = NoJob /\ at = 0 /\ status = "ok" /\ chnl = ChnlOff /\ tx = TxOff
  BY DEF ArincInit
<1>2. at \in 0..Len(job.records)
  BY <1>1 DEF NoJob
<1>3. ArincTypeOK
  BY <1>1, <1>2, OffType DEF ArincTypeOK, Status
<1>4. TablesAgree
  BY <1>1 DEF TablesAgree, ChnlOff, TxOff, TxCleared, Dir
<1> QED
  BY <1>3, <1>4 DEF ArincInv

LEMMA RecordsOf ==
  ASSUME NEW cmd, NEW records \in Seq(RecordOf(cmd))
  PROVE  records \in Seq(Record)
<1>1. records \in [1..Len(records) -> RecordOf(cmd)] /\ Len(records) \in Nat
  BY LenProperties
<1>2. records \in [1..Len(records) -> Record]
  BY <1>1 DEF RecordOf
<1> QED
  BY <1>1, <1>2, SeqDef

LEMMA BeginHolds ==
  ASSUME ArincInv, NEW cmd \in BatchCommand, NEW records \in Seq(RecordOf(cmd)),
         Begin(cmd, records)
  PROVE  ArincInv'
<1> USE DEF ArincInv
<1>0. records \in Seq(Record)
  BY RecordsOf
<1>1. job' = [cmd |-> cmd, records |-> records] /\ at' = 0 /\ UNCHANGED <<chnl, tx>>
  BY DEF Begin
<1>2. job' \in Job /\ job'.records \in Seq(RecordOf(job'.cmd))
  BY <1>0, <1>1 DEF Job
<1>3. Len(job'.records) \in Nat
  BY <1>1
<1>4. status' \in Status
  BY DEF Begin, Status
<1>5. ArincTypeOK'
  BY <1>1, <1>2, <1>3, <1>4 DEF ArincTypeOK
<1> QED
  BY <1>1, <1>5 DEF TablesAgree

(* The handler ends: the tables are as they are, or emptied with the       *)
(* session.                                                                *)
LEMMA EndType == End => job' = NoJob /\ at' \in 0..Len(job'.records) /\ status' \in Status
<1> SUFFICES ASSUME End
             PROVE  job' = NoJob /\ at' \in 0..Len(job'.records) /\ status' \in Status
  OBVIOUS
<1>1. job' = NoJob /\ at' = 0 /\ status' = "ok"
  BY DEF End
<1>2. Len(NoJob.records) = 0
  BY DEF NoJob
<1> QED
  BY <1>1, <1>2 DEF Status

LEMMA AnsweredHolds == ArincInv /\ Answered => ArincInv'
BY EndType DEF ArincInv, Answered, ArincTypeOK, TablesAgree

LEMMA SessionEdgeHolds == ArincInv /\ SessionEdge => ArincInv'
<1> SUFFICES ASSUME ArincInv, SessionEdge PROVE ArincInv'
  OBVIOUS
<1>1. chnl' = ChnlOff /\ tx' = TxOff
  BY DEF SessionEdge, ChannelsReset
<1>2. job' = NoJob /\ at' \in 0..Len(job'.records) /\ status' \in Status
  BY EndType DEF SessionEdge, ArincInv, ArincTypeOK
<1>3. ArincTypeOK'
  BY <1>1, <1>2, OffType DEF ArincTypeOK
<1>4. TablesAgree'
  BY <1>1 DEF TablesAgree, ChnlOff, TxOff, TxCleared, Dir
<1> QED
  BY <1>3, <1>4 DEF ArincInv
-----------------------------------------------------------------------------
(* A record that is looked at is one of the request's. *)
LEMMA RecordType ==
  ASSUME ArincTypeOK, NEW cmd \in BatchCommand, Pending(cmd)
  PROVE  /\ job \in Job /\ rec \in Record
         /\ at \in Nat /\ at + 1 \in 0..Len(job.records)
<1>1. job # NoJob
  BY DEF Pending, NoJob, BatchCommand
<1>2. job \in Job
  BY <1>1 DEF ArincTypeOK
<1>3. job.records \in Seq(Record) /\ Len(job.records) \in Nat
  BY <1>2 DEF Job
<1>4. at \in Nat /\ at < Len(job.records)
  BY <1>3 DEF ArincTypeOK, Pending
<1>5. rec \in Record
  BY <1>3, <1>4, ElementOfSeq DEF rec
<1> QED
  BY <1>2, <1>3, <1>4, <1>5

LEMMA SetupHolds == ArincInv /\ SetupRecord => ArincInv'
<1> SUFFICES ASSUME ArincInv, SetupRecord PROVE ArincInv'
  OBVIOUS
<1> USE DEF ArincInv
<1>1. job' = job /\ at' = at + 1
  BY DEF SetupRecord
<1>2. job \in Job /\ rec \in Record /\ at + 1 \in 0..Len(job.records)
  BY RecordType DEF SetupRecord, BatchCommand
<1>3. status' \in Status
  BY <1>2 DEF SetupRecord, Status, Record
<1>4. CASE status' # "ok"
  <2>1. UNCHANGED <<chnl, tx>>
    BY <1>4 DEF SetupRecord
  <2> QED
    BY <1>1, <1>2, <1>3, <2>1 DEF ArincTypeOK, TablesAgree
<1>5. CASE status' = "ok"
  <2>1. rec.dir \in Dir /\ rec.ch \in Channel
    BY <1>5 DEF SetupRecord
  <2>2. chnl' = [chnl EXCEPT ![rec.dir][rec.ch] = [setup |-> TRUE, enabled |-> FALSE]]
    BY <1>5 DEF SetupRecord
  <2>3. CASE rec.dir = "tx"
    <3>1. tx' = [tx EXCEPT ![rec.ch] = TxFresh]
      BY <1>5, <2>3 DEF SetupRecord
    <3>2. TxFresh \in TxState /\ Len(TxFresh.labels) <= MaxLabels
      BY MaxLabelsAssumption DEF TxFresh, TxState
    <3>3. ArincTypeOK'
      BY <1>1, <1>2, <1>3, <2>1, <2>2, <3>1, <3>2 DEF ArincTypeOK
    <3>4. TablesAgree'
      BY <2>1, <2>2, <2>3, <3>1 DEF TxFresh, ArincTypeOK, TablesAgree, Dir
    <3> QED
      BY <3>3, <3>4
  <2>4. CASE rec.dir # "tx"
    <3>1. tx' = tx
      BY <1>5, <2>4 DEF SetupRecord
    <3>2. ArincTypeOK'
      BY <1>1, <1>2, <1>3, <2>1, <2>2, <3>1 DEF ArincTypeOK
    <3>3. TablesAgree'
      BY <2>1, <2>2, <2>4, <3>1 DEF ArincTypeOK, TablesAgree, Dir
    <3> QED
      BY <3>2, <3>3
  <2> QED
    BY <2>3, <2>4
<1> QED
  BY <1>4, <1>5

(* The engine never refuses what the table of comm_core.c allowed. *)
LEMMA EnableHolds == ArincInv /\ EnableRecord => ArincInv'
<1> SUFFICES ASSUME ArincInv, EnableRecord PROVE ArincInv'
  OBVIOUS
<1> USE DEF ArincInv
<1>1. job' = job /\ at' = at + 1
  BY DEF EnableRecord
<1>2. job \in Job /\ rec \in Record /\ at + 1 \in 0..Len(job.records)
  BY RecordType DEF EnableRecord, BatchCommand
<1>3. status' \in Status
  BY DEF EnableRecord, Status
<1>0. chnl \in [Dir -> [Channel -> [setup : BOOLEAN, enabled : BOOLEAN]]]
  BY DEF ArincTypeOK
<1> DEFINE known == rec.dir \in Dir /\ rec.ch \in Channel
           init == known /\ chnl[rec.dir][rec.ch].setup
<1>4. CASE ~init
  <2>1. UNCHANGED <<chnl, tx>>
    BY <1>4 DEF EnableRecord
  <2> QED
    BY <1>1, <1>2, <1>3, <2>1 DEF ArincTypeOK, TablesAgree
<1>5. CASE init
  <2>1. rec.dir \in Dir /\ rec.ch \in Channel /\ rec.on \in BOOLEAN
    BY <1>2, <1>5 DEF Record
  <2>2. chnl' = [chnl EXCEPT ![rec.dir][rec.ch].enabled = rec.on]
    BY <1>5 DEF EnableRecord
  <2>3. CASE rec.dir = "tx"
    <3>1. tx[rec.ch].setup
      BY <1>5, <2>1, <2>3 DEF TablesAgree
    <3>2. tx' = [tx EXCEPT ![rec.ch].enabled = rec.on]
      BY <1>5, <2>3, <3>1 DEF EnableRecord
    <3>3. ArincTypeOK'
      <4>1. chnl' \in [Dir -> [Channel -> [setup : BOOLEAN, enabled : BOOLEAN]]]
        BY <1>0, <2>1, <2>2
      <4>2. /\ tx' \in [Channel -> TxState]
            /\ \A c \in Channel : tx'[c].labels = tx[c].labels
        BY <2>1, <3>2 DEF ArincTypeOK, TxState
      <4> QED
        BY <1>1, <1>2, <1>3, <4>1, <4>2 DEF ArincTypeOK
    <3>4. TablesAgree'
      BY <1>5, <2>1, <2>2, <2>3, <3>1, <3>2 DEF ArincTypeOK, TxState, TablesAgree, Dir
    <3> QED
      BY <3>3, <3>4
  <2>4. CASE rec.dir # "tx"
    <3>1. tx' = tx
      BY <2>4 DEF EnableRecord
    <3>2. ArincTypeOK'
      <4>1. chnl' \in [Dir -> [Channel -> [setup : BOOLEAN, enabled : BOOLEAN]]]
        BY <1>0, <2>1, <2>2
      <4> QED
        BY <1>1, <1>2, <1>3, <3>1, <4>1 DEF ArincTypeOK
    <3>3. TablesAgree'
      BY <1>5, <2>1, <2>2, <2>4, <3>1 DEF ArincTypeOK, TablesAgree, Dir
    <3> QED
      BY <3>2, <3>3
  <2> QED
    BY <2>3, <2>4
<1> QED
  BY <1>4, <1>5

(* The commands that change at most the labels and the timetable of a      *)
(* channel that is set up                                                  *)
LEMMA TimetableChange ==
  ASSUME ArincInv, NEW cmd \in BatchCommand, Pending(cmd),
         NEW c \in Channel, tx[c].setup,
         NEW built \in BOOLEAN, NEW labels \in Seq(Label), Len(labels) <= MaxLabels,
         tx' = [tx EXCEPT ![c].built = built, ![c].labels = labels],
         at' = at + 1, status' \in Status, UNCHANGED <<chnl, job>>
  PROVE  ArincInv'
<1> USE DEF ArincInv
<1>1. job \in Job /\ at + 1 \in 0..Len(job.records)
  BY RecordType
<1> DEFINE new == [tx[c] EXCEPT !.built = built, !.labels = labels]
<1>2. tx[c] \in TxState
  BY DEF ArincTypeOK
<1>3. /\ new \in TxState /\ new.labels = labels
      /\ new.setup = tx[c].setup /\ new.enabled = tx[c].enabled
  BY <1>2 DEF TxState
<1>4. tx' = [tx EXCEPT ![c] = new]
  BY <1>2 DEF ArincTypeOK, TxState
<1> HIDE DEF new
<1>5. ArincTypeOK'
  BY <1>1, <1>3, <1>4 DEF ArincTypeOK
<1>6. tx'[c] = new /\ \A k \in Channel : k # c => tx'[k] = tx[k]
  BY <1>4 DEF ArincTypeOK
<1>7. TablesAgree'
  BY <1>3, <1>6 DEF TablesAgree
<1> QED
  BY <1>5, <1>7

LEMMA NothingChanges ==
  ASSUME ArincInv, NEW cmd \in BatchCommand, Pending(cmd),
         at' = at + 1, status' \in Status, UNCHANGED <<chnl, tx, job>>
  PROVE  ArincInv'
BY RecordType DEF ArincInv, ArincTypeOK, TablesAgree

LEMMA ManualHolds == ArincInv /\ ManualRecord => ArincInv'
BY NothingChanges DEF ManualRecord, BatchCommand, Status

LEMMA SetLabelType ==
  ASSUME NEW labels \in Seq(Label), NEW r \in Record
  PROVE  SetLabel(labels, r) \in Seq(Label) /\ Len(SetLabel(labels, r)) = Len(labels)
<1>1. Len(labels) \in Nat /\ \A i \in 1..Len(labels) : labels[i] \in Label
  BY ElementOfSeq, LenProperties
<1>2. SetLabel(labels, r) \in [1..Len(labels) -> Label]
  BY <1>1 DEF SetLabel, Label
<1> QED
  BY <1>1, <1>2, SeqDef

LEMMA AddHolds == ArincInv /\ AddRecord => ArincInv'
<1> SUFFICES ASSUME ArincInv, AddRecord PROVE ArincInv'
  OBVIOUS
<1>1. Pending("add") /\ "add" \in BatchCommand /\ at' = at + 1 /\ UNCHANGED <<chnl, job>>
  BY DEF AddRecord, BatchCommand
<1>2. status' \in Status
  BY DEF AddRecord, Status
<1>3. CASE status' = "ok"
  <2>1. rec.ch \in Channel /\ tx[rec.ch].setup /\ ~(Len(tx[rec.ch].labels) >= MaxLabels)
    BY <1>3 DEF AddRecord
  <2> DEFINE label == [lbl |-> rec.lbl, sdi |-> rec.sdi, word |-> "unset"]
             labels == Append(tx[rec.ch].labels, label)
  <2>2. label \in Label
    BY <1>1, RecordType DEF ArincInv, Record, Label
  <2>3. tx[rec.ch].labels \in Seq(Label)
    BY <2>1 DEF ArincInv, ArincTypeOK, TxState
  <2> HIDE DEF label
  <2>4. labels \in Seq(Label) /\ Len(labels) = Len(tx[rec.ch].labels) + 1
    BY <2>2, <2>3
  <2>5. Len(labels) <= MaxLabels
    BY <2>1, <2>3, <2>4, MaxLabelsAssumption
  <2>6. tx' = [tx EXCEPT ![rec.ch].built = FALSE, ![rec.ch].labels = labels]
    BY <1>3, <2>1 DEF AddRecord, label, ArincInv, ArincTypeOK, TxState
  <2> HIDE DEF labels
  <2> QED
    BY <1>1, <1>2, <2>1, <2>4, <2>5, <2>6, TimetableChange
<1>4. CASE status' # "ok"
  <2>1. tx' = tx
    BY <1>4 DEF AddRecord
  <2> QED
    BY <1>1, <1>2, <2>1, NothingChanges
<1> QED
  BY <1>3, <1>4

LEMMA UpdateHolds == ArincInv /\ UpdateRecord => ArincInv'
<1> SUFFICES ASSUME ArincInv, UpdateRecord PROVE ArincInv'
  OBVIOUS
<1>1. Pending("update") /\ "update" \in BatchCommand /\ at' = at + 1
  BY DEF UpdateRecord, BatchCommand
<1>2. status' \in Status /\ UNCHANGED <<chnl, job>>
  BY DEF UpdateRecord, Status
<1>3. CASE status' = "ok"
  <2>1. rec.ch \in Channel /\ tx[rec.ch].setup
    BY <1>3 DEF UpdateRecord
  <2> DEFINE labels == SetLabel(tx[rec.ch].labels, rec)
             built  == tx[rec.ch].built
  <2>2. /\ tx[rec.ch].labels \in Seq(Label) /\ built \in BOOLEAN
        /\ Len(tx[rec.ch].labels) <= MaxLabels
    BY <2>1 DEF ArincInv, ArincTypeOK, TxState
  <2>3. labels \in Seq(Label) /\ Len(labels) <= MaxLabels
    BY <1>1, <2>2, SetLabelType, RecordType DEF ArincInv
  <2>4. tx' = [tx EXCEPT ![rec.ch].labels = labels]
    BY <1>3 DEF UpdateRecord
  <2> HIDE DEF labels
  <2>5. tx' = [tx EXCEPT ![rec.ch].built = built, ![rec.ch].labels = labels]
    BY <2>1, <2>4 DEF ArincInv, ArincTypeOK, TxState
  <2> HIDE DEF built
  <2> QED
    BY <1>1, <1>2, <2>1, <2>2, <2>3, <2>5, TimetableChange
<1>4. CASE status' # "ok"
  <2>1. tx' = tx
    BY <1>4 DEF UpdateRecord
  <2> QED
    BY <1>1, <1>2, <2>1, NothingChanges
<1> QED
  BY <1>3, <1>4

LEMMA BuildHolds == ArincInv /\ BuildRecord => ArincInv'
<1> SUFFICES ASSUME ArincInv, BuildRecord PROVE ArincInv'
  OBVIOUS
<1>1. Pending("build") /\ "build" \in BatchCommand /\ at' = at + 1
  BY DEF BuildRecord, BatchCommand
<1>2. status' \in Status /\ UNCHANGED <<chnl, job>>
  BY DEF BuildRecord, Status
<1>3. CASE status' = "ok"
  <2>1. rec.ch \in Channel /\ tx[rec.ch].setup
    BY <1>3 DEF BuildRecord
  <2> DEFINE labels == tx[rec.ch].labels
  <2>2. labels \in Seq(Label) /\ Len(labels) <= MaxLabels
    BY <2>1 DEF ArincInv, ArincTypeOK, TxState
  <2>3. tx' = [tx EXCEPT ![rec.ch].built = TRUE]
    BY <1>3 DEF BuildRecord
  <2>4. tx' = [tx EXCEPT ![rec.ch].built = TRUE, ![rec.ch].labels = labels]
    BY <2>1, <2>3 DEF ArincInv, ArincTypeOK, TxState
  <2> HIDE DEF labels
  <2> QED
    BY <1>1, <1>2, <2>1, <2>2, <2>4, TimetableChange
<1>4. CASE status' # "ok"
  <2>1. tx' = tx
    BY <1>4 DEF BuildRecord
  <2> QED
    BY <1>1, <1>2, <2>1, NothingChanges
<1> QED
  BY <1>3, <1>4

LEMMA RecordStepHolds == ArincInv /\ RecordStep => ArincInv'
BY SetupHolds, EnableHolds, ManualHolds, AddHolds, UpdateHolds, BuildHolds
   DEF RecordStep

LEMMA ArincStutterHolds == ArincInv /\ UNCHANGED arincVars => ArincInv'
BY DEF ArincInv, ArincTypeOK, TablesAgree, arincVars

LEMMA ArincStepHolds == ArincInv /\ [ArincNext]_arincVars => ArincInv'
BY BeginHolds, RecordStepHolds, AnsweredHolds, SessionEdgeHolds, ArincStutterHolds
   DEF ArincNext

(* The two tables agree, whatever batches are carried out, in whole or in  *)
(* part, and wherever sessions begin and end (comm_core.c, arinc_glue.c).  *)
THEOREM ChannelsCorrect == ArincSpec => [](ArincTypeOK /\ TablesAgree)
<1>1. ArincSpec => []ArincInv
  BY ArincInitHolds, ArincStepHolds, PTL DEF ArincSpec
<1> QED
  BY <1>1, PTL DEF ArincInv
-----------------------------------------------------------------------------
(* What an answer given now would say, at any point of a batch: the        *)
(* records carried out so far are in force unless a later one of them is   *)
(* about the same channel; an empty request is an error from the start; and*)
(* a record refused for a channel that was not set up names one that is    *)
(* not.                                                                    *)
Done == IF status = "ok" THEN at ELSE at - 1

CarriedOut ==
  \A i \in 1..Done : ~Superseded(i, Done) => InForce(job.cmd, job.records[i])

RefusedRightly ==
  /\ status = "ok" => job.records # <<>>
  /\ status = "not_init" =>
       \A d \in Dir, c \in Channel :
         job.records[at].dir = d /\ job.records[at].ch = c => ~chnl[d][c].setup

TruthInv == job # NoJob => CarriedOut /\ RefusedRightly

LEMMA TruthBegin ==
  ASSUME NEW cmd \in BatchCommand, NEW records \in Seq(RecordOf(cmd)),
         Begin(cmd, records)
  PROVE  TruthInv'
<1>1. /\ at' = 0 /\ job'.records = records
      /\ status' = IF records = <<>> THEN "error" ELSE "ok"
  BY DEF Begin
<1>2. CarriedOut'
  BY <1>1 DEF CarriedOut, Done
<1>3. RefusedRightly'
  BY <1>1 DEF RefusedRightly
<1> QED
  BY <1>2, <1>3 DEF TruthInv

(* A record touches the entry of its channel and direction in the table    *)
(* and, when it is one to transmit, that channel of the engine.            *)
Apart(r, d, c) == d # r.dir \/ c # r.ch

Local(r) ==
  /\ \A d \in Dir, c \in Channel : Apart(r, d, c) => chnl'[d][c] = chnl[d][c]
  /\ \A c \in Channel : Apart(r, "tx", c) => tx'[c] = tx[c]

LEMMA RecordOfCommand ==
  ASSUME ArincInv, NEW cmd \in BatchCommand, Pending(cmd)
  PROVE  cmd \notin {"setup", "enable"} => rec.dir = "tx"
<1>1. /\ job \in Job /\ at + 1 \in 1..Len(job.records)
      /\ job # NoJob /\ job.cmd = cmd
  BY RecordType DEF ArincInv, Pending, NoJob, BatchCommand
<1>2. rec \in RecordOf(cmd)
  BY <1>1, ElementOfSeq DEF ArincInv, ArincTypeOK, rec
<1> QED
  BY <1>2 DEF RecordOf

(* The step of record r: carried out, or refused with nothing changed.     *)
RecordOutcome(cmd, r) ==
  /\ Pending(cmd) /\ r = rec
  /\ at' = at + 1 /\ UNCHANGED job
  /\ \/ status' = "ok" /\ Local(r) /\ InForce(cmd, r)'
     \/ status' # "ok" /\ UNCHANGED <<chnl, tx>>
  /\ status' = "not_init" =>
       \A d \in Dir, c \in Channel : r.dir = d /\ r.ch = c => ~chnl[d][c].setup

(* A record apart from the one carried out stays in force.                 *)
LEMMA StaysInForce ==
  ASSUME NEW cmd \in BatchCommand, NEW r \in RecordOf(cmd), NEW q \in RecordOf(cmd),
         Local(r), q.dir # r.dir \/ q.ch # r.ch, InForce(cmd, q)
  PROVE  InForce(cmd, q)'
<1>1. q.dir \in Dir /\ q.ch \in Channel
  BY DEF InForce
<1>2. chnl'[q.dir][q.ch] = chnl[q.dir][q.ch]
  BY <1>1 DEF Local, Apart
<1>3. q.dir = "tx" => tx'[q.ch] = tx[q.ch]
  BY <1>1 DEF Local, Apart
<1>4. cmd \notin {"setup", "enable"} => q.dir = "tx"
  BY DEF RecordOf
<1> QED
  BY <1>1, <1>2, <1>3, <1>4 DEF InForce, BatchCommand

LEMMA TruthRecord ==
  ASSUME ArincInv, TruthInv, NEW cmd \in BatchCommand, NEW r, RecordOutcome(cmd, r)
  PROVE  TruthInv'
<1>1. /\ Pending(cmd) /\ r = rec /\ at' = at + 1 /\ job' = job
  BY DEF RecordOutcome
<1>2. job \in Job /\ at \in Nat /\ at + 1 \in 0..Len(job.records)
  BY <1>1, RecordType DEF ArincInv
<1>3. job # NoJob /\ job.cmd = cmd /\ status = "ok"
  BY <1>1 DEF Pending, NoJob, BatchCommand
<1>4. job.records \in Seq(RecordOf(cmd)) /\ Len(job.records) \in Nat
  BY <1>3, LenProperties DEF ArincInv, ArincTypeOK
<1>5. \A i \in 1..at + 1 : job.records[i] \in RecordOf(cmd)
  BY <1>2, <1>4, ElementOfSeq
<1>6. r = job.records[at + 1]
  BY <1>1 DEF rec
<1>7. RefusedRightly'
  <2>1. job.records # <<>>
    BY <1>2, <1>4, EmptySeq
  <2> QED
    BY <1>1, <1>6, <2>1 DEF RecordOutcome, RefusedRightly
<1>8. CASE status' = "ok"
  <2>1. Done' = at + 1 /\ Done = at
    BY <1>1, <1>3, <1>8 DEF Done
  <2>2. Local(r) /\ InForce(cmd, r)'
    BY <1>8 DEF RecordOutcome
  <2> SUFFICES ASSUME NEW n, n = at + 1 PROVE TruthInv'
    OBVIOUS
  <2>3. ASSUME NEW i \in 1..n, ~Superseded(i, n)'
        PROVE  InForce(cmd, job.records[i])'
    <3>1. CASE i = n
      BY <1>1, <1>6, <2>2, <3>1 DEF InForce
    <3>2. CASE i # n
      <4>1. i \in 1..at /\ n \in (i + 1)..n
        BY <1>2, <3>2
      <4>2. ~Superseded(i, at)
        BY <1>1, <1>2, <2>3, <4>1 DEF Superseded
      <4>3. InForce(cmd, job.records[i])
        BY <1>3, <2>1, <4>1, <4>2 DEF TruthInv, CarriedOut
      <4> DEFINE q == job.records[i]
      <4>4. q.dir # r.dir \/ q.ch # r.ch
        BY <1>1, <1>6, <2>3, <4>1 DEF Superseded
      <4>5. q \in RecordOf(cmd) /\ r \in RecordOf(cmd)
        BY <1>2, <1>5, <1>6, <4>1
      <4>6. PICK k : k = q
        OBVIOUS
      <4> HIDE DEF q
      <4>7. InForce(cmd, k)'
        BY <2>2, <4>3, <4>4, <4>5, <4>6, StaysInForce DEF q
      <4> QED
        BY <1>1, <4>6, <4>7 DEF q, InForce
    <3> QED
      BY <3>1, <3>2
  <2>4. CarriedOut'
    <3>1. SUFFICES ASSUME NEW i \in 1..n, ~Superseded(i, Done)'
                   PROVE  InForce(job.cmd, job.records[i])'
      BY <2>1 DEF CarriedOut
    <3>2. ~Superseded(i, n)'
      BY <1>1, <2>1, <3>1 DEF Superseded
    <3>3. InForce(cmd, job.records[i])'
      BY <2>3, <3>2
    <3> QED
      BY <1>1, <1>3, <3>3 DEF InForce
  <2> QED
    BY <1>7, <2>4 DEF TruthInv
<1>9. CASE status' # "ok"
  <2>1. Done' = at /\ Done = at
    BY <1>1, <1>2, <1>3, <1>9 DEF Done
  <2>2. UNCHANGED <<chnl, tx, job>>
    BY <1>1, <1>9 DEF RecordOutcome
  <2>3. CarriedOut'
    <3>1. \A i \in 1..at : ~Superseded(i, at) => InForce(job.cmd, job.records[i])
      BY <1>3, <2>1 DEF TruthInv, CarriedOut
    <3>2. SUFFICES ASSUME NEW i \in 1..at, ~Superseded(i, Done)'
                   PROVE  InForce(job.cmd, job.records[i])'
      BY <2>1 DEF CarriedOut
    <3>3. ~Superseded(i, at)
      BY <2>1, <2>2, <3>2 DEF Superseded
    <3>4. InForce(job.cmd, job.records[i])
      BY <3>1, <3>3
    <3> QED
      BY <2>2, <3>4 DEF InForce
  <2> QED
    BY <1>7, <2>3 DEF TruthInv
<1> QED
  BY <1>8, <1>9

LEMMA ChnlType ==
  ArincInv => chnl \in [Dir -> [Channel -> [setup : BOOLEAN, enabled : BOOLEAN]]]
BY DEF ArincInv, ArincTypeOK

LEMMA SetupOutcome ==
  ASSUME ArincInv, SetupRecord, NEW r, r = rec
  PROVE  RecordOutcome("setup", r)
<1>1. Pending("setup") /\ at' = at + 1 /\ UNCHANGED job /\ status' # "not_init"
  <2>1. rec \in Record
    BY RecordType DEF SetupRecord, BatchCommand, ArincInv
  <2> QED
    BY <2>1 DEF SetupRecord, Record
<1>2. CASE status' = "ok"
  <2>1. r.dir \in Dir /\ r.ch \in Channel
    BY <1>2 DEF SetupRecord
  <2>2. /\ chnl' = [chnl EXCEPT ![r.dir][r.ch] = [setup |-> TRUE, enabled |-> FALSE]]
        /\ tx' = IF r.dir = "tx" THEN [tx EXCEPT ![r.ch] = TxFresh] ELSE tx
    BY <1>2 DEF SetupRecord
  <2>3. Local(r)
    BY <2>1, <2>2 DEF Local, Apart, ArincInv, ArincTypeOK
  <2>4. InForce("setup", r)'
    BY <2>1, <2>2 DEF InForce, ArincInv, ArincTypeOK
  <2> QED
    BY <1>1, <1>2, <2>3, <2>4 DEF RecordOutcome
<1>3. CASE status' # "ok"
  BY <1>1, <1>3 DEF RecordOutcome, SetupRecord
<1> QED
  BY <1>2, <1>3

LEMMA EnableOutcome ==
  ASSUME ArincInv, EnableRecord, NEW r, r = rec
  PROVE  RecordOutcome("enable", r)
<1>1. Pending("enable") /\ at' = at + 1 /\ UNCHANGED job
  BY DEF EnableRecord
<1> DEFINE known == r.dir \in Dir /\ r.ch \in Channel
           init  == known /\ chnl[r.dir][r.ch].setup
<1>2. CASE init
  <2>1. r.dir = "tx" => tx[r.ch].setup
    BY <1>2 DEF ArincInv, TablesAgree
  <2>2. /\ status' = "ok"
        /\ chnl' = [chnl EXCEPT ![r.dir][r.ch].enabled = r.on]
        /\ tx' = IF r.dir = "tx" THEN [tx EXCEPT ![r.ch].enabled = r.on] ELSE tx
    BY <1>2, <2>1 DEF EnableRecord
  <2>3. Local(r)
    <3>1. ASSUME NEW d \in Dir, NEW c \in Channel, Apart(r, d, c)
          PROVE  chnl'[d][c] = chnl[d][c]
      BY <1>2, <2>2, <3>1, ChnlType DEF Apart
    <3>2. ASSUME NEW c \in Channel, Apart(r, "tx", c)
          PROVE  tx'[c] = tx[c]
      BY <1>2, <2>2, <3>2 DEF Apart, ArincInv, ArincTypeOK
    <3> QED
      BY <3>1, <3>2 DEF Local
  <2>4. chnl'[r.dir][r.ch] = [setup |-> TRUE, enabled |-> r.on]
    <3>1. chnl[r.dir][r.ch] \in [setup : BOOLEAN, enabled : BOOLEAN]
      BY <1>2, ChnlType
    <3>2. chnl'[r.dir][r.ch] = [chnl[r.dir][r.ch] EXCEPT !.enabled = r.on]
      BY <1>2, <2>2, ChnlType
    <3> QED
      BY <1>2, <3>1, <3>2
  <2>5. r.dir = "tx" => tx'[r.ch].enabled = r.on
    BY <1>2, <2>2 DEF ArincInv, ArincTypeOK, TxState
  <2>6. InForce("enable", r)'
    BY <1>2, <2>4, <2>5 DEF InForce
  <2> QED
    BY <1>1, <2>2, <2>3, <2>6 DEF RecordOutcome
<1>3. CASE ~init
  <2>1. status' # "ok" /\ UNCHANGED <<chnl, tx>>
    BY <1>3 DEF EnableRecord
  <2>2. status' = "not_init" => known
    BY DEF EnableRecord
  <2> QED
    BY <1>1, <1>3, <2>1, <2>2 DEF RecordOutcome
<1> QED
  BY <1>2, <1>3

LEMMA ManualOutcome ==
  ASSUME ArincInv, ManualRecord, NEW r, r = rec
  PROVE  RecordOutcome("manual", r)
<1>1. /\ Pending("manual") /\ at' = at + 1 /\ UNCHANGED <<chnl, tx, job>>
  BY DEF ManualRecord
<1>2. r.dir = "tx"
  BY <1>1, RecordOfCommand DEF BatchCommand
<1>3. Local(r)
  BY <1>1 DEF Local
<1>4. status' = "ok" => InForce("manual", r)'
  BY <1>1, <1>2 DEF ManualRecord, InForce, Dir
<1>5. status' = "not_init" => ~chnl["tx"][r.ch].setup
  BY DEF ManualRecord, ArincInv, TablesAgree
<1> QED
  BY <1>1, <1>2, <1>3, <1>4, <1>5 DEF RecordOutcome

LEMMA AddOutcome ==
  ASSUME ArincInv, AddRecord, NEW r, r = rec
  PROVE  RecordOutcome("add", r)
<1>1. Pending("add") /\ at' = at + 1 /\ UNCHANGED <<chnl, job>>
  BY DEF AddRecord
<1>2. r.dir = "tx"
  BY <1>1, RecordOfCommand DEF BatchCommand
<1>3. status' = "not_init" => ~chnl["tx"][r.ch].setup
  BY DEF AddRecord, ArincInv, TablesAgree
<1>4. CASE status' = "ok"
  <2> DEFINE label == [lbl |-> r.lbl, sdi |-> r.sdi, word |-> "unset"]
             labels == tx[r.ch].labels
  <2>1. r.ch \in Channel
    BY <1>4 DEF AddRecord
  <2>2. labels \in Seq(Label) /\ tx[r.ch] \in TxState
    BY <2>1 DEF ArincInv, ArincTypeOK, TxState
  <2>3. tx' = [tx EXCEPT ![r.ch].built = FALSE, ![r.ch].labels = Append(@, label)]
    BY <1>4 DEF AddRecord
  <2>4. ~tx'[r.ch].built /\ tx'[r.ch].labels = Append(labels, label)
    BY <2>1, <2>2, <2>3 DEF ArincInv, ArincTypeOK, TxState
  <2>5. /\ Len(Append(labels, label)) = Len(labels) + 1 /\ Len(labels) \in Nat
        /\ Append(labels, label)[Len(labels) + 1] = label
    BY <2>2, LenProperties, AppendProperties
  <2>6. Local(r)
    BY <1>1, <1>2, <2>1, <2>3 DEF Local, Apart, ArincInv, ArincTypeOK
  <2>7. InForce("add", r)'
    <3>1. \E i \in 1..Len(tx'[r.ch].labels) :
            tx'[r.ch].labels[i].lbl = r.lbl /\ tx'[r.ch].labels[i].sdi = r.sdi
      <4>1. Len(labels) + 1 \in 1..Len(tx'[r.ch].labels)
        BY <2>4, <2>5
      <4>2. label.lbl = r.lbl /\ label.sdi = r.sdi
        OBVIOUS
      <4> HIDE DEF label, labels
      <4> QED
        BY <2>4, <2>5, <4>1, <4>2
    <3> QED
      BY <1>2, <2>1, <2>4, <3>1, Zenon DEF InForce, Dir
  <2> QED
    BY <1>1, <1>4, <2>6, <2>7 DEF RecordOutcome
<1>5. CASE status' # "ok"
  BY <1>1, <1>2, <1>3, <1>5 DEF RecordOutcome, AddRecord
<1> QED
  BY <1>4, <1>5

LEMMA UpdateOutcome ==
  ASSUME ArincInv, UpdateRecord, NEW r, r = rec
  PROVE  RecordOutcome("update", r)
<1>1. Pending("update") /\ at' = at + 1 /\ UNCHANGED <<chnl, job>>
  BY DEF UpdateRecord
<1>2. r.dir = "tx"
  BY <1>1, RecordOfCommand DEF BatchCommand
<1>3. status' = "not_init" => ~chnl["tx"][r.ch].setup
  BY DEF UpdateRecord, ArincInv, TablesAgree
<1>4. CASE status' = "ok"
  <2>1. r.ch \in Channel /\ tx[r.ch].setup
    BY <1>4 DEF UpdateRecord
  <2>2. Local(r)
    BY <1>1, <1>2, <1>4, <2>1 DEF UpdateRecord, Local, Apart, ArincInv, ArincTypeOK
  <2>3. InForce("update", r)'
    BY <1>1, <1>2, <2>1 DEF InForce, Dir, ArincInv, TablesAgree
  <2> QED
    BY <1>1, <1>4, <2>2, <2>3 DEF RecordOutcome
<1>5. CASE status' # "ok"
  BY <1>1, <1>2, <1>3, <1>5 DEF RecordOutcome, UpdateRecord
<1> QED
  BY <1>4, <1>5

LEMMA BuildOutcome ==
  ASSUME ArincInv, BuildRecord, NEW r, r = rec
  PROVE  RecordOutcome("build", r)
<1>1. Pending("build") /\ at' = at + 1 /\ UNCHANGED <<chnl, job>>
  BY DEF BuildRecord
<1>2. r.dir = "tx"
  BY <1>1, RecordOfCommand DEF BatchCommand
<1>3. status' = "not_init" => ~chnl["tx"][r.ch].setup
  BY DEF BuildRecord, ArincInv, TablesAgree
<1>4. CASE status' = "ok"
  <2>1. r.ch \in Channel /\ tx' = [tx EXCEPT ![r.ch].built = TRUE]
    BY <1>4 DEF BuildRecord
  <2>2. Local(r)
    BY <1>1, <1>2, <2>1 DEF Local, Apart, ArincInv, ArincTypeOK
  <2>3. InForce("build", r)'
    BY <1>1, <1>2, <2>1 DEF InForce, Dir, ArincInv, ArincTypeOK, TxState
  <2> QED
    BY <1>1, <1>4, <2>2, <2>3 DEF RecordOutcome
<1>5. CASE status' # "ok"
  BY <1>1, <1>2, <1>3, <1>5 DEF RecordOutcome, BuildRecord
<1> QED
  BY <1>4, <1>5

LEMMA TruthStepHolds == ArincInv /\ TruthInv /\ [ArincNext]_arincVars => TruthInv'
<1> SUFFICES ASSUME ArincInv, TruthInv, [ArincNext]_arincVars PROVE TruthInv'
  OBVIOUS
<1>1. ASSUME NEW cmd \in BatchCommand, NEW records \in Seq(RecordOf(cmd)),
             Begin(cmd, records)
      PROVE  TruthInv'
  BY <1>1, TruthBegin
<1>2. CASE RecordStep
  <2> SUFFICES ASSUME NEW r, r = rec PROVE TruthInv'
    OBVIOUS
  <2>1. \E cmd \in BatchCommand : RecordOutcome(cmd, r)
    BY <1>2, SetupOutcome, EnableOutcome, ManualOutcome, AddOutcome, UpdateOutcome,
       BuildOutcome DEF RecordStep, BatchCommand
  <2> QED
    BY <2>1, TruthRecord
<1>3. CASE Answered
  BY <1>3, EndType DEF Answered, TruthInv
<1>4. CASE SessionEdge
  BY <1>4, EndType DEF SessionEdge, TruthInv
<1>5. CASE UNCHANGED arincVars
  <2>1. chnl' = chnl /\ tx' = tx /\ job' = job /\ at' = at /\ status' = status
    BY <1>5 DEF arincVars
  <2>2. Done' = Done
    BY <2>1 DEF Done
  <2>3. \A i, n : Superseded(i, n)' <=> Superseded(i, n)
    BY <2>1 DEF Superseded
  <2>4. \A c, r : InForce(c, r)' <=> InForce(c, r)
    BY <2>1 DEF InForce
  <2>5. CarriedOut' <=> CarriedOut
    BY <2>1, <2>2, <2>3, <2>4 DEF CarriedOut
  <2>6. RefusedRightly' <=> RefusedRightly
    BY <2>1 DEF RefusedRightly
  <2> QED
    BY <2>1, <2>5, <2>6 DEF TruthInv
<1> QED
  BY <1>1, <1>2, <1>3, <1>4, <1>5 DEF ArincNext

(* Whatever a batch holds and wherever it is refused, its answer tells what*)
(* is in force (the handlers of comm_core.c, answered by comm_send_ack).   *)
THEOREM TruthCorrect == ArincSpec => []AnswerTellsTruth
<1>1. ArincInit => TruthInv
  BY DEF ArincInit, TruthInv
<1>2. ArincSpec => [](ArincInv /\ TruthInv)
  BY <1>1, ArincInitHolds, ArincStepHolds, TruthStepHolds, PTL DEF ArincSpec
<1>3. ArincInv /\ TruthInv => AnswerTellsTruth
  <2> SUFFICES ASSUME ArincInv, TruthInv, job # NoJob, Finished
               PROVE  /\ \A i \in 1..Done : ~Superseded(i, Done)
                                           => InForce(job.cmd, job.records[i])
                      /\ status = "ok" => job.records # <<>> /\ at = Len(job.records)
                      /\ status = "not_init" =>
                           \A d \in Dir, c \in Channel :
                             job.records[at].dir = d /\ job.records[at].ch = c
                               => ~chnl[d][c].setup
    BY DEF AnswerTellsTruth, Done
  <2> QED
    BY DEF TruthInv, CarriedOut, RefusedRightly, Finished
<1> QED
  BY <1>2, <1>3, PTL
-----------------------------------------------------------------------------
(* The records of a payload *)
LEMMA ByteType == Byte \subseteq Nat /\ MaxPacket \in Nat /\ Radix \in Nat
BY MaxPayloadAssumption DEF Byte, MaxPacket, HeaderSize, CsumSize

LEMMA DecodeType ==
  ASSUME NEW cmd \in BatchCommand, NEW b \in Byte
  PROVE  Decode(cmd, b) \in RecordOf(cmd)
<1>1. \A w \in {1, 2, 4, 8} : Bit(b, w) \in {0, 1}
  BY ByteType DEF Bit
<1>2. (CHOOSE l \in Lbl : TRUE) \in Lbl
  BY RecordAssumption
<1>3. (IF cmd = "add" THEN Bit(b, 1) ELSE Bit(b, 8)) \in Sdi
  BY <1>1, RecordAssumption
<1>4. Bit(b, 2) \in Int
  BY <1>1
<1> QED
  BY <1>2, <1>3, <1>4 DEF Decode, Record, RecordOf, Dir

LEMMA RecordsType ==
  ASSUME NEW cmd \in BatchCommand, NEW payload \in Seq(Byte)
  PROVE  Records(cmd, payload) \in Seq(RecordOf(cmd))
<1> DEFINE r == IF cmd = "build" /\ payload # <<>> THEN SubSeq(payload, 1, 1) ELSE payload
<1>1. r \in Seq(Byte)
  <2>1. CASE cmd = "build" /\ payload # <<>>
    <3>1. 1 \in 1..Len(payload)
      BY <2>1, LenProperties, EmptySeq
    <3>2. \A i \in 1..1 : payload[i] \in Byte
      BY <3>1, ElementOfSeq
    <3>3. SubSeq(payload, 1, 1) \in Seq(Byte)
      BY <3>2, SubSeqProperties
    <3> QED
      BY <2>1, <3>3
  <2> QED
    BY <2>1
<1> HIDE DEF r
<1>2. Len(r) \in Nat /\ \A i \in 1..Len(r) : r[i] \in Byte
  BY <1>1, LenProperties, ElementOfSeq
<1>3. [i \in 1..Len(r) |-> Decode(cmd, r[i])] \in [1..Len(r) -> RecordOf(cmd)]
  BY <1>2, DecodeType
<1>4. [i \in 1..Len(r) |-> Decode(cmd, r[i])] \in Seq(RecordOf(cmd))
  BY <1>2, <1>3, SeqDef
<1> QED
  BY <1>4 DEF Records, r
-----------------------------------------------------------------------------
(* Unless a read of the stream is under way, whose buffer the length is    *)
(* that of, what is kept is less than a packet.                            *)
WireInv ==
  /\ CommTypeOK
  /\ src # "tcp" \/ ~client => Len(rx) < MaxPacket

LEMMA EmptyType == <<>> \in Seq(Byte) /\ Len(<<>>) = 0 /\ 0 < MaxPacket
BY MaxPayloadAssumption, EmptySeq DEF MaxPacket, HeaderSize, CsumSize

LEMMA PartType ==
  ASSUME NEW s \in Seq(Byte), NEW m \in Nat \ {0}, NEW n \in Int, n <= Len(s)
  PROVE  /\ SubSeq(s, m, n) \in Seq(Byte)
         /\ Len(SubSeq(s, m, n)) = IF m <= n THEN n - m + 1 ELSE 0
<1>1. \A i \in m..n : s[i] \in Byte
  BY LenProperties, ElementOfSeq
<1> QED
  BY <1>1, SubSeqProperties

LEMMA WireInitHolds == Init => WireInv
<1> SUFFICES ASSUME Init PROVE WireInv
  OBVIOUS
<1>1. client = FALSE /\ wire = <<>> /\ rx = <<>> /\ endpoint = {} /\ src = "none"
  BY DEF Init
<1>2. buf = <<>> /\ off = 0
  BY DEF Init
<1>3. off \in 0..Len(buf)
  BY <1>2, EmptyType
<1>4. Len(rx) < MaxPacket
  BY <1>1, EmptyType
<1>5. endpoint \in SUBSET Peer
  BY <1>1
<1>6. client \in BOOLEAN /\ src \in {"none", "tcp"} \cup Peer
  BY <1>1
<1>7. wire \in Seq(Byte) /\ rx \in Seq(Byte) /\ buf \in Seq(Byte)
  BY <1>1, <1>2, EmptyType
<1> QED
  BY <1>3, <1>4, <1>5, <1>6, <1>7 DEF WireInv, CommTypeOK

LEMMA DropHolds ==
  ASSUME WireInv, Drop, UNCHANGED <<endpoint, src, buf>>, off' \in 0..Len(buf)
  PROVE  WireInv'
BY EmptyType DEF Drop, WireInv, CommTypeOK, Idle

LEMMA ReceiveHolds == WireInv /\ Receive => WireInv'
<1> SUFFICES ASSUME WireInv, Receive PROVE WireInv'
  OBVIOUS
<1> DEFINE kept == IF Len(rx) = RxSize THEN <<>> ELSE rx
<1>1. PICK n \in 1..(RxSize - Len(kept)) :
         /\ n <= Len(wire)
         /\ buf' = kept \o SubSeq(wire, 1, n)
         /\ wire' = SubSeq(wire, n + 1, Len(wire))
  BY DEF Receive
<1>2. kept \in Seq(Byte) /\ wire \in Seq(Byte) /\ Len(wire) \in Nat
  BY EmptyType, LenProperties DEF WireInv, CommTypeOK
<1>3. n \in Int /\ n + 1 \in Nat \ {0}
  BY <1>2, RxSizeAssumption, LenProperties
<1>4. SubSeq(wire, 1, n) \in Seq(Byte) /\ SubSeq(wire, n + 1, Len(wire)) \in Seq(Byte)
  BY <1>1, <1>2, <1>3, PartType
<1> HIDE DEF kept
<1>5. buf' \in Seq(Byte) /\ wire' \in Seq(Byte) /\ Len(buf') \in Nat
  BY <1>1, <1>2, <1>4, ConcatProperties, LenProperties
<1>6. /\ rx' = buf' /\ src' = "tcp" /\ off' = 0
      /\ client = TRUE /\ UNCHANGED <<client, endpoint>>
  BY DEF Receive, WireInv, CommTypeOK
<1> QED
  BY <1>5, <1>6 DEF WireInv, CommTypeOK, Idle

LEMMA DatagramHolds ==
  ASSUME WireInv, NEW d \in Datagrams, NEW p \in Peer, Datagram(d, p)
  PROVE  WireInv'
<1>1. d \in Seq(Byte) /\ Len(d) \in Nat
  BY InputAssumption, LenProperties
<1>2. /\ endpoint' \in SUBSET Peer /\ src' = p /\ buf' = d /\ off' = 0
      /\ src = "none" /\ UNCHANGED <<client, wire, rx>>
  BY DEF Datagram, WireInv, CommTypeOK, Idle
<1>3. p # "none" /\ p # "tcp"
  BY PeerAssumption
<1> QED
  BY <1>1, <1>2, <1>3 DEF WireInv, CommTypeOK, Idle

(* The scanner stays in its buffer. *)
LEMMA SkipHolds == WireInv /\ Skip => WireInv'
<1> SUFFICES ASSUME WireInv, Skip PROVE WireInv'
  OBVIOUS
<1>1. /\ off \in 0..Len(buf) /\ Len(buf) \in Nat /\ Len(buf) - off >= HeaderSize
      /\ off' = off + 1
  BY LenProperties DEF Skip, Skipped, Avail, WireInv, CommTypeOK
<1>2. off' \in 0..Len(buf)
  BY <1>1 DEF HeaderSize
<1> QED
  BY <1>2 DEF Skip, WireInv, CommTypeOK, Idle

(* A frame lies within the buffer, and so does its payload. *)
LEMMA FrameFits ==
  ASSUME WireInv, IsWhole(buf, off)
  PROVE  /\ off + Total(buf, off) \in 0..Len(buf)
         /\ Payload(buf, off) \in Seq(Byte)
<1>1. /\ buf \in Seq(Byte) /\ off \in 0..Len(buf) /\ Len(buf) \in Nat
      /\ Len(buf) - off >= HeaderSize /\ Len(buf) - off >= Total(buf, off)
  BY LenProperties DEF WireInv, CommTypeOK, IsWhole, Avail
<1>2. Size(buf, off) \in Nat
  <2>1. off + 4 \in 1..Len(buf)
    BY <1>1 DEF HeaderSize
  <2> QED
    BY <1>1, <2>1, ElementOfSeq, ByteType DEF Size
<1> DEFINE m == off + HeaderSize + 1
           n == off + HeaderSize + Size(buf, off)
<1>3. m \in Nat \ {0} /\ n \in Int /\ n <= Len(buf)
  BY <1>1, <1>2 DEF HeaderSize, CsumSize, Total
<1>4. SubSeq(buf, m, n) \in Seq(Byte)
  BY <1>1, <1>3, PartType
<1>5. off + Total(buf, off) \in 0..Len(buf)
  BY <1>1, <1>2 DEF HeaderSize, CsumSize, Total
<1> QED
  BY <1>4, <1>5 DEF Payload

LEMMA ConsumeHolds ==
  ASSUME WireInv, IsWhole(buf, off), Consume,
         UNCHANGED <<client, wire, rx, endpoint, src, buf>>
  PROVE  WireInv'
BY FrameFits DEF Consume, WireInv, CommTypeOK, Idle

(* Where neither a frame nor a byte to give up is, less than the largest   *)
(* packet is left: too little for a header, or a header with a size that   *)
(* can be.                                                                 *)
LEMMA RemainderFits ==
  ASSUME WireInv, ~Skipped(buf, off), ~IsWhole(buf, off)
  PROVE  Len(SubSeq(buf, off + 1, Len(buf))) < MaxPacket
<1>1. /\ buf \in Seq(Byte) /\ off \in Nat /\ Len(buf) \in Nat /\ off <= Len(buf)
  BY LenProperties DEF WireInv, CommTypeOK
<1>2. Len(SubSeq(buf, off + 1, Len(buf))) = Len(buf) - off
  BY <1>1, PartType
<1>3. CASE ~(Len(buf) - off >= HeaderSize)
  BY <1>1, <1>2, <1>3, MaxPayloadAssumption DEF MaxPacket, HeaderSize, CsumSize
<1>4. CASE Len(buf) - off >= HeaderSize
  <2>1. ~(Size(buf, off) > MaxPayload)
    BY <1>4 DEF Skipped, Avail
  <2>2. ~(Len(buf) - off >= Total(buf, off))
    BY <1>4 DEF IsWhole, Avail
  <2>3. Size(buf, off) \in Nat
    <3>1. off + 4 \in 1..Len(buf)
      BY <1>1, <1>4 DEF HeaderSize
    <3> QED
      BY <1>1, <3>1, ElementOfSeq, ByteType DEF Size
  <2> QED
    BY <1>1, <1>2, <2>1, <2>2, <2>3, MaxPayloadAssumption
       DEF MaxPacket, HeaderSize, CsumSize, Total
<1> QED
  BY <1>3, <1>4

LEMMA InputDoneHolds == WireInv /\ InputDone => WireInv'
<1> SUFFICES ASSUME WireInv, InputDone PROVE WireInv'
  OBVIOUS
<1> DEFINE left == SubSeq(buf, off + 1, Len(buf))
<1>1. left \in Seq(Byte)
  <2>1. buf \in Seq(Byte) /\ off + 1 \in Nat \ {0} /\ Len(buf) \in Int
    BY LenProperties DEF WireInv, CommTypeOK
  <2> QED
    BY <2>1, PartType
<1>2. Len(left) < MaxPacket
  BY RemainderFits DEF InputDone
<1> HIDE DEF left
<1>3. rx' = IF src = "tcp" /\ client THEN left ELSE rx
  BY DEF InputDone, left
<1>4. rx' \in Seq(Byte) /\ Len(rx') < MaxPacket
  BY <1>1, <1>2, <1>3 DEF WireInv, CommTypeOK
<1>5. /\ src' = "none" /\ buf' = <<>> /\ off' = 0
      /\ UNCHANGED <<client, wire, endpoint>>
  BY DEF InputDone
<1> QED
  BY <1>4, <1>5, EmptyType DEF WireInv, CommTypeOK, Idle

LEMMA SendHolds ==
  ASSUME WireInv, NEW bytes \in Items, Send(bytes)
  PROVE  WireInv'
<1>1. bytes \in Seq(Byte)
  BY InputAssumption
<1>2. wire' \in Seq(Byte)
  BY <1>1, ConcatProperties DEF Send, WireInv, CommTypeOK
<1> QED
  BY <1>2 DEF Send, WireInv, CommTypeOK, Idle
-----------------------------------------------------------------------------
LEMMA WireStepHolds == WireInv /\ [Next]_vars => WireInv'
<1> SUFFICES ASSUME WireInv, [Next]_vars PROVE WireInv'
  OBVIOUS
<1>0. off \in 0..Len(buf) /\ <<>> \in Seq(Byte) /\ Len(<<>>) = 0 /\ 0 < MaxPacket
  BY EmptyType DEF WireInv, CommTypeOK
<1>1. CASE Connect
  BY <1>0, <1>1 DEF Connect, WireInv, CommTypeOK, Idle
<1>2. CASE PeerGone
  BY <1>0, <1>2, DropHolds DEF PeerGone
<1>3. CASE SocketsClose
  BY <1>0, <1>3 DEF SocketsClose, Drop, WireInv, CommTypeOK, Idle
<1>4. CASE Receive
  BY <1>4, ReceiveHolds
<1>5. ASSUME NEW d \in Datagrams, NEW p \in Peer, Datagram(d, p) PROVE WireInv'
  BY <1>5, DatagramHolds
<1>6. CASE Skip
  BY <1>6, SkipHolds
<1>7. CASE DispatchBatch
  BY <1>7, ConsumeHolds DEF DispatchBatch, AtFrame
<1>8. CASE DispatchOther
  BY <1>8, ConsumeHolds DEF DispatchOther, AtFrame
<1>9. CASE OtherAnswerFails
  <2>1. off' \in 0..Len(buf)
    BY <1>9, FrameFits DEF OtherAnswerFails, AtFrame, Consume
  <2> QED
    BY <1>9, <2>1, DropHolds DEF OtherAnswerFails
<1>10. CASE Handle \/ Answer
  BY <1>10 DEF Handle, Answer, commVars, WireInv, CommTypeOK, Idle
<1>11. CASE AnswerFails
  BY <1>0, <1>11, DropHolds DEF AnswerFails
<1>12. CASE InputDone
  BY <1>12, InputDoneHolds
<1>13. ASSUME NEW bytes \in Items, Send(bytes) PROVE WireInv'
  BY <1>13, SendHolds
<1>14. CASE UNCHANGED vars
  BY <1>14 DEF vars, commVars, WireInv, CommTypeOK, Idle
<1> QED
  BY <1>1, <1>2, <1>3, <1>4, <1>5, <1>6, <1>7, <1>8, <1>9, <1>10, <1>11, <1>12,
     <1>13, <1>14 DEF Next

LEMMA WireInductive == Spec => []WireInv
BY WireInitHolds, WireStepHolds, PTL DEF Spec

(* Whatever the bytes, the wire does to the channels what a batch of       *)
(* records, an answer or a session's end does, or nothing.                 *)
LEMMA WireStepIsArincStep == WireInv /\ [Next]_vars => [ArincNext]_arincVars
<1> SUFFICES ASSUME WireInv, [Next]_vars PROVE [ArincNext]_arincVars
  OBVIOUS
<1>1. CASE Connect \/ PeerGone \/ OtherAnswerFails \/ AnswerFails
  BY <1>1 DEF Connect, PeerGone, OtherAnswerFails, AnswerFails, Drop, ArincNext
<1>2. CASE SocketsClose
  BY <1>2 DEF SocketsClose, Drop, ArincNext
<1>3. CASE DispatchBatch
  <2>1. PICK c \in BatchCommand : Begin(c, Records(c, Payload(buf, off)))
    BY <1>3 DEF DispatchBatch
  <2>2. Records(c, Payload(buf, off)) \in Seq(RecordOf(c))
    BY <1>3, FrameFits, RecordsType DEF DispatchBatch, AtFrame
  <2> QED
    BY <2>1, <2>2 DEF ArincNext
<1>4. CASE Handle \/ Answer
  BY <1>4 DEF Handle, Answer, ArincNext
<1>5. CASE UNCHANGED arincVars
  BY <1>5
<1> QED
  BY <1>1, <1>2, <1>3, <1>4, <1>5
     DEF Next, Receive, Datagram, Skip, DispatchOther, InputDone, Send, vars

(* Whatever frames the bytes make and whichever answers fail underneath    *)
(* the scanner (comm_core.c, comm_task.c): the channels behave as when     *)
(* they are driven by whole batches, so what holds of those holds here.    *)
THEOREM WireDrivesChannels == Spec => ArincSpec
<1>1. Init => ArincInit
  BY DEF Init
<1> QED
  BY <1>1, WireInductive, WireStepIsArincStep, PTL DEF Spec, ArincSpec

(* Whatever bytes arrive in whatever cuts: what is kept between two reads  *)
(* is less than a packet, so the buffer is never full with no frame in it  *)
(* (comm_task.c: the drop of a full buffer is never needed).               *)
THEOREM WireCorrect == Spec => []TypeOK
<1>1. ArincTypeOK /\ WireInv => TypeOK
  BY DEF WireInv, TypeOK
<1> QED
  BY <1>1, ChannelsCorrect, WireDrivesChannels, WireInductive, PTL

(* And the two channel tables agree.                                       *)
THEOREM TablesCorrect == Spec => []TablesAgree
BY ChannelsCorrect, WireDrivesChannels, PTL

(* And every answer to a channel command tells the host what is in force.  *)
THEOREM AnswersCorrect == Spec => []AnswerTellsTruth
BY TruthCorrect, WireDrivesChannels, PTL
-----------------------------------------------------------------------------
(* k items of a sequence after the first m, and two sequences together, by *)
(* their items                                                             *)
LEMMA PartIs ==
  ASSUME NEW S, NEW s \in Seq(S), NEW m \in Nat, NEW k \in Nat, m + k <= Len(s)
  PROVE  /\ SubSeq(s, m + 1, m + k) \in Seq(S)
         /\ Len(SubSeq(s, m + 1, m + k)) = k
         /\ \A i \in 1..k : SubSeq(s, m + 1, m + k)[i] = s[m + i]
<1>0. Len(s) \in Nat
  BY LenProperties
<1>1. \A i \in (m + 1)..(m + k) : s[i] \in S
  BY <1>0, ElementOfSeq
<1> DEFINE a == m + 1
           b == m + k
<1>2. a \in Int /\ b \in Int /\ b - a + 1 = k /\ \A i \in a..b : s[i] \in S
  BY <1>1
<1> HIDE DEF a, b
<1>3. /\ SubSeq(s, a, b) \in Seq(S)
      /\ Len(SubSeq(s, a, b)) = IF a <= b THEN b - a + 1 ELSE 0
      /\ \A i \in 1..(b - a + 1) : SubSeq(s, a, b)[i] = s[a + i - 1]
  BY <1>2, SubSeqProperties
<1>4. ASSUME NEW i \in 1..k PROVE SubSeq(s, a, b)[i] = s[m + i]
  <2>1. a + i - 1 = m + i
    BY DEF a
  <2> QED
    BY <1>2, <1>3, <2>1
<1>5. Len(SubSeq(s, a, b)) = k
  BY <1>2, <1>3
<1> QED
  BY <1>3, <1>4, <1>5 DEF a, b

LEMMA ConcatIs ==
  ASSUME NEW S, NEW s \in Seq(S), NEW t \in Seq(S)
  PROVE  /\ s \o t \in Seq(S)
         /\ Len(s \o t) = Len(s) + Len(t)
         /\ \A i \in 1..Len(s) : (s \o t)[i] = s[i]
         /\ \A i \in 1..Len(t) : (s \o t)[Len(s) + i] = t[i]
<1>1. Len(s) \in Nat /\ Len(t) \in Nat
  BY LenProperties
<1>2. /\ s \o t \in Seq(S) /\ Len(s \o t) = Len(s) + Len(t)
      /\ \A i \in 1..(Len(s) + Len(t)) :
           (s \o t)[i] = IF i <= Len(s) THEN s[i] ELSE t[i - Len(s)]
  BY ConcatProperties
<1>3. ASSUME NEW i \in 1..Len(s) PROVE (s \o t)[i] = s[i]
  BY <1>1, <1>2
<1>4. ASSUME NEW i \in 1..Len(t) PROVE (s \o t)[Len(s) + i] = t[i]
  <2>1. /\ Len(s) + i \in 1..(Len(s) + Len(t)) /\ ~(Len(s) + i <= Len(s))
        /\ (Len(s) + i) - Len(s) = i
    BY <1>1
  <2> QED
    BY <1>2, <2>1
<1> QED
  BY <1>2, <1>3, <1>4

LEMMA HeadIs ==
  /\ ProtoHead \in Seq(Byte) /\ Len(ProtoHead) = 2
  /\ ProtoHead[1] \in Byte /\ ProtoHead[2] \in Byte
  /\ ProtoHead = <<ProtoHead[1], ProtoHead[2]>>
<1>1. PICK a \in Byte, b \in Byte : ProtoHead = <<a, b>>
  BY HeadAssumption DEF Byte
<1> QED
  BY <1>1

(* Two, or three, bytes of a buffer as a part of it *)
LEMMA PairIs ==
  ASSUME NEW d \in Seq(Byte), NEW m \in Nat, m + 2 <= Len(d)
  PROVE  SubSeq(d, m + 1, m + 2) = <<d[m + 1], d[m + 2]>>
<1>1. /\ SubSeq(d, m + 1, m + 2) \in Seq(Byte)
      /\ Len(SubSeq(d, m + 1, m + 2)) = 2
      /\ \A i \in 1..2 : SubSeq(d, m + 1, m + 2)[i] = d[m + i]
  BY PartIs
<1> DEFINE s == SubSeq(d, m + 1, m + 2)
<1> HIDE DEF s
<1>2. s \in Seq(Byte) /\ Len(s) = 2 /\ s[1] = d[m + 1] /\ s[2] = d[m + 2]
  BY <1>1 DEF s
<1>3. s = <<d[m + 1], d[m + 2]>>
  BY <1>2
<1> QED
  BY <1>3 DEF s

LEMMA TripleIs ==
  ASSUME NEW d \in Seq(Byte), NEW m \in Nat, m + 3 <= Len(d)
  PROVE  SubSeq(d, m + 1, m + 3) = <<d[m + 1], d[m + 2], d[m + 3]>>
<1>1. /\ SubSeq(d, m + 1, m + 3) \in Seq(Byte)
      /\ Len(SubSeq(d, m + 1, m + 3)) = 3
      /\ \A i \in 1..3 : SubSeq(d, m + 1, m + 3)[i] = d[m + i]
  BY PartIs
<1> DEFINE s == SubSeq(d, m + 1, m + 3)
<1> HIDE DEF s
<1>2. /\ s \in Seq(Byte) /\ Len(s) = 3
      /\ s[1] = d[m + 1] /\ s[2] = d[m + 2] /\ s[3] = d[m + 3]
  BY <1>1 DEF s
<1>3. s = <<d[m + 1], d[m + 2], d[m + 3]>>
  BY <1>2
<1> QED
  BY <1>3 DEF s

(* Where a frame would end in a buffer, the scanner's test and the         *)
(* reference agree: what begins like a frame is one when its sum is right. *)
LEMMA FrameIs ==
  ASSUME NEW d \in Seq(Byte), NEW o \in Nat, NEW n \in Nat,
         n = d[o + 4], o + n + 6 <= Len(d), SubSeq(d, o + 1, o + 2) = ProtoHead
  PROVE  SubSeq(d, o + 1, o + n + 6)
           = BuildFrame(d[o + 3], d[o + 5], SubSeq(d, o + 6, o + n + 5))
         <=> Csum(SubSeq(d, o + 3, o + n + 5)) = d[o + n + 6]
<1>0. Len(d) \in Nat
  BY LenProperties
<1> DEFINE p == SubSeq(d, o + 6, o + n + 5)
           c == SubSeq(d, o + 3, o + n + 5)
           x == Csum(c)
           S == Byte \cup {x}
<1>1. Len(p) = n
  <2>1. o + 5 \in Nat /\ (o + 5) + n <= Len(d)
    BY <1>0
  <2>2. Len(SubSeq(d, (o + 5) + 1, (o + 5) + n)) = n
    BY <2>1, PartIs
  <2>3. (o + 5) + 1 = o + 6 /\ (o + 5) + n = o + n + 5
    OBVIOUS
  <2> QED
    BY <2>2, <2>3
<1>2. SubSeq(d, o + 3, o + 5) = <<d[o + 3], n, d[o + 5]>>
  <2>1. o + 2 \in Nat /\ (o + 2) + 3 <= Len(d)
    BY <1>0
  <2>2. SubSeq(d, (o + 2) + 1, (o + 2) + 3) = <<d[(o + 2) + 1], d[(o + 2) + 2], d[(o + 2) + 3]>>
    BY <2>1, TripleIs
  <2>3. (o + 2) + 1 = o + 3 /\ (o + 2) + 2 = o + 4 /\ (o + 2) + 3 = o + 5
    OBVIOUS
  <2> QED
    BY <2>2, <2>3
<1>3. SubSeq(d, o + 3, o + 5) \o p = c
  <2> DEFINE m == o + 3
             k == o + 5
             l == o + n + 5
  <2>1. m \in 1..Len(d) + 1 /\ k \in m - 1..Len(d) /\ l \in k..Len(d) /\ k + 1 = o + 6
    BY <1>0, SMTT(60)
  <2> HIDE DEF m, k, l
  <2>2. SubSeq(d, m, k) \o SubSeq(d, k + 1, l) = SubSeq(d, m, l)
    BY <2>1, ConcatAdjacentSubSeq
  <2> QED
    BY <2>1, <2>2 DEF m, k, l
<1>4. ProtoHead \o c = SubSeq(d, o + 1, o + n + 5)
  <2> DEFINE m == o + 1
             k == o + 2
             l == o + n + 5
  <2>1. m \in 1..Len(d) + 1 /\ k \in m - 1..Len(d) /\ l \in k..Len(d) /\ k + 1 = o + 3
    BY <1>0, SMTT(60)
  <2> HIDE DEF m, k, l
  <2>2. SubSeq(d, m, k) \o SubSeq(d, k + 1, l) = SubSeq(d, m, l)
    BY <2>1, ConcatAdjacentSubSeq
  <2> QED
    BY <2>1, <2>2 DEF m, k, l
<1>5. SubSeq(d, o + 1, o + n + 6) = SubSeq(d, o + 1, o + n + 5) \o <<d[o + n + 6]>>
  <2> DEFINE m == o + 1
             l == o + n + 6
  <2>1. m \in 1..Len(d) /\ l \in m..Len(d) /\ l - 1 = o + n + 5
    BY <1>0, SMTT(60)
  <2> HIDE DEF m, l
  <2>2. SubSeq(d, m, l) = SubSeq(d, m, l - 1) \o <<d[l]>>
    BY <2>1, SubSeqRecursiveSecond
  <2> QED
    BY <2>1, <2>2 DEF m, l
<1>6. BuildFrame(d[o + 3], d[o + 5], p) = (ProtoHead \o c) \o <<x>>
  BY <1>1, <1>2, <1>3 DEF BuildFrame
<1>7. d[o + n + 6] \in Byte
  <2>1. o + n + 6 \in 1..Len(d)
    BY <1>0
  <2> QED
    BY <2>1, ElementOfSeq
<1>8. SubSeq(d, o + 1, o + n + 5) \in Seq(Byte)
  <2>1. o + 1 \in Nat \ {0} /\ o + n + 5 \in Int /\ o + n + 5 <= Len(d)
    BY <1>0
  <2>2. \A i \in (o + 1)..(o + n + 5) : d[i] \in Byte
    BY <1>0, ElementOfSeq
  <2> QED
    BY <2>1, <2>2, SubSeqProperties
<1> DEFINE q == SubSeq(d, o + 1, o + n + 5)
           y == d[o + n + 6]
<1> HIDE DEF q, x, y, S
<1>9. q \in Seq(S) /\ <<x>> \in Seq(S) /\ <<y>> \in Seq(S)
  <2>1. x \in S /\ y \in S /\ Byte \subseteq S
    BY <1>7 DEF S, y
  <2> QED
    BY <1>8, <2>1, SeqMonotonic DEF q
<1>10. q \o <<y>> = q \o <<x>> <=> <<y>> = <<x>>
  BY <1>9, ConcatSimplifications
<1>11. <<y>> = <<x>> <=> x = y
  OBVIOUS
<1> QED
  BY <1>4, <1>5, <1>6, <1>10, <1>11 DEF q, x, y

(* The scanner finds a frame exactly where there is one. *)
LEMMA ScannedIsBuilt ==
  ASSUME NEW d \in Seq(Byte), NEW o \in Nat, o + HeaderSize <= Len(d)
  PROVE  /\ BeginsFrame(d, o) <=> IsHead(d, o) /\ Size(d, o) <= MaxPayload
         /\ FrameAt(d, o)
            <=> /\ IsHead(d, o) /\ Size(d, o) <= MaxPayload
                /\ Avail(d, o) >= Total(d, o)
                /\ CsumHolds(d, o)
<1> DEFINE n == d[o + 4]
<1>0. Len(d) \in Nat
  BY LenProperties
<1>1. n \in Nat
  <2>1. o + 4 \in 1..Len(d)
    BY <1>0 DEF HeaderSize
  <2> QED
    BY <2>1, ElementOfSeq, ByteType
<1>2. IsHead(d, o) <=> SubSeq(d, o + 1, o + 2) = ProtoHead
  <2>1. o + 2 <= Len(d)
    BY <1>0 DEF HeaderSize
  <2> QED
    BY <2>1, PairIs DEF IsHead
<1> HIDE DEF n
<1>3. BeginsFrame(d, o) <=> IsHead(d, o) /\ n <= MaxPayload
  BY <1>0, <1>2 DEF BeginsFrame, HeaderSize, n
<1>4. Avail(d, o) >= Total(d, o) <=> o + n + 6 <= Len(d)
  BY <1>0, <1>1 DEF Avail, Total, HeaderSize, CsumSize, Size, n
<1>5. /\ o + CsumStart + 1 = o + 3 /\ o + HeaderSize + Size(d, o) = o + n + 5
      /\ o + Total(d, o) = o + n + 6
  BY <1>1 DEF CsumStart, HeaderSize, CsumSize, Total, Size, n
<1>6. CsumHolds(d, o) <=> Csum(SubSeq(d, o + 3, o + n + 5)) = d[o + n + 6]
  BY <1>5 DEF CsumHolds
<1>7. o + FrameSize(d, o) = o + n + 6 /\ o + FrameSize(d, o) - 1 = o + n + 5
  BY <1>1 DEF FrameSize, HeaderSize, CsumSize, n
<1>8. FrameAt(d, o) <=>
        /\ BeginsFrame(d, o)
        /\ o + n + 6 <= Len(d)
        /\ SubSeq(d, o + 1, o + n + 6)
             = BuildFrame(d[o + 3], d[o + 5], SubSeq(d, o + 6, o + n + 5))
  BY <1>7 DEF FrameAt
<1>9. ASSUME IsHead(d, o), o + n + 6 <= Len(d)
      PROVE  SubSeq(d, o + 1, o + n + 6)
               = BuildFrame(d[o + 3], d[o + 5], SubSeq(d, o + 6, o + n + 5))
             <=> CsumHolds(d, o)
  BY <1>1, <1>2, <1>6, <1>9, FrameIs DEF n
<1>10. Size(d, o) = n
  BY DEF Size, n
<1> QED
  BY <1>3, <1>4, <1>8, <1>9, <1>10

LEMMA LeastNat ==
  ASSUME NEW T \in SUBSET Nat, T # {}
  PROVE  \E n \in T : \A m \in T : n <= m
<1> DEFINE R == OpToRel(<, Nat)
<1>1. IsWellFoundedOn(R, Nat)
  BY NatLessThanWellFounded
<1>2. R = {p \in Nat \X Nat : p[1] < p[2]}
  BY DEF OpToRel
<1> HIDE DEF R
<1>3. PICK x \in T : \A y \in T : ~(<<y, x>> \in R)
  BY <1>1, WFMin
<1>4. ASSUME NEW y \in T PROVE x <= y
  <2>1. y < x => <<y, x>> \in R
    BY <1>2
  <2> QED
    BY <1>3, <2>1
<1> QED
  BY <1>4

(* Two buffers that agree on k bytes, from a and from b on *)
AgreeOn(d, a, e, b, k) == \A i \in 1..k : d[a + i] = e[b + i]

SamePart(d, a, e, b, m, l) ==
  SubSeq(d, a + m + 1, a + m + l) = SubSeq(e, b + m + 1, b + m + l)

LEMMA PartsAgree ==
  ASSUME NEW d \in Seq(Byte), NEW e \in Seq(Byte), NEW a \in Nat, NEW b \in Nat,
         NEW k \in Nat, a + k <= Len(d), b + k <= Len(e), AgreeOn(d, a, e, b, k),
         NEW m \in Nat, NEW l \in Nat, m + l <= k
  PROVE  SamePart(d, a, e, b, m, l)
<1>0. Len(d) \in Nat /\ Len(e) \in Nat
  BY LenProperties
<1> DEFINE u == a + m
           v == b + m
           s == SubSeq(d, u + 1, u + l)
           t == SubSeq(e, v + 1, v + l)
<1>1. u \in Nat /\ v \in Nat /\ u + l <= Len(d) /\ v + l <= Len(e)
  BY <1>0
<1>2. ASSUME NEW i \in 1..l PROVE d[u + i] = e[v + i]
  <2>1. m + i \in 1..k /\ a + (m + i) = u + i /\ b + (m + i) = v + i
    OBVIOUS
  <2>2. d[a + (m + i)] = e[b + (m + i)]
    BY <2>1 DEF AgreeOn
  <2> QED
    BY <2>1, <2>2
<1> HIDE DEF u, v
<1>3. s \in Seq(Byte) /\ Len(s) = l /\ \A i \in 1..l : s[i] = d[u + i]
  BY <1>1, PartIs, SMTT(60)
<1>4. t \in Seq(Byte) /\ Len(t) = l /\ \A i \in 1..l : t[i] = e[v + i]
  BY <1>1, PartIs, SMTT(60)
<1> HIDE DEF s, t
<1>5. \A i \in 1..Len(s) : s[i] = t[i]
  BY <1>2, <1>3, <1>4
<1>6. s = t
  BY <1>3, <1>4, <1>5, SeqEqual
<1> QED
  BY <1>6 DEF SamePart, s, t, u, v

LEMMA ScansAgree ==
  ASSUME NEW d \in Seq(Byte), NEW e \in Seq(Byte), NEW a \in Nat, NEW b \in Nat,
         NEW k \in Nat, a + k <= Len(d), b + k <= Len(e), AgreeOn(d, a, e, b, k), k >= HeaderSize
  PROVE  /\ IsHead(d, a) <=> IsHead(e, b)
         /\ Size(d, a) = Size(e, b) /\ Total(d, a) = Total(e, b)
         /\ Total(d, a) \in Nat /\ Total(d, a) >= 6
         /\ k >= Total(d, a) =>
              /\ CsumHolds(d, a) <=> CsumHolds(e, b)
              /\ SubSeq(d, a + 1, a + Total(d, a)) = SubSeq(e, b + 1, b + Total(d, a))
<1>0. Len(d) \in Nat /\ Len(e) \in Nat
  BY LenProperties
<1>1. k >= 5
  BY DEF HeaderSize
<1>2. d[a + 1] = e[b + 1] /\ d[a + 2] = e[b + 2] /\ d[a + 4] = e[b + 4]
  BY <1>1 DEF AgreeOn
<1>3. d[a + 4] \in Nat
  <2>1. a + 4 \in 1..Len(d)
    BY <1>0, <1>1
  <2> QED
    BY <2>1, ElementOfSeq, ByteType
<1> DEFINE n == d[a + 4]
<1>4. Size(d, a) = n /\ Size(e, b) = n /\ n \in Nat
  BY <1>2, <1>3 DEF Size
<1>5. Total(d, a) = n + 6 /\ Total(e, b) = n + 6
  BY <1>4 DEF Total, HeaderSize, CsumSize
<1> HIDE DEF n
<1>6. ASSUME NEW m \in Nat, NEW l \in Nat, m + l <= k
      PROVE  SamePart(d, a, e, b, m, l)
  BY <1>6, PartsAgree
<1>7. ASSUME k >= n + 6
      PROVE  /\ CsumHolds(d, a) <=> CsumHolds(e, b)
             /\ SubSeq(d, a + 1, a + (n + 6)) = SubSeq(e, b + 1, b + (n + 6))
  <2>1. SubSeq(d, a + 2 + 1, a + 2 + (n + 3)) = SubSeq(e, b + 2 + 1, b + 2 + (n + 3))
    <3> DEFINE m == 2
               l == n + 3
    <3>1. m \in Nat /\ l \in Nat /\ m + l <= k
      BY <1>4, <1>7
    <3> HIDE DEF m, l
    <3>2. SubSeq(d, a + m + 1, a + m + l) = SubSeq(e, b + m + 1, b + m + l)
      BY <1>6, <3>1 DEF SamePart
    <3> QED
      BY <3>2 DEF m, l
  <2>2. SubSeq(d, a + 0 + 1, a + 0 + (n + 6)) = SubSeq(e, b + 0 + 1, b + 0 + (n + 6))
    <3> DEFINE m == 0
               l == n + 6
    <3>1. m \in Nat /\ l \in Nat /\ m + l <= k
      BY <1>4, <1>7
    <3> HIDE DEF m, l
    <3>2. SubSeq(d, a + m + 1, a + m + l) = SubSeq(e, b + m + 1, b + m + l)
      BY <1>6, <3>1 DEF SamePart
    <3> QED
      BY <3>2 DEF m, l
  <2>3. d[a + (n + 6)] = e[b + (n + 6)]
    <3>1. n + 6 \in 1..k
      BY <1>4, <1>7
    <3> QED
      BY <3>1 DEF AgreeOn
  <2>4. /\ a + CsumStart + 1 = a + 2 + 1 /\ a + HeaderSize + n = a + 2 + (n + 3)
        /\ b + CsumStart + 1 = b + 2 + 1 /\ b + HeaderSize + n = b + 2 + (n + 3)
    BY <1>4 DEF CsumStart, HeaderSize
  <2>5. CsumHolds(d, a)
          <=> Csum(SubSeq(d, a + 2 + 1, a + 2 + (n + 3))) = d[a + (n + 6)]
    BY <1>4, <1>5, <2>4 DEF CsumHolds
  <2>6. CsumHolds(e, b)
          <=> Csum(SubSeq(e, b + 2 + 1, b + 2 + (n + 3))) = e[b + (n + 6)]
    BY <1>4, <1>5, <2>4 DEF CsumHolds
  <2>7. a + 0 = a /\ b + 0 = b
    OBVIOUS
  <2> QED
    BY <2>1, <2>2, <2>3, <2>5, <2>6, <2>7
<1> QED
  BY <1>2, <1>4, <1>5, <1>7 DEF IsHead

-----------------------------------------------------------------------------
(* The frames of a stream: the recursion looks at what lies further on     *)
(* only, so it has a solution, and what it finds from a byte on is what it *)
(* finds in the rest of the stream.                                        *)
TailOf(e, d, m) ==
  /\ e \in Seq(Byte)
  /\ Len(e) = Len(d) - m
  /\ \A i \in 1..Len(e) : e[i] = d[m + i]

AgreeFrom(o, n, f, m, g) == \A i \in o..n : f[m + i] = g[i]

Scans(d, f) == \A o \in 0..Len(d) : f[o] = FramesFrom(d, o, f)

(* A header lies in the stream when five bytes are left. *)
LEMMA SizeType ==
  ASSUME NEW d \in Seq(Byte), NEW o \in Nat, Len(d) - o >= HeaderSize
  PROVE  FrameSize(d, o) = Total(d, o) /\ FrameSize(d, o) \in Nat /\ FrameSize(d, o) >= 6
<1>1. Len(d) \in Nat /\ Len(d) - o >= 5
  BY LenProperties DEF HeaderSize
<1>2. d[o + 4] \in Nat
  <2>1. o + 4 \in 1..Len(d)
    BY <1>1
  <2> QED
    BY <2>1, ElementOfSeq, ByteType
<1> QED
  BY <1>2 DEF FrameSize, Total, Size, HeaderSize, CsumSize

LEMMA FromAbove ==
  ASSUME NEW d \in Seq(Byte), NEW o \in 0..Len(d), NEW f, NEW g,
         \A i \in (o + 1)..Len(d) : f[i] = g[i]
  PROVE  FramesFrom(d, o, f) = FramesFrom(d, o, g)
<1>0. Len(d) \in Nat /\ o \in Nat
  BY LenProperties
<1>1. CASE FrameAt(d, o)
  <2>1. Len(d) - o >= HeaderSize /\ o + FrameSize(d, o) <= Len(d)
    BY <1>1 DEF FrameAt, BeginsFrame
  <2>2. o + FrameSize(d, o) \in (o + 1)..Len(d)
    BY <1>0, <2>1, SizeType
  <2>3. f[o + FrameSize(d, o)] = g[o + FrameSize(d, o)]
    BY <2>2
  <2> QED
    BY <1>1, <2>3 DEF FramesFrom
<1>2. CASE ~FrameAt(d, o) /\ Len(d) - o < HeaderSize
  BY <1>2 DEF FramesFrom
<1>3. CASE ~FrameAt(d, o) /\ ~(Len(d) - o < HeaderSize)
  <2>1. o + 1 \in (o + 1)..Len(d)
    BY <1>0, <1>3 DEF HeaderSize
  <2>2. f[o + 1] = g[o + 1]
    BY <2>1
  <2> QED
    BY <1>3, <2>2 DEF FramesFrom
<1> QED
  BY <1>1, <1>2, <1>3

LEMMA ScanExists ==
  ASSUME NEW d \in Seq(Byte)
  PROVE  \E f : f = [o \in 0..Len(d) |-> FramesFrom(d, o, f)]
<1> DEFINE L == Len(d)
           Part(k) == \E f : f = [o \in (L - k)..L |-> FramesFrom(d, o, f)]
           T == {k \in Nat : k <= L /\ ~Part(k)}
<1>0. L \in Nat
  BY LenProperties
<1>1. SUFFICES ASSUME T # {} PROVE FALSE
  <2>1. Part(L)
    BY <1>0, <1>1
  <2>2. (L - L)..L = 0..L
    BY <1>0
  <2> QED
    BY <2>1, <2>2
<1>2. PICK k \in T : \A j \in T : k <= j
  <2>1. T \in SUBSET Nat
    OBVIOUS
  <2> HIDE DEF T
  <2> QED
    BY <1>1, <2>1, LeastNat
<1>3. k \in Nat /\ k <= L /\ ~Part(k)
  BY <1>2
<1>4. CASE k = 0
  <2> DEFINE f == [o \in L..L |-> <<>>]
  <2>1. ASSUME NEW o \in L..L PROVE f[o] = FramesFrom(d, o, f)
    <3>1. o = L /\ L - o < HeaderSize /\ ~(L - o >= HeaderSize)
      BY <1>0 DEF HeaderSize
    <3>2. ~FrameAt(d, o)
      BY <3>1 DEF FrameAt, BeginsFrame
    <3>3. FramesFrom(d, o, f) = <<>>
      BY <3>1, <3>2 DEF FramesFrom
    <3> QED
      BY <3>3
  <2>2. f = [o \in L..L |-> f[o]]
    OBVIOUS
  <2>3. f = [o \in L..L |-> FramesFrom(d, o, f)]
    BY <2>1, <2>2
  <2>4. L - k = L
    BY <1>0, <1>4
  <2> HIDE DEF f
  <2> QED
    BY <1>3, <2>3, <2>4
<1>5. CASE k # 0
  <2>1. k - 1 \in Nat /\ k - 1 <= L /\ k - 1 \notin T
    BY <1>2, <1>3, <1>5
  <2>2. PICK g : g = [o \in (L - (k - 1))..L |-> FramesFrom(d, o, g)]
    BY <2>1
  <2> DEFINE m == L - k
             f == [o \in m..L |-> IF o = m THEN FramesFrom(d, o, g) ELSE g[o]]
  <2>3. m \in Nat /\ m <= L /\ L - (k - 1) = m + 1
    BY <1>0, <1>3, <1>5
  <2> HIDE DEF m
  <2>4. \A i \in (m + 1)..L : f[i] = g[i]
    BY <1>0, <2>3
  <2>5. ASSUME NEW o \in m..L PROVE f[o] = FramesFrom(d, o, f)
    <3>1. o \in 0..L /\ \A i \in (o + 1)..L : f[i] = g[i]
      BY <1>0, <2>3, <2>4
    <3>2. FramesFrom(d, o, f) = FramesFrom(d, o, g)
      <4> HIDE DEF f
      <4> QED
        BY <3>1, FromAbove
    <3>3. CASE o = m
      BY <3>2, <3>3
    <3>4. CASE o # m
      <4>1. o \in (L - (k - 1))..L
        BY <1>0, <2>3, <3>4
      <4>2. g[o] = FramesFrom(d, o, g)
        BY <2>2, <4>1
      <4> QED
        BY <3>2, <3>4, <4>2
    <3> QED
      BY <3>3, <3>4
  <2>6. f = [o \in m..L |-> f[o]]
    OBVIOUS
  <2>7. f = [o \in m..L |-> FramesFrom(d, o, f)]
    BY <2>5, <2>6
  <2> HIDE DEF f
  <2> QED
    BY <1>3, <2>7 DEF m
<1> QED
  BY <1>4, <1>5

LEMMA FramesAre ==
  ASSUME NEW d \in Seq(Byte)
  PROVE  \E f : Scans(d, f) /\ FramesOf(d) = f[0]
<1> DEFINE f == CHOOSE from : from = [o \in 0..Len(d) |-> FramesFrom(d, o, from)]
<1>1. f = [o \in 0..Len(d) |-> FramesFrom(d, o, f)]
  BY ScanExists
<1>2. FramesOf(d) = f[0]
  BY DEF FramesOf
<1> HIDE DEF f
<1>3. \A o \in 0..Len(d) : f[o] = FramesFrom(d, o, f)
  BY <1>1
<1> QED
  BY <1>2, <1>3 DEF Scans

LEMMA TailScan ==
  ASSUME NEW d \in Seq(Byte), NEW m \in 0..Len(d), NEW e, TailOf(e, d, m),
         NEW o \in 0..Len(e), NEW f, NEW g,
         AgreeFrom(o + 1, Len(e), f, m, g)
  PROVE  FramesFrom(d, m + o, f) = FramesFrom(e, o, g)
<1>0. /\ Len(d) \in Nat /\ Len(e) \in Nat /\ m \in Nat /\ o \in Nat
      /\ e \in Seq(Byte) /\ Len(e) = Len(d) - m /\ \A i \in 1..Len(e) : e[i] = d[m + i]
      /\ \A i \in (o + 1)..Len(e) : f[m + i] = g[i]
  BY LenProperties DEF TailOf, AgreeFrom
<1> DEFINE a == m + o
           k == Len(e) - o
           t == Total(d, a)
<1>1. a \in Nat /\ k \in Nat /\ a + k = Len(d) /\ o + k = Len(e)
  BY <1>0
<1>2. Len(d) - a = k
  BY <1>0
<1>3. ASSUME NEW i \in 1..k PROVE d[a + i] = e[o + i]
  <2>1. o + i \in 1..Len(e) /\ m + (o + i) = a + i
    BY <1>0
  <2> QED
    BY <1>0, <2>1
<1>4. ASSUME NEW i \in 1..k PROVE f[a + i] = g[o + i]
  <2>1. o + i \in (o + 1)..Len(e) /\ m + (o + i) = a + i
    BY <1>0
  <2>2. f[m + (o + i)] = g[o + i]
    BY <1>0, <2>1
  <2> QED
    BY <2>1, <2>2
<1> HIDE DEF a, k, t
<1>5. CASE k < HeaderSize
  <2>1. Len(d) - a < HeaderSize /\ Len(e) - o < HeaderSize
    BY <1>2, <1>5 DEF k
  <2>2. ~FrameAt(d, a) /\ ~FrameAt(e, o)
    BY <1>0, <1>1, <2>1 DEF FrameAt, BeginsFrame, HeaderSize
  <2> QED
    BY <2>1, <2>2 DEF FramesFrom, a
<1>6. CASE k >= HeaderSize
  <2>1. /\ IsHead(d, a) <=> IsHead(e, o)
        /\ Size(d, a) = Size(e, o) /\ t = Total(e, o)
        /\ t \in Nat /\ t >= 6
        /\ k >= t => /\ CsumHolds(d, a) <=> CsumHolds(e, o)
                     /\ SubSeq(d, a + 1, a + t) = SubSeq(e, o + 1, o + t)
    <3>1. a + k <= Len(d) /\ o + k <= Len(e)
      BY <1>0, <1>1
    <3>2. AgreeOn(d, a, e, o, k)
      BY <1>3 DEF AgreeOn
    <3> QED
      BY <1>0, <1>1, <1>6, <3>1, <3>2, ScansAgree, ZenonT(60) DEF t
  <2>2. a + HeaderSize <= Len(d) /\ o + HeaderSize <= Len(e)
    BY <1>0, <1>1, <1>6 DEF HeaderSize
  <2>3. FrameSize(d, a) = t /\ FrameSize(e, o) = t
    <3>1. Len(d) - a >= HeaderSize /\ Len(e) - o >= HeaderSize
      BY <1>2, <1>6 DEF k
    <3> QED
      BY <1>0, <1>1, <2>1, <3>1, SizeType DEF t
  <2>4. Avail(d, a) = k /\ Avail(e, o) = k
    BY <1>2 DEF Avail, k
  <2>5. /\ BeginsFrame(d, a) <=> BeginsFrame(e, o)
        /\ FrameAt(d, a) <=> FrameAt(e, o)
        /\ FrameAt(d, a) => k >= t
    <3>1. /\ BeginsFrame(d, a) <=> IsHead(d, a) /\ Size(d, a) <= MaxPayload
          /\ FrameAt(d, a) <=> /\ IsHead(d, a) /\ Size(d, a) <= MaxPayload
                               /\ k >= t /\ CsumHolds(d, a)
      BY <1>1, <2>2, <2>4, ScannedIsBuilt DEF t
    <3>2. /\ BeginsFrame(e, o) <=> IsHead(e, o) /\ Size(e, o) <= MaxPayload
          /\ FrameAt(e, o) <=> /\ IsHead(e, o) /\ Size(e, o) <= MaxPayload
                               /\ k >= t /\ CsumHolds(e, o)
      BY <1>0, <2>1, <2>2, <2>4, ScannedIsBuilt
    <3> QED
      BY <2>1, <3>1, <3>2
  <2>6. CASE FrameAt(d, a)
    <3>1. t \in 1..k
      BY <1>1, <2>1, <2>5, <2>6
    <3>2. f[a + t] = g[o + t]
      BY <1>4, <3>1
    <3>3. SubSeq(d, a + 1, a + t) = SubSeq(e, o + 1, o + t)
      BY <2>1, <2>5, <2>6
    <3>4. FramesFrom(d, a, f) = <<SubSeq(d, a + 1, a + t)>> \o f[a + t]
      BY <2>3, <2>6 DEF FramesFrom
    <3>5. FramesFrom(e, o, g) = <<SubSeq(e, o + 1, o + t)>> \o g[o + t]
      BY <2>3, <2>5, <2>6 DEF FramesFrom
    <3> QED
      BY <3>2, <3>3, <3>4, <3>5 DEF a
  <2>7. CASE ~FrameAt(d, a)
    <3>1. a + t > Len(d) <=> o + t > Len(e)
      BY <1>0, <1>1, <2>1, SMTT(60)
    <3>2. ~(Len(d) - a < HeaderSize) /\ ~(Len(e) - o < HeaderSize)
      BY <1>0, <1>1, <2>2 DEF HeaderSize
    <3>3. 1 \in 1..k
      BY <1>1, <1>6 DEF HeaderSize
    <3>4. f[a + 1] = g[o + 1]
      BY <1>4, <3>3
    <3>5. FramesFrom(d, a, f) =
            IF BeginsFrame(d, a) /\ a + t > Len(d) THEN <<>> ELSE f[a + 1]
      BY <2>3, <2>7, <3>2 DEF FramesFrom
    <3>6. FramesFrom(e, o, g) =
            IF BeginsFrame(e, o) /\ o + t > Len(e) THEN <<>> ELSE g[o + 1]
      BY <2>3, <2>5, <2>7, <3>2 DEF FramesFrom
    <3> QED
      BY <2>5, <3>1, <3>4, <3>5, <3>6 DEF a
  <2> QED
    BY <2>6, <2>7
<1> QED
  BY <1>1, <1>5, <1>6 DEF HeaderSize

LEMMA TailScans ==
  ASSUME NEW d \in Seq(Byte), NEW m \in 0..Len(d), NEW e, TailOf(e, d, m),
         NEW f, NEW g, Scans(d, f), Scans(e, g)
  PROVE  AgreeFrom(0, Len(e), f, m, g)
<1> DEFINE L == Len(e)
           T == {k \in Nat : k <= L /\ f[m + (L - k)] # g[L - k]}
<1>0. L \in Nat /\ Len(d) \in Nat /\ m \in Nat /\ L = Len(d) - m
  BY LenProperties DEF TailOf
<1>1. SUFFICES ASSUME T # {} PROVE FALSE
  <2>1. ASSUME NEW o \in 0..L PROVE f[m + o] = g[o]
    <3> DEFINE k == L - o
    <3>1. k \in Nat /\ k <= L /\ L - k = o
      BY <1>0
    <3>2. k \notin T
      BY <1>1
    <3> QED
      BY <3>1, <3>2
  <2> QED
    BY <2>1 DEF AgreeFrom
<1>2. PICK k \in T : \A j \in T : k <= j
  <2>1. T \in SUBSET Nat
    OBVIOUS
  <2> HIDE DEF T
  <2> QED
    BY <1>1, <2>1, LeastNat
<1> DEFINE o == L - k
<1>3. k \in Nat /\ k <= L /\ f[m + o] # g[o]
  BY <1>2
<1>4. o \in 0..L
  BY <1>0, <1>3
<1>5. AgreeFrom(o + 1, L, f, m, g)
  <2> SUFFICES ASSUME NEW i \in (o + 1)..L PROVE f[m + i] = g[i]
    BY DEF AgreeFrom
  <2> DEFINE j == L - i
  <2>1. j \in Nat /\ j <= L /\ j < k /\ L - j = i
    BY <1>0, <1>3
  <2> HIDE DEF j, T
  <2>2. j \notin T
    BY <1>2, <1>3, <2>1
  <2> QED
    BY <2>1, <2>2 DEF T
<1> HIDE DEF o, T
<1>6. FramesFrom(d, m + o, f) = FramesFrom(e, o, g)
  BY <1>4, <1>5, TailScan
<1>7. m + o \in 0..Len(d)
  BY <1>0, <1>4
<1> QED
  BY <1>3, <1>4, <1>6, <1>7 DEF Scans

(* What the frames of a stream are, one byte or one frame at a time *)
LEMMA FramesUnfold ==
  ASSUME NEW d \in Seq(Byte), NEW m \in 1..Len(d), NEW e, TailOf(e, d, m)
  PROVE  /\ FrameAt(d, 0) /\ m = FrameSize(d, 0)
              => FramesOf(d) = <<SubSeq(d, 1, m)>> \o FramesOf(e)
         /\ (/\ m = 1 /\ Len(d) >= HeaderSize /\ ~FrameAt(d, 0)
             /\ ~(BeginsFrame(d, 0) /\ FrameSize(d, 0) > Len(d)))
              => FramesOf(d) = FramesOf(e)
<1>0. /\ Len(d) \in Nat /\ m \in Nat /\ m \in 0..Len(d)
      /\ e \in Seq(Byte) /\ Len(e) \in Nat
  BY LenProperties DEF TailOf
<1>1. PICK f : Scans(d, f) /\ FramesOf(d) = f[0]
  BY FramesAre
<1>2. PICK g : Scans(e, g) /\ FramesOf(e) = g[0]
  BY <1>0, FramesAre
<1>3. f[m + 0] = g[0]
  <2>1. 0 \in 0..Len(e)
    BY <1>0
  <2>2. AgreeFrom(0, Len(e), f, m, g)
    BY <1>0, <1>1, <1>2, TailScans
  <2> QED
    BY <2>1, <2>2 DEF AgreeFrom
<1>4. f[m] = FramesOf(e)
  <2>1. m + 0 = m
    BY <1>0
  <2> QED
    BY <1>2, <1>3, <2>1
<1>5. FramesOf(d) = FramesFrom(d, 0, f)
  <2>1. 0 \in 0..Len(d)
    BY <1>0
  <2> QED
    BY <1>1, <2>1 DEF Scans
<1>6. ASSUME FrameAt(d, 0), m = FrameSize(d, 0)
      PROVE  FramesOf(d) = <<SubSeq(d, 1, m)>> \o FramesOf(e)
  <2>1. 0 + 1 = 1 /\ 0 + m = m
    BY <1>0
  <2>2. FramesFrom(d, 0, f) = <<SubSeq(d, 0 + 1, 0 + m)>> \o f[0 + m]
    BY <1>6 DEF FramesFrom
  <2> QED
    BY <1>4, <1>5, <2>1, <2>2
<1>7. ASSUME m = 1, Len(d) >= HeaderSize, ~FrameAt(d, 0),
             ~(BeginsFrame(d, 0) /\ FrameSize(d, 0) > Len(d))
      PROVE  FramesOf(d) = FramesOf(e)
  <2>1. ~(Len(d) - 0 < HeaderSize)
    BY <1>0, <1>7 DEF HeaderSize
  <2>2. 0 + FrameSize(d, 0) = FrameSize(d, 0) /\ 0 + 1 = 1
    <3>1. Len(d) - 0 >= HeaderSize
      BY <1>0, <1>7
    <3>2. FrameSize(d, 0) \in Nat
      BY <3>1, SizeType
    <3> QED
      BY <3>2
  <2>3. FramesFrom(d, 0, f) = f[0 + 1]
    BY <1>7, <2>1, <2>2 DEF FramesFrom
  <2> QED
    BY <1>4, <1>5, <1>7, <2>2, <2>3
<1> QED
  BY <1>6, <1>7

-----------------------------------------------------------------------------
(* What is left of a buffer, followed by what has not been read yet *)
LEMMA RestIs ==
  ASSUME NEW b \in Seq(Byte), NEW o \in Nat, o <= Len(b)
  PROVE  /\ SubSeq(b, o + 1, Len(b)) \in Seq(Byte)
         /\ Len(SubSeq(b, o + 1, Len(b))) = Len(b) - o
         /\ \A i \in 1..(Len(b) - o) : SubSeq(b, o + 1, Len(b))[i] = b[o + i]
<1> DEFINE k == Len(b) - o
<1>1. k \in Nat /\ o + k = Len(b) /\ o + k <= Len(b)
  BY LenProperties
<1> HIDE DEF k
<1>2. /\ SubSeq(b, o + 1, o + k) \in Seq(Byte)
      /\ Len(SubSeq(b, o + 1, o + k)) = k
      /\ \A i \in 1..k : SubSeq(b, o + 1, o + k)[i] = b[o + i]
  BY <1>1, PartIs
<1> QED
  BY <1>1, <1>2 DEF k

Rest(b, o, w) == SubSeq(b, o + 1, Len(b)) \o w

LEMMA RestType ==
  ASSUME NEW b \in Seq(Byte), NEW o \in Nat, o <= Len(b), NEW w \in Seq(Byte)
  PROVE  /\ Rest(b, o, w) \in Seq(Byte)
         /\ Len(Rest(b, o, w)) = (Len(b) - o) + Len(w)
         /\ \A i \in 1..(Len(b) - o) : Rest(b, o, w)[i] = b[o + i]
         /\ \A i \in 1..Len(w) : Rest(b, o, w)[(Len(b) - o) + i] = w[i]
<1> DEFINE r == SubSeq(b, o + 1, Len(b))
<1>1. /\ r \in Seq(Byte) /\ Len(r) = Len(b) - o
      /\ \A i \in 1..(Len(b) - o) : r[i] = b[o + i]
  BY RestIs
<1>2. Rest(b, o, w) = r \o w
  BY DEF Rest
<1> HIDE DEF r
<1>3. /\ r \o w \in Seq(Byte)
      /\ Len(r \o w) = Len(r) + Len(w)
      /\ \A i \in 1..Len(r) : (r \o w)[i] = r[i]
      /\ \A i \in 1..Len(w) : (r \o w)[Len(r) + i] = w[i]
  <2>1. r \in Seq(Byte)
    BY <1>1
  <2> QED
    BY <2>1, ConcatIs
<1> QED
  BY <1>1, <1>2, <1>3

LEMMA RestIsTail ==
  ASSUME NEW b \in Seq(Byte), NEW o \in Nat, NEW n \in Nat, o + n <= Len(b),
         NEW w \in Seq(Byte)
  PROVE  TailOf(Rest(b, o + n, w), Rest(b, o, w), n)
<1> DEFINE u == Rest(b, o, w)
           v == Rest(b, o + n, w)
           k == Len(b) - o
           l == Len(b) - (o + n)
<1>0. Len(b) \in Nat /\ Len(w) \in Nat /\ o <= Len(b) /\ o + n \in Nat
  BY LenProperties
<1>1. k \in Nat /\ l \in Nat /\ k = l + n
  BY <1>0
<1>2. /\ Len(u) = k + Len(w)
      /\ \A i \in 1..k : u[i] = b[o + i]
      /\ \A i \in 1..Len(w) : u[k + i] = w[i]
  BY <1>0, RestType
<1>3. /\ v \in Seq(Byte) /\ Len(v) = l + Len(w)
      /\ \A i \in 1..l : v[i] = b[(o + n) + i]
      /\ \A i \in 1..Len(w) : v[l + i] = w[i]
  BY <1>0, RestType
<1> HIDE DEF u, v, k, l
<1>4. ASSUME NEW i \in 1..Len(v) PROVE v[i] = u[n + i]
  <2>1. CASE i \in 1..l
    <3>1. n + i \in 1..k /\ o + (n + i) = (o + n) + i
      BY <1>1, <2>1
    <3>2. u[n + i] = b[o + (n + i)]
      BY <1>2, <3>1
    <3> QED
      BY <1>3, <2>1, <3>1, <3>2
  <2>2. CASE i \notin 1..l
    <3> DEFINE j == i - l
    <3>1. j \in 1..Len(w) /\ l + j = i /\ k + j = n + i
      BY <1>0, <1>1, <1>3, <2>2
    <3> HIDE DEF j
    <3>2. v[l + j] = w[j] /\ u[k + j] = w[j]
      BY <1>2, <1>3, <3>1
    <3> QED
      BY <3>1, <3>2
  <2> QED
    BY <2>1, <2>2
<1>5. Len(v) = Len(u) - n
  BY <1>0, <1>1, <1>2, <1>3
<1> QED
  BY <1>3, <1>4, <1>5 DEF TailOf, u, v

(* What the scanner does at the head of a buffer, seen in the stream *)
LEMMA ScanInStream ==
  ASSUME NEW b \in Seq(Byte), NEW o \in Nat, NEW w \in Seq(Byte),
         Avail(b, o) >= HeaderSize
  PROVE  /\ Skipped(b, o) => FramesOf(Rest(b, o, w)) = FramesOf(Rest(b, o + 1, w))
         /\ IsWhole(b, o) => FramesOf(Rest(b, o, w))
                               = <<SubSeq(b, o + 1, o + Total(b, o))>>
                                    \o FramesOf(Rest(b, o + Total(b, o), w))
<1> DEFINE u == Rest(b, o, w)
           k == Len(b) - o
           t == Total(b, o)
<1>0. Len(b) \in Nat /\ Len(w) \in Nat /\ k >= 5
  BY LenProperties DEF Avail, HeaderSize
<1>1. k \in Nat /\ o + k = Len(b) /\ o <= Len(b)
  BY <1>0
<1>2. u \in Seq(Byte) /\ Len(u) = k + Len(w) /\ \A i \in 1..k : u[i] = b[o + i]
  BY <1>1, RestType
<1>3. ASSUME NEW i \in 1..k PROVE b[o + i] = u[0 + i]
  BY <1>2
<1> HIDE DEF u, k, t
<1>4. /\ IsHead(b, o) <=> IsHead(u, 0)
      /\ Size(b, o) = Size(u, 0) /\ t = Total(u, 0) /\ t \in Nat /\ t >= 6
      /\ k >= t => /\ CsumHolds(b, o) <=> CsumHolds(u, 0)
                   /\ SubSeq(b, o + 1, o + t) = SubSeq(u, 0 + 1, 0 + t)
  <2> DEFINE z == 0
  <2>1. o + k <= Len(b) /\ z + k <= Len(u) /\ k >= HeaderSize /\ z \in Nat
    BY <1>0, <1>1, <1>2 DEF HeaderSize
  <2>2. AgreeOn(b, o, u, z, k)
    BY <1>3 DEF AgreeOn
  <2> HIDE DEF z
  <2>3. /\ IsHead(b, o) <=> IsHead(u, z)
        /\ Size(b, o) = Size(u, z) /\ Total(b, o) = Total(u, z)
        /\ Total(b, o) \in Nat /\ Total(b, o) >= 6
        /\ k >= Total(b, o) =>
             /\ CsumHolds(b, o) <=> CsumHolds(u, z)
             /\ SubSeq(b, o + 1, o + Total(b, o)) = SubSeq(u, z + 1, z + Total(b, o))
    BY <1>1, <1>2, <2>1, <2>2, ScansAgree
  <2> QED
    BY <2>3 DEF t, z
<1>5. /\ 0 + HeaderSize <= Len(u) /\ Len(u) - 0 >= HeaderSize /\ Len(u) >= HeaderSize
      /\ Avail(u, 0) = Len(u) /\ Avail(b, o) = k
  BY <1>0, <1>1, <1>2 DEF HeaderSize, Avail, k
<1>6. FrameSize(u, 0) = t
  BY <1>2, <1>4, <1>5, SizeType
<1>7. /\ BeginsFrame(u, 0) <=> IsHead(u, 0) /\ Size(u, 0) <= MaxPayload
      /\ FrameAt(u, 0)
         <=> /\ IsHead(u, 0) /\ Size(u, 0) <= MaxPayload
             /\ Len(u) >= t /\ CsumHolds(u, 0)
  BY <1>2, <1>4, <1>5, ScannedIsBuilt
<1>8. Size(b, o) \in Nat
  <2>1. o + 4 \in 1..Len(b)
    BY <1>0, <1>1
  <2> QED
    BY <2>1, ElementOfSeq, ByteType DEF Size
<1>9. ASSUME Skipped(b, o)
      PROVE  FramesOf(u) = FramesOf(Rest(b, o + 1, w))
  <2>1. \/ ~IsHead(b, o)
        \/ Size(b, o) > MaxPayload
        \/ k >= t /\ ~CsumHolds(b, o)
    BY <1>5, <1>9 DEF Skipped, t
  <2>2. ~FrameAt(u, 0) /\ ~(BeginsFrame(u, 0) /\ t > Len(u))
    BY <1>0, <1>1, <1>2, <1>4, <1>7, <1>8, <2>1, MaxPayloadAssumption
  <2>3. o + 1 <= Len(b) /\ 1 \in 1..Len(u)
    BY <1>0, <1>1, <1>2
  <2>4. TailOf(Rest(b, o + 1, w), u, 1)
    BY <2>3, RestIsTail DEF u
  <2> QED
    BY <1>2, <1>5, <1>6, <2>2, <2>3, <2>4, FramesUnfold
<1>10. ASSUME IsWhole(b, o)
       PROVE  FramesOf(u) = <<SubSeq(b, o + 1, o + t)>> \o FramesOf(Rest(b, o + t, w))
  <2>1. /\ k >= t /\ IsHead(b, o) /\ ~(Size(b, o) > MaxPayload) /\ CsumHolds(b, o)
    BY <1>5, <1>10 DEF IsWhole, Skipped, t
  <2>2. FrameAt(u, 0)
    <3>1. Len(u) >= t /\ Size(b, o) <= MaxPayload
      BY <1>0, <1>1, <1>2, <1>4, <1>8, <2>1, MaxPayloadAssumption, SMTT(60)
    <3> QED
      BY <1>4, <1>7, <2>1, <3>1
  <2>3. o + t <= Len(b) /\ t \in 1..Len(u)
    <3>1. t \in Nat /\ t >= 6 /\ t <= k
      BY <1>1, <1>4, <2>1
    <3>2. Len(u) \in Nat /\ Len(u) >= k
      BY <1>0, <1>1, <1>2
    <3> QED
      BY <1>1, <3>1, <3>2
  <2>4. TailOf(Rest(b, o + t, w), u, t)
    BY <1>4, <2>3, RestIsTail DEF u
  <2>5. SubSeq(u, 1, t) = SubSeq(b, o + 1, o + t)
    <3>1. 0 + 1 = 1 /\ 0 + t = t
      BY <1>4
    <3> QED
      BY <1>4, <2>1, <3>1
  <2>6. FramesOf(u) = <<SubSeq(u, 1, t)>> \o FramesOf(Rest(b, o + t, w))
    BY <1>2, <1>6, <2>2, <2>3, <2>4, FramesUnfold
  <2> QED
    BY <2>5, <2>6
<1> QED
  BY <1>9, <1>10 DEF u, t

-----------------------------------------------------------------------------
LEMMA ValidPingIs ==
  ASSUME NEW d \in Seq(Byte)
  PROVE  IsValidPing(d) <=> StartsWithPing(d)
<1>0. Len(d) \in Nat
  BY LenProperties
<1>1. CASE Len(d) < 6
  <2>1. ~IsValidPing(d)
    BY <1>0, <1>1 DEF IsValidPing, HeaderSize, CsumSize
  <2>2. ASSUME FrameAt(d, 0) PROVE FALSE
    <3>1. Len(d) - 0 >= 5 /\ 0 + (5 + 1 + d[0 + 4]) <= Len(d)
      BY <2>2 DEF FrameAt, BeginsFrame, FrameSize, HeaderSize, CsumSize
    <3>2. d[0 + 4] \in Nat
      <4>1. 0 + 4 \in 1..Len(d)
        BY <1>0, <3>1
      <4> QED
        BY <4>1, ElementOfSeq, ByteType
    <3> QED
      BY <1>0, <1>1, <3>1, <3>2
  <2> QED
    BY <2>1, <2>2 DEF StartsWithPing
<1>2. CASE Len(d) >= 6
  <2>1. FrameAt(d, 0)
        <=> /\ IsHead(d, 0) /\ Size(d, 0) <= MaxPayload
            /\ Avail(d, 0) >= Total(d, 0) /\ CsumHolds(d, 0)
    <3>1. 0 \in Nat /\ 0 + HeaderSize <= Len(d)
      BY <1>0, <1>2 DEF HeaderSize
    <3> QED
      BY <3>1, ScannedIsBuilt
  <2>2. Avail(d, 0) = Len(d)
    BY <1>0 DEF Avail
  <2>3. Cmd(d, 0) = d[5] /\ Len(d) >= HeaderSize + CsumSize
    BY <1>0, <1>2 DEF Cmd, HeaderSize, CsumSize
  <2> QED
    BY <2>1, <2>2, <2>3 DEF IsValidPing, StartsWithPing
<1> QED
  BY <1>0, <1>1, <1>2

(* Between two calls of the scanner no handler runs; a datagram has none   *)
(* run but that of a manual word; and one that starts with a PING has been *)
(* heeded.                                                                 *)
LatchInv ==
  /\ Idle => job = NoJob
  /\ src \in Peer /\ job # NoJob => job.cmd = "manual"
  /\ src \in Peer /\ StartsWithPing(buf) => endpoint = {src}

LatchStep ==
  /\ src \in Peer => UNCHANGED <<chnl, tx, client, rx>>
  /\ endpoint' \notin {endpoint, {}} => endpoint' = {src'} /\ StartsWithPing(buf')
  /\ src' \in Peer /\ StartsWithPing(buf') => endpoint' = {src'}

LEMMA EndClears == End \/ SessionEdge => job' = NoJob
BY DEF End, SessionEdge

LEMMA LatchHolds == WireInv /\ LatchInv /\ [Next]_vars => LatchInv' /\ LatchStep
<1> SUFFICES ASSUME WireInv, LatchInv, [Next]_vars PROVE LatchInv' /\ LatchStep
  OBVIOUS
<1>0. "none" \notin Peer /\ "tcp" \notin Peer
  BY PeerAssumption
<1>1. CASE Connect \/ PeerGone
  <2>1. src = "none" /\ UNCHANGED <<endpoint, src, buf>> /\ job' = NoJob
    BY <1>1, EndClears DEF Connect, PeerGone, Drop, Idle
  <2> QED
    BY <1>0, <2>1 DEF LatchInv, LatchStep, Idle
<1>2. CASE SocketsClose
  <2>1. src = "none" /\ UNCHANGED <<src, buf>> /\ endpoint' = {} /\ job' = NoJob
    BY <1>2, EndClears DEF SocketsClose, Drop, Idle, LatchInv, arincVars
  <2> QED
    BY <1>0, <2>1 DEF LatchInv, LatchStep, Idle
<1>3. CASE Receive
  <2>1. src = "none" /\ src' = "tcp" /\ UNCHANGED <<job, endpoint>>
    BY <1>3 DEF Receive, Idle, arincVars
  <2> QED
    BY <1>0, <2>1 DEF LatchInv, LatchStep, Idle
<1>4. ASSUME NEW d \in Datagrams, NEW p \in Peer, Datagram(d, p)
      PROVE  LatchInv' /\ LatchStep
  <2>1. /\ src = "none" /\ src' = p /\ buf' = d /\ job' = job
        /\ endpoint' = IF IsValidPing(d) THEN {p} ELSE endpoint
    BY <1>4 DEF Datagram, Idle, arincVars
  <2>2. IsValidPing(d) <=> StartsWithPing(d)
    BY InputAssumption, ValidPingIs
  <2>3. StartsWithPing(buf') <=> StartsWithPing(d)
    BY <2>1
  <2>4. job' = NoJob
    BY <2>1 DEF LatchInv, Idle
  <2> QED
    BY <1>0, <2>1, <2>2, <2>3, <2>4 DEF LatchInv, LatchStep, Idle
<1>5. CASE Skip \/ DispatchOther
  <2>1. UNCHANGED <<arincVars, client, rx, endpoint, src, buf>>
    BY <1>5 DEF Skip, DispatchOther
  <2> QED
    BY <2>1 DEF LatchInv, LatchStep, Idle, arincVars
<1>6. CASE DispatchBatch
  <2>1. PICK c \in BatchCommand :
          CodeOf[c] = Cmd(buf, off) /\ Begin(c, Records(c, Payload(buf, off)))
    BY <1>6 DEF DispatchBatch
  <2>2. /\ UNCHANGED <<chnl, tx, client, rx, endpoint, src, buf>>
        /\ job'.cmd = c /\ ~Idle
    BY <1>6, <2>1 DEF DispatchBatch, AtFrame, Scanning, Begin
  <2>3. src \in Peer => c = "manual"
    BY <1>0, <1>6, <2>1 DEF DispatchBatch, Dropped, TcpOnly
  <2> QED
    BY <2>2, <2>3 DEF LatchInv, LatchStep, Idle
<1>7. CASE OtherAnswerFails \/ AnswerFails
  <2>1. src = "tcp" /\ UNCHANGED <<endpoint, src, buf>>
    BY <1>7 DEF OtherAnswerFails, AnswerFails
  <2> QED
    BY <1>0, <2>1 DEF LatchInv, LatchStep, Idle
<1>8. CASE Handle
  <2>1. UNCHANGED <<client, rx, endpoint, src, buf>> /\ RecordStep
    BY <1>8 DEF Handle, commVars
  <2>2. job' = job /\ job # NoJob
    BY <2>1 DEF RecordStep, SetupRecord, EnableRecord, ManualRecord, AddRecord,
                UpdateRecord, BuildRecord, Pending, NoJob
  <2>3. job.cmd = "manual" => UNCHANGED <<chnl, tx>>
    BY <2>1 DEF RecordStep, SetupRecord, EnableRecord, ManualRecord, AddRecord,
                UpdateRecord, BuildRecord, Pending
  <2> QED
    BY <2>1, <2>2, <2>3 DEF LatchInv, LatchStep, Idle
<1>9. CASE Answer
  <2>1. UNCHANGED <<chnl, tx, client, rx, endpoint, src, buf>> /\ job' = NoJob
    BY <1>9, EndClears DEF Answer, Answered, commVars
  <2> QED
    BY <2>1 DEF LatchInv, LatchStep, Idle
<1>10. CASE InputDone
  <2>1. /\ src' = "none" /\ UNCHANGED <<chnl, tx, job, client, endpoint>>
        /\ job = NoJob /\ (src \in Peer => rx' = rx)
    BY <1>0, <1>10 DEF InputDone, Scanning, arincVars
  <2> QED
    BY <1>0, <2>1 DEF LatchInv, LatchStep, Idle
<1>11. ASSUME NEW bytes \in Items, Send(bytes) PROVE LatchInv' /\ LatchStep
  <2>1. UNCHANGED <<arincVars, client, rx, endpoint, src, buf>>
    BY <1>11 DEF Send
  <2> QED
    BY <2>1 DEF LatchInv, LatchStep, Idle, arincVars
<1>12. CASE UNCHANGED vars
  BY <1>12 DEF vars, commVars, arincVars, LatchInv, LatchStep, Idle
<1> QED
  BY <1>1, <1>2, <1>3, <1>4, <1>5, <1>6, <1>7, <1>8, <1>9, <1>10, <1>11, <1>12
     DEF Next

(* Whatever a datagram holds, it configures nothing and drops nobody; and  *)
(* the card's datagrams move to the sender of one that starts with a whole *)
(* PING, for every PING there is, and to nobody else (udp_service,         *)
(* udp_is_valid_ping, the guard of comm_dispatch).                         *)
THEOREM LatchCorrect == Spec => DatagramsOnlyLatch
<1>1. Init => LatchInv
  BY PeerAssumption DEF Init, ArincInit, LatchInv, Idle
<1>2. Spec => [](WireInv /\ LatchInv)
  BY <1>1, WireInitHolds, WireStepHolds, LatchHolds, PTL DEF Spec
<1>3. WireInv /\ LatchInv /\ [Next]_vars => [LatchStep]_vars
  BY LatchHolds
<1>4. Spec => [][LatchStep]_vars
  BY <1>2, <1>3, PTL DEF Spec
<1> QED
  BY <1>4 DEF DatagramsOnlyLatch, LatchStep
-----------------------------------------------------------------------------
(* The unread stream, by who is scanned *)
LEMMA UnreadIs ==
  ASSUME CommTypeOK
  PROVE  /\ src = "tcp" => Unread = Rest(buf, off, wire)
         /\ src # "tcp" => Unread = rx \o wire
         /\ rx \in Seq(Byte) /\ wire \in Seq(Byte) /\ buf \in Seq(Byte)
         /\ off \in Nat /\ off <= Len(buf) /\ Len(buf) \in Nat
<1>1. rx \in Seq(Byte) /\ wire \in Seq(Byte) /\ buf \in Seq(Byte) /\ off \in 0..Len(buf)
  BY DEF CommTypeOK
<1>2. Len(buf) \in Nat
  BY <1>1, LenProperties
<1>3. off \in Nat /\ off <= Len(buf)
  BY <1>1, <1>2
<1>4. /\ src = "tcp" => Unread = Rest(buf, off, wire)
      /\ src # "tcp" => Unread = rx \o wire
  BY DEF Unread, Rest
<1> QED
  BY <1>1, <1>2, <1>3, <1>4

SameFrames == FramesOf(Unread') = FramesOf(Unread)

(* The bytes that are read are those that had been received. *)
LEMMA ReceiveKeeps == WireInv /\ Receive => Unread' = Unread
<1> SUFFICES ASSUME WireInv, Receive PROVE Unread' = Unread
  OBVIOUS
<1>0. CommTypeOK /\ src = "none" /\ client
  BY DEF WireInv, Receive, Idle
<1>1. rx \in Seq(Byte) /\ wire \in Seq(Byte) /\ Unread = rx \o wire
  BY <1>0, UnreadIs
<1>2. Len(rx) # RxSize
  BY <1>0, <1>1, RxSizeAssumption, ByteType, LenProperties DEF CommTypeOK, Idle
<1>3. PICK n \in 1..(RxSize - Len(rx)) :
         /\ n <= Len(wire)
         /\ buf' = rx \o SubSeq(wire, 1, n)
         /\ wire' = SubSeq(wire, n + 1, Len(wire))
  BY <1>2 DEF Receive
<1>4. n \in Nat /\ n \in 1..Len(wire) /\ Len(wire) \in Nat
  BY <1>1, <1>3, RxSizeAssumption, LenProperties
<1> DEFINE p == SubSeq(wire, 1, n)
           q == SubSeq(wire, n + 1, Len(wire))
<1>5. p \in Seq(Byte) /\ q \in Seq(Byte)
  <2>1. /\ 1 \in Nat \ {0} /\ n \in Int /\ n <= Len(wire)
        /\ n + 1 \in Nat \ {0} /\ Len(wire) \in Int /\ Len(wire) <= Len(wire)
    BY <1>4
  <2> QED
    BY <1>1, <2>1, PartType
<1>6. p \o q = wire
  <2> DEFINE m == 1
             l == Len(wire)
  <2>1. /\ m \in 1..Len(wire) + 1 /\ n \in m - 1..Len(wire) /\ l \in n..Len(wire)
    BY <1>4
  <2> HIDE DEF m, l
  <2>2. SubSeq(wire, m, n) \o SubSeq(wire, n + 1, l) = SubSeq(wire, m, l)
    BY <1>1, <2>1, ConcatAdjacentSubSeq
  <2>3. SubSeq(wire, 1, Len(wire)) = wire
    BY <1>1, SubSeqFull
  <2>4. SubSeq(wire, 1, n) \o SubSeq(wire, n + 1, Len(wire)) = SubSeq(wire, 1, Len(wire))
    BY <2>2 DEF m, l
  <2> QED
    BY <2>3, <2>4
<1> HIDE DEF p, q
<1>7. /\ src' = "tcp" /\ off' = 0 /\ buf' = rx \o p /\ wire' = q
  BY <1>3 DEF Receive, p, q
<1>8. buf' \in Seq(Byte)
  BY <1>1, <1>5, <1>7, ConcatProperties
<1>9. SubSeq(buf', off' + 1, Len(buf')) = buf'
  <2>1. SubSeq(buf', 1, Len(buf')) = buf'
    BY <1>8, SubSeqFull
  <2>2. off' + 1 = 1
    BY <1>7
  <2> QED
    BY <2>1, <2>2
<1>10. Unread' = buf' \o wire'
  BY <1>7, <1>9 DEF Unread
<1>11. (rx \o p) \o q = rx \o (p \o q)
  BY <1>1, <1>5, ConcatAssociative, SMTT(60)
<1> QED
  BY <1>1, <1>6, <1>7, <1>10, <1>11

LEMMA SkipKeeps == WireInv /\ Skip => SameFrames
<1> SUFFICES ASSUME WireInv, Skip PROVE SameFrames
  OBVIOUS
<1>0. /\ CommTypeOK /\ Skipped(buf, off) /\ off' = off + 1
      /\ UNCHANGED <<wire, rx, src, buf>>
  BY DEF WireInv, Skip
<1>1. CASE src = "tcp"
  <2>1. Unread = Rest(buf, off, wire) /\ Unread' = Rest(buf, off + 1, wire)
    BY <1>0, <1>1, UnreadIs DEF Unread, Rest
  <2>2. FramesOf(Rest(buf, off, wire)) = FramesOf(Rest(buf, off + 1, wire))
    <3>1. Avail(buf, off) >= HeaderSize
      BY <1>0 DEF Skipped
    <3> QED
      BY <1>0, <3>1, UnreadIs, ScanInStream
  <2> QED
    BY <2>1, <2>2 DEF SameFrames
<1>2. CASE src # "tcp"
  BY <1>0, <1>2 DEF SameFrames, Unread
<1> QED
  BY <1>1, <1>2

(* One frame is taken off the stream. *)
LEMMA ConsumeTakes ==
  ASSUME WireInv, IsWhole(buf, off), Consume, UNCHANGED <<wire, rx, src, buf>>
  PROVE  StreamStep
<1>0. /\ CommTypeOK /\ off' = off + Total(buf, off) /\ Avail(buf, off) >= HeaderSize
  BY DEF WireInv, Consume, IsWhole
<1>1. CASE src = "tcp"
  <2>1. /\ Unread = Rest(buf, off, wire)
        /\ Unread' = Rest(buf, off + Total(buf, off), wire)
    BY <1>0, <1>1, UnreadIs DEF Unread, Rest
  <2>2. FramesOf(Rest(buf, off, wire))
          = <<SubSeq(buf, off + 1, off + Total(buf, off))>>
               \o FramesOf(Rest(buf, off + Total(buf, off), wire))
    BY <1>0, UnreadIs, ScanInStream
  <2>3. off' > off + 1
    <3>1. off \in Nat /\ buf \in Seq(Byte) /\ Len(buf) - off >= HeaderSize
      BY <1>0, UnreadIs DEF Avail
    <3>2. FrameSize(buf, off) = Total(buf, off) /\ FrameSize(buf, off) \in Nat
          /\ FrameSize(buf, off) >= 6
      BY <3>1, SizeType
    <3> QED
      BY <1>0, <3>1, <3>2
  <2> QED
    BY <1>0, <1>1, <2>1, <2>2, <2>3 DEF StreamStep
<1>2. CASE src # "tcp"
  BY <1>2 DEF StreamStep, Unread
<1> QED
  BY <1>1, <1>2

LEMMA InputDoneKeeps == WireInv /\ InputDone /\ client => Unread' = Unread /\ off' = 0
<1> SUFFICES ASSUME WireInv, InputDone, client PROVE Unread' = Unread /\ off' = 0
  OBVIOUS
<1>1. /\ src' = "none" /\ wire' = wire /\ off' = 0
      /\ rx' = IF src = "tcp" THEN SubSeq(buf, off + 1, Len(buf)) ELSE rx
  BY DEF InputDone
<1> QED
  BY <1>1 DEF Unread

(* What the host has sent grows, if it sends anything. *)
LEMMA SendGrows ==
  ASSUME WireInv, NEW bytes \in Items, Send(bytes), Len(Unread') <= Len(Unread)
  PROVE  Unread' = Unread
<1>0. /\ CommTypeOK /\ src = "none" /\ wire' = wire \o bytes
      /\ UNCHANGED <<rx, src>> /\ bytes \in Seq(Byte)
  BY InputAssumption DEF WireInv, Send, Idle
<1>1. rx \in Seq(Byte) /\ wire \in Seq(Byte) /\ Unread = rx \o wire
  BY <1>0, UnreadIs
<1>2. Unread' = rx \o (wire \o bytes)
  BY <1>0 DEF Unread
<1>3. /\ Len(rx) \in Nat /\ Len(wire) \in Nat /\ Len(bytes) \in Nat
      /\ wire \o bytes \in Seq(Byte) /\ Len(wire \o bytes) = Len(wire) + Len(bytes)
  BY <1>0, <1>1, ConcatProperties, LenProperties
<1>4. Len(Unread') = Len(rx) + (Len(wire) + Len(bytes)) /\ Len(Unread) = Len(rx) + Len(wire)
  BY <1>1, <1>2, <1>3, ConcatProperties
<1>5. Len(bytes) = 0
  BY <1>3, <1>4
<1>6. bytes = <<>>
  BY <1>0, <1>5, EmptySeq
<1>7. wire \o bytes = wire
  BY <1>1, <1>6, ConcatEmptySeq
<1> QED
  BY <1>1, <1>2, <1>7

LEMMA CutsStep ==
  ASSUME WireInv, [Next]_vars, client, client', Len(Unread') <= Len(Unread)
  PROVE  StreamStep
<1>0. off \in Nat
  BY UnreadIs DEF WireInv
<1>1. CASE Connect \/ PeerGone \/ SocketsClose \/ OtherAnswerFails \/ AnswerFails
  BY <1>1 DEF Connect, PeerGone, SocketsClose, OtherAnswerFails, AnswerFails, Drop
<1>2. CASE Receive
  <2>1. src # "tcp"
    BY <1>2 DEF Receive, Idle
  <2> QED
    BY <1>2, <2>1, ReceiveKeeps DEF StreamStep
<1>3. ASSUME NEW d \in Datagrams, NEW p \in Peer, Datagram(d, p) PROVE StreamStep
  <2>1. src = "none" /\ src' = p /\ UNCHANGED <<rx, wire>>
    BY <1>3 DEF Datagram, Idle
  <2> QED
    BY <2>1, PeerAssumption DEF StreamStep, Unread
<1>4. CASE Skip
  <2>1. off' = off + 1 /\ ~(off' > off + 1)
    BY <1>0, <1>4 DEF Skip
  <2> QED
    BY <1>4, <2>1, SkipKeeps DEF StreamStep, SameFrames
<1>5. CASE DispatchBatch \/ DispatchOther
  BY <1>5, ConsumeTakes DEF DispatchBatch, DispatchOther, AtFrame
<1>6. CASE Handle \/ Answer \/ UNCHANGED vars
  <2>1. UNCHANGED commVars
    BY <1>6 DEF Handle, Answer, vars
  <2>2. UNCHANGED <<src, buf, off, rx, wire>> /\ ~(off' > off + 1)
    BY <1>0, <2>1 DEF commVars
  <2> QED
    BY <2>2 DEF StreamStep, Unread
<1>7. CASE InputDone
  <2>1. Unread' = Unread /\ ~(off' > off + 1)
    BY <1>0, <1>7, InputDoneKeeps
  <2> QED
    BY <2>1 DEF StreamStep
<1>8. ASSUME NEW bytes \in Items, Send(bytes) PROVE StreamStep
  <2>1. Unread' = Unread /\ src # "tcp"
    BY <1>8, SendGrows DEF Send, Idle
  <2> QED
    BY <2>1 DEF StreamStep
<1> QED
  BY <1>1, <1>2, <1>3, <1>4, <1>5, <1>6, <1>7, <1>8 DEF Next

(* However the stream is cut into reads, whatever in it makes no frame and *)
(* whatever datagrams come in between: while a session lasts, the frames   *)
(* that a byte-by-byte reading of the whole stream finds are dispatched,   *)
(* each once and in their order, and no byte of one is ever skipped        *)
(* (tcp_client_service and its compaction, comm_core_input).               *)
THEOREM CutsCorrect == Spec => CutsDoNotMatter
<1> DEFINE A == client /\ client' /\ Len(Unread') <= Len(Unread) => StreamStep
<1>1. WireInv /\ [Next]_vars => [A]_vars
  BY CutsStep
<1>2. Spec => [][A]_vars
  <2> HIDE DEF A
  <2> QED
    BY <1>1, WireInductive, PTL DEF Spec
<1> QED
  BY <1>2 DEF CutsDoNotMatter

=================================================================================
