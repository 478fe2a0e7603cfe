----------------------------- MODULE ArincChannels -----------------------------
(***************************************************************************)
(* The ARINC 429 channels of the application build: the table g_chnl of    *)
(* comm_core.c, the transmit engine behind it (arinc_glue.c, a stub that   *)
(* drives no pins), and the handlers of the channel commands.              *)
(*                                                                         *)
(* A request is a batch of records, carried out one by one until one is    *)
(* refused; what went before stays in force and the answer names the       *)
(* record it stopped at.  The two files keep a table each.                 *)
(***************************************************************************)
EXTENDS Integers, Sequences

CONSTANTS
  Channel,     \* the channels of a direction: 0 .. ARINC_NUM_CHANNELS-1
  Lbl, Sdi,    \* label numbers and their source/destination identifiers
  MaxLabels    \* ATX_MAX_LABELS

ASSUME MaxLabelsAssumption == MaxLabels \in Nat

VARIABLES
  chnl,     \* g_chnl: setup and enabled, per direction and channel
  tx,       \* g_tx: setup, enabled, built and the declared labels, per channel
  job,      \* the request under way: its command and its records
  at,       \* how many of its records have been looked at
  status    \* what the last of them came to

arincVars == <<chnl, tx, job, at, status>>
-----------------------------------------------------------------------------
Dir == {"tx", "rx"}

BatchCommand == {"setup", "enable", "manual", "add", "update", "build"}
Status == {"ok", "error", "dir", "oor", "speed", "mode", "not_init", "full"}

(* A record names a channel and a direction, either of which may not exist.*)
(* Speed and mode are in their ranges, or the first that is not is named;  *)
(* "any" is sdi_is_data.  A command reads the fields it needs.             *)
Record ==
  [dir : Dir \cup {"none"}, ch : Int, params : {"ok", "speed", "mode"},
   on : BOOLEAN, any : BOOLEAN, lbl : Lbl, sdi : Sdi]

(* Only the set-up and enable commands name a direction. *)
RecordOf(cmd) == {r \in Record : cmd \in {"setup", "enable"} \/ r.dir = "tx"}

NoJob == [cmd |-> "none", records |-> <<>>]
Job   == [cmd : BatchCommand, records : Seq(Record)]

(* A label's word: never set, or its transmit flag from the last update *)
Label  == [lbl : Lbl, sdi : Sdi, word : {"unset", "off", "on"}]
TxState == [setup : BOOLEAN, enabled : BOOLEAN, built : BOOLEAN, labels : Seq(Label)]

ChnlOff == [d \in Dir |-> [c \in Channel |-> [setup |-> FALSE, enabled |-> FALSE]]]
TxCleared == [setup |-> FALSE, enabled |-> FALSE, built |-> FALSE, labels |-> <<>>]
TxFresh   == [setup |-> TRUE, enabled |-> FALSE, built |-> FALSE, labels |-> <<>>]
TxOff == [c \in Channel |-> TxCleared]

ArincInit ==
  /\ chnl = ChnlOff
  /\ tx = TxOff
  /\ job = NoJob
  /\ at = 0
  /\ status = "ok"

(* Mutant: the engine is not reset with the table. *)
ChannelsResetTable ==
  /\ chnl' = ChnlOff
  /\ UNCHANGED tx

(* channels_reset, with atx_glue_reset *)
ChannelsReset ==
  /\ chnl' = ChnlOff
  /\ tx' = TxOff
-----------------------------------------------------------------------------
(* A handler starts: a payload shorter than one record is an error, and    *)
(* TT_BUILD reads one channel and ignores what follows it.                 *)
Begin(cmd, records) ==
  /\ job = NoJob
  /\ cmd = "build" => Len(records) <= 1
  /\ job' = [cmd |-> cmd, records |-> records]
  /\ at' = 0
  /\ status' = IF records = <<>> THEN "error" ELSE "ok"
  /\ UNCHANGED <<chnl, tx>>

Finished == status # "ok" \/ at = Len(job.records)

(* Mutant: a batch goes on after a record that was refused. *)
PendingAll(cmd) ==
  /\ job.cmd = cmd
  /\ at < Len(job.records)

Pending(cmd) ==
  /\ job.cmd = cmd
  /\ status = "ok"
  /\ at < Len(job.records)

rec == job.records[at + 1]

SetupRecord ==
  /\ Pending("setup")
  /\ at' = at + 1
  /\ status' = IF rec.dir \notin Dir THEN "dir"
               ELSE IF rec.ch \notin Channel THEN "oor" ELSE rec.params
  /\ IF status' = "ok"
     THEN /\ chnl' = [chnl EXCEPT ![rec.dir][rec.ch] =
                        [setup |-> TRUE, enabled |-> FALSE]]
          /\ tx' = IF rec.dir = "tx"
                   THEN [tx EXCEPT ![rec.ch] = TxFresh]
                   ELSE tx
     ELSE UNCHANGED <<chnl, tx>>
  /\ UNCHANGED job

EnableRecord ==
  /\ Pending("enable")
  /\ at' = at + 1
  /\ LET known == rec.dir \in Dir /\ rec.ch \in Channel
         init  == known /\ chnl[rec.dir][rec.ch].setup
         engine == rec.dir = "tx" => tx[rec.ch].setup
     IN  /\ status' = IF rec.dir \notin Dir THEN "dir"
                      ELSE IF ~known THEN "oor"
                      ELSE IF init /\ engine THEN "ok" ELSE "not_init"
         /\ chnl' = IF init THEN [chnl EXCEPT ![rec.dir][rec.ch].enabled = rec.on]
                    ELSE chnl
         /\ tx' = IF init /\ rec.dir = "tx" /\ engine
                  THEN [tx EXCEPT ![rec.ch].enabled = rec.on] ELSE tx
  /\ UNCHANGED job

(* A manual word goes out on a channel that is set up; the stub keeps none.*)
ManualRecord ==
  /\ Pending("manual")
  /\ at' = at + 1
  /\ status' = IF rec.ch \notin Channel THEN "oor"
               ELSE IF chnl["tx"][rec.ch].setup /\ tx[rec.ch].setup
               THEN "ok" ELSE "not_init"
  /\ UNCHANGED <<chnl, tx, job>>

AddRecord ==
  /\ Pending("add")
  /\ at' = at + 1
  /\ status' = IF rec.ch \notin Channel THEN "oor"
               ELSE IF ~tx[rec.ch].setup THEN "not_init"
               ELSE IF Len(tx[rec.ch].labels) >= MaxLabels THEN "full" ELSE "ok"
  /\ tx' = IF status' = "ok"
           THEN [tx EXCEPT ![rec.ch].built = FALSE,
                           ![rec.ch].labels = Append(@,
                              [lbl |-> rec.lbl, sdi |-> rec.sdi, word |-> "unset"])]
           ELSE tx
  /\ UNCHANGED <<chnl, job>>

(* atx_glue_set_label: the first label that matches takes the word; a word *)
(* for a label nobody declared is accepted.                                *)
Matching(labels, r) ==
  {i \in 1..Len(labels) : labels[i].lbl = r.lbl /\ (r.any \/ labels[i].sdi = r.sdi)}

SetLabel(labels, r) ==
  [i \in 1..Len(labels) |->
     IF i \in Matching(labels, r) /\ \A j \in Matching(labels, r) : i <= j
     THEN [labels[i] EXCEPT !.word = IF r.on THEN "on" ELSE "off"]
     ELSE labels[i]]

UpdateRecord ==
  /\ Pending("update")
  /\ at' = at + 1
  /\ status' = IF rec.ch \notin Channel THEN "oor"
               ELSE IF tx[rec.ch].setup THEN "ok" ELSE "not_init"
  /\ tx' = IF status' = "ok"
           THEN [tx EXCEPT ![rec.ch].labels = SetLabel(@, rec)] ELSE tx
  /\ UNCHANGED <<chnl, job>>

BuildRecord ==
  /\ Pending("build")
  /\ at' = at + 1
  /\ status' = IF rec.ch \notin Channel THEN "oor"
               ELSE IF tx[rec.ch].setup THEN "ok" ELSE "not_init"
  /\ tx' = IF status' = "ok" THEN [tx EXCEPT ![rec.ch].built = TRUE] ELSE tx
  /\ UNCHANGED <<chnl, job>>

RecordStep ==
  \/ SetupRecord \/ EnableRecord \/ ManualRecord
  \/ AddRecord \/ UpdateRecord \/ BuildRecord

(* The handler returns, with its answer given to the transport. *)
End ==
  /\ job # NoJob
  /\ Finished
  /\ job' = NoJob /\ at' = 0 /\ status' = "ok"

Answered == End /\ UNCHANGED <<chnl, tx>>

(* A session begins or ends: between two requests, or while an answer is   *)
(* given that cannot be sent.                                              *)
SessionEdge ==
  /\ ChannelsReset
  /\ \/ job = NoJob /\ UNCHANGED <<job, at, status>>
     \/ End

ArincNext ==
  \/ \E cmd \in BatchCommand : \E records \in Seq(RecordOf(cmd)) : Begin(cmd, records)
  \/ RecordStep
  \/ Answered
  \/ SessionEdge

ArincSpec == ArincInit /\ [][ArincNext]_arincVars
-----------------------------------------------------------------------------
ArincTypeOK ==
  /\ chnl \in [Dir -> [Channel -> [setup : BOOLEAN, enabled : BOOLEAN]]]
  /\ tx \in [Channel -> TxState]
  /\ \A c \in Channel : Len(tx[c].labels) <= MaxLabels
  /\ job \in Job \cup {NoJob}
  /\ job # NoJob => job.records \in Seq(RecordOf(job.cmd))
  /\ at \in 0..Len(job.records)
  /\ status \in Status

(* The table of comm_core.c and the engine of arinc_glue.c say the same of *)
(* every transmit channel, and what is off stays empty: so the engine      *)
(* never refuses what the table allowed, no channel runs that was not set  *)
(* up since the session began, and no timetable is left of an earlier one. *)
TablesAgree ==
  \A c \in Channel :
    /\ tx[c].setup = chnl["tx"][c].setup
    /\ tx[c].enabled = chnl["tx"][c].enabled
    /\ \A d \in Dir : chnl[d][c].enabled => chnl[d][c].setup
    /\ ~tx[c].setup => tx[c] = TxCleared

(* What a record asks for holds in both tables. *)
InForce(cmd, r) ==
  r.dir \in Dir /\ r.ch \in Channel /\
  CASE cmd = "setup"  -> chnl[r.dir][r.ch] = [setup |-> TRUE, enabled |-> FALSE]
    [] cmd = "enable" -> /\ chnl[r.dir][r.ch] = [setup |-> TRUE, enabled |-> r.on]
                         /\ r.dir = "tx" => tx[r.ch].enabled = r.on
    [] cmd = "add"    -> /\ ~tx[r.ch].built
                         /\ \E i \in 1..Len(tx[r.ch].labels) :
                              /\ tx[r.ch].labels[i].lbl = r.lbl
                              /\ tx[r.ch].labels[i].sdi = r.sdi
    [] cmd = "build"  -> tx[r.ch].built
    [] OTHER          -> chnl["tx"][r.ch].setup

(* When a batch is answered: every record of an accepted one is in force   *)
(* as far as no later record of it is about the same channel; of a refused *)
(* one, that is so for the records before the one the answer names, and    *)
(* that one could not be carried out.  The host can so tell from the       *)
(* answer what the channels are left at.                                   *)
Superseded(i, n) ==
  \E j \in (i + 1)..n : /\ job.records[j].ch = job.records[i].ch
                        /\ job.records[j].dir = job.records[i].dir

AnswerTellsTruth ==
  job # NoJob /\ Finished =>
    LET n == IF status = "ok" THEN at ELSE at - 1
    IN  /\ \A i \in 1..n : ~Superseded(i, n) => InForce(job.cmd, job.records[i])
        /\ status = "ok" => job.records # <<>> /\ at = Len(job.records)
        /\ status = "not_init" =>
             \A d \in Dir, c \in Channel :
               job.records[at].dir = d /\ job.records[at].ch = c => ~chnl[d][c].setup
================================================================================
