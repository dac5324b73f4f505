----------------------------- MODULE SectorDisk -----------------------------
(***************************************************************************)
(* What the three processors together promise the Z80: a set of disks it   *)
(* selects, reads and writes by whole sectors, one operation at a time.    *)
(*                                                                         *)
(*   - A read that reports success returns what the sector holds.          *)
(*   - A write that reports success has replaced the whole sector.         *)
(*   - A write that reports an error or is cut short has replaced the      *)
(*     whole sector or nothing, and does nothing once it has reported.     *)
(*   - Nothing else changes a disk.                                        *)
(***************************************************************************)
EXTENDS Integers, Sequences

CONSTANTS StoredNames, None, Requests, NoData

VARIABLES
  store,    \* the contents of every sector of every disk
  disk,     \* the disk in use
  op,       \* the last operation asked for
  outcome   \* how it ended, and the data it returned

sdVars == <<store, disk, op, outcome>>

Running == outcome.err = "PENDING"
CutShort == outcome.err = "RESET"

SDInit ==
  /\ disk = None
  /\ op \in Requests
  /\ op.kind = "select"
  /\ outcome = [err |-> "RESET", data |-> NoData]

Ask ==
  /\ ~Running
  /\ op' \in Requests
  /\ op'.kind = "select" \/ op'.disk = disk
  /\ disk' = IF op'.kind = "select" THEN None ELSE disk
  /\ outcome' = [err |-> "PENDING", data |-> NoData]
  /\ UNCHANGED store

Commit ==
  /\ Running \/ CutShort
  /\ op.kind = "write"
  /\ op.disk \in StoredNames
  /\ store' = [store EXCEPT ![op.disk][op.sector] = op.content]
  /\ UNCHANGED <<disk, op, outcome>>

Succeed ==
  /\ Running
  /\ \/ /\ op.kind = "select"
        /\ disk' = op.disk
        /\ outcome' = [err |-> "OK", data |-> NoData]
     \/ /\ op.kind = "read"
        /\ op.disk \in StoredNames
        /\ outcome' = [err |-> "OK", data |-> store[op.disk][op.sector]]
        /\ UNCHANGED disk
     \/ /\ op.kind = "write"
        /\ op.disk \in StoredNames
        /\ store[op.disk][op.sector] = op.content
        /\ outcome' = [err |-> "OK", data |-> NoData]
        /\ UNCHANGED disk
  /\ UNCHANGED <<store, op>>

Refuse ==
  /\ Running
  /\ outcome' \in [err : {"NOT_OPENED", "DISK_ERR", "UNEXPECTED_EOF",
                          "ABANDONED"},
                   data : {NoData}]
  /\ UNCHANGED <<store, disk, op>>

Restart ==
  /\ outcome' = [err |-> "RESET", data |-> NoData]
  /\ disk' = None
  /\ UNCHANGED <<store, op>>

SDNext == Ask \/ Commit \/ Succeed \/ Refuse \/ Restart

SDSpec == SDInit /\ [][SDNext]_sdVars
=============================================================================
