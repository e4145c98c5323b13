-------------------------------- MODULE Ata ---------------------------------
(***************************************************************************)
(* The disk driver (src/drivers/ata.c): polled reads and writes of one     *)
(* sector with timeouts, and a drive that works on at its own pace.        *)
(*                                                                         *)
(* The driver runs with interrupts disabled, one call at a time; its steps *)
(* interleave with the drive's.  A poll of the status register that finds  *)
(* nothing is no step; the last one allowed (timeout = 100000) is.  The    *)
(* drive is external: it takes a command unless it is busy, is busy from   *)
(* then on, drops what an earlier command left, and may fail any command.  *)
(* A drive is present.  The sector of a write is identified by the number  *)
(* of the write.                                                           *)
(***************************************************************************)
EXTENDS Integers

CONSTANTS
    Sectors,
    MaxWrites       \* bound: number of writes

ASSUME AtaAssumption ==
    /\ Sectors # {}
    /\ MaxWrites \in Nat

VARIABLES
    pc,             \* where the driver is
    call,           \* the call it serves
    ret,            \* the last call and what it returned
    dev,            \* the drive: BSY, DRQ, ERR and the command it works on
    media,          \* what is on the disk
    writes,         \* the number of writes so far
    failed,         \* history: the writes that returned an error
    botched         \* history: the writes the drive failed to store

vars == <<pc, call, ret, dev, media, writes, failed, botched>>

Ops == {"identify", "read", "write"}
Errors == {"ATA_OK", "ATA_ERR_TIMEOUT", "ATA_ERR_DRQ", "ATA_ERR_DEVICE"}
Calls == [op : Ops, lba : Sectors, val : Nat]

Busy == dev.state = "busy"          \* ATA_SR_BSY
Drq == dev.state = "data"           \* ATA_SR_DRQ

\* kernel_main: after ata_init, ata_identify is called.
Init ==
    /\ pc = "wait_busy"
    /\ \E lba \in Sectors : call = [op |-> "identify", lba |-> lba, val |-> 0]
    /\ ret = [op |-> "none"]
    /\ \E lba \in Sectors :
          dev = [state |-> "ready", err |-> FALSE, op |-> "identify", lba |-> lba, val |-> 0]
    /\ media = [lba \in Sectors |-> 0]
    /\ writes = 0
    /\ failed = {}
    /\ botched = {}

-----------------------------------------------------------------------------
(***************************************************************************)
(* The driver.                                                             *)
(***************************************************************************)

\* The drive once op has been written to its command register.
Command(op, lba) ==
    IF Busy THEN dev
    ELSE [state |-> "busy", err |-> FALSE, op |-> op, lba |-> lba, val |-> 0]

\* The end of the call; kernel_main halts (boot_fail) when ata_identify fails.
Return(err, val) ==
    /\ pc' = IF call.op = "identify" /\ err # "ATA_OK" THEN "halted" ELSE "idle"
    /\ ret' = [op |-> call.op, lba |-> call.lba, val |-> val, err |-> err]
    /\ failed' = IF call.op = "write" /\ err # "ATA_OK" THEN failed \cup {call.val} ELSE failed

\* ata_read_sector and ata_write_sector; a null buffer is refused by the caller.
ata_read_sector(lba) ==
    /\ pc = "idle"
    /\ pc' = "wait_busy"
    /\ call' = [op |-> "read", lba |-> lba, val |-> 0]
    /\ UNCHANGED <<ret, dev, media, writes, failed, botched>>

ata_write_sector(lba) ==
    /\ pc = "idle"
    /\ writes < MaxWrites      \* bound
    /\ writes' = writes + 1
    /\ pc' = "wait_busy"
    /\ call' = [op |-> "write", lba |-> lba, val |-> writes + 1]
    /\ UNCHANGED <<ret, dev, media, failed, botched>>

\* Mutant of Issue: the result of ata_wait_busy is not looked at.
IssueAnyway ==
    /\ pc = "wait_busy"
    /\ dev' = Command(call.op, call.lba)
    /\ pc' = IF call.op = "identify" THEN "wait_identify" ELSE "wait_drq"
    /\ UNCHANGED <<call, ret, media, writes, failed, botched>>

\* ata_wait_busy has returned ATA_OK: the registers and the command are written.
Issue ==
    /\ pc = "wait_busy" /\ ~ Busy
    /\ dev' = Command(call.op, call.lba)
    /\ pc' = IF call.op = "identify" THEN "wait_identify" ELSE "wait_drq"
    /\ UNCHANGED <<call, ret, media, writes, failed, botched>>

\* ata_wait_busy has given up.
BusyTimeout ==
    /\ pc \in {"wait_busy", "wait_identify"} /\ Busy
    /\ Return("ATA_ERR_TIMEOUT", 0)
    /\ UNCHANGED <<call, dev, media, writes, botched>>

\* ata_identify waits for BSY once more; the status is not zero.
Identified ==
    /\ pc = "wait_identify" /\ ~ Busy
    /\ pc' = "wait_drq"
    /\ UNCHANGED <<call, ret, dev, media, writes, failed, botched>>

\* ata_wait_drq looks at ERR first.
DeviceError ==
    /\ pc = "wait_drq" /\ dev.err
    /\ Return("ATA_ERR_DEVICE", 0)
    /\ UNCHANGED <<call, dev, media, writes, botched>>

\* Mutant of DrqTimeout: ata_wait_drq polls for ever.
DrqTimeoutNever == FALSE /\ UNCHANGED vars

\* ata_wait_drq has given up.
DrqTimeout ==
    /\ pc = "wait_drq" /\ ~ dev.err /\ ~ Drq
    /\ Return("ATA_ERR_DRQ", 0)
    /\ UNCHANGED <<call, dev, media, writes, botched>>

\* 256 words are read; those of ata_identify are thrown away.
ReadData ==
    /\ pc = "wait_drq" /\ ~ dev.err /\ Drq /\ call.op # "write"
    /\ dev' = [dev EXCEPT !.state = "ready"]
    /\ Return("ATA_OK", dev.val)
    /\ UNCHANGED <<call, media, writes, botched>>

\* 256 words are written, and the drive begins to put them on the disk.
WriteData ==
    /\ pc = "wait_drq" /\ ~ dev.err /\ Drq /\ call.op = "write"
    /\ dev' = [dev EXCEPT !.state = "busy", !.op = "commit", !.val = call.val]
    /\ pc' = "flush"
    /\ UNCHANGED <<call, ret, media, writes, failed, botched>>

\* The command 0xE7, which a busy drive does not take.
Flush ==
    /\ pc = "flush"
    /\ dev' = Command("flush", call.lba)
    /\ pc' = "written"
    /\ UNCHANGED <<call, ret, media, writes, failed, botched>>

\* Mutant of Written: the timeout of the last ata_wait_busy is returned.
WrittenOrTimeout ==
    /\ pc = "written"
    /\ Return(IF Busy THEN "ATA_ERR_TIMEOUT" ELSE "ATA_OK", 0)
    /\ UNCHANGED <<call, dev, media, writes, botched>>

\* The last ata_wait_busy is over; neither its result nor ERR is looked at.
Written ==
    /\ pc = "written"
    /\ Return("ATA_OK", call.val)
    /\ UNCHANGED <<call, dev, media, writes, botched>>

Driver ==
    \/ Issue \/ BusyTimeout \/ Identified
    \/ DeviceError \/ DrqTimeout \/ ReadData
    \/ WriteData \/ Flush \/ Written

-----------------------------------------------------------------------------
(***************************************************************************)
(* The drive.                                                              *)
(***************************************************************************)

DriveData ==
    /\ Busy /\ dev.op \in Ops
    /\ dev' = [dev EXCEPT !.state = "data", !.val = IF dev.op = "read" THEN media[dev.lba] ELSE 0]
    /\ UNCHANGED <<pc, call, ret, media, writes, failed, botched>>

DriveCommit ==
    /\ Busy /\ dev.op = "commit"
    /\ media' = [media EXCEPT ![dev.lba] = dev.val]
    /\ dev' = [dev EXCEPT !.state = "ready"]
    /\ UNCHANGED <<pc, call, ret, writes, failed, botched>>

DriveFlushed ==
    /\ Busy /\ dev.op = "flush"
    /\ dev' = [dev EXCEPT !.state = "ready"]
    /\ UNCHANGED <<pc, call, ret, media, writes, failed, botched>>

DriveFails ==
    /\ Busy
    /\ dev' = [dev EXCEPT !.state = "ready", !.err = TRUE]
    /\ botched' = IF dev.op = "commit" THEN botched \cup {dev.val} ELSE botched
    /\ UNCHANGED <<pc, call, ret, media, writes, failed>>

Next ==
    \/ \E lba \in Sectors : ata_read_sector(lba) \/ ata_write_sector(lba)
    \/ Driver
    \/ DriveData \/ DriveCommit \/ DriveFlushed \/ DriveFails

Spec == Init /\ [][Next]_vars

\* Only the driver is sure to go on; the drive may hang.
FairSpec == Spec /\ WF_vars(Driver)

-----------------------------------------------------------------------------
(***************************************************************************)
(* Properties.                                                             *)
(***************************************************************************)

\* Type invariant; a drive that is present is not reported missing.
TypeOK ==
    /\ pc \in {"idle", "halted", "wait_busy", "wait_identify", "wait_drq", "flush", "written"}
    /\ call \in Calls
    /\ ret \in [op : {"none"}] \cup [op : Ops, lba : Sectors, val : Nat, err : Errors]
    /\ dev \in [state : {"ready", "busy", "data"}, err : BOOLEAN,
                op : Ops \cup {"commit", "flush"}, lba : Sectors, val : Nat]
    /\ media \in [Sectors -> Nat]
    /\ writes \in 0 .. MaxWrites
    /\ failed \subseteq Nat
    /\ botched \subseteq Nat

\* A read that returns ATA_OK returns the sector that was asked for, although the
\* drive may still have been at work on a call that timed out, or answer it late.
ReadReturnsSector ==
    pc = "idle" /\ ret.op = "read" /\ ret.err = "ATA_OK" => ret.val = media[ret.lba]

\* A write that returned an error is never found on the disk, now or later.
FailedWriteHarmless == \A lba \in Sectors : media[lba] \notin failed

\* A write that returned ATA_OK is on the disk as soon as the drive is idle, unless
\* the drive failed to store it: that failure is the only one ata_write_sector
\* reports as success.
StoredOnSuccess ==
    pc = "idle" /\ ret.op = "write" /\ ret.err = "ATA_OK" /\ ~ Busy =>
        media[ret.lba] = ret.val \/ ret.val \in botched

\* Every call returns, even when the drive hangs.
CallReturns == [](pc # "idle" => <>(pc \in {"idle", "halted"}))
=============================================================================
