----------------------------- MODULE AtaProofs ------------------------------
(***************************************************************************)
(* A successful read is of the sector asked for, and a failed write never  *)
(* reaches the disk: for any disk, any number of calls and a drive that    *)
(* may be slow or fail at any time.                                        *)
(***************************************************************************)
EXTENDS Ata, TLAPS

Committing == Busy /\ dev.op = "commit"

\* While the driver waits for DRQ, the drive works on the driver's command: a late
\* answer cannot be taken for it.
OwnCommand ==
    pc \in {"wait_identify", "wait_drq"} => dev.op = call.op /\ dev.lba = call.lba

\* What a drive offers is the sector's content, and nothing is on its way to the
\* disk once a read has returned it.
OffersSector == Drq /\ dev.op = "read" => dev.val = media[dev.lba]

QuietAfterRead == pc = "idle" /\ ret.op = "read" /\ ret.err = "ATA_OK" => ~ Busy

\* The disk, and what is on its way to it, hold no failed write and no write to come.
NoFailedWrite ==
    /\ failed \subseteq 1 .. writes
    /\ \A lba \in Sectors : media[lba] \in (0 .. writes) \ failed
    /\ Committing => dev.val \in (0 .. writes) \ failed

\* Until its data is handed over, the write under way is nowhere.
Fresh ==
    pc \in {"wait_busy", "wait_drq"} /\ call.op = "write" =>
        /\ call.val = writes
        /\ writes \in Nat \ {0}
        /\ writes \notin failed
        /\ \A lba \in Sectors : media[lba] # writes
        /\ Committing => dev.val # writes

\* Only a write gets past wait_drq without returning, and only identify waits twice.
Phases ==
    /\ pc \in {"flush", "written"} => call.op = "write"
    /\ pc = "wait_identify" => call.op = "identify"

AtaInv ==
    /\ TypeOK
    /\ OwnCommand /\ OffersSector /\ QuietAfterRead
    /\ ReadReturnsSector
    /\ NoFailedWrite /\ Fresh /\ Phases

\* The initial states satisfy the invariant.
LEMMA InitInv == Init => AtaInv
<1> SUFFICES ASSUME Init PROVE AtaInv
  OBVIOUS
<1>1. TypeOK
  BY AtaAssumption DEF Init, TypeOK, Calls, Ops
<1>2. OwnCommand /\ OffersSector /\ QuietAfterRead /\ ReadReturnsSector /\ Phases
  BY DEF Init, OwnCommand, OffersSector, QuietAfterRead, ReadReturnsSector, Phases, Drq
<1>3. NoFailedWrite /\ Fresh
  BY DEF Init, NoFailedWrite, Fresh, Committing, Busy
<1> QED
  BY <1>1, <1>2, <1>3 DEF AtaInv

\* Every step keeps the type.
LEMMA StepType == TypeOK /\ [Next]_vars => TypeOK'
<1> SUFFICES ASSUME TypeOK, [Next]_vars PROVE TypeOK'
  OBVIOUS
<1> USE AtaAssumption DEF TypeOK, Calls, Ops, Errors
<1>1. ASSUME NEW lba \in Sectors, ata_read_sector(lba) \/ ata_write_sector(lba) PROVE TypeOK'
  <2>1. CASE ata_read_sector(lba)
    BY <2>1 DEF ata_read_sector
  <2>2. CASE ata_write_sector(lba)
    <3>1. writes + 1 \in 0 .. MaxWrites
      BY <2>2 DEF ata_write_sector
    <3> QED
      BY <2>2, <3>1 DEF ata_write_sector
  <2> QED
    BY <1>1, <2>1, <2>2
<1>2. CASE Issue \/ Flush
  <2>1. \A op \in {"identify", "read", "write", "flush"} :
          Command(op, call.lba) \in [state : {"ready", "busy", "data"}, err : BOOLEAN,
                                     op : Ops \cup {"commit", "flush"}, lba : Sectors, val : Nat]
    BY DEF Command
  <2> QED
    BY <1>2, <2>1 DEF Issue, Flush
<1>3. CASE BusyTimeout
  BY <1>3 DEF BusyTimeout, Return
<1>4. CASE Identified
  BY <1>4 DEF Identified
<1>5. CASE DeviceError
  BY <1>5 DEF DeviceError, Return
<1>6. CASE DrqTimeout
  BY <1>6 DEF DrqTimeout, Return
<1>7. CASE ReadData
  BY <1>7 DEF ReadData, Return
<1>8. CASE WriteData
  BY <1>8 DEF WriteData
<1>9. CASE Written
  BY <1>9 DEF Written, Return
<1>10. CASE DriveData \/ DriveCommit \/ DriveFlushed \/ DriveFails
  <2>1. CASE DriveData
    BY ZenonT(60), <2>1 DEF DriveData
  <2>2. CASE DriveCommit
    BY <2>2 DEF DriveCommit
  <2>3. CASE DriveFlushed
    BY <2>3 DEF DriveFlushed
  <2>4. CASE DriveFails
    BY ZenonT(60), <2>4 DEF DriveFails
  <2> QED
    BY <1>10, <2>1, <2>2, <2>3, <2>4
<1>11. CASE UNCHANGED vars
  BY <1>11 DEF vars
<1> QED
  BY <1>1, <1>2, <1>3, <1>4, <1>5, <1>6, <1>7, <1>8, <1>9, <1>10, <1>11 DEF Next, Driver

\* Every step keeps the invariant.
LEMMA StepInv == AtaInv /\ [Next]_vars => AtaInv'
<1> SUFFICES ASSUME AtaInv, [Next]_vars PROVE AtaInv'
  OBVIOUS
<1>0. TypeOK /\ TypeOK'
  BY StepType DEF AtaInv
<1> USE <1>0 DEF Busy, Drq, Committing
<1>1. OwnCommand'
  <2>1. ASSUME NEW lba \in Sectors, ata_read_sector(lba) \/ ata_write_sector(lba) PROVE OwnCommand'
    BY <2>1 DEF ata_read_sector, ata_write_sector, OwnCommand
  <2>2. CASE Issue
    BY <2>2 DEF Issue, Command, OwnCommand
  <2>3. CASE BusyTimeout \/ DeviceError \/ DrqTimeout \/ ReadData \/ Written
    BY <2>3 DEF BusyTimeout, DeviceError, DrqTimeout, ReadData, Written, Return, OwnCommand
  <2>4. CASE Identified \/ WriteData \/ Flush
    BY <2>4 DEF Identified, WriteData, Flush, OwnCommand, AtaInv
  <2>5. CASE DriveData \/ DriveCommit \/ DriveFlushed \/ DriveFails
    BY ZenonT(60), <2>5 DEF DriveData, DriveCommit, DriveFlushed, DriveFails, OwnCommand, AtaInv, TypeOK
  <2>6. CASE UNCHANGED vars
    BY <2>6 DEF vars, OwnCommand, AtaInv
  <2> QED
    BY <2>1, <2>2, <2>3, <2>4, <2>5, <2>6 DEF Next, Driver
<1>2. OffersSector'
  <2>1. CASE UNCHANGED <<dev, media>>
    BY <2>1 DEF OffersSector, AtaInv
  <2>2. CASE Issue \/ Flush
    BY <2>2 DEF Issue, Flush, Command, OffersSector, AtaInv
  <2>3. CASE ReadData \/ WriteData \/ DriveCommit \/ DriveFlushed \/ DriveFails
    <3>1. ~ Drq'
      BY ZenonT(60), <2>3 DEF ReadData, WriteData, DriveCommit, DriveFlushed, DriveFails, TypeOK
    <3> QED
      BY <3>1 DEF OffersSector
  <2>4. CASE DriveData
    BY <2>4 DEF DriveData, OffersSector, TypeOK
  <2> QED
    BY <2>1, <2>2, <2>3, <2>4
    DEF Next, Driver, vars, ata_read_sector, ata_write_sector, BusyTimeout, Identified,
        DeviceError, DrqTimeout, Written
<1>3. QuietAfterRead' /\ ReadReturnsSector'
  <2>1. ASSUME NEW lba \in Sectors, ata_read_sector(lba) \/ ata_write_sector(lba)
        PROVE  QuietAfterRead' /\ ReadReturnsSector'
    BY <2>1 DEF ata_read_sector, ata_write_sector, QuietAfterRead, ReadReturnsSector
  <2>2. CASE Issue \/ Identified \/ WriteData \/ Flush
    BY <2>2 DEF Issue, Identified, WriteData, Flush, QuietAfterRead, ReadReturnsSector
  <2>3. CASE BusyTimeout \/ DeviceError \/ DrqTimeout
    BY <2>3 DEF BusyTimeout, DeviceError, DrqTimeout, Return, QuietAfterRead, ReadReturnsSector
  <2>4. CASE Written
    BY <2>4 DEF Written, Return, QuietAfterRead, ReadReturnsSector, AtaInv, Phases
  <2>5. CASE ReadData
    <3>1. call.op = "read" => dev.val = media[call.lba]
      BY <2>5 DEF ReadData, AtaInv, OwnCommand, OffersSector
    <3> QED
      BY <2>5, <3>1 DEF ReadData, Return, QuietAfterRead, ReadReturnsSector, TypeOK
  <2>6. CASE DriveData \/ DriveCommit \/ DriveFlushed \/ DriveFails
    <3>1. Busy /\ UNCHANGED <<pc, ret>>
      BY <2>6 DEF DriveData, DriveCommit, DriveFlushed, DriveFails
    <3> QED
      BY <3>1 DEF QuietAfterRead, ReadReturnsSector, AtaInv
  <2>7. CASE UNCHANGED vars
    BY <2>7 DEF vars, QuietAfterRead, ReadReturnsSector, AtaInv
  <2> QED
    BY <2>1, <2>2, <2>3, <2>4, <2>5, <2>6, <2>7 DEF Next, Driver
<1>4. NoFailedWrite' /\ Fresh'
  <2>1. ASSUME NEW lba \in Sectors, ata_read_sector(lba) PROVE NoFailedWrite' /\ Fresh'
    BY <2>1 DEF ata_read_sector, NoFailedWrite, Fresh, AtaInv
  <2>2. ASSUME NEW lba \in Sectors, ata_write_sector(lba) PROVE NoFailedWrite' /\ Fresh'
    <3>1. /\ writes' = writes + 1 /\ writes \in Nat /\ call'.val = writes + 1
          /\ UNCHANGED <<dev, media, failed>>
      BY <2>2 DEF ata_write_sector, TypeOK
    <3>2. NoFailedWrite'
      BY <3>1 DEF NoFailedWrite, AtaInv
    <3>3. Fresh'
      BY <3>1 DEF Fresh, NoFailedWrite, AtaInv
    <3> QED
      BY <3>2, <3>3
  <2>3. CASE Issue \/ Flush
    <3>1. dev' = dev \/ ~ Committing'
      BY <2>3 DEF Issue, Flush, Command, TypeOK, Ops, Calls
    <3>2. /\ UNCHANGED <<call, media, writes, failed>>
          /\ pc' \in {"wait_busy", "wait_drq"} => pc = "wait_busy"
      BY <2>3 DEF Issue, Flush
    <3> QED
      BY <3>1, <3>2 DEF NoFailedWrite, Fresh, AtaInv
  <2>4. CASE BusyTimeout \/ DeviceError \/ DrqTimeout
    <3>1. pc \in {"wait_busy", "wait_identify", "wait_drq"} /\ UNCHANGED <<dev, media, writes>>
      BY <2>4 DEF BusyTimeout, DeviceError, DrqTimeout
    <3>2. pc' \in {"idle", "halted"}
      BY <2>4 DEF BusyTimeout, DeviceError, DrqTimeout, Return
    <3>3. failed' = failed \/ (call.op = "write" /\ failed' = failed \cup {call.val})
      BY <2>4 DEF BusyTimeout, DeviceError, DrqTimeout, Return
    <3>4. NoFailedWrite'
      BY <3>1, <3>3 DEF NoFailedWrite, Fresh, AtaInv, Phases, TypeOK
    <3> QED
      BY <3>2, <3>4 DEF Fresh
  <2>5. CASE Identified
    BY <2>5 DEF Identified, NoFailedWrite, Fresh, Phases, AtaInv
  <2>6. CASE ReadData \/ Written
    <3>1. UNCHANGED <<media, writes, failed>> /\ (dev' = dev \/ ~ Committing')
      BY <2>6 DEF ReadData, Written, Return, TypeOK
    <3>2. pc' \in {"idle", "halted"}
      BY <2>6 DEF ReadData, Written, Return
    <3> QED
      BY <3>1, <3>2 DEF NoFailedWrite, Fresh, AtaInv
  <2>7. CASE WriteData
    <3>1. /\ pc' = "flush" /\ dev'.val = call.val
          /\ UNCHANGED <<media, writes, failed>>
      BY <2>7 DEF WriteData, TypeOK
    <3>2. call.val = writes /\ writes \in Nat /\ writes \notin failed
      BY <2>7 DEF WriteData, AtaInv, Fresh
    <3> QED
      BY <3>1, <3>2 DEF NoFailedWrite, Fresh, AtaInv
  <2>8. CASE DriveCommit
    <3>1. /\ media' = [media EXCEPT ![dev.lba] = dev.val] /\ ~ Committing'
          /\ UNCHANGED <<pc, call, writes, failed>>
      BY <2>8 DEF DriveCommit, TypeOK
    <3>2. dev.val \in (0 .. writes) \ failed /\ Committing
      BY <2>8 DEF DriveCommit, AtaInv, NoFailedWrite
    <3> QED
      BY <3>1, <3>2 DEF NoFailedWrite, Fresh, AtaInv, TypeOK
  <2>9. CASE DriveData \/ DriveFlushed \/ DriveFails
    <3>1. ~ Committing' /\ UNCHANGED <<pc, call, media, writes, failed>>
      BY <2>9 DEF DriveData, DriveFlushed, DriveFails, TypeOK
    <3> QED
      BY <3>1 DEF NoFailedWrite, Fresh, AtaInv
  <2>10. CASE UNCHANGED vars
    BY <2>10 DEF vars, NoFailedWrite, Fresh, AtaInv
  <2> QED
    BY <2>1, <2>2, <2>3, <2>4, <2>5, <2>6, <2>7, <2>8, <2>9, <2>10 DEF Next, Driver
<1>5. Phases'
  <2>1. CASE pc' \in {"idle", "halted", "wait_busy"}
    BY <2>1 DEF Phases
  <2>2. CASE Issue \/ Identified \/ WriteData \/ Flush
    BY <2>2 DEF Issue, Identified, WriteData, Flush, Phases, AtaInv
  <2>3. CASE UNCHANGED <<pc, call>>
    BY <2>3 DEF Phases, AtaInv
  <2> QED
    BY <2>1, <2>2, <2>3
    DEF Next, Driver, vars, ata_read_sector, ata_write_sector, BusyTimeout, DeviceError, DrqTimeout,
        ReadData, Written, Return, DriveData, DriveCommit, DriveFlushed, DriveFails
<1> QED
  BY <1>1, <1>2, <1>3, <1>4, <1>5 DEF AtaInv

\* The invariant holds in every reachable state.
LEMMA InvAlways == Spec => []AtaInv
BY InitInv, StepInv, PTL DEF Spec

\* The driver's and the drive's state keep their type.
THEOREM TypeCorrect == Spec => []TypeOK
<1>1. AtaInv => TypeOK
  BY DEF AtaInv
<1> QED
  BY <1>1, InvAlways, PTL

\* No late answer of the drive is taken for the sector a read asked for.
THEOREM ReadsAreRight == Spec => []ReadReturnsSector
<1>1. AtaInv => ReadReturnsSector
  BY DEF AtaInv
<1> QED
  BY <1>1, InvAlways, PTL

\* A write that returned an error never reaches the disk.
THEOREM FailedWritesAreHarmless == Spec => []FailedWriteHarmless
<1>1. AtaInv => FailedWriteHarmless
  BY DEF AtaInv, NoFailedWrite, FailedWriteHarmless
<1> QED
  BY <1>1, InvAlways, PTL

-----------------------------------------------------------------------------

\* Where the data of write v to sector l is once the drive has taken it: on its
\* way to the disk, on the disk, or lost by the drive.
Handed(v, l) ==
    IF Committing THEN dev.val = v /\ dev.lba = l ELSE media[l] = v \/ v \in botched

\* The write under way from its data on, and the last one that succeeded.
HandedInv ==
    /\ pc \in {"flush", "written"} => Handed(call.val, call.lba)
    /\ pc = "idle" /\ ret.op = "write" /\ ret.err = "ATA_OK" => Handed(ret.val, ret.lba)

\* Every step keeps track of the data: a flush command does not stop the drive, and
\* no other write is on its way.
LEMMA StepHanded == AtaInv /\ HandedInv /\ [Next]_vars => HandedInv'
<1> SUFFICES ASSUME AtaInv, HandedInv, [Next]_vars PROVE HandedInv'
  OBVIOUS
<1>0. TypeOK
  BY DEF AtaInv
<1> USE <1>0 DEF Busy, Drq, Committing
<1>1. ASSUME NEW lba \in Sectors, ata_read_sector(lba) \/ ata_write_sector(lba) PROVE HandedInv'
  BY <1>1 DEF ata_read_sector, ata_write_sector, HandedInv
<1>2. CASE Issue \/ Identified
  BY <1>2 DEF Issue, Identified, HandedInv
<1>3. CASE BusyTimeout \/ DeviceError \/ DrqTimeout
  BY <1>3 DEF BusyTimeout, DeviceError, DrqTimeout, Return, HandedInv
<1>4. CASE ReadData
  BY <1>4 DEF ReadData, Return, HandedInv
<1>5. CASE WriteData
  <2>1. dev.lba = call.lba
    BY <1>5 DEF WriteData, AtaInv, OwnCommand
  <2>2. pc' = "flush" /\ call' = call /\ dev'.val = call.val /\ dev'.lba = dev.lba /\ Committing'
    BY <1>5 DEF WriteData, TypeOK
  <2> QED
    BY <2>1, <2>2 DEF HandedInv, Handed
<1>6. CASE Flush
  <2>1. (dev' = dev \/ (~ Committing /\ ~ Committing')) /\ UNCHANGED <<call, media, botched>>
    BY <1>6 DEF Flush, Command
  <2>2. pc = "flush" /\ pc' = "written"
    BY <1>6 DEF Flush
  <2> QED
    BY <2>1, <2>2 DEF HandedInv, Handed
<1>7. CASE Written
  <2>1. /\ pc = "written" /\ UNCHANGED <<dev, media, botched>> /\ pc' # "flush" /\ pc' # "written"
        /\ ret'.val = call.val /\ ret'.lba = call.lba
    BY <1>7 DEF Written, Return
  <2> QED
    BY <2>1 DEF HandedInv, Handed
<1>8. CASE DriveCommit
  <2>1. /\ Committing /\ ~ Committing' /\ media'[dev.lba] = dev.val
        /\ UNCHANGED <<pc, call, ret, botched>>
    BY <1>8 DEF DriveCommit, TypeOK
  <2> QED
    BY <2>1 DEF HandedInv, Handed
<1>9. CASE DriveFails
  <2>1. /\ ~ Committing' /\ UNCHANGED <<pc, call, ret, media>>
        /\ botched \subseteq botched' /\ (Committing => dev.val \in botched')
    BY <1>9 DEF DriveFails, TypeOK
  <2> QED
    BY <2>1 DEF HandedInv, Handed
<1>10. CASE DriveData \/ DriveFlushed
  <2>1. ~ Committing /\ ~ Committing' /\ UNCHANGED <<pc, call, ret, media, botched>>
    BY <1>10 DEF DriveData, DriveFlushed, TypeOK, Ops
  <2> QED
    BY <2>1 DEF HandedInv, Handed
<1>11. CASE UNCHANGED vars
  BY <1>11 DEF vars, HandedInv, Handed
<1> QED
  BY <1>1, <1>2, <1>3, <1>4, <1>5, <1>6, <1>7, <1>8, <1>9, <1>10, <1>11 DEF Next, Driver

\* A write reported as successful is on the disk once the drive is idle, unless the
\* drive failed to store it.
THEOREM SuccessMeansStored == Spec => []StoredOnSuccess
<1>1. Init => HandedInv
  BY DEF Init, HandedInv
<1>2. HandedInv => StoredOnSuccess
  BY DEF HandedInv, Handed, Committing, StoredOnSuccess
<1> QED
  BY <1>1, <1>2, InvAlways, StepHanded, PTL DEF Spec
=============================================================================
