-------------------------------- MODULE Drive ---------------------------------
(***************************************************************************)
(* The disk driver: src/src/hdraw.c and the port routines of kentry.asm.   *)
(* The processor polls; the drive (external, an ATA disk) works at its own *)
(* pace and may answer after the driver has given up. Of the drive this is *)
(* assumed: a command ends the transfer that the one before it waits for;  *)
(* a command is ignored while the drive is busy; and then only the busy    *)
(* bit of the status means anything. What is written is in the drive's     *)
(* buffer first, and stored later or not at all. A drive that has not      *)
(* started up refuses all commands but IDENTIFY.                           *)
(***************************************************************************)
EXTENDS Integers

CONSTANTS
    SECTORS,   \* sectors of the drive
    Content,   \* what a sector can contain
    POLLS      \* how often IsBusy reads the status (500)

ASSUME DriveAssumption ==
    SECTORS \in Nat \ {0} /\ POLLS \in Nat \ {0} /\ Content # {}

VARIABLES
    dev,      \* the drive: status bits, the last command with its sector, its buffer
    sct,      \* the sectors of the drive
    sectors,  \* the static ret of HDRawSectors
    cpu       \* the call in progress: function, sector, buffer, where it is, its
              \* result, and the number i of polls

driveVars == << dev, sct, sectors, cpu >>

Lba == 0 .. SECTORS - 1

Unknown == -1   \* 0xFFFFFFFF: larger than every sector number

\* Sector numbers the file system asks for: below 2^28.
Si == 0 .. SECTORS

\* What two words of a sector may be taken for: every number that compares
\* differently with sector numbers.
Count == Si \union {Unknown, SECTORS + 1}

DriveInit ==
    /\ dev \in [bsy : {FALSE}, drdy : BOOLEAN, drq : {FALSE}, cmd : {"NONE"},
                lba : {0}, data : Content]
    /\ sct \in [Lba -> Content]
    /\ sectors = Unknown
    /\ cpu = [fn |-> "SIZE", si |-> 0, buf |-> CHOOSE c \in Content : TRUE,
              at |-> "return", ret |-> FALSE, i |-> 0]

-----------------------------------------------------------------------------
(* The drive *)

Start ==
    /\ ~dev.drdy
    /\ dev' = [dev EXCEPT !.drdy = TRUE]
    /\ UNCHANGED << sct, sectors, cpu >>

\* The drive offers data, or asks for it, if it can execute the command.
Answer ==
    /\ dev.bsy /\ dev.cmd \in {"IDENTIFY", "READ", "WRITE"}
    /\ dev.cmd # "IDENTIFY" => dev.lba \in Lba
    /\ dev' = [dev EXCEPT !.bsy = FALSE, !.drq = TRUE]
    /\ UNCHANGED << sct, sectors, cpu >>

\* What was written is stored.
Store ==
    /\ dev.bsy /\ dev.cmd = "STORE"
    /\ sct' = [sct EXCEPT ![dev.lba] = dev.data]
    /\ dev' = [dev EXCEPT !.bsy = FALSE]
    /\ UNCHANGED << sectors, cpu >>

\* The command is refused or fails: nothing is stored. The bits that would say so,
\* ERR and DF, are left out, because the driver looks at neither.
Refuse ==
    /\ dev.bsy
    /\ dev' = [dev EXCEPT !.bsy = FALSE]
    /\ UNCHANGED << sct, sectors, cpu >>

-----------------------------------------------------------------------------
(* Ports *)

\* WritePorts with the values of MakeRegVals.
WritePorts(lba, command) ==
    dev' = IF dev.bsy THEN dev
           ELSE [dev EXCEPT !.bsy = TRUE, !.drq = FALSE, !.lba = lba,
                   !.cmd = IF dev.drdy \/ command = "IDENTIFY" THEN command ELSE "NONE"]

At(l)      == cpu.at = l
Goto(l)    == cpu' = [cpu EXCEPT !.at = l, !.i = 0]
Return(ok) == cpu' = [cpu EXCEPT !.at = "return", !.ret = ok, !.i = 0]

\* The loop would count one too far.
IsBusy_Late(l, free, busy) ==
    /\ At(l)
    /\ IF ~dev.bsy THEN Goto(free)
       ELSE IF cpu.i < POLLS THEN cpu' = [cpu EXCEPT !.i = @ + 1]
       ELSE Goto(busy)
    /\ UNCHANGED << dev, sct, sectors >>

\* The loop would not count.
IsBusy_Bug(l, free, busy) ==
    /\ At(l)
    /\ IF ~dev.bsy THEN Goto(free) ELSE UNCHANGED cpu
    /\ UNCHANGED << dev, sct, sectors >>

\* One round of the loop of IsBusy, which ends with free or busy.
IsBusy(l, free, busy) ==
    /\ At(l)
    /\ IF ~dev.bsy THEN Goto(free)
       ELSE IF cpu.i < POLLS - 1 THEN cpu' = [cpu EXCEPT !.i = @ + 1]
       ELSE Goto(busy)
    /\ UNCHANGED << dev, sct, sectors >>

-----------------------------------------------------------------------------
(* HDRawSectors, which every call begins with *)

Call(fn, si, buf) ==
    /\ At("return")
    /\ cpu' = [fn |-> fn, si |-> si, buf |-> buf, at |-> "size", ret |-> FALSE, i |-> 0]
    /\ UNCHANGED << dev, sct, sectors >>

\* What it may return. As the code has it: the bit is inverted.
IsDevReady == IF dev.bsy THEN BOOLEAN ELSE {~dev.drdy}

Identify ==
    /\ At("size")
    /\ \E ready \in IsDevReady :
          IF sectors = Unknown /\ ready
          THEN WritePorts(0, "IDENTIFY") /\ Goto("identity")
          ELSE Goto("sized") /\ UNCHANGED dev
    /\ UNCHANGED << sct, sectors >>

\* The drive transfers the answer to the last command it has accepted.
Identity == IF dev.cmd = "IDENTIFY" THEN {SECTORS} ELSE Count

\* There is data, and memory for a buffer, or not. A drive that has been asked to
\* write need not notice that the driver reads.
ReadIdentity ==
    /\ At("identified")
    /\ Goto("sized")
    /\ \/ UNCHANGED << dev, sectors >>
       \/ /\ dev.drq
          /\ sectors' \in Identity
          /\ \/ dev' = [dev EXCEPT !.drq = FALSE]
             \/ dev.cmd = "WRITE" /\ UNCHANGED dev
    /\ UNCHANGED sct

HDRawSectors ==
    Identify \/ IsBusy("identity", "identified", "sized") \/ ReadIdentity

-----------------------------------------------------------------------------
(* HDRawRead and HDRawWrite *)

Sized ==
    /\ At("sized")
    /\ IF cpu.fn = "SIZE" THEN Return(TRUE)
       ELSE IF sectors = Unknown \/ cpu.si < sectors THEN Goto("before")
       ELSE Return(FALSE)
    /\ UNCHANGED << dev, sct, sectors >>

\* The drive would be given the command although it may be busy.
Before_Bug ==
    /\ At("before")
    /\ Goto("command")
    /\ UNCHANGED << dev, sct, sectors >>

Before == IsBusy("before", "command", "failed")

Command ==
    /\ At("command")
    /\ WritePorts(cpu.si, cpu.fn)
    /\ Goto("after")
    /\ UNCHANGED << sct, sectors >>

After == IsBusy("after", "data", "failed")

Failed ==
    /\ At("failed") \/ (At("data") /\ ~dev.drq)
    /\ Return(FALSE)
    /\ UNCHANGED << dev, sct, sectors >>

\* ReadPortW.
ReadData ==
    /\ At("data") /\ dev.drq /\ cpu.fn = "READ"
    /\ cpu' = [cpu EXCEPT !.at = "return", !.ret = TRUE, !.buf = sct[dev.lba]]
    /\ dev' = [dev EXCEPT !.drq = FALSE]
    /\ UNCHANGED << sct, sectors >>

\* WritePortW: the drive has the data and is busy with it. The call returns at
\* once, and does not ask how that ends.
WriteData ==
    /\ At("data") /\ dev.drq /\ cpu.fn = "WRITE"
    /\ dev' = [dev EXCEPT !.bsy = TRUE, !.drq = FALSE, !.cmd = "STORE", !.data = cpu.buf]
    /\ Return(TRUE)
    /\ UNCHANGED << sct, sectors >>

Running == HDRawSectors \/ Sized \/ Before \/ Command \/ After
           \/ Failed \/ ReadData \/ WriteData

DriveNext ==
    \/ Start \/ Answer \/ Store \/ Refuse \/ Running
    \/ \E si \in Si, buf \in Content : Call("WRITE", si, buf)
    \/ \E si \in Si : Call("READ", si, cpu.buf)
    \/ Call("SIZE", 0, cpu.buf)

\* The processor goes on; the drive need not.
DriveSpec == DriveInit /\ [][DriveNext]_driveVars /\ WF_driveVars(Running)

-----------------------------------------------------------------------------
(* Properties *)

DeviceType ==
    [bsy : BOOLEAN, drdy : BOOLEAN, drq : BOOLEAN,
     cmd : {"NONE", "IDENTIFY", "READ", "WRITE", "STORE"}, lba : Si, data : Content]

CallType ==
    [fn : {"SIZE", "READ", "WRITE"}, si : Si, buf : Content, ret : BOOLEAN,
     at : {"size", "identity", "identified", "sized", "before", "command",
           "after", "data", "failed", "return"}, i : 0 .. POLLS - 1]

DriveTypeOK ==
    /\ dev \in DeviceType
    /\ sct \in [Lba -> Content]
    /\ sectors \in Count
    /\ cpu \in CallType

Disk == INSTANCE RawDisk WITH
    disk <- sct,
    late <- IF dev.bsy /\ dev.cmd = "STORE"
            THEN {[si |-> dev.lba, buf |-> dev.data]} ELSE {},
    size <- sectors,
    fn   <- cpu.fn,
    si   <- cpu.si,
    buf  <- cpu.buf,
    ret  <- cpu.ret,
    done <- (cpu.at = "return")

\* However late the drive answers a command the driver has given up, and although
\* a call may leave the drive busy, a call reads the sector it was asked for, as it
\* is when all earlier writes are stored or lost; or hands the sector it was asked
\* to write over, to be stored there or not at all; or fails without effect
\* (hdraw.c:107-128, 143-157, 164-178).
DiskImplemented == Disk!RawSpec

\* Every call returns, also when the drive never answers (hdraw.c:48).
CallsReturn == cpu.at = "size" ~> cpu.at = "return"

\* "Get information of the disk, it needs to be got only once ... the number of
\* sectors" (comment at hdraw.c:104): a call that finds the drive ready and the
\* number not known yet asks for it.
ReadyDriveIdentified ==
    [][At("size") /\ cpu'.at # "size" /\ sectors = Unknown /\ dev.drdy /\ ~dev.bsy
       => dev'.cmd = "IDENTIFY"]_driveVars
=============================================================================
