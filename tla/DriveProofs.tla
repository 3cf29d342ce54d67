----------------------------- MODULE DriveProofs ------------------------------
(***************************************************************************)
(* The disk driver implements RawDisk, for every number of sectors and of  *)
(* polls and whatever sectors contain.                                     *)
(***************************************************************************)
EXTENDS Drive, TLAPS

\* What an answer of the drive can be to. Commands other than IDENTIFY were given
\* to a drive that is ready; what it asks or offers data for exists.
DeviceInv ==
    /\ dev.drq => dev.cmd \in {"IDENTIFY", "READ", "WRITE"}
    /\ dev.drq /\ dev.cmd # "IDENTIFY" => dev.lba \in Lba
    /\ dev.cmd = "STORE" => dev.lba \in Lba
    /\ ~dev.drdy => dev.cmd \in {"NONE", "IDENTIFY"}

\* Where the driver relies on which command the drive has been given.
DriverInv ==
    /\ ~At("return") => cpu.ret = FALSE
    /\ cpu.at \in {"identity", "identified"} => sectors = Unknown
    /\ cpu.at \in {"before", "command", "after", "data"} => cpu.fn \in {"READ", "WRITE"}
    /\ At("command") => ~dev.bsy
    /\ cpu.at \in {"after", "data"} => dev.cmd \in {cpu.fn, "NONE"} /\ dev.lba = cpu.si

DriveInv == DriveTypeOK /\ DeviceInv /\ DriverInv

Place == {"size", "identity", "identified", "sized", "before", "command",
          "after", "data", "failed", "return"}

-----------------------------------------------------------------------------
(* What the operators for the ports and for the program counter do *)

LEMMA Zero == 0 \in 0 .. POLLS - 1 /\ 0 \in Si /\ SECTORS \in Count /\ Unknown \in Count
  BY DriveAssumption DEF Si, Count

LEMMA GotoEffect ==
    ASSUME cpu \in CallType, NEW l \in Place, Goto(l)
    PROVE  /\ cpu' \in CallType
           /\ cpu'.at = l
           /\ cpu'.fn = cpu.fn /\ cpu'.si = cpu.si
           /\ cpu'.buf = cpu.buf /\ cpu'.ret = cpu.ret
<1>1. cpu' \in CallType
  BY Zero, Zenon DEF CallType, Goto, Place
<1>2. /\ cpu'.at = l
      /\ cpu'.fn = cpu.fn /\ cpu'.si = cpu.si
      /\ cpu'.buf = cpu.buf /\ cpu'.ret = cpu.ret
  BY SMT DEF CallType, Goto
<1> QED
  BY <1>1, <1>2

LEMMA ReturnEffect ==
    ASSUME cpu \in CallType, NEW ok \in BOOLEAN, Return(ok)
    PROVE  /\ cpu' \in CallType
           /\ cpu'.at = "return" /\ cpu'.ret = ok
           /\ cpu'.fn = cpu.fn /\ cpu'.si = cpu.si /\ cpu'.buf = cpu.buf
<1>1. cpu' \in CallType
  BY Zero, Zenon DEF CallType, Return
<1>2. /\ cpu'.at = "return" /\ cpu'.ret = ok
      /\ cpu'.fn = cpu.fn /\ cpu'.si = cpu.si /\ cpu'.buf = cpu.buf
  BY SMT DEF CallType, Return
<1> QED
  BY <1>1, <1>2

\* A round of the loop of IsBusy stays in it or leaves it.
LEMMA PollEffect ==
    ASSUME DriveTypeOK, NEW l \in Place, NEW free \in Place, NEW busy \in Place,
           IsBusy(l, free, busy)
    PROVE  /\ UNCHANGED << dev, sct, sectors >>
           /\ cpu' \in CallType
           /\ cpu'.fn = cpu.fn /\ cpu'.si = cpu.si
           /\ cpu'.buf = cpu.buf /\ cpu'.ret = cpu.ret
           /\ cpu'.at = l \/ (cpu'.at = free /\ ~dev.bsy) \/ cpu'.at = busy
<1>1. UNCHANGED << dev, sct, sectors >> /\ cpu.at = l /\ cpu \in CallType
  BY DEF IsBusy, At, DriveTypeOK
<1>2. CASE Goto(free) /\ ~dev.bsy
  BY <1>1, <1>2, GotoEffect
<1>3. CASE Goto(busy)
  BY <1>1, <1>3, GotoEffect
<1>4. CASE cpu' = [cpu EXCEPT !.i = @ + 1] /\ cpu.i < POLLS - 1
  <2>1. cpu.i \in 0 .. POLLS - 1
    BY <1>1 DEF CallType
  <2>2. cpu.i + 1 \in 0 .. POLLS - 1
    BY <1>4, <2>1, DriveAssumption
  <2>3. cpu' \in CallType
    BY <1>1, <1>4, <2>2, Zenon DEF CallType
  <2>4. /\ cpu'.at = cpu.at /\ cpu'.fn = cpu.fn /\ cpu'.si = cpu.si
        /\ cpu'.buf = cpu.buf /\ cpu'.ret = cpu.ret
    BY <1>1, <1>4, SMT DEF CallType
  <2> QED
    BY <1>1, <2>3, <2>4
<1> QED
  BY <1>2, <1>3, <1>4, Zenon DEF IsBusy

\* A busy drive ignores what is written to its ports.
LEMMA PortsEffect ==
    ASSUME dev \in DeviceType, NEW lba \in Si, NEW command \in {"IDENTIFY", "READ", "WRITE"},
           WritePorts(lba, command)
    PROVE  /\ dev' \in DeviceType
           /\ dev'.drdy = dev.drdy
           /\ dev.bsy => dev' = dev
           /\ ~dev.bsy => /\ dev'.bsy /\ ~dev'.drq /\ dev'.lba = lba
                          /\ dev'.cmd = IF dev.drdy \/ command = "IDENTIFY"
                                        THEN command ELSE "NONE"
<1>1. CASE dev.bsy
  BY <1>1 DEF WritePorts
<1>2. CASE ~dev.bsy
  <2> DEFINE given == IF dev.drdy \/ command = "IDENTIFY" THEN command ELSE "NONE"
  <2>1. given \in {command, "NONE"}
    BY Zenon
  <2>2. given \in {"NONE", "IDENTIFY", "READ", "WRITE", "STORE"}
    BY <2>1
  <2>3. dev' = [dev EXCEPT !.bsy = TRUE, !.drq = FALSE, !.lba = lba, !.cmd = given]
    BY <1>2, Zenon DEF WritePorts
  <2> HIDE DEF given
  <2>4. dev' \in DeviceType
    BY <2>2, <2>3, Zenon DEF DeviceType
  <2>5. /\ dev'.bsy /\ ~dev'.drq /\ dev'.lba = lba /\ dev'.cmd = given
        /\ dev'.drdy = dev.drdy
    BY <2>3, SMT DEF DeviceType
  <2> QED
    BY <1>2, <2>4, <2>5, Zenon DEF given
<1> QED
  BY <1>1, <1>2

-----------------------------------------------------------------------------
(* The invariant *)

LEMMA InitInv == DriveInit => DriveInv
<1> SUFFICES ASSUME DriveInit PROVE DriveInv
  OBVIOUS
<1>1. (CHOOSE c \in Content : TRUE) \in Content
  BY DriveAssumption
<1> DEFINE any == CHOOSE c \in Content : TRUE
<1>2. cpu = [fn |-> "SIZE", si |-> 0, buf |-> any,
             at |-> "return", ret |-> FALSE, i |-> 0]
  BY DEF DriveInit
<1>3. any \in Content
  BY <1>1
<1> HIDE DEF any
<1>4. cpu \in CallType /\ cpu.at = "return"
  BY <1>2, <1>3, Zero DEF CallType
<1>5. dev \in [bsy : {FALSE}, drdy : BOOLEAN, drq : {FALSE}, cmd : {"NONE"},
               lba : {0}, data : Content]
  BY DEF DriveInit
<1>6. dev \in DeviceType
  BY <1>5, Zero, Zenon DEF DeviceType
<1>7. ~dev.drq /\ dev.cmd = "NONE"
  BY <1>5
<1>8. sct \in [Lba -> Content] /\ sectors \in Count
  BY Zero DEF DriveInit
<1> QED
  BY <1>4, <1>6, <1>7, <1>8 DEF DriveInv, DriveTypeOK, DeviceInv, DriverInv, At

\* The drive answers when it likes.
LEMMA DeviceKeepsInv ==
    ASSUME DriveInv, Start \/ Answer \/ Store \/ Refuse
    PROVE  DriveInv'
<1>1. dev \in DeviceType /\ sct \in [Lba -> Content]
  BY DEF DriveInv, DriveTypeOK
<1>2. UNCHANGED << sectors, cpu >>
  BY DEF Start, Answer, Store, Refuse
<1>3. dev' \in DeviceType
  BY <1>1, Zenon DEF Start, Answer, Store, Refuse, DeviceType
<1>4. /\ dev'.cmd = dev.cmd /\ dev'.lba = dev.lba
      /\ dev'.bsy => dev.bsy
      /\ dev.drdy => dev'.drdy
      /\ dev'.drq => \/ dev.drq
                     \/ /\ dev.cmd \in {"IDENTIFY", "READ", "WRITE"}
                        /\ dev.cmd # "IDENTIFY" => dev.lba \in Lba
  <2>1. CASE Start
    BY <1>1, <2>1, SMT DEF Start, DeviceType
  <2>2. CASE Answer
    BY <1>1, <2>2, SMT DEF Answer, DeviceType
  <2>3. CASE Store
    BY <1>1, <2>3, SMT DEF Store, DeviceType
  <2>4. CASE Refuse
    BY <1>1, <2>4, SMT DEF Refuse, DeviceType
  <2> QED
    BY <2>1, <2>2, <2>3, <2>4
<1>5. sct' \in [Lba -> Content]
  <2>1. CASE Store
    <3>1. dev.lba \in Lba /\ dev.data \in Content
      BY <1>1, <2>1 DEF Store, DriveInv, DeviceInv, DeviceType
    <3> QED
      BY <1>1, <2>1, <3>1 DEF Store
  <2>2. CASE UNCHANGED sct
    BY <1>1, <2>2
  <2> QED
    BY <2>1, <2>2 DEF Start, Answer, Refuse
<1>6. DriveTypeOK'
  BY <1>2, <1>3, <1>5 DEF DriveInv, DriveTypeOK
<1>7. DeviceInv'
  BY <1>4 DEF DriveInv, DeviceInv
<1>8. DriverInv'
  BY <1>2, <1>4 DEF DriveInv, DriverInv, At
<1> QED
  BY <1>6, <1>7, <1>8 DEF DriveInv

LEMMA PollKeepsInv ==
    ASSUME DriveInv,
           IsBusy("identity", "identified", "sized") \/ Before \/ After
    PROVE  DriveInv'
<1>1. DriveTypeOK
  BY DEF DriveInv
<1>2. /\ UNCHANGED << dev, sct, sectors >>
      /\ cpu' \in CallType
      /\ cpu'.fn = cpu.fn /\ cpu'.si = cpu.si
      /\ cpu'.ret = cpu.ret
      /\ \/ cpu.at = "identity" /\ cpu'.at \in {"identity", "identified", "sized"}
         \/ /\ cpu.at = "before"
            /\ cpu'.at \in {"before", "failed"} \/ (cpu'.at = "command" /\ ~dev.bsy)
         \/ cpu.at = "after" /\ cpu'.at \in {"after", "data", "failed"}
  <2>1. CASE IsBusy("identity", "identified", "sized")
    BY <1>1, <2>1, PollEffect DEF Place, IsBusy, At
  <2>2. CASE Before
    <3>1. IsBusy("before", "command", "failed")
      BY <2>2 DEF Before
    <3> QED
      BY <1>1, <3>1, PollEffect DEF Place, IsBusy, At
  <2>3. CASE After
    <3>1. IsBusy("after", "data", "failed")
      BY <2>3 DEF After
    <3> QED
      BY <1>1, <3>1, PollEffect DEF Place, IsBusy, At
  <2> QED
    BY <2>1, <2>2, <2>3
<1>3. DriveTypeOK' /\ DeviceInv'
  BY <1>2 DEF DriveInv, DriveTypeOK, DeviceInv
<1>4. DriverInv'
  BY <1>2 DEF DriveInv, DriverInv, At
<1> QED
  BY <1>3, <1>4 DEF DriveInv

\* The number of sectors is unknown while it is asked for.
LEMMA SizeKeepsInv ==
    ASSUME DriveInv, Identify \/ ReadIdentity
    PROVE  DriveInv'
<1>1. dev \in DeviceType /\ cpu \in CallType
  BY DEF DriveInv, DriveTypeOK
<1>2. CASE Identify
  <2>0. At("size") /\ UNCHANGED << sct, sectors >>
    BY <1>2 DEF Identify
  <2>1. CASE sectors = Unknown /\ WritePorts(0, "IDENTIFY") /\ Goto("identity")
    <3>1. WritePorts(0, "IDENTIFY") /\ Goto("identity")
      BY <2>1
    <3>2. /\ dev' \in DeviceType /\ dev'.drdy = dev.drdy
          /\ dev.bsy => dev' = dev
          /\ ~dev.bsy => ~dev'.drq /\ dev'.cmd = "IDENTIFY"
      BY <1>1, <3>1, Zero, PortsEffect
    <3>3. /\ cpu' \in CallType /\ cpu'.at = "identity" /\ cpu'.ret = cpu.ret
      BY <1>1, <3>1, GotoEffect DEF Place
    <3>4. DriveTypeOK' /\ DeviceInv'
      BY <2>0, <3>2, <3>3 DEF DriveInv, DriveTypeOK, DeviceInv
    <3>5. DriverInv'
      BY <2>0, <2>1, <3>3 DEF DriveInv, DriverInv, At
    <3> QED
      BY <3>4, <3>5 DEF DriveInv
  <2>2. CASE Goto("sized") /\ UNCHANGED dev
    <3>1. /\ cpu' \in CallType /\ cpu'.at = "sized" /\ cpu'.ret = cpu.ret
      BY <1>1, <2>2, GotoEffect DEF Place
    <3> QED
      BY <2>0, <2>2, <3>1 DEF DriveInv, DriveTypeOK, DeviceInv, DriverInv, At
  <2> QED
    BY <1>2, <2>1, <2>2, Zenon DEF Identify
<1>3. CASE ReadIdentity
  <2>1. cpu.at = "identified" /\ Goto("sized") /\ UNCHANGED sct
    BY <1>3 DEF ReadIdentity, At
  <2>2. /\ cpu' \in CallType /\ cpu'.at = "sized" /\ cpu'.ret = cpu.ret
    BY <1>1, <2>1, GotoEffect DEF Place
  <2>3. sectors' \in Count
    <3>1. CASE sectors' = sectors
      BY <3>1 DEF DriveInv, DriveTypeOK
    <3>2. CASE sectors' \in Identity
      BY <3>2, Zero DEF Identity
    <3> QED
      BY <1>3, <3>1, <3>2, Zenon DEF ReadIdentity
  <2>4. /\ dev' \in DeviceType
        /\ dev'.bsy = dev.bsy /\ dev'.drdy = dev.drdy
        /\ dev'.cmd = dev.cmd /\ dev'.lba = dev.lba
        /\ dev'.drq => dev.drq
    <3>1. CASE dev' = dev
      BY <1>1, <3>1
    <3>2. CASE dev' = [dev EXCEPT !.drq = FALSE]
      <4>1. dev' \in DeviceType
        BY <1>1, <3>2, Zenon DEF DeviceType
      <4> QED
        BY <1>1, <3>2, <4>1, SMT DEF DeviceType
    <3> QED
      BY <1>3, <3>1, <3>2, Zenon DEF ReadIdentity
  <2>5. DriveTypeOK'
    BY <2>1, <2>2, <2>3, <2>4 DEF DriveInv, DriveTypeOK
  <2>6. DeviceInv'
    BY <2>4 DEF DriveInv, DeviceInv
  <2>7. DriverInv'
    BY <2>1, <2>2 DEF DriveInv, DriverInv, At
  <2> QED
    BY <2>5, <2>6, <2>7 DEF DriveInv
<1> QED
  BY <1>2, <1>3

\* Reading, writing and the steps around them.
LEMMA TransferKeepsInv ==
    ASSUME DriveInv, Sized \/ Command \/ Failed \/ ReadData \/ WriteData
    PROVE  DriveInv'
<1>1. dev \in DeviceType /\ cpu \in CallType /\ sct \in [Lba -> Content]
  BY DEF DriveInv, DriveTypeOK
<1>2. CASE Sized
  <2>1. cpu.at = "sized" /\ UNCHANGED << dev, sct, sectors >>
    BY <1>2 DEF Sized, At
  <2>2. CASE Return(TRUE) \/ Return(FALSE)
    <3>1. cpu' \in CallType /\ cpu'.at = "return"
      BY <1>1, <2>2, ReturnEffect
    <3> QED
      BY <2>1, <3>1 DEF DriveInv, DriveTypeOK, DeviceInv, DriverInv, At
  <2>3. CASE Goto("before") /\ cpu.fn # "SIZE"
    <3>1. /\ cpu' \in CallType /\ cpu'.at = "before"
          /\ cpu'.ret = cpu.ret /\ cpu'.fn = cpu.fn
      BY <1>1, <2>3, GotoEffect DEF Place
    <3>2. cpu'.fn \in {"READ", "WRITE"}
      BY <1>1, <2>3, <3>1 DEF CallType
    <3> QED
      BY <2>1, <3>1, <3>2 DEF DriveInv, DriveTypeOK, DeviceInv, DriverInv, At
  <2> QED
    BY <1>2, <2>2, <2>3, Zenon DEF Sized
<1>3. CASE Command
  <2>1. /\ cpu.at = "command" /\ ~dev.bsy /\ cpu.fn \in {"READ", "WRITE"}
        /\ WritePorts(cpu.si, cpu.fn) /\ Goto("after") /\ UNCHANGED << sct, sectors >>
    BY <1>3 DEF Command, At, DriveInv, DriverInv
  <2>2. cpu.si \in Si
    BY <1>1 DEF CallType
  <2>3. /\ cpu' \in CallType /\ cpu'.at = "after" /\ cpu'.ret = cpu.ret
        /\ cpu'.fn = cpu.fn /\ cpu'.si = cpu.si
    BY <1>1, <2>1, GotoEffect DEF Place
  <2>4. /\ dev' \in DeviceType /\ dev'.drdy = dev.drdy
        /\ ~dev'.drq /\ dev'.lba = cpu.si
        /\ dev'.cmd = IF dev.drdy \/ cpu.fn = "IDENTIFY" THEN cpu.fn ELSE "NONE"
    BY <1>1, <2>1, <2>2, PortsEffect
  <2>5. DriveTypeOK'
    BY <2>1, <2>3, <2>4 DEF DriveInv, DriveTypeOK
  <2>6. DeviceInv'
    BY <2>1, <2>4 DEF DriveInv, DeviceInv
  <2>7. DriverInv'
    BY <2>1, <2>3, <2>4 DEF DriveInv, DriverInv, At
  <2> QED
    BY <2>5, <2>6, <2>7 DEF DriveInv
<1>4. CASE Failed
  <2>1. UNCHANGED << dev, sct, sectors >> /\ Return(FALSE)
    BY <1>4 DEF Failed
  <2>2. cpu' \in CallType /\ cpu'.at = "return"
    BY <1>1, <2>1, ReturnEffect
  <2> QED
    BY <2>1, <2>2 DEF DriveInv, DriveTypeOK, DeviceInv, DriverInv, At
<1>5. CASE ReadData
  <2>1. /\ dev.drq /\ dev.cmd = "READ" /\ dev.lba \in Lba
    BY <1>5 DEF ReadData, At, DriveInv, DeviceInv, DriverInv
  <2>2. sct[dev.lba] \in Content
    BY <1>1, <2>1
  <2>3. cpu' = [cpu EXCEPT !.at = "return", !.ret = TRUE, !.buf = sct[dev.lba]]
    BY <1>5 DEF ReadData
  <2>4. cpu' \in CallType
    BY <1>1, <2>2, <2>3, Zenon DEF CallType
  <2>5. cpu'.at = "return"
    BY <1>1, <2>3, SMT DEF CallType
  <2>6. dev' = [dev EXCEPT !.drq = FALSE] /\ UNCHANGED << sct, sectors >>
    BY <1>5 DEF ReadData
  <2>7. dev' \in DeviceType
    BY <1>1, <2>6, Zenon DEF DeviceType
  <2>8. ~dev'.drq /\ dev'.cmd = dev.cmd /\ dev'.drdy = dev.drdy
    BY <1>1, <2>6, SMT DEF DeviceType
  <2> QED
    BY <2>4, <2>5, <2>6, <2>7, <2>8 DEF DriveInv, DriveTypeOK, DeviceInv, DriverInv, At
<1>6. CASE WriteData
  <2>1. /\ dev.drq /\ dev.cmd = "WRITE" /\ dev.lba \in Lba /\ dev.drdy
    BY <1>1, <1>6 DEF WriteData, At, DriveInv, DeviceInv, DriverInv, DeviceType
  <2>2. cpu.buf \in Content
    BY <1>1 DEF CallType
  <2>3. cpu' \in CallType /\ cpu'.at = "return"
    BY <1>1, <1>6, ReturnEffect DEF WriteData
  <2>4. dev' = [dev EXCEPT !.bsy = TRUE, !.drq = FALSE, !.cmd = "STORE", !.data = cpu.buf]
    BY <1>6 DEF WriteData
  <2>5. dev' \in DeviceType
    BY <1>1, <2>2, <2>4, Zenon DEF DeviceType
  <2>6. ~dev'.drq /\ dev'.drdy = dev.drdy /\ dev'.cmd = "STORE" /\ dev'.lba = dev.lba
    BY <1>1, <2>4, SMT DEF DeviceType
  <2>7. UNCHANGED << sct, sectors >>
    BY <1>6 DEF WriteData
  <2> QED
    BY <2>1, <2>3, <2>5, <2>6, <2>7
       DEF DriveInv, DriveTypeOK, DeviceInv, DriverInv, At
<1> QED
  BY <1>2, <1>3, <1>4, <1>5, <1>6

LEMMA CallKeepsInv ==
    ASSUME DriveInv, NEW fn \in {"READ", "WRITE", "SIZE"}, NEW si \in Si,
           NEW buf \in Content, Call(fn, si, buf)
    PROVE  DriveInv'
<1>1. cpu' = [fn |-> fn, si |-> si, buf |-> buf, at |-> "size", ret |-> FALSE, i |-> 0]
  BY DEF Call
<1>2. cpu' \in CallType /\ cpu'.at = "size" /\ cpu'.ret = FALSE
  BY <1>1, Zero DEF CallType
<1>3. UNCHANGED << dev, sct, sectors >>
  BY DEF Call
<1> QED
  BY <1>2, <1>3 DEF DriveInv, DriveTypeOK, DeviceInv, DriverInv, At

LEMMA StepInv == DriveInv /\ [DriveNext]_driveVars => DriveInv'
<1> SUFFICES ASSUME DriveInv, [DriveNext]_driveVars PROVE DriveInv'
  OBVIOUS
<1>1. CASE Start \/ Answer \/ Store \/ Refuse
  BY <1>1, DeviceKeepsInv
<1>2. CASE Running
  BY <1>2, PollKeepsInv, SizeKeepsInv, TransferKeepsInv DEF Running, HDRawSectors
<1>3. CASE \E fn \in {"READ", "WRITE", "SIZE"}, si \in Si, buf \in Content :
             Call(fn, si, buf)
  BY <1>3, CallKeepsInv
<1>4. CASE UNCHANGED driveVars
  BY <1>4 DEF DriveInv, DriveTypeOK, DeviceInv, DriverInv, At, driveVars
<1>5. 0 \in Si /\ cpu.buf \in Content
  BY Zero DEF DriveInv, DriveTypeOK, CallType
<1> QED
  BY <1>1, <1>2, <1>3, <1>4, <1>5 DEF DriveNext

\* The variables hold values of their types, the counter of polls among them
\* (hdraw.c:43-54).
THEOREM DriveInvariance == DriveSpec => []DriveTypeOK
<1>1. DriveInv => DriveTypeOK
  BY DEF DriveInv
<1> QED
  BY <1>1, InitInv, StepInv, PTL DEF DriveSpec

-----------------------------------------------------------------------------
(* The refinement *)

\* The write that is not settled, as RawDisk sees it.
Late == IF dev.bsy /\ dev.cmd = "STORE"
        THEN {[si |-> dev.lba, buf |-> dev.data]} ELSE {}

\* A drive that is not busy with a write, or not busy any more.
LEMMA NothingLate == ASSUME ~dev.bsy \/ dev.cmd # "STORE" PROVE Late = {}
  BY Zenon DEF Late

\* What RawDisk does not see.
LEMMA CallUnseen ==
    ASSUME cpu.at # "return", cpu'.at # "return",
           cpu'.fn = cpu.fn, cpu'.si = cpu.si, cpu'.buf = cpu.buf, cpu'.ret = cpu.ret,
           UNCHANGED << sct, sectors >>, Late' = Late
    PROVE  UNCHANGED Disk!rawVars
  BY DEF Disk!rawVars, Disk!request, Late

\* The driver returns.
LEMMA CallReturns ==
    ASSUME NEW ok, cpu.at # "return", cpu'.at = "return", cpu'.ret = ok,
           cpu'.fn = cpu.fn, cpu'.si = cpu.si, UNCHANGED << sct, sectors >>
    PROVE  Disk!Return(ok)
  BY Zenon DEF Disk!Return, Disk!request

LEMMA PortsUnseen ==
    ASSUME dev \in DeviceType, NEW lba \in Si, NEW command \in {"IDENTIFY", "READ", "WRITE"},
           WritePorts(lba, command)
    PROVE  Late' = Late
<1>1. /\ dev.bsy => dev' = dev
      /\ ~dev.bsy => dev'.cmd = IF dev.drdy \/ command = "IDENTIFY" THEN command ELSE "NONE"
  BY PortsEffect
<1>2. CASE dev.bsy
  BY <1>1, <1>2 DEF Late
<1>3. CASE ~dev.bsy
  <2>1. dev'.cmd # "STORE"
    BY <1>1, <1>3
  <2> QED
    BY <1>3, <2>1, Zenon DEF Late
<1> QED
  BY <1>2, <1>3

\* The drive settles a write, or does what RawDisk does not see.
LEMMA DeviceImplements ==
    ASSUME DriveInv, Start \/ Answer \/ Store \/ Refuse
    PROVE  Disk!RawNext \/ UNCHANGED Disk!rawVars
<1>1. dev \in DeviceType /\ UNCHANGED << sectors, cpu >>
  BY DEF DriveInv, DriveTypeOK, Start, Answer, Store, Refuse
<1>2. CASE Start
  <2>1. dev'.bsy = dev.bsy /\ dev'.cmd = dev.cmd /\ dev'.lba = dev.lba /\ dev'.data = dev.data
    BY <1>1, <1>2, SMT DEF Start, DeviceType
  <2> QED
    BY <1>1, <1>2, <2>1, Zenon DEF Start, Late, Disk!rawVars, Disk!request
<1>3. CASE Answer
  <2>1. Late = {}
    BY <1>3, NothingLate DEF Answer
  <2>2. ~dev'.bsy
    BY <1>1, <1>3, SMT DEF Answer, DeviceType
  <2>3. Late' = {}
    BY <2>2, Zenon DEF Late
  <2> QED
    BY <1>1, <1>3, <2>1, <2>3, Zenon DEF Answer, Late, Disk!rawVars, Disk!request
<1>4. ASSUME Store \/ Refuse PROVE Late' = {}
  <2>1. ~dev'.bsy
    BY <1>1, <1>4, SMT DEF Store, Refuse, DeviceType
  <2> QED
    BY <2>1, Zenon DEF Late
<1>5. CASE Store
  <2>1. Late = {[si |-> dev.lba, buf |-> dev.data]}
    BY <1>5, Zenon DEF Store, Late
  <2> DEFINE w == [si |-> dev.lba, buf |-> dev.data]
  <2>2. w \in Late /\ w.si = dev.lba /\ w.buf = dev.data
    BY <2>1
  <2>3. sct' = [sct EXCEPT ![dev.lba] = dev.data]
    BY <1>5 DEF Store
  <2> HIDE DEF w
  <2>4. \E x \in Late : sct' = [sct EXCEPT ![x.si] = x.buf]
    BY <2>2, <2>3, Zenon
  <2>5. Disk!Store
    BY <1>1, <1>4, <1>5, <2>4, Zenon DEF Disk!Store, Disk!request, Late
  <2> QED
    BY <2>5 DEF Disk!RawNext
<1>6. CASE Refuse
  <2>1. UNCHANGED sct
    BY <1>6 DEF Refuse
  <2>2. Disk!Lose
    BY <1>1, <1>4, <1>6, <2>1, Zenon DEF Disk!Lose, Disk!request, Late
  <2> QED
    BY <2>2 DEF Disk!RawNext
<1> QED
  BY <1>2, <1>3, <1>5, <1>6

\* Every step of the driver or the drive is one of RawDisk or changes nothing
\* there.
LEMMA StepImplements ==
    DriveInv /\ [DriveNext]_driveVars => [Disk!RawNext]_Disk!rawVars
<1> SUFFICES ASSUME DriveInv, [DriveNext]_driveVars
             PROVE  Disk!RawNext \/ UNCHANGED Disk!rawVars
  OBVIOUS
<1>0. dev \in DeviceType /\ cpu \in CallType
  BY DEF DriveInv, DriveTypeOK
<1>1. CASE Start \/ Answer \/ Store \/ Refuse
  BY <1>1, DeviceImplements
<1>2. CASE Identify
  <2>1. cpu.at = "size" /\ UNCHANGED << sct, sectors >>
    BY <1>2 DEF Identify, At
  <2>2. \/ Goto("identity") /\ WritePorts(0, "IDENTIFY")
        \/ Goto("sized") /\ UNCHANGED dev
    BY <1>2, Zenon DEF Identify
  <2>3. /\ cpu'.at \in {"identity", "sized"} /\ cpu'.fn = cpu.fn /\ cpu'.si = cpu.si
        /\ cpu'.buf = cpu.buf /\ cpu'.ret = cpu.ret
    BY <1>0, <2>2, GotoEffect DEF Place
  <2>4. Late' = Late
    BY <1>0, <2>2, Zero, PortsUnseen DEF Late
  <2> QED
    BY <2>1, <2>3, <2>4, CallUnseen
<1>3. CASE ReadIdentity
  <2>1. cpu.at = "identified" /\ Goto("sized") /\ UNCHANGED sct
    BY <1>3 DEF ReadIdentity, At
  <2>2. /\ cpu'.at = "sized" /\ cpu'.fn = cpu.fn /\ cpu'.si = cpu.si
        /\ cpu'.buf = cpu.buf /\ cpu'.ret = cpu.ret
    BY <1>0, <2>1, GotoEffect DEF Place
  <2>3. sectors = Unknown
    BY <2>1 DEF DriveInv, DriverInv
  <2>4. Late' = Late
    <3>1. CASE dev' = dev
      BY <3>1 DEF Late
    <3>2. CASE dev' = [dev EXCEPT !.drq = FALSE]
      <4>1. /\ dev'.bsy = dev.bsy /\ dev'.cmd = dev.cmd
            /\ dev'.lba = dev.lba /\ dev'.data = dev.data
        BY <1>0, <3>2, SMT DEF DeviceType
      <4> QED
        BY <4>1, Zenon DEF Late
    <3> QED
      BY <1>3, <3>1, <3>2, Zenon DEF ReadIdentity
  <2>5. sectors' \in Int
    <3>1. \A n \in Count : n \in Int
      BY DriveAssumption DEF Count, Si, Unknown
    <3>2. CASE sectors' = sectors
      BY <2>3, <3>1, <3>2, Zero
    <3>3. CASE sectors' \in Identity
      BY <3>1, <3>3, Zero DEF Identity
    <3> QED
      BY <1>3, <3>2, <3>3, Zenon DEF ReadIdentity
  <2>6. Disk!Learn
    BY <2>1, <2>2, <2>3, <2>4, <2>5, Zenon
       DEF Disk!Learn, Disk!request, Disk!Unknown, Unknown, Late
  <2> QED
    BY <2>6 DEF Disk!RawNext
<1>4. CASE IsBusy("identity", "identified", "sized") \/ Before \/ After
  <2>1. /\ cpu.at # "return" /\ cpu'.at # "return"
        /\ cpu'.fn = cpu.fn /\ cpu'.si = cpu.si
        /\ cpu'.buf = cpu.buf /\ cpu'.ret = cpu.ret
        /\ UNCHANGED << dev, sct, sectors >>
    <3>1. CASE IsBusy("identity", "identified", "sized")
      BY <3>1, PollEffect DEF Place, IsBusy, At, DriveInv
    <3>2. CASE Before
      <4>1. IsBusy("before", "command", "failed")
        BY <3>2 DEF Before
      <4> QED
        BY <4>1, PollEffect DEF Place, IsBusy, At, DriveInv
    <3>3. CASE After
      <4>1. IsBusy("after", "data", "failed")
        BY <3>3 DEF After
      <4> QED
        BY <4>1, PollEffect DEF Place, IsBusy, At, DriveInv
    <3> QED
      BY <1>4, <3>1, <3>2, <3>3
  <2>2. Late' = Late
    BY <2>1 DEF Late
  <2> QED
    BY <2>1, <2>2, CallUnseen
<1>5. CASE Command
  <2>1. /\ cpu.at = "command" /\ Goto("after") /\ UNCHANGED << sct, sectors >>
        /\ WritePorts(cpu.si, cpu.fn) /\ cpu.fn \in {"READ", "WRITE"} /\ cpu.si \in Si
    BY <1>0, <1>5 DEF Command, At, DriveInv, DriverInv, CallType
  <2>2. /\ cpu'.at = "after" /\ cpu'.fn = cpu.fn /\ cpu'.si = cpu.si
        /\ cpu'.buf = cpu.buf /\ cpu'.ret = cpu.ret
    BY <1>0, <2>1, GotoEffect DEF Place
  <2>3. Late' = Late
    BY <1>0, <2>1, PortsUnseen
  <2> QED
    BY <2>1, <2>2, <2>3, CallUnseen
<1>6. ASSUME Return(FALSE), cpu.at # "return", UNCHANGED << dev, sct, sectors >>
      PROVE  Disk!Fail
  <2>1. Disk!Return(FALSE) /\ cpu'.buf = cpu.buf
    BY <1>0, <1>6, ReturnEffect, CallReturns
  <2>2. Late' = Late
    BY <1>6 DEF Late
  <2> QED
    BY <2>1, <2>2, Zenon DEF Disk!Fail, Late
<1>7. CASE Sized
  <2>1. cpu.at = "sized" /\ UNCHANGED << dev, sct, sectors >>
    BY <1>7 DEF Sized, At
  <2>2. Late' = Late
    BY <2>1 DEF Late
  <2>3. CASE cpu.fn = "SIZE" /\ Return(TRUE)
    <3>1. Disk!Return(TRUE) /\ cpu'.buf = cpu.buf
      BY <1>0, <2>1, <2>3, ReturnEffect, CallReturns
    <3> QED
      BY <2>2, <2>3, <3>1, Zenon DEF Disk!ReturnSize, Disk!RawNext, Late
  <2>4. CASE Goto("before")
    <3>1. /\ cpu'.at = "before" /\ cpu'.fn = cpu.fn /\ cpu'.si = cpu.si
          /\ cpu'.buf = cpu.buf /\ cpu'.ret = cpu.ret
      BY <1>0, <2>4, GotoEffect DEF Place
    <3> QED
      BY <2>1, <2>2, <3>1, CallUnseen
  <2>5. CASE Return(FALSE)
    BY <1>6, <2>1, <2>5, Zenon DEF Disk!RawNext
  <2> QED
    BY <1>7, <2>3, <2>4, <2>5, Zenon DEF Sized
<1>8. CASE Failed
  <2>1. Return(FALSE) /\ cpu.at # "return" /\ UNCHANGED << dev, sct, sectors >>
    BY <1>8 DEF Failed, At
  <2> QED
    BY <1>6, <2>1, Zenon DEF Disk!RawNext
<1>9. CASE ReadData
  <2>1. /\ cpu.at = "data" /\ cpu.fn = "READ" /\ dev.cmd = "READ"
        /\ dev.lba = cpu.si /\ dev.lba \in Lba
    BY <1>9 DEF ReadData, At, DriveInv, DeviceInv, DriverInv
  <2>2. cpu' = [cpu EXCEPT !.at = "return", !.ret = TRUE, !.buf = sct[cpu.si]]
    BY <1>9, <2>1 DEF ReadData
  <2>3. /\ cpu'.at = "return" /\ cpu'.ret = TRUE /\ cpu'.buf = sct[cpu.si]
        /\ cpu'.fn = cpu.fn /\ cpu'.si = cpu.si
    BY <1>0, <2>2, SMT DEF CallType
  <2>4. UNCHANGED << sct, sectors >> /\ dev' = [dev EXCEPT !.drq = FALSE]
    BY <1>9 DEF ReadData
  <2>5. Late = {} /\ Late' = {}
    <3>1. dev'.cmd = "READ"
      BY <1>0, <2>1, <2>4, SMT DEF DeviceType
    <3> QED
      BY <2>1, <3>1, Zenon DEF Late
  <2>6. Disk!Return(TRUE)
    BY <2>1, <2>3, <2>4, CallReturns
  <2>7. cpu.si \in Disk!Lba
    BY <2>1 DEF Lba, Disk!Lba
  <2> QED
    BY <2>1, <2>3, <2>5, <2>6, <2>7, Zenon DEF Disk!Read, Disk!RawNext, Late
<1>10. CASE WriteData
  <2>1. /\ cpu.at = "data" /\ cpu.fn = "WRITE" /\ dev.cmd = "WRITE"
        /\ dev.lba = cpu.si /\ dev.lba \in Lba
    BY <1>10 DEF WriteData, At, DriveInv, DeviceInv, DriverInv
  <2>2. Return(TRUE) /\ UNCHANGED << sct, sectors >>
    BY <1>10 DEF WriteData
  <2>3. Disk!Return(TRUE) /\ cpu'.buf = cpu.buf
    BY <1>0, <2>1, <2>2, ReturnEffect, CallReturns
  <2>4. dev' = [dev EXCEPT !.bsy = TRUE, !.drq = FALSE, !.cmd = "STORE", !.data = cpu.buf]
    BY <1>10 DEF WriteData
  <2>5. dev'.bsy /\ dev'.cmd = "STORE" /\ dev'.lba = cpu.si /\ dev'.data = cpu.buf
    BY <1>0, <2>1, <2>4, SMT DEF DeviceType
  <2>6. Late = {} /\ Late' = {[si |-> cpu.si, buf |-> cpu.buf]}
    BY <2>1, <2>5, Zenon DEF Late
  <2>7. cpu.si \in Disk!Lba
    BY <2>1 DEF Lba, Disk!Lba
  <2> QED
    BY <2>1, <2>3, <2>6, <2>7, Zenon DEF Disk!Write, Disk!RawNext, Late
<1>11. CASE \E fn \in {"READ", "WRITE", "SIZE"}, si \in Si, buf \in Content :
              Call(fn, si, buf)
  <2>1. cpu.at = "return" /\ cpu'.at = "size" /\ UNCHANGED << dev, sct, sectors >>
    BY <1>11 DEF Call, At
  <2>2. Late' = Late
    BY <2>1 DEF Late
  <2> QED
    BY <2>1, <2>2 DEF Disk!RawNext, Disk!Call, Late
<1>12. CASE UNCHANGED driveVars
  BY <1>12 DEF driveVars, Disk!rawVars, Disk!request
<1>13. 0 \in Si /\ cpu.buf \in Content
  BY <1>0, Zero DEF CallType
<1> QED
  BY <1>1, <1>2, <1>3, <1>4, <1>5, <1>7, <1>8, <1>9, <1>10, <1>11, <1>12, <1>13
     DEF DriveNext, Running, HDRawSectors

\* However late the drive answers, and although a call may leave it busy, a call of
\* the driver reads the sector it was asked for, when all earlier writes are stored
\* or lost; or hands the sector it was asked to write over, to be stored there or
\* not at all; or fails without effect (hdraw.c:107-128, 143-178).
THEOREM DriveImplements == DriveSpec => DiskImplemented
<1>1. DriveInit => Disk!RawInit
  <2> SUFFICES ASSUME DriveInit PROVE Disk!RawInit
    OBVIOUS
  <2>1. cpu.at = "return"
    BY Zenon DEF DriveInit
  <2>2. dev.bsy = FALSE
    BY DEF DriveInit
  <2>3. Late = {}
    BY <2>2, NothingLate
  <2> QED
    BY <2>1, <2>3, Zenon DEF DriveInit, Disk!RawInit, Lba, Disk!Lba, Unknown, Disk!Unknown, Late
<1> QED
  BY <1>1, InitInv, StepInv, StepImplements, PTL DEF DriveSpec, DiskImplemented, Disk!RawSpec
=============================================================================
