------------------------------- MODULE RawDisk --------------------------------
(***************************************************************************)
(* What the file system may take the disk driver for. A sector is read in  *)
(* one step, or the call fails and changes nothing. A call that writes     *)
(* hands the sector over, or fails without effect; what was handed over is *)
(* stored or lost afterwards, and the caller is not told which, but this   *)
(* is settled before the next sector is read or handed over. The number of *)
(* sectors is not known at first; once there is one it stays, but it need  *)
(* not be right.                                                           *)
(***************************************************************************)
EXTENDS Integers

CONSTANTS SECTORS, Content

Lba     == 0 .. SECTORS - 1
Unknown == -1   \* 0xFFFFFFFF: larger than every sector number

VARIABLES
    disk,    \* the sectors
    late,    \* the write that was handed over and is not settled, if there is one
    size,    \* what HDRawSectors returns
    fn, si,  \* the last call: "SIZE", "READ" or "WRITE", and of which sector
    buf,     \* its buffer
    ret,     \* what it has returned
    done     \* whether it has returned

request == << fn, si >>
rawVars == << disk, late, size, request, buf, ret, done >>

RawInit ==
    /\ disk \in [Lba -> Content]
    /\ late = {}
    /\ size = Unknown
    /\ done = TRUE

Call ==
    /\ done = TRUE /\ done' = FALSE
    /\ UNCHANGED << disk, late, size >>

Learn ==
    /\ size = Unknown /\ size' \in Int
    /\ UNCHANGED << disk, late, request, buf, ret, done >>

\* The write is stored.
Store ==
    /\ \E w \in late : disk' = [disk EXCEPT ![w.si] = w.buf]
    /\ late' = {}
    /\ UNCHANGED << size, request, buf, ret, done >>

\* The write is lost.
Lose ==
    /\ late' = {}
    /\ UNCHANGED << disk, size, request, buf, ret, done >>

Return(ok) ==
    /\ done = FALSE /\ done' = TRUE
    /\ ret' = ok
    /\ UNCHANGED << disk, size, request >>

Fail == Return(FALSE) /\ UNCHANGED << late, buf >>

ReturnSize == fn = "SIZE" /\ Return(TRUE) /\ UNCHANGED << late, buf >>

Read ==
    /\ fn = "READ" /\ si \in Lba /\ late = {}
    /\ Return(TRUE)
    /\ buf' = disk[si]
    /\ UNCHANGED late

Write ==
    /\ fn = "WRITE" /\ si \in Lba /\ late = {}
    /\ Return(TRUE)
    /\ late' = {[si |-> si, buf |-> buf]}
    /\ UNCHANGED buf

RawNext == Call \/ Learn \/ Store \/ Lose \/ Fail \/ ReturnSize \/ Read \/ Write

RawSpec == RawInit /\ [][RawNext]_rawVars
=============================================================================
