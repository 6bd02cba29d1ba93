----------------------------- MODULE VirtioBlk -----------------------------
(***************************************************************************)
(* The legacy virtio-blk driver (drivers/virtio.c), the block layer above  *)
(* it (core/block.c) and the device.  The driver has one request header,   *)
(* one status byte and one descriptor chain, and polls the used ring until *)
(* an answer comes or the timer says that more than a second has passed.   *)
(* The device works on its own: it takes a published request when it likes *)
(* and reads the chain, header included, at that moment.                   *)
(*                                                                         *)
(* A sector's data is represented by its number.  The buffer is a row of   *)
(* sector-sized slots, in one place for every call, as a stack buffer is   *)
(* when one command is repeated; Junk is whatever it held before.          *)
(***************************************************************************)
EXTENDS Integers

CONSTANTS
    DiskSectors,  \* sectors of the disk
    MaxCount,     \* bound: sectors of one block_read_device call
    IndexMod,     \* the ring indices are uint16_t: 2^16 in the code
    Limit,        \* timer_get_frequency_hz: ticks waited (100 in the code)
    Promptness    \* of the devices considered: TRUE if a device always answers
                  \* before the driver's last look at the used ring

ASSUME VirtioBlkAssumption ==
    /\ DiskSectors \in Nat \ {0}
    /\ MaxCount \in Nat \ {0}
    /\ IndexMod \in Nat \ {0, 1}
    /\ Limit \in Nat
    /\ Promptness \subseteq BOOLEAN

VARIABLES
    pc,         \* where the caller of block_read_device is
    ready,      \* state->ready
    capacity,   \* state->capacity_sectors; 0 if unknown
    lba, count, \* the arguments of block_read_device
    at,         \* sector_index
    result,     \* the value last returned
    header,     \* request_header->sector
    status,     \* *request_status: "ff", "ok" or "err"
    target,     \* desc[1].address: the buffer slot
    avail,      \* avail->index
    used,       \* used->index
    last_used,  \* state->last_used_index
    elapsed,    \* timer_get_ticks() - start_ticks
    buffer,     \* what each slot of the caller's buffer holds
    prompt,     \* device: whether it always answers in time
    seen,       \* device: the avail index it has got to
    job         \* device: the request it works on

driver == <<ready, capacity, header, status, target, avail, last_used>>
device == <<prompt, used, seen, job>>
blkVars == <<pc, driver, device, lba, count, at, result, elapsed, buffer>>

Lbas  == 0 .. (DiskSectors + MaxCount)
Slots == 0 .. (MaxCount - 1)
Junk  == -1
NoJob == [sector |-> 0, slot |-> 0, stage |-> "none"]
Jobs  == [sector : Lbas, slot : Slots, stage : {"none", "read", "written"}]

BlkInit ==
    /\ pc = "boot"
    /\ ready = FALSE
    /\ capacity = 0
    /\ lba = 0 /\ count = 1 /\ at = 0
    /\ result = FALSE
    /\ header = 0 /\ status = "ff" /\ target = 0
    /\ avail = 0 /\ used = 0 /\ last_used = 0
    /\ elapsed = 0
    /\ buffer = [s \in Slots |-> Junk]
    /\ prompt \in Promptness
    /\ seen = 0
    /\ job = NoJob

-----------------------------------------------------------------------------
(* The driver. *)

\* What virtio_blk_setup_queue can find, in the order of its checks.  Only on
\* the last two does it get as far as giving the queue to the device, and only
\* "small" tells a capacity: one that needs more than 32 bits counts as unknown.
SetupOutcomes == {"modern", "no io bar", "no queue", "no memory", "small", "large"}

QueueIsUp(outcome) == outcome \in {"small", "large"}

SetupQueue(outcome) ==
    /\ ready' = QueueIsUp(outcome)
    /\ capacity' = IF outcome = "small" THEN DiskSectors ELSE 0
    /\ last_used' = 0

\* virtio_blk_probe: an allocation fails or the queue is set up; the block device
\* is registered all the same.
Probe ==
    /\ pc = "boot"
    /\ \/ ready' = FALSE /\ capacity' = 0 /\ last_used' = 0
       \/ \E outcome \in SetupOutcomes : SetupQueue(outcome)
    /\ pc' = "idle"
    /\ UNCHANGED <<device, header, status, target, avail, lba, count, at, result,
                   elapsed, buffer>>

\* block_read_device: what the buffer held is of no use to the
\* caller.
Call(l, n) ==
    /\ pc = "idle"
    /\ lba' = l
    /\ count' = n
    /\ at' = 0
    /\ buffer' = [s \in Slots |-> Junk]
    /\ pc' = "sector"
    /\ UNCHANGED <<driver, device, result, elapsed>>

Return(value) == pc' = "returned" /\ result' = value

\* virtio_blk_block_read gives up before touching the queue.
Reject ==
    /\ pc = "sector"
    /\ ~ready \/ (capacity # 0 /\ lba + at >= capacity)
    /\ Return(FALSE)
    /\ UNCHANGED <<driver, device, lba, count, at, elapsed, buffer>>

\* Mutant: every sector is read to the start of the buffer.
MutFillFirstSlot ==
    /\ pc = "sector"
    /\ ready
    /\ capacity = 0 \/ lba + at < capacity
    /\ header' = lba + at
    /\ status' = "ff"
    /\ target' = 0
    /\ pc' = "publish"
    /\ UNCHANGED <<ready, capacity, avail, last_used, device, lba, count, at,
                   result, elapsed, buffer>>

\* The header, the status byte and the three descriptors are filled in.
Fill ==
    /\ pc = "sector"
    /\ ready
    /\ capacity = 0 \/ lba + at < capacity
    /\ header' = lba + at
    /\ status' = "ff"
    /\ target' = at
    /\ pc' = "publish"
    /\ UNCHANGED <<ready, capacity, avail, last_used, device, lba, count, at,
                   result, elapsed, buffer>>

\* avail->index++, notify, start_ticks.
Publish ==
    /\ pc = "publish"
    /\ avail' = (avail + 1) % IndexMod
    /\ elapsed' = 0
    /\ pc' = "poll"
    /\ UNCHANGED <<ready, capacity, header, status, target, last_used, device,
                   lba, count, at, result, buffer>>

Outstanding == used # avail

\* The loop of the driver: it looks at the used index ("poll") and then at the
\* timer ("timer").
InLoop == pc \in {"poll", "timer"}

\* A tick while the driver polls.  The one that passes the limit finds the answer
\* of a prompt device there and the driver about to see it: were the driver at
\* "timer", it would give up without another look.
Tick ==
    /\ InLoop
    /\ elapsed <= Limit
    /\ prompt /\ elapsed = Limit => ~Outstanding /\ pc = "poll"
    /\ elapsed' = elapsed + 1
    /\ UNCHANGED <<pc, driver, device, lba, count, at, result, buffer>>

\* The used index has moved, or not.
Poll ==
    /\ pc = "poll"
    /\ pc' = IF used # last_used THEN "collect" ELSE "timer"
    /\ UNCHANGED <<driver, device, lba, count, at, result, elapsed, buffer>>

\* Mutant: the driver waits for ever.
MutPollTimeoutNever ==
    /\ pc = "timer"
    /\ pc' = "poll"
    /\ UNCHANGED <<driver, device, lba, count, at, result, elapsed, buffer>>

\* When it had not, is time up?  Then the request stays with the device, which may
\* have answered meanwhile.
PollTimeout ==
    /\ pc = "timer"
    /\ IF elapsed > Limit THEN Return(FALSE) ELSE pc' = "poll" /\ UNCHANGED result
    /\ UNCHANGED <<driver, device, lba, count, at, elapsed, buffer>>

\* Mutant: last_used_index is not brought up to date.
MutCollectForgets ==
    /\ pc = "collect"
    /\ IF status # "ok"
       THEN Return(FALSE) /\ UNCHANGED at
       ELSE IF at + 1 = count
       THEN Return(TRUE) /\ UNCHANGED at
       ELSE at' = at + 1 /\ pc' = "sector" /\ UNCHANGED result
    /\ UNCHANGED <<driver, device, lba, count, elapsed, buffer>>

\* last_used_index = used->index, and the status decides; on success
\* block_read_device goes on to the next sector.
Collect ==
    /\ pc = "collect"
    /\ last_used' = used
    /\ IF status # "ok"
       THEN Return(FALSE) /\ UNCHANGED at
       ELSE IF at + 1 = count
       THEN Return(TRUE) /\ UNCHANGED at
       ELSE at' = at + 1 /\ pc' = "sector" /\ UNCHANGED result
    /\ UNCHANGED <<ready, capacity, header, status, target, avail, device,
                   lba, count, elapsed, buffer>>

\* The caller goes on with the result.
CallerContinues ==
    /\ pc = "returned"
    /\ pc' = "idle"
    /\ UNCHANGED <<driver, device, lba, count, at, result, elapsed, buffer>>

-----------------------------------------------------------------------------
(* The device. *)

DeviceTakes ==
    /\ job.stage = "none"
    /\ seen # avail
    /\ seen' = (seen + 1) % IndexMod
    /\ job' = [sector |-> header, slot |-> target, stage |-> "read"]
    /\ UNCHANGED <<pc, driver, prompt, used, lba, count, at, result, elapsed, buffer>>

\* A sector that exists is written to the buffer, and then the status byte;
\* any request may also fail.
DeviceWrites(ok) ==
    /\ job.stage = "read"
    /\ ok => job.sector < DiskSectors
    /\ buffer' = IF ok THEN [buffer EXCEPT ![job.slot] = job.sector] ELSE buffer
    /\ status' = IF ok THEN "ok" ELSE "err"
    /\ job' = [job EXCEPT !.stage = "written"]
    /\ UNCHANGED <<pc, ready, capacity, header, target, avail, last_used, prompt,
                   used, seen, lba, count, at, result, elapsed>>

DeviceFinishes ==
    /\ job.stage = "written"
    /\ used' = (used + 1) % IndexMod
    /\ job' = NoJob
    /\ UNCHANGED <<pc, driver, prompt, seen, lba, count, at, result, elapsed, buffer>>

-----------------------------------------------------------------------------
Driver ==
    \/ Probe \/ Reject \/ Fill \/ Publish \/ Poll \/ PollTimeout \/ Collect
    \/ CallerContinues

Device == DeviceTakes \/ (\E ok \in BOOLEAN : DeviceWrites(ok)) \/ DeviceFinishes

BlkNext ==
    \/ Driver
    \/ Tick
    \/ \E l \in 0 .. DiskSectors, n \in 1 .. MaxCount : Call(l, n)
    \/ Device

BlkSpec == BlkInit /\ [][BlkNext]_blkVars

\* The processor goes on and the timer ticks; a device is asked to work only if
\* it is one that answers in time.
BlkFairSpec ==
    /\ BlkSpec
    /\ WF_blkVars(Driver)
    /\ WF_blkVars(Tick)
    /\ WF_blkVars(prompt /\ Device)

-----------------------------------------------------------------------------
\* The types, a part of Quiescent: the ring indices are 16-bit, and the sector
\* under way is one of those asked for.
BlkTypeOK ==
    /\ pc \in {"boot", "idle", "sector", "publish", "poll", "timer", "collect",
               "returned"}
    /\ ready \in BOOLEAN
    /\ capacity \in {0, DiskSectors}
    /\ lba \in 0 .. DiskSectors
    /\ count \in 1 .. MaxCount
    /\ at \in Slots
    /\ at < count
    /\ result \in BOOLEAN
    /\ header \in Lbas
    /\ status \in {"ff", "ok", "err"}
    /\ target \in Slots
    /\ avail \in 0 .. (IndexMod - 1)
    /\ used \in 0 .. (IndexMod - 1)
    /\ last_used \in 0 .. (IndexMod - 1)
    /\ prompt \in Promptness
    /\ seen \in 0 .. (IndexMod - 1)
    /\ elapsed \in 0 .. (Limit + 1)
    /\ buffer \in [Slots -> {Junk} \cup Lbas]
    /\ job \in Jobs

\* A read that returns success has put every sector asked for into the buffer,
\* in order, although header, status byte and descriptors are shared by all
\* requests and the ring indices wrap.
ReadDelivers ==
    pc = "returned" /\ result =>
        \A i \in 0 .. (count - 1) : buffer[i] = lba + i

\* The same of a device that answers in time.
PromptReadDelivers == prompt => ReadDelivers

\* Between calls a device that answers in time has nothing of ours: every
\* published request was answered and its answer collected.
Quiescent ==
    /\ BlkTypeOK
    /\ prompt /\ pc \in {"idle", "sector", "returned"} =>
          /\ avail = used
          /\ last_used = used
          /\ job = NoJob

\* Every read returns, even if the device never answers.
ReadReturns == pc = "sector" ~> pc = "returned"
=============================================================================
