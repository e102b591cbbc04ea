----------------------------- MODULE FreeSpace -----------------------------
(* The free-space gate of the log (wal/free-space.ts): one sample at a time *)
(* of the file systems of the log and of the archive, taken by a timer or   *)
(* for a write that waits, corrected for the frames that were written while *)
(* it was taken, and debited for those that were written since. Writes are  *)
(* serialised by the log (wal.ts:157-176).                                  *)
(*                                                                          *)
(* The file system of the log loses space to frames only and regains it     *)
(* when others clean up; what others take between two samples is what the   *)
(* gate cannot see, and is left out.                                        *)
EXTENDS Integers, FiniteSetsExt

CONSTANTS
    Capacity,
    MinFreeBytes,
    FrameBytes,    \* sizes of frames
    NoSample,      \* what stands for no sample, and no number
    MaxReleases,   \* times that others free space, or that the archive changes
    MaxFailures    \* probes that fail

\* What a probe finds, and a sample that is being taken.
Seen    == [wal : Nat, archive : BOOLEAN]
Samples == [debitedAtStart : Nat, seen : Seen \cup {NoSample}]

\* Bytes are numbers; what stands for no sample is none of them, and is no sample.
ASSUME SpaceAssumption ==
    /\ Capacity \in Nat /\ MinFreeBytes \in Nat /\ FrameBytes \subseteq Nat
    /\ NoSample \notin Nat /\ NoSample \notin Seen /\ NoSample \notin Samples

VARIABLES
    free,          \* what the file system of the log has
    archiveFree,   \* whether that of the archive has MinFreeBytes
    releases, failures,
    walBytes,      \* the cached sample, or NoSample
    archiveReady,  \* the same of the archive
    debitedBytes,
    sampledAt,     \* "recent", or "old": older than sampleMs
    inFlight,      \* NoSample, or the sample that is being taken
    write          \* the append that is being admitted or written

spaceVars == <<free, archiveFree, releases, failures, walBytes, archiveReady, debitedBytes,
               sampledAt, inFlight, write>>
disk == <<free, archiveFree, releases, failures>>
cache == <<walBytes, archiveReady, debitedBytes, sampledAt>>

NoWrite == [at |-> "idle", bytes |-> 0, short |-> FALSE]

\* start: a first sample has been taken.
SpaceInit ==
    /\ free \in MinFreeBytes..Capacity
    /\ archiveFree \in BOOLEAN
    /\ releases = 0 /\ failures = 0
    /\ walBytes = free /\ archiveReady = archiveFree
    /\ debitedBytes = 0 /\ sampledAt = "recent"
    /\ inFlight = NoSample
    /\ write = NoWrite

----------------------------------------------------------------------------
Short(bytes) == free < MinFreeBytes + bytes \/ ~archiveFree

\* Others give space back; the archive's file system fills up or is cleaned.
\* A write that waits has been refused for a reason if it was short before.
Release(bytes) ==
    /\ releases < MaxReleases /\ free + bytes <= Capacity
    /\ free' = free + bytes /\ releases' = releases + 1
    /\ UNCHANGED <<archiveFree, failures, cache, inFlight, write>>

ArchiveChanges ==
    /\ releases < MaxReleases
    /\ archiveFree' = ~archiveFree /\ releases' = releases + 1
    /\ write' = [write EXCEPT !.short = @ \/ archiveFree]
    /\ UNCHANGED <<free, failures, cache, inFlight>>

SampleAges ==
    /\ sampledAt = "recent"
    /\ sampledAt' = "old"
    /\ UNCHANGED <<disk, walBytes, archiveReady, debitedBytes, inFlight, write>>

----------------------------------------------------------------------------
(* sample                                                                   *)
Sampling == [debitedAtStart |-> debitedBytes, seen |-> NoSample]

\* Due without being forced.
Due == sampledAt # "recent"

TimerSample ==
    /\ inFlight = NoSample /\ Due
    /\ inFlight' = Sampling
    /\ UNCHANGED <<disk, cache, write>>

\* statfs answers for both file systems.
Probe ==
    /\ inFlight # NoSample /\ inFlight.seen = NoSample
    /\ inFlight' = [inFlight EXCEPT !.seen = [wal |-> free, archive |-> archiveFree]]
    /\ UNCHANGED <<disk, cache, write>>

\* Mutant: what was written while the sample was taken is not subtracted.
MeanwhileIgnored == 0
Meanwhile == debitedBytes - inFlight.debitedAtStart

\* Whoever waits for the sample goes on.
Resumed ==
    write' = CASE write.at = "sampling" -> [write EXCEPT !.at = "sampled"]
               [] write.at = "forcing"  -> [write EXCEPT !.at = "forced"]
               [] OTHER -> write

SampleEnds ==
    /\ inFlight # NoSample /\ inFlight.seen # NoSample
    /\ walBytes' = Max({0, inFlight.seen.wal - Meanwhile})
    /\ archiveReady' = inFlight.seen.archive
    /\ sampledAt' = "recent" /\ inFlight' = NoSample
    /\ Resumed
    /\ UNCHANGED <<disk, debitedBytes>>

SampleFails ==
    /\ inFlight # NoSample /\ failures < MaxFailures
    /\ failures' = failures + 1
    /\ walBytes' = NoSample /\ archiveReady' = FALSE
    /\ sampledAt' = "recent" /\ inFlight' = NoSample
    /\ Resumed
    /\ UNCHANGED <<free, archiveFree, releases, debitedBytes>>

----------------------------------------------------------------------------
(* assertWritable, and the write it admits                                  *)
Insufficient(bytes) == walBytes = NoSample \/ ~archiveReady \/ walBytes < MinFreeBytes + bytes

\* The sample of an append that begins: the one in flight, a new one when it is
\* due, or the cached one.
BeginWrite(bytes) ==
    /\ write.at = "idle"
    /\ write' = [at |-> IF inFlight # NoSample \/ Due THEN "sampling" ELSE "sampled",
                 bytes |-> bytes, short |-> Short(bytes)]
    /\ inFlight' = IF inFlight = NoSample /\ Due THEN Sampling ELSE inFlight
    /\ UNCHANGED <<disk, cache>>

Forces == Insufficient(write.bytes)

Decide ==
    /\ write.at = "sampled"
    /\ IF Forces
       THEN /\ write' = [write EXCEPT !.at = "forcing"]
            /\ inFlight' = IF inFlight = NoSample THEN Sampling ELSE inFlight
       ELSE /\ write' = [write EXCEPT !.at = IF Insufficient(write.bytes) THEN "refused" ELSE "admitted"]
            /\ UNCHANGED inFlight
    /\ UNCHANGED <<disk, cache>>

DecideForced ==
    /\ write.at = "forced"
    /\ write' = [write EXCEPT !.at = IF Insufficient(write.bytes) THEN "refused" ELSE "admitted"]
    /\ UNCHANGED <<disk, cache, inFlight>>

WriteAdmitted ==
    /\ write.at = "admitted"
    /\ free' = free - write.bytes
    /\ write' = [write EXCEPT !.at = "written"]
    /\ UNCHANGED <<archiveFree, releases, failures, cache, inFlight>>

Consume ==
    /\ write.at = "written"
    /\ debitedBytes' = debitedBytes + write.bytes
    /\ walBytes' = IF walBytes = NoSample THEN NoSample ELSE Max({0, walBytes - write.bytes})
    /\ write' = NoWrite
    /\ UNCHANGED <<disk, archiveReady, sampledAt, inFlight>>

\* WAL_DISK_RESERVE_REQUIRED
RefuseWrite == write.at = "refused" /\ write' = NoWrite /\ UNCHANGED <<disk, cache, inFlight>>

SpaceNext ==
    \/ \E bytes \in FrameBytes : Release(bytes) \/ BeginWrite(bytes)
    \/ ArchiveChanges \/ SampleAges
    \/ TimerSample \/ Probe \/ SampleEnds \/ SampleFails
    \/ Decide \/ DecideForced \/ WriteAdmitted \/ Consume \/ RefuseWrite

SpaceSpec == SpaceInit /\ [][SpaceNext]_spaceVars
----------------------------------------------------------------------------
(* Frames never take what is kept for the control state, however the        *)
(* samples of the timer fall between the steps of the writes; and an append *)
(* is refused only if space was short since it began, or a probe failed.    *)
ReserveIsKept ==
    /\ free >= MinFreeBytes
    /\ write.at = "refused" => write.short \/ failures > 0
============================================================================
