-------------------------------- MODULE WAL --------------------------------
(***************************************************************************)
(* LogManager (src/recovery/log_manager.cpp): threads append records to   *)
(* one shared buffer under latch_ and flush it to the log file.            *)
(*                                                                         *)
(* add_log_to_buffer holds latch_ for its whole body, including the flush *)
(* it makes when the buffer is full.  flush_log_to_disk takes no lock of  *)
(* its own, and commit and abort call it without latch_, so its steps     *)
(* interleave with the steps of an append in progress.  A record is its   *)
(* LSN; Zero is what memset leaves in the buffer and what the log reader  *)
(* takes for the end of the log (a zero log_tot_len_).                    *)
(***************************************************************************)
EXTENDS Naturals, Sequences, SequencesExt

CONSTANTS
    Threads,   \* the client threads that append and flush
    NoThread,  \* latch_ free
    BufCap,    \* records that fit in log_buffer_
    MaxLsn     \* bound on the LSNs handed out

ASSUME BufCap \in Nat \ {0} /\ MaxLsn \in Nat \ {0}

Zero == 0

VARIABLES
    globalLsn,   \* global_lsn_: the next LSN
    buffer,      \* log_buffer_.buffer_, one slot per record
    offset,      \* log_buffer_.offset_, in records
    file,        \* the log file written by disk_manager_->write_log
    persistLsn,  \* persist_lsn_
    latch,       \* holder of latch_
    pc,          \* where each thread is
    lsn,         \* the LSN of the record each thread is appending
    lastLsn,     \* the local last_lsn_in_buffer of a running flush
    ret,         \* where a flush returns to: the append that called it, or the client
    acked        \* ghost: LSNs whose appender returned from its commit flush

vars == <<globalLsn, buffer, offset, file, persistLsn, latch, pc, lsn, lastLsn, ret, acked>>

\* global_lsn_ and log_buffer_ as log_manager.h leaves them.
Init ==
    /\ globalLsn = 1
    /\ buffer = [i \in 1..BufCap |-> Zero]
    /\ offset = 0
    /\ file = <<>>
    /\ persistLsn = 0
    /\ latch = NoThread
    /\ pc = [t \in Threads |-> "idle"]
    /\ lsn = [t \in Threads |-> 0]
    /\ lastLsn = [t \in Threads |-> 0]
    /\ ret = [t \in Threads |-> "idle"]
    /\ acked = {}

\* LogBuffer::is_full for a record of one slot.
IsFull == offset + 1 > BufCap

-----------------------------------------------------------------------------
(* add_log_to_buffer                                                       *)

\* Mutant: the LSN is read (load) instead of fetched and incremented.
AppendStartNoIncrement(t) ==
    /\ pc[t] = "idle"
    /\ latch = NoThread
    /\ globalLsn <= MaxLsn
    /\ latch' = t
    /\ lsn' = [lsn EXCEPT ![t] = globalLsn]
    /\ IF IsFull
       THEN /\ pc' = [pc EXCEPT ![t] = "flush_check"]
            /\ ret' = [ret EXCEPT ![t] = "append_serialize"]
       ELSE /\ pc' = [pc EXCEPT ![t] = "append_serialize"]
            /\ UNCHANGED ret
    /\ UNCHANGED <<globalLsn, buffer, offset, file, persistLsn, lastLsn, acked>>

\* Take latch_, fetch_add the LSN; a full buffer is flushed first, with the
\* latch held.
AppendStart(t) ==
    /\ pc[t] = "idle"
    /\ latch = NoThread
    /\ globalLsn <= MaxLsn
    /\ latch' = t
    /\ lsn' = [lsn EXCEPT ![t] = globalLsn]
    /\ globalLsn' = globalLsn + 1
    /\ IF IsFull
       THEN /\ pc' = [pc EXCEPT ![t] = "flush_check"]
            /\ ret' = [ret EXCEPT ![t] = "append_serialize"]
       ELSE /\ pc' = [pc EXCEPT ![t] = "append_serialize"]
            /\ UNCHANGED ret
    /\ UNCHANGED <<buffer, offset, file, persistLsn, lastLsn, acked>>

\* log_record->serialize(buffer_ + offset_).
AppendSerialize(t) ==
    /\ pc[t] = "append_serialize"
    /\ offset < BufCap
    /\ buffer' = [buffer EXCEPT ![offset + 1] = lsn[t]]
    /\ pc' = [pc EXCEPT ![t] = "append_offset"]
    /\ UNCHANGED <<globalLsn, offset, file, persistLsn, latch, lsn, lastLsn, ret, acked>>

\* Mutant: commit acknowledges its record without calling flush_log_to_disk.
AppendEndNoFlush(t) ==
    /\ pc[t] = "append_offset"
    /\ offset' = offset + 1
    /\ latch' = NoThread
    /\ pc' = [pc EXCEPT ![t] = "idle"]
    /\ \/ UNCHANGED acked
       \/ acked' = acked \cup {lsn[t]}
    /\ UNCHANGED <<globalLsn, buffer, file, persistLsn, lsn, lastLsn, ret>>

\* offset_ += log_tot_len_, release latch_.  The caller then either goes on
\* (BEGIN, INSERT, DELETE, UPDATE records) or, for the COMMIT record of
\* commit, calls flush_log_to_disk without the latch.
AppendEnd(t) ==
    /\ pc[t] = "append_offset"
    /\ offset' = offset + 1
    /\ latch' = NoThread
    /\ \/ pc' = [pc EXCEPT ![t] = "idle"] /\ UNCHANGED ret
       \/ /\ pc' = [pc EXCEPT ![t] = "flush_check"]
          /\ ret' = [ret EXCEPT ![t] = "commit"]
    /\ UNCHANGED <<globalLsn, buffer, file, persistLsn, lsn, lastLsn, acked>>

-----------------------------------------------------------------------------
(* flush_log_to_disk                                                       *)

\* Return to the caller: the append that flushed a full buffer goes on to
\* serialize; commit returns to its client with its record acknowledged.
Return(t) ==
    /\ pc' = [pc EXCEPT ![t] = IF ret[t] = "commit" THEN "idle" ELSE ret[t]]
    /\ acked' = IF ret[t] = "commit" THEN acked \cup {lsn[t]} ELSE acked

\* Mutant: last_lsn_in_buffer taken as global_lsn_ itself.
FlushCheckNextLsn(t) ==
    /\ pc[t] = "flush_check"
    /\ IF offset = 0
       THEN /\ Return(t)
            /\ UNCHANGED lastLsn
       ELSE /\ lastLsn' = [lastLsn EXCEPT ![t] = globalLsn]
            /\ pc' = [pc EXCEPT ![t] = "flush_write"]
            /\ UNCHANGED acked
    /\ UNCHANGED <<globalLsn, buffer, offset, file, persistLsn, latch, lsn, ret>>

\* An empty buffer returns at once; else last_lsn_in_buffer = global_lsn_ - 1.
FlushCheck(t) ==
    /\ pc[t] = "flush_check"
    /\ IF offset = 0
       THEN /\ Return(t)
            /\ UNCHANGED lastLsn
       ELSE /\ lastLsn' = [lastLsn EXCEPT ![t] = globalLsn - 1]
            /\ pc' = [pc EXCEPT ![t] = "flush_write"]
            /\ UNCHANGED acked
    /\ UNCHANGED <<globalLsn, buffer, offset, file, persistLsn, latch, lsn, ret>>

\* Mutant: the last record of the buffer is left out of the write.
FlushWriteShort(t) ==
    /\ pc[t] = "flush_write"
    /\ file' = file \o SubSeq(buffer, 1, offset - 1)
    /\ pc' = [pc EXCEPT ![t] = "flush_persist"]
    /\ UNCHANGED <<globalLsn, buffer, offset, persistLsn, latch, lsn, lastLsn, ret, acked>>

\* write_log(buffer_, offset_).
FlushWrite(t) ==
    /\ pc[t] = "flush_write"
    /\ file' = file \o SubSeq(buffer, 1, offset)
    /\ pc' = [pc EXCEPT ![t] = "flush_persist"]
    /\ UNCHANGED <<globalLsn, buffer, offset, persistLsn, latch, lsn, lastLsn, ret, acked>>

\* persist_lsn_ = last_lsn_in_buffer.
FlushPersist(t) ==
    /\ pc[t] = "flush_persist"
    /\ persistLsn' = lastLsn[t]
    /\ pc' = [pc EXCEPT ![t] = "flush_reset"]
    /\ UNCHANGED <<globalLsn, buffer, offset, file, latch, lsn, lastLsn, ret, acked>>

\* offset_ = 0.
FlushReset(t) ==
    /\ pc[t] = "flush_reset"
    /\ offset' = 0
    /\ pc' = [pc EXCEPT ![t] = "flush_clear"]
    /\ UNCHANGED <<globalLsn, buffer, file, persistLsn, latch, lsn, lastLsn, ret, acked>>

\* memset(buffer_, 0, sizeof(buffer_)), then return.
FlushClear(t) ==
    /\ pc[t] = "flush_clear"
    /\ buffer' = [i \in 1..BufCap |-> Zero]
    /\ Return(t)
    /\ UNCHANGED <<globalLsn, offset, file, persistLsn, latch, lsn, lastLsn, ret>>

-----------------------------------------------------------------------------

Done == \A t \in Threads : pc[t] = "idle"

Next ==
    \/ \E t \in Threads :
         \/ AppendStart(t) \/ AppendSerialize(t) \/ AppendEnd(t)
         \/ FlushCheck(t) \/ FlushWrite(t) \/ FlushPersist(t)
         \/ FlushReset(t) \/ FlushClear(t)
    \/ Done /\ globalLsn > MaxLsn /\ UNCHANGED vars

Spec == Init /\ [][Next]_vars

-----------------------------------------------------------------------------
(* Properties                                                              *)

Pcs == {"idle", "append_serialize", "append_offset", "flush_check", "flush_write",
        "flush_persist", "flush_reset", "flush_clear"}

TypeOK ==
    /\ globalLsn \in 1..(MaxLsn + 1)
    /\ buffer \in [1..BufCap -> 0..MaxLsn]
    /\ offset \in 0..BufCap
    /\ file \in Seq(0..MaxLsn)
    /\ persistLsn \in 0..MaxLsn
    /\ latch \in Threads \cup {NoThread}
    /\ pc \in [Threads -> Pcs]
    /\ ret \in [Threads -> {"idle", "commit", "append_serialize"}]
    /\ acked \subseteq 1..MaxLsn

\* The durability boundary of commit (spec, section 5): once
\* flush_log_to_disk has returned to commit, its COMMIT record is in the
\* log file, whatever the other threads were doing meanwhile.
CommitDurable == \A l \in acked : l \in ToSet(file)

\* The log file holds every appended record once, in LSN order, with no
\* hole: the reader of recovery, which stops at the first zero record,
\* sees all of it.
FileIsLsnPrefix == file = [i \in 1..Len(file) |-> i]

\* The log manager implements LogSpec: the appended records are the LSNs
\* handed out so far, and the file and the acknowledged records map to
\* themselves.
Abstract == INSTANCE LogSpec WITH log <- [i \in 1..(globalLsn - 1) |-> i]

LogRefinement == Abstract!LSpec

=============================================================================
