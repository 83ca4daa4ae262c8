------------------------------ MODULE LogSpec ------------------------------
(***************************************************************************)
(* What the write-ahead log promises its callers (spec, section 4.3 and    *)
(* section 5): records get strictly increasing LSNs in the order they are  *)
(* appended; the log file is always a prefix of that sequence, growing     *)
(* only; and a caller whose flush has returned finds its record in the     *)
(* file.  This is the abstraction the recovery model uses for the log.     *)
(***************************************************************************)
EXTENDS Naturals, Sequences, SequencesExt

VARIABLES
    log,    \* every record appended so far, in LSN order
    file,   \* the records in the log file
    acked   \* the records whose appender has returned from a flush

lvars == <<log, file, acked>>

LInit ==
    /\ log = <<>>
    /\ file = <<>>
    /\ acked = {}

\* A new record is appended with the next LSN.
LAppend == log' = Append(log, Len(log) + 1) /\ UNCHANGED <<file, acked>>

\* A flush makes a longer prefix of the appended records durable.
LFlush ==
    /\ \E n \in Len(file)..Len(log) : file' = SubSeq(log, 1, n)
    /\ UNCHANGED <<log, acked>>

\* A flush returns to the caller of record r only once r is in the file.
LAck(r) ==
    /\ r \in ToSet(file)
    /\ acked' = acked \cup {r}
    /\ UNCHANGED <<log, file>>

LNext == LAppend \/ LFlush \/ \E r \in ToSet(log) : LAck(r)

LSpec == LInit /\ [][LNext]_lvars

=============================================================================
