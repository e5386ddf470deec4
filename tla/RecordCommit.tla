---------------------------- MODULE RecordCommit ----------------------------
(***************************************************************************)
(* Which offset a partition consumer commits after a batch                 *)
(* (events-processor/config/kafka/consumer.go).  A batch is the set of the *)
(* offsets of its records: offsets identify records within a partition, so *)
(* the key "<record key>-<offset>" of the Go map is the offset itself.     *)
(***************************************************************************)
EXTENDS Integers

\* The processed records that lie below every unprocessed record of the batch.
belowUnprocessed(processedRecords, records) ==
    {o \in processedRecords :
        \A u \in records \ processedRecords : o < u}

\* The highest of a set of offsets: a set with at most one member, so that
\* the pair (record, ok) of the code is {record} or {}.
highest(offsets) == {o \in offsets : \A q \in offsets : q <= o}

\* Plausible slip: the highest processed record, whatever failed before it.
findMaxCommitableRecord_ignoresGaps(processedRecords, records) ==
    highest(processedRecords)

findMaxCommitableRecord(processedRecords, records) ==
    highest(belowUnprocessed(processedRecords, records))

\* The offsets processRecordsAndCommit hands to CommitRecords: the whole batch
\* when everything was processed, else the one record found above (or none).
commitableRecords(processedRecords, records) ==
    IF processedRecords = records
    THEN records
    ELSE findMaxCommitableRecord(processedRecords, records)

\* CommitRecords commits, per partition, the offset after the highest record.
CommitRecords(records) == {o + 1 : o \in highest(records)}
=============================================================================
