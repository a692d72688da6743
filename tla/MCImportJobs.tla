----------------------------- MODULE MCImportJobs -----------------------------
(* ImportJobs for TLC: a file with a row that has no address, and one with a *)
(* row that the reader refuses.                                              *)
EXTENDS ImportJobs

CONSTANT e1

MCFiles == {[header |-> TRUE, rows |-> <<e1, NoAt, e1>>],
            [header |-> TRUE, rows |-> <<e1, e1, Ragged>>]}
=============================================================================
