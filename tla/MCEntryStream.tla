--------------------------- MODULE MCEntryStream ---------------------------
EXTENDS EntryStream

(* Everything kept as it is; a redactor with a bound that bites in the     *)
(* second turn; a redactor that never answers.                             *)
SomePolicies == {[redaction |-> "off", maxContent |-> 0],
                 [redaction |-> "on", maxContent |-> 2],
                 [redaction |-> "refusing", maxContent |-> 0]}
=============================================================================
