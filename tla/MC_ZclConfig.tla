---------------------------- MODULE MC_ZclConfig ----------------------------
(***************************************************************************)
(* A small generated configuration shared by the model-checking modules:   *)
(* endpoints 1..3, the On/Off cluster (6) on endpoints 1 and 2, the Level  *)
(* cluster (8) on endpoints 2 and 3, and one attribute of each kind the    *)
(* engine treats differently: bounded unsigned, bounded signed singleton,  *)
(* string, external, two-byte read-only with a maximum only, and remote.   *)
(* The rows are sorted by cluster and attribute id, as the generator       *)
(* emits them.                                                             *)
(***************************************************************************)
EXTENDS TLC

MCEndpointTable == <<1, 2, 3>>
MCEndpointClusters == (1 :> {6}) @@ (2 :> {6, 8}) @@ (3 :> {8})

\* The columns of a row: cluster, id, type, size, the mask bits
\* (singleton, external storage, remote, readable, reportable, writable,
\* bounded), the default/min/max bits present, and the first lookup-table
\* entry.
MCAttrTable ==
  << [cluster |-> 6, id |-> 0, type |-> "UNSIGNED_INTEGER", size |-> 1, singleton |-> FALSE,
      external |-> FALSE, remote |-> FALSE, readable |-> TRUE, reportable |-> TRUE,
      writable |-> TRUE, bounded |-> TRUE,
      bits |-> {"DEFAULT", "MINIMUM", "MAXIMUM"}, lookup |-> 1],
     [cluster |-> 6, id |-> 1, type |-> "INTEGER", size |-> 1, singleton |-> TRUE,
      external |-> FALSE, remote |-> FALSE, readable |-> TRUE, reportable |-> FALSE,
      writable |-> TRUE, bounded |-> TRUE,
      bits |-> {"MINIMUM", "MAXIMUM"}, lookup |-> 4],
     [cluster |-> 6, id |-> 2, type |-> "UINT8_LENGTH_STRING", size |-> 3, singleton |-> FALSE,
      external |-> FALSE, remote |-> FALSE, readable |-> TRUE, reportable |-> FALSE,
      writable |-> TRUE, bounded |-> FALSE,
      bits |-> {}, lookup |-> 1],
     [cluster |-> 6, id |-> 3, type |-> "UNSIGNED_INTEGER", size |-> 1, singleton |-> FALSE,
      external |-> TRUE, remote |-> FALSE, readable |-> TRUE, reportable |-> TRUE,
      writable |-> TRUE, bounded |-> FALSE,
      bits |-> {"DEFAULT"}, lookup |-> 6],
     [cluster |-> 6, id |-> 4, type |-> "UNSIGNED_INTEGER", size |-> 2, singleton |-> FALSE,
      external |-> FALSE, remote |-> FALSE, readable |-> TRUE, reportable |-> TRUE,
      writable |-> FALSE, bounded |-> TRUE,
      bits |-> {"MAXIMUM"}, lookup |-> 7],
     [cluster |-> 8, id |-> 0, type |-> "UNSIGNED_INTEGER", size |-> 1, singleton |-> FALSE,
      external |-> FALSE, remote |-> TRUE, readable |-> TRUE, reportable |-> FALSE,
      writable |-> TRUE, bounded |-> FALSE,
      bits |-> {}, lookup |-> 1] >>

\* default 10, min 2, max 200 | min -5, max 100 | default 7 | max 1000
MCLookupTable == <<10, 2, 200, 251, 100, 7, 1000>>

\* Values written to each attribute: in range, below or above a bound, a
\* negative one for the signed attribute, a string too long for its slot.
MCWriteValues ==
  <<{1, 150, 300}, {0, 120, 250, 255}, {0, 3, 4}, {7, 260}, {5, 1001}, {1}>>

=============================================================================
