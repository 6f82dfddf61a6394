------------------------- MODULE ZclAttributeStore -------------------------
(***************************************************************************)
(* The attribute metadata table, the storage locator and the single        *)
(* attribute read/write engine of zcl-core-attribute.c.                    *)
(*                                                                         *)
(* The generated attribute table, endpoint table and default/min/max       *)
(* lookup table are CONSTANTS.  The shared attribute data buffer is the    *)
(* variable store, one value per storage instance: an instance is          *)
(* <<attribute, endpoint index>>, and a singleton attribute has the one    *)
(* instance <<attribute, 0>>.  A value is the bit pattern of the attribute *)
(* bytes read as a little-endian natural (the length of a string).  The    *)
(* application's external attribute store is kept in the same variable,    *)
(* keyed the same way (the application stores a singleton once).          *)
(* notified records, per endpoint and attribute, the value the last        *)
(* post-attribute-change callback reported.                                *)
(***************************************************************************)
EXTENDS Integers, Sequences, FiniteSets, ZclNumeric

CONSTANTS
  EndpointTable,     \* chZclEndpointTable: the endpoint ids, in table order
  EndpointClusters,  \* endpoint id -> clusters it implements (chZclEndpointHasCluster)
  AttrTable,         \* chZclAttributeTable, sorted by (cluster, attribute id)
  LookupTable,       \* default/min/max constants, reached through AttrTable[a].lookup
  GarbageBytes,      \* bytes an over-read of a caller's buffer may produce
  ShortBuffers,      \* whether a local caller may pass fewer bytes than the attribute size
  WriteValues        \* attribute -> the values callers write to it

VARIABLES store, notified

vars == <<store, notified>>

Endpoints == {EndpointTable[k] : k \in 1..Len(EndpointTable)}
Attrs == 1..Len(AttrTable)

\* Model values of the code's null sentinels.
NoAttr == 0                          \* NULL attribute entry
IndexNull == -1                      \* CHIP_ZCL_ENDPOINT_INDEX_NULL
NotNotified == -1                    \* no post-change callback yet

Statuses == {"SUCCESS", "UNSUPPORTED_ATTRIBUTE", "INSUFFICIENT_SPACE",
             "INVALID_VALUE", "FAILURE", "READ_ONLY", "MALFORMED_COMMAND",
             "DECODE_ERROR", "NULL"}

\* What chipZclWriteExternalAttributeCallback answers, returned as it is:
\* success, a failure, and the status the write handler skips.
ExtWriteStatuses == {"SUCCESS", "FAILURE", "UNSUPPORTED_ATTRIBUTE"}

StringTypes == {"UINT8_LENGTH_STRING", "UINT16_LENGTH_STRING"}

Local(a) == ~AttrTable[a].remote
ExternalAttrs == {a \in Attrs : AttrTable[a].external}

(***************************************************************************)
(* chipZclEndpointIdToIndex (not in this source): the dense index of an    *)
(* endpoint among the endpoints that implement the cluster, in endpoint    *)
(* table order, or CHIP_ZCL_ENDPOINT_INDEX_NULL.                           *)
(***************************************************************************)
EndpointIndex(e, c) ==
  IF c \notin EndpointClusters[e] THEN IndexNull
  ELSE LET pos == CHOOSE k \in 1..Len(EndpointTable) : EndpointTable[k] = e
       IN  Cardinality({k \in 1..pos - 1 : c \in EndpointClusters[EndpointTable[k]]})

HasCluster(e, a) == AttrTable[a].cluster \in EndpointClusters[e]

\* The endpoints that implement attribute a's cluster.
EndpointsOf(a) == {x \in Endpoints : HasCluster(x, a)}

(***************************************************************************)
(* chZclFindAttribute: scan the sorted table, stop at the first row whose  *)
(* cluster is greater, return the first row with the cluster and id that   *)
(* is local or, when includeRemote, remote.                                *)
(***************************************************************************)
RECURSIVE FindFrom(_, _, _, _)
FindFrom(i, c, id, includeRemote) ==
  IF i > Len(AttrTable) \/ AttrTable[i].cluster > c THEN NoAttr
  ELSE IF /\ AttrTable[i].cluster = c /\ AttrTable[i].id = id
          /\ (includeRemote \/ Local(i))
       THEN i
       ELSE FindFrom(i + 1, c, id, includeRemote)

\* The lookup of every cluster and id the table names, computed once.
FoundTable ==
  [x \in {AttrTable[a].cluster : a \in Attrs} \X {AttrTable[a].id : a \in Attrs} \X BOOLEAN |->
     FindFrom(1, x[1], x[2], x[3])]
FindAttribute(c, id, includeRemote) ==
  IF <<c, id, includeRemote>> \in DOMAIN FoundTable THEN FoundTable[<<c, id, includeRemote>>]
  ELSE FindFrom(1, c, id, includeRemote)

\* A variant of attributeDataLocation that forgets the singleton case and
\* always offsets by the endpoint index.
DataLocationNoSingleton(idx, a) == <<a, idx>>

(***************************************************************************)
(* attributeDataLocation: dataOffset + size * (singleton ? 0 : index).     *)
(***************************************************************************)
DataLocation(idx, a) == <<a, IF AttrTable[a].singleton THEN 0 ELSE idx>>

\* The instance each endpoint reads and writes, computed once.
SlotTable == [x \in Endpoints \X Attrs |->
                DataLocation(EndpointIndex(x[1], AttrTable[x[2]].cluster), x[2])]
Slot(e, a) == SlotTable[<<e, a>>]

Instances == UNION {{Slot(e, a) : e \in EndpointsOf(a)} : a \in {x \in Attrs : Local(x)}}

(***************************************************************************)
(* attributeDefaultMinMaxLocation: a constant whose bit is not in the      *)
(* attribute's mask is all zeros; otherwise its lookup-table entry comes   *)
(* after one entry for each earlier bit (default, minimum, maximum) set.   *)
(***************************************************************************)
DataBitOrder == <<"DEFAULT", "MINIMUM", "MAXIMUM">>

DefaultMinMax(a, bit) ==
  IF bit \notin AttrTable[a].bits THEN 0
  ELSE LET rank(x) == CHOOSE k \in 1..3 : DataBitOrder[k] = x
       IN  LookupTable[AttrTable[a].lookup
                       + Cardinality({x \in AttrTable[a].bits : rank(x) < rank(bit)})]

(***************************************************************************)
(* chZclAttributeSize: strings occupy their length prefix plus their       *)
(* length; every other type its declared size.                             *)
(***************************************************************************)
AttributeSize(a, raw) ==
  CASE AttrTable[a].type = "UINT8_LENGTH_STRING"  -> raw + 1
    [] AttrTable[a].type = "UINT16_LENGTH_STRING" -> raw + 2
    [] OTHER                                      -> AttrTable[a].size

\* A variant of the bound check that compares with the minimum only.
OutOfBoundsMinOnly(a, in) ==
  LET d == AttrTable[a]
  IN  /\ d.bounded /\ d.type \in NumericTypes
      /\ IsLessThan(Encode(in.raw, in.len), Encode(DefaultMinMax(a, "MINIMUM"), d.size),
                    d.size, d.type)

(***************************************************************************)
(* The bound check of chZclWriteAttributeEntry: for a bounded numeric      *)
(* attribute, the value (bufferLength bytes) is below the minimum or the   *)
(* maximum is below the value.                                             *)
(***************************************************************************)
OutOfBounds(a, in) ==
  LET d == AttrTable[a]
      v == Encode(in.raw, in.len)
  IN  /\ d.bounded /\ d.type \in NumericTypes
      /\ \/ IsLessThan(v, Encode(DefaultMinMax(a, "MINIMUM"), d.size), d.size, d.type)
         \/ IsLessThan(Encode(DefaultMinMax(a, "MAXIMUM"), d.size), v, d.size, d.type)

\* A variant of the copy that takes the caller's buffer length rather than
\* chZclAttributeSize as the number of bytes to move.
StoredValueCallerLength(a, in, garbage) ==
  IF AttrTable[a].type \in StringTypes THEN in.raw
  ELSE IF in.len >= AttrTable[a].size THEN in.raw
  ELSE in.raw + garbage * ByteBase ^ in.len

(***************************************************************************)
(* The value the MEMMOVE of writeAttribute leaves in the instance: the     *)
(* first chZclAttributeSize bytes of the caller's buffer.  A buffer        *)
(* shorter than that is over-read, and the bytes past its end are          *)
(* whatever lies there (garbage).                                          *)
(***************************************************************************)
StoredValue(a, in, garbage) ==
  IF AttrTable[a].type \in StringTypes THEN in.raw
  ELSE LET n == AttrTable[a].size
       IN  IF in.len >= n THEN in.raw % (ByteBase ^ n)
           ELSE in.raw + garbage * ByteBase ^ in.len

(***************************************************************************)
(* callPreAttributeChange: a singleton asks every endpoint that has the    *)
(* cluster, and any veto aborts; otherwise only the written endpoint.      *)
(* vetoes is the set of endpoints whose application callback refuses.      *)
(***************************************************************************)
PreChangeVetoed(e, a, vetoes) ==
  IF AttrTable[a].singleton
    THEN vetoes \cap EndpointsOf(a) # {}
    ELSE e \in vetoes

(***************************************************************************)
(* callPostAttributeChange: a singleton notifies every endpoint that has   *)
(* the cluster, otherwise only the written endpoint.                       *)
(***************************************************************************)
PostChange(nf, e, a, v) ==
  [x \in DOMAIN nf |->
     IF x[2] = a /\ (IF AttrTable[a].singleton THEN x[1] \in EndpointsOf(a) ELSE x[1] = e)
       THEN v ELSE nf[x]]

(***************************************************************************)
(* chZclWriteAttributeEntry up to the write: the checks in the order the   *)
(* code makes them, each an early return.                                  *)
(***************************************************************************)
CheckStatus(e, a, in) ==
  IF a = NoAttr \/ ~Local(a) THEN "UNSUPPORTED_ATTRIBUTE"
  ELSE IF EndpointIndex(e, AttrTable[a].cluster) = IndexNull THEN "UNSUPPORTED_ATTRIBUTE"
  ELSE IF AttrTable[a].size < AttributeSize(a, in.raw) THEN "INSUFFICIENT_SPACE"
  ELSE IF in.len = 0 \/ in.len > MaxSize THEN "INVALID_VALUE"
  ELSE IF OutOfBounds(a, in) THEN "INVALID_VALUE"
  ELSE "SUCCESS"

\* The write inputs a local caller may pass for attribute a: a value and
\* the buffer length (the attribute size, one byte more, fewer bytes when
\* ShortBuffers), and an empty buffer.
LocalInputs(a, values) ==
  IF AttrTable[a].type \in StringTypes
    THEN {[raw |-> r, len |-> r + 1] : r \in values}
    ELSE {[raw |-> 0, len |-> 0]}
         \cup {in \in [raw : values,
                      len : {AttrTable[a].size, AttrTable[a].size + 1}
                            \cup (IF ShortBuffers THEN 1..AttrTable[a].size - 1 ELSE {})] :
                in.raw < ByteBase ^ in.len}

\* The write inputs of each attribute, and the outcome of the checks of
\* chZclWriteAttributeEntry for each endpoint, attribute and input: both
\* depend on the generated tables only, so they are computed once.
Inputs == [a \in Attrs |-> LocalInputs(a, WriteValues[a])]
CheckTable ==
  [x \in UNION {{<<e, a, in>> : e \in Endpoints, in \in Inputs[a]} : a \in Attrs} |->
     CheckStatus(x[1], x[2], x[3])]
Check(e, a, in) ==
  IF e \in Endpoints /\ a \in Attrs /\ in \in Inputs[a] THEN CheckTable[<<e, a, in>>]
  ELSE CheckStatus(e, a, in)

\* A variant that ignores the status of the external write callback, as
\* chipZclResetAttributes does, and notifies post-change regardless.
WriteEntryIgnoringExtStatus(e, a, in, enableUpdate, vetoes, extStatus, garbage) ==
  LET check == Check(e, a, in)
      v     == StoredValue(a, in, garbage)
      fail(s) == [status |-> s, store |-> store, notified |-> notified]
  IN  IF check # "SUCCESS" THEN fail(check)
      ELSE IF ~enableUpdate THEN fail("SUCCESS")
      ELSE IF PreChangeVetoed(e, a, vetoes) THEN fail("FAILURE")
      ELSE [status   |-> "SUCCESS",
            store    |-> IF AttrTable[a].external /\ extStatus # "SUCCESS" THEN store
                         ELSE [store EXCEPT ![Slot(e, a)] = v],
            notified |-> PostChange(notified, e, a, v)]

(***************************************************************************)
(* chZclWriteAttributeEntry(endpoint, attribute, buffer, length,           *)
(* enableUpdate) with writeAttribute: after the checks, stop if only       *)
(* prechecking; else ask pre-change (any veto: FAILURE), write (an         *)
(* external attribute through the application callback, whose status      *)
(* extStatus is returned as it is), and on success notify post-change.     *)
(* The result is the status and the new store and notified.                *)
(***************************************************************************)
WriteEntry(e, a, in, enableUpdate, vetoes, extStatus, garbage) ==
  LET check == Check(e, a, in)
      v     == StoredValue(a, in, garbage)
      fail(s) == [status |-> s, store |-> store, notified |-> notified]
  IN  IF check # "SUCCESS" THEN fail(check)
      ELSE IF ~enableUpdate THEN fail("SUCCESS")
      ELSE IF PreChangeVetoed(e, a, vetoes) THEN fail("FAILURE")
      ELSE IF AttrTable[a].external /\ extStatus # "SUCCESS" THEN fail(extStatus)
      ELSE [status   |-> "SUCCESS",
            store    |-> [store EXCEPT ![Slot(e, a)] = v],
            notified |-> PostChange(notified, e, a, v)]

(***************************************************************************)
(* chZclReadAttributeEntry: the value an endpoint reads (through the       *)
(* external read callback for an external attribute).                      *)
(***************************************************************************)
ReadValue(e, a) == store[Slot(e, a)]

NoValue == -1    \* the buffer of a failed read is not looked at

\* A variant whose space check also refuses a buffer exactly as long as the
\* value.
ReadEntryNoExactFit(e, a, bufferLength, extStatus) ==
  LET fail(s) == [status |-> s, value |-> NoValue]
  IN  CASE a = NoAttr \/ ~Local(a)                            -> fail("UNSUPPORTED_ATTRIBUTE")
        [] EndpointIndex(e, AttrTable[a].cluster) = IndexNull -> fail("UNSUPPORTED_ATTRIBUTE")
        [] AttrTable[a].external /\ extStatus # "SUCCESS"      -> fail(extStatus)
        [] AttrTable[a].external                              -> [status |-> "SUCCESS", value |-> ReadValue(e, a)]
        [] bufferLength <= AttributeSize(a, ReadValue(e, a))  -> fail("INSUFFICIENT_SPACE")
        [] OTHER                                              -> [status |-> "SUCCESS", value |-> ReadValue(e, a)]

(***************************************************************************)
(* chZclReadAttributeEntry(endpoint, attribute, buffer, bufferLength): a   *)
(* missing or remote attribute, or an endpoint without its cluster, is     *)
(* UNSUPPORTED_ATTRIBUTE; an external attribute is read by the             *)
(* application's callback, whose status extStatus is the answer; otherwise *)
(* a buffer shorter than the current value (a string's length byte and     *)
(* characters) is INSUFFICIENT_SPACE, and the value is copied.             *)
(***************************************************************************)
ReadEntry(e, a, bufferLength, extStatus) ==
  LET fail(s) == [status |-> s, value |-> NoValue]
  IN  CASE a = NoAttr \/ ~Local(a)                            -> fail("UNSUPPORTED_ATTRIBUTE")
        [] EndpointIndex(e, AttrTable[a].cluster) = IndexNull -> fail("UNSUPPORTED_ATTRIBUTE")
        [] AttrTable[a].external /\ extStatus # "SUCCESS"      -> fail(extStatus)
        [] AttrTable[a].external                              -> [status |-> "SUCCESS", value |-> ReadValue(e, a)]
        [] bufferLength < AttributeSize(a, ReadValue(e, a))   -> fail("INSUFFICIENT_SPACE")
        [] OTHER                                              -> [status |-> "SUCCESS", value |-> ReadValue(e, a)]

\* chipZclReadAttribute: the attribute is looked up without remote ones.
ReadAttribute(e, c, id, bufferLength, extStatus) ==
  ReadEntry(e, FindAttribute(c, id, FALSE), bufferLength, extStatus)

-----------------------------------------------------------------------------
(***************************************************************************)
(* Operations of the application on the store.                             *)
(***************************************************************************)

Init ==
  /\ store = [s \in Instances |-> DefaultMinMax(s[1], "DEFAULT")]
  /\ notified = [x \in Endpoints \X Attrs |-> NotNotified]

(***************************************************************************)
(* chipZclWriteAttribute(endpoint, cluster, id, buffer, length): look the  *)
(* attribute up (local only) and write it with update enabled.             *)
(***************************************************************************)
LocalWrite(e, c, id, in, vetoes, extStatus, garbage) ==
  LET r == WriteEntry(e, FindAttribute(c, id, FALSE), in, TRUE, vetoes, extStatus, garbage)
  IN  /\ store' = r.store
      /\ notified' = r.notified

\* A variant that resets every instance of the attributes, not only the
\* instance of the reset endpoint.
ResetAttributesAllInstances(e, extOk) ==
  LET todo == {a \in Attrs : HasCluster(e, a) /\ Local(a)}
      written(a) == a \in DOMAIN extOk => extOk[a]
  IN  /\ store' = [s \in DOMAIN store |->
                     IF s[1] \in todo /\ written(s[1]) THEN DefaultMinMax(s[1], "DEFAULT")
                     ELSE store[s]]
      /\ notified' = [x \in DOMAIN notified |->
                        IF x[2] \in todo
                           /\ (IF AttrTable[x[2]].singleton THEN x[1] \in EndpointsOf(x[2])
                                                         ELSE x[1] = e)
                          THEN DefaultMinMax(x[2], "DEFAULT") ELSE notified[x]]

(***************************************************************************)
(* chipZclResetAttributes(endpoint): every local attribute of a cluster    *)
(* the endpoint has is written with its default (the writeAttribute status *)
(* is not looked at) and post-change is called with the default.           *)
(* extOk gives the external write callback's outcome per external         *)
(* attribute.                                                              *)
(***************************************************************************)
ResetAttributes(e, extOk) ==
  LET todo == {a \in Attrs : HasCluster(e, a) /\ Local(a)}
      written(a) == a \in DOMAIN extOk => extOk[a]
  IN  /\ store' = [s \in DOMAIN store |->
                     IF s[1] \in todo /\ written(s[1]) /\ s = Slot(e, s[1])
                       THEN DefaultMinMax(s[1], "DEFAULT") ELSE store[s]]
      /\ notified' = [x \in DOMAIN notified |->
                        IF x[2] \in todo
                           /\ (IF AttrTable[x[2]].singleton THEN x[1] \in EndpointsOf(x[2])
                                                         ELSE x[1] = e)
                          THEN DefaultMinMax(x[2], "DEFAULT") ELSE notified[x]]

(***************************************************************************)
(* The application changes an external attribute it stores and reports it  *)
(* with chipZclExternalAttributeChanged, which calls post-change when the  *)
(* endpoint has the cluster and the attribute is local and external.       *)
(***************************************************************************)
ExternalAttributeChanged(e, a, v) ==
  /\ HasCluster(e, a) /\ Local(a) /\ AttrTable[a].external
  /\ store' = [store EXCEPT ![Slot(e, a)] = v]
  /\ notified' = PostChange(notified, e, a, v)

=============================================================================
