--------------------------- MODULE ZclAttributeGet ---------------------------
(***************************************************************************)
(* The GET of a cluster's attributes, zcl/[eg]/XX/<cluster>/a[?query]:     *)
(* the query segments are parsed by the parsers of ZclQuery, then          *)
(* getAttributeIdsHandler walks the cluster's rows of the sorted attribute *)
(* table and lists every local attribute filterAttribute lets through, as  *)
(* an array of ids (no filter) or as a map of entries (filters given), and *)
(* chZclUriClusterAttributeHandler maps its status to 2.05, 4.04 or 5.00.  *)
(*                                                                         *)
(* The listing itself is a sequence of the ids listed; what a map entry    *)
(* and a single-attribute GET carry is the value encoder:                  *)
(* encodeAttributeResponseMap, with its metadata strings, and              *)
(* getAttributeHandler.  A CBOR map is abstracted to the sequence of its   *)
(* [key, val] items.                                                       *)
(***************************************************************************)
EXTENDS ZclAttributeStore, ZclQuery, TLC
LOCAL INSTANCE Bitwise

CONSTANT
  UsedCountsBits   \* the width of FilterState.usedCounts (uint16_t)

\* The filter state of one listing: the count left and the usedCounts bits.
FilterStateInit == [count |-> 0, used |-> {}]

\* SETBIT(usedCounts, i): a bit beyond the word's width is lost.
SetBit(used, i) == IF i < UsedCountsBits THEN used \cup {i} ELSE used

\* A variant that takes every count filter whose start is reached, forgetting
\* the usedCounts test: a filter restarts its count at each attribute.
CountReachedEveryTime(f, i, st, id) ==
  IF id >= f.a
    THEN [count |-> IF f.b > st.count THEN f.b ELSE st.count,
          used  |-> SetBit(st.used, i - 1)]
    ELSE st

(***************************************************************************)
(* The count case of filterAttribute for the i-th filter: once the         *)
(* attribute id reaches the filter's start, a count larger than the one    *)
(* left replaces it unless this filter was used already, and the filter is *)
(* marked used.                                                            *)
(***************************************************************************)
CountReached(f, i, st, id) ==
  IF id >= f.a
    THEN [count |-> IF f.b > st.count /\ (i - 1) \notin st.used THEN f.b ELSE st.count,
          used  |-> SetBit(st.used, i - 1)]
    ELSE st

\* A variant of the range test that leaves out the range's end.
InRangeEndExclusive(f, id) == f.a <= id /\ id < f.b

\* The range case: start <= id <= end.
InRange(f, id) == f.a <= id /\ id <= f.b

(***************************************************************************)
(* filterAttribute: the filters in order; an id, range or wildcard filter  *)
(* that matches returns true at once.  After the loop the attribute passes *)
(* when there is no filter or a count is left, and the count left goes     *)
(* down by one.  The answer is whether it passes and the new state.        *)
(***************************************************************************)
RECURSIVE FilterFrom(_, _, _, _)
FilterFrom(filters, i, st, id) ==
  IF i > Len(filters)
    THEN [pass |-> Len(filters) = 0 \/ st.count > 0,
          st   |-> [st EXCEPT !.count = IF @ > 0 THEN @ - 1 ELSE @]]
  ELSE LET f == filters[i]
       IN  CASE f.type = "ID"       -> IF id = f.a THEN [pass |-> TRUE, st |-> st]
                                       ELSE FilterFrom(filters, i + 1, st, id)
             [] f.type = "COUNT"    -> FilterFrom(filters, i + 1, CountReached(f, i, st, id), id)
             [] f.type = "RANGE"    -> IF InRange(f, id) THEN [pass |-> TRUE, st |-> st]
                                       ELSE FilterFrom(filters, i + 1, st, id)
             [] f.type = "WILDCARD" -> [pass |-> TRUE, st |-> st]

FilterAttribute(filters, st, id) == FilterFrom(filters, 1, st, id)

(***************************************************************************)
(* The loop of getAttributeIdsHandler from table row i: stop at the first  *)
(* row of a later cluster; a local row of the cluster that passes the      *)
(* filter is listed, except that a map listing with an unsupported         *)
(* metadata query answers NOT_FOUND at the first such row.                 *)
(***************************************************************************)
RECURSIVE ListFrom(_, _, _, _, _)
ListFrom(q, c, i, st, ids) ==
  IF i > Len(AttrTable) \/ AttrTable[i].cluster > c
    THEN [status |-> "SUCCESS", ids |-> ids]
  ELSE IF AttrTable[i].cluster < c \/ ~Local(i)
    THEN ListFrom(q, c, i + 1, st, ids)
  ELSE LET r == FilterAttribute(q.filters, st, AttrTable[i].id)
       IN  IF ~r.pass THEN ListFrom(q, c, i + 1, r.st, ids)
           ELSE IF q.filters # <<>> /\ q.metadata = "NOT_SUPPORTED"
             THEN [status |-> "NOT_FOUND", ids |-> ids]
           ELSE ListFrom(q, c, i + 1, r.st, Append(ids, AttrTable[i].id))

(***************************************************************************)
(* getAttributeIdsHandler: a metadata wildcard on the plain listing is     *)
(* NOT_FOUND; otherwise the array (no filter) or the map is listed.        *)
(***************************************************************************)
GetAttributeIds(q, c) ==
  IF q.filters = <<>> /\ q.metadata = "WILDCARD"
    THEN [status |-> "NOT_FOUND", ids |-> <<>>]
  ELSE ListFrom(q, c, 1, FilterStateInit, <<>>)

-----------------------------------------------------------------------------
(***************************************************************************)
(* makeMetadataTypeString: the Basic cluster's PowerSource is "enum8"; a   *)
(* boolean is "bool", a string type "string", a type without a name        *)
(* "unknown"; a signed or unsigned integer is "int" or "uint" followed by  *)
(* its size in bits.                                                       *)
(***************************************************************************)
IntegerTypeNames == [INTEGER |-> "int", UNSIGNED_INTEGER |-> "uint"]

MetadataTypeString(a) ==
  LET d == AttrTable[a]
  IN  CASE d.cluster = 0 /\ d.id = 7               -> "enum8"
        [] d.type = "BOOLEAN"                       -> "bool"
        [] d.type \in DOMAIN IntegerTypeNames       -> IntegerTypeNames[d.type] \o ToString(d.size * 8)
        [] d.type \in StringTypes \cup {"STRING"}  -> "string"
        [] OTHER                                    -> "unknown"

\* METADATA_ACCESS_READABLE_BIT, _WRITEABLE_BIT and _REPORTABLE_BIT.
AccessBits == [readable |-> 1, writable |-> 2, reportable |-> 32]

\* makeMetadataAccessValue: the access bits of the attribute's mask, or-ed.
MetadataAccessValue(a) ==
  LET RECURSIVE or(_)
      or(flags) == IF flags = {} THEN 0
                   ELSE LET f == CHOOSE x \in flags : TRUE
                        IN  AccessBits[f] | or(flags \ {f})
  IN  or({f \in DOMAIN AccessBits : AttrTable[a][f]})

Item(key, val) == [key |-> key, val |-> val]

(***************************************************************************)
(* encodeAttributeResponseMap(endpoint, attribute, metadata,               *)
(* makeAttrIdMap): with no metadata query the attribute is read into a     *)
(* buffer of its size and encoded as {"v": value}, or {"s": status} when   *)
(* the read fails; a metadata query encodes "$base" and/or "$access" as    *)
(* the query asks, and nothing for a keyword the parser did not know.  The *)
(* items are put in a map keyed by the attribute id unless this is a       *)
(* metadata query and makeAttrIdMap is false.  extStatus is what the       *)
(* application's external read callback answers.                           *)
(***************************************************************************)
EncodeResponseMap(e, a, metadata, makeAttrIdMap, extStatus) ==
  LET r     == ReadEntry(e, a, AttrTable[a].size, extStatus)
      items == IF metadata = "NONE"
                 THEN <<IF r.status = "SUCCESS" THEN Item("v", r.value) ELSE Item("s", r.status)>>
               ELSE (IF metadata \in {"WILDCARD", "BASE"}
                       THEN <<Item("$base", MetadataTypeString(a))>> ELSE <<>>)
                    \o (IF metadata \in {"WILDCARD", "ACCESS"}
                          THEN <<Item("$access", MetadataAccessValue(a))>> ELSE <<>>)
  IN  [keyed |-> metadata = "NONE" \/ makeAttrIdMap, id |-> AttrTable[a].id, items |-> items]

\* A variant that keys a single attribute's metadata by its id, as a listing does.
GetAttributeHandlerKeyed(e, a, metadata, extStatus) ==
  [status |-> "SUCCESS", body |-> EncodeResponseMap(e, a, metadata, TRUE, extStatus)]

(***************************************************************************)
(* getAttributeHandler: the addressed attribute's map, without the id key  *)
(* for a metadata query.  The encoder running out of buffer (FAILURE) is   *)
(* not modelled: one attribute's map is small.                             *)
(***************************************************************************)
GetAttributeHandler(e, a, metadata, extStatus) ==
  [status |-> "SUCCESS", body |-> EncodeResponseMap(e, a, metadata, FALSE, extStatus)]

\* The GET case of chZclUriClusterAttributeIdHandler.
GetOneCode(status) == IF status = "SUCCESS" THEN 205 ELSE 500

\* The GET case of chZclUriClusterAttributeHandler.
GetCode(status) ==
  CASE status = "SUCCESS"   -> 205
    [] status = "NOT_FOUND" -> 404
    [] OTHER                -> 500

(***************************************************************************)
(* The query segments of a request, each handed to the parser the URI      *)
(* dispatcher chose for it ("f" or "meta"), in order, into a query that   *)
(* starts empty.  A parser answering false makes the dispatcher refuse the *)
(* request.                                                                *)
(***************************************************************************)
QueryInit == [ok |-> TRUE, filters |-> <<>>, metadata |-> "NONE"]

RECURSIVE ParseQuery(_, _)
ParseQuery(segments, q) ==
  IF segments = <<>> \/ ~q.ok THEN q
  ELSE LET s == Head(segments)
           r == FilterParse(q.filters, s.value)
       IN  ParseQuery(Tail(segments),
             IF s.key = "f" THEN [q EXCEPT !.ok = r.ok, !.filters = r.filters]
             ELSE [q EXCEPT !.metadata = MetadataParse(s.value)])

=============================================================================
