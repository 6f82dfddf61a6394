-------------------------- MODULE ZclAttributeClient --------------------------
(***************************************************************************)
(* The read request of the client side, chipZclSendAttributeRead: the      *)
(* attribute ids are compressed into ranges of consecutive ids in a fixed  *)
(* array, and the ranges are written as the "f=" query of the GET URI,     *)
(* each id as four hex digits.                                             *)
(***************************************************************************)
EXTENDS ZclQuery

CONSTANTS
  RangeArrayLength,   \* COUNTOF(filterRangeData): 19
  RangeDatumBytes,    \* sizeof(ChZclAttributeQueryFilterRangeData_t): two ids
  UriMaxLength,       \* MAX_ATTRIBUTE_URI_LENGTH: 64
  UriPathLength       \* the bytes chZclAttributeToUriPath writes

AttributeNull == 65535   \* CHIP_ZCL_ATTRIBUTE_NULL

EmptyDatum == [start |-> AttributeNull, end |-> AttributeNull]

\* filterRangeData[d] = r, for d counted from 0; a datum past the array
\* is written all the same, and the sequence grows to hold it.
WriteDatum(ranges, d, r) ==
  IF d < Len(ranges) THEN [ranges EXCEPT ![d + 1] = r] ELSE Append(ranges, r)

(***************************************************************************)
(* The first loop of chipZclSendAttributeRead from id k on, the datum      *)
(* pointer at d: an id one above the datum's end extends it; otherwise the *)
(* pointer moves on when the datum is in use (refusing the call when it    *)
(* is more than sizeof(filterRangeData) past the array's start, a count   *)
(* of bytes compared with a count of elements) and the id starts a datum. *)
(* The answer has the status, the array and the last datum written.       *)
(***************************************************************************)
RECURSIVE CompressFrom(_, _, _, _)
CompressFrom(ids, k, ranges, d) ==
  IF k > Len(ids) THEN [status |-> "SUCCESS", ranges |-> ranges, last |-> d]
  ELSE LET id  == ids[k]
           cur == ranges[d + 1]
       IN  IF id = cur.end + 1
             THEN CompressFrom(ids, k + 1, [ranges EXCEPT ![d + 1].end = id], d)
           ELSE IF cur.start # AttributeNull
             THEN IF d + 1 > RangeArrayLength * RangeDatumBytes
                    THEN [status |-> "BAD_ARGUMENT", ranges |-> ranges, last |-> d]
                    ELSE CompressFrom(ids, k + 1,
                                      WriteDatum(ranges, d + 1, [start |-> id, end |-> id]), d + 1)
           ELSE CompressFrom(ids, k + 1, WriteDatum(ranges, d, [start |-> id, end |-> id]), d)

CompressRanges(ids) ==
  CompressFrom(ids, 1, [i \in 1..RangeArrayLength |-> EmptyDatum], 0)

\* chZclIntToHexString(value, sizeof(ChipZclAttributeId_t), out): four
\* hex digits, most significant first.
HexId(v) == [i \in 1..Nibbles |-> HexDigits[((v \div 16 ^ (Nibbles - i)) % 16) + 1]]

\* A variant that writes every datum as a range, even a single id.
RangeTextAlwaysRange(r) == HexId(r.start) \o <<"-">> \o HexId(r.end)

\* A datum as text: its start, and "-" and its end when they differ.
RangeText(r) ==
  IF r.start # r.end THEN HexId(r.start) \o <<"-">> \o HexId(r.end) ELSE HexId(r.start)

(***************************************************************************)
(* The second loop: each datum's text, after a comma from the second on,   *)
(* is appended to the URI unless the URI and its NUL would then pass       *)
(* MAX_ATTRIBUTE_URI_LENGTH.  used is the URI's length so far.             *)
(***************************************************************************)
RECURSIVE WriteQueryFrom(_, _, _, _, _)
WriteQueryFrom(ranges, n, i, used, query) ==
  IF i >= n THEN [status |-> "SUCCESS", query |-> query]
  ELSE LET text == (IF i # 0 THEN <<",">> ELSE <<>>) \o RangeText(ranges[i + 1])
       IN  IF used + Len(text) + 1 > UriMaxLength
             THEN [status |-> "BAD_ARGUMENT", query |-> query]
             ELSE WriteQueryFrom(ranges, n, i + 1, used + Len(text), query \o text)

(***************************************************************************)
(* chipZclSendAttributeRead: the ranges, then the URI path, "?f=" and the  *)
(* query; the request is then handed to chZclSend.  The answer has the     *)
(* status, the "f=" value sent and the last datum the first loop wrote.    *)
(***************************************************************************)
SendAttributeRead(ids) ==
  LET c == CompressRanges(ids)
      w == WriteQueryFrom(c.ranges, c.last + 1, 0, UriPathLength + 3, <<>>)
  IN  IF c.status # "SUCCESS" THEN [status |-> c.status, query |-> <<>>, last |-> c.last]
      ELSE [status |-> w.status, query |-> w.query, last |-> c.last]

=============================================================================
