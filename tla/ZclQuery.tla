------------------------------ MODULE ZclQuery ------------------------------
(***************************************************************************)
(* The URI query parsers of zcl-core-attribute.c: tokenize, which splits   *)
(* the value of an "f=" segment at its commas, the filter parse           *)
(* chZclAttributeUriQueryFilterParse, the metadata parse                   *)
(* chZclAttributeUriMetadataQueryParse.                                   *)
(*                                                                         *)
(* A query value is a sequence of symbols: the hex digits "0".."F" and    *)
(* the punctuation ",", "-", "+" and "*".  The filters of a query are      *)
(* records [type, a, b]: an id filter keeps its id in a, a range its start *)
(* and end, a count its start and count.  The union bytes a filter type    *)
(* does not set are those of the zero-initialised request context, 0.      *)
(***************************************************************************)
EXTENDS Integers, Sequences, FiniteSets
LOCAL INSTANCE SequencesExt

CONSTANTS
  MaxQuerySegments,  \* MAX_URI_QUERY_SEGMENTS: the tokens array of the filter parse
  FilterCapacity     \* the length of attributeQuery.filters

HexDigits == <<"0", "1", "2", "3", "4", "5", "6", "7",
               "8", "9", "A", "B", "C", "D", "E", "F">>
Hex == {HexDigits[i] : i \in 1..16}

\* sizeof(ChipZclAttributeId_t) * 2: the nibbles of an attribute id.
Nibbles == 4

NoFilter == [type |-> "NONE", a |-> 0, b |-> 0]
Fail     == [type |-> "FAIL", a |-> 0, b |-> 0]   \* a token that does not parse

IsComma(c) == c = ","

\* A variant of the empty-token test that forgets the trailing comma.
EmptyTokenLeadingOnly(next, bytes) == next = 1

\* The token ending at the comma at next is empty, or the comma is the
\* last byte: "next == bytes || next == end - 1".
EmptyToken(next, bytes) == next = 1 \/ next = Len(bytes)

(***************************************************************************)
(* tokenize: walk the value comma by comma, storing each token; an empty   *)
(* token or a trailing comma makes it return 0 tokens.                     *)
(***************************************************************************)
RECURSIVE TokenizeFrom(_, _)
TokenizeFrom(bytes, tokens) ==
  IF bytes = <<>> THEN tokens
  ELSE LET next == SelectInSeq(bytes, IsComma)
       IN  IF next = 0 THEN Append(tokens, bytes)
           ELSE IF EmptyToken(next, bytes) THEN <<>>
           ELSE TokenizeFrom(SubSeq(bytes, next + 1, Len(bytes)),
                             Append(tokens, SubSeq(bytes, 1, next - 1)))

Tokenize(bytes) == TokenizeFrom(bytes, <<>>)

(***************************************************************************)
(* emHexStringToInt: every symbol must be a hex digit; the value is read   *)
(* most significant digit first.                                           *)
(***************************************************************************)
IsHexString(s) == \A i \in 1..Len(s) : s[i] \in Hex

DigitValue(d) == CHOOSE k \in 0..15 : HexDigits[k + 1] = d

HexValue(s) == FoldLeft(LAMBDA acc, d : 16 * acc + DigitValue(d), 0, s)

\* A hex number the parse accepts: 1 to 4 hex digits.
IsNumber(s) == 0 < Len(s) /\ Len(s) <= Nibbles /\ IsHexString(s)

(***************************************************************************)
(* The loop body of chZclAttributeUriQueryFilterParse for one token: "*"   *)
(* is the wildcard; otherwise the operator is the first "-", or failing    *)
(* that the first "+", and both operands must be hex numbers; a range must *)
(* end above its start.  A token without a usable operator must be a hex   *)
(* number itself.  The answer is the filter or Fail.                        *)
(***************************************************************************)
\* "end <= start": the range is refused.
RangeIsEmpty(first, second) == second <= first

ParseToken(tok) ==
  IF tok = <<"*">> THEN [type |-> "WILDCARD", a |-> 0, b |-> 0]
  ELSE LET minus == SelectInSeq(tok, LAMBDA c : c = "-")
           op    == IF minus # 0 THEN minus ELSE SelectInSeq(tok, LAMBDA c : c = "+")
           left  == SubSeq(tok, 1, op - 1)
           right == SubSeq(tok, op + 1, Len(tok))
       IN  IF op # 0 /\ IsNumber(left) /\ IsNumber(right)
             THEN IF tok[op] = "-"
                    THEN IF RangeIsEmpty(HexValue(left), HexValue(right)) THEN Fail
                         ELSE [type |-> "RANGE", a |-> HexValue(left), b |-> HexValue(right)]
                    ELSE [type |-> "COUNT", a |-> HexValue(left), b |-> HexValue(right)]
           ELSE IF IsNumber(tok) THEN [type |-> "ID", a |-> HexValue(tok), b |-> 0]
           ELSE Fail

(***************************************************************************)
(* The token loop: each token takes the next slot of the filters array     *)
(* (filterCount++ happens before the token is looked at), and the first    *)
(* token that does not parse ends the parse with false.                    *)
(***************************************************************************)
RECURSIVE ParseTokens(_, _)
ParseTokens(tokens, filters) ==
  IF tokens = <<>> THEN [ok |-> TRUE, filters |-> filters]
  ELSE LET f == ParseToken(Head(tokens))
       IN  IF f = Fail THEN [ok |-> FALSE, filters |-> Append(filters, NoFilter)]
           ELSE ParseTokens(Tail(tokens), Append(filters, f))

\* Two filters of the whole query are byte-identical (the MEMCOMPARE loop).
HasDuplicate(filters) ==
  \E j, k \in 1..Len(filters) : j < k /\ filters[j] = filters[k]

(***************************************************************************)
(* chZclAttributeUriQueryFilterParse on one "f=" value, appending to the   *)
(* filters the earlier segments of the query left.  It answers the parse   *)
(* result, the filters, and the number of tokens tokenize stored.          *)
(***************************************************************************)
FilterParse(filters, value) ==
  LET tokens == Tokenize(value)
      r      == ParseTokens(tokens, filters)
  IN  IF tokens = <<>> THEN [ok |-> FALSE, filters |-> filters, tokens |-> 0]
      ELSE [ok      |-> r.ok /\ ~HasDuplicate(r.filters),
            filters |-> r.filters,
            tokens  |-> Len(tokens)]

(***************************************************************************)
(* chZclAttributeUriMetadataQueryParse: after "meta=", each keyword is     *)
(* compared with MEMCOMPARE over the keyword's own length, so the value    *)
(* only has to start with it.  A keyword is one symbol of the value.       *)
(***************************************************************************)
MetadataParse(value) ==
  CASE value # <<>> /\ value[1] = "*"     -> "WILDCARD"
    [] value # <<>> /\ value[1] = "$base" -> "BASE"
    [] value # <<>> /\ value[1] = "$acc"  -> "ACCESS"
    [] OTHER                              -> "NOT_SUPPORTED"

=============================================================================
