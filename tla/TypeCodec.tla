------------------------------ MODULE TypeCodec ------------------------------
(***************************************************************************)
(* DuckLakeTypes (part_002 lines 1-125): the conversion between a column's *)
(* LogicalType and the type string stored in the catalog.                  *)
(*                                                                         *)
(* A type string is a sequence of tokens: a type name, the prefix          *)
(* "decimal(", a digit, ",", ")", a sign, a space, or "x" for any other    *)
(* character.  Names are compared as the lower-case tokens the writer      *)
(* emits (CIEquals on lower-case input).  A LogicalType is a record of its *)
(* id, alias, decimal type info, collation and child types.                *)
(*                                                                         *)
(* The state machine writes one column type and reads it back, or reads a *)
(* string some other writer stored in the catalog.                         *)
(***************************************************************************)
EXTENDS Naturals, Sequences, SequencesExt

CONSTANTS
  Widths,       \* decimal widths of the columns written
  Scales,       \* decimal scales of the columns written
  StoredTexts   \* type strings found in the catalog

DigitChars == <<"0", "1", "2", "3", "4", "5", "6", "7", "8", "9">>

(* DUCKLAKE_TYPES, in its order: the first entry of an id names it.        *)
DuckLakeTypes ==
  << <<"boolean", "BOOLEAN">>, <<"int8", "TINYINT">>, <<"int16", "SMALLINT">>,
     <<"int32", "INTEGER">>, <<"int64", "BIGINT">>, <<"int128", "HUGEINT">>,
     <<"uint8", "UTINYINT">>, <<"uint16", "USMALLINT">>, <<"uint32", "UINTEGER">>,
     <<"uint64", "UBIGINT">>, <<"uint128", "UHUGEINT">>, <<"float32", "FLOAT">>,
     <<"float64", "DOUBLE">>, <<"decimal", "DECIMAL">>, <<"time", "TIME">>,
     <<"date", "DATE">>, <<"timestamp", "TIMESTAMP">>, <<"timestamp_us", "TIMESTAMP">>,
     <<"timestamp_ms", "TIMESTAMP_MS">>, <<"timestamp_ns", "TIMESTAMP_NS">>,
     <<"timestamp_s", "TIMESTAMP_SEC">>, <<"timestamptz", "TIMESTAMP_TZ">>,
     <<"timetz", "TIME_TZ">>, <<"interval", "INTERVAL">>, <<"varchar", "VARCHAR">>,
     <<"blob", "BLOB">>, <<"uuid", "UUID">> >>

NestedNames == [STRUCT |-> "struct", LIST |-> "list", MAP |-> "map"]

Names == {DuckLakeTypes[i][1] : i \in DOMAIN DuckLakeTypes}
           \cup {"json", "geometry", "struct", "list", "map"}

Tokens == Names \cup ToSet(DigitChars) \cup {"decimal(", ",", ")", "+", "-", " ", "x"}

ASSUME CodecAssumption ==
  /\ Widths \subseteq 0..255 /\ Scales \subseteq 0..255
  /\ StoredTexts \subseteq Seq(Tokens)

-----------------------------------------------------------------------------
(* LogicalType values.  A DECIMAL built from its id alone has no info.     *)
NoInfo == [set |-> FALSE, width |-> 0, scale |-> 0]

Type(id) == [id |-> id, alias |-> "", info |-> NoInfo, collation |-> "", children |-> <<>>]

Decimal(w, s) == [Type("DECIMAL") EXCEPT !.info = [set |-> TRUE, width |-> w, scale |-> s]]

JSONType == [Type("VARCHAR") EXCEPT !.alias = "JSON"]

GeometryType == [Type("BLOB") EXCEPT !.alias = "GEOMETRY"]

NoType == Type("INVALID")

Ids == {DuckLakeTypes[i][2] : i \in DOMAIN DuckLakeTypes} \cup {"STRUCT", "LIST", "MAP", "BIT"}

(* The column types a writer may hand over: every base type, BIT (which    *)
(* DuckLake does not support), decimals, the two aliases, a collated       *)
(* VARCHAR, a user-defined alias, and nested types of one child.           *)
Leaves ==
  {Type(i) : i \in Ids \ {"DECIMAL", "STRUCT", "LIST", "MAP"}}
    \cup {Decimal(w, s) : w \in Widths, s \in Scales}
    \cup {JSONType, GeometryType, [Type("VARCHAR") EXCEPT !.collation = "nocase"],
          [Type("INTEGER") EXCEPT !.alias = "money"]}

Descriptors ==
  Leaves \cup {[Type(n) EXCEPT !.children = <<c>>] : n \in DOMAIN NestedNames, c \in Leaves}

(* What FromString can return.                                             *)
LoadedTypes ==
  [id : Ids, alias : {"", "JSON", "GEOMETRY"}, info : [set : BOOLEAN, width : 0..255, scale : 0..255],
   collation : {""}, children : {<<>>}]

-----------------------------------------------------------------------------
(* A conversion returns a set: {v} when it returns v, {} when it throws.   *)

(* to_string of a uint8_t: its decimal digits.                            *)
ToDecimalString(n) ==
  LET D(k) == DigitChars[k + 1] IN
  IF n < 10 THEN <<D(n)>>
  ELSE IF n < 100 THEN <<D(n \div 10), D(n % 10)>>
  ELSE <<D(n \div 100), D((n \div 10) % 10), D(n % 10)>>

DecimalTextSwapped(w, s) ==
  <<"decimal(">> \o ToDecimalString(s) \o <<",">> \o ToDecimalString(w) \o <<")">>

DecimalText(w, s) ==
  <<"decimal(">> \o ToDecimalString(w) \o <<",">> \o ToDecimalString(s) \o <<")">>

(* ToStringBaseType: the name of the first entry with the type's id.      *)
ToStringBaseType(t) ==
  LET i == SelectInSeq(DuckLakeTypes, LAMBDA e : e[2] = t.id) IN
  IF i = 0 THEN {} ELSE {<<DuckLakeTypes[i][1]>>}

IsJSONType(t) == t.id = "VARCHAR" /\ t.alias = "JSON"

(* DuckLakeTypes::ToString (TLC already defines ToString).  A DECIMAL     *)
(* without info makes GetWidth read a null type info: the build does not *)
(* return a string.                                                        *)
TypeToString(t) ==
  CASE t.alias # "" ->
         IF IsJSONType(t) THEN {<<"json">>}
         ELSE IF t.alias = "GEOMETRY" /\ t.id = "BLOB" THEN {<<"geometry">>} ELSE {}
    [] t.id \in DOMAIN NestedNames -> {<<NestedNames[t.id]>>}
    [] t.id = "DECIMAL" -> IF t.info.set THEN {DecimalText(t.info.width, t.info.scale)} ELSE {}
    [] t.id = "VARCHAR" /\ t.collation # "" -> {}
    [] OTHER -> ToStringBaseType(t)

(* CheckSupportedType: the visitor converts the type and every child.     *)
CheckSupportedType(t) ==
  TypeToString(t) # {} /\ \A i \in DOMAIN t.children : TypeToString(t.children[i]) # {}

(* ParseBaseType: the first entry with the name, then the two aliases.     *)
ParseBaseType(str) ==
  LET i == SelectInSeq(DuckLakeTypes, LAMBDA e : <<e[1]>> = str) IN
  IF i # 0 THEN {Type(DuckLakeTypes[i][2])}
  ELSE IF str = <<"json">> THEN {JSONType}
  ELSE IF str = <<"geometry">> THEN {GeometryType}
  ELSE {}

(* StringUtil::SplitWithParentheses at ",": the pieces between commas, the *)
(* last one dropped when empty.                                            *)
SplitAtComma(p) ==
  LET cuts == <<0>> \o SetToSortSeq({i \in DOMAIN p : p[i] = ","}, <) \o <<Len(p) + 1>>
      parts == [k \in 1..(Len(cuts) - 1) |-> SubSeq(p, cuts[k] + 1, cuts[k + 1] - 1)]
  IN IF Last(parts) = <<>> THEN Front(parts) ELSE parts

(* std::stoull: leading spaces, an optional sign, the longest run of       *)
(* digits (none: invalid_argument), the rest ignored.  The result is its   *)
(* sign and magnitude; the magnitudes of the strings checked are below     *)
(* 2^64, so out_of_range is not reached.                                   *)
Stoull(p) ==
  LET i0 == SelectInSeq(p, LAMBDA c : c # " ")
      signed == i0 > 0 /\ p[i0] \in {"+", "-"}
      body == IF i0 = 0 THEN <<>> ELSE SubSeq(p, IF signed THEN i0 + 1 ELSE i0, Len(p))
      nd == SelectInSeq(body, LAMBDA c : c \notin ToSet(DigitChars))
      digits == IF nd = 0 THEN body ELSE SubSeq(body, 1, nd - 1)
      value == FoldLeft(LAMBDA acc, c : 10 * acc + (CHOOSE v \in 0..9 : DigitChars[v + 1] = c),
                        0, digits)
  IN IF digits = <<>> THEN {} ELSE {[neg |-> signed /\ p[i0] = "-", mag |-> value]}

(* The unsigned long long passed to DECIMAL's uint8_t parameter: stoull   *)
(* negates modulo 2^64, and the conversion keeps the low 8 bits            *)
(* (2^64 is a multiple of 2^8).                                           *)
ToUint8(r) == IF r.neg THEN (256 - (r.mag % 256)) % 256 ELSE r.mag % 256

(* DuckLakeTypes::FromString.                                              *)
FromString(s) ==
  IF s # <<>> /\ s[1] = "decimal(" /\ Last(s) = ")"
  THEN LET members == SplitAtComma(SubSeq(s, 2, Len(s) - 1)) IN
       IF Len(members) # 2 THEN {}
       ELSE {Decimal(ToUint8(w), ToUint8(sc)) : w \in Stoull(members[1]), sc \in Stoull(members[2])}
  ELSE ParseBaseType(s)

-----------------------------------------------------------------------------
VARIABLES
  column,   \* the type a writer stores, NoType for a string from the catalog
  text,     \* the stored type string
  loaded,   \* the type FromString read back
  stage     \* "typed", "stored", "loaded" or "rejected"

vars == <<column, text, loaded, stage>>

TypeOK ==
  /\ column \in Descriptors \cup {NoType}
  /\ text \in Seq(Tokens)
  /\ loaded \in LoadedTypes \cup {NoType}
  /\ stage \in {"typed", "stored", "loaded", "rejected"}

Init ==
  /\ loaded = NoType
  /\ \/ column \in Descriptors /\ text = <<>> /\ stage = "typed"
     \/ column = NoType /\ text \in StoredTexts /\ stage = "stored"

(* The catalog writer checks the column type, then stores its string.      *)
Store ==
  /\ stage = "typed" /\ CheckSupportedType(column)
  /\ \E s \in TypeToString(column) : text' = s
  /\ stage' = "stored"
  /\ UNCHANGED <<column, loaded>>

StoreRejected ==
  /\ stage = "typed" /\ ~CheckSupportedType(column)
  /\ stage' = "rejected"
  /\ UNCHANGED <<column, text, loaded>>

(* The catalog reader converts a stored string back; nested types are     *)
(* rebuilt from their child columns, not by FromString.                    *)
Load ==
  /\ stage = "stored" /\ text \notin {<<NestedNames[n]>> : n \in DOMAIN NestedNames}
  /\ \E t \in FromString(text) : loaded' = t
  /\ stage' = "loaded"
  /\ UNCHANGED <<column, text>>

LoadRejected ==
  /\ stage = "stored" /\ text \notin {<<NestedNames[n]>> : n \in DOMAIN NestedNames}
  /\ FromString(text) = {}
  /\ stage' = "rejected"
  /\ UNCHANGED <<column, text, loaded>>

Next == Store \/ StoreRejected \/ Load \/ LoadRejected

Spec == Init /\ [][Next]_vars

-----------------------------------------------------------------------------
(* Round trip: a column type that CheckSupportedType accepts and ToString  *)
(* stores is read back by FromString as the same LogicalType (spec 3,      *)
(* round-trip identity for base and decimal types).                        *)
RoundTrip == stage = "loaded" /\ column # NoType => loaded = column

(* Never partially valid (spec 3): a string FromString accepts is the     *)
(* canonical string of the type it returns, so storing that type again    *)
(* gives the string back.                                                  *)
Canonical == stage = "loaded" /\ column = NoType => TypeToString(loaded) = {text}

=============================================================================
