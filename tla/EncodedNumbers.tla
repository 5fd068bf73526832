--------------------------- MODULE EncodedNumbers ---------------------------
(***************************************************************************)
(* Numbers of variable length: leb128 (write_uleb, write_sleb, write_ulebp1 *)
(* of src/src/write.c, read_uleb, read_sleb, read_ulebp1 of                *)
(* src/src/read.c), and the encoded values of static fields and            *)
(* annotations (write_encoded_value of src/src/write.c, dxc_read_value of  *)
(* src/src/values.c).                                                      *)
(*                                                                         *)
(* Data is a sequence of bytes; the type and the argument of a value share *)
(* one byte, here a pair.  Reading returns the value and the next offset.  *)
(***************************************************************************)
EXTENDS Integers, Sequences, SequencesExt

CONSTANTS
  LebBits,    (* bits of a leb128 byte without its flag: 7 in the code      *)
  UintBits,   (* bits of a dx_uint: 32 in the code                          *)
  ByteBits,   (* bits of a byte of an encoded value: 8 in the code          *)
  MaxDepth    (* MAX_ARRAY_DEPTH: 256 in the code                           *)

ASSUME BitsAssumption ==
  /\ {LebBits, UintBits, ByteBits} \subseteq Nat
  /\ LebBits > 1 /\ UintBits > LebBits /\ ByteBits > 1

LebBase == 2^LebBits
UintBase == 2^UintBits
ByteBase == 2^ByteBits

Got(v, next) == [v |-> v, next |-> next]
-----------------------------------------------------------------------------
(***************************************************************************)
(* leb128.                                                                 *)
(***************************************************************************)

(* x = x >> 6; if(x == 0 || x == -1) break *)
SlebEnds(x) == x \div (LebBase \div 2) \in {0, -1}

UlebEnds(x) == x \div LebBase = 0

(* The groups of x, all but the last with the flag 0x80. *)
Groups(Ends(_), x) ==
  LET g[y \in Int] == IF Ends(y) THEN <<y % LebBase>>
                      ELSE <<LebBase + (y % LebBase)>> \o g[y \div LebBase]
  IN  g[x]

write_uleb(x) == Groups(UlebEnds, x)
write_sleb(x) == Groups(SlebEnds, x)
write_ulebp1(x) == write_uleb((x + 1) % UintBase)

(* The last byte of the number at off, if there is one.                    *)
LastOf(d, off) ==
  CHOOSE k \in off + 1..Len(d) : d[k] < LebBase /\ \A j \in off + 1..k - 1 : d[j] >= LebBase

(* The groups from the byte off + 1 to the byte last, put together modulo  *)
(* the width of the result.                                                *)
Sum(d, off, last) ==
  FoldRight(LAMBDA b, acc : acc * LebBase + (b % LebBase), SubSeq(d, off + 1, last), 0)
    % UintBase

read_uleb(d, off) == LET last == LastOf(d, off) IN Got(Sum(d, off, last), last)

read_ulebp1(d, off) ==
  LET r == read_uleb(d, off) IN [r EXCEPT !.v = (@ - 1) % UintBase]

AsInt(x) == IF x >= UintBase \div 2 THEN x - UintBase ELSE x

(* if(b & 0x40) res |= ~msk *)
read_sleb(d, off) ==
  LET last == LastOf(d, off)
      sum == Sum(d, off, last)
      msk == LebBase^(last - off)
      negative == 2 * (d[last] % LebBase) >= LebBase
  IN  Got(AsInt(IF negative /\ msk < UintBase THEN sum + UintBase - msk ELSE sum), last)
-----------------------------------------------------------------------------
(***************************************************************************)
(* Encoded values.                                                         *)
(***************************************************************************)
SignedTypes == {"byte", "short", "int", "long"}
IndexTypes == {"string", "type", "field", "method", "enum"}
RealTypes == {"float", "double"}
NumberTypes == SignedTypes \cup IndexTypes \cup RealTypes \cup {"char"}

(* The bytes of each type in memory. *)
NativeSize ==
  [t \in NumberTypes |->
     CASE t = "byte" -> 1
       [] t \in {"short", "char"} -> 2
       [] t \in {"int", "float"} \cup IndexTypes -> 4
       [] t \in {"long", "double"} -> 8]

(* Mutant: bytes are cut while they are 0 or -1, whatever the sign bit.    *)
SignedEndsMut(v) == v \div ByteBase \in {0, -1}

(* while(!((sbt && vv == -1) || (!sbt && vv == 0))) *)
SignedEnds(v) ==
  LET sbt == 2 * (v % ByteBase) >= ByteBase
  IN  v \div ByteBase = IF sbt THEN -1 ELSE 0

UnsignedEnds(v) == v \div ByteBase = 0

Significant(Ends(_), v) ==
  LET s[y \in Int] == IF Ends(y) THEN <<y % ByteBase>>
                      ELSE <<y % ByteBase>> \o s[y \div ByteBase]
  IN  s[v]

(* A real is written in full; here it is the number that its bytes make.   *)
NumberBytes(val) ==
  CASE val.type \in RealTypes ->
         [k \in 1..NativeSize[val.type] |-> (val.v \div ByteBase^(k - 1)) % ByteBase]
    [] val.type \in SignedTypes -> Significant(SignedEnds, val.v)
    [] OTHER -> Significant(UnsignedEnds, val.v)

(* qsort(param_data, ..., compare_idindexpair): by key, then by position.  *)
ByKey(s, Key(_)) ==
  LET before(i, j) ==
        \/ Key(s[i]) < Key(s[j])
        \/ Key(s[i]) = Key(s[j]) /\ i < j
      order == SetToSortSeq(DOMAIN s, before)
  IN  [k \in DOMAIN s |-> s[order[k]]]

ParameterName(p) == p.name

TypeByte(type, arg) == <<<<type, arg>>>>

RECURSIVE write_encoded_value(_), write_encoded_array(_), write_encoded_annotation(_)

write_encoded_value(val) ==
  CASE val.type = "array" -> TypeByte("array", 0) \o write_encoded_array(val.values)
    [] val.type = "annotation" -> TypeByte("annotation", 0) \o write_encoded_annotation(val.annotation)
    [] val.type = "null" -> TypeByte("null", 0)
    [] val.type = "boolean" -> TypeByte("boolean", val.v)
    [] OTHER -> LET bytes == NumberBytes(val) IN TypeByte(val.type, Len(bytes) - 1) \o bytes

write_encoded_array(vals) ==
  write_uleb(Len(vals)) \o FlattenSeq([k \in DOMAIN vals |-> write_encoded_value(vals[k])])

(* Type, number of parameters, and each parameter in the order of the      *)
(* names: a name and a value.                                              *)
write_encoded_annotation(an) ==
  LET sorted == ByKey(an.parameters, ParameterName)
  IN  write_uleb(an.type) \o write_uleb(Len(sorted))
        \o FlattenSeq([k \in DOMAIN sorted |->
                         write_uleb(sorted[k].name) \o write_encoded_value(sorted[k].value)])

(* The value_arg that dxc_read_value accepts. *)
ArgFits(type, arg) ==
  CASE type \in {"byte", "array", "annotation", "null"} -> arg = 0
    [] type \in {"short", "char", "boolean"} -> arg < 2
    [] type \in {"int", "float"} \cup IndexTypes -> arg < 4
    [] OTHER -> TRUE

(* Sign extension, of every signed type but short: val_short takes the     *)
(* bytes as they are.                                                      *)
Extended(type) == type \in SignedTypes \ {"short"}

(* rbuf: the bytes of the file, extended to nsz bytes. *)
Rbuf(type, bytes) ==
  LET rsz == Len(bytes)
      nsz == NativeSize[type]
      fill == IF Extended(type) /\ 2 * bytes[rsz] >= ByteBase THEN ByteBase - 1 ELSE 0
      more == [k \in 1..nsz - rsz |-> fill]
  IN  IF type \in RealTypes THEN more \o bytes ELSE bytes \o more

(* The native value of the bytes. *)
FromBytes(type, bytes) ==
  LET top == bytes[Len(bytes)]
      first == IF type \in SignedTypes /\ 2 * top >= ByteBase THEN top - ByteBase ELSE top
  IN  FoldRight(LAMBDA b, acc : acc * ByteBase + b, Front(bytes), first)

(* A negative short that one byte is enough for: the writer cuts its sign  *)
(* bits and the reader does not put them back.                             *)
LosesSign(val) == val.type = "short" /\ val.v \in -(ByteBase \div 2)..-1

(* A value as it is read back: the parameters of annotations are sorted,   *)
(* and of all numbers only the shorts that LosesSign names have changed.   *)
RECURSIVE InFileOrder(_)
InFileOrder(val) ==
  CASE val.type = "short" -> [val EXCEPT !.v = IF LosesSign(val) THEN @ + ByteBase ELSE @]
    [] val.type = "array" -> [val EXCEPT !.values = [k \in DOMAIN @ |-> InFileOrder(@[k])]]
    [] val.type = "annotation" ->
         [val EXCEPT !.annotation.parameters =
            ByKey([k \in DOMAIN @ |-> [@[k] EXCEPT !.value = InFileOrder(@)]], ParameterName)]
    [] OTHER -> val

Failed == [v |-> "failed", next |-> -1]
Ok(r) == r.next # -1

RECURSIVE dxc_read_value(_, _, _), ReadValues(_, _, _, _), ReadParameters(_, _, _, _)

(* n values, one behind the other; what follows a failure is not read. *)
ReadValues(d, off, n, depth) ==
  IF n = 0 THEN Got(<< >>, off)
  ELSE LET first == dxc_read_value(d, off, depth)
           rest == ReadValues(d, first.next, n - 1, depth)
       IN  IF ~Ok(first) \/ ~Ok(rest) THEN Failed ELSE Got(<<first.v>> \o rest.v, rest.next)

dxc_read_value_array(d, off, depth) ==
  LET sz == read_uleb(d, off) IN ReadValues(d, sz.next, sz.v, depth)

ReadParameters(d, off, n, depth) ==
  IF n = 0 THEN Got(<< >>, off)
  ELSE LET name == read_uleb(d, off)
           first == dxc_read_value(d, name.next, depth)
           rest == ReadParameters(d, first.next, n - 1, depth)
       IN  IF ~Ok(first) \/ ~Ok(rest) THEN Failed
           ELSE Got(<<[name |-> name.v, value |-> first.v]>> \o rest.v, rest.next)

dxc_read_encoded_annotation(d, off, depth) ==
  LET type == read_uleb(d, off)
      sz == read_uleb(d, type.next)
      params == ReadParameters(d, sz.next, sz.v, depth)
  IN  IF ~Ok(params) THEN Failed
      ELSE Got([type |-> type.v, parameters |-> params.v], params.next)

(* The value of r.v, once it is read. *)
Typed(r, Value(_)) == IF Ok(r) THEN Got(Value(r.v), r.next) ELSE Failed
ArrayValue(vs) == [type |-> "array", values |-> vs]
AnnotationValue(an) == [type |-> "annotation", annotation |-> an]

dxc_read_value(d, off, depth) ==
  IF depth > MaxDepth \/ off >= Len(d) THEN Failed
  ELSE
  LET type == d[off + 1][1]
      arg == d[off + 1][2]
      rsz == IF type \in NumberTypes THEN arg + 1 ELSE 0
  IN  IF ~ArgFits(type, arg) \/ off + 1 + rsz > Len(d) THEN Failed
      ELSE CASE type = "array" -> Typed(dxc_read_value_array(d, off + 1, depth + 1), ArrayValue)
             [] type = "annotation" ->
                  Typed(dxc_read_encoded_annotation(d, off + 1, depth + 1), AnnotationValue)
             [] type = "null" -> Got([type |-> type, v |-> 0], off + 1)
             [] type = "boolean" -> Got([type |-> type, v |-> arg], off + 1)
             [] OTHER ->
                  LET bytes == SubSeq(d, off + 2, off + 1 + rsz)
                  IN  Got([type |-> type, v |-> FromBytes(type, Rbuf(type, bytes))],
                          off + 1 + rsz)
=============================================================================
