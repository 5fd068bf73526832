---------------------------- MODULE ModifiedUtf8 ----------------------------
(***************************************************************************)
(* Strings in the file: their order (src/src/mutf8.c), the string items    *)
(* that write_string_data (src/src/write.c) makes, and read_string_data    *)
(* (src/src/strings.c).                                                    *)
(*                                                                         *)
(* A string is the sequence of its bytes without the terminating zero.  A  *)
(* UTF-16 unit takes one byte, two or three; unit 0 is C0 80.              *)
(***************************************************************************)
EXTENDS EncodedNumbers

(* Behind its last byte a string has a zero.                               *)
At(s, k) == IF k <= Len(s) THEN s[k] ELSE 0

(* The bytes of the unit that begins with head, 0 if none does.            *)
UnitSize(head) ==
  CASE head \div 128 = 0 -> 1
    [] head \div 32 = 6 -> 2
    [] head \div 16 = 14 -> 3
    [] OTHER -> 0

(* After a prefix of s: how many units it has, how many bytes of the last  *)
(* one are still missing; -1 when it is not modified UTF-8.                *)
mutf8_code_points(s) ==
  LET Step(b, acc) ==
        CASE acc.points = -1 -> acc
          [] acc.missing > 0 ->
               IF b \div 64 = 2 THEN [acc EXCEPT !.missing = @ - 1]
               ELSE [points |-> -1, missing |-> 0]
          [] OTHER -> IF UnitSize(b) = 0 THEN [points |-> -1, missing |-> 0]
                      ELSE [points |-> acc.points + 1, missing |-> UnitSize(b) - 1]
      all == FoldLeft(LAMBDA acc, b : Step(b, acc), [points |-> 0, missing |-> 0], s)
  IN  IF all.missing > 0 THEN -1 ELSE all.points

IsNullUnit(s, k) == At(s, k) = 192 /\ At(s, k + 1) = 128

mutf8_compare(a, b) ==
  LET k == CHOOSE k \in 1..Len(a) + 1 :
             /\ At(a, k) = 0 \/ At(a, k) # At(b, k)
             /\ \A j \in 1..k - 1 : At(a, j) # 0 /\ At(a, j) = At(b, j)
      x == At(a, k)
      y == At(b, k)
  IN  CASE x = y -> 0
        [] x < y -> IF x # 0 /\ IsNullUnit(b, k) THEN 1 ELSE -1
        [] x > y -> IF y # 0 /\ IsNullUnit(a, k) THEN -1 ELSE 1

(* make_unique: the strings of a pool sorted, each of them once.           *)
SortedPool(strs) ==
  SetToSortSeq(Range(strs), LAMBDA a, b : mutf8_compare(a, b) < 0)

write_string_data(s) == write_uleb(mutf8_code_points(s) % UintBase) \o s \o <<0>>

(* The string at off.  Its length in units is read and not used.           *)
read_string_data(d) ==
  LET start == read_uleb(d, 0).next
      sz == CHOOSE n \in 0..Len(d) - start :
              d[start + n + 1] = 0 /\ \A j \in 1..n : d[start + j] # 0
  IN  SubSeq(d, start + 1, start + sz)
-----------------------------------------------------------------------------
(* The units that a string stands for, and the order that the format       *)
(* demands of the strings of a file.                                       *)
RECURSIVE Units(_)
Units(s) ==
  IF s = << >> THEN << >>
  ELSE LET n == UnitSize(s[1])
           unit == CASE n = 1 -> s[1]
                     [] n = 2 -> 64 * (s[1] % 32) + (s[2] % 64)
                     [] n = 3 -> 4096 * (s[1] % 16) + 64 * (s[2] % 64) + (s[3] % 64)
       IN  <<unit>> \o Units(SubSeq(s, n + 1, Len(s)))

UnitsBefore(u, v) ==
  \E k \in 0..Len(u) :
    /\ k < Len(v) /\ \A j \in 1..k : u[j] = v[j]
    /\ k = Len(u) \/ u[k + 1] < v[k + 1]
=============================================================================
