----------------------------- MODULE ClassItems -----------------------------
(***************************************************************************)
(* The members of a class in the file: its annotations directory, its      *)
(* class_data_item and the values of its static fields, written by         *)
(* write_class (src/src/write.c) and read by dxc_read_class_section        *)
(* (src/src/classes.c).                                                    *)
(*                                                                         *)
(* A member has its index into the table of fields or methods, its access  *)
(* flags, and the offsets of its code and its annotations, 0 for none.     *)
(* type is the kind of value that a field can have, "null" for references. *)
(* A dx_uint of the directory is one number.                               *)
(***************************************************************************)
EXTENDS EncodedNumbers

FieldLists == <<"static_fields", "instance_fields">>
MethodLists == <<"direct_methods", "virtual_methods">>

(* The two lists of an item, one behind the other.                         *)
Members(cl, lists) == cl[lists[1]] \o cl[lists[2]]

(* IdIndexPair, sorted by compare_idindexpair. *)
Id(pair) == pair.id
Pairs(members) == ByKey([k \in DOMAIN members |-> [id |-> members[k].id, index |-> k]], Id)

(* Members in the order of their indexes, with the step from the one       *)
(* before.                                                                 *)
Steps(members) ==
  LET pairs == Pairs(members)
  IN  [k \in DOMAIN pairs |->
         [member |-> members[pairs[k].index],
          delta |-> pairs[k].id - (IF k = 1 THEN 0 ELSE pairs[k - 1].id)]]

(* A uleb of four bytes, filled in by perform_resolve.                     *)
write_uleb_resolve(off) ==
  [k \in 1..4 |-> ((off \div LebBase^(k - 1)) % LebBase) + (IF k # 4 THEN LebBase ELSE 0)]

EncodedField(step) == write_uleb(step.delta) \o write_uleb(step.member.flags)
EncodedMethod(step) ==
  EncodedField(step)
    \o (IF step.member.code # 0 THEN write_uleb_resolve(step.member.code) ELSE write_uleb(0))

EncodedMembers(members, Encode(_)) ==
  LET steps == Steps(members) IN FlattenSeq([k \in DOMAIN steps |-> Encode(steps[k])])

write_class_data(cl) ==
  write_uleb(Len(cl.static_fields)) \o write_uleb(Len(cl.instance_fields))
    \o write_uleb(Len(cl.direct_methods)) \o write_uleb(Len(cl.virtual_methods))
    \o EncodedMembers(cl.static_fields, EncodedField)
    \o EncodedMembers(cl.instance_fields, EncodedField)
    \o EncodedMembers(cl.direct_methods, EncodedMethod)
    \o EncodedMembers(cl.virtual_methods, EncodedMethod)

(* A field without a value has the one that calloc leaves.                 *)
Default(fld) == [type |-> fld.type, v |-> 0]

(* new_svalues: the values follow their fields.                            *)
StaticValuesOf(cl) ==
  LET pairs == Pairs(cl.static_fields)
      value(j) == IF j <= Len(cl.static_values) THEN cl.static_values[j]
                  ELSE Default(cl.static_fields[j])
  IN  [k \in DOMAIN pairs |-> value(pairs[k].index)]

(* The types in the table of fields.                                       *)
FieldTypes(cl) ==
  LET fields == Members(cl, FieldLists)
  IN  [id \in {fields[k].id : k \in DOMAIN fields} |->
         (CHOOSE f \in Range(fields) : f.id = id).type]

NoMembers(cl) == Members(cl, FieldLists) = << >> /\ Members(cl, MethodLists) = << >>

(* The members that have something in the column part, by index.           *)
Entries(members, part) ==
  LET pairs == SelectSeq(Pairs(members), LAMBDA pair : members[pair.index][part] # 0)
  IN  FlattenSeq([k \in DOMAIN pairs |-> <<pairs[k].id, members[pairs[k].index][part]>>])

write_annotation_directory(cl) ==
  LET fields == Entries(Members(cl, FieldLists), "annotations")
      methods == Entries(Members(cl, MethodLists), "annotations")
      params == Entries(Members(cl, MethodLists), "parameter_annotations")
  IN  <<cl.annotations, Len(fields) \div 2, Len(methods) \div 2, Len(params) \div 2>>
        \o fields \o methods \o params

write_class(cl) ==
  [directory |-> write_annotation_directory(cl),
   data |-> IF NoMembers(cl) THEN << >> ELSE write_class_data(cl),
   values |-> write_encoded_array(IF NoMembers(cl) THEN cl.static_values ELSE StaticValuesOf(cl))]
-----------------------------------------------------------------------------
(* Where the n entries at the word off put annotations: index -> offset.   *)
Stored(directory, off, n) ==
  LET id(k) == directory[off + 2 * k - 1]
      last(i) == CHOOSE k \in 1..n : id(k) = i /\ \A j \in k + 1..n : id(j) # i
  IN  [i \in {id(k) : k \in 1..n} |-> directory[off + 2 * last(i)]]

(* What a member takes from the table, 0 for none.                         *)
TakenFrom(table, id) == IF id \in DOMAIN table THEN table[id] ELSE 0

dxc_read_annotation_directory(dir) ==
  [class |-> dir[1], fields |-> Stored(dir, 4, dir[2]),
   methods |-> Stored(dir, 4 + 2 * dir[2], dir[3]),
   parameters |-> Stored(dir, 4 + 2 * dir[2] + 2 * dir[3], dir[4])]

(* A field of type[id]: the table of fields has its type.                  *)
dxc_read_encoded_field(d, off, idx, anns, type) ==
  LET delta == read_uleb(d, off)
      flags == read_uleb(d, delta.next)
      id == (idx + delta.v) % UintBase
  IN  Got([id |-> id, flags |-> flags.v, type |-> type[id],
           annotations |-> TakenFrom(anns.fields, id)], flags.next)

dxc_read_encoded_method(d, off, idx, anns, type) ==
  LET delta == read_uleb(d, off)
      flags == read_uleb(d, delta.next)
      code == read_uleb(d, flags.next)
      id == (idx + delta.v) % UintBase
  IN  Got([id |-> id, flags |-> flags.v, code |-> code.v,
           annotations |-> TakenFrom(anns.methods, id),
           parameter_annotations |-> TakenFrom(anns.parameters, id)], code.next)

(* n members, each index counted from the one before.                      *)
ReadMembers(ReadOne(_, _, _, _, _), d, off, n, anns, type) ==
  LET after[k \in 0..n] ==
        IF k = 0 THEN [off |-> off, idx |-> 0, got |-> << >>]
        ELSE LET one == ReadOne(d, after[k - 1].off, after[k - 1].idx, anns, type)
             IN  [off |-> one.next, idx |-> one.v.id, got |-> Append(after[k - 1].got, one.v)]
  IN  Got(after[n].got, after[n].off)

dxc_read_class_data(d, anns, type) ==
  LET ssz == read_uleb(d, 0)
      isz == read_uleb(d, ssz.next)
      dsz == read_uleb(d, isz.next)
      vsz == read_uleb(d, dsz.next)
      static == ReadMembers(dxc_read_encoded_field, d, vsz.next, ssz.v, anns, type)
      instance == ReadMembers(dxc_read_encoded_field, d, static.next, isz.v, anns, type)
      direct == ReadMembers(dxc_read_encoded_method, d, instance.next, dsz.v, anns, type)
      virtual == ReadMembers(dxc_read_encoded_method, d, direct.next, vsz.v, anns, type)
  IN  Got([static_fields |-> static.v, instance_fields |-> instance.v,
           direct_methods |-> direct.v, virtual_methods |-> virtual.v], virtual.next)

NoClassData ==
  [static_fields |-> << >>, instance_fields |-> << >>,
   direct_methods |-> << >>, virtual_methods |-> << >>]

dxc_read_class(f, type) ==
  LET anns == dxc_read_annotation_directory(f.directory)
      members == IF f.data = << >> THEN Got(NoClassData, 0)
                 ELSE dxc_read_class_data(f.data, anns, type)
  IN  [members |-> members.v, next |-> members.next, annotations |-> anns.class,
       static_values |-> dxc_read_value_array(f.values, 0, 0)]
=============================================================================
