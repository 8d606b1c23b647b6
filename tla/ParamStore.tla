----------------------------- MODULE ParamStore -----------------------------
(* Md_store, the list of parameters handed from the images through the       *)
(* wrappers to the files and the data base, and Attr_list_hdf, the attributes *)
(* of one HDF group that it is written to and read back from.                 *)
(*                                                                            *)
(* An element is a record [key, type, val].  Values are integers whatever the *)
(* type: 0 and 1 for a bool, 0 for the empty string, a number for any other.  *)
EXTENDS Integers, FiniteSets, SequencesExt

CONSTANT IntMax  \* INT_MAX; an unsigned int is in 0 .. 2 * IntMax + 1

ASSUME IntMaxAssumption == IntMax \in Nat \ {0}

UintMod == 2 * IntMax + 2

Elem(k, t, v) == [key |-> k, type |-> t, val |-> v]
StringTypes == {"string", "time", "guid"}

Keys(s) == {s[i].key : i \in 1 .. Len(s)}
ContainsKey(s, k) == k \in Keys(s)

\* get_key_index: the first element of that name.
GetKeyIndex(s, k) ==
    CHOOSE i \in 1 .. Len(s) : s[i].key = k /\ \A j \in 1 .. i - 1 : s[j].key # k

\* get_value: the first element answers, if the type asked for agrees with its own.
CanGet(s, k, t) ==
    /\ ContainsKey(s, k)
    /\ LET e == s[GetKeyIndex(s, k)]
       IN  \/ e.type = t
           \/ e.type \in StringTypes /\ t = "string"
           \/ e.type = "uint" /\ t = "int" /\ e.val <= IntMax
           \/ e.type = "int" /\ t = "uint" /\ e.val >= 0
GetValue(s, k) == s[GetKeyIndex(s, k)].val

\* add_element with a value: no look at the keys that are there.
AddElement(s, k, t, v) == Append(s, Elem(k, t, v))

\* remove_key: the first element of that name goes.
RemoveKey(s, k) == IF ContainsKey(s, k) THEN RemoveAt(s, GetKeyIndex(s, k)) ELSE s

\* set_value with over_write, its default.
SetElement(s, e) == Append(RemoveKey(s, e.key), e)

\* add_elements
AddElements(s, t) == s \o t

-----------------------------------------------------------------------------
(* Attributes: the same records, but a key is there once, and the types are   *)
(* those of HDF5                                                              *)

\* Mutant: a bool keeps a type the reader does not know.
ConvertedNotBool(e) ==
    Elem(e.key,
         CASE e.type \in StringTypes -> "string"
           [] e.type \in {"uint", "int"} -> "int"
           [] OTHER -> e.type,
         e.val)

\* Wrapper_o_hdf_group::add_meta_store and the set_value each type goes through.
Convertible(e) == e.type = "uint" => e.val <= IntMax
Converted(e) ==
    Elem(e.key,
         CASE e.type \in StringTypes -> "string"
           [] e.type \in {"bool", "uint", "int"} -> "int"
           [] OTHER -> e.type,
         e.val)

\* An attribute that is there is compared; only the same type and value pass.
Agrees(attrs, a) == \A b \in attrs : b.key = a.key => b = a
Named(a) == ~(a.type = "string" /\ a.val = 0)

\* set_value of Attr_list_hdf without over_write, for an agreeing value.
SetAttr(attrs, a) == IF Named(a) THEN attrs \cup {a} ELSE attrs

\* The attributes after the first n elements of s, and whether all n went in.
AttrsAfter(attrs, s) ==
    LET at[n \in 0 .. Len(s)] ==
            IF n = 0 THEN attrs
            ELSE IF Convertible(s[n]) /\ Agrees(at[n-1], Converted(s[n]))
                 THEN SetAttr(at[n-1], Converted(s[n]))
                 ELSE at[n-1]
    IN  at
TakesElement(attrs, s, n) ==
    Convertible(s[n]) /\ Agrees(AttrsAfter(attrs, s)[n-1], Converted(s[n]))
Takes(attrs, s) == \A n \in 1 .. Len(s) : TakesElement(attrs, s, n)

\* add_meta_store: stops at the first element that throws.
AddMetaStore(attrs, s) ==
    LET stop == {n \in 1 .. Len(s) : ~TakesElement(attrs, s, n)}
        last == IF stop = {} THEN Len(s) ELSE (CHOOSE n \in stop : \A m \in stop : n <= m) - 1
    IN  AttrsAfter(attrs, s)[last]

\* Md_store(Attr_list_hdf): one element for each scalar attribute, in the order
\* of the names; tuples are not read.
Readable == {"int", "uint", "float", "string"}
ReadType(t) == IF t = "uint" THEN "int" ELSE t
StoreOf(attrs) ==
    SetToSeq({Elem(a.key, ReadType(a.type), a.val) : a \in {b \in attrs : b.type \in Readable}})
=============================================================================
