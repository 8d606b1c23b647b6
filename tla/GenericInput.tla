---------------------------- MODULE GenericInput ----------------------------
(* Wrapper_i_generic, the input wrapper that other code fills frame by frame  *)
(* (common_src/cxx/wrapper_i_generic.cpp), and the calls by which             *)
(* Wrapper_i_jb_binary::proc_file fills one from the planes of a              *)
(* three-dimensional packing (wrapper_i_jb_binary.cpp).                       *)
(*                                                                            *)
(* The state of a wrapper is a record.  An operation gives the record it      *)
(* leaves and how it ended: it "returns", it throws ("thrown") with part of   *)
(* its work done, or it has undefined behaviour ("crash").  Frames are        *)
(* numbered from 0, the vectors of the code from 1.                           *)
EXTENDS Integers, SequencesExt

\* Some of the D_TYPEs, in the order of the enumeration.
TypeOrder == <<"index", "xpos", "ypos", "zpos", "order">>

\* v_type; "sentry", which stands for no data type, has none.
ValueType(t) ==
    CASE t = "index" -> "int"
      [] t \in {"xpos", "ypos", "zpos"} -> "float"
      [] t = "order" -> "complex"
      [] OTHER -> "error"

\* One array: not there, allocated and not written, or holding the values added.
NullArray == [state |-> "null", vals |-> <<>>]
RawArray == [state |-> "raw", vals |-> <<>>]
Holding(vals) == [state |-> "set", vals |-> vals]

\* slot is the three Data_maps in one: -1 for a type that was never set up.
\* addedSet tells whether frame_added_datatypes_ points at a set, at a deleted
\* one or nowhere.
NewInput ==
    [types |-> {}, slot |-> [t \in ToSet(TypeOrder) |-> -1],
     data |-> [k \in {"int", "float", "complex"} |-> <<>>],
     frames |-> 0, count |-> <<>>, z |-> <<>>, total |-> 0, locked |-> FALSE,
     open |-> FALSE, cur |-> "sentry", curSize |-> 0, curFrame |-> 0,
     added |-> {}, addedSet |-> "none"]

Returns(w) == [wrapper |-> w, ends |-> "returns"]
Throws(w) == [wrapper |-> w, ends |-> "thrown"]
Crashes(w) == [wrapper |-> w, ends |-> "crash"]

\* open_wrapper is clean_data: the arrays go, the vectors that held them, the
\* maps and the number of particles stay.
OpenInput(w) ==
    Returns([w EXCEPT
        !.data = [k \in DOMAIN w.data |->
                     [i \in DOMAIN w.data[k] |-> [f \in DOMAIN w.data[k][i] |-> NullArray]]],
        !.locked = FALSE])

\* Bug: the place in the vector is not counted on from type to type.
SlotsNotCounted(w, types) ==
    [t \in DOMAIN w.slot |-> IF t \in types THEN 0 ELSE w.slot[t]]

TypeRank(t) == CHOOSE i \in DOMAIN TypeOrder : TypeOrder[i] = t

\* The types of one kind take the places from 0 on, whatever the vector holds
\* already; a type that is not set up any more keeps the place it had.
Slots(w, types) ==
    [t \in DOMAIN w.slot |->
        IF t \in types
        THEN Cardinality({u \in types : ValueType(u) = ValueType(t) /\ TypeRank(u) < TypeRank(t)})
        ELSE w.slot[t]]

\* setup: n frames of these types.  New vectors go behind those that are there.
Setup(w, types, n) ==
    IF w.locked THEN Throws(w)
    ELSE Returns([w EXCEPT
        !.frames = n,
        !.count = [f \in 1 .. n |-> 0],
        !.z = [f \in 1 .. n |-> 0],
        !.types = types,
        !.slot = Slots(w, types),
        !.data = [k \in DOMAIN w.data |->
                     w.data[k] \o [i \in 1 .. Cardinality({t \in types : ValueType(t) = k}) |->
                                      [f \in 1 .. n |-> NullArray]]],
        !.locked = TRUE])

\* at(d_map(t)).at(f) of the vectors, which throws outside of them.
InVectors(w, t, f) ==
    /\ w.slot[t] + 1 \in DOMAIN w.data[ValueType(t)]
    /\ f + 1 \in DOMAIN w.data[ValueType(t)][w.slot[t] + 1]

ArrayAt(w, t, f) == w.data[ValueType(t)][w.slot[t] + 1][f + 1]

StoreArray(w, t, f, array) ==
    [w EXCEPT !.data[ValueType(t)][w.slot[t] + 1][f + 1] = array]

\* close_frame looks at nothing that was added.  The set it deletes is deleted
\* again when no frame has been opened in between.
CloseFrame(w) ==
    IF w.addedSet = "deleted" THEN Crashes(w)
    ELSE Returns([w EXCEPT !.addedSet = IF @ = "live" THEN "deleted" ELSE @,
                           !.curSize = 0, !.open = FALSE, !.cur = "sentry"])

\* The arrays of the frame, type by type up to one that throws.
Allocate(w, f) ==
    LET failing == {t \in w.types : ValueType(t) = "complex" \/ ~InVectors(w, t, f)}
        done == {t \in w.types : \A u \in failing : TypeRank(t) < TypeRank(u)}
        Made(k, i) == \E t \in done : ValueType(t) = k /\ w.slot[t] + 1 = i
        left == [w EXCEPT !.data =
                    [k \in DOMAIN w.data |-> [i \in DOMAIN w.data[k] |->
                        [g \in DOMAIN w.data[k][i] |->
                            IF g = f + 1 /\ Made(k, i) THEN RawArray ELSE w.data[k][i][g]]]]]
    IN  IF failing = {} THEN Returns(left) ELSE Throws(left)

\* open_frame, behind the close_frame it makes when a frame is open.
OpenFrameOf(w, f, n, z) ==
    IF f >= w.frames THEN Throws(w)
    ELSE LET r == Allocate([w EXCEPT !.count[f + 1] = n, !.curSize = n, !.curFrame = f,
                                     !.total = @ + n, !.z[f + 1] = z,
                                     !.added = {}, !.addedSet = "live"], f)
         IN  IF r.ends = "thrown" THEN r ELSE Returns([r.wrapper EXCEPT !.open = TRUE])

OpenFrame(w, f, n, z) ==
    IF w.open THEN OpenFrameOf(CloseFrame(w).wrapper, f, n, z) ELSE OpenFrameOf(w, f, n, z)

SetDataType(w, t) ==
    IF ~w.open \/ w.cur # "sentry" \/ t \in w.added THEN Throws(w)
    ELSE Returns([w EXCEPT !.added = @ \cup {t}, !.cur = t])

ClearDataType(w) == Returns([w EXCEPT !.cur = "sentry"])

\* add_int_data and add_float_data.  What throws leaves the data type set.
AddData(w, kind, vals) ==
    IF \/ ValueType(w.cur) # kind
       \/ Len(vals) # w.curSize
       \/ ~InVectors(w, w.cur, w.curFrame)
    THEN Throws(w)
    ELSE Returns([StoreArray(w, w.cur, w.curFrame, Holding(vals)) EXCEPT !.cur = "sentry"])

FinalizeInput(w) == Returns(w)

\* get_value: the z position is that of the frame, whatever was added for it.
Gives(w, t, f, i) ==
    /\ t \in w.types
    /\ t = "zpos" \/ (InVectors(w, t, f) /\ ArrayAt(w, t, f).state = "set"
                                         /\ i \in DOMAIN ArrayAt(w, t, f).vals)
ValueOf(w, t, f, i) == IF t = "zpos" THEN w.z[f + 1] ELSE ArrayAt(w, t, f).vals[i]

\* get_num_entries, of one frame and of all.
NumEntries(w, f) == w.count[f + 1]
TotalEntries(w) == w.total

\* A call of one of the operations above.
Do(w, c) ==
    CASE c.call = "open_wrapper" -> OpenInput(w)
      [] c.call = "setup" -> Setup(w, c.types, c.frames)
      [] c.call = "open_frame" -> OpenFrame(w, c.frame, c.n, c.z)
      [] c.call = "set_data_type" -> SetDataType(w, c.type)
      [] c.call = "clear_data_type" -> ClearDataType(w)
      [] c.call = "add_data" -> AddData(w, c.kind, c.vals)
      [] c.call = "close_frame" -> CloseFrame(w)
      [] c.call = "finalize_wrapper" -> FinalizeInput(w)

-----------------------------------------------------------------------------
(* Wrapper_i_jb_binary: triples <<x, y, z>>, already shifted                  *)

\* The rounding of (int) is towards zero, also for a z below zero.
Plane(z, spacing) == IF z < 0 THEN -((-z) \div spacing) ELSE z \div spacing

\* A slab of this thickness above each plane is kept.
InSlab(z, planes, spacing, thick) ==
    /\ Plane(z, spacing) < planes
    /\ z - Plane(z, spacing) * spacing < thick

OnPlane(triples, f, planes, spacing, thick) ==
    SelectSeq(triples, LAMBDA t : InSlab(t[3], planes, spacing, thick) /\ Plane(t[3], spacing) = f)

\* The calls of proc_file for the plane f, whose slab holds these triples.
PlaneCalls(f, slab, spacing, thick) ==
    <<[call |-> "open_frame", frame |-> f, n |-> Len(slab), z |-> f * spacing + thick \div 2],
      [call |-> "set_data_type", type |-> "xpos"],
      [call |-> "add_data", kind |-> "float", vals |-> [k \in DOMAIN slab |-> slab[k][1]]],
      [call |-> "set_data_type", type |-> "ypos"],
      [call |-> "add_data", kind |-> "float", vals |-> [k \in DOMAIN slab |-> slab[k][2]]],
      [call |-> "close_frame"]>>

\* proc_file, once it has sorted the triples by plane.
ProcFile(triples, planes, spacing, thick) ==
    <<[call |-> "open_wrapper"],
      [call |-> "setup", types |-> {"xpos", "ypos"}, frames |-> planes]>>
    \o FlattenSeq([f \in 1 .. planes |->
           PlaneCalls(f - 1, OnPlane(triples, f - 1, planes, spacing, thick), spacing, thick)])
    \o <<[call |-> "finalize_wrapper"]>>
=============================================================================
