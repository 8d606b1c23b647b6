--------------------------- MODULE Identification ---------------------------
(* Iden::fill_wrapper and fill_wrapper_avg: the planes of an image are taken  *)
(* one after the other, or in groups that are added up, the particles found   *)
(* on them go into the frames of a Wrapper_i_plu, and each frame is given its *)
(* parameters, the time since the frame before among them.                    *)
(*                                                                            *)
(* A plane is a record [time, z, found]: what the parser of the image reads,  *)
(* and how many particles the image processing, which is left open, may find. *)
(* An image that is worked on is the set of the planes added up in it.        *)
EXTENDS ParamStore

CONSTANTS
    Images,    \* [planes, avg]: sequences of planes, a time is -1 where there is none
    NoAvg      \* no averaging: fill_wrapper

\* One program writes all planes of an image: it stamps them all or none.  The
\* code divides by avg_count before anything else.
ASSUME ImagesAssumption ==
    \A im \in Images :
        /\ im.planes \in Seq([time : Int, z : Int, found : SUBSET Nat])
        /\ im.avg # NoAvg => im.avg \in Nat \ {0}
        /\ \A i, j \in 1 .. Len(im.planes) :
            /\ IsFiniteSet(im.planes[i].found)
            /\ im.planes[i].time >= 0 <=> im.planes[j].time >= 0

VARIABLES
    stack,     \* the planes of the image
    avgCount,  \* avg_count, or NoAvg
    plane,     \* cur_plane_ of the image source, and the plane it has loaded
    image,     \* planes in image_in
    count,     \* k of fill_wrapper_avg
    times,     \* prev_time and cur_time
    sumZ,      \* z of fill_wrapper_avg
    wrapper    \* the frames so far: the planes seen, the number found, the Md_store

idenVars == <<stack, avgCount, plane, image, count, times, sumZ, wrapper>>

NPlanes == Len(stack)
Averaging == avgCount # NoAvg
MaxFound == Max({0} \cup UNION {stack[i].found : i \in 1 .. NPlanes})

\* frames / avg_count
NFramesOut == IF Averaging THEN NPlanes \div avgCount ELSE NPlanes

\* parse_md: what the image has is put in; the time only where it is.
PlaneStore(p) ==
    (IF p.time >= 0 THEN <<Elem("acquisition-time-local", "time", p.time)>> ELSE <<>>)
    \o <<Elem("z-position", "float", p.z), Elem("calibrated", "bool", 1), Elem("comment", "string", 0)>>

IdenInit ==
    /\ \E im \in Images : stack = im.planes /\ avgCount = im.avg
    /\ avgCount # NoAvg => Len(stack) >= avgCount /\ stack[1].time >= 0
    /\ plane = [at |-> 0, loaded |-> 1]
    /\ image = {}
    /\ count = 0
    /\ times = [prev |-> 0, cur |-> 0]
    /\ sumZ = 0
    /\ wrapper = <<>>

IdenDone == Len(wrapper) = NFramesOut

\* Mutant: the plane asked for does not count the ones of this frame.
PlaneWantedFirst == IF Averaging THEN Len(wrapper) * avgCount ELSE Len(wrapper)

\* select_plane: the plane is loaded unless it is the current one.
PlaneWanted == IF Averaging THEN Len(wrapper) * avgCount + count ELSE Len(wrapper)
SelectPlane ==
    plane' = IF plane.at = PlaneWanted THEN plane ELSE [at |-> PlaneWanted, loaded |-> PlaneWanted + 1]

\* add_frame_data and set_Md_store of the next frame; ParticleStatistics finds n.
AddFrame(img, n, md) == wrapper' = Append(wrapper, [image |-> img, found |-> n, md |-> md])

\* One turn of fill_wrapper.
IdenPlane(n) ==
    /\ ~Averaging /\ ~IdenDone
    /\ n \in stack[Len(wrapper) + 1].found
    /\ SelectPlane
    /\ image' = {plane'.loaded}
    /\ LET p == stack[plane'.loaded]
           md == PlaneStore(p)
           first == Len(wrapper) = 0
           now == GetValue(md, "acquisition-time-local")
           dtime == IF first THEN 0 ELSE now - times.prev
       IN  IF ContainsKey(md, "acquisition-time-local")
           THEN /\ times' = [prev |-> now, cur |-> IF first THEN times.cur ELSE now]
                /\ AddFrame(image', n, AddElement(md, "dtime", "int", dtime))
           ELSE times' = times /\ AddFrame(image', n, md)
    /\ UNCHANGED <<stack, avgCount, count, sumZ>>

\* One plane of an averaged frame; the time is that of the first.
AvgPlane ==
    /\ Averaging /\ ~IdenDone /\ count < avgCount
    /\ SelectPlane
    /\ image' = IF count = 0 THEN {plane'.loaded} ELSE image \cup {plane'.loaded}
    /\ LET md == PlaneStore(stack[plane'.loaded])
           cur == IF count = 0 THEN GetValue(md, "acquisition-time-local") ELSE times.cur
       IN  /\ times' = [cur |-> cur, prev |-> IF Len(wrapper) = 0 THEN cur ELSE times.prev]
           /\ sumZ' = sumZ + GetValue(md, "z-position")
    /\ count' = count + 1
    /\ UNCHANGED <<stack, avgCount, wrapper>>

\* The end of an averaged frame: dtime is an unsigned int here.
AvgFrame(n) ==
    /\ Averaging /\ ~IdenDone /\ count = avgCount
    /\ n \in stack[plane.loaded].found
    /\ LET dtime == (times.cur - times.prev) % UintMod
           md == <<Elem("z-position", "float", sumZ \div avgCount), Elem("calibrated", "bool", 1),
                   Elem("dtime", "uint", dtime), Elem("acquisition-time-local", "string", times.cur)>>
       IN  AddFrame(image, n, md)
    /\ times' = [times EXCEPT !.prev = times.cur]
    /\ count' = 0
    /\ sumZ' = 0
    /\ UNCHANGED <<stack, avgCount, plane, image>>

IdenStep == \E n \in 0 .. MaxFound : IdenPlane(n) \/ AvgPlane \/ AvgFrame(n)

-----------------------------------------------------------------------------
(* What the frames have to be, read off the image                             *)

FirstPlane(j) == IF Averaging THEN (j - 1) * avgCount + 1 ELSE j
PlanesOf(j) == FirstPlane(j) .. FirstPlane(j + 1) - 1

\* Every frame is made of its own planes, all of them and no other, and its
\* dtime is the time since the frame before: the image source keeps its place,
\* and sums and times are carried from turn to turn (iden.cpp:143-181, 393-462).
FramesTimed ==
    \A j \in 1 .. Len(wrapper) :
        /\ wrapper[j].image = PlanesOf(j)
        /\ LET t == stack[FirstPlane(j)].time
               gap == IF j = 1 THEN 0 ELSE t - stack[FirstPlane(j - 1)].time
           IN  IF t < 0 THEN ~ContainsKey(wrapper[j].md, "dtime")
               ELSE GetValue(wrapper[j].md, "dtime") = IF Averaging THEN gap % UintMod ELSE gap
=============================================================================
