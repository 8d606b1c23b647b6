----------------------------- MODULE TrackLink -----------------------------
(* The linker: hash_case::link walks the frames, fill_pos_link_next makes the *)
(* candidate lists (common_src/cxx/hash_track_funs.cpp), track_list::         *)
(* link_next joins the next frame to the tracks (track_list.cpp), and         *)
(* apps/tracking.cpp removes the short tracks and renumbers the rest.         *)
(*                                                                            *)
(* The tracks themselves are those of module Tracks: the linker works on      *)
(* them only through AddNewTrack, PushBack, RemoveShortTracks and Renumber.   *)
(* A candidate list is a set here, and the empty set stands for the null      *)
(* pointer: the code allocates a list for its first entry and deletes whole   *)
(* lists, so no list is ever empty.  The lists of the code's traversals come  *)
(* in hash-box or pointer order, which the program does not control: an       *)
(* action takes any element that is left.                                     *)
EXTENDS Tracks, MinMatching

CONSTANTS
    NFrames,    \* frames in the data set
    MaxDispSq,  \* max_disp_sq, the squared search range
    MaxNetSize, \* MAX_NET_SIZE
    DistVals    \* the squared distances the instances use

ASSUME FramesAssumption ==
    /\ NFrames \in Nat /\ NFrames >= 2
    /\ \A p \in Particle : Frame[p] < NFrames
ASSUME LinkAssumption ==
    /\ MaxDispSq \in Nat
    /\ MaxNetSize \in Nat
    /\ DistVals \subseteq Nat

InFrame(k) == {p \in Particle : Frame[p] = k}

Consecutive == {pn \in Particle \X Particle : Frame[pn[2]] = Frame[pn[1]] + 1}

VARIABLES
    dist,       \* particle_track::distancesq of particles in consecutive frames
    nPos,       \* n_pos_link: candidates in the next frame
    pPos,       \* p_pos_link: candidates in the previous frame
    frame,      \* frames whose particle list has been taken from the hash case
    store,      \* store_list
    pList,      \* p_list
    nList,      \* n_list
    todo,       \* what the running loop over a list has still to visit
    pSub,       \* p_sub_net
    nSub,       \* n_sub_net
    tmpP,       \* tmp_p, the queue of set_up_sub_ntwrk
    tmpN,       \* tmp_n
    pairing,    \* the result of recur_fnc_pn
    pc          \* where the program is

listVars == <<store, pList, nList>>
netVars == <<pSub, nSub, tmpP, tmpN, pairing>>
posVars == <<nPos, pPos>>
linkVars == <<dist, posVars, frame, listVars, todo, netVars, pc>>
vars == <<trackVars, linkVars>>

-----------------------------------------------------------------------------
(* hash_case::link and fill_pos_link_next                                     *)

Near(p) == {n \in Particle : <<p, n>> \in Consecutive /\ dist[p, n] < MaxDispSq}

\* fill_pos_link_next(frame k): both ends of every pair closer than the search
\* range list each other.
FilledNext(k) ==
    [p \in Particle |-> IF Frame[p] = k THEN nPos[p] \cup Near(p) ELSE nPos[p]]
FilledPrev(k) ==
    [n \in Particle |->
        IF Frame[n] = k + 1 THEN pPos[n] \cup {p \in Particle : n \in Near(p)}
                            ELSE pPos[n]]

LinkInit ==
    /\ Init
    /\ dist \in [Consecutive -> DistVals]
    /\ nPos = [p \in Particle |-> {}]
    /\ pPos = [p \in Particle |-> {}]
    /\ frame = 0
    /\ store = {} /\ pList = {} /\ nList = {} /\ todo = {}
    /\ pSub = {} /\ nSub = {} /\ tmpP = {} /\ tmpN = {}
    /\ pairing = [p \in {} |-> NULL]
    /\ pc = "begin"

\* The first frame: its candidate lists are filled and its list becomes the
\* store_list of the track_list.
Begin ==
    /\ pc = "begin"
    /\ nPos' = FilledNext(0)
    /\ pPos' = FilledPrev(0)
    /\ frame' = 1
    /\ store' = InFrame(0)
    /\ todo' = InFrame(0)
    /\ pc' = "first"
    /\ UNCHANGED <<trackVars, dist, pList, nList, netVars>>

\* Every particle of the first frame starts a track.
FirstTrack(p) ==
    /\ pc = "first" /\ p \in todo
    /\ AddNewTrack(p)
    /\ todo' = todo \ {p}
    /\ UNCHANGED <<dist, posVars, frame, listVars, netVars, pc>>

AtLoopHead == pc = "next" \/ (pc = "first" /\ todo = {})

FramesLeft == frame < NFrames

\* One turn of the loop over the frames: take the list of the next frame, fill
\* its candidates in the frame after it (the last frame has none), and enter
\* link_next, which rotates the lists.
NextFrame ==
    /\ AtLoopHead /\ FramesLeft
    /\ IF frame + 1 < NFrames
       THEN nPos' = FilledNext(frame) /\ pPos' = FilledPrev(frame)
       ELSE UNCHANGED posVars
    /\ pList' = store
    /\ store' = InFrame(frame)
    /\ nList' = InFrame(frame)
    /\ todo' = InFrame(frame)
    /\ frame' = frame + 1
    /\ pc' = "trivial"
    /\ UNCHANGED <<trackVars, dist, netVars>>

\* ~track_list when hash_case::link returns.
Finish ==
    /\ AtLoopHead /\ frame = NFrames
    /\ nPos' = [p \in Particle |-> IF p \in store THEN {} ELSE nPos[p]]
    /\ pPos' = [p \in Particle |-> IF p \in store THEN {} ELSE pPos[p]]
    /\ store' = {}
    /\ pc' = "linked"
    /\ UNCHANGED <<trackVars, dist, frame, pList, nList, todo, netVars>>

-----------------------------------------------------------------------------
(* track_list::link_next                                                      *)

\* Bug: only the candidates of p are looked at, not those of n.
OnlyPairOneSided(p, n) == p \in pPos[n] /\ Cardinality(nPos[p]) = 1

\* p and n are each other's only candidate.
OnlyPair(p, n) == pPos[n] = {p} /\ Cardinality(nPos[p]) = 1

\* trivial_bonds, one particle of n_list: with no candidate it starts a track;
\* with one candidate that has no other it is bonded; else it waits.
TrivialBond(n) ==
    /\ pc = "trivial" /\ n \in todo
    /\ todo' = todo \ {n}
    /\ \/ pPos[n] = {} /\ AddNewTrack(n)
       \/ \E p \in Particle : OnlyPair(p, n) /\ PushBack(track[p], n)
       \/ /\ pPos[n] # {}
          /\ \A p \in Particle : ~OnlyPair(p, n)
          /\ UNCHANGED trackVars
    /\ UNCHANGED <<dist, posVars, frame, listVars, netVars, pc>>

CleanDue ==
    \/ pc = "trivial" /\ todo = {}
    \/ pc = "pairs" /\ pSub = {} /\ nSub = {}

\* Bug: clean_lists deletes the candidate lists of n_list only.
CandidatesAfterBondsKept == nPos

CandidatesAfterBonds ==
    [p \in Particle |-> IF p \in pList /\ next[p] # NULL THEN {} ELSE nPos[p]]

\* clean_lists: bonded particles lose their candidates, and they and those that
\* have none leave the lists.  link_next goes on while both lists have some.
CleanLists ==
    /\ CleanDue
    /\ pPos' = [n \in Particle |-> IF n \in nList /\ prev[n] # NULL THEN {} ELSE pPos[n]]
    /\ nPos' = CandidatesAfterBonds
    /\ nList' = {n \in nList : prev[n] = NULL /\ pPos[n] # {}}
    /\ pList' = {p \in pList : next[p] = NULL /\ nPos[p] # {}}
    /\ pc' = IF nList' # {} /\ pList' # {} THEN "pick" ELSE "next"
    /\ UNCHANGED <<trackVars, dist, frame, store, todo, netVars>>

\* set_up_sub_ntwrk starts from the front of p_list.
PickFront(p) ==
    /\ pc = "pick" /\ p \in pList
    /\ pSub' = {p} /\ nSub' = {}
    /\ tmpP' = {} /\ tmpN' = nPos[p]
    /\ pc' = "grow"
    /\ UNCHANGED <<trackVars, dist, posVars, frame, listVars, todo, pairing>>

NetTooBig == Cardinality(nSub) > MaxNetSize \/ Cardinality(pSub) > MaxNetSize

\* Bug: the candidates' own previous particles are not followed.
GrowNetOneWay ==
    /\ pc = "grow" /\ (tmpP # {} \/ tmpN # {}) /\ ~NetTooBig
    /\ pSub' = pSub \cup tmpP
    /\ nSub' = nSub \cup tmpN
    /\ tmpP' = {}
    /\ tmpN' = {}
    /\ UNCHANGED <<trackVars, dist, posVars, frame, listVars, todo, pairing, pc>>

\* Bug: particles already in the subnetwork are queued again.
GrowNetRevisiting ==
    /\ pc = "grow" /\ (tmpP # {} \/ tmpN # {}) /\ ~NetTooBig
    /\ LET queuedN == tmpN \cup UNION {nPos[p] : p \in tmpP}
       IN  /\ pSub' = pSub \cup tmpP
           /\ nSub' = nSub \cup queuedN
           /\ tmpP' = UNION {pPos[n] : n \in queuedN}
           /\ tmpN' = {}
    /\ UNCHANGED <<trackVars, dist, posVars, frame, listVars, todo, pairing, pc>>

\* One turn of the loop of set_up_sub_ntwrk: the queued previous particles come
\* in and queue their candidates, then the queued next particles do.
GrowNet ==
    /\ pc = "grow" /\ (tmpP # {} \/ tmpN # {}) /\ ~NetTooBig
    /\ LET queuedN == tmpN \cup UNION {nPos[p] : p \in tmpP \ pSub}
       IN  /\ pSub' = pSub \cup tmpP
           /\ nSub' = nSub \cup queuedN
           /\ tmpP' = UNION {pPos[n] : n \in queuedN \ nSub}
           /\ tmpN' = {}
    /\ UNCHANGED <<trackVars, dist, posVars, frame, listVars, todo, pairing, pc>>

\* throw runtime_error("subnetwork too big, barfing"): the program ends.
Barf ==
    /\ pc = "grow" /\ (tmpP # {} \/ tmpN # {}) /\ NetTooBig
    /\ pc' = "barf"
    /\ UNCHANGED <<trackVars, dist, posVars, frame, listVars, todo, netVars>>

\* link_sub_ntwrk calls recur_fnc_pn, which returns a minimum-cost assignment
\* of the subnetwork: module SubnetSearch has the search itself, and
\* SearchOptimal there is what is used here.
SolveNet ==
    /\ pc = "grow" /\ tmpP = {} /\ tmpN = {}
    /\ pairing' \in OptimalAssignments(pSub, [p \in pSub |-> nPos[p]], dist, NULL, MaxDispSq)
    /\ pc' = "pairs"
    /\ UNCHANGED <<trackVars, dist, posVars, frame, listVars, todo, pSub, nSub, tmpP, tmpN>>

\* link_pairs, one pair of the result: the bond is made and both ends leave the
\* subnetwork and lose their candidates.
LinkPair(p) ==
    /\ pc = "pairs" /\ p \in pSub
    /\ pSub' = pSub \ {p}
    /\ nPos' = [nPos EXCEPT ![p] = {}]
    /\ IF pairing[p] = NULL
       THEN UNCHANGED <<trackVars, nSub, pPos>>
       ELSE /\ PushBack(track[p], pairing[p])
            /\ nSub' = nSub \ {pairing[p]}
            /\ pPos' = [pPos EXCEPT ![pairing[p]] = {}]
    /\ UNCHANGED <<dist, frame, listVars, todo, tmpP, tmpN, pairing, pc>>

\* Bug: a next particle left over is dropped without a track.
LeftOverDropped(n) ==
    /\ pc = "pairs" /\ pSub = {} /\ n \in nSub
    /\ nSub' = nSub \ {n}
    /\ pPos' = [pPos EXCEPT ![n] = {}]
    /\ UNCHANGED <<trackVars, dist, nPos, frame, listVars, todo, pSub, tmpP, tmpN, pairing, pc>>

\* link_pairs, one next particle left over: it starts a track.
LeftOver(n) ==
    /\ pc = "pairs" /\ pSub = {} /\ n \in nSub
    /\ AddNewTrack(n)
    /\ nSub' = nSub \ {n}
    /\ pPos' = [pPos EXCEPT ![n] = {}]
    /\ UNCHANGED <<dist, nPos, frame, listVars, todo, pSub, tmpP, tmpN, pairing, pc>>

-----------------------------------------------------------------------------
(* main of apps/tracking.cpp after the link                                   *)

\* Bug: off by one, single particles stay tracks.
ShortestKeptOneLess == 1

\* The length of the shortest track the program keeps.
ShortestKept == 2

RemoveSingles ==
    /\ pc = "linked"
    /\ RemoveShortTracks(ShortestKept)
    /\ pc' = "trimmed"
    /\ UNCHANGED <<dist, posVars, frame, listVars, todo, netVars>>

Number ==
    /\ pc = "trimmed"
    /\ Renumber
    /\ pc' = "numbered"
    /\ UNCHANGED <<dist, posVars, frame, listVars, todo, netVars>>

LinkNext ==
    \/ Begin
    \/ \E p \in Particle : FirstTrack(p)
    \/ NextFrame
    \/ Finish
    \/ \E n \in Particle : TrivialBond(n)
    \/ CleanLists
    \/ \E p \in Particle : PickFront(p)
    \/ GrowNet
    \/ Barf
    \/ SolveNet
    \/ \E p \in Particle : LinkPair(p)
    \/ \E n \in Particle : LeftOver(n)
    \/ RemoveSingles
    \/ Number

LinkSpec == LinkInit /\ [][LinkNext]_vars /\ WF_vars(LinkNext)

-----------------------------------------------------------------------------
(* Properties                                                                 *)

Ended == pc \in {"numbered", "barf"}

LinkTypeOK ==
    /\ TypeOK
    /\ dist \in [Consecutive -> Nat]
    /\ nPos \in [Particle -> SUBSET Particle]
    /\ pPos \in [Particle -> SUBSET Particle]
    /\ frame \in 0 .. NFrames
    /\ store \subseteq Particle /\ pList \subseteq Particle /\ nList \subseteq Particle
    /\ todo \subseteq Particle
    /\ pSub \subseteq Particle /\ nSub \subseteq Particle
    /\ tmpP \subseteq Particle /\ tmpN \subseteq Particle
    /\ pc \in {"begin", "first", "next", "trivial", "pick", "grow", "pairs",
               "linked", "trimmed", "numbered", "barf"}

\* Between frames every particle of the frames taken so far is in a track and
\* no later particle is: neither the trivial bonds, nor the subnetworks, nor
\* the clean-up of the lists loses one or takes one twice.
EveryParticleTracked ==
    AtLoopHead \/ pc = "linked" =>
        \A p \in Particle : track[p] # NULL <=> Frame[p] < frame

\* While subnetworks are picked, the two candidate lists of the frame pair in
\* hand mirror each other and mention only particles still in the lists: a
\* bonded or dropped particle is in nobody's list.
CandidatesMirror ==
    pc = "pick" =>
        \A p, n \in Particle : Frame[p] + 2 = frame /\ Frame[n] + 1 = frame =>
            /\ n \in nPos[p] <=> p \in pPos[n]
            /\ n \in nPos[p] => p \in pList /\ n \in nList

\* A subnetwork handed to the search is closed: no candidate pair crosses its
\* boundary, so solving it alone gives nothing away; and the candidate lists it
\* is picked from say the same from both ends (set_up_sub_ntwrk, clean_lists).
SubnetClosed ==
    /\ CandidatesMirror
    /\ pc = "grow" /\ tmpP = {} /\ tmpN = {} =>
         \A p, n \in Particle : n \in nPos[p] /\ Frame[p] + 2 = frame =>
             (p \in pSub <=> n \in nSub)

\* No candidate list outlives its pair of frames: everything allocated by
\* fill_pos_link_next has been freed, by one of four functions.
NoCandidateLeft ==
    /\ pc = "next" =>
         \A p \in Particle :
             /\ Frame[p] + 1 < frame => nPos[p] = {}
             /\ Frame[p] < frame => pPos[p] = {}
    /\ pc = "linked" => \A p \in Particle : nPos[p] = {} /\ pPos[p] = {}

\* What goes to the output files satisfies the checks hash_case::init makes
\* when it reads them back: a particle has a track id exactly when it has a
\* neighbour in time, and the ids are 0, 1, ... in list order
\* (the "pigeon hole property" of Track_shelf::output_to_wrapper).
OutputReadable ==
    pc = "numbered" =>
        /\ \A p \in Particle :
              track[p] # NULL <=> next[p] # NULL \/ prev[p] # NULL
        /\ {id[t] : t \in shelf} = 0 .. trackCount - 1
        /\ \A t, u \in shelf : t < u => id[t] < id[u]

\* The program ends, numbered or with the exception.
LinkEnds == <>Ended

\* hash_case::link implements OptimalTracking: a pair of frames counts as
\* joined when link_next has returned.
Joined == IF pc \in {"begin", "first"} THEN 1
          ELSE IF pc \in {"next", "linked", "trimmed", "numbered"} THEN frame
          ELSE frame - 1

Abstract == INSTANCE OptimalTracking WITH
    joined <- Joined,
    bond <- [p \in Particle |-> IF Frame[p] + 1 < Joined THEN next[p] ELSE NULL]

ImplementsOptimalTracking == Abstract!Spec

=============================================================================
