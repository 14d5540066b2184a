------------------------------ MODULE Resources ------------------------------
(***************************************************************************)
(* The resource manager (ResourceManager.h, ResourceManager.cpp): a cache  *)
(* that the main thread and the threads it launches fill. A constructor    *)
(* loads the resources it needs, so every thread has a stack of calls of   *)
(* Load; a constructor that has to wait throws StillLoadingException and   *)
(* is run again from its beginning.                                        *)
(*                                                                         *)
(* A step of a thread is what it does between two accesses to the shared   *)
(* maps. m_LoadingThreads is read and the cache is released from without   *)
(* the mutex: such an access is one step here, and what a torn one does is *)
(* not modelled. A constructor that fails has released nothing: Texture's, *)
(* which may find an error of OpenGL after it has released its picture, is *)
(* taken to find it before. Names, ids, parents and Reload, which nothing  *)
(* calls, are left out; every type is registered (Game.cpp:52-63).         *)
(***************************************************************************)
EXTENDS Integers, Sequences, FiniteSets

CONSTANTS
  Resource,   (* pairs of a type and a name                                *)
  Unsafe,     (* those that derive from ThreadUnsafeResource               *)
  Needs,      (* what a constructor loads, in order: [on, async, try]      *)
  Frees,      (* what it releases when it is done                          *)
  Wanted,     (* what the main thread loads asynchronously in each frame   *)
  InsteadOf,  (* what it loads at once for one that is still loading, or   *)
              (* has failed: at most one resource                          *)
  Preloaded,  (* in the cache before the first frame                       *)
  Faults,     (* the sets of resources that may turn out to be broken      *)
  Workers     (* bound on the threads that run at a time, and their names  *)

Main == 0
Thread == {Main} \cup Workers
NoThread == 0
Absent == -1      (* no entry in the cache                                 *)
Failed == 0       (* the null pointer                                      *)

(* What somebody loads asynchronously and a thread is launched for, if it  *)
(* is not loaded on the main thread after all.                             *)
NeededAsync(q) == {Needs[q][k].on : k \in {j \in DOMAIN Needs[q] : Needs[q][j].async}}

LoadedInThreads == (Wanted \cup UNION {NeededAsync(q) : q \in Resource}) \ Unsafe

(* Whatever loading r can load, r itself included.                         *)
HoldsItsNeeds(S) == \A q \in S : \A k \in DOMAIN Needs[q] : Needs[q][k].on \in S

Below(r) ==
  {x \in Resource : \A S \in SUBSET Resource : r \in S /\ HoldsItsNeeds(S) => x \in S}

(* What a thread is launched for are the files: meshes and images load and *)
(* release nothing (RawModelCustom.cpp, PNG.cpp, DDS.cpp). No constructor  *)
(* loads itself again, or loads something before it loads what releases it *)
(* (Model.cpp, Texture.cpp and EntityFile.cpp release files of their own). *)
ASSUME ResourcesAssumption ==
  /\ Workers \subseteq Nat \ {0}
  /\ Wanted \subseteq Resource /\ Preloaded \subseteq Resource
  /\ Faults \subseteq SUBSET Resource
  /\ \A q \in Resource :
       /\ Needs[q] \in Seq([on : Resource, async : BOOLEAN, try : BOOLEAN])
       /\ Frees[q] \subseteq Resource
  /\ \A q \in Wanted : InsteadOf[q].still \subseteq Resource /\ InsteadOf[q].failed \subseteq Resource
  /\ \A q \in LoadedInThreads : Needs[q] = <<>> /\ Frees[q] = {}
  /\ \A q \in Resource : \A j \in DOMAIN Needs[q] : \A r \in Below(Needs[q][j].on) :
       r # q /\ \A k \in 1 .. j - 1 : Needs[q][k].on \notin Frees[r]

VARIABLES
  UseThreading, (* from the configuration file                             *)
  broken,
  cache,        (* m_ResourceCache: Absent, Failed or the object           *)
  made,         (* objects made of each resource: the last is the newest   *)
  thread,       (* m_LoadingThreads                                        *)
  stack,        (* the calls of Load a thread is in                        *)
  result,       (* of the call that has just ended                         *)
  frame         (* what the main thread asked for, and what is left to do  *)

config == <<UseThreading, broken>>
resourceVars == <<config, cache, made, thread, stack, result, frame>>

Nothing == [is |-> "nothing", object |-> Failed]
StillLoading == [is |-> "still", object |-> Failed]
FailedLoading == [is |-> "failed", object |-> Failed]
Loaded(object) == [is |-> "ok", object |-> object]

(* at is where the call stands: "join", "look" or "make"; got holds what   *)
(* the constructor has loaded so far.                                      *)
Call(r, async) == [res |-> r, async |-> async, at |-> "join", got |-> <<>>]

ResourcesInit ==
  /\ UseThreading \in BOOLEAN
  /\ broken \in Faults
  /\ made = [r \in Resource |-> IF r \in Preloaded THEN 1 ELSE 0]
  /\ cache = [r \in Resource |-> IF r \in Preloaded THEN 1 ELSE Absent]
  /\ thread = [r \in Resource |-> NoThread]
  /\ stack = [t \in Thread |-> <<>>]
  /\ result = [t \in Thread |-> Nothing]
  /\ frame = [left |-> Wanted, asked |-> {}]

Top(t) == stack[t][1]

Active(t) == stack[t] # <<>> /\ result[t] = Nothing

(* A thread that was launched ends with its call; nobody reads the result. *)
Returns(t, value) ==
  /\ stack' = [stack EXCEPT ![t] = Tail(@)]
  /\ result' = [result EXCEPT ![t] = IF t # Main /\ Len(stack[t]) = 1 THEN Nothing ELSE value]

Continues(t, call) ==
  /\ stack' = [stack EXCEPT ![t] = <<call>> \o Tail(@)]
  /\ result' = [result EXCEPT ![t] = Nothing]

-----------------------------------------------------------------------------
(* Load. *)

Works(w) == stack[w] # <<>>

(* Mutant: a thread is taken for finished whether it is or not. *)
JoinWithoutWaiting(t) ==
  LET r == Top(t).res IN
  /\ Active(t) /\ Top(t).at = "join"
  /\ thread' = [thread EXCEPT ![r] = NoThread]
  /\ Continues(t, [Top(t) EXCEPT !.at = "look"])
  /\ UNCHANGED <<config, cache, made, frame>>

(* The thread that loads the resource, if there is one, has to be done. An *)
(* exception it threw was put into a copy of the pointer that is looked at *)
(* here, so none is ever thrown again.                                     *)
Join(t) ==
  LET r == Top(t).res
      found == UseThreading /\ thread[r] # NoThread
      wait == found /\ Works(thread[r]) IN
  /\ Active(t) /\ Top(t).at = "join"
  /\ \/ /\ wait /\ Top(t).async
        /\ Returns(t, StillLoading)
        /\ UNCHANGED thread
     \/ /\ ~wait
        /\ thread' = [thread EXCEPT ![r] = IF found THEN NoThread ELSE @]
        /\ Continues(t, [Top(t) EXCEPT !.at = "look"])
  /\ UNCHANGED <<config, cache, made, frame>>

Cached(t) ==
  LET object == cache[Top(t).res] IN
  /\ Active(t) /\ Top(t).at = "look"
  /\ object # Absent
  /\ Returns(t, IF object = Failed THEN FailedLoading ELSE Loaded(object))
  /\ UNCHANGED <<config, cache, made, thread, frame>>

Free == {w \in Workers : stack[w] = <<>> /\ \A r \in Resource : thread[r] # w}

(* A worker runs createResource for the caller: as a call that has looked  *)
(* into the cache.                                                         *)
Launch(t) ==
  LET r == Top(t).res IN
  /\ Active(t) /\ Top(t).at = "look" /\ cache[r] = Absent
  /\ UseThreading /\ Top(t).async /\ r \notin Unsafe
  /\ \E w \in Free :
       /\ \A v \in Free : w <= v
       /\ thread' = [thread EXCEPT ![r] = w]
       /\ stack' = [stack EXCEPT ![t] = Tail(@), ![w] = <<[Call(r, TRUE) EXCEPT !.at = "make"]>>]
  /\ result' = [result EXCEPT ![t] = StillLoading]
  /\ UNCHANGED <<config, cache, made, frame>>

Make(t) ==
  LET r == Top(t).res IN
  /\ Active(t) /\ Top(t).at = "look" /\ cache[r] = Absent
  /\ ~(UseThreading /\ Top(t).async) \/ r \in Unsafe
  /\ Continues(t, [Top(t) EXCEPT !.at = "make"])
  /\ UNCHANGED <<config, cache, made, thread, frame>>

-----------------------------------------------------------------------------
(* The constructors, run by createResource. *)

Need(t) == Needs[Top(t).res][Len(Top(t).got) + 1]

HasAllItNeeds(t) == Len(Top(t).got) = Len(Needs[Top(t).res])

LoadNeeded(t) ==
  /\ Active(t) /\ Top(t).at = "make" /\ ~HasAllItNeeds(t)
  /\ stack' = [stack EXCEPT ![t] = <<Call(Need(t).on, Need(t).async)>> \o @]
  /\ UNCHANGED <<config, cache, made, thread, result, frame>>

(* Mutant: what has failed is not remembered. *)
FailsUncached(t) == Returns(t, FailedLoading) /\ UNCHANGED <<cache, made>>

Fails(t) ==
  /\ cache' = [cache EXCEPT ![Top(t).res] = Failed]
  /\ Returns(t, FailedLoading)
  /\ UNCHANGED made

Released(t) == [r \in Resource |-> IF r \in Frees[Top(t).res] THEN Absent ELSE cache[r]]

Construct(t) ==
  LET r == Top(t).res IN
  /\ Active(t) /\ Top(t).at = "make" /\ HasAllItNeeds(t)
  /\ IF r \in broken
     THEN Fails(t)
     ELSE /\ made' = [made EXCEPT ![r] = @ + 1]
          /\ cache' = [Released(t) EXCEPT ![r] = made'[r]]
          /\ Returns(t, Loaded(made'[r]))
  /\ UNCHANGED <<config, thread, frame>>

(* A call has ended and its caller goes on: it has what it needed, is      *)
(* broken off, or begins again.                                            *)
Resume(t) ==
  LET value == result[t]
      gets == value.is = "ok" \/ (value.is = "failed" /\ Need(t).try)
  IN
  /\ value # Nothing /\ stack[t] # <<>>
  /\ \/ /\ gets
        /\ Continues(t, [Top(t) EXCEPT !.got = Append(@, value.object)])
        /\ UNCHANGED <<cache, made>>
     \/ ~gets /\ value.is = "failed" /\ Fails(t)
     \/ /\ value.is = "still"
        /\ IF UseThreading /\ Top(t).async
           THEN Returns(t, StillLoading)
           ELSE Continues(t, [Top(t) EXCEPT !.got = <<>>])
        /\ UNCHANGED <<cache, made>>
  /\ UNCHANGED <<config, thread, frame>>

-----------------------------------------------------------------------------
(* The main thread loads what the frame shows, in any order, and for what  *)
(* is not there something else in its place (RenderSystem, SpriteJob).     *)

Ask(r, async) == stack' = [stack EXCEPT ![Main] = <<Call(r, async)>>]

Idle == stack[Main] = <<>> /\ result[Main] = Nothing

Want ==
  /\ Idle
  /\ \E r \in frame.left :
       /\ Ask(r, TRUE)
       /\ frame' = [left |-> IF frame.left = {r} THEN Wanted ELSE frame.left \ {r},
                    asked |-> {r}]
  /\ UNCHANGED <<config, cache, made, thread, result>>

Instead ==
  CASE result[Main].is = "ok" -> {}
    [] result[Main].is = "still" -> UNION {InsteadOf[r].still : r \in frame.asked}
    [] result[Main].is = "failed" -> UNION {InsteadOf[r].failed : r \in frame.asked}

Answered ==
  /\ stack[Main] = <<>> /\ result[Main] # Nothing
  /\ IF Instead = {} THEN UNCHANGED stack ELSE \E r \in Instead : Ask(r, FALSE)
  /\ result' = [result EXCEPT ![Main] = Nothing]
  /\ frame' = [frame EXCEPT !.asked = {}]
  /\ UNCHANGED <<config, cache, made, thread>>

Step(t) ==
  \/ Join(t) \/ Cached(t) \/ Launch(t) \/ Make(t)
  \/ LoadNeeded(t) \/ Construct(t) \/ Resume(t)

MainStep == Step(Main) \/ Want \/ Answered

ResourcesNext == MainStep \/ \E w \in Workers : Step(w)

ResourcesSpec == ResourcesInit /\ [][ResourcesNext]_resourceVars

(* Every thread that can go on is scheduled some time.                     *)
Fairness == WF_resourceVars(MainStep) /\ \A w \in Workers : WF_resourceVars(Step(w))

FairResourcesSpec == ResourcesSpec /\ Fairness

-----------------------------------------------------------------------------
(* Properties. *)

(* What a constructor has loaded it reads until it is done, with threads   *)
(* filling the cache and other constructors releasing what they shared:    *)
(* the objects it holds must not be deleted before (Release deletes, and   *)
(* Model and Texture release what they were made from).                    *)
HeldIsAlive ==
  \A t \in Thread : \A i \in DOMAIN stack[t] :
    LET call == stack[t][i] IN
    \A k \in DOMAIN call.got :
      call.got[k] # Failed => cache[Needs[call.res][k].on] = call.got[k]

(* No object in the cache is replaced by another: the earlier one would    *)
(* never be deleted, and those who hold it would not share the new one.    *)
NothingIsMadeTwice ==
  [][\A r \in Resource : cache[r] > Failed => cache'[r] \in {cache[r], Absent}]_resourceVars

(* Whatever a frame shows is there some time, or known to be broken, with  *)
(* constructors that start over and threads that end at any time.          *)
EveryLoadSettles == <>[](\A r \in Wanted : cache[r] # Absent)

=============================================================================
