------------------------ MODULE RendererStartProofs ------------------------
(***************************************************************************)
(* Proofs about RendererStart, for any overlays, preferences and threads:  *)
(* no two threads are inside a queue function of the driver at once; what  *)
(* a failed start leaves behind, in which order the native objects of an   *)
(* overlay end and what an engine that runs may rely on; and a frame is    *)
(* handed over through a shared texture only if one delivered.             *)
(*                                                                         *)
(* The constructors are proved correct one by one, as programs: Runs is a  *)
(* Hoare triple about a sequence of fallible calls, and the lemmas about   *)
(* it put a constructor's sequence together from those of its parts.  The  *)
(* invariant then only has to say that the sequence left to do runs from   *)
(* the objects that exist to the ones the constructor is to make; and,     *)
(* while a failed one unwinds, that the releases left come in an order     *)
(* that destroys no device before what was made from it.                   *)
(***************************************************************************)
EXTENDS RendererStart, SequenceTheorems, TLAPS

-----------------------------------------------------------------------------
(* The lock of the queues.  Who holds it is in a queue function and nobody *)
(* else is; the starting thread holds it while it submits or waits for an  *)
(* idle device, and then still has the call or the release it was at.      *)
LockInv ==
    /\ inQueue = IF lock = Free THEN {} ELSE {lock}
    /\ starter # "calls" => starting # NoOverlay
    /\ starter \in {"queues", "drains"} => lock = Starter
    /\ starter = "queues" => todo # <<>>
    /\ starter = "drains" => unwinding # <<>>

LEMMA UsersAreNotFree ==
    /\ \A o \in Overlays : \A t : <<o, t>> # Free
    /\ Starter # Free
  BY NoOverlayAssumption DEF Free, Starter

(* Every entry point an engine uses its queue through has a wrapper.       *)
LEMMA EveryCallWrapped == \A name \in QueueCalls : wrapper_for(name)
  BY QueueCallsAssumption DEF wrapper_for

LEMMA LockInit == Init => LockInv
  BY DEF Init, LockInv

LEMMA LockStarter == LockInv /\ StarterStep => LockInv'
<1> SUFFICES ASSUME LockInv, StarterStep PROVE LockInv'
  OBVIOUS
<1>1. CASE CallSucceeds
  BY <1>1 DEF CallSucceeds, Calling, LockInv, Succeed, queueVars, Free, Starter
<1>2. CASE CallFails
  BY <1>2 DEF CallFails, Fail, Calling, LockInv, queueVars, Free, Starter
<1>3. CASE CallQueues
  BY <1>3, UsersAreNotFree DEF CallQueues, EnterQueue, Calling, LockInv, lock_queue, Free, Starter
<1>4. CASE QueueCallEnds
  <2>1. lock = Starter /\ lock' = Free /\ inQueue' = {} /\ starting # NoOverlay
    BY <1>4, UsersAreNotFree DEF QueueCallEnds, LockInv, unlock_queue
  <2>2. starting' = starting /\ starter' \in {"calls", "unwinds"}
    BY <1>4 DEF QueueCallEnds, Succeed, Fail
  <2> QED
    BY <2>1, <2>2 DEF LockInv, Free
<1>5. CASE Release
  BY <1>5 DEF Release, Unwinding, LockInv, queueVars, Free, Starter
<1>6. CASE wait_idle
  BY <1>6, UsersAreNotFree DEF wait_idle, Unwinding, EnterQueue, LockInv, lock_queue, Free, Starter
<1>7. CASE DeviceIdle
  BY <1>7, UsersAreNotFree DEF DeviceIdle, LockInv, unlock_queue, Free, Starter
<1>8. CASE Unwound
  BY <1>8 DEF Unwound, LockInv, queueVars, Free, Starter
<1>9. CASE NextFunction
  <2>1. starter = "calls"
    BY <1>9 DEF NextFunction, try_init_vulkan, try_init_opengl, build_software_renderer,
       PickHandoff, TextureFails, TextureDelivers, VulkanReady, OpenGLReady, Returned
  <2> QED
    BY <1>9, <2>1 DEF NextFunction, LockInv, queueVars, Free, Starter
<1>10. CASE Created
  BY <1>10 DEF Created, Returned, LockInv, queueVars, Free, Starter
<1> QED
  BY <1>1, <1>2, <1>3, <1>4, <1>5, <1>6, <1>7, <1>8, <1>9, <1>10 DEF StarterStep

LEMMA LockEngine ==
    ASSUME LockInv, NEW o \in Overlays, NEW t \in EngineThreads,
           EngineCalls(o, t) \/ CallReturns(o, t)
    PROVE  LockInv'
<1>1. CASE EngineCalls(o, t)
  <2>1. lock_queue(<<o, t>>)
    BY <1>1, EveryCallWrapped DEF EngineCalls, guarded_call
  <2> QED
    BY <1>1, <2>1, UsersAreNotFree DEF EngineCalls, startVars, lock_queue, LockInv, Free, Starter
<1>2. CASE CallReturns(o, t)
  <2>1. lock = <<o, t>> /\ lock' = Free /\ inQueue' = {}
    BY <1>2, UsersAreNotFree DEF CallReturns, LockInv
  <2>2. starter \notin {"queues", "drains"}
    BY <2>1, ThreadsAssumption DEF LockInv, Starter
  <2> QED
    BY <1>2, <2>1, <2>2 DEF CallReturns, startVars, LockInv, Free
<1> QED
  BY <1>1, <1>2

LEMMA LockStep == LockInv /\ [Next]_vars => LockInv'
<1> SUFFICES ASSUME LockInv, [Next]_vars PROVE LockInv'
  OBVIOUS
<1>1. ASSUME NEW o \in Overlays, create(o) PROVE LockInv'
  BY <1>1 DEF create, LockInv, queueVars, Free, Starter
<1>2. CASE UNCHANGED vars
  BY <1>2 DEF vars, startVars, queueVars, LockInv, Free, Starter
<1> QED
  BY <1>1, <1>2, LockStarter, LockEngine DEF Next

(* No two threads are inside a queue function of the driver at once:       *)
(* every engine's calls, the submission of the test pattern and the wait   *)
(* of a start that failed exclude each other, for any number of overlays   *)
(* and threads and whichever of the entry points the engines use.          *)
THEOREM QueueIsExclusive == Spec => []QueueExclusive
<1>1. LockInv => QueueExclusive
  BY DEF LockInv, QueueExclusive
<1> QED
  BY <1>1, LockInit, LockStep, PTL DEF Spec

-----------------------------------------------------------------------------
(* The releases of an unwinding, in their order: none that destroys a      *)
(* device, nor a later one, releases what was made from it, and none       *)
(* after the instance's the device.                                        *)
Entry == <<"context", "entry">>
Instance == <<"context", "instance">>
Device == <<"context", "device">>
Display == <<"angle", "display">>

InOrder(u) ==
    \A i \in 1..Len(u) : \A j \in i..Len(u) :
        /\ Device \in u[i] => u[j] \cap DeviceObjects = {}
        /\ Instance \in u[i] => Device \notin u[j]
Unwindings == {u \in Seq(SUBSET Objects) : InOrder(u)}

(* What may be released at any time, and an unwinding that begins with     *)
(* releases of T and goes on with those of undo.                           *)
Loose == SUBSET (Objects \ {Device, Instance})
Also(v, undo, T) == v \in Unwindings /\ Freed(v) = Freed(undo) \cup T

LEMMA FreedOfNone == <<>> \in Unwindings /\ Freed(<<>>) = {}
<1>1. <<>> \in Seq(SUBSET Objects) /\ 1..Len(<<>>) = {}
  OBVIOUS
<1> QED
  BY <1>1 DEF Unwindings, InOrder, Freed

LEMMA FreedOfConcat ==
    ASSUME NEW S, NEW s \in Seq(S), NEW t \in Seq(S)
    PROVE  Freed(s \o t) = Freed(s) \cup Freed(t)
<1>1. /\ Len(s) \in Nat /\ Len(t) \in Nat /\ Len(s \o t) = Len(s) + Len(t)
      /\ \A i \in 1..Len(s) + Len(t) :
            (s \o t)[i] = IF i <= Len(s) THEN s[i] ELSE t[i - Len(s)]
  BY ConcatProperties
<1>2. ASSUME NEW x \in Freed(s \o t) PROVE x \in Freed(s) \cup Freed(t)
  <2>1. PICK i \in 1..Len(s \o t) : x \in (s \o t)[i]
    BY DEF Freed
  <2>2. CASE i <= Len(s)
    <3>1. i \in 1..Len(s) /\ x \in s[i]
      BY <1>1, <2>1, <2>2
    <3> QED
      BY <3>1 DEF Freed
  <2>3. CASE ~(i <= Len(s))
    <3>1. i - Len(s) \in 1..Len(t) /\ x \in t[i - Len(s)]
      BY <1>1, <2>1, <2>3
    <3> QED
      BY <3>1 DEF Freed
  <2> QED
    BY <2>2, <2>3
<1>3. ASSUME NEW x \in Freed(s) PROVE x \in Freed(s \o t)
  <2>1. PICK i \in 1..Len(s) : x \in s[i]
    BY DEF Freed
  <2>2. i \in 1..Len(s \o t) /\ x \in (s \o t)[i]
    BY <1>1, <2>1
  <2> QED
    BY <2>2 DEF Freed
<1>4. ASSUME NEW x \in Freed(t) PROVE x \in Freed(s \o t)
  <2>1. PICK i \in 1..Len(t) : x \in t[i]
    BY DEF Freed
  <2>2. i + Len(s) \in 1..Len(s) + Len(t) /\ ~(i + Len(s) <= Len(s)) /\ (i + Len(s)) - Len(s) = i
    BY <1>1, <2>1
  <2>3. i + Len(s) \in 1..Len(s \o t) /\ x \in (s \o t)[i + Len(s)]
    BY <1>1, <2>1, <2>2
  <2> QED
    BY <2>3 DEF Freed
<1> QED
  BY <1>2, <1>3, <1>4

LEMMA FreedOfOne ==
    ASSUME NEW X PROVE Freed(<<X>>) = X
<1>1. 1..Len(<<X>>) = {1} /\ <<X>>[1] = X
  OBVIOUS
<1> QED
  BY <1>1 DEF Freed

LEMMA LooseBefore ==
    ASSUME NEW s \in Seq(Loose), NEW u \in Unwindings
    PROVE  Also(s \o u, u, Freed(s))
<1>0. Loose \subseteq SUBSET Objects
  BY DEF Loose
<1>1. s \in Seq(SUBSET Objects) /\ u \in Seq(SUBSET Objects)
  BY <1>0 DEF Unwindings
<1>2. /\ Len(s) \in Nat /\ Len(u) \in Nat /\ Len(s \o u) = Len(s) + Len(u)
      /\ s \o u \in Seq(SUBSET Objects)
      /\ \A i \in 1..Len(s) + Len(u) :
            (s \o u)[i] = IF i <= Len(s) THEN s[i] ELSE u[i - Len(s)]
  BY <1>1, ConcatProperties
<1>3. ASSUME NEW i \in 1..Len(s \o u), NEW j \in i..Len(s \o u)
      PROVE  /\ Device \in (s \o u)[i] => (s \o u)[j] \cap DeviceObjects = {}
             /\ Instance \in (s \o u)[i] => Device \notin (s \o u)[j]
  <2>1. CASE i <= Len(s)
    <3>1. (s \o u)[i] = s[i] /\ s[i] \in Loose
      BY <1>2, <2>1
    <3> QED
      BY <3>1 DEF Loose
  <2>2. CASE ~(i <= Len(s))
    <3>1. i - Len(s) \in 1..Len(u) /\ j - Len(s) \in (i - Len(s))..Len(u)
      BY <1>2, <2>2
    <3>2. (s \o u)[i] = u[i - Len(s)] /\ (s \o u)[j] = u[j - Len(s)]
      BY <1>2, <2>2
    <3>3. InOrder(u)
      BY DEF Unwindings
    <3> QED
      BY <3>1, <3>2, <3>3 DEF InOrder
  <2> QED
    BY <2>1, <2>2
<1>4. s \o u \in Unwindings
  BY <1>2, <1>3 DEF Unwindings, InOrder
<1>5. Freed(s \o u) = Freed(s) \cup Freed(u)
  BY <1>1, FreedOfConcat
<1> QED
  BY <1>4, <1>5 DEF Also

LEMMA UndoOne ==
    ASSUME NEW X \in Loose, NEW u \in Unwindings
    PROVE  Also(<<X>> \o u, u, X)
<1>1. <<X>> \in Seq(Loose)
  OBVIOUS
<1> QED
  BY <1>1, LooseBefore, FreedOfOne

LEMMA UndoTwo ==
    ASSUME NEW X \in Loose, NEW Y \in Loose, NEW u \in Unwindings
    PROVE  Also(<<X, Y>> \o u, u, X \cup Y)
<1>1. <<X, Y>> \in Seq(Loose) /\ 1..Len(<<X, Y>>) = {1, 2} /\ <<X, Y>>[1] = X /\ <<X, Y>>[2] = Y
  OBVIOUS
<1>2. Freed(<<X, Y>>) = X \cup Y
  BY <1>1 DEF Freed
<1> QED
  BY <1>1, <1>2, LooseBefore

-----------------------------------------------------------------------------
(* The calls of the constructors.  Runs(P, s, Q, A, F): worked off from    *)
(* objects P, the calls of s end with objects Q if all succeed; the        *)
(* objects are among A before and after each; and whichever call fails,    *)
(* what is left then is among F.                                           *)
(* The calls the constructors make, and the steps they are made of.        *)
Calls ==
    {"LoadLibrary", "symbols", "non-zero size", "GetDesc",
     "Entry::load", "instance version", "vkCreateInstance", "adapter LUID",
     "vkEnumeratePhysicalDevices", "device extensions", "queue family", "vkCreateDevice",
     "real functions", "CreateTexture2D", "IDXGIKeyedMutex", "CreateSharedHandle",
     "vkCreateImage", "memory type", "vkAllocateMemory", "vkBindImageMemory",
     "vkCreateBuffer", "vkMapMemory", "vkCreateCommandPool", "vkAllocateCommandBuffers",
     "vkCreateFence", "record", "vkDeviceWaitIdle", "vkQueueSubmit", "vkWaitForFences",
     "immediate context", "staging texture", "AcquireSync", "Map", "compare", "libEGL and libGLESv2",
     "eglGetPlatformDisplayEXT", "eglInitialize", "eglQueryDeviceAttribEXT",
     "eglChooseConfig", "GetSharedHandle", "eglCreatePbufferFromClientBuffer",
     "OpenSharedResource", "start_task_runner", "FlutterEngineCreateAOTData",
     "FlutterEngineInitialize", "FlutterEngineRunInitialized"}
Steps == [call : Calls, gives : SUBSET Objects, ends : SUBSET Objects, undo : Unwindings]

(* What of the held objects a failing step leaves: the objects of a check  *)
(* that leaks are given up.                                                *)
Left(step, held) == IF Leaks(step.call) THEN (held \ Freed(step.undo)) \ CheckObjects
                                        ELSE held \ Freed(step.undo)

(* A step from some objects to others: both allowed, and what its failure  *)
(* leaves among F.                                                         *)
Ok(held, step, after, A, F) ==
    /\ step \in Steps
    /\ held \in A /\ after \in A
    /\ after = (held \cup step.gives) \ step.ends
    /\ Left(step, held) \in F

Runs(P, s, Q, A, F) ==
    /\ s \in Seq(Steps)
    /\ \E h \in [0..Len(s) -> A] :
          /\ h[0] = P /\ h[Len(s)] = Q
          /\ \A i \in 1..Len(s) : Ok(h[i-1], s[i], h[i], A, F)

(* The rules of the triple: the empty sequence, the last objects, the      *)
(* first step taken, composition, and sequences of given steps.            *)
LEMMA RunsNothing ==
    ASSUME NEW A, NEW F, NEW P \in A
    PROVE  Runs(P, <<>>, P, A, F)
<1>1. <<>> \in Seq(Steps) /\ Len(<<>>) = 0
  OBVIOUS
<1> DEFINE h == [i \in 0..0 |-> P]
<1>2. h \in [0..Len(<<>>) -> A] /\ h[0] = P /\ h[Len(<<>>)] = P
  BY <1>1
<1>3. 1..Len(<<>>) = {}
  BY <1>1
<1> HIDE DEF h
<1> QED
  BY <1>1, <1>2, <1>3 DEF Runs

LEMMA RunsOut ==
    ASSUME NEW A, NEW F, NEW P, NEW Q, Runs(P, <<>>, Q, A, F)
    PROVE  P = Q /\ P \in A
  BY DEF Runs

LEMMA RunsOn ==
    ASSUME NEW A, NEW F, NEW P, NEW Q, NEW s, Runs(P, s, Q, A, F), s # <<>>
    PROVE  /\ Ok(P, Head(s), (P \cup Head(s).gives) \ Head(s).ends, A, F)
           /\ Runs((P \cup Head(s).gives) \ Head(s).ends, Tail(s), Q, A, F)
<1>1. PICK h \in [0..Len(s) -> A] :
          /\ h[0] = P /\ h[Len(s)] = Q
          /\ \A i \in 1..Len(s) : Ok(h[i-1], s[i], h[i], A, F)
  BY DEF Runs
<1>2. s \in Seq(Steps)
  BY DEF Runs
<1>3. /\ Len(s) \in Nat \ {0} /\ Head(s) = s[1]
      /\ Tail(s) \in Seq(Steps) /\ Len(Tail(s)) = Len(s) - 1
      /\ \A i \in 1..Len(Tail(s)) : Tail(s)[i] = s[i+1]
  BY <1>2
<1>4. Ok(h[0], s[1], h[1], A, F)
  BY <1>1, <1>3
<1>5. h[1] = (P \cup Head(s).gives) \ Head(s).ends
  BY <1>1, <1>3, <1>4 DEF Ok
<1> DEFINE g == [i \in 0..Len(Tail(s)) |-> h[i+1]]
<1>6. g \in [0..Len(Tail(s)) -> A] /\ g[0] = h[1] /\ g[Len(Tail(s))] = Q
  BY <1>1, <1>3
<1>7. ASSUME NEW i \in 1..Len(Tail(s)) PROVE Ok(g[i-1], Tail(s)[i], g[i], A, F)
  <2>1. Ok(h[(i+1)-1], s[i+1], h[i+1], A, F)
    BY <1>1, <1>3
  <2>2. g[i-1] = h[(i+1)-1] /\ g[i] = h[i+1] /\ Tail(s)[i] = s[i+1]
    BY <1>3
  <2> QED
    BY <2>1, <2>2
<1> HIDE DEF g
<1> QED
  BY <1>1, <1>3, <1>4, <1>5, <1>6, <1>7 DEF Runs

LEMMA RunsThrough ==
    ASSUME NEW A, NEW F, NEW P, NEW Q, NEW R, NEW s, NEW t,
           Runs(P, s, Q, A, F), Runs(Q, t, R, A, F)
    PROVE  Runs(P, s \o t, R, A, F)
<1>1. PICK h \in [0..Len(s) -> A] :
          /\ h[0] = P /\ h[Len(s)] = Q
          /\ \A i \in 1..Len(s) : Ok(h[i-1], s[i], h[i], A, F)
  BY DEF Runs
<1>2. PICK k \in [0..Len(t) -> A] :
          /\ k[0] = Q /\ k[Len(t)] = R
          /\ \A i \in 1..Len(t) : Ok(k[i-1], t[i], k[i], A, F)
  BY DEF Runs
<1>3. s \in Seq(Steps) /\ t \in Seq(Steps) /\ Len(s) \in Nat /\ Len(t) \in Nat
  BY DEF Runs
<1>4. /\ s \o t \in Seq(Steps) /\ Len(s \o t) = Len(s) + Len(t)
      /\ \A i \in 1..Len(s) + Len(t) :
            (s \o t)[i] = IF i <= Len(s) THEN s[i] ELSE t[i - Len(s)]
  BY <1>3, ConcatProperties
<1> DEFINE g == [i \in 0..Len(s \o t) |-> IF i <= Len(s) THEN h[i] ELSE k[i - Len(s)]]
<1>5. g \in [0..Len(s \o t) -> A]
  <2> SUFFICES ASSUME NEW i \in 0..Len(s \o t)
               PROVE  (IF i <= Len(s) THEN h[i] ELSE k[i - Len(s)]) \in A
    OBVIOUS
  <2>0. i \in Int /\ i <= Len(s) + Len(t) /\ 0 <= i
    BY <1>3, <1>4
  <2>1. CASE i <= Len(s)
    <3>1. i \in 0..Len(s)
      BY <1>3, <2>0, <2>1
    <3>2. h[i] \in A
      BY <3>1
    <3> QED
      BY <2>1, <3>2
  <2>2. CASE i > Len(s)
    <3>1. i - Len(s) \in 0..Len(t) /\ ~(i <= Len(s))
      BY <1>3, <2>0, <2>2
    <3>2. k[i - Len(s)] \in A
      BY <3>1
    <3> QED
      BY <3>1, <3>2
  <2> QED
    BY <1>3, <2>0, <2>1, <2>2
<1>6. g[0] = P /\ g[Len(s \o t)] = R
  <2>1. g[0] = P
    BY <1>1, <1>3, <1>4
  <2>2. CASE Len(t) = 0
    BY <1>1, <1>2, <1>3, <1>4, <2>2
  <2>3. CASE Len(t) # 0
    <3>1. Len(s \o t) - Len(s) = Len(t) /\ ~(Len(s \o t) <= Len(s))
      BY <1>3, <1>4, <2>3
    <3> QED
      BY <1>2, <1>3, <1>4, <2>1, <3>1
  <2> QED
    BY <2>1, <2>2, <2>3
<1>7. ASSUME NEW i \in 1..Len(s \o t) PROVE Ok(g[i-1], (s \o t)[i], g[i], A, F)
  <2>1. CASE i <= Len(s)
    <3>1. Ok(h[i-1], s[i], h[i], A, F)
      BY <1>1, <1>3, <1>4, <2>1
    <3>2. g[i-1] = h[i-1] /\ g[i] = h[i] /\ (s \o t)[i] = s[i]
      BY <1>3, <1>4, <2>1
    <3> QED
      BY <3>1, <3>2
  <2>2. CASE i > Len(s)
    <3> DEFINE j == i - Len(s)
    <3>1. Ok(k[j-1], t[j], k[j], A, F)
      BY <1>2, <1>3, <1>4, <2>2
    <3>2. g[i] = k[j] /\ (s \o t)[i] = t[j]
      BY <1>3, <1>4, <2>2
    <3>3. g[i-1] = k[j-1]
      <4>1. CASE j = 1
        BY <1>1, <1>2, <1>3, <1>4, <2>2, <4>1
      <4>2. CASE j # 1
        <5>1. i - 1 \in 0..Len(s \o t) /\ ~(i - 1 <= Len(s)) /\ (i - 1) - Len(s) = j - 1
          BY <1>3, <1>4, <2>2, <4>2
        <5> QED
          BY <5>1
      <4> QED
        BY <4>1, <4>2
    <3> QED
      BY <3>1, <3>2, <3>3
  <2> QED
    BY <1>3, <1>4, <2>1, <2>2
<1> HIDE DEF g
<1> QED
  BY <1>4, <1>5, <1>6, <1>7 DEF Runs

LEMMA RunsStep ==
    ASSUME NEW A, NEW F, NEW P, NEW Q, NEW a, Ok(P, a, Q, A, F)
    PROVE  Runs(P, <<a>>, Q, A, F)
<1>0. a \in Steps
  BY DEF Ok
<1>1. <<a>> \in Seq(Steps) /\ Len(<<a>>) = 1 /\ <<a>>[1] = a
  BY <1>0
<1> DEFINE h == [i \in 0..1 |-> IF i = 0 THEN P ELSE Q]
<1>2. h \in [0..Len(<<a>>) -> A] /\ h[0] = P /\ h[1] = Q
  BY <1>1 DEF Ok
<1>3. \A i \in 1..Len(<<a>>) : Ok(h[i-1], <<a>>[i], h[i], A, F)
  BY <1>1, <1>2
<1> HIDE DEF h
<1> QED
  BY <1>1, <1>2, <1>3 DEF Runs

LEMMA RunsFirst ==
    ASSUME NEW A, NEW F, NEW P, NEW Q, NEW R, NEW a, NEW s,
           Ok(P, a, Q, A, F), Runs(Q, s, R, A, F)
    PROVE  Runs(P, <<a>> \o s, R, A, F)
  BY RunsStep, RunsThrough

LEMMA PairIsConcat ==
    ASSUME NEW a \in Steps, NEW b \in Steps
    PROVE  <<a, b>> = <<a>> \o <<b>>
<1>1. <<a>> \in Seq(Steps) /\ <<b>> \in Seq(Steps) /\ <<a, b>> \in Seq(Steps)
      /\ Len(<<a>>) = 1 /\ Len(<<b>>) = 1 /\ Len(<<a, b>>) = 2
  OBVIOUS
<1>2. <<a>> \o <<b>> \in Seq(Steps) /\ Len(<<a>> \o <<b>>) = 2
      /\ (<<a>> \o <<b>>)[1] = a /\ (<<a>> \o <<b>>)[2] = b
  BY <1>1, ConcatProperties
<1>3. \A i \in 1..2 : <<a, b>>[i] = (<<a>> \o <<b>>)[i]
  BY <1>2
<1> QED
  BY <1>1, <1>2, <1>3, SeqEqual

LEMMA Runs2 ==
    ASSUME NEW A, NEW F, NEW P, NEW Q, NEW R, NEW a, NEW b,
           Ok(P, a, Q, A, F), Ok(Q, b, R, A, F)
    PROVE  Runs(P, <<a, b>>, R, A, F)
<1>0. a \in Steps /\ b \in Steps
  BY DEF Ok
<1>1. <<a, b>> = <<a>> \o <<b>>
  BY <1>0, PairIsConcat
<1> QED BY <1>1, RunsStep, RunsThrough

LEMMA Runs3 ==
    ASSUME NEW A, NEW F, NEW P, NEW Q, NEW R, NEW T, NEW a, NEW b, NEW c,
           Ok(P, a, Q, A, F), Ok(Q, b, R, A, F), Ok(R, c, T, A, F)
    PROVE  Runs(P, <<a, b, c>>, T, A, F)
<1>0. a \in Steps /\ b \in Steps /\ c \in Steps
  BY DEF Ok
<1>1. <<a, b, c>> = <<a>> \o <<b, c>>
  BY <1>0
<1>2. Runs(Q, <<b, c>>, T, A, F)
  BY Runs2
<1> QED BY <1>1, <1>2, RunsFirst

LEMMA Runs4 ==
    ASSUME NEW A, NEW F, NEW P0, NEW P1, NEW P2, NEW P3, NEW P4, NEW a, NEW b,
           NEW c, NEW d,
           Ok(P0, a, P1, A, F), Ok(P1, b, P2, A, F), Ok(P2, c, P3, A, F), Ok(P3, d, P4, A, F)
    PROVE  Runs(P0, <<a, b, c, d>>, P4, A, F)
<1>0. a \in Steps /\ b \in Steps /\ c \in Steps /\ d \in Steps
  BY DEF Ok
<1>1. <<a, b, c, d>> = <<a>> \o <<b, c, d>>
  BY <1>0
<1>2. Runs(P1, <<b, c, d>>, P4, A, F)
  BY Runs3
<1> QED BY <1>1, <1>2, RunsFirst

LEMMA Runs7 ==
    ASSUME NEW A, NEW F, NEW P0, NEW P1, NEW P2, NEW P3, NEW P4, NEW P5, NEW P6, NEW P7,
           NEW a, NEW b, NEW c, NEW d, NEW e, NEW f, NEW g,
           Ok(P0, a, P1, A, F), Ok(P1, b, P2, A, F), Ok(P2, c, P3, A, F), Ok(P3, d, P4, A, F),
           Ok(P4, e, P5, A, F), Ok(P5, f, P6, A, F), Ok(P6, g, P7, A, F)
    PROVE  Runs(P0, <<a, b, c, d, e, f, g>>, P7, A, F)
<1>0. /\ a \in Steps /\ b \in Steps /\ c \in Steps /\ d \in Steps
      /\ e \in Steps /\ f \in Steps /\ g \in Steps
  BY DEF Ok
<1>1. <<a, b, c, d, e, f, g>> = <<a, b, c>> \o <<d, e, f, g>>
  BY <1>0
<1>2. Runs(P0, <<a, b, c>>, P3, A, F)
  BY Runs3
<1>3. Runs(P3, <<d, e, f, g>>, P7, A, F)
  BY Runs4
<1> QED BY <1>1, <1>2, <1>3, RunsThrough

(* A constructor that is to add R to P, whose callers release undo on an   *)
(* error: whatever of R is there is allowed, and without R what undo       *)
(* leaves is among F.                                                      *)
Fresh(P, R, undo, A, F) ==
    /\ P \in SUBSET Objects /\ R \in SUBSET Objects /\ undo \in Unwindings
    /\ P \cap R = {}
    /\ \A S \in SUBSET R : P \cup S \in A
    /\ P \ Freed(undo) \in F

Plain(call) == call \in Calls /\ ~Leaks(call)

(* A call that makes g and ends e, when S of R is there, is in order if    *)
(* its error path v releases at least S before it goes on with undo; and   *)
(* the same for a call that only makes one object, for one that only       *)
(* tests, and for the first call of a constructor.                         *)
LEMMA CallOk ==
    ASSUME NEW A, NEW F, NEW P, NEW R, NEW undo, Fresh(P, R, undo, A, F),
           NEW S \in SUBSET R, NEW T \in SUBSET R, NEW v, Also(v, undo, T),
           S \subseteq Freed(undo) \cup T,
           NEW g \in SUBSET R, NEW e \in SUBSET R, NEW call, Plain(call)
    PROVE  Ok(P \cup S, Step(call, g, e, v), P \cup ((S \cup g) \ e), A, F)
<1> DEFINE step == Step(call, g, e, v)
<1>1. step \in Steps /\ step.call = call /\ step.gives = g /\ step.ends = e
            /\ step.undo = v
  BY DEF Steps, Step, Fresh, Plain, Also
<1>2. P \cup S \in A
  BY DEF Fresh
<1>3. P \cup ((S \cup g) \ e) \in A
  <2>1. (S \cup g) \ e \in SUBSET R
    OBVIOUS
  <2> QED
    BY <2>1 DEF Fresh
<1>4. P \cup ((S \cup g) \ e) = ((P \cup S) \cup g) \ e
  BY DEF Fresh
<1>5. (P \cup S) \ Freed(v) = P \ Freed(undo)
  BY DEF Fresh, Also
<1>6. Left(step, P \cup S) \in F
  BY <1>1, <1>5 DEF Left, Fresh, Plain
<1> HIDE DEF step
<1>7. Ok(P \cup S, step, P \cup ((S \cup g) \ e), A, F)
  BY <1>1, <1>2, <1>3, <1>4, <1>6 DEF Ok
<1> QED
  BY <1>7 DEF step

LEMMA MakeOk ==
    ASSUME NEW A, NEW F, NEW P, NEW R, NEW undo, Fresh(P, R, undo, A, F),
           NEW S \in SUBSET R, NEW T \in SUBSET R, NEW v, Also(v, undo, T),
           S \subseteq Freed(undo) \cup T,
           NEW x \in R, NEW call, Plain(call)
    PROVE  Ok(P \cup S, Try(call, {x}, v), P \cup (S \cup {x}), A, F)
<1>1. (S \cup {x}) \ {} = S \cup {x} /\ {x} \in SUBSET R /\ {} \in SUBSET R
  OBVIOUS
<1>2. Ok(P \cup S, Step(call, {x}, {}, v), P \cup ((S \cup {x}) \ {}), A, F)
  BY <1>1, CallOk, Zenon
<1> QED
  BY <1>1, <1>2 DEF Try

LEMMA TestOk ==
    ASSUME NEW A, NEW F, NEW P, NEW R, NEW undo, Fresh(P, R, undo, A, F),
           NEW S \in SUBSET R, NEW T \in SUBSET R, NEW v, Also(v, undo, T),
           S \subseteq Freed(undo) \cup T,
           NEW call, Plain(call)
    PROVE  Ok(P \cup S, Try(call, {}, v), P \cup S, A, F)
<1>1. (S \cup {}) \ {} = S /\ {} \in SUBSET R
  OBVIOUS
<1>2. Ok(P \cup S, Step(call, {}, {}, v), P \cup ((S \cup {}) \ {}), A, F)
  BY <1>1, CallOk, Zenon
<1> QED
  BY <1>1, <1>2 DEF Try

LEMMA FirstMakeOk ==
    ASSUME NEW A, NEW F, NEW P, NEW R, NEW undo, Fresh(P, R, undo, A, F),
           NEW x \in R, NEW call, Plain(call)
    PROVE  Ok(P, Try(call, {x}, undo), P \cup {x}, A, F)
<1>1. P \cup {} = P /\ {} \cup {x} = {x} /\ {} \subseteq Freed(undo) \cup {}
            /\ {} \in SUBSET R /\ Also(undo, undo, {})
  BY DEF Fresh, Also
<1>2. Ok(P \cup {}, Try(call, {x}, undo), P \cup ({} \cup {x}), A, F)
  BY <1>1, MakeOk, Zenon
<1> QED
  BY <1>1, <1>2

LEMMA FirstTestOk ==
    ASSUME NEW A, NEW F, NEW P, NEW R, NEW undo, Fresh(P, R, undo, A, F), NEW call, Plain(call)
    PROVE  Ok(P, Try(call, {}, undo), P, A, F)
<1>1. P \cup {} = P /\ {} \subseteq Freed(undo) \cup {} /\ {} \in SUBSET R
            /\ Also(undo, undo, {})
  BY DEF Fresh, Also
<1>2. Ok(P \cup {}, Try(call, {}, undo), P \cup {}, A, F)
  BY <1>1, TestOk, Zenon
<1> QED
  BY <1>1, <1>2

(* The constructor that comes after one that added S, when its error paths *)
(* release S too.                                                          *)
LEMMA FreshAfter ==
    ASSUME NEW A, NEW F, NEW P, NEW R, NEW undo, Fresh(P, R, undo, A, F),
           NEW S \in SUBSET R, NEW N \in SUBSET R, S \cap N = {}, NEW T, NEW v,
           Also(v, undo, T), S \subseteq T, T \cap P = {}
    PROVE  Fresh(P \cup S, N, v, A, F)
<1>1. (P \cup S) \ Freed(v) = P \ Freed(undo)
  BY DEF Fresh, Also
<1>2. ASSUME NEW M \in SUBSET N PROVE (P \cup S) \cup M \in A
  <2>1. S \cup M \in SUBSET R /\ (P \cup S) \cup M = P \cup (S \cup M)
    OBVIOUS
  <2> QED
    BY <2>1 DEF Fresh
<1> QED
  BY <1>1, <1>2 DEF Fresh, Also

LEMMA PlainCalls ==
    /\ Plain("adapter LUID") /\ Plain("vkEnumeratePhysicalDevices") /\ Plain("device extensions")
    /\ Plain("queue family") /\ Plain("vkCreateDevice") /\ Plain("real functions")
    /\ Plain("Entry::load") /\ Plain("instance version") /\ Plain("vkCreateInstance")
    /\ Plain("CreateTexture2D") /\ Plain("IDXGIKeyedMutex") /\ Plain("CreateSharedHandle")
    /\ Plain("vkCreateImage") /\ Plain("memory type") /\ Plain("vkAllocateMemory")
    /\ Plain("vkBindImageMemory") /\ Plain("vkCreateBuffer") /\ Plain("vkMapMemory")
    /\ Plain("vkCreateCommandPool") /\ Plain("vkAllocateCommandBuffers") /\ Plain("vkCreateFence")
    /\ Plain("vkDeviceWaitIdle")
    /\ Plain("record") /\ Plain("immediate context") /\ Plain("staging texture")
    /\ Plain("AcquireSync") /\ Plain("Map") /\ Plain("compare")
    /\ Plain("libEGL and libGLESv2") /\ Plain("eglGetPlatformDisplayEXT") /\ Plain("eglInitialize")
    /\ Plain("eglQueryDeviceAttribEXT") /\ Plain("eglChooseConfig") /\ Plain("GetSharedHandle")
    /\ Plain("eglCreatePbufferFromClientBuffer") /\ Plain("OpenSharedResource")
  BY DEF Plain, Leaks, Calls

LEMMA RoleObjects ==
    ASSUME NEW role
    PROVE  /\ ImageObjects(role) = {<<role, "image">>, <<role, "memory">>}
           /\ SharedObjects(role) = {<<role, "image">>, <<role, "memory">>, <<role,
                       "texture">>, <<role, "handle">>}
  BY DEF ImageObjects, SharedObjects

LEMMA AnyTime ==
    ASSUME NEW x \in Objects, x # Device, x # Instance
    PROVE  {x} \in Loose
  BY DEF Loose

LEMMA RoleIsLoose ==
    ASSUME NEW role, NEW y \in {"image", "memory", "texture", "handle", "pool", "fence"}
    PROVE  <<role, y>> # Device /\ <<role, y>> # Instance
  BY DEF Device, Instance

(* The memory-backed objects, by the two constructors that share their     *)
(* shape.                                                                  *)
LEMMA ImageRuns ==
    ASSUME NEW A, NEW F, NEW P, NEW i, NEW m, NEW undo, Fresh(P, {i, m}, undo, A, F),
           {i} \in Loose,
           NEW c1, NEW c2, NEW c3, Plain(c1), Plain(c2), Plain(c3),
           NEW last, NEW Q, Ok(P \cup {i, m}, last, Q, A, F)
    PROVE  Runs(P, <<Try(c1, {i}, undo), Try(c2, {}, <<{i}>> \o undo),
                     Try(c3, {m}, <<{i}>> \o undo), last>>, Q, A, F)
<1> DEFINE v == <<{i}>> \o undo
<1>1. Ok(P, Try(c1, {i}, undo), P \cup {i}, A, F)
  BY FirstMakeOk
<1>2. {i} \in SUBSET {i, m} /\ {i} \subseteq Freed(undo) \cup {i} /\ {i} \cup {m} = {i, m}
  OBVIOUS
<1>v. Also(v, undo, {i})
  BY UndoOne DEF Fresh
<1> HIDE DEF v
<1>3. Ok(P \cup {i}, Try(c2, {}, v), P \cup {i}, A, F)
  BY <1>2, <1>v, TestOk
<1>4. Ok(P \cup {i}, Try(c3, {m}, v), P \cup ({i} \cup {m}), A, F)
  BY <1>2, <1>v, MakeOk
<1>5. Ok(P \cup {i}, Try(c3, {m}, v), P \cup {i, m}, A, F)
  BY <1>2, <1>4
<1>6. Runs(P, <<Try(c1, {i}, undo), Try(c2, {}, v), Try(c3, {m}, v), last>>, Q, A, F)
  BY <1>1, <1>3, <1>5, Runs4
<1> QED
  BY <1>6 DEF v

(* What destroys both.                                                     *)
LEMMA UndoImage ==
    ASSUME NEW A, NEW F, NEW P, NEW role, NEW undo, Fresh(P, ImageObjects(role), undo, A, F)
    PROVE  /\ Also(destroy(role) \o undo, undo, ImageObjects(role))
           /\ {<<role, "image">>} \in Loose
<1> DEFINE i == <<role, "image">>
           m == <<role, "memory">>
<1>1. ImageObjects(role) = {i, m} /\ {i} \cup {m} = {i, m}
  BY RoleObjects
<1>2. i \in Objects /\ m \in Objects /\ undo \in Unwindings
  BY <1>1 DEF Fresh
<1>3. {i} \in Loose /\ {m} \in Loose
  BY <1>2, RoleIsLoose, AnyTime
<1>4. destroy(role) = <<{i}, {m}>>
  BY DEF destroy
<1> HIDE DEF i, m
<1>5. Also(<<{i}, {m}>> \o undo, undo, {i} \cup {m})
  BY <1>2, <1>3, UndoTwo
<1> QED
  BY <1>1, <1>3, <1>4, <1>5 DEF i

LEMMA RenderImageRuns ==
    ASSUME NEW A, NEW F, NEW P, NEW undo, Fresh(P, ImageObjects("render"), undo, A, F)
    PROVE  Runs(P, create_render_image(undo), P \cup ImageObjects("render"), A, F)
<1> DEFINE i == <<"render", "image">>
           m == <<"render", "memory">>
           v == destroy("render") \o undo
<1>0. ImageObjects("render") = {i, m}
  BY RoleObjects
<1>v. Also(v, undo, {i, m}) /\ {i} \in Loose
  BY <1>0, UndoImage
<1> HIDE DEF i, m, v
<1>f. /\ Fresh(P, {i, m}, undo, A, F) /\ {i, m} \in SUBSET {i, m}
      /\ {i, m} \subseteq Freed(undo) \cup {i, m}
  BY <1>0
<1>1. Ok(P \cup {i, m}, Try("vkBindImageMemory", {}, v), P \cup {i, m}, A, F)
  BY <1>f, <1>v, TestOk, PlainCalls, Zenon
<1>2. Runs(P, <<Try("vkCreateImage", {i}, undo), Try("memory type", {}, <<{i}>> \o undo),
                Try("vkAllocateMemory", {m}, <<{i}>> \o undo),
                Try("vkBindImageMemory", {}, v)>>, P \cup {i, m}, A, F)
  BY <1>f, <1>v, <1>1, ImageRuns, PlainCalls, Zenon
<1> QED
  BY <1>0, <1>2 DEF create_render_image, i, m, v

LEMMA BufferRuns ==
    ASSUME NEW A, NEW F, NEW role, NEW P, NEW undo, Fresh(P, ImageObjects(role), undo, A, F)
    PROVE  Runs(P, create_buffer(role, undo), P \cup ImageObjects(role), A, F)
<1> DEFINE i == <<role, "image">>
           m == <<role, "memory">>
           v == destroy(role) \o undo
<1>0. ImageObjects(role) = {i, m}
  BY RoleObjects
<1>v. Also(v, undo, {i, m}) /\ {i} \in Loose
  BY <1>0, UndoImage
<1> HIDE DEF i, m, v
<1>f. /\ Fresh(P, {i, m}, undo, A, F) /\ {i, m} \in SUBSET {i, m}
      /\ {i, m} \subseteq Freed(undo) \cup {i, m}
  BY <1>0
<1>1. Ok(P \cup {i, m}, Try("vkMapMemory", {}, v), P \cup {i, m}, A, F)
  BY <1>f, <1>v, TestOk, PlainCalls, Zenon
<1>2. Runs(P, <<Try("vkCreateBuffer", {i}, undo), Try("memory type", {}, <<{i}>> \o undo),
                Try("vkAllocateMemory", {m}, <<{i}>> \o undo),
                Try("vkMapMemory", {}, v)>>, P \cup {i, m}, A, F)
  BY <1>f, <1>v, <1>1, ImageRuns, PlainCalls, Zenon
<1> QED
  BY <1>0, <1>2 DEF create_buffer, i, m, v

(* The two hand-off targets and the copy objects.                          *)
LEMMA ReadbackRuns ==
    ASSUME NEW A, NEW F, NEW P, NEW undo, Fresh(P, ReadbackObjects, undo, A, F)
    PROVE  Runs(P, ReadbackTarget_new(undo), P \cup ReadbackObjects, A, F)
<1> DEFINE X == ImageObjects("first")
           Y == ImageObjects("second")
           v == destroy("first") \o undo
<1>1. X \cap Y = {} /\ ReadbackObjects = X \cup Y
  BY RoleObjects DEF ReadbackObjects
<1>2. Fresh(P, X, undo, A, F)
  <2> HIDE DEF X, Y
  <2> QED
    BY <1>1 DEF Fresh
<1>v. Also(v, undo, X)
  BY <1>2, UndoImage
<1> HIDE DEF X, Y, v
<1>3. Fresh(P \cup X, Y, v, A, F)
  <2>1. X \in SUBSET ReadbackObjects /\ Y \in SUBSET ReadbackObjects /\ X \subseteq X
              /\ X \cap P = {}
    BY <1>1 DEF Fresh
  <2> QED
    BY <1>1, <1>v, <2>1, FreshAfter
<1>4. Runs(P, create_buffer("first", undo), P \cup X, A, F)
  BY <1>2, BufferRuns DEF X
<1>5. Runs(P \cup X, create_buffer("second", v), (P \cup X) \cup Y, A, F)
  BY <1>3, BufferRuns DEF Y
<1>6. (P \cup X) \cup Y = P \cup ReadbackObjects
  BY <1>1
<1>7. Runs(P, create_buffer("first", undo) \o create_buffer("second", v),
            (P \cup X) \cup Y, A, F)
  BY <1>4, <1>5, RunsThrough
<1> QED
  BY <1>6, <1>7 DEF ReadbackTarget_new, v

LEMMA SharedRuns ==
    ASSUME NEW A, NEW F, NEW P, NEW role, NEW undo, Fresh(P, SharedObjects(role), undo, A, F)
    PROVE  Runs(P, SharedFrameTarget_new(role, undo), P \cup (SharedObjects(role) \ {<<role,
                "handle">>}), A, F)
<1> DEFINE i == <<role, "image">>
           m == <<role, "memory">>
           t == <<role, "texture">>
           h == <<role, "handle">>
           R == {i, m, t, h}
           ut == <<{t}>> \o undo
           u1 == <<{h}, {t}>> \o undo
           ud == destroy(role) \o u1
<1>1. SharedObjects(role) = R /\ ImageObjects(role) = {i, m}
  BY RoleObjects
<1>2. i # m /\ i # t /\ i # h /\ m # t /\ m # h /\ t # h
  OBVIOUS
<1>3. Fresh(P, R, undo, A, F)
  BY <1>1
<1>l. {t} \in Loose /\ {h} \in Loose
  <2>1. t \in Objects /\ h \in Objects
    BY <1>3 DEF Fresh
  <2> QED
    BY <2>1, RoleIsLoose, AnyTime
<1>w. destroy(role) \o u1 = ud
  OBVIOUS
<1> HIDE DEF i, m, t, h, ud
<1>u. Also(ut, undo, {t}) /\ Also(u1, undo, {h} \cup {t})
  BY <1>3, <1>l, UndoOne, UndoTwo DEF Fresh
<1>x. {h} \cup {t} = {t, h}
  OBVIOUS
<1> HIDE DEF ut, u1
<1>v. Also(u1, undo, {t, h})
  BY <1>u, <1>x
<1>5. /\ {t} \in SUBSET R /\ {t} \subseteq Freed(undo) \cup {t} /\ {t} \cup {h} = {t, h}
      /\ t \in R /\ h \in R
  OBVIOUS
<1>4. Ok(P, Try("CreateTexture2D", {t}, undo), P \cup {t}, A, F)
  BY <1>3, <1>5, FirstMakeOk, PlainCalls, Zenon
<1>6. Ok(P \cup {t}, Try("IDXGIKeyedMutex", {}, ut), P \cup {t}, A, F)
  BY <1>3, <1>5, <1>u, TestOk, PlainCalls, Zenon
<1>7. Ok(P \cup {t}, Try("CreateSharedHandle", {h}, ut), P \cup ({t} \cup {h}), A, F)
  BY <1>3, <1>5, <1>u, MakeOk, PlainCalls, Zenon
<1>8. Runs(P, create_d3d_texture(role, undo), P \cup {t, h}, A, F)
  BY <1>4, <1>5, <1>6, <1>7, Runs3 DEF create_d3d_texture, t, h, ut
<1> DEFINE P1 == P \cup {t, h}
<1>9. Fresh(P1, {i, m}, u1, A, F)
  <2>1. {t, h} \in SUBSET R /\ {i, m} \in SUBSET R /\ {t, h} \cap {i, m} = {}
              /\ {t, h} \subseteq {t, h}
    BY <1>2
  <2>2. {t, h} \cap P = {}
    BY <1>3 DEF Fresh
  <2> QED
    BY <1>3, <1>v, <2>1, <2>2, FreshAfter
<1>i. Also(ud, u1, {i, m}) /\ {i} \in Loose
  <2> HIDE DEF P1
  <2>1. Fresh(P1, ImageObjects(role), u1, A, F)
    BY <1>1, <1>9
  <2>2. Also(destroy(role) \o u1, u1, ImageObjects(role)) /\ {<<role, "image">>} \in Loose
    BY <2>1, UndoImage
  <2> QED
    BY <1>1, <1>w, <2>2 DEF i
<1> DEFINE last == Step("vkBindImageMemory", {}, {h}, ud)
<1>10. Ok(P1 \cup {i, m}, last, P \cup {t, i, m}, A, F)
  <2>1. {t, h, i, m} \in SUBSET R /\ {h} \in SUBSET R /\ {} \in SUBSET R
        /\ {t, h, i, m} \subseteq Freed(undo) \cup {t, h, i, m}
    OBVIOUS
  <2>2. Also(ud, undo, {t, h, i, m})
    <3>1. {t, h} \cup {i, m} = {t, h, i, m}
      OBVIOUS
    <3> QED
      BY <1>v, <1>i, <3>1 DEF Also
  <2>3. Ok(P \cup {t, h, i, m}, Step("vkBindImageMemory", {}, {h}, ud),
           P \cup (({t, h, i, m} \cup {}) \ {h}), A, F)
    BY <1>3, <2>1, <2>2, CallOk, PlainCalls, Zenon
  <2>4. /\ P \cup {t, h, i, m} = P1 \cup {i, m}
        /\ ({t, h, i, m} \cup {}) \ {h} = {t, i, m}
    BY <1>2
  <2> QED
    BY <2>3, <2>4
<1>11. Runs(P1, import_into_vulkan(role, u1), P \cup {t, i, m}, A, F)
  <2> HIDE DEF P1, last
  <2>1. Runs(P1, <<Try("vkCreateImage", {i}, u1), Try("memory type", {}, <<{i}>> \o u1),
                Try("vkAllocateMemory", {m}, <<{i}>> \o u1), last>>, P \cup {t, i, m}, A, F)
    BY <1>9, <1>i, <1>10, ImageRuns, PlainCalls, Zenon
  <2> QED
    BY <1>1, <2>1 DEF import_into_vulkan, i, m, h, last, ud
<1>12. Runs(P, create_d3d_texture(role, undo) \o import_into_vulkan(role, u1), P \cup {t, i,
            m}, A, F)
  BY <1>8, <1>11, RunsThrough
<1>13. {t, i, m} = SharedObjects(role) \ {h}
  BY <1>1, <1>2
<1> QED
  BY <1>12, <1>13 DEF SharedFrameTarget_new, t, h, u1

LEMMA CopyRuns ==
    ASSUME NEW A, NEW F, NEW P, NEW undo, Fresh(P, CopyObjects, undo, A, F)
    PROVE  Runs(P, create_copy_objects(undo), P \cup CopyObjects, A, F)
<1> DEFINE p == <<"copy", "pool">>
           f == <<"copy", "fence">>
           v == <<{p}>> \o undo
<1>1. CopyObjects = {p, f}
  BY DEF CopyObjects
<1>0. p # Device /\ p # Instance
  BY RoleIsLoose
<1> HIDE DEF p, f
<1>2. Fresh(P, {p, f}, undo, A, F)
  BY <1>1
<1>v. Also(v, undo, {p})
  <2>1. p \in Objects /\ undo \in Unwindings
    BY <1>2 DEF Fresh
  <2> QED
    BY <1>0, <2>1, AnyTime, UndoOne
<1> HIDE DEF v
<1>3. {p} \in SUBSET {p, f} /\ {p} \subseteq Freed(undo) \cup {p} /\ {p} \cup {f} = {p, f}
      /\ p \in {p, f} /\ f \in {p, f}
  OBVIOUS
<1>4. Ok(P, Try("vkCreateCommandPool", {p}, undo), P \cup {p}, A, F)
  BY <1>2, <1>3, FirstMakeOk, PlainCalls, Zenon
<1>5. Ok(P \cup {p}, Try("vkAllocateCommandBuffers", {}, v), P \cup {p}, A, F)
  BY <1>2, <1>3, <1>v, TestOk, PlainCalls, Zenon
<1>6. Ok(P \cup {p}, Try("vkCreateFence", {f}, v), P \cup ({p} \cup {f}), A, F)
  BY <1>2, <1>3, <1>v, MakeOk, PlainCalls, Zenon
<1> QED
  BY <1>1, <1>3, <1>4, <1>5, <1>6, Runs3 DEF create_copy_objects, p, f, v

-----------------------------------------------------------------------------
(* The objects, and the order among them that every constructor keeps.     *)
(* What ChildrenDieFirst asks of a set of objects, and the sets of objects *)
(* of U that are so.                                                       *)
Ordered(S) ==
    /\ S \cap DeviceObjects # {} => Device \in S
    /\ Device \in S => Instance \in S
Orderly(U) == {S \in SUBSET U : Ordered(S)}

(* What a Vulkan renderer consists of when it is built, by the hand-off.   *)
TargetFor(mode) == IF mode = "shared" THEN SharedObjects("frame") \ {<<"frame", "handle">>}
                                      ELSE ReadbackObjects
BuiltVulkan(mode) == ContextObjects \cup CopyObjects \cup ImageObjects("render")
            \cup TargetFor(mode)

(* Objects of different constructors are different.                        *)
LEMMA Roles ==
    /\ \A x \in ContextObjects : x[1] = "context"
    /\ \A x \in CopyObjects : x[1] = "copy"
    /\ \A role : \A x \in SharedObjects(role) : x[1] = role
    /\ \A role : \A x \in ImageObjects(role) : x[1] = role
    /\ \A x \in PatternObjects : x[1] = "pattern"
    /\ \A x \in AngleObjects : x[1] = "angle"
    /\ \A x \in HostObjects : x[1] = "host"
    /\ \A x \in EngineObjects : x[1] = "engine"
<1>1. \A x \in ContextObjects : x[1] = "context"
  BY DEF ContextObjects
<1>2. \A x \in CopyObjects : x[1] = "copy"
  BY DEF CopyObjects
<1>3. \A role : \A x \in SharedObjects(role) : x[1] = role
  BY DEF SharedObjects, ImageObjects
<1>4. \A role : \A x \in ImageObjects(role) : x[1] = role
  BY DEF ImageObjects
<1>5. \A x \in PatternObjects : x[1] = "pattern"
  BY DEF PatternObjects
<1>6. \A x \in AngleObjects : x[1] = "angle"
  BY DEF AngleObjects
<1>7. \A x \in HostObjects : x[1] = "host"
  BY DEF HostObjects
<1>8. \A x \in EngineObjects : x[1] = "engine"
  BY DEF EngineObjects
<1> QED
  BY <1>1, <1>2, <1>3, <1>4, <1>5, <1>6, <1>7, <1>8

LEMMA VulkanRoles ==
    \A x \in VulkanObjects : x[1] \in {"context", "copy", "render", "frame", "first", "second"}
  BY Roles DEF VulkanObjects, ReadbackObjects

LEMMA CheckRoles ==
    \A x \in CheckObjects : x[1] \in {"check", "pattern"}
  BY Roles DEF CheckObjects

LEMMA ContextIs == ContextObjects = {Entry, Instance, Device}
  BY DEF ContextObjects, Entry, Instance, Device

LEMMA VulkanRoom ==
    ASSUME NEW P, P \in SUBSET VulkanObjects, Instance \in P, Device \in P
    PROVE  P \in Orderly(VulkanObjects)
  BY DEF Orderly, Ordered

LEMMA Parts ==
    /\ ContextObjects \subseteq VulkanObjects /\ CopyObjects \subseteq VulkanObjects
    /\ ImageObjects("render") \subseteq VulkanObjects
    /\ SharedObjects("frame") \subseteq VulkanObjects /\ ReadbackObjects \subseteq VulkanObjects
    /\ VulkanObjects \subseteq Objects /\ CheckObjects \subseteq Objects
    /\ AngleObjects \subseteq Objects /\ HostObjects \subseteq Objects
                /\ EngineObjects \subseteq Objects
  BY DEF VulkanObjects, Objects

LEMMA Apart ==
    /\ ContextObjects \cap CopyObjects = {}
    /\ (ContextObjects \cup CopyObjects) \cap ImageObjects("render") = {}
    /\ (ContextObjects \cup CopyObjects \cup ImageObjects("render"))
                \cap SharedObjects("frame") = {}
    /\ (ContextObjects \cup CopyObjects \cup ImageObjects("render")) \cap ReadbackObjects = {}
    /\ ContextObjects \cap CheckObjects = {}
    /\ VulkanObjects \cap (CheckObjects \cup AngleObjects \cup HostObjects \cup EngineObjects) = {}
    /\ CheckObjects \cap (AngleObjects \cup HostObjects \cup EngineObjects) = {}
    /\ AngleObjects \cap (HostObjects \cup EngineObjects) = {}
    /\ HostObjects \cap EngineObjects = {}
<1>1. ContextObjects \cap CopyObjects = {}
  BY Roles
<1>2. (ContextObjects \cup CopyObjects) \cap ImageObjects("render") = {}
  BY Roles
<1>3. (ContextObjects \cup CopyObjects \cup ImageObjects("render")) \cap SharedObjects("frame") = {}
  BY Roles
<1>4. (ContextObjects \cup CopyObjects \cup ImageObjects("render")) \cap ReadbackObjects = {}
  BY Roles DEF ReadbackObjects
<1>5. ContextObjects \cap CheckObjects = {}
  BY Roles, CheckRoles
<1>6. VulkanObjects \cap (CheckObjects \cup AngleObjects \cup HostObjects \cup EngineObjects) = {}
  BY Roles, VulkanRoles, CheckRoles
<1>7. CheckObjects \cap (AngleObjects \cup HostObjects \cup EngineObjects) = {}
  BY Roles, CheckRoles
<1>8. AngleObjects \cap (HostObjects \cup EngineObjects) = {}
  BY Roles
<1>9. HostObjects \cap EngineObjects = {}
  BY Roles
<1> QED
  BY <1>1, <1>2, <1>3, <1>4, <1>5, <1>6, <1>7, <1>8, <1>9

LEMMA DeviceRoles ==
    \A x \in DeviceObjects :
        x[1] \in {"copy", "first", "second", "render", "frame", "check", "pattern"}
<1> SUFFICES ASSUME NEW x \in DeviceObjects
             PROVE  x[1] \in {"copy", "first", "second", "render", "frame", "check", "pattern"}
  OBVIOUS
<1>1. \/ x \in CopyObjects \/ x \in ReadbackObjects
      \/ \E role \in {"render", "frame", "check"} : x \in ImageObjects(role)
      \/ x \in PatternObjects
  <2>1. {<<"pattern", y>> : y \in {"buffer", "memory", "pool", "fence"}} \subseteq PatternObjects
    BY DEF PatternObjects
  <2>2. \A y \in UNION {ImageObjects(role) : role \in {"render", "frame", "check"}} :
            \E role \in {"render", "frame", "check"} : y \in ImageObjects(role)
    OBVIOUS
  <2> DEFINE I == UNION {ImageObjects(role) : role \in {"render", "frame", "check"}}
             N == {<<"pattern", y>> : y \in {"buffer", "memory", "pool", "fence"}}
  <2>3. DeviceObjects = CopyObjects \cup ReadbackObjects \cup I \cup N
    BY DEF DeviceObjects
  <2>4. \A y \in I : \E role \in {"render", "frame", "check"} : y \in ImageObjects(role)
    BY <2>2
  <2>5. \A y \in N : y \in PatternObjects
    BY <2>1
  <2> HIDE DEF I, N
  <2> QED
    BY <2>3, <2>4, <2>5, Zenon
<1>2. \A y \in ReadbackObjects : y[1] = "first" \/ y[1] = "second"
  BY Roles DEF ReadbackObjects
<1> QED
  BY <1>1, <1>2, Roles

(* The unwindings.  Dropping a context destroys the device and then the    *)
(* instance; dropping the state destroys before that what it has made.     *)
LEMMA LooseIsUnwinding ==
    ASSUME NEW s \in Seq(Loose)
    PROVE  s \in Unwindings /\ Also(s, <<>>, Freed(s))
<1>1. <<>> \in Unwindings /\ Freed(<<>>) = {}
  BY FreedOfNone
<1>2. Also(s \o <<>>, <<>>, Freed(s))
  BY <1>1, LooseBefore
<1>3. s \o <<>> = s
  OBVIOUS
<1> QED
  BY <1>2, <1>3 DEF Also

LEMMA LooseConcat ==
    ASSUME NEW s \in Seq(Loose), NEW t \in Seq(Loose)
    PROVE  s \o t \in Seq(Loose) /\ Freed(s \o t) = Freed(s) \cup Freed(t)
  BY FreedOfConcat, ConcatProperties

LEMMA ContextDrop ==
    VulkanContext_drop \in Unwindings /\ Freed(VulkanContext_drop) = ContextObjects
<1> DEFINE u == VulkanContext_drop
<1>1. u = <<{}, {Device}, {Instance}, {Entry}>>
  BY DEF VulkanContext_drop, WaitIdle, Device, Instance, Entry
<1>2. Device \in Objects /\ Instance \in Objects /\ Entry \in Objects
  BY ContextIs, Parts
<1>3. Entry # Instance /\ Entry # Device /\ Instance # Device
  BY DEF Entry, Instance, Device
<1>4. Entry \notin DeviceObjects /\ Instance \notin DeviceObjects /\ Device \notin DeviceObjects
  BY DeviceRoles DEF Entry, Instance, Device
<1> HIDE DEF u
<1>5. /\ u \in Seq(SUBSET Objects) /\ Len(u) = 4
      /\ u[1] = {} /\ u[2] = {Device} /\ u[3] = {Instance} /\ u[4] = {Entry}
  BY <1>1, <1>2
<1>6. InOrder(u)
  <2> SUFFICES ASSUME NEW i \in 1..4, NEW j \in i..4
               PROVE  /\ Device \in u[i] => u[j] \cap DeviceObjects = {}
                      /\ Instance \in u[i] => Device \notin u[j]
    BY <1>5 DEF InOrder
  <2>1. i = 1 \/ i = 2 \/ i = 3 \/ i = 4
    OBVIOUS
  <2>2. j \in 1..4 /\ (j = 1 \/ j = 2 \/ j = 3 \/ j = 4)
    OBVIOUS
  <2>3. u[j] \cap DeviceObjects = {}
    BY <1>4, <1>5, <2>2
  <2>4. Instance \in u[i] => Device \notin u[j]
    BY <1>3, <1>5, <2>1, <2>2
  <2> QED
    BY <2>3, <2>4
<1>7. Freed(u) = {Entry, Instance, Device}
  <2>1. 1..4 = {1, 2, 3, 4}
    OBVIOUS
  <2> QED
    BY <1>5, <2>1 DEF Freed
<1> QED
  BY <1>5, <1>6, <1>7, ContextIs DEF Unwindings, u

LEMMA DestroyIsLoose ==
    ASSUME NEW role, ImageObjects(role) \subseteq Objects
    PROVE  destroy(role) \in Seq(Loose) /\ Freed(destroy(role)) = ImageObjects(role)
<1> DEFINE i == <<role, "image">>
           m == <<role, "memory">>
<1>1. ImageObjects(role) = {i, m}
  BY RoleObjects
<1>2. {i} \in Loose /\ {m} \in Loose
  BY <1>1, RoleIsLoose, AnyTime
<1>3. destroy(role) = <<{i}, {m}>>
  BY DEF destroy
<1> HIDE DEF i, m
<1>4. <<{i}, {m}>> \in Seq(Loose) /\ Freed(<<{i}, {m}>>) = {i, m}
  <2>1. /\ 1..Len(<<{i}, {m}>>) = {1, 2} /\ <<{i}, {m}>>[1] = {i} /\ <<{i}, {m}>>[2] = {m}
        /\ <<{i}, {m}>> \in Seq(Loose)
    BY <1>2
  <2> QED
    BY <2>1 DEF Freed
<1> QED
  BY <1>1, <1>3, <1>4

LEMMA TargetDrop ==
    ASSUME NEW role, SharedObjects(role) \subseteq Objects
    PROVE  /\ SharedFrameTarget_drop(role) \in Seq(Loose)
           /\ Freed(SharedFrameTarget_drop(role)) = SharedObjects(role) \ {<<role, "handle">>}
<1> DEFINE t == <<role, "texture">>
<1>1. ImageObjects(role) \cup {t} = SharedObjects(role) \ {<<role, "handle">>}
  BY RoleObjects
<1>2. {t} \in Loose
  BY <1>1, RoleIsLoose, AnyTime
<1>3. ImageObjects(role) \subseteq Objects
  BY <1>1
<1>4. destroy(role) \in Seq(Loose) /\ Freed(destroy(role)) = ImageObjects(role)
  BY <1>3, DestroyIsLoose
<1>5. <<{t}>> \in Seq(Loose) /\ Freed(<<{t}>>) = {t}
  BY <1>2, FreedOfOne
<1> HIDE DEF t
<1>6. /\ destroy(role) \o <<{t}>> \in Seq(Loose)
      /\ Freed(destroy(role) \o <<{t}>>) = ImageObjects(role) \cup {t}
  BY <1>4, <1>5, LooseConcat
<1> QED
  BY <1>1, <1>6 DEF SharedFrameTarget_drop, t

LEMMA FrameTargetDrop ==
    ASSUME NEW mode
    PROVE  /\ FrameTarget_drop(mode) \in Seq(Loose)
           /\ Freed(FrameTarget_drop(mode)) = TargetFor(mode)
<1>1. SharedObjects("frame") \subseteq Objects /\ ReadbackObjects \subseteq Objects
  BY Parts
<1>2. CASE mode = "shared"
  BY <1>1, <1>2, TargetDrop DEF FrameTarget_drop, TargetFor
<1>3. CASE mode # "shared"
  <2>1. ImageObjects("first") \subseteq Objects /\ ImageObjects("second") \subseteq Objects
    BY <1>1 DEF ReadbackObjects
  <2>2. /\ destroy("first") \in Seq(Loose) /\ Freed(destroy("first")) = ImageObjects("first")
        /\ destroy("second") \in Seq(Loose) /\ Freed(destroy("second")) = ImageObjects("second")
    BY <2>1, DestroyIsLoose
  <2>3. /\ destroy("first") \o destroy("second") \in Seq(Loose)
        /\ Freed(destroy("first") \o destroy("second")) = ReadbackObjects
    BY <2>2, FreedOfConcat DEF ReadbackObjects
  <2> QED
    BY <1>3, <2>3 DEF FrameTarget_drop, TargetFor
<1> QED
  BY <1>2, <1>3

LEMMA StateDrop ==
    ASSUME NEW image \in Seq(Loose), NEW target \in Seq(Loose)
    PROVE  /\ VulkanInteropState_drop(image, target) \in Unwindings
           /\ Freed(VulkanInteropState_drop(image, target))
                 = ContextObjects \cup CopyObjects \cup Freed(image) \cup Freed(target)
<1> DEFINE p == <<"copy", "pool">>
           f == <<"copy", "fence">>
<1>1. CopyObjects = {p, f} /\ p \in Objects /\ f \in Objects
  BY Parts DEF CopyObjects
<1>2. {p} \in Loose /\ {f} \in Loose /\ WaitIdle \in Loose
  BY <1>1, RoleIsLoose, AnyTime DEF WaitIdle, Loose
<1> HIDE DEF p, f
<1> DEFINE w == <<WaitIdle>>
           c == <<{f}, {p}>>
<1>3. w \in Seq(Loose) /\ Freed(w) = {}
  BY <1>2, FreedOfOne DEF WaitIdle
<1>4. c \in Seq(Loose) /\ Freed(c) = CopyObjects
  <2>1. c \in Seq(Loose) /\ 1..Len(c) = {1, 2} /\ c[1] = {f} /\ c[2] = {p}
    BY <1>2
  <2> QED
    BY <1>1, <2>1 DEF Freed
<1> HIDE DEF w, c
<1>5. w \o image \in Seq(Loose) /\ Freed(w \o image) = {} \cup Freed(image)
  BY <1>3, LooseConcat
<1>6. w \o image \o c \in Seq(Loose) /\ Freed(w \o image \o c) = Freed(image) \cup CopyObjects
  BY <1>4, <1>5, LooseConcat
<1>7. /\ w \o image \o c \o target \in Seq(Loose)
      /\ Freed(w \o image \o c \o target) = Freed(image) \cup CopyObjects \cup Freed(target)
  BY <1>6, LooseConcat
<1>8. VulkanInteropState_drop(image, target) = w \o image \o c \o target \o VulkanContext_drop
  BY DEF VulkanInteropState_drop, w, c, f, p
<1>9. Also(w \o image \o c \o target \o VulkanContext_drop, VulkanContext_drop,
           Freed(image) \cup CopyObjects \cup Freed(target))
  BY <1>7, ContextDrop, LooseBefore
<1> QED
  BY <1>8, <1>9, ContextDrop DEF Also

(* with_handoff makes the interop state for either hand-off; whichever of  *)
(* its calls fails, nothing is left, the context included.                 *)
LEMMA StateRuns ==
    ASSUME NEW mode
    PROVE  Runs(ContextObjects, with_handoff(mode), BuiltVulkan(mode), Orderly(VulkanObjects), {{}})
<1> DEFINE A == Orderly(VulkanObjects)
           F == {{}}
           P1 == ContextObjects \cup CopyObjects
           P2 == P1 \cup ImageObjects("render")
           d0 == VulkanInteropState_drop(<<>>, <<>>)
           d1 == VulkanInteropState_drop(destroy("render"), <<>>)
           c == VulkanContext_drop
<1>0. /\ d0 \in Unwindings /\ Freed(d0) = P1 /\ d1 \in Unwindings /\ Freed(d1) = P2
      /\ c \in Unwindings /\ Freed(c) = ContextObjects
  <2>1. <<>> \in Seq(Loose) /\ Freed(<<>>) = {}
    <3>1. <<>> \in Seq(Loose)
      OBVIOUS
    <3> QED
      BY <3>1, FreedOfNone
  <2>2. ImageObjects("render") \subseteq Objects
    BY Parts
  <2>3. /\ destroy("render") \in Seq(Loose)
        /\ Freed(destroy("render")) = ImageObjects("render")
    BY <2>2, DestroyIsLoose
  <2>4. d0 \in Unwindings /\ Freed(d0) = ContextObjects \cup CopyObjects \cup {} \cup {}
    BY <2>1, StateDrop
  <2>5. d1 \in Unwindings
        /\ Freed(d1) = ContextObjects \cup CopyObjects \cup ImageObjects("render") \cup {}
    BY <2>1, <2>3, StateDrop
  <2>6. c \in Unwindings /\ Freed(c) = ContextObjects
    BY ContextDrop
  <2> HIDE DEF d0, d1, c
  <2> QED
    BY <2>4, <2>5, <2>6
<1> HIDE DEF d0, d1, c
<1>1. ASSUME NEW P, ContextObjects \subseteq P, P \subseteq VulkanObjects, NEW R,
            R \subseteq VulkanObjects, P \cap R = {}, NEW u \in Unwindings, Freed(u) = P
      PROVE  Fresh(P, R, u, A, F)
  <2>1. ASSUME NEW S \in SUBSET R PROVE P \cup S \in A
    BY <1>1, ContextIs, VulkanRoom
  <2> QED
    BY <1>1, <2>1, Parts DEF Fresh
<1> HIDE DEF A, F
<1>2. Fresh(ContextObjects, CopyObjects, c, A, F)
  BY <1>0, <1>1, Parts, Apart
<1>3. Fresh(P1, ImageObjects("render"), d0, A, F)
  BY <1>0, <1>1, Parts, Apart
<1>4. Fresh(P2, SharedObjects("frame"), d1, A, F) /\ Fresh(P2, ReadbackObjects, d1, A, F)
  BY <1>0, <1>1, Parts, Apart
<1>5. Runs(ContextObjects, create_copy_objects(c), P1, A, F)
  BY <1>2, CopyRuns
<1>6. Runs(P1, create_render_image(d0), P2, A, F)
  BY <1>3, RenderImageRuns
<1>7. Runs(P2, FrameTarget_new(mode, d1), BuiltVulkan(mode), A, F)
  <2>1. CASE mode = "shared"
    <3>1. Runs(P2, SharedFrameTarget_new("frame", d1),
                P2 \cup (SharedObjects("frame") \ {<<"frame", "handle">>}), A, F)
      BY <1>4, SharedRuns
    <3> QED
      BY <2>1, <3>1 DEF FrameTarget_new, BuiltVulkan, TargetFor
  <2>2. CASE mode # "shared"
    <3>1. Runs(P2, ReadbackTarget_new(d1), P2 \cup ReadbackObjects, A, F)
      BY <1>4, ReadbackRuns
    <3> QED
      BY <2>2, <3>1 DEF FrameTarget_new, BuiltVulkan, TargetFor
  <2> QED
    BY <2>1, <2>2
<1> HIDE DEF P1, P2
<1>8. Runs(P1, <<Try("vkDeviceWaitIdle", {}, d0)>>, P1, A, F)
  <2>1. Ok(P1, Try("vkDeviceWaitIdle", {}, d0), P1, A, F)
    BY <1>3, FirstTestOk, PlainCalls, Zenon
  <2> QED
    BY <2>1, RunsStep
<1>9. Runs(P1, <<Try("vkDeviceWaitIdle", {}, d0)>> \o create_render_image(d0), P2, A, F)
  BY <1>6, <1>8, RunsThrough
<1>10. Runs(P1, next_image(mode), BuiltVulkan(mode), A, F)
  BY <1>7, <1>9, RunsThrough DEF next_image, d0, d1
<1> QED
  BY <1>5, <1>10, RunsThrough DEF with_handoff, A, F, c

(* VulkanContext::new makes the context or leaves nothing.                 *)
LEMMA TripleIsConcat ==
    ASSUME NEW S, NEW a \in S, NEW b \in S, NEW c \in S
    PROVE  <<a>> \o <<b, c>> = <<a, b, c>>
<1>1. <<a>> \in Seq(S) /\ <<b, c>> \in Seq(S) /\ <<a, b, c>> \in Seq(S)
      /\ Len(<<a>>) = 1 /\ Len(<<b, c>>) = 2 /\ Len(<<a, b, c>>) = 3
  OBVIOUS
<1>2. <<a>> \o <<b, c>> \in Seq(S) /\ Len(<<a>> \o <<b, c>>) = 3
      /\ (<<a>> \o <<b, c>>)[1] = a /\ (<<a>> \o <<b, c>>)[2] = b
      /\ (<<a>> \o <<b, c>>)[3] = c
  BY <1>1, ConcatProperties
<1>3. \A i \in 1..3 : (<<a>> \o <<b, c>>)[i] = <<a, b, c>>[i]
  BY <1>2
<1> QED
  BY <1>1, <1>2, <1>3, SeqEqual

LEMMA ContextUndo ==
    LET u == <<{Entry}, {Instance}>>
    IN  /\ Also(<<{Entry}>>, <<>>, {Entry})
        /\ u \in Unwindings /\ Freed(u) = {Entry, Instance}
        /\ Also(<<{Device}>> \o u, u, {Device})
<1> DEFINE u == <<{Entry}, {Instance}>>
           v == <<{Device}, {Entry}, {Instance}>>
<1>1. Device \in Objects /\ Instance \in Objects /\ Entry \in Objects
  BY ContextIs, Parts
<1>2. Entry # Instance /\ Entry # Device /\ Instance # Device
  BY DEF Entry, Instance, Device
<1>3. Entry \notin DeviceObjects /\ Instance \notin DeviceObjects /\ Device \notin DeviceObjects
  BY DeviceRoles DEF Entry, Instance, Device
<1>4. Also(<<{Entry}>>, <<>>, {Entry})
  <2>1. <<{Entry}>> \in Seq(Loose)
    BY <1>1, <1>2, AnyTime
  <2> QED
    BY <2>1, LooseIsUnwinding, FreedOfOne
<1>5. /\ u \in Seq(SUBSET Objects) /\ Len(u) = 2 /\ 1..2 = {1, 2}
      /\ u[1] = {Entry} /\ u[2] = {Instance}
  BY <1>1
<1>6. /\ v \in Seq(SUBSET Objects) /\ Len(v) = 3
      /\ v[1] = {Device} /\ v[2] = {Entry} /\ v[3] = {Instance}
  BY <1>1
<1>7. <<{Device}>> \o u = v
  <2>1. {Device} \in SUBSET Objects /\ {Entry} \in SUBSET Objects /\ {Instance} \in SUBSET Objects
    BY <1>1
  <2> QED
    BY <2>1, TripleIsConcat
<1> HIDE DEF u, v
<1>8. u \in Unwindings
  <2>1. \A i \in 1..2 : Device \notin u[i]
    BY <1>2, <1>5
  <2>2. \A i \in 1..2 : \A j \in i..2 : j \in 1..2
    OBVIOUS
  <2>3. InOrder(u)
    BY <1>5, <2>1, <2>2 DEF InOrder
  <2> QED
    BY <1>5, <2>3 DEF Unwindings
<1>9. v \in Unwindings
  <2>1. \A j \in 1..3 : v[j] \cap DeviceObjects = {}
    BY <1>3, <1>6
  <2>2. ASSUME NEW i \in 1..3, NEW j \in i..3 PROVE Instance \in v[i] => Device \notin v[j]
    <3>1. (i = 1 \/ i = 2 \/ i = 3) /\ (i = 3 => j = 3)
      OBVIOUS
    <3> QED
      BY <1>2, <1>6, <3>1
  <2>3. \A i \in 1..3 : \A j \in i..3 : j \in 1..3
    OBVIOUS
  <2> QED
    BY <1>6, <2>1, <2>2, <2>3 DEF Unwindings, InOrder
<1>10. Freed(u) = {Entry, Instance} /\ Freed(v) = {Entry, Instance} \cup {Device}
  <2>1. 1..3 = {1, 2, 3}
    OBVIOUS
  <2> QED
    BY <1>5, <1>6, <2>1 DEF Freed
<1> QED
  BY <1>4, <1>7, <1>8, <1>9, <1>10 DEF Also, u

LEMMA ContextRuns == Runs({}, VulkanContext_new, ContextObjects, Orderly(VulkanObjects), {{}})
<1> DEFINE A == Orderly(VulkanObjects)
           F == {{}}
           P1 == {Entry, Instance}
           P2 == {Entry, Instance, Device}
           n == <<>>
           uE == <<{Entry}>>
           u == <<{Entry}, {Instance}>>
           v == <<{Device}>> \o u
<1>0. Entry # Instance /\ Entry # Device /\ Instance # Device
  BY DEF Entry, Instance, Device
<1>1. {Entry, Instance, Device} \subseteq VulkanObjects
  BY Parts, ContextIs
<1>2. Entry \notin DeviceObjects /\ Instance \notin DeviceObjects
  BY DeviceRoles DEF Entry, Instance
<1>3. /\ n \in Unwindings /\ Freed(n) = {}
      /\ Also(uE, n, {Entry}) /\ u \in Unwindings /\ Freed(u) = P1
      /\ Also(v, u, {Device})
  BY ContextUndo, FreedOfNone
<1> HIDE DEF n, uE, u, v
<1>4. \A S \in SUBSET P1 : S \in A
  BY <1>0, <1>1, <1>2 DEF Orderly, Ordered
<1>5. P2 \in A
  BY <1>1, VulkanRoom
<1>6. Fresh({}, P1, n, A, F)
  BY <1>1, <1>3, <1>4, Parts DEF Fresh
<1>7. Fresh(P1, {Device}, u, A, F)
  <2>1. ASSUME NEW S \in SUBSET {Device} PROVE P1 \cup S \in A
    <3>1. P1 \cup S = P1 \/ P1 \cup S = P2
      OBVIOUS
    <3> QED
      BY <1>4, <1>5, <3>1
  <2> QED
    BY <1>0, <1>1, <1>3, <2>1, Parts DEF Fresh
<1> HIDE DEF A, F
<1>8. Ok({}, Try("Entry::load", {Entry}, n), {Entry}, A, F)
  <2>1. Ok({}, Try("Entry::load", {Entry}, n), {} \cup {Entry}, A, F)
    BY <1>6, FirstMakeOk, PlainCalls, Zenon
  <2> QED
    BY <2>1
<1>9. /\ {Entry} \in SUBSET P1 /\ {Entry} \subseteq Freed(n) \cup {Entry} /\ Instance \in P1
      /\ {} \cup {Entry} = {Entry} /\ {Entry} \cup {Instance} = P1 /\ {} \cup P1 = P1
  OBVIOUS
<1>10. Ok({Entry}, Try("instance version", {}, uE), {Entry}, A, F)
  <2>1. Ok({} \cup {Entry}, Try("instance version", {}, uE), {} \cup {Entry}, A, F)
    BY <1>3, <1>6, <1>9, TestOk, PlainCalls, Zenon
  <2> QED
    BY <1>9, <2>1
<1>11. Ok({Entry}, Try("vkCreateInstance", {Instance}, uE), P1, A, F)
  <2>1. Ok({} \cup {Entry}, Try("vkCreateInstance", {Instance}, uE),
              {} \cup ({Entry} \cup {Instance}), A, F)
    BY <1>3, <1>6, <1>9, MakeOk, PlainCalls, Zenon
  <2> QED
    BY <1>9, <2>1
<1>12. Runs({}, <<Try("Entry::load", {Entry}, n), Try("instance version", {}, uE),
                  Try("vkCreateInstance", {Instance}, uE)>>, P1, A, F)
  BY <1>8, <1>10, <1>11, Runs3
<1>13. Runs(P1, with_instance(u), P2, A, F)
  <2>0. P1 \cup {Device} = P2
    OBVIOUS
  <2> HIDE DEF P1, P2
  <2>1. \A call : Plain(call) => Runs(P1, <<Try(call, {}, u)>>, P1, A, F)
    BY <1>7, FirstTestOk, RunsStep, Zenon
  <2>2. Runs(P1, <<Try("vkCreateDevice", {Device}, u)>>, P2, A, F)
    <3>1. Ok(P1, Try("vkCreateDevice", {Device}, u), P1 \cup {Device}, A, F)
      BY <1>7, FirstMakeOk, PlainCalls, Zenon
    <3> QED
      BY <2>0, <3>1, RunsStep
  <2>3. Runs(P2, <<Try("real functions", {}, v)>>, P2, A, F)
    <3>1. {Device} \in SUBSET {Device} /\ {Device} \subseteq Freed(u) \cup {Device}
      OBVIOUS
    <3>2. Ok(P1 \cup {Device}, Try("real functions", {}, v), P1 \cup {Device}, A, F)
      BY <1>3, <1>7, <3>1, TestOk, PlainCalls, Zenon
    <3> QED
      BY <2>0, <3>2, RunsStep
  <2>4. /\ Runs(P1, <<Try("adapter LUID", {}, u)>>, P1, A, F)
        /\ Runs(P1, find_physical_device(u), P1, A, F)
        /\ Runs(P1, <<Try("device extensions", {}, u)>>, P1, A, F)
        /\ Runs(P1, find_queue_family(u), P1, A, F)
        /\ Runs(P2, init_real_fns(v), P2, A, F)
    BY <2>1, <2>3, PlainCalls, Zenon DEF find_physical_device, find_queue_family, init_real_fns
  <2>5. Runs(P1, <<Try("adapter LUID", {}, u)>> \o find_physical_device(u), P1, A, F)
    BY <2>4, RunsThrough
  <2>6. Runs(P1, <<Try("adapter LUID", {}, u)>> \o find_physical_device(u)
                 \o <<Try("device extensions", {}, u)>>, P1, A, F)
    BY <2>4, <2>5, RunsThrough
  <2>7. Runs(P1, <<Try("adapter LUID", {}, u)>> \o find_physical_device(u)
                 \o <<Try("device extensions", {}, u)>> \o find_queue_family(u), P1, A, F)
    BY <2>4, <2>6, RunsThrough
  <2>8. Runs(P1, <<Try("adapter LUID", {}, u)>> \o find_physical_device(u)
                 \o <<Try("device extensions", {}, u)>> \o find_queue_family(u)
                 \o <<Try("vkCreateDevice", {Device}, u)>>, P2, A, F)
    BY <2>2, <2>7, RunsThrough
  <2> QED
    BY <2>4, <2>8, RunsThrough DEF with_instance, Device, v
<1>14. P2 = ContextObjects
  BY ContextIs
<1>15. Runs({}, <<Try("Entry::load", {Entry}, n), Try("instance version", {}, uE),
                  Try("vkCreateInstance", {Instance}, uE)>> \o with_instance(u), P2, A, F)
  BY <1>12, <1>13, RunsThrough
<1> QED
  BY <1>14, <1>15 DEF VulkanContext_new, Entry, Instance, A, F, n, uE, u

(* The check of the shared texture gives the context back as it was,       *)
(* whether it delivers, fails, or leaks what the GPU may still use.        *)
LEMMA CheckDrop ==
    LET s == <<"pattern", "staging">>
    IN  /\ CheckObjects_release \in Unwindings
        /\ Freed(CheckObjects_release) = CheckObjects \ {<<"check", "handle">>, s}
        /\ Also(<<{s}>> \o CheckObjects_release, CheckObjects_release, {s})
        /\ Also(<<{<<"check", "texture">>}>>, <<>>, {<<"check", "texture">>})
<1> DEFINE b == <<"pattern", "buffer">>
           m == <<"pattern", "memory">>
           p == <<"pattern", "pool">>
           f == <<"pattern", "fence">>
           s == <<"pattern", "staging">>
           h == <<"check", "handle">>
           x == <<"check", "texture">>
           T == SharedObjects("check")
           c == <<{f}, {p}, {b}, {m}>>
           t == SharedFrameTarget_drop("check")
<1>1. /\ CheckObjects = T \cup {b, m, p, f, s} /\ h \in T /\ x \in T
      /\ b \notin T /\ m \notin T /\ p \notin T /\ f \notin T /\ s \notin T
      /\ s # b /\ s # m /\ s # p /\ s # f
  <2>1. PatternObjects = {b, m, p, f, s}
    BY DEF PatternObjects
  <2>2. b \notin T /\ m \notin T /\ p \notin T /\ f \notin T /\ s \notin T /\ h \in T /\ x \in T
    BY RoleObjects
  <2>3. CheckObjects = T \cup PatternObjects
    BY DEF CheckObjects
  <2> QED
    BY <2>1, <2>2, <2>3
<1>2. CheckObjects \subseteq Objects
  BY Parts
<1>3. /\ b # Device /\ m # Device /\ p # Device /\ f # Device /\ s # Device /\ x # Device
      /\ b # Instance /\ m # Instance /\ p # Instance /\ f # Instance /\ s # Instance
      /\ x # Instance
  BY DEF Device, Instance
<1>4. t \in Seq(Loose) /\ Freed(t) = T \ {h}
  BY <1>1, <1>2, TargetDrop
<1>5. CheckObjects_release = c \o t
  BY DEF CheckObjects_release
<1> HIDE DEF b, m, p, f, s, h, x, T, t
<1>6. {b} \in Loose /\ {m} \in Loose /\ {p} \in Loose /\ {f} \in Loose /\ {s} \in Loose /\ {x} \in Loose
  BY <1>1, <1>2, <1>3, AnyTime
<1>7. c \in Seq(Loose) /\ Freed(c) = {b, m, p, f}
  <2>1. /\ c \in Seq(Loose) /\ Len(c) = 4
        /\ c[1] = {f} /\ c[2] = {p} /\ c[3] = {b} /\ c[4] = {m}
    BY <1>6
  <2>2. 1..4 = {1, 2, 3, 4}
    OBVIOUS
  <2> HIDE DEF c
  <2> QED
    BY <2>1, <2>2 DEF Freed
<1> HIDE DEF c
<1>8. c \o t \in Seq(Loose) /\ Freed(c \o t) = {b, m, p, f} \cup (T \ {h})
  BY <1>4, <1>7, LooseConcat
<1>9. c \o t \in Unwindings
  BY <1>8, LooseIsUnwinding
<1>10. {b, m, p, f} \cup (T \ {h}) = CheckObjects \ {h, s}
  <2>1. h # b /\ h # m /\ h # p /\ h # f
    BY <1>1
  <2> QED
    BY <1>1, <2>1
<1>11. Also(<<{s}>> \o (c \o t), c \o t, {s})
  BY <1>6, <1>9, UndoOne
<1>12. Also(<<{x}>>, <<>>, {x})
  <2>1. <<{x}>> \in Seq(Loose)
    BY <1>6
  <2> QED
    BY <2>1, LooseIsUnwinding, FreedOfOne
<1> QED
  BY <1>5, <1>8, <1>9, <1>10, <1>11, <1>12 DEF s, h, x

LEMMA CheckRuns ==
    Runs(ContextObjects, shared_texture_works, ContextObjects,
         Orderly(ContextObjects \cup CheckObjects), {ContextObjects})
<1> DEFINE U == ContextObjects \cup CheckObjects
           A == Orderly(U)
           C == ContextObjects
           F == {C}
           n == <<>>
           h == <<"check", "handle">>
           x == <<"check", "texture">>
           P1 == SharedObjects("check") \ {h}
           b == <<"pattern", "buffer">>
           m == <<"pattern", "memory">>
           p == <<"pattern", "pool">>
           f == <<"pattern", "fence">>
           s == <<"pattern", "staging">>
           r == CheckObjects_release
           rs == <<{s}>> \o r
           ux == <<{x}>>
<1>1. Fresh(C, CheckObjects, n, A, F)
  <2>1. \A S \in SUBSET CheckObjects : C \cup S \in A
    BY ContextIs DEF Orderly, Ordered
  <2> QED
    BY <2>1, Parts, Apart, FreedOfNone DEF Fresh
<1>2. C \cap CheckObjects = {}
  BY Apart
<1> HIDE DEF A, C, F
<1>3. /\ CheckObjects = P1 \cup {h, b, m, p, f, s} /\ x \in P1 /\ h \notin P1
      /\ b \notin P1 /\ m \notin P1 /\ p \notin P1 /\ f \notin P1 /\ s \notin P1
      /\ b # h /\ m # h /\ p # h /\ f # h /\ s # h
      /\ s # b /\ s # m /\ s # p /\ s # f
  <2>1. PatternObjects = {b, m, p, f, s}
    BY DEF PatternObjects
  <2>2. /\ b \notin P1 /\ m \notin P1 /\ p \notin P1 /\ f \notin P1 /\ s \notin P1
        /\ x \in P1 /\ SharedObjects("check") = P1 \cup {h}
    BY RoleObjects
  <2>3. CheckObjects = SharedObjects("check") \cup PatternObjects
    BY DEF CheckObjects
  <2> QED
    BY <2>1, <2>2, <2>3
<1>4. Runs(C, SharedFrameTarget_new("check", n), C \cup P1, A, F)
  <2>1. Fresh(C, SharedObjects("check"), n, A, F)
    BY <1>1 DEF Fresh, CheckObjects
  <2> QED
    BY <2>1, SharedRuns
<1>5. /\ r \in Unwindings /\ Freed(r) = CheckObjects \ {h, s} /\ Also(rs, r, {s})
      /\ Also(ux, n, {x}) /\ Freed(n) = {}
  BY CheckDrop, FreedOfNone
<1> HIDE DEF n, h, x, b, m, p, f, s, r, rs, ux, P1
<1>6. ASSUME NEW S \in SUBSET CheckObjects, NEW v \in Unwindings, Freed(v) \subseteq CheckObjects,
             S \subseteq Freed(v), NEW call, Plain(call)
      PROVE  Ok(C \cup S, Try(call, {}, v), C \cup S, A, F)
  <2>1. Also(v, n, Freed(v)) /\ Freed(v) \in SUBSET CheckObjects /\ S \subseteq Freed(n) \cup Freed(v)
    BY <1>5, <1>6 DEF Also
  <2> QED
    BY <1>1, <1>6, <2>1, TestOk, Zenon
<1>7. ASSUME NEW S \in SUBSET CheckObjects, S \subseteq Freed(r),
             NEW y \in CheckObjects, NEW N, N = S \cup {y}, NEW call, Plain(call)
      PROVE  Ok(C \cup S, Try(call, {y}, r), C \cup N, A, F)
  <2>1. Also(r, n, Freed(r)) /\ Freed(r) \in SUBSET CheckObjects /\ S \subseteq Freed(n) \cup Freed(r)
    BY <1>5, <1>7 DEF Also
  <2>2. Ok(C \cup S, Try(call, {y}, r), C \cup (S \cup {y}), A, F)
    BY <1>1, <1>7, <2>1, MakeOk, Zenon
  <2> QED
    BY <1>7, <2>2
<1> DEFINE P2 == P1 \cup {b}
           P3 == P1 \cup {b, m}
           P4 == P1 \cup {b, m, p}
           P5 == P1 \cup {b, m, p, f}
           P6 == P1 \cup {b, m, p, f, s}
<1>8. /\ P1 \in SUBSET CheckObjects /\ P2 \in SUBSET CheckObjects /\ P3 \in SUBSET CheckObjects
      /\ P4 \in SUBSET CheckObjects /\ P5 \in SUBSET CheckObjects /\ P6 \in SUBSET CheckObjects
      /\ P2 = P1 \cup {b} /\ P3 = P2 \cup {m} /\ P4 = P3 \cup {p} /\ P5 = P4 \cup {f}
      /\ P6 = P5 \cup {s}
      /\ b \in CheckObjects /\ m \in CheckObjects /\ p \in CheckObjects /\ f \in CheckObjects
      /\ s \in CheckObjects
  BY <1>3
<1>9. /\ P1 \subseteq Freed(r) /\ P2 \subseteq Freed(r) /\ P3 \subseteq Freed(r)
      /\ P4 \subseteq Freed(r) /\ P5 \subseteq Freed(r) /\ Freed(r) \subseteq CheckObjects
      /\ P6 \subseteq Freed(rs) /\ Freed(rs) \subseteq CheckObjects /\ rs \in Unwindings
  BY <1>3, <1>5 DEF Also
<1> HIDE DEF P1, P2, P3, P4, P5, P6
<1>10. Runs(C \cup P1,
           <<Try("vkCreateBuffer", {b}, r), Try("memory type", {}, r),
             Try("vkAllocateMemory", {m}, r), Try("vkMapMemory", {}, r),
             Try("vkCreateCommandPool", {p}, r), Try("vkAllocateCommandBuffers", {}, r),
             Try("vkCreateFence", {f}, r)>>, C \cup P5, A, F)
  <2>1. Ok(C \cup P1, Try("vkCreateBuffer", {b}, r), C \cup P2, A, F)
    BY <1>7, <1>8, <1>9, PlainCalls, Zenon
  <2>2. Ok(C \cup P2, Try("memory type", {}, r), C \cup P2, A, F)
    BY <1>5, <1>6, <1>8, <1>9, PlainCalls, Zenon
  <2>3. Ok(C \cup P2, Try("vkAllocateMemory", {m}, r), C \cup P3, A, F)
    BY <1>7, <1>8, <1>9, PlainCalls, Zenon
  <2>4. Ok(C \cup P3, Try("vkMapMemory", {}, r), C \cup P3, A, F)
    BY <1>5, <1>6, <1>8, <1>9, PlainCalls, Zenon
  <2>5. Ok(C \cup P3, Try("vkCreateCommandPool", {p}, r), C \cup P4, A, F)
    BY <1>7, <1>8, <1>9, PlainCalls, Zenon
  <2>6. Ok(C \cup P4, Try("vkAllocateCommandBuffers", {}, r), C \cup P4, A, F)
    BY <1>5, <1>6, <1>8, <1>9, PlainCalls, Zenon
  <2>7. Ok(C \cup P4, Try("vkCreateFence", {f}, r), C \cup P5, A, F)
    BY <1>7, <1>8, <1>9, PlainCalls, Zenon
  <2> QED
    BY <2>1, <2>2, <2>3, <2>4, <2>5, <2>6, <2>7, Runs7
<1>11. Runs(C \cup P5, record_pattern_upload, C \cup P5, A, F)
  <2>1. Ok(C \cup P5, Try("record", {}, r), C \cup P5, A, F)
    BY <1>5, <1>6, <1>8, <1>9, PlainCalls, Zenon
  <2> QED
    BY <2>1, RunsStep DEF record_pattern_upload, NotSubmitted, r
<1>12. ASSUME NEW call \in {"vkQueueSubmit", "vkWaitForFences"}
       PROVE  Ok(C \cup P5, Try(call, {}, ux), C \cup P5, A, F)
  <2> DEFINE step == Try(call, {}, ux)
  <2>1. step \in Steps /\ step.call = call /\ step.gives = {} /\ step.ends = {} /\ step.undo = ux
    <3>1. ux \in Unwindings
      BY <1>5 DEF Also
    <3>2. call \in Calls
      BY DEF Calls
    <3> QED
      BY <3>1, <3>2 DEF Steps, Try, Step
  <2>2. ((C \cup P5) \ Freed(ux)) \ CheckObjects = C
    BY <1>2, <1>3, <1>5, <1>8 DEF Also
  <2>3. Leaks(call)
    BY DEF Leaks
  <2>4. Left(step, C \cup P5) = C
    BY <2>1, <2>2, <2>3 DEF Left
  <2>5. C \cup P5 \in A
    BY <1>1, <1>8 DEF Fresh
  <2> HIDE DEF step
  <2>6. Ok(C \cup P5, step, C \cup P5, A, F)
    BY <2>1, <2>4, <2>5 DEF Ok, F
  <2> QED
    BY <2>6 DEF step
<1>13. Runs(C \cup P5, <<Try("vkQueueSubmit", {}, ux), Try("vkWaitForFences", {}, ux)>>,
            C \cup P5, A, F)
  <2>1. Ok(C \cup P5, Try("vkQueueSubmit", {}, ux), C \cup P5, A, F)
        /\ Ok(C \cup P5, Try("vkWaitForFences", {}, ux), C \cup P5, A, F)
    BY <1>12
  <2> QED
    BY <2>1, Runs2
<1>14. Runs(C \cup P1, upload_pattern, C \cup P5, A, F)
  <2> DEFINE q == <<Try("vkCreateBuffer", {b}, r), Try("memory type", {}, r),
             Try("vkAllocateMemory", {m}, r), Try("vkMapMemory", {}, r),
             Try("vkCreateCommandPool", {p}, r), Try("vkAllocateCommandBuffers", {}, r),
             Try("vkCreateFence", {f}, r)>>
  <2>1. upload_pattern = q \o record_pattern_upload
                         \o <<Try("vkQueueSubmit", {}, ux), Try("vkWaitForFences", {}, ux)>>
    BY DEF upload_pattern, NotSubmitted, Unfinished, r, ux, b, m, p, f, x
  <2>2. Runs(C \cup P1, q, C \cup P5, A, F)
    BY <1>10
  <2> HIDE DEF q
  <2>3. Runs(C \cup P1, q \o record_pattern_upload, C \cup P5, A, F)
    BY <1>11, <2>2, RunsThrough
  <2> QED
    BY <1>13, <2>1, <2>3, RunsThrough
<1>15. Runs(C \cup P5, host_reads_pattern, C, A, F)
  <2>2. Runs(C \cup P5, <<Try("immediate context", {}, r)>>, C \cup P5, A, F)
    <3>1. Ok(C \cup P5, Try("immediate context", {}, r), C \cup P5, A, F)
      BY <1>5, <1>6, <1>8, <1>9, PlainCalls, Zenon
    <3> QED
      BY <3>1, RunsStep
  <2>3. Runs(C \cup P5, create_staging_texture, C \cup P6, A, F)
    <3>1. Ok(C \cup P5, Try("staging texture", {s}, r), C \cup P6, A, F)
      BY <1>7, <1>8, <1>9, PlainCalls, Zenon
    <3> QED
      BY <3>1, RunsStep DEF create_staging_texture, NotSubmitted, s, r
  <2>4. Ok(C \cup P6, Try("AcquireSync", {}, rs), C \cup P6, A, F)
        /\ Ok(C \cup P6, Try("Map", {}, rs), C \cup P6, A, F)
    BY <1>6, <1>8, <1>9, PlainCalls, Zenon
  <2>5. Ok(C \cup P6, Step("compare", {}, CheckObjects, rs), C, A, F)
    <3>1. {} \in SUBSET CheckObjects /\ CheckObjects \in SUBSET CheckObjects
          /\ Freed(rs) \in SUBSET CheckObjects /\ P6 \subseteq Freed(n) \cup Freed(rs)
          /\ Also(rs, n, Freed(rs))
      BY <1>5, <1>9 DEF Also
    <3>2. Ok(C \cup P6, Step("compare", {}, CheckObjects, rs),
             C \cup ((P6 \cup {}) \ CheckObjects), A, F)
      BY <1>1, <1>8, <3>1, CallOk, PlainCalls, Zenon
    <3>3. C \cup ((P6 \cup {}) \ CheckObjects) = C
      BY <1>8
    <3> QED
      BY <3>2, <3>3
  <2> DEFINE s1 == <<Try("immediate context", {}, r)>> \o create_staging_texture
             s2 == <<Try("AcquireSync", {}, rs), Try("Map", {}, rs),
                     Step("compare", {}, CheckObjects, rs)>>
  <2>6. Runs(C \cup P6, s2, C, A, F)
    BY <2>4, <2>5, Runs3
  <2>7. Runs(C \cup P5, s1, C \cup P6, A, F)
    BY <2>2, <2>3, RunsThrough
  <2>8. host_reads_pattern = s1 \o s2
    BY DEF host_reads_pattern, NotSubmitted, Try, r, rs, s
  <2> HIDE DEF s1, s2
  <2> QED
    BY <2>6, <2>7, <2>8, RunsThrough
<1>16. Runs(C, SharedFrameTarget_new("check", n) \o upload_pattern, C \cup P5, A, F)
  BY <1>4, <1>14, RunsThrough
<1> QED
  BY <1>15, <1>16, RunsThrough DEF shared_texture_works, A, C, F, n

(* init_opengl_resources makes the whole ANGLE state or leaves at most the *)
(* display.                                                                *)
LEMMA AngleDrop ==
    LET v == <<"angle", "device">>
        t == <<"angle", "texture">>
    IN  /\ AngleInteropState_drop \in Seq(Loose)
        /\ Freed(AngleInteropState_drop) = {Display, v, <<"angle", "pbuffer">>}
        /\ Also(<<{v}>>, <<>>, {v})
        /\ Also(<<{t}>> \o AngleInteropState_drop, AngleInteropState_drop, {t})
<1> DEFINE v == <<"angle", "device">>
           t == <<"angle", "texture">>
           p == <<"angle", "pbuffer">>
           d == <<{p, Display}, {v}>>
<1>1. v \in Objects /\ t \in Objects /\ p \in Objects /\ Display \in Objects
  BY Parts DEF AngleObjects, Display
<1>2. /\ v # Device /\ v # Instance /\ t # Device /\ t # Instance /\ p # Device /\ p # Instance
      /\ Display # Device /\ Display # Instance
  BY DEF Device, Instance, Display
<1>3. AngleInteropState_drop = d
  BY DEF AngleInteropState_drop, Display
<1> HIDE DEF v, t, p
<1>4. {v} \in Loose /\ {t} \in Loose /\ {p, Display} \in Loose
  BY <1>1, <1>2 DEF Loose
<1>5. d \in Seq(Loose) /\ Freed(d) = {Display, v, p}
  <2>1. d \in Seq(Loose) /\ 1..Len(d) = {1, 2} /\ d[1] = {p, Display} /\ d[2] = {v}
    BY <1>4
  <2> HIDE DEF d
  <2> QED
    BY <2>1 DEF Freed
<1>6. Also(<<{v}>>, <<>>, {v})
  <2>1. <<{v}>> \in Seq(Loose)
    BY <1>4
  <2> QED
    BY <2>1, LooseIsUnwinding, FreedOfOne
<1> HIDE DEF d
<1>7. Also(<<{t}>> \o d, d, {t})
  BY <1>4, <1>5, LooseIsUnwinding, UndoOne
<1> QED
  BY <1>3, <1>5, <1>6, <1>7 DEF v, t, p

LEMMA AngleRuns == Runs({}, init_opengl_resources, AngleObjects, Orderly(AngleObjects),
            SUBSET {Display})
<1> DEFINE A == Orderly(AngleObjects)
           F == SUBSET {Display}
           v == <<"angle", "device">>
           t == <<"angle", "texture">>
           p == <<"angle", "pbuffer">>
           o == <<"angle", "opened">>
           D == {Display}
           D1 == {Display, v}
           N == {v, t, p, o}
           n == <<>>
           drop == AngleInteropState_drop
           uv == <<{v}>>
           ut == <<{t}>> \o drop
<1>1. /\ AngleObjects = {Display, v, t, p, o} /\ drop \in Unwindings /\ Freed(drop) = {Display, v, p}
      /\ Also(uv, n, {v}) /\ Also(ut, drop, {t}) /\ n \in Unwindings /\ Freed(n) = {}
  <2>1. AngleObjects = {Display, v, t, p, o}
    BY DEF AngleObjects, Display
  <2> QED
    BY <2>1, AngleDrop, LooseIsUnwinding, FreedOfNone
<1>2. Display \notin N /\ v # t /\ v # p /\ v # o /\ t # p /\ t # o /\ p # o
  BY DEF Display
<1>3. AngleObjects \cap DeviceObjects = {} /\ Device \notin AngleObjects
  BY Roles, DeviceRoles DEF Device
<1>4. \A S \in SUBSET AngleObjects : S \in A
  BY <1>3 DEF Orderly, Ordered
<1> HIDE DEF A, v, t, p, o, n, drop, uv, ut
<1>6. Fresh({}, D, n, A, F)
  BY <1>1, <1>4, Parts DEF Fresh
<1>7. Fresh(D, N, n, A, F)
  BY <1>1, <1>2, <1>4, Parts DEF Fresh
<1>8. Fresh(D1, {t, p, o}, drop, A, F)
  BY <1>1, <1>2, <1>4, Parts DEF Fresh
<1> HIDE DEF F
<1>9. Runs({}, get_or_init_shared_egl, {}, A, F)
  <2>1. Runs({}, <<>>, {}, A, F)
    BY <1>4, RunsNothing
  <2>2. Runs({}, <<Try("libEGL and libGLESv2", {}, n)>>, {}, A, F)
    <3>1. Ok({}, Try("libEGL and libGLESv2", {}, n), {}, A, F)
      BY <1>6, FirstTestOk, PlainCalls, Zenon
    <3> QED
      BY <3>1, RunsStep
  <2> QED
    BY <2>1, <2>2 DEF get_or_init_shared_egl, n
<1>10. Runs({}, <<Try("eglGetPlatformDisplayEXT", {}, n), Try("eglInitialize", {Display}, n),
                  Try("eglQueryDeviceAttribEXT", {v}, n), Try("eglChooseConfig", {}, uv)>>,
                              D1, A, F)
  <2>1. Ok({}, Try("eglGetPlatformDisplayEXT", {}, n), {}, A, F)
    BY <1>6, FirstTestOk, PlainCalls, Zenon
  <2>2. Ok({}, Try("eglInitialize", {Display}, n), D, A, F)
    <3>1. Display \in D /\ {} \cup {Display} = D
      OBVIOUS
    <3>2. Ok({}, Try("eglInitialize", {Display}, n), {} \cup {Display}, A, F)
      BY <1>6, <3>1, FirstMakeOk, PlainCalls, Zenon
    <3> QED
      BY <3>1, <3>2
  <2>3. v \in N /\ D \cup {v} = D1 /\ {v} \in SUBSET N /\ {v} \subseteq Freed(n) \cup {v}
    OBVIOUS
  <2>4. Ok(D, Try("eglQueryDeviceAttribEXT", {v}, n), D1, A, F)
    <3>1. Ok(D, Try("eglQueryDeviceAttribEXT", {v}, n), D \cup {v}, A, F)
      BY <1>7, <2>3, FirstMakeOk, PlainCalls, Zenon
    <3> QED
      BY <2>3, <3>1
  <2>5. Ok(D1, Try("eglChooseConfig", {}, uv), D1, A, F)
    <3>1. Ok(D \cup {v}, Try("eglChooseConfig", {}, uv), D \cup {v}, A, F)
      BY <1>1, <1>7, <2>3, TestOk, PlainCalls, Zenon
    <3> QED
      BY <2>3, <3>1
  <2> HIDE DEF D, D1
  <2> QED
    BY <2>1, <2>2, <2>4, <2>5, Runs4
<1>11. Runs({}, AngleInteropState_new, D1, A, F)
  BY <1>9, <1>10, RunsThrough DEF AngleInteropState_new, v, Display, n, uv
<1> DEFINE R == {t, p, o}
<1>12. Runs(D1, recreate_resources(drop), D1 \cup {t, p}, A, F)
  <2>1. t \in R /\ p \in R /\ {t} \in SUBSET R /\ {t} \subseteq Freed(drop) \cup {t}
              /\ {t} \cup {p} = {t, p}
    OBVIOUS
  <2> HIDE DEF R, D1
  <2>2. Ok(D1, Try("CreateTexture2D", {t}, drop), D1 \cup {t}, A, F)
    BY <1>8, <2>1, FirstMakeOk, PlainCalls, Zenon DEF R
  <2>3. Ok(D1 \cup {t}, Try("GetSharedHandle", {}, ut), D1 \cup {t}, A, F)
    BY <1>1, <1>8, <2>1, TestOk, PlainCalls, Zenon DEF R
  <2>4. Ok(D1 \cup {t}, Try("eglCreatePbufferFromClientBuffer", {p}, ut),
           D1 \cup ({t} \cup {p}), A, F)
    BY <1>1, <1>8, <2>1, MakeOk, PlainCalls, Zenon DEF R
  <2>5. Runs(D1, <<Try("CreateTexture2D", {t}, drop), Try("GetSharedHandle", {}, ut)>>,
             D1 \cup {t}, A, F)
    BY <2>2, <2>3, Runs2
  <2>6. Runs(D1 \cup {t}, <<Try("eglCreatePbufferFromClientBuffer", {p}, ut)>>,
             D1 \cup {t, p}, A, F)
    BY <2>1, <2>4, RunsStep
  <2> QED
    BY <2>5, <2>6, RunsThrough
       DEF recreate_resources, create_shared_texture_and_get_handle, t, p, ut
<1>13. Runs(D1 \cup {t, p}, <<Try("OpenSharedResource", {o}, ut)>>, AngleObjects, A, F)
  <2>1. /\ o \in R /\ {t, p} \in SUBSET R /\ {t} \in SUBSET R
        /\ {t, p} \subseteq Freed(drop) \cup {t}
        /\ D1 \cup ({t, p} \cup {o}) = AngleObjects
    BY <1>1
  <2> HIDE DEF R, D1
  <2>2. Ok(D1 \cup {t, p}, Try("OpenSharedResource", {o}, ut), D1 \cup ({t, p} \cup {o}), A, F)
    BY <1>1, <1>8, <2>1, MakeOk, PlainCalls, Zenon DEF R
  <2> QED
    BY <2>1, <2>2, RunsStep
<1>14. Runs({}, AngleInteropState_new \o recreate_resources(drop), D1 \cup {t, p}, A, F)
  BY <1>11, <1>12, RunsThrough
<1> DEFINE s1 == AngleInteropState_new \o recreate_resources(drop)
           s2 == <<Try("OpenSharedResource", {o}, ut)>>
<1>15. init_opengl_resources = s1 \o s2
  BY DEF init_opengl_resources, drop, t, o, ut
<1>16. Runs({}, s1, D1 \cup {t, p}, A, F) /\ Runs(D1 \cup {t, p}, s2, AngleObjects, A, F)
  BY <1>13, <1>14
<1> HIDE DEF s1, s2
<1> QED
  BY <1>15, <1>16, RunsThrough DEF A, F

-----------------------------------------------------------------------------
(* Types.  A function's calls are well-formed steps, whatever it is.       *)
LEMMA RunsStart ==
    ASSUME NEW A, NEW F, NEW P, NEW Q, NEW s, Runs(P, s, Q, A, F)
    PROVE  P \in A
<1>1. PICK h \in [0..Len(s) -> A] : h[0] = P
  BY DEF Runs
<1>2. Len(s) \in Nat
  BY DEF Runs
<1> QED
  BY <1>1, <1>2

(* The calls before a renderer is chosen make nothing; those that start    *)
(* the engine either cannot fail or release the whole renderer when they   *)
(* do.                                                                     *)
QuietSteps == {s \in Steps : s.gives = {} /\ s.ends = {}}

Certain(call) == call \in {"start_task_runner", "FlutterEngineCreateAOTData"}
EngineSteps(r, mode) ==
    {s \in Steps : /\ s.gives \subseteq EngineObjects /\ s.ends = {}
                   /\ \/ Certain(s.call)
                      \/ Freed(FlutterOverlay_drop(r, mode)) \subseteq Freed(s.undo)}

LEMMA HostIsLoose ==
    <<HostObjects>> \in Seq(Loose) /\ Freed(<<HostObjects>>) = HostObjects
<1>1. Device \notin HostObjects /\ Instance \notin HostObjects
  BY Roles DEF Device, Instance
<1>2. HostObjects \in Loose
  BY <1>1, Parts DEF Loose
<1> QED
  BY <1>2, FreedOfOne

(* Dropping an overlay releases its whole renderer.                        *)
LEMMA OverlayDrop ==
    ASSUME NEW r \in Renderers, NEW mode
    PROVE  /\ FlutterOverlay_drop(r, mode) \in Unwindings
           /\ HostObjects \subseteq Freed(FlutterOverlay_drop(r, mode))
           /\ r = "Vulkan" => BuiltVulkan(mode) \subseteq Freed(FlutterOverlay_drop(r, mode))
           /\ r = "OpenGL" => AngleObjects \subseteq Freed(FlutterOverlay_drop(r, mode))
<1> DEFINE u == FlutterOverlay_drop(r, mode)
           h == <<HostObjects>>
<1>1. h \in Seq(Loose) /\ Freed(h) = HostObjects
  BY HostIsLoose
<1>2. CASE r = "Vulkan"
  <2> DEFINE d == VulkanInteropState_drop(destroy("render"), FrameTarget_drop(mode))
  <2>1. u = h \o d
    BY <1>2 DEF FlutterOverlay_drop
  <2>2. ImageObjects("render") \subseteq Objects
    BY Parts
  <2>3. /\ d \in Unwindings
        /\ Freed(d) = ContextObjects \cup CopyObjects \cup ImageObjects("render")
                         \cup TargetFor(mode)
    BY <2>2, DestroyIsLoose, FrameTargetDrop, StateDrop
  <2> HIDE DEF d, h, u
  <2>4. Also(h \o d, d, Freed(h))
    BY <1>1, <2>3, LooseBefore
  <2> QED
    BY <1>1, <1>2, <2>1, <2>3, <2>4 DEF Also, BuiltVulkan, u
<1>3. CASE r = "OpenGL"
  <2> DEFINE a == AngleInteropState_drop
             t == <<"angle", "texture">>
             o == <<"angle", "opened">>
             c == <<{t}, {o}>>
  <2>1. u = h \o (a \o c)
    BY <1>3 DEF FlutterOverlay_drop
  <2>2. a \in Seq(Loose) /\ Freed(a) = {Display, <<"angle", "device">>, <<"angle", "pbuffer">>}
    BY AngleDrop
  <2>3. AngleObjects = Freed(a) \cup {t, o}
    BY <2>2 DEF AngleObjects, Display
  <2>4. t # Device /\ t # Instance /\ o # Device /\ o # Instance
    BY DEF Device, Instance
  <2> HIDE DEF a, t, o, h, u
  <2>5. t \in Objects /\ o \in Objects
    BY <2>3, Parts
  <2>6. c \in Seq(Loose) /\ Freed(c) = {t, o}
    <3>1. {t} \in Loose /\ {o} \in Loose
      BY <2>4, <2>5, AnyTime
    <3>2. c \in Seq(Loose) /\ 1..Len(c) = {1, 2} /\ c[1] = {t} /\ c[2] = {o}
      BY <3>1
    <3> QED
      BY <3>2 DEF Freed
  <2> HIDE DEF c
  <2>7. a \o c \in Seq(Loose) /\ Freed(a \o c) = AngleObjects
    BY <2>2, <2>3, <2>6, LooseConcat
  <2>8. h \o (a \o c) \in Seq(Loose) /\ Freed(h \o (a \o c)) = HostObjects \cup AngleObjects
    BY <1>1, <2>7, LooseConcat
  <2> QED
    BY <1>3, <2>1, <2>8, LooseIsUnwinding DEF u
<1>4. CASE r = "Software"
  <2>1. u = h \o <<>>
    BY <1>4 DEF FlutterOverlay_drop
  <2>2. h \o <<>> = h
    BY <1>1
  <2> HIDE DEF h, u
  <2> QED
    BY <1>1, <1>4, <2>1, <2>2, LooseIsUnwinding DEF u
<1> QED
  BY <1>2, <1>3, <1>4 DEF Renderers

(* One release of an unwinding, and those after it.                        *)
LEMMA UnwindOn ==
    ASSUME NEW u \in Unwindings, u # <<>>
    PROVE  /\ Head(u) \subseteq Objects /\ Tail(u) \in Unwindings
           /\ Freed(u) = Head(u) \cup Freed(Tail(u))
           /\ Device \in Head(u) => Freed(u) \cap DeviceObjects = {}
           /\ Instance \in Head(u) => Device \notin Freed(u)
<1>1. u \in Seq(SUBSET Objects) /\ InOrder(u)
  BY DEF Unwindings
<1>2. /\ Len(u) \in Nat \ {0} /\ Head(u) = u[1] /\ u[1] \in SUBSET Objects
      /\ Tail(u) \in Seq(SUBSET Objects) /\ Len(Tail(u)) = Len(u) - 1
      /\ \A i \in 1..Len(Tail(u)) : Tail(u)[i] = u[i+1]
  BY <1>1
<1>3. Tail(u) \in Unwindings
  <2>1. ASSUME NEW i \in 1..Len(Tail(u)), NEW j \in i..Len(Tail(u))
        PROVE  /\ Device \in Tail(u)[i] => Tail(u)[j] \cap DeviceObjects = {}
               /\ Instance \in Tail(u)[i] => Device \notin Tail(u)[j]
    <3>1. /\ i+1 \in 1..Len(u) /\ j+1 \in (i+1)..Len(u)
          /\ Tail(u)[i] = u[i+1] /\ Tail(u)[j] = u[j+1]
      BY <1>2
    <3> QED
      BY <1>1, <3>1 DEF InOrder
  <2> QED
    BY <1>2, <2>1 DEF Unwindings, InOrder
<1>4. Freed(u) = Head(u) \cup Freed(Tail(u))
  <2>1. ASSUME NEW x \in Freed(u) PROVE x \in Head(u) \cup Freed(Tail(u))
    <3>1. PICK i \in 1..Len(u) : x \in u[i]
      BY DEF Freed
    <3>2. CASE i = 1
      BY <1>2, <3>1, <3>2
    <3>3. CASE i # 1
      <4>1. i-1 \in 1..Len(Tail(u)) /\ Tail(u)[i-1] = u[(i-1)+1] /\ (i-1)+1 = i
        BY <1>2, <3>3
      <4> QED
        BY <3>1, <4>1 DEF Freed
    <3> QED
      BY <3>2, <3>3
  <2>2. Head(u) \subseteq Freed(u)
    <3>1. 1 \in 1..Len(u)
      BY <1>2
    <3> QED
      BY <1>2, <3>1 DEF Freed
  <2>3. ASSUME NEW x \in Freed(Tail(u)) PROVE x \in Freed(u)
    <3>1. PICK i \in 1..Len(Tail(u)) : x \in Tail(u)[i]
      BY DEF Freed
    <3>2. i+1 \in 1..Len(u) /\ x \in u[i+1]
      BY <1>2, <3>1
    <3> QED
      BY <3>2 DEF Freed
  <2> QED
    BY <2>1, <2>2, <2>3
<1>5. \A j \in 1..Len(u) : /\ Device \in u[1] => u[j] \cap DeviceObjects = {}
                           /\ Instance \in u[1] => Device \notin u[j]
  <2>1. 1 \in 1..Len(u)
    BY <1>2
  <2> QED
    BY <1>1, <2>1 DEF InOrder
<1>6. ASSUME NEW x \in Freed(u)
      PROVE  /\ Device \in Head(u) => x \notin DeviceObjects
             /\ Instance \in Head(u) => x # Device
  <2>1. PICK i \in 1..Len(u) : x \in u[i]
    BY DEF Freed
  <2> QED
    BY <1>2, <1>5, <2>1
<1> QED
  BY <1>2, <1>3, <1>4, <1>6

LEMMA OverlayBeginsQuietly == init_overlay_begins \in Seq(QuietSteps)
<1> DEFINE l == Try("LoadLibrary", {}, <<>>)
           s == Try("symbols", {}, <<>>)
           n == Try("non-zero size", {}, <<>>)
           d == Try("GetDesc", {}, <<>>)
<1>1. l \in QuietSteps /\ s \in QuietSteps /\ n \in QuietSteps /\ d \in QuietSteps
  <2>1. \A call \in Calls : Try(call, {}, <<>>) \in QuietSteps
    BY FreedOfNone DEF QuietSteps, Steps, Try, Step
  <2> QED
    BY <2>1 DEF Calls
<1> HIDE DEF l, s, n, d
<1>2. <<n, d>> \in Seq(QuietSteps)
  BY <1>1
<1>3. load \in Seq(QuietSteps) /\ <<>> \in Seq(QuietSteps)
  <2>1. <<l, s>> \in Seq(QuietSteps) /\ <<>> \in Seq(QuietSteps)
    BY <1>1
  <2> QED
    BY <2>1 DEF load, l, s
<1>4. get_for \in Seq(QuietSteps)
  BY <1>3 DEF get_for
<1> HIDE DEF QuietSteps
<1> QED
  BY <1>2, <1>4, ConcatProperties DEF init_overlay_begins, n, d

LEMMA EngineStartSteps ==
    ASSUME NEW aot \in BOOLEAN, NEW r \in Renderers, NEW mode
    PROVE  init_overlay_runs(aot, r, mode) \in Seq(EngineSteps(r, mode))
<1> DEFINE e == <<"engine", "engine">>
           a == <<"engine", "aot">>
           t == <<"engine", "threads">>
           d == FlutterOverlay_drop(r, mode)
           n == <<>>
           E == EngineSteps(r, mode)
<1>1. /\ e \in EngineObjects /\ a \in EngineObjects /\ t \in EngineObjects
      /\ e # Device /\ e # Instance
  BY DEF EngineObjects, Device, Instance
<1>2. EngineObjects \subseteq Objects /\ d \in Unwindings /\ n \in Unwindings
  BY Parts, OverlayDrop, FreedOfNone
<1>3. E = {s \in Steps : /\ s.gives \subseteq EngineObjects /\ s.ends = {}
                         /\ Certain(s.call) \/ Freed(d) \subseteq Freed(s.undo)}
  BY DEF EngineSteps
<1> HIDE DEF e, a, t, d, n, E
<1>4. ASSUME NEW call \in Calls, NEW g \in SUBSET EngineObjects, NEW v \in Unwindings,
             Certain(call) \/ Freed(d) \subseteq Freed(v)
      PROVE  Try(call, g, v) \in E
  <2> DEFINE s == Try(call, g, v)
  <2>1. s \in Steps /\ s.call = call /\ s.gives = g /\ s.ends = {} /\ s.undo = v
    BY <1>2 DEF Steps, Try, Step
  <2> HIDE DEF s
  <2>2. s \in E
    BY <1>3, <1>4, <2>1
  <2> QED
    BY <2>2 DEF s
<1>5. Also(<<{e}>> \o d, d, {e})
  BY <1>1, <1>2, AnyTime, UndoOne
<1> DEFINE v == <<{e}>> \o d
<1>6. v \in Unwindings /\ Freed(d) \subseteq Freed(v)
  BY <1>5 DEF Also
<1> HIDE DEF v
<1>7. /\ "FlutterEngineInitialize" \in Calls /\ "FlutterEngineRunInitialized" \in Calls
      /\ "start_task_runner" \in Calls /\ "FlutterEngineCreateAOTData" \in Calls
      /\ Certain("start_task_runner") /\ Certain("FlutterEngineCreateAOTData")
  BY DEF Calls, Certain
<1>8. {e} \in SUBSET EngineObjects /\ {a} \in SUBSET EngineObjects /\ {t} \in SUBSET EngineObjects
      /\ {} \in SUBSET EngineObjects /\ Freed(d) \subseteq Freed(d)
  BY <1>1
<1>9. Try("FlutterEngineInitialize", {e}, d) \in E
  BY <1>2, <1>4, <1>7, <1>8, Zenon
<1>10. Try("FlutterEngineRunInitialized", {}, v) \in E
  BY <1>4, <1>6, <1>7, <1>8, Zenon
<1>11. Try("start_task_runner", {t}, n) \in E
  BY <1>2, <1>4, <1>7, <1>8, Zenon
<1>12. Try("FlutterEngineCreateAOTData", {a}, n) \in E
  BY <1>2, <1>4, <1>7, <1>8, Zenon
<1>13. run_engine(r, mode) \in Seq(E)
  BY <1>9, <1>10 DEF run_engine, e, d, v
<1>14. start_task_runner \in Seq(E)
  BY <1>11 DEF start_task_runner, t, n
<1>15. CreateAOTData(aot) \in Seq(E)
  BY <1>12 DEF CreateAOTData, a, n
<1>16. start_task_runner \o CreateAOTData(aot) \in Seq(E)
  BY <1>14, <1>15, ConcatProperties
<1> QED
  BY <1>13, <1>16, ConcatProperties DEF init_overlay_runs, E

LEMMA SeqOfSubset ==
    ASSUME NEW S, NEW T, S \subseteq T, NEW s \in Seq(S)
    PROVE  s \in Seq(T)
  OBVIOUS

LEMMA AllSteps ==
    /\ QuietSteps \subseteq Steps /\ \A r, mode : EngineSteps(r, mode) \subseteq Steps
    /\ VulkanContext_new \in Seq(Steps) /\ shared_texture_works \in Seq(Steps)
    /\ \A mode : with_handoff(mode) \in Seq(Steps)
    /\ init_opengl_resources \in Seq(Steps)
    /\ init_overlay_begins \in Seq(Steps)
    /\ \A aot \in BOOLEAN, r \in Renderers : \A mode :
          init_overlay_runs(aot, r, mode) \in Seq(Steps)
<1>1. QuietSteps \subseteq Steps /\ \A r, mode : EngineSteps(r, mode) \subseteq Steps
  BY DEF QuietSteps, EngineSteps
<1>2. init_overlay_begins \in Seq(Steps)
  BY <1>1, OverlayBeginsQuietly, SeqOfSubset
<1>3. ASSUME NEW aot \in BOOLEAN, NEW r \in Renderers, NEW mode
      PROVE  init_overlay_runs(aot, r, mode) \in Seq(Steps)
  <2>1. /\ EngineSteps(r, mode) \subseteq Steps
        /\ init_overlay_runs(aot, r, mode) \in Seq(EngineSteps(r, mode))
    BY <1>1, EngineStartSteps
  <2> QED
    BY <2>1, SeqOfSubset
<1>4. VulkanContext_new \in Seq(Steps) /\ shared_texture_works \in Seq(Steps)
  BY ContextRuns, CheckRuns DEF Runs
<1>5. \A mode : with_handoff(mode) \in Seq(Steps)
  BY StateRuns DEF Runs
<1>6. init_opengl_resources \in Seq(Steps)
  BY AngleRuns DEF Runs
<1> QED
  BY <1>1, <1>2, <1>3, <1>4, <1>5, <1>6

TypeInv == TypeOK /\ todo \in Seq(Steps) /\ unwinding \in Unwindings

LEMMA TypeInit == Init => TypeInv
<1> SUFFICES ASSUME Init PROVE TypeInv
  OBVIOUS
<1>1. stage \in [Overlays -> Stages] /\ renderer \in [Overlays -> Renderers \cup {"none"}]
  BY DEF Init, Stages
<1>2. handoff \in [Overlays -> {"none", "shared", "readback"}]
      /\ delivers \in [Overlays -> {"untested", "delivers", "fails"}]
  BY DEF Init
<1>3. live \in [Overlays -> SUBSET Objects] /\ leaked \in [Overlays -> SUBSET CheckObjects]
  BY DEF Init
<1>4. /\ starting \in Overlays \cup {NoOverlay} /\ phase \in Phases
      /\ starter \in {"calls", "queues", "unwinds", "drains"} /\ slot \in BOOLEAN
      /\ cached \subseteq {"dll", "egl"} /\ loader \in Nat /\ realFns \in Nat
  BY DEF Init, Phases
<1>5. todo \in Seq(Steps)
  <2>1. <<>> \in Seq(Steps)
    OBVIOUS
  <2> QED
    BY <2>1 DEF Init
<1>6. unwinding \in Unwindings
  BY FreedOfNone DEF Init
<1> QED
  BY <1>1, <1>2, <1>3, <1>4, <1>5, <1>6 DEF TypeInv, TypeOK, Unwindings

LEMMA TypeFail ==
    ASSUME TypeInv, starting # NoOverlay, todo # <<>>, Fail(Current)
    PROVE  TypeInv'
<1>1. Current \in Steps /\ starting \in Overlays /\ live[starting] \in SUBSET Objects
  BY DEF TypeInv, TypeOK, Current
<1>2. <<>> \in Seq(Steps)
  OBVIOUS
<1>3. todo' \in Seq(Steps) /\ unwinding' \in Unwindings
  BY <1>1, <1>2 DEF Fail, Steps
<1>4. leaked' \in [Overlays -> SUBSET CheckObjects]
  BY <1>1 DEF TypeInv, TypeOK, Fail
<1>5. UNCHANGED <<overlayVars, live, starting, phase, attempts, processVars>>
      /\ starter' \in {"calls", "queues", "unwinds", "drains"}
  BY DEF Fail
<1> QED
  BY <1>3, <1>4, <1>5 DEF TypeInv, TypeOK, overlayVars, processVars, Unwindings

LEMMA TypeSucceed ==
    ASSUME TypeInv, starting # NoOverlay, todo # <<>>, Succeed(Current),
           starter' \in {"calls", "queues", "unwinds", "drains"}
    PROVE  TypeInv'
<1>1. Current \in Steps /\ todo' \in Seq(Steps)
  BY DEF TypeInv, Succeed, Current
<1>2. starting \in Overlays /\ live' = [live EXCEPT ![starting] = (@
            \cup Current.gives) \ Current.ends]
  BY DEF TypeInv, TypeOK, Succeed
<1>3. live' \in [Overlays -> SUBSET Objects]
  BY <1>1, <1>2 DEF TypeInv, TypeOK, Steps
<1>4. loader' \in Nat /\ realFns' \in Nat
  <2>1. loader \in Nat /\ realFns \in Nat
    BY DEF TypeInv, TypeOK
  <2>2. loader' \in {loader, loader + 1} /\ realFns' \in {loader, realFns}
    BY DEF Succeed, LoadEntry, Remember
  <2> QED
    BY <2>1, <2>2
<1>5. cached' \subseteq {"dll", "egl"}
  BY DEF TypeInv, TypeOK, Succeed, Remember
<1>6. UNCHANGED <<overlayVars, leaked, starting, phase, attempts, unwinding, slot>>
  BY DEF Succeed
<1> QED
  BY <1>1, <1>3, <1>4, <1>5, <1>6 DEF TypeInv, TypeOK, overlayVars

LEMMA TypeNext == TypeInv /\ NextFunction => TypeInv'
<1> SUFFICES ASSUME TypeInv, NextFunction PROVE TypeInv'
  OBVIOUS
<1>0. UNCHANGED <<leaked, starting, unwinding, starter, cached, loader, realFns>>
  BY DEF NextFunction
<1>1. CASE try_init_vulkan
  BY <1>0, <1>1, AllSteps DEF try_init_vulkan, Enter, TypeInv, TypeOK, overlayVars, Phases
<1>2. CASE try_init_opengl
  <2>0. <<>> \in Seq(Steps) /\ slot \in BOOLEAN
    BY DEF TypeInv, TypeOK
  <2>1. todo' \in Seq(Steps) /\ phase' \in {"init_overlay", "angle"} /\ slot' \in BOOLEAN
    BY <1>2, <2>0, AllSteps DEF try_init_opengl, Enter
  <2> QED
    BY <1>0, <1>2, <2>1 DEF try_init_opengl, TypeInv, TypeOK, overlayVars, Phases
<1>3. ASSUME starting # NoOverlay, UNCHANGED <<stage, handoff, delivers, slot>>,
            NEW r \in Renderers, RendererReady(r)
      PROVE  TypeInv'
  <2>1. todo' \in Seq(Steps) /\ phase' = "engine"
    BY <1>3, AllSteps DEF RendererReady, Enter
  <2>2. starting \in Overlays
    BY <1>3 DEF TypeInv, TypeOK
  <2>3. live' \in [Overlays -> SUBSET Objects]
    BY <1>3, <2>2 DEF RendererReady, TypeInv, TypeOK, Objects
  <2>4. renderer' \in [Overlays -> Renderers \cup {"none"}]
    BY <1>3, <2>2 DEF RendererReady, TypeInv, TypeOK
  <2> QED
    BY <1>0, <1>3, <2>1, <2>3, <2>4 DEF TypeInv, TypeOK, Phases
<1>4. CASE build_software_renderer
  BY <1>3, <1>4 DEF build_software_renderer, Returned, Renderers
<1>5. CASE VulkanReady
  BY <1>3, <1>5 DEF VulkanReady, Returned, Renderers
<1>6. CASE OpenGLReady
  BY <1>3, <1>6 DEF OpenGLReady, Returned, Renderers
<1>7. CASE PickHandoff
  <2>1. PICK mode \in {"shared", "readback"} :
          /\ handoff' = [handoff EXCEPT ![starting] = mode]
          /\ IF mode = "shared" THEN Enter("check", shared_texture_works)
                                ELSE Enter("state", with_handoff(mode))
    BY <1>7 DEF PickHandoff
  <2>2. todo' \in Seq(Steps) /\ phase' \in Phases
    BY <2>1, AllSteps DEF Enter, Phases
  <2>3. handoff' \in [Overlays -> {"none", "shared", "readback"}]
    BY <2>1 DEF TypeInv, TypeOK
  <2> QED
    BY <1>0, <1>7, <2>2, <2>3 DEF PickHandoff, TypeInv, TypeOK
<1>8. CASE TextureFails
  BY <1>0, <1>8, AllSteps DEF TextureFails, use_readback, Enter, TypeInv, TypeOK, Phases
<1>9. CASE TextureDelivers
  BY <1>0, <1>9, AllSteps DEF TextureDelivers, Enter, TypeInv, TypeOK, Phases
<1> QED
  BY <1>1, <1>2, <1>4, <1>5, <1>6, <1>7, <1>8, <1>9 DEF NextFunction

LEMMA TypeStep == LockInv /\ TypeInv /\ [Next]_vars => TypeInv'
<1> SUFFICES ASSUME LockInv, TypeInv, [Next]_vars PROVE TypeInv'
  OBVIOUS
<1>1. ASSUME NEW o \in Overlays, create(o) PROVE TypeInv'
  BY <1>1, AllSteps DEF create, TypeInv, TypeOK, Stages, Phases, processVars
<1>2. ASSUME NEW o \in Overlays, NEW t \in EngineThreads, EngineCalls(o, t) \/ CallReturns(o, t)
      PROVE  TypeInv'
  BY <1>2 DEF EngineCalls, CallReturns, overlayVars, startVars, processVars, TypeInv, TypeOK
<1>3. CASE CallSucceeds
  BY <1>3, TypeSucceed DEF CallSucceeds, Calling, TypeInv, TypeOK
<1>4. CASE CallFails
  BY <1>4, TypeFail DEF CallFails, Calling
<1>5. CASE CallQueues \/ wait_idle
  BY <1>5 DEF CallQueues, wait_idle, EnterQueue, overlayVars, processVars, TypeInv, TypeOK
<1>6. CASE QueueCallEnds
  <2>1. starting # NoOverlay /\ todo # <<>>
    BY <1>6 DEF QueueCallEnds, LockInv
  <2> QED
    BY <1>6, <2>1, TypeFail, TypeSucceed DEF QueueCallEnds
<1>7. CASE Release
  <2>1. /\ unwinding \in Unwindings /\ unwinding # <<>> /\ unwinding' = Tail(unwinding)
        /\ live' = [live EXCEPT ![starting] = @ \ Head(unwinding)]
    BY <1>7 DEF Release, Unwinding, TypeInv
  <2>2. unwinding' \in Unwindings
    BY <2>1, UnwindOn
  <2>3. live' \in [Overlays -> SUBSET Objects]
    BY <2>1 DEF TypeInv, TypeOK
  <2> QED
    BY <1>7, <2>2, <2>3 DEF Release, overlayVars, processVars, TypeInv, TypeOK, Unwindings
<1>8. CASE DeviceIdle
  <2>1. unwinding \in Unwindings /\ unwinding # <<>> /\ unwinding' = Tail(unwinding)
    BY <1>8 DEF DeviceIdle, LockInv, TypeInv
  <2>2. unwinding' \in Unwindings
    BY <2>1, UnwindOn
  <2> QED
    BY <1>8, <2>2 DEF DeviceIdle, overlayVars, processVars, TypeInv, TypeOK, Unwindings
<1>9. CASE Unwound
  <2>1. stage' \in [Overlays -> Stages] /\ starting' \in Overlays \cup {NoOverlay}
    BY <1>9 DEF Unwound, TypeInv, TypeOK, GiveUp, Stages
  <2>2. delivers' \in [Overlays -> {"untested", "delivers", "fails"}] /\ phase' \in Phases
        /\ slot' \in BOOLEAN
    BY <1>9 DEF Unwound, TypeInv, TypeOK, Phases
  <2> QED
    BY <1>9, <2>1, <2>2 DEF Unwound, TypeInv, TypeOK
<1>10. CASE Created
  BY <1>10 DEF Created, Returned, processVars, TypeInv, TypeOK, Stages
<1>11. CASE UNCHANGED vars
  BY <1>11 DEF vars, overlayVars, startVars, processVars, TypeInv, TypeOK
<1> QED
  BY <1>1, <1>2, <1>3, <1>4, <1>5, <1>6, <1>7, <1>8, <1>9, <1>10, <1>11, TypeNext
     DEF Next, StarterStep

-----------------------------------------------------------------------------
(* The invariant about the objects.  What an overlay owns is what it has   *)
(* less what its check leaked; some of it is left when an unwinding ends.  *)
Own(o) == live[o] \ leaked[o]
Rest(o) == Own(o) \ Freed(unwinding)

(* The objects of the renderer an overlay has, all of it.                  *)
Works(o, S) ==
    /\ renderer[o] # "none"
    /\ renderer[o] = "Vulkan" => S = BuiltVulkan(handoff[o]) \cup HostObjects
    /\ renderer[o] = "OpenGL" => S = AngleObjects \cup HostObjects
    /\ renderer[o] = "Software" => S = HostObjects \/ S = HostObjects \cup {Display}

(* An overlay that is not being started; one that is, by the function its  *)
(* start is in.                                                            *)
Idle(o) ==
    /\ stage[o] # "starting"
    /\ stage[o] = "none" => live[o] = {} /\ leaked[o] = {} /\ renderer[o] = "none"
    /\ stage[o] = "failed" => Own(o) \subseteq EngineObjects \cup {Display}
    /\ stage[o] = "running" => Works(o, Own(o) \ EngineObjects)

Choosing(o) ==
    /\ attempts \in {<<"Vulkan", "OpenGL", "Software">>, <<"OpenGL", "Software">>, <<"Software">>}
    /\ todo \in Seq(QuietSteps)
    /\ Own(o) \subseteq {Display}
    /\ attempts # <<"Software">> => Own(o) = {}
    /\ attempts = <<"Vulkan", "OpenGL", "Software">> => leaked[o] = {}

ContextBuilt(o) ==
    /\ attempts = <<"OpenGL", "Software">> /\ leaked[o] = {}
    /\ Runs(Own(o), todo, ContextObjects, Orderly(VulkanObjects), {{}})

Checking(o) ==
    /\ attempts = <<"OpenGL", "Software">> /\ handoff[o] = "shared"
    /\ leaked[o] = {} \/ todo = <<>>
    /\ Runs(Own(o), todo, ContextObjects, Orderly(ContextObjects \cup CheckObjects),
            {ContextObjects})

StateBuilt(o) ==
    /\ attempts = <<"OpenGL", "Software">>
    /\ Runs(Own(o), todo, BuiltVulkan(handoff[o]), Orderly(VulkanObjects), {{}})

AngleBuilt(o) ==
    /\ attempts = <<"Software">>
    /\ Runs(Own(o), todo, AngleObjects, Orderly(AngleObjects), SUBSET {Display})

EngineBuilt(o) ==
    /\ todo \in Seq(EngineSteps(renderer[o], handoff[o]))
    /\ Works(o, Own(o) \ EngineObjects)

Building(o) ==
    /\ stage[o] = "starting"
    /\ phase # "engine" => renderer[o] = "none"
    /\ phase # "software"
    /\ phase = "init_overlay" => Choosing(o)
    /\ phase = "context" => ContextBuilt(o)
    /\ phase = "check" => Checking(o)
    /\ phase = "state" => StateBuilt(o)
    /\ phase = "angle" => AngleBuilt(o)
    /\ phase = "engine" => EngineBuilt(o)

(* A start that unwinds: what it owns is in order, and so is what is left  *)
(* in the end, which the next attempt starts from.                         *)
Undoing(o) ==
    /\ stage[o] = "starting" /\ todo = <<>>
    /\ phase # "engine" => renderer[o] = "none"
    /\ phase # "software"
    /\ Ordered(Own(o)) /\ Ordered(Rest(o))
    /\ phase \in {"context", "state"} =>
          attempts = <<"OpenGL", "Software">> /\ Rest(o) = {}
    /\ phase = "check" =>
          /\ attempts = <<"OpenGL", "Software">> /\ handoff[o] = "shared"
          /\ Rest(o) = ContextObjects
    /\ phase = "angle" => attempts = <<"Software">> /\ Rest(o) \subseteq {Display}
    /\ phase \in {"init_overlay", "engine"} => Rest(o) \subseteq EngineObjects \cup {Display}

Forward == starter \in {"calls", "queues"}
Started(o) == IF Forward THEN Building(o) ELSE Undoing(o)
Each(o) == IF starting = o THEN Started(o) ELSE Idle(o)

BuildInv ==
    /\ \A o \in Overlays : Each(o)
    /\ starter = "queues" => QueueCall(Current.call)
    /\ starter = "drains" => Head(unwinding) = WaitIdle

LEMMA BuildInit == Init => BuildInv
  BY NoOverlayAssumption DEF Init, BuildInv, Each, Idle, Own

(* An overlay a step does not touch. *)
LEMMA IdleStays ==
    ASSUME NEW o \in Overlays, Idle(o),
           stage'[o] = stage[o], renderer'[o] = renderer[o], handoff'[o] = handoff[o],
           live'[o] = live[o], leaked'[o] = leaked[o]
    PROVE  Idle(o)'
  BY DEF Idle, Own, Works

LEMMA OthersStay ==
    ASSUME TypeInv, BuildInv, starting # NoOverlay, NEW o \in Overlays, o # starting,
           \/ \E step : Succeed(step) \/ Fail(step)
           \/ Release \/ Unwound \/ NextFunction \/ Created
    PROVE  Idle(o)'
<1>0. Idle(o)
  BY DEF BuildInv, Each
<1>1. ASSUME NEW step, Succeed(step) PROVE Idle(o)'
  BY <1>0, <1>1, IdleStays DEF Succeed, overlayVars, TypeInv, TypeOK
<1>2. ASSUME NEW step, Fail(step) PROVE Idle(o)'
  <2>1. leaked'[o] = leaked[o] /\ UNCHANGED <<stage, renderer, handoff, live>>
    BY <1>2 DEF Fail, overlayVars, TypeInv, TypeOK
  <2> QED
    BY <1>0, <2>1, IdleStays
<1>5. CASE Release
  <2>1. live'[o] = live[o] /\ UNCHANGED <<stage, renderer, handoff, leaked>>
    BY <1>5 DEF Release, overlayVars, TypeInv, TypeOK
  <2> QED
    BY <1>0, <2>1, IdleStays
<1>6. CASE Unwound
  <2>1. stage'[o] = stage[o] /\ UNCHANGED <<renderer, handoff, live, leaked>>
    BY <1>6 DEF Unwound, GiveUp, TypeInv, TypeOK
  <2> QED
    BY <1>0, <2>1, IdleStays
<1>3. CASE Created
  BY <1>0, <1>3, IdleStays DEF Created, TypeInv, TypeOK
<1>4. ASSUME NextFunction PROVE Idle(o)'
  <2>1. UNCHANGED leaked
    BY <1>4 DEF NextFunction
  <2>2. UNCHANGED stage
    BY <1>4 DEF NextFunction, try_init_vulkan, try_init_opengl, build_software_renderer,
                PickHandoff,
          TextureFails, TextureDelivers, VulkanReady, OpenGLReady, overlayVars
  <2>3. live'[o] = live[o] /\ renderer'[o] = renderer[o]
    BY <1>4 DEF NextFunction, try_init_vulkan, try_init_opengl, build_software_renderer,
                PickHandoff,
          TextureFails, TextureDelivers, VulkanReady, OpenGLReady, overlayVars, RendererReady,
          TypeInv, TypeOK
  <2>4. handoff'[o] = handoff[o]
    BY <1>4 DEF NextFunction, try_init_vulkan, try_init_opengl, build_software_renderer,
                PickHandoff,
          TextureFails, TextureDelivers, VulkanReady, OpenGLReady, overlayVars, use_readback,
          TypeInv, TypeOK
  <2> QED
    BY <1>0, <2>1, <2>2, <2>3, <2>4, IdleStays
<1> QED
  BY <1>1, <1>2, <1>3, <1>4, <1>5, <1>6

(* What a call does to the objects an overlay owns, when it succeeds and   *)
(* when it fails.                                                          *)
LEMMA OwnAfter ==
    ASSUME TypeInv, NEW o \in Overlays, starting = o, NEW step, Succeed(step),
           ((Own(o) \cup step.gives) \ step.ends) \cap leaked[o] = {}
    PROVE  Own(o)' = (Own(o) \cup step.gives) \ step.ends
  BY DEF Own, Succeed, TypeInv, TypeOK

LEMMA OwnLeft ==
    ASSUME TypeInv, NEW o \in Overlays, starting = o, NEW step, Fail(step),
           phase = "check" => leaked[o] = {},
           phase # "check" => Own(o) \cap CheckObjects = {}
    PROVE  /\ Rest(o)' = Left(step, Own(o))
           /\ Own(o)' \subseteq Own(o) /\ Own(o) \ Own(o)' \subseteq CheckObjects
<1>0. live' = live /\ unwinding' = step.undo
  BY DEF Fail
<1>1. CASE Leaks(step.call) /\ phase = "check"
  <2>1. leaked'[o] = (live[o] \ Freed(step.undo)) \cap CheckObjects /\ leaked[o] = {}
    BY <1>1 DEF Fail, TypeInv, TypeOK
  <2>2. Own(o)' = live[o] \ leaked'[o] /\ Rest(o)' = (live[o] \ leaked'[o]) \ Freed(step.undo)
    BY <1>0 DEF Own, Rest
  <2>3. Own(o) = live[o]
    BY <2>1 DEF Own
  <2> QED
    BY <1>1, <2>1, <2>2, <2>3 DEF Left
<1>2. CASE ~(Leaks(step.call) /\ phase = "check")
  <2>1. leaked' = leaked
    BY <1>2 DEF Fail
  <2>2. Own(o)' = Own(o) /\ Rest(o)' = Own(o) \ Freed(step.undo)
    BY <1>0, <2>1 DEF Own, Rest
  <2> QED
    BY <1>2, <2>2 DEF Left
<1> QED
  BY <1>1, <1>2

LEMMA Disjoint ==
    ASSUME TypeInv, NEW o \in Overlays
    PROVE  leaked[o] \cap (VulkanObjects \cup AngleObjects \cup HostObjects
                \cup EngineObjects \cup {Display}) = {}
<1>1. Display \in AngleObjects
  BY DEF Display, AngleObjects
<1>2. leaked[o] \subseteq CheckObjects
  BY DEF TypeInv, TypeOK
<1> QED
  BY <1>1, <1>2, Apart

(* The objects of a renderer that works are in order, and so is what an    *)
(* overlay owns at any time.                                               *)
LEMMA WorksIsOrderly ==
    ASSUME NEW o, NEW S, Works(o, S \ EngineObjects), renderer[o] \in Renderers \cup {"none"}
    PROVE  Ordered(S)
<1>1. \A x \in HostObjects \cup EngineObjects : x \notin DeviceObjects /\ x # Device
  BY Roles, DeviceRoles DEF Device
<1>2. \A x \in AngleObjects : x \notin DeviceObjects /\ x # Device
  BY Roles, DeviceRoles DEF Device
<1>3. Display \in AngleObjects
  BY DEF Display, AngleObjects
<1>4. CASE renderer[o] = "Vulkan"
  <2>1. Device \in S /\ Instance \in S
    BY <1>4, ContextIs DEF Works, BuiltVulkan
  <2> QED
    BY <2>1 DEF Ordered
<1>5. CASE renderer[o] # "Vulkan"
  <2>1. \A x \in S : x \in HostObjects \cup EngineObjects \cup AngleObjects
    BY <1>3, <1>5 DEF Works, Renderers
  <2>2. \A x \in S : x \notin DeviceObjects /\ x # Device
    BY <1>1, <1>2, <2>1
  <2> QED
    BY <2>2 DEF Ordered
<1> QED
  BY <1>4, <1>5

LEMMA FewIsOrderly ==
    ASSUME NEW S, S \subseteq EngineObjects \cup {Display}
    PROVE  Ordered(S)
<1>1. Display \in AngleObjects
  BY DEF Display, AngleObjects
<1>2. \A x \in S : x \notin DeviceObjects /\ x # Device
  BY <1>1, Roles, DeviceRoles DEF Device
<1> QED
  BY <1>2 DEF Ordered

LEMMA BuildingIsOrderly ==
    ASSUME TypeInv, NEW o \in Overlays, Building(o)
    PROVE  Ordered(Own(o))
<1>0. renderer[o] \in Renderers \cup {"none"} /\ phase \in Phases
  BY DEF TypeInv, TypeOK
<1>1. CASE phase = "init_overlay"
  BY <1>1, FewIsOrderly DEF Building, Choosing
<1>2. CASE phase = "engine"
  BY <1>0, <1>2, WorksIsOrderly DEF Building, EngineBuilt
<1>3. CASE phase \in {"context", "check", "state", "angle"}
  <2>1. \E U : Own(o) \in Orderly(U)
    BY <1>3, RunsStart DEF Building, ContextBuilt, Checking, StateBuilt, AngleBuilt
  <2> QED
    BY <2>1 DEF Orderly
<1> QED
  BY <1>0, <1>1, <1>2, <1>3 DEF Phases, Building

LEMMA OwnIsOrderly ==
    ASSUME TypeInv, BuildInv, NEW o \in Overlays
    PROVE  Ordered(Own(o))
<1>0. renderer[o] \in Renderers \cup {"none"} /\ stage[o] \in Stages
  BY DEF TypeInv, TypeOK
<1>1. CASE starting # o
  <2>1. Idle(o)
    BY <1>1 DEF BuildInv, Each
  <2>2. CASE stage[o] = "running"
    BY <1>0, <2>1, <2>2, WorksIsOrderly DEF Idle
  <2>3. CASE stage[o] # "running"
    <3>1. Own(o) \subseteq EngineObjects \cup {Display}
      BY <1>0, <2>1, <2>3 DEF Idle, Own, Stages
    <3> QED
      BY <3>1, FewIsOrderly
  <2> QED
    BY <2>2, <2>3
<1>2. CASE starting = o /\ Forward
  <2>1. Building(o)
    BY <1>2 DEF BuildInv, Each, Started
  <2> QED
    BY <2>1, BuildingIsOrderly
<1>3. CASE starting = o /\ ~Forward
  BY <1>3 DEF BuildInv, Each, Started, Undoing
<1> QED
  BY <1>1, <1>2, <1>3

(* A release keeps the order: what goes with or after the device holds     *)
(* nothing made from it, so what is left of that would be left in the end, *)
(* without its device.                                                     *)
LEMMA OrderlyOn ==
    ASSUME NEW H, NEW u \in Unwindings, u # <<>>, Ordered(H), Ordered(H \ Freed(u))
    PROVE  Ordered(H \ Head(u)) /\ (H \ Head(u)) \ Freed(Tail(u)) = H \ Freed(u)
<1>1. /\ Freed(u) = Head(u) \cup Freed(Tail(u))
      /\ Device \in Head(u) => Freed(u) \cap DeviceObjects = {}
      /\ Instance \in Head(u) => Device \notin Freed(u)
  BY UnwindOn
<1> DEFINE h == Head(u)
           f == Freed(u)
<1>2. Head(u) = h /\ Freed(u) = f /\ h \subseteq f
  BY <1>1
<1> HIDE DEF h, f
<1>3. Ordered(H \ h)
  <2>1. ASSUME NEW x \in H \ h, x \in DeviceObjects, Device \in h PROVE FALSE
    BY <1>1, <1>2, <2>1 DEF Ordered
  <2>2. ASSUME Device \in H \ h, Instance \in h PROVE FALSE
    BY <1>1, <1>2, <2>2 DEF Ordered
  <2> QED
    BY <2>1, <2>2 DEF Ordered
<1> QED
  BY <1>1, <1>2, <1>3

(* A call that succeeds leaves the rest of its function, which still runs  *)
(* to the same end.                                                        *)
LEMMA BuildSucceed ==
    ASSUME TypeInv, BuildInv, starting # NoOverlay, todo # <<>>, Forward, Succeed(Current),
           Forward', NEW o \in Overlays
    PROVE  Each(o)'
<1>0. /\ UNCHANGED <<stage, renderer, handoff, leaked, starting, phase, attempts>>
      /\ todo' = Tail(todo)
  BY DEF Succeed, overlayVars
<1>1. CASE o # starting
  BY <1>0, <1>1, OthersStay DEF Each
<1>2. CASE o = starting
  <2> DEFINE step == Current
             N == (Own(o) \cup step.gives) \ step.ends
  <2>0. Building(o) /\ step = Head(todo)
    BY <1>2 DEF BuildInv, Each, Started, Current
  <2> HIDE DEF step
  <2> SUFFICES Building(o)'
    BY <1>0, <1>2 DEF Each, Started
  <2>1. ASSUME N \cap leaked[o] = {} PROVE Own(o)' = N
    BY <1>2, <2>1, OwnAfter DEF step
  <2>3. ASSUME NEW A, NEW F, NEW Q, Runs(Own(o), todo, Q, A, F),
               \A S \in A : S \cap leaked[o] = {}
        PROVE  Runs(Own(o)', todo', Q, A, F)
    <3>1. Ok(Own(o), step, N, A, F) /\ Runs(N, Tail(todo), Q, A, F)
      BY <2>0, <2>3, RunsOn
    <3>2. N \cap leaked[o] = {}
      BY <2>3, <3>1 DEF Ok
    <3> QED
      BY <1>0, <2>1, <3>1, <3>2
  <2>4. CASE phase = "init_overlay"
    <3>1. todo \in Seq(QuietSteps)
      BY <2>0, <2>4 DEF Building, Choosing
    <3>2. step \in QuietSteps /\ Tail(todo) \in Seq(QuietSteps)
      BY <2>0, <3>1
    <3>3. N = Own(o) /\ Own(o) \cap leaked[o] = {}
      BY <3>2 DEF QuietSteps, Own
    <3>4. Own(o)' = Own(o)
      BY <2>1, <3>3
    <3> QED
      BY <1>0, <2>0, <2>4, <3>2, <3>4 DEF Building, Choosing
  <2>5. CASE phase = "context"
    <3>1. ContextBuilt(o)
      BY <2>0, <2>5 DEF Building
    <3>2. \A S \in Orderly(VulkanObjects) : S \cap leaked[o] = {}
      BY <3>1 DEF ContextBuilt
    <3>3. ContextBuilt(o)'
      BY <1>0, <2>3, <3>1, <3>2 DEF ContextBuilt
    <3> QED
      BY <1>0, <2>0, <2>5, <3>3 DEF Building
  <2>6. CASE phase = "check"
    <3>1. Checking(o) /\ leaked[o] = {}
      BY <2>0, <2>6 DEF Building, Checking
    <3>3. Checking(o)'
      BY <1>0, <2>3, <3>1 DEF Checking
    <3> QED
      BY <1>0, <2>0, <2>6, <3>3 DEF Building
  <2>7. CASE phase = "state"
    <3>1. StateBuilt(o)
      BY <2>0, <2>7 DEF Building
    <3>2. \A S \in Orderly(VulkanObjects) : S \cap leaked[o] = {}
      BY Disjoint DEF Orderly
    <3>3. StateBuilt(o)'
      BY <1>0, <2>3, <3>1, <3>2 DEF StateBuilt
    <3> QED
      BY <1>0, <2>0, <2>7, <3>3 DEF Building
  <2>8. CASE phase = "angle"
    <3>1. AngleBuilt(o)
      BY <2>0, <2>8 DEF Building
    <3>2. \A S \in Orderly(AngleObjects) : S \cap leaked[o] = {}
      BY Disjoint DEF Orderly
    <3>3. AngleBuilt(o)'
      BY <1>0, <2>3, <3>1, <3>2 DEF AngleBuilt
    <3> QED
      BY <1>0, <2>0, <2>8, <3>3 DEF Building
  <2>9. CASE phase = "engine"
    <3>1. EngineBuilt(o)
      BY <2>0, <2>9 DEF Building
    <3> DEFINE E == EngineSteps(renderer[o], handoff[o])
    <3>0. todo \in Seq(E)
      BY <3>1 DEF EngineBuilt
    <3>2. step \in E /\ Tail(todo) \in Seq(E)
      <4> HIDE DEF E
      <4> QED
        BY <2>0, <3>0
    <3>3. N \cap leaked[o] = {} /\ N \ EngineObjects = Own(o) \ EngineObjects
      BY <3>2, Disjoint DEF EngineSteps, Own
    <3>4. Own(o)' \ EngineObjects = Own(o) \ EngineObjects
      BY <2>1, <3>3
    <3>5. EngineBuilt(o)'
      BY <1>0, <3>1, <3>2, <3>4 DEF EngineBuilt, Works
    <3> QED
      BY <1>0, <2>0, <2>9, <3>5 DEF Building
  <2> QED
    BY <2>0, <2>4, <2>5, <2>6, <2>7, <2>8, <2>9 DEF TypeInv, TypeOK, Phases, Building
<1> QED
  BY <1>1, <1>2

(* The objects of a renderer that works, all of which dropping it releases, *)
(* but for a display that an earlier attempt left.                         *)
LEMMA WorksIsDropped ==
    ASSUME NEW o, NEW S, Works(o, S), renderer[o] \in Renderers \cup {"none"}
    PROVE  S \subseteq Freed(FlutterOverlay_drop(renderer[o], handoff[o])) \cup {Display}
<1> DEFINE d == FlutterOverlay_drop(renderer[o], handoff[o])
<1>1. renderer[o] \in Renderers
  BY DEF Works
<1>2. /\ HostObjects \subseteq Freed(d)
      /\ renderer[o] = "Vulkan" => BuiltVulkan(handoff[o]) \subseteq Freed(d)
      /\ renderer[o] = "OpenGL" => AngleObjects \subseteq Freed(d)
  BY <1>1, OverlayDrop
<1> HIDE DEF d
<1>3. S \subseteq Freed(d) \cup {Display}
  BY <1>1, <1>2 DEF Works, Renderers
<1> QED
  BY <1>3 DEF d

(* A call that fails: its unwinding begins, and leaves what the triple of  *)
(* its function says, or of an engine that does not start at most the      *)
(* display of an earlier attempt.                                          *)
LEMMA BuildFail ==
    ASSUME TypeInv, BuildInv, starting # NoOverlay, todo # <<>>, Forward, Fail(Current),
           ~Certain(Current.call), NEW o \in Overlays
    PROVE  Each(o)'
<1>0. /\ UNCHANGED <<stage, renderer, handoff, attempts, starting, phase, live>> /\ todo' = <<>>
      /\ ~Forward' /\ unwinding' = Current.undo
  BY DEF Fail, overlayVars, Forward
<1>1. CASE o # starting
  BY <1>0, <1>1, OthersStay DEF Each
<1>2. CASE o = starting
  <2> DEFINE step == Current
  <2>0. Building(o) /\ step = Head(todo)
    BY <1>2 DEF BuildInv, Each, Started, Current
  <2>o. Ordered(Own(o))
    BY <2>0, BuildingIsOrderly
  <2>f. Fail(step) /\ unwinding' = step.undo
    BY <1>0
  <2> HIDE DEF step
  <2> SUFFICES Undoing(o)'
    BY <1>0, <1>2 DEF Each, Started
  <2>1. ASSUME phase = "check" => leaked[o] = {}, phase # "check" => Own(o) \cap CheckObjects = {}
        PROVE  Rest(o)' = Left(step, Own(o)) /\ Ordered(Own(o)')
    <3>1. /\ Rest(o)' = Left(step, Own(o))
          /\ Own(o)' \subseteq Own(o) /\ Own(o) \ Own(o)' \subseteq CheckObjects
      BY <1>2, <2>1, <2>f, OwnLeft
    <3>2. Device \notin CheckObjects /\ Instance \notin CheckObjects
      BY CheckRoles DEF Device, Instance
    <3> QED
      BY <2>o, <3>1, <3>2 DEF Ordered
  <2>2. ASSUME NEW A, NEW F, NEW Q, Runs(Own(o), todo, Q, A, F),
               phase = "check" => leaked[o] = {},
               phase # "check" => \A S \in A : S \cap CheckObjects = {}
        PROVE  Rest(o)' \in F /\ Ordered(Own(o)')
    <3>1. Left(step, Own(o)) \in F /\ Own(o) \in A
      BY <2>0, <2>2, RunsOn DEF Ok
    <3> QED
      BY <2>1, <2>2, <3>1
  <2>3. (\A S \in Orderly(VulkanObjects) : S \cap CheckObjects = {})
        /\ (\A S \in Orderly(AngleObjects) : S \cap CheckObjects = {})
    BY Apart DEF Orderly
  <2>4. CASE phase = "context"
    <3>1. ContextBuilt(o)
      BY <2>0, <2>4 DEF Building
    <3>2. Rest(o)' \in {{}} /\ Ordered(Own(o)')
      BY <2>2, <2>3, <2>4, <3>1 DEF ContextBuilt
    <3>3. Rest(o)' = {} /\ Ordered(Rest(o)')
      BY <3>2, FewIsOrderly
    <3> QED
      BY <1>0, <2>0, <2>4, <3>1, <3>2, <3>3 DEF Undoing, Building, ContextBuilt
  <2>5. CASE phase = "state"
    <3>1. StateBuilt(o)
      BY <2>0, <2>5 DEF Building
    <3>2. Rest(o)' \in {{}} /\ Ordered(Own(o)')
      BY <2>2, <2>3, <2>5, <3>1 DEF StateBuilt
    <3>3. Rest(o)' = {} /\ Ordered(Rest(o)')
      BY <3>2, FewIsOrderly
    <3> QED
      BY <1>0, <2>0, <2>5, <3>1, <3>2, <3>3 DEF Undoing, Building, StateBuilt
  <2>6. CASE phase = "angle"
    <3>1. AngleBuilt(o)
      BY <2>0, <2>6 DEF Building
    <3>2. Rest(o)' \in SUBSET {Display} /\ Ordered(Own(o)')
      BY <2>2, <2>3, <2>6, <3>1 DEF AngleBuilt
    <3>3. Rest(o)' \subseteq {Display} /\ Ordered(Rest(o)')
      BY <3>2, FewIsOrderly
    <3> QED
      BY <1>0, <2>0, <2>6, <3>1, <3>2, <3>3 DEF Undoing, Building, AngleBuilt
  <2>7. CASE phase = "check"
    <3>1. Checking(o) /\ leaked[o] = {}
      BY <2>0, <2>7 DEF Building, Checking
    <3>2. Rest(o)' \in {ContextObjects} /\ Ordered(Own(o)')
      BY <2>2, <2>7, <3>1 DEF Checking
    <3>3. Rest(o)' = ContextObjects /\ Ordered(Rest(o)')
      BY <3>2, ContextIs DEF Ordered
    <3> QED
      BY <1>0, <2>0, <2>7, <3>1, <3>2, <3>3 DEF Undoing, Building, Checking
  <2>8. CASE phase \in {"init_overlay", "engine"}
    <3>1. leaked' = leaked
      BY <2>8 DEF Fail
    <3>2. Own(o)' = Own(o) /\ Rest(o)' = Own(o) \ Freed(step.undo)
      BY <1>0, <2>f, <3>1 DEF Own, Rest
    <3>3. Rest(o)' \subseteq EngineObjects \cup {Display}
      <4>1. CASE phase = "init_overlay"
        BY <2>0, <3>2, <4>1 DEF Building, Choosing
      <4>2. CASE phase = "engine"
        <5> DEFINE E == EngineSteps(renderer[o], handoff[o])
                   d == FlutterOverlay_drop(renderer[o], handoff[o])
        <5>1. EngineBuilt(o) /\ todo \in Seq(E)
          BY <2>0, <4>2 DEF Building, EngineBuilt
        <5>2. step \in E
          <6> HIDE DEF E
          <6> QED
            BY <2>0, <5>1
        <5>3. Freed(d) \subseteq Freed(step.undo)
          BY <5>2 DEF EngineSteps, step
        <5>4. Own(o) \ EngineObjects \subseteq Freed(d) \cup {Display}
          BY <5>1, WorksIsDropped DEF EngineBuilt, TypeInv, TypeOK
        <5> HIDE DEF d
        <5> QED
          BY <3>2, <5>3, <5>4
      <4> QED
        BY <2>8, <4>1, <4>2
    <3>4. Ordered(Rest(o)') /\ Ordered(Own(o)')
      BY <2>o, <3>2, <3>3, FewIsOrderly
    <3> QED
      BY <1>0, <2>0, <2>8, <3>3, <3>4 DEF Undoing, Building
  <2> QED
    BY <2>0, <2>4, <2>5, <2>6, <2>7, <2>8 DEF TypeInv, TypeOK, Phases, Building
<1> QED
  BY <1>1, <1>2

(* A release goes on with the unwinding, which leaves the same in the end. *)
LEMMA BuildRelease ==
    ASSUME TypeInv, BuildInv, starting # NoOverlay, Release, NEW o \in Overlays
    PROVE  Each(o)'
<1>0. /\ UNCHANGED <<stage, renderer, handoff, leaked, starting, phase, attempts, todo, starter>>
      /\ unwinding' = Tail(unwinding) /\ unwinding # <<>> /\ unwinding \in Unwindings
      /\ ~Forward /\ ~Forward'
  BY DEF Release, Unwinding, overlayVars, Forward, TypeInv
<1>1. CASE o # starting
  BY <1>0, <1>1, OthersStay DEF Each
<1>2. CASE o = starting
  <2>0. Undoing(o)
    BY <1>0, <1>2 DEF BuildInv, Each, Started
  <2>1. live'[o] = live[o] \ Head(unwinding)
    BY <1>2 DEF Release, TypeInv, TypeOK
  <2>2. Own(o)' = Own(o) \ Head(unwinding)
    BY <1>0, <2>1 DEF Own
  <2>3. Ordered(Own(o)) /\ Ordered(Own(o) \ Freed(unwinding))
    BY <2>0 DEF Undoing, Rest
  <2>4. /\ Ordered(Own(o) \ Head(unwinding))
        /\ (Own(o) \ Head(unwinding)) \ Freed(Tail(unwinding)) = Own(o) \ Freed(unwinding)
    BY <1>0, <2>3, OrderlyOn
  <2>5. Rest(o)' = Own(o)' \ Freed(Tail(unwinding))
    BY <1>0 DEF Rest
  <2>6. Ordered(Own(o)') /\ Rest(o)' = Rest(o)
    BY <2>2, <2>4, <2>5 DEF Rest
  <2>7. Undoing(o)'
    BY <1>0, <2>0, <2>6 DEF Undoing
  <2> QED
    BY <1>0, <1>2, <2>7 DEF Each, Started
<1> QED
  BY <1>1, <1>2

(* The unwinding has ended: the next attempt starts with what it left, the *)
(* check's failure goes on with the context, and a start that gives up     *)
(* has released its renderer.                                              *)
LEMMA BuildUnwound ==
    ASSUME TypeInv, BuildInv, starting # NoOverlay, Unwound, NEW o \in Overlays
    PROVE  Each(o)'
<1>0. /\ UNCHANGED <<renderer, handoff, live, leaked, attempts, todo, unwinding>>
      /\ unwinding = <<>> /\ ~Forward /\ Forward'
  BY DEF Unwound, Forward
<1>1. CASE o # starting
  <2>1. starting' # o
    BY <1>1, NoOverlayAssumption DEF Unwound, GiveUp
  <2> QED
    BY <1>1, <2>1, OthersStay DEF Each
<1>2. CASE o = starting
  <2>0. Undoing(o) /\ todo = <<>>
    BY <1>0, <1>2 DEF BuildInv, Each, Started, Undoing
  <2>1. Rest(o) = Own(o) /\ Own(o)' = Own(o)
    BY <1>0, FreedOfNone DEF Rest, Own
  <2>2. <<>> \in Seq(QuietSteps) /\ <<"OpenGL", "Software">> # <<"Vulkan", "OpenGL", "Software">>
        /\ <<"Software">> # <<"Vulkan", "OpenGL", "Software">>
    OBVIOUS
  <2>3. CASE phase \in {"context", "state", "angle"}
    <3>1. UNCHANGED <<starting, stage>> /\ phase' = "init_overlay"
      BY <2>3 DEF Unwound
    <3>2. \/ attempts = <<"OpenGL", "Software">> /\ Own(o) = {}
          \/ attempts = <<"Software">> /\ Own(o) \subseteq {Display}
      BY <2>0, <2>1, <2>3 DEF Undoing
    <3>3. Choosing(o)'
      BY <1>0, <2>0, <2>1, <2>2, <3>1, <3>2 DEF Choosing
    <3>4. renderer[o] = "none" /\ stage[o] = "starting"
      BY <2>0, <2>3 DEF Undoing
    <3>5. Building(o)'
      BY <1>0, <3>1, <3>3, <3>4 DEF Building
    <3> QED
      BY <1>0, <1>2, <3>1, <3>5 DEF Each, Started
  <2>4. CASE phase = "check"
    <3>1. UNCHANGED <<starting, stage, phase>>
      BY <2>4 DEF Unwound
    <3>2. Own(o)' = ContextObjects /\ attempts = <<"OpenGL", "Software">> /\ handoff[o] = "shared"
      BY <2>0, <2>1, <2>4 DEF Undoing
    <3>3. ContextObjects \in Orderly(ContextObjects \cup CheckObjects)
      BY ContextIs DEF Orderly, Ordered
    <3>4. Runs(Own(o)', todo', ContextObjects, Orderly(ContextObjects \cup CheckObjects),
                {ContextObjects})
      BY <1>0, <2>0, <3>2, <3>3, RunsNothing
    <3>5. Checking(o)'
      BY <1>0, <2>0, <3>2, <3>4 DEF Checking
    <3>6. Building(o)'
      BY <1>0, <2>0, <2>4, <3>1, <3>5 DEF Building, Undoing
    <3> QED
      BY <1>0, <1>2, <3>1, <3>6 DEF Each, Started
  <2>5. CASE phase \in {"init_overlay", "engine"}
    <3>1. stage'[o] = "failed" /\ starting' # o
      BY <1>2, <2>5, NoOverlayAssumption DEF Unwound, GiveUp, TypeInv, TypeOK
    <3>2. Own(o)' \subseteq EngineObjects \cup {Display}
      BY <2>0, <2>1, <2>5 DEF Undoing
    <3>3. Idle(o)'
      BY <3>1, <3>2 DEF Idle
    <3> QED
      BY <3>1, <3>3 DEF Each
  <2> QED
    BY <2>0, <2>3, <2>4, <2>5 DEF TypeInv, TypeOK, Phases, Undoing
<1> QED
  BY <1>1, <1>2

(* A function with no calls left has made what it was to make: the next    *)
(* one starts from there.                                                  *)
LEMMA BuildNext ==
    ASSUME TypeInv, BuildInv, NextFunction, NEW o \in Overlays
    PROVE  Each(o)'
<1>0. /\ starting # NoOverlay /\ todo = <<>> /\ UNCHANGED <<leaked, starting, stage>>
      /\ Forward /\ Forward'
  BY DEF Forward, NextFunction, try_init_vulkan, try_init_opengl, build_software_renderer, PickHandoff,
     TextureFails, TextureDelivers, VulkanReady, OpenGLReady, Returned, overlayVars
<1>1. CASE o # starting
  BY <1>0, <1>1, OthersStay DEF Each
<1>2. CASE o = starting
  <2>0. Building(o)
    BY <1>0, <1>2 DEF BuildInv, Each, Started
  <2> SUFFICES Building(o)'
    BY <1>0, <1>2 DEF Each, Started
  <2>1. CASE try_init_vulkan
    <3>1. Choosing(o) /\ phase = "init_overlay" /\ attempts # <<"OpenGL", "Software">>
          /\ attempts # <<"Software">>
      BY <2>0, <2>1 DEF Building, try_init_vulkan, Returned
    <3>2. attempts = <<"Vulkan", "OpenGL", "Software">> /\ Own(o) = {} /\ leaked[o] = {}
      BY <3>1 DEF Choosing
    <3>3. /\ attempts' = <<"OpenGL", "Software">> /\ phase' = "context" /\ todo' = VulkanContext_new
          /\ Own(o)' = Own(o) /\ renderer' = renderer
      BY <1>0, <2>1, <3>2 DEF try_init_vulkan, Enter, overlayVars, Own
    <3>4. ContextBuilt(o)'
      BY <1>0, <3>2, <3>3, ContextRuns DEF ContextBuilt
    <3> QED
      BY <1>0, <2>0, <3>1, <3>3, <3>4 DEF Building
  <2>2. CASE try_init_opengl
    <3>1. Choosing(o) /\ phase = "init_overlay" /\ attempts # <<"Vulkan", "OpenGL", "Software">>
          /\ attempts # <<"Software">>
      BY <2>0, <2>2 DEF Building, try_init_opengl, Returned
    <3>2. attempts = <<"OpenGL", "Software">> /\ Own(o) = {}
      BY <3>1 DEF Choosing
    <3>3. /\ attempts' = <<"Software">> /\ Own(o)' = Own(o) /\ renderer' = renderer
          /\ \/ phase' = "init_overlay" /\ todo' = <<>>
             \/ phase' = "angle" /\ todo' = init_opengl_resources
      BY <1>0, <2>2, <3>2 DEF try_init_opengl, Enter, overlayVars, Own
    <3>4. AngleBuilt(o)' \/ todo' # init_opengl_resources
      BY <3>2, <3>3, AngleRuns DEF AngleBuilt
    <3>5. <<>> \in Seq(QuietSteps) /\ <<"Software">> # <<"Vulkan", "OpenGL", "Software">>
      OBVIOUS
    <3>6. Choosing(o)' \/ todo' # <<>>
      BY <3>2, <3>3, <3>5 DEF Choosing
    <3> QED
      BY <1>0, <2>0, <3>1, <3>3, <3>4, <3>6 DEF Building
  <2>3. ASSUME NEW r \in Renderers, RendererReady(r), UNCHANGED handoff,
               r = "Vulkan" => Own(o) = BuiltVulkan(handoff[o]),
               r = "OpenGL" => Own(o) = AngleObjects,
               r = "Software" => Own(o) \subseteq {Display}
        PROVE  Building(o)'
    <3>1. PICK aot \in BOOLEAN :
             phase' = "engine" /\ todo' = init_overlay_runs(aot, r, handoff[o])
      BY <1>2, <2>3 DEF RendererReady, Enter
    <3>2. todo' \in Seq(EngineSteps(r, handoff[o]))
      BY <3>1, EngineStartSteps
    <3>3. renderer'[o] = r /\ live'[o] = live[o] \cup HostObjects
      BY <1>2, <2>3 DEF RendererReady, TypeInv, TypeOK
    <3>4. Own(o)' = Own(o) \cup HostObjects
      BY <1>0, <3>3, Disjoint DEF Own
    <3>5. (BuiltVulkan(handoff[o]) \cup AngleObjects \cup {Display}
                \cup HostObjects) \cap EngineObjects = {}
      <4>1. Display \in AngleObjects
        BY DEF Display, AngleObjects
      <4>2. BuiltVulkan(handoff[o]) \subseteq VulkanObjects
        BY Parts DEF BuiltVulkan, TargetFor
      <4> QED
        BY <4>1, <4>2, Apart
    <3>6. (Own(o) \cup HostObjects) \ EngineObjects = Own(o) \cup HostObjects
      <4>1. Own(o) \subseteq BuiltVulkan(handoff[o]) \cup AngleObjects \cup {Display}
        BY <2>3 DEF Renderers
      <4> QED
        BY <3>5, <4>1
    <3>7. Works(o, Own(o) \ EngineObjects)'
      <4>1. r # "none"
        BY DEF Renderers
      <4>2. Own(o) \subseteq {Display} => Own(o) = {} \/ Own(o) = {Display}
        OBVIOUS
      <4> QED
        BY <2>3, <3>3, <3>4, <3>6, <4>1, <4>2 DEF Works
    <3>8. EngineBuilt(o)'
      BY <2>3, <3>2, <3>3, <3>7 DEF EngineBuilt
    <3> QED
      BY <1>0, <2>0, <3>1, <3>8 DEF Building
  <2>4. CASE build_software_renderer
    <3>1. Choosing(o)
      BY <2>0, <2>4 DEF Building, build_software_renderer, Returned
    <3> QED
      BY <2>3, <2>4, <3>1 DEF build_software_renderer, Choosing, Renderers
  <2>5. CASE VulkanReady
    <3>1. StateBuilt(o)
      BY <2>0, <2>5 DEF Building, VulkanReady, Returned
    <3>2. Own(o) = BuiltVulkan(handoff[o])
      BY <1>0, <3>1, RunsOut DEF StateBuilt
    <3> QED
      BY <2>3, <2>5, <3>2 DEF VulkanReady, Renderers
  <2>6. CASE OpenGLReady
    <3>1. AngleBuilt(o)
      BY <2>0, <2>6 DEF Building, OpenGLReady, Returned
    <3>2. Own(o) = AngleObjects
      BY <1>0, <3>1, RunsOut DEF AngleBuilt
    <3> QED
      BY <2>3, <2>6, <3>2 DEF OpenGLReady, Renderers
  <2>7. ASSUME NEW mode, handoff'[o] = mode, Enter("state", with_handoff(mode)),
               attempts = <<"OpenGL", "Software">>, Own(o) = ContextObjects, renderer[o] = "none",
               UNCHANGED <<attempts, live, renderer>>
        PROVE  Building(o)'
    <3>1. Own(o)' = Own(o) /\ phase' = "state" /\ todo' = with_handoff(mode)
      BY <1>0, <2>7 DEF Own, Enter
    <3>2. StateBuilt(o)'
      BY <2>7, <3>1, StateRuns DEF StateBuilt
    <3> QED
      BY <1>0, <2>0, <2>7, <3>1, <3>2 DEF Building
  <2>8. CASE PickHandoff
    <3>1. ContextBuilt(o) /\ renderer[o] = "none"
      BY <2>0, <2>8 DEF Building, PickHandoff, Returned
    <3>2. Own(o) = ContextObjects
      BY <1>0, <3>1, RunsOut DEF ContextBuilt
    <3>3. PICK mode \in {"shared", "readback"} :
            /\ handoff' = [handoff EXCEPT ![starting] = mode]
            /\ IF mode = "shared" THEN Enter("check", shared_texture_works)
                                  ELSE Enter("state", with_handoff(mode))
      BY <2>8 DEF PickHandoff
    <3>4. handoff'[o] = mode /\ UNCHANGED <<attempts, live, renderer>>
      BY <1>2, <2>8, <3>3 DEF PickHandoff, TypeInv, TypeOK
    <3>5. CASE mode = "shared"
      <4>1. Own(o)' = Own(o) /\ phase' = "check" /\ todo' = shared_texture_works
        BY <1>0, <3>3, <3>4, <3>5 DEF Own, Enter
      <4>2. Checking(o)'
        BY <1>0, <3>1, <3>2, <3>4, <3>5, <4>1, CheckRuns DEF Checking, ContextBuilt
      <4> QED
        BY <1>0, <2>0, <3>1, <3>4, <4>1, <4>2 DEF Building
    <3>6. CASE mode # "shared"
      BY <2>7, <3>1, <3>2, <3>3, <3>4, <3>6 DEF ContextBuilt
    <3> QED
      BY <3>5, <3>6
  <2>9. CASE TextureFails \/ TextureDelivers
    <3>1. Checking(o) /\ renderer[o] = "none"
      BY <2>0, <2>9 DEF Building, TextureFails, TextureDelivers, Returned
    <3>2. Own(o) = ContextObjects
      BY <1>0, <3>1, RunsOut DEF Checking
    <3>3. CASE TextureFails
      <4>1. handoff'[o] = "readback"
        BY <1>2, <3>3 DEF TextureFails, use_readback, TypeInv, TypeOK
      <4> QED
        BY <2>7, <3>1, <3>2, <3>3, <4>1 DEF TextureFails, Checking
    <3>4. CASE TextureDelivers
      <4>1. handoff'[o] = "shared"
        BY <3>1, <3>4 DEF TextureDelivers, Checking
      <4> QED
        BY <2>7, <3>1, <3>2, <3>4, <4>1 DEF TextureDelivers, Checking
    <3> QED
      BY <2>9, <3>3, <3>4
  <2> QED
    BY <2>1, <2>2, <2>4, <2>5, <2>6, <2>8, <2>9 DEF NextFunction
<1> QED
  BY <1>1, <1>2

LEMMA BuildUnchanged ==
    ASSUME BuildInv, NEW o \in Overlays,
           UNCHANGED <<overlayVars, live, leaked, starting, phase, attempts, todo, unwinding>>,
           Forward' = Forward
    PROVE  Each(o)'
<1>1. Idle(o)' = Idle(o)
  BY DEF overlayVars, Idle, Works, Own
<1>2. Building(o)' = Building(o)
  BY DEF overlayVars, Building, Works, Own, Choosing, ContextBuilt, Checking, StateBuilt, AngleBuilt,
     EngineBuilt
<1>3. Undoing(o)' = Undoing(o)
  BY DEF overlayVars, Undoing, Own, Rest
<1> QED
  BY <1>1, <1>2, <1>3 DEF BuildInv, Each, Started

LEMMA BuildCreate ==
    ASSUME TypeInv, BuildInv, NEW p \in Overlays, create(p), Forward, NEW o \in Overlays
    PROVE  Each(o)'
<1>0. /\ UNCHANGED <<renderer, handoff, live, leaked>> /\ starting' = p /\ starting = NoOverlay
      /\ Forward'
  BY DEF create, Forward
<1>1. Idle(o)
  BY <1>0, NoOverlayAssumption DEF BuildInv, Each
<1>2. CASE o # p
  <2>1. stage'[o] = stage[o]
    BY <1>2 DEF create, TypeInv, TypeOK
  <2> QED
    BY <1>0, <1>1, <1>2, <2>1, IdleStays DEF Each
<1>3. CASE o = p
  <2>1. stage[o] = "none" /\ stage'[o] = "starting" /\ phase' = "init_overlay"
        /\ todo' = init_overlay_begins
    BY <1>3 DEF create, TypeInv, TypeOK
  <2>2. live[o] = {} /\ leaked[o] = {} /\ renderer[o] = "none" /\ Own(o)' = {}
    BY <1>0, <1>1, <2>1 DEF Idle, Own
  <2>3. PICK preference \in Preferences : attempts' = attempt_order(preference)
    BY DEF create
  <2>4. attempts' \in {<<"Vulkan", "OpenGL", "Software">>, <<"OpenGL", "Software">>, <<"Software">>}
    BY <2>3, PreferencesAssumption DEF attempt_order
  <2>5. Choosing(o)'
    BY <1>0, <2>1, <2>2, <2>4, OverlayBeginsQuietly DEF Choosing
  <2> QED
    BY <1>0, <1>3, <2>1, <2>2, <2>5 DEF Building, Each, Started
<1> QED
  BY <1>2, <1>3

LEMMA BuildCreated ==
    ASSUME TypeInv, BuildInv, Created, NEW o \in Overlays
    PROVE  Each(o)'
<1>0. starting' = NoOverlay /\ UNCHANGED <<renderer, handoff, live, leaked>> /\ phase = "engine"
      /\ starting # NoOverlay /\ Forward
  BY DEF Created, Returned, Forward
<1>1. CASE o # starting
  BY <1>0, <1>1, OthersStay, NoOverlayAssumption DEF Each
<1>2. CASE o = starting
  <2>1. EngineBuilt(o) /\ stage'[o] = "running"
    BY <1>0, <1>2 DEF BuildInv, Each, Started, Building, Created, TypeInv, TypeOK
  <2>2. Idle(o)'
    BY <1>0, <2>1 DEF EngineBuilt, Works, Own, Idle
  <2> QED
    BY <1>0, <2>2, NoOverlayAssumption DEF Each
<1> QED
  BY <1>1, <1>2

LEMMA BuildStep == LockInv /\ TypeInv /\ BuildInv /\ [Next]_vars => BuildInv'
<1> SUFFICES ASSUME LockInv, TypeInv, BuildInv, [Next]_vars PROVE BuildInv'
  OBVIOUS
<1>0. ASSUME \A o \in Overlays : Each(o)', starter' = "calls" \/ starter' = "unwinds" PROVE BuildInv'
  BY <1>0 DEF BuildInv
<1>1. ASSUME NEW p \in Overlays, create(p) PROVE BuildInv'
  <2>1. starter = "calls" /\ starter' = "calls" /\ Forward
    BY <1>1 DEF create, LockInv, Forward
  <2> QED
    BY <1>0, <1>1, <2>1, BuildCreate
<1>2. ASSUME UNCHANGED <<overlayVars, live, leaked, startVars>> PROVE BuildInv'
  <2>1. \A o \in Overlays : Each(o)'
    BY <1>2, BuildUnchanged DEF startVars, Forward
  <2> QED
    BY <1>2, <2>1 DEF startVars, Current, BuildInv
<1>3. ASSUME NEW p \in Overlays, NEW t \in EngineThreads, EngineCalls(p, t) \/ CallReturns(p, t)
      PROVE  BuildInv'
  BY <1>2, <1>3 DEF EngineCalls, CallReturns
<1>4. CASE CallSucceeds
  <2>1. /\ starting # NoOverlay /\ todo # <<>> /\ Forward /\ Forward' /\ Succeed(Current)
        /\ starter' = "calls"
    BY <1>4 DEF CallSucceeds, Calling, Forward
  <2> QED
    BY <1>0, <2>1, BuildSucceed
<1>5. CASE CallFails
  <2>1. /\ starting # NoOverlay /\ todo # <<>> /\ Forward /\ Fail(Current) /\ starter' = "unwinds"
        /\ ~Certain(Current.call)
    BY <1>5 DEF CallFails, Calling, Forward, Fail, MayFail, Certain
  <2> QED
    BY <1>0, <2>1, BuildFail
<1>6. CASE CallQueues
  <2>1. /\ UNCHANGED <<overlayVars, live, leaked, starting, phase, attempts, todo, unwinding>>
        /\ starter = "calls" /\ starter' = "queues" /\ QueueCall(Current.call)
    BY <1>6 DEF CallQueues, Calling, EnterQueue
  <2>2. \A o \in Overlays : Each(o)'
    BY <2>1, BuildUnchanged DEF Forward
  <2> QED
    BY <2>1, <2>2 DEF BuildInv, Current
<1>7. CASE QueueCallEnds
  <2>1. /\ starting # NoOverlay /\ todo # <<>> /\ Forward /\ ~Certain(Current.call)
    BY <1>7 DEF QueueCallEnds, LockInv, Forward, BuildInv, QueueCall, Certain
  <2>2. CASE Succeed(Current) /\ starter' = "calls"
    BY <1>0, <2>1, <2>2, BuildSucceed DEF Forward
  <2>3. CASE Fail(Current)
    <3>1. starter' = "unwinds"
      BY <2>3 DEF Fail
    <3> QED
      BY <1>0, <2>1, <2>3, <3>1, BuildFail
  <2> QED
    BY <1>7, <2>2, <2>3 DEF QueueCallEnds
<1>8. CASE Release
  <2>1. starter' = "unwinds" /\ starting # NoOverlay
    BY <1>8 DEF Release, Unwinding, LockInv
  <2> QED
    BY <1>0, <1>8, <2>1, BuildRelease
<1>9. CASE wait_idle
  <2>1. /\ UNCHANGED <<overlayVars, live, leaked, starting, phase, attempts, todo, unwinding>>
        /\ starter = "unwinds" /\ starter' = "drains" /\ Head(unwinding) = WaitIdle
    BY <1>9 DEF wait_idle, Unwinding, EnterQueue
  <2>2. \A o \in Overlays : Each(o)'
    BY <2>1, BuildUnchanged DEF Forward
  <2> QED
    BY <2>1, <2>2 DEF BuildInv
<1>10. CASE DeviceIdle
  <2>1. /\ UNCHANGED <<overlayVars, live, leaked, starting, phase, attempts, todo>>
        /\ starter = "drains" /\ starter' = "unwinds" /\ unwinding' = Tail(unwinding)
        /\ unwinding # <<>> /\ unwinding \in Unwindings /\ Head(unwinding) = {}
    BY <1>10 DEF DeviceIdle, LockInv, TypeInv, BuildInv, WaitIdle
  <2>2. Freed(Tail(unwinding)) = Freed(unwinding)
    <3>1. Freed(unwinding) = Head(unwinding) \cup Freed(Tail(unwinding))
      BY <2>1, UnwindOn
    <3> QED
      BY <2>1, <3>1
  <2>3. ASSUME NEW o \in Overlays PROVE Each(o)'
    <3>1. Idle(o)' = Idle(o)
      BY <2>1 DEF overlayVars, Idle, Works, Own
    <3>2. Own(o)' = Own(o)
      BY <2>1 DEF Own
    <3>3. Rest(o)' = Rest(o)
      <4>1. Rest(o)' = Own(o)' \ Freed(Tail(unwinding))
        BY <2>1 DEF Rest
      <4> QED
        BY <2>2, <3>2, <4>1 DEF Rest
    <3>4. Undoing(o)' = Undoing(o)
      BY <2>1, <3>2, <3>3 DEF overlayVars, Undoing
    <3>5. ~Forward /\ ~Forward'
      BY <2>1 DEF Forward
    <3> QED
      BY <2>1, <3>1, <3>4, <3>5 DEF BuildInv, Each, Started
  <2> QED
    BY <1>0, <2>1, <2>3
<1>11. CASE Unwound
  <2>1. starter' = "calls" /\ starting # NoOverlay
    BY <1>11 DEF Unwound, LockInv
  <2> QED
    BY <1>0, <1>11, <2>1, BuildUnwound
<1>12. CASE NextFunction
  <2>1. starter = "calls" /\ starter' = starter
    BY <1>12 DEF NextFunction, try_init_vulkan, try_init_opengl, build_software_renderer,
       PickHandoff, TextureFails, TextureDelivers, VulkanReady, OpenGLReady, Returned
  <2> QED
    BY <1>0, <1>12, <2>1, BuildNext
<1>13. CASE Created
  <2>1. starter = "calls" /\ starter' = starter
    BY <1>13 DEF Created, Returned
  <2> QED
    BY <1>0, <1>13, <2>1, BuildCreated
<1>14. CASE UNCHANGED vars
  BY <1>2, <1>14 DEF vars
<1> QED
  BY <1>1, <1>3, <1>4, <1>5, <1>6, <1>7, <1>8, <1>9, <1>10, <1>11, <1>12, <1>13, <1>14
     DEF Next, StarterStep

LEMMA BuildChildren == TypeInv /\ BuildInv => ChildrenDieFirst
<1> SUFFICES ASSUME TypeInv, BuildInv, NEW o \in Overlays
             PROVE  /\ (live[o] \ leaked[o]) \cap DeviceObjects # {} =>
                           <<"context", "device">> \in live[o]
                    /\ <<"context", "device">> \in live[o] => <<"context", "instance">> \in live[o]
  BY DEF ChildrenDieFirst
<1>1. Ordered(Own(o)) /\ Own(o) \subseteq live[o]
  BY OwnIsOrderly DEF Own
<1>2. Device \in live[o] => Device \in Own(o)
  BY Disjoint, ContextIs, Parts DEF Own
<1> HIDE DEF Own
<1>4. /\ Own(o) \cap DeviceObjects # {} => Device \in live[o]
      /\ Device \in live[o] => Instance \in live[o]
  BY <1>1, <1>2 DEF Ordered
<1> QED
  BY <1>4 DEF Own, Device, Instance

LEMMA BuildLeaves == TypeInv /\ BuildInv => FailuresLeaveNothing
<1> SUFFICES ASSUME TypeInv, BuildInv, NEW o \in Overlays, ~Working(o)
             PROVE  live[o] \ EngineObjects \subseteq Holds(o) \cup leaked[o] \cup {Display}
  BY DEF FailuresLeaveNothing, Display
<1>0. renderer[o] \in Renderers \cup {"none"} /\ stage[o] \in Stages /\ phase \in Phases
  BY DEF TypeInv, TypeOK
<1>1. ASSUME stage[o] # "failed", Works(o, Own(o) \ EngineObjects)
      PROVE  Own(o) \ EngineObjects \subseteq Holds(o) \cup {Display}
  <2>1. CASE renderer[o] = "Vulkan"
    <3>1. BuiltVulkan(handoff[o]) \subseteq VulkanObjects
      BY Parts DEF BuiltVulkan, TargetFor
    <3>2. Holds(o) = VulkanObjects \cup HostObjects
      BY <1>1, <2>1 DEF Holds, ObjectsOf
    <3> QED
      BY <1>1, <2>1, <3>1, <3>2 DEF Works
  <2>2. CASE renderer[o] = "OpenGL"
    <3>1. Holds(o) = AngleObjects \cup HostObjects
      BY <1>1, <2>2 DEF Holds, ObjectsOf
    <3> QED
      BY <1>1, <2>2, <3>1 DEF Works
  <2>3. CASE renderer[o] = "Software"
    <3>1. Holds(o) = HostObjects
      BY <1>1, <2>3 DEF Holds, ObjectsOf
    <3> QED
      BY <1>1, <2>3, <3>1 DEF Works
  <2> QED
    BY <1>0, <1>1, <2>1, <2>2, <2>3 DEF Works, Renderers
<1>2. Own(o) \ EngineObjects \subseteq Holds(o) \cup {Display}
  <2>1. CASE starting # o
    <3>1. Idle(o)
      BY <2>1 DEF BuildInv, Each
    <3>2. CASE stage[o] = "running"
      BY <1>1, <3>1, <3>2 DEF Idle
    <3>3. CASE stage[o] # "running"
      BY <1>0, <3>1, <3>3 DEF Idle, Own, Stages
    <3> QED
      BY <3>2, <3>3
  <2>2. CASE starting = o
    <3>1. Building(o) /\ phase \in {"init_overlay", "engine"}
      BY <2>2 DEF BuildInv, Each, Started, Forward, Working
    <3>2. CASE phase = "init_overlay"
      BY <3>1, <3>2 DEF Building, Choosing
    <3>3. CASE phase = "engine"
      BY <1>1, <3>1, <3>3 DEF Building, EngineBuilt
    <3> QED
      BY <3>1, <3>2, <3>3
  <2> QED
    BY <2>1, <2>2
<1> QED
  BY <1>2 DEF Own

-----------------------------------------------------------------------------
(* The shared state: the table of real functions and the ANGLE slot.       *)
LEMMA EndsOfConcat ==
    ASSUME NEW S, NEW s \in Seq(S), NEW t \in Seq(S)
    PROVE  /\ s # <<>> => s \o t # <<>> /\ Head(s \o t) = Head(s)
           /\ t # <<>> => s \o t # <<>> /\ (s \o t)[Len(s \o t)] = t[Len(t)]
<1>1. /\ s \o t \in Seq(S) /\ Len(s \o t) = Len(s) + Len(t)
      /\ \A i \in 1..Len(s) + Len(t) :
            (s \o t)[i] = IF i <= Len(s) THEN s[i] ELSE t[i - Len(s)]
  BY ConcatProperties
<1>2. Len(s) \in Nat /\ Len(t) \in Nat
  OBVIOUS
<1>3. ASSUME s # <<>> PROVE s \o t # <<>> /\ Head(s \o t) = Head(s)
  <2>1. Len(s) > 0
    BY <1>3
  <2>2. s \o t # <<>> /\ (s \o t)[1] = s[1]
    BY <1>1, <1>2, <2>1
  <2> QED
    BY <1>1, <2>1, <2>2
<1>4. ASSUME t # <<>> PROVE s \o t # <<>> /\ (s \o t)[Len(s \o t)] = t[Len(t)]
  <2>1. Len(t) > 0
    BY <1>4
  <2>2. Len(s \o t) > Len(s) /\ Len(s \o t) - Len(s) = Len(t) /\ Len(s \o t) > 0
    BY <1>1, <1>2, <2>1
  <2> QED
    BY <1>1, <1>2, <2>2
<1> QED
  BY <1>3, <1>4

LEMMA TryIsStep ==
    ASSUME NEW c \in Calls, NEW g \in SUBSET Objects, NEW u \in Unwindings
    PROVE  Try(c, g, u) \in Steps
  BY DEF Try, Step, Steps

(* VulkanContext::new begins by loading the loader and ends by filling the *)
(* table.                                                                  *)
LEMMA ContextCalls ==
    /\ VulkanContext_new # <<>> /\ Head(VulkanContext_new).call = "Entry::load"
    /\ VulkanContext_new[Len(VulkanContext_new)].call = "real functions"
<1> DEFINE n == <<>>
           uE == <<{Entry}>>
           u == <<{Entry}, {Instance}>>
           v == <<{Device}>> \o u
           a == Try("Entry::load", {Entry}, n)
           b == Try("instance version", {}, uE)
           c == Try("vkCreateInstance", {Instance}, uE)
           r == Try("real functions", {}, v)
           w == <<Try("adapter LUID", {}, u)>> \o find_physical_device(u)
                \o <<Try("device extensions", {}, u)>> \o find_queue_family(u)
                \o <<Try("vkCreateDevice", {Device}, u)>>
<1>1. with_instance(u) = w \o <<r>>
  BY DEF with_instance, init_real_fns, Device
<1>2. VulkanContext_new = <<a, b, c>> \o with_instance(u)
  BY DEF VulkanContext_new, Entry, Instance
<1>3. {} \in SUBSET Objects /\ {Entry} \in SUBSET Objects /\ {Instance} \in SUBSET Objects
      /\ {Device} \in SUBSET Objects /\ n \in Unwindings /\ uE \in Unwindings
      /\ u \in Unwindings /\ v \in Unwindings
  BY ContextIs, Parts, ContextUndo, FreedOfNone DEF Also
<1>4. \A call : Plain(call) => call \in Calls
  BY DEF Plain
<1> HIDE DEF n, uE, u, v
<1>5. a \in Steps /\ b \in Steps /\ c \in Steps /\ r \in Steps
  BY <1>3, <1>4, PlainCalls, TryIsStep, Zenon
<1>6. w \in Seq(Steps)
  <2>1. \A call : Plain(call) => Try(call, {}, u) \in Steps
    BY <1>3, <1>4, TryIsStep, Zenon
  <2>2. Try("vkCreateDevice", {Device}, u) \in Steps
    BY <1>3, <1>4, PlainCalls, TryIsStep, Zenon
  <2>3. \A x \in Steps : <<x>> \in Seq(Steps)
    OBVIOUS
  <2>4. /\ <<Try("adapter LUID", {}, u)>> \in Seq(Steps)
        /\ find_physical_device(u) \in Seq(Steps)
        /\ <<Try("device extensions", {}, u)>> \in Seq(Steps)
        /\ find_queue_family(u) \in Seq(Steps)
        /\ <<Try("vkCreateDevice", {Device}, u)>> \in Seq(Steps)
    BY <2>1, <2>2, <2>3, PlainCalls, Zenon DEF find_physical_device, find_queue_family
  <2> DEFINE s1 == <<Try("adapter LUID", {}, u)>>
             s2 == find_physical_device(u)
             s3 == <<Try("device extensions", {}, u)>>
             s4 == find_queue_family(u)
             s5 == <<Try("vkCreateDevice", {Device}, u)>>
  <2>5. w = s1 \o s2 \o s3 \o s4 \o s5
    OBVIOUS
  <2> HIDE DEF s1, s2, s3, s4, s5, w
  <2>6. s1 \in Seq(Steps) /\ s2 \in Seq(Steps) /\ s3 \in Seq(Steps) /\ s4 \in Seq(Steps)
        /\ s5 \in Seq(Steps)
    BY <2>4 DEF s1, s2, s3, s4, s5
  <2> QED
    BY <2>5, <2>6, ConcatProperties
<1>7. a.call = "Entry::load" /\ r.call = "real functions"
  BY DEF Try, Step
<1> HIDE DEF a, b, c, r, w
<1>8. <<a, b, c>> \in Seq(Steps) /\ <<a, b, c>> # <<>> /\ Head(<<a, b, c>>) = a
      /\ <<r>> \in Seq(Steps) /\ <<r>> # <<>> /\ <<r>>[Len(<<r>>)] = r
  BY <1>5
<1>9. with_instance(u) \in Seq(Steps) /\ with_instance(u) # <<>>
      /\ with_instance(u)[Len(with_instance(u))] = r
  <2>1. w \o <<r>> \in Seq(Steps)
    BY <1>6, <1>8, ConcatProperties
  <2> QED
    BY <1>1, <1>6, <1>8, <2>1, EndsOfConcat
<1>10. VulkanContext_new # <<>> /\ Head(VulkanContext_new) = a
       /\ VulkanContext_new[Len(VulkanContext_new)] = r
  BY <1>2, <1>8, <1>9, EndsOfConcat
<1> QED
  BY <1>7, <1>10

(* Where the table of real functions is needed, and what will fill it.     *)
LoaderComes == loader > 0 \/ (todo # <<>> /\ Head(todo).call = "Entry::load")
TableComes == realFns > 0 \/ (todo # <<>> /\ todo[Len(todo)].call = "real functions")
NeedsTable(o) ==
    \/ EngineUsesVulkan(o)
    \/ starting = o /\ phase \in {"check", "state"}
    \/ starting = o /\ phase = "engine" /\ renderer[o] = "Vulkan"

TableInv ==
    /\ starting # NoOverlay /\ phase = "context" /\ Forward => LoaderComes /\ TableComes
    /\ \A o \in Overlays : NeedsTable(o) => realFns > 0

LEMMA TableInit == Init => TableInv
  BY NoOverlayAssumption DEF Init, TableInv, NeedsTable, EngineUsesVulkan

LEMMA TableSucceed ==
    ASSUME TypeInv, TableInv, starting # NoOverlay, todo # <<>>, Forward, Succeed(Current)
    PROVE  TableInv'
<1> DEFINE call == Current.call
<1>0. UNCHANGED <<stage, renderer, starting, phase>> /\ todo' = Tail(todo)
  BY DEF Succeed, overlayVars
<1>t. loader \in Nat /\ realFns \in Nat
  BY DEF TypeInv, TypeOK
<1>s. todo \in Seq(Steps)
  BY DEF TypeInv
<1>r. LoadEntry(call) /\ Remember(call)
  BY DEF Succeed
<1>h. call = Head(todo).call
  BY DEF Current
<1> HIDE DEF call
<1>1. realFns' = IF call = "real functions" /\ realFns = 0 THEN loader ELSE realFns
  BY <1>r DEF Remember
<1>2. loader > 0 \/ call = "Entry::load" => loader' > 0
  BY <1>r, <1>t DEF LoadEntry
<1>3. realFns > 0 => realFns' > 0
  <2>1. ASSUME realFns > 0 PROVE realFns # 0
    BY <1>t, <2>1
  <2>2. realFns # 0 => realFns' = realFns
    BY <1>1
  <2> QED
    BY <2>1, <2>2
<1>4. ASSUME phase = "context" PROVE LoaderComes' /\ TableComes'
  <2>1. LoaderComes /\ TableComes
    BY <1>4 DEF TableInv
  <2>2. loader > 0 \/ call = "Entry::load"
    BY <1>h, <2>1 DEF LoaderComes
  <2>3. LoaderComes'
    BY <1>2, <2>2 DEF LoaderComes
  <2>4. CASE realFns > 0
    BY <1>3, <2>3, <2>4 DEF TableComes
  <2>5. CASE ~(realFns > 0)
    <3>1. todo[Len(todo)].call = "real functions" /\ realFns = 0
      <4>1. todo[Len(todo)].call = "real functions"
        BY <2>1, <2>5 DEF TableComes
      <4>2. realFns = 0
        BY <1>t, <2>5
      <4> QED
        BY <4>1, <4>2
    <3>2. Len(todo) \in Nat /\ Len(todo) > 0 /\ Head(todo) = todo[1]
      BY <1>s
    <3>3. CASE Len(todo) = 1
      <4>1. call = "real functions"
        BY <1>h, <3>1, <3>2, <3>3
      <4>2. loader > 0
        BY <2>2, <4>1
      <4>3. realFns' > 0
        BY <1>1, <3>1, <4>1, <4>2
      <4> QED
        BY <2>3, <4>3 DEF TableComes
    <3>4. CASE Len(todo) # 1
      <4>1. Len(Tail(todo)) = Len(todo) - 1 /\ Tail(todo) \in Seq(Steps)
        BY <1>s
      <4>2. Len(todo) - 1 \in 1..Len(Tail(todo)) /\ Len(todo) - 1 > 0
        BY <3>2, <3>4, <4>1
      <4>3. Tail(todo)[Len(todo) - 1] = todo[(Len(todo) - 1) + 1]
        BY <1>s, <4>2
      <4>4. (Len(todo) - 1) + 1 = Len(todo)
        BY <3>2
      <4>5. Tail(todo) # <<>>
        <5>1. Len(<<>>) = 0
          OBVIOUS
        <5> QED
          BY <3>2, <4>1, <4>2, <5>1
      <4> QED
        BY <1>0, <2>3, <3>1, <4>1, <4>3, <4>4, <4>5 DEF TableComes
    <3> QED
      BY <3>3, <3>4
  <2> QED
    BY <2>4, <2>5
<1>5. ASSUME NEW o \in Overlays, NeedsTable(o)' PROVE realFns' > 0
  <2>1. NeedsTable(o)
    BY <1>0, <1>5 DEF NeedsTable, EngineUsesVulkan
  <2> QED
    BY <1>3, <2>1 DEF TableInv
<1> QED
  BY <1>0, <1>4, <1>5 DEF TableInv

(* Nothing an unwinding does empties the table, and no overlay comes to    *)
(* need it.                                                                *)
LEMMA TableUnwinds ==
    ASSUME TableInv, realFns' = realFns, phase' # "context" \/ ~Forward',
           \A o \in Overlays : NeedsTable(o)' => NeedsTable(o)
    PROVE  TableInv'
  BY DEF TableInv

LEMMA TableFail ==
    ASSUME TableInv, NEW step, Fail(step)
    PROVE  TableInv'
<1>1. UNCHANGED <<realFns, stage, renderer, starting, phase>> /\ ~Forward'
  BY DEF Fail, overlayVars, processVars, Forward
<1>2. \A o \in Overlays : NeedsTable(o)' => NeedsTable(o)
  BY <1>1 DEF NeedsTable, EngineUsesVulkan
<1> QED
  BY <1>1, <1>2, TableUnwinds

LEMMA TableUnwound ==
    ASSUME TypeInv, TableInv, Unwound
    PROVE  TableInv'
<1>1. UNCHANGED <<realFns, renderer>> /\ phase' # "context"
  BY DEF Unwound
<1>2. ASSUME NEW o \in Overlays, NeedsTable(o)' PROVE NeedsTable(o)
  <2>1. stage'[o] = "running" => stage[o] = "running"
    BY DEF Unwound, GiveUp, TypeInv, TypeOK
  <2>2. starting' = o => starting = o /\ (phase' = phase \/ phase' = "init_overlay")
    BY NoOverlayAssumption DEF Unwound, GiveUp
  <2> QED
    BY <1>1, <1>2, <2>1, <2>2 DEF NeedsTable, EngineUsesVulkan
<1> QED
  BY <1>1, <1>2, TableUnwinds

LEMMA TableNext ==
    ASSUME TypeInv, BuildInv, TableInv, NextFunction
    PROVE  TableInv'
<1>0. /\ starting # NoOverlay /\ todo = <<>> /\ UNCHANGED <<starting, stage, loader, realFns>>
      /\ starting \in Overlays /\ starter = "calls"
  BY DEF NextFunction, try_init_vulkan, try_init_opengl, build_software_renderer, PickHandoff,
     TextureFails, TextureDelivers, VulkanReady, OpenGLReady, Returned, overlayVars, TypeInv, TypeOK
<1>f. Forward
  BY <1>0 DEF Forward
<1>1. stage[starting] = "starting"
  BY <1>0, <1>f DEF BuildInv, Each, Started, Building
<1>2. ASSUME NEW o \in Overlays, EngineUsesVulkan(o)' PROVE EngineUsesVulkan(o)
  <2>1. o # starting
    BY <1>0, <1>1, <1>2 DEF EngineUsesVulkan
  <2>2. renderer'[o] = renderer[o]
    BY <2>1 DEF NextFunction, try_init_vulkan, try_init_opengl, build_software_renderer,
       PickHandoff, TextureFails, TextureDelivers, VulkanReady, OpenGLReady, RendererReady,
       overlayVars, TypeInv, TypeOK
  <2> QED
    BY <1>0, <1>2, <2>2 DEF EngineUsesVulkan
<1>3. ASSUME realFns > 0, phase' # "context" PROVE TableInv'
  BY <1>0, <1>3 DEF TableInv
<1>4. ASSUME phase' \notin {"check", "state"}, phase' = "engine" => renderer'[starting] # "Vulkan",
             phase' = "context" => todo' = VulkanContext_new
      PROVE  TableInv'
  <2>1. \A o \in Overlays : NeedsTable(o)' => EngineUsesVulkan(o)'
    BY <1>0, <1>4 DEF NeedsTable
  <2>2. phase' = "context" => (LoaderComes /\ TableComes)'
    BY <1>4, ContextCalls DEF LoaderComes, TableComes
  <2>3. \A o \in Overlays : NeedsTable(o)' => realFns' > 0
    BY <1>0, <1>2, <2>1 DEF TableInv, NeedsTable
  <2> QED
    BY <2>2, <2>3 DEF TableInv
<1>5. CASE try_init_vulkan
  BY <1>4, <1>5 DEF try_init_vulkan, Enter
<1>6. CASE try_init_opengl
  BY <1>4, <1>6 DEF try_init_opengl, Enter
<1>7. ASSUME NEW r, r # "Vulkan", RendererReady(r) PROVE TableInv'
  <2>1. renderer'[starting] = r /\ phase' = "engine"
    BY <1>0, <1>7 DEF RendererReady, Enter, TypeInv, TypeOK
  <2> QED
    BY <1>4, <1>7, <2>1
<1>8. CASE build_software_renderer \/ OpenGLReady
  BY <1>7, <1>8 DEF build_software_renderer, OpenGLReady
<1>9. CASE PickHandoff
  <2>1. realFns > 0
    BY <1>0, <1>f, <1>9 DEF PickHandoff, Returned, TableInv, TableComes
  <2>2. phase' # "context"
    BY <1>9 DEF PickHandoff, Enter
  <2> QED
    BY <1>3, <2>1, <2>2
<1>10. CASE TextureFails \/ TextureDelivers \/ VulkanReady
  <2>0. phase \in {"check", "state"}
    BY <1>10 DEF TextureFails, TextureDelivers, VulkanReady, Returned
  <2>1. NeedsTable(starting)
    BY <2>0 DEF NeedsTable
  <2>3. realFns > 0
    BY <1>0, <2>1 DEF TableInv
  <2>2. phase' # "context"
    BY <1>10 DEF TextureFails, TextureDelivers, VulkanReady, RendererReady, Enter
  <2> QED
    BY <1>3, <2>2, <2>3
<1> QED
  BY <1>5, <1>6, <1>8, <1>9, <1>10 DEF NextFunction

LEMMA TableStep == LockInv /\ TypeInv /\ BuildInv /\ TableInv /\ [Next]_vars => TableInv'
<1> SUFFICES ASSUME LockInv, TypeInv, BuildInv, TableInv, [Next]_vars PROVE TableInv'
  OBVIOUS
<1>1. ASSUME NEW p \in Overlays, create(p) PROVE TableInv'
  <2>1. /\ UNCHANGED <<renderer, realFns>> /\ phase' = "init_overlay"
        /\ \A o \in Overlays : stage'[o] = "running" => stage[o] = "running"
    BY <1>1 DEF create, processVars, TypeInv, TypeOK
  <2> QED
    BY <2>1 DEF TableInv, NeedsTable, EngineUsesVulkan
<1>2. ASSUME UNCHANGED <<overlayVars, starting, phase, todo, loader, realFns>>,
             Forward' => Forward \/ phase # "context"
      PROVE  TableInv'
  BY <1>2 DEF TableInv, NeedsTable, EngineUsesVulkan, overlayVars, LoaderComes, TableComes
<1>3. ASSUME NEW p \in Overlays, NEW t \in EngineThreads, EngineCalls(p, t) \/ CallReturns(p, t)
      PROVE  TableInv'
  BY <1>2, <1>3 DEF EngineCalls, CallReturns, startVars, processVars, Forward
<1>4. CASE CallSucceeds
  BY <1>4, TableSucceed DEF CallSucceeds, Calling, Forward
<1>5. CASE CallFails
  BY <1>5, TableFail DEF CallFails
<1>6. CASE CallQueues \/ wait_idle
  BY <1>2, <1>6 DEF CallQueues, wait_idle, Calling, Unwinding, EnterQueue, processVars, Forward
<1>10. CASE QueueCallEnds
  <2>1. starting # NoOverlay /\ todo # <<>> /\ Forward
    BY <1>10 DEF QueueCallEnds, LockInv, Forward
  <2> QED
    BY <1>10, <2>1, TableSucceed, TableFail DEF QueueCallEnds
<1>11. CASE Release \/ DeviceIdle
  BY <1>2, <1>11 DEF Release, DeviceIdle, Unwinding, processVars, Forward
<1>12. CASE Unwound
  BY <1>12, TableUnwound
<1>7. CASE NextFunction
  BY <1>7, TableNext
<1>8. CASE Created
  <2>1. /\ UNCHANGED <<renderer, realFns>> /\ starting' = NoOverlay /\ phase = "engine"
        /\ \A o \in Overlays : stage'[o] = "running" => stage[o] = "running" \/ o = starting
    BY <1>8 DEF Created, Returned, processVars, TypeInv, TypeOK
  <2>2. ASSUME NEW o \in Overlays, NeedsTable(o)' PROVE NeedsTable(o)
    BY <2>1, <2>2, NoOverlayAssumption DEF NeedsTable, EngineUsesVulkan
  <2> QED
    BY <2>1, <2>2 DEF TableInv
<1>9. CASE UNCHANGED vars
  BY <1>2, <1>9 DEF vars, startVars, processVars, Forward
<1> QED
  BY <1>1, <1>3, <1>4, <1>5, <1>6, <1>7, <1>8, <1>9, <1>10, <1>11, <1>12 DEF Next, StarterStep

(* The overlays for which OPENGL_CONTEXT_CREATED is set.                   *)
RunsOpenGL(o) == stage[o] = "running" /\ renderer[o] = "OpenGL"
TakesSlot(o) ==
    \/ RunsOpenGL(o)
    \/ starting = o /\ phase = "angle"
    \/ starting = o /\ phase = "engine" /\ renderer[o] = "OpenGL"

SlotInv ==
    /\ \A o \in Overlays : TakesSlot(o) => slot
    /\ \A o, p \in Overlays : TakesSlot(o) /\ TakesSlot(p) => o = p

LEMMA SlotInit == Init => SlotInv
  BY NoOverlayAssumption DEF Init, SlotInv, TakesSlot, RunsOpenGL

(* No overlay takes the slot that had not taken it, and it stays taken. *)
LEMMA SlotStays ==
    ASSUME SlotInv, slot' = slot, \A o \in Overlays : TakesSlot(o)' => TakesSlot(o)
    PROVE  SlotInv'
  BY DEF SlotInv

LEMMA SlotUnwound ==
    ASSUME TypeInv, BuildInv, SlotInv, starting # NoOverlay, Unwound
    PROVE  SlotInv'
<1>0. starting \in Overlays /\ stage[starting] = "starting"
  BY DEF TypeInv, TypeOK, BuildInv, Each, Started, Building, Undoing
<1>1. renderer' = renderer /\ phase' # "angle"
  BY DEF Unwound
<1>2. ASSUME NEW o \in Overlays PROVE RunsOpenGL(o)' => RunsOpenGL(o)
  BY <1>1 DEF RunsOpenGL, Unwound, GiveUp, TypeInv, TypeOK
<1>3. ASSUME NEW o \in Overlays, starting' = o, phase' = "engine" PROVE FALSE
  BY <1>3, NoOverlayAssumption DEF Unwound, GiveUp
<1>4. \A o \in Overlays : TakesSlot(o)' => RunsOpenGL(o)
  BY <1>1, <1>2, <1>3 DEF TakesSlot
<1>5. CASE phase = "angle"
  <2>1. TakesSlot(starting)
    BY <1>5 DEF TakesSlot
  <2>2. ASSUME NEW o \in Overlays, RunsOpenGL(o) PROVE FALSE
    BY <1>0, <2>1, <2>2 DEF SlotInv, TakesSlot, RunsOpenGL
  <2> QED
    BY <1>4, <2>2 DEF SlotInv
<1>6. CASE phase # "angle"
  <2>1. slot' = slot
    BY <1>6 DEF Unwound
  <2>2. \A o \in Overlays : TakesSlot(o)' => TakesSlot(o)
    BY <1>4 DEF TakesSlot
  <2> QED
    BY <2>1, <2>2, SlotStays
<1> QED
  BY <1>5, <1>6

LEMMA SlotNext ==
    ASSUME TypeInv, BuildInv, SlotInv, NextFunction
    PROVE  SlotInv'
<1>0. starting \in Overlays /\ stage[starting] = "starting" /\ UNCHANGED <<starting, stage>>
  <2>1. starting # NoOverlay /\ UNCHANGED <<starting, stage>>
    BY DEF NextFunction, try_init_vulkan, try_init_opengl, build_software_renderer, PickHandoff,
       TextureFails, TextureDelivers, VulkanReady, OpenGLReady, Returned, overlayVars
  <2> QED
    BY <2>1 DEF TypeInv, TypeOK, BuildInv, Each, Started, Building, Undoing
<1>1. ASSUME NEW o \in Overlays, RunsOpenGL(o)' PROVE RunsOpenGL(o) /\ o # starting
  <2>1. o # starting
    BY <1>0, <1>1 DEF RunsOpenGL
  <2>2. renderer'[o] = renderer[o]
    BY <2>1 DEF NextFunction, try_init_vulkan, try_init_opengl, build_software_renderer,
       PickHandoff, TextureFails, TextureDelivers, VulkanReady, OpenGLReady, RendererReady,
       overlayVars, TypeInv, TypeOK
  <2> QED
    BY <1>0, <1>1, <2>1, <2>2 DEF RunsOpenGL
<1>2. ASSUME slot' = slot, phase' # "angle",
             phase' = "engine" => renderer'[starting] # "OpenGL" \/ TakesSlot(starting)
      PROVE  SlotInv'
  <2>1. ASSUME NEW o \in Overlays, TakesSlot(o)' PROVE TakesSlot(o)
    <3>1. CASE RunsOpenGL(o)'
      BY <1>1, <3>1 DEF TakesSlot
    <3>2. CASE ~RunsOpenGL(o)'
      BY <1>0, <1>2, <2>1, <3>2 DEF TakesSlot
    <3> QED
      BY <3>1, <3>2
  <2> QED
    BY <1>2, <2>1, SlotStays
<1>3. CASE try_init_vulkan \/ PickHandoff \/ TextureFails \/ TextureDelivers
  <2>1. slot' = slot /\ phase' \in {"context", "check", "state"}
    BY <1>3 DEF try_init_vulkan, PickHandoff, TextureFails, TextureDelivers, Enter
  <2> QED
    BY <1>2, <2>1
<1>4. CASE try_init_opengl
  <2>1. CASE slot
    <3>1. slot' = slot /\ phase' = "init_overlay"
      BY <1>4, <2>1 DEF try_init_opengl, Enter
    <3> QED
      BY <1>2, <3>1
  <2>2. CASE ~slot
    <3>1. slot' = TRUE /\ phase' = "angle"
      BY <1>4, <2>2 DEF try_init_opengl, Enter
    <3>2. \A o \in Overlays : TakesSlot(o)' => o = starting
      BY <1>0, <1>1, <2>2, <3>1 DEF SlotInv, TakesSlot
    <3> QED
      BY <3>1, <3>2 DEF SlotInv
  <2> QED
    BY <2>1, <2>2
<1>5. ASSUME NEW r, RendererReady(r), slot' = slot, r = "OpenGL" => phase = "angle"
      PROVE  SlotInv'
  <2>1. renderer'[starting] = r /\ phase' = "engine"
    BY <1>0, <1>5 DEF RendererReady, Enter, TypeInv, TypeOK
  <2>2. r = "OpenGL" => TakesSlot(starting)
    BY <1>5 DEF TakesSlot
  <2> QED
    BY <1>2, <1>5, <2>1, <2>2
<1>6. CASE build_software_renderer
  BY <1>5, <1>6 DEF build_software_renderer
<1>7. CASE VulkanReady
  BY <1>5, <1>7 DEF VulkanReady
<1>8. CASE OpenGLReady
  BY <1>5, <1>8 DEF OpenGLReady, Returned
<1> QED
  BY <1>3, <1>4, <1>6, <1>7, <1>8 DEF NextFunction

LEMMA SlotStep == LockInv /\ TypeInv /\ BuildInv /\ SlotInv /\ [Next]_vars => SlotInv'
<1> SUFFICES ASSUME LockInv, TypeInv, BuildInv, SlotInv, [Next]_vars PROVE SlotInv'
  OBVIOUS
<1>1. ASSUME NEW p \in Overlays, create(p) PROVE SlotInv'
  <2>1. /\ UNCHANGED <<renderer, slot>> /\ phase' = "init_overlay"
        /\ \A o \in Overlays : stage'[o] = "running" => stage[o] = "running"
    BY <1>1 DEF create, processVars, TypeInv, TypeOK
  <2>2. \A o \in Overlays : TakesSlot(o)' => TakesSlot(o)
    BY <2>1 DEF TakesSlot, RunsOpenGL
  <2> QED
    BY <2>1, <2>2, SlotStays
<1>2. ASSUME UNCHANGED <<stage, renderer, starting, phase, slot>> PROVE SlotInv'
  BY <1>2 DEF SlotInv, TakesSlot, RunsOpenGL
<1>3. ASSUME NEW p \in Overlays, NEW t \in EngineThreads, EngineCalls(p, t) \/ CallReturns(p, t)
      PROVE  SlotInv'
  BY <1>2, <1>3 DEF EngineCalls, CallReturns, overlayVars, startVars, processVars
<1>4. ASSUME Succeed(Current) PROVE SlotInv'
  BY <1>2, <1>4 DEF Succeed, overlayVars
<1>5. CASE CallSucceeds \/ CallFails \/ QueueCallEnds
  BY <1>2, <1>4, <1>5 DEF CallSucceeds, CallFails, QueueCallEnds, Fail, overlayVars, processVars
<1>6. CASE CallQueues \/ Release \/ wait_idle \/ DeviceIdle
  BY <1>2, <1>6 DEF CallQueues, Release, wait_idle, DeviceIdle, EnterQueue, overlayVars, processVars
<1>7. CASE Unwound
  BY <1>7, SlotUnwound DEF Unwound, LockInv
<1>8. CASE NextFunction
  BY <1>8, SlotNext
<1>9. CASE Created
  <2>1. /\ UNCHANGED <<renderer, slot>> /\ starting' = NoOverlay /\ phase = "engine"
        /\ \A o \in Overlays : stage'[o] = "running" => stage[o] = "running" \/ o = starting
    BY <1>9 DEF Created, Returned, processVars, TypeInv, TypeOK
  <2>2. ASSUME NEW o \in Overlays, TakesSlot(o)' PROVE TakesSlot(o)
    BY <2>1, <2>2, NoOverlayAssumption DEF TakesSlot, RunsOpenGL
  <2> QED
    BY <2>1, <2>2, SlotStays
<1>10. CASE UNCHANGED vars
  BY <1>2, <1>10 DEF vars, overlayVars, startVars, processVars
<1> QED
  BY <1>1, <1>3, <1>5, <1>6, <1>7, <1>8, <1>9, <1>10 DEF Next, StarterStep

StartInv == LockInv /\ TypeInv /\ BuildInv /\ TableInv /\ SlotInv

LEMMA StartInit == Init => StartInv
  BY LockInit, TypeInit, BuildInit, TableInit, SlotInit DEF StartInv

LEMMA StartStep == StartInv /\ [Next]_vars => StartInv'
  BY LockStep, TypeStep, BuildStep, TableStep, SlotStep DEF StartInv

LEMMA StartBorrows == StartInv => BorrowedIsLive
<1> SUFFICES ASSUME StartInv, NEW o \in Overlays, stage[o] = "running"
             PROVE  /\ renderer[o] = "Vulkan" =>
                          /\ ContextObjects \cup CopyObjects \cup ImageObjects("render")
                                \cup TargetOf(o) \subseteq live[o]
                          /\ realFns > 0
                    /\ renderer[o] = "OpenGL" =>
                          /\ AngleObjects \subseteq live[o]
                          /\ slot
                          /\ \A p \in Overlays \ {o} :
                                stage[p] = "running" => live[p]
                                            \cap AngleObjects \subseteq {Display}
  BY DEF BorrowedIsLive, Display
<1>1. ASSUME NEW p \in Overlays, stage[p] = "running" PROVE Works(p, Own(p) \ EngineObjects)
  BY <1>1 DEF StartInv, BuildInv, Each, Started, Building, Undoing, Idle
<1>2. ASSUME renderer[o] = "Vulkan"
      PROVE  /\ ContextObjects \cup CopyObjects \cup ImageObjects("render")
                   \cup TargetOf(o) \subseteq live[o]
             /\ realFns > 0
  <2>1. TargetOf(o) = TargetFor(handoff[o])
    BY DEF TargetOf, TargetFor
  <2>2. BuiltVulkan(handoff[o]) \subseteq live[o]
    BY <1>1, <1>2 DEF Works, Own
  <2>3. realFns > 0
    BY <1>2 DEF StartInv, TableInv, NeedsTable, EngineUsesVulkan
  <2> QED
    BY <2>1, <2>2, <2>3 DEF BuiltVulkan
<1>3. ASSUME renderer[o] = "OpenGL" PROVE AngleObjects \subseteq live[o] /\ slot
  <2>1. AngleObjects \subseteq live[o]
    BY <1>1, <1>3 DEF Works, Own
  <2>2. slot
    BY <1>3 DEF StartInv, SlotInv, TakesSlot, RunsOpenGL
  <2> QED
    BY <2>1, <2>2
<1>4. ASSUME renderer[o] = "OpenGL", NEW p \in Overlays \ {o}, stage[p] = "running"
      PROVE  live[p] \cap AngleObjects \subseteq {Display}
  <2>1. renderer[p] # "OpenGL" /\ renderer[p] \in Renderers \cup {"none"}
    BY <1>4 DEF StartInv, SlotInv, TakesSlot, RunsOpenGL, TypeInv, TypeOK
  <2>2. Works(p, Own(p) \ EngineObjects) /\ TypeInv
    BY <1>1, <1>4 DEF StartInv
  <2>3. live[p] \subseteq (Own(p) \ EngineObjects) \cup leaked[p] \cup EngineObjects
    BY DEF Own
  <2>4. leaked[p] \cap AngleObjects = {}
    BY <2>2, Disjoint
  <2>5. CASE renderer[p] = "Vulkan"
    <3>1. BuiltVulkan(handoff[p]) \subseteq VulkanObjects
      BY Parts DEF BuiltVulkan, TargetFor
    <3>2. (Own(p) \ EngineObjects) \cap AngleObjects = {}
      BY <2>2, <2>5, <3>1, Apart DEF Works
    <3> QED
      BY <2>3, <2>4, <3>2, Apart
  <2>6. CASE renderer[p] = "Software"
    <3>1. (Own(p) \ EngineObjects) \cap AngleObjects \subseteq {Display}
      BY <2>2, <2>6, Apart DEF Works
    <3> QED
      BY <2>3, <2>4, <3>1, Apart
  <2> QED
    BY <2>1, <2>2, <2>5, <2>6 DEF Works, Renderers
<1> QED
  BY <1>2, <1>3, <1>4

(* An engine that runs on Vulkan keeps the loader loaded, so no later      *)
(* Entry::load changes its generation; and the table is filled, so no      *)
(* later start refills it.                                                 *)
LEMMA StartKeepsTable ==
    ASSUME StartInv, [Next]_vars, NEW o \in Overlays, EngineUsesVulkan(o), realFns = loader
    PROVE  realFns' = loader'
<1>1. realFns > 0 /\ realFns # 0
  BY DEF StartInv, TableInv, NeedsTable, TypeInv, TypeOK
<1>2. LoaderHeld
  <2>1. Works(o, Own(o) \ EngineObjects)
    BY DEF StartInv, BuildInv, Each, Started, Building, Undoing, Idle, EngineUsesVulkan
  <2>2. Entry \in live[o]
    BY <2>1, ContextIs DEF Works, Own, BuiltVulkan, EngineUsesVulkan
  <2> QED
    BY <2>2 DEF LoaderHeld, Entry
<1>3. ASSUME NEW step, Succeed(step) PROVE realFns' = loader'
  <2>1. LoadEntry(step.call) /\ Remember(step.call)
    BY <1>3 DEF Succeed
  <2>2. loader # 0
    BY <1>1
  <2>3. loader' = loader
    BY <1>2, <2>1, <2>2 DEF LoadEntry
  <2>4. realFns' = realFns
    BY <1>1, <2>1 DEF Remember
  <2> QED
    BY <2>3, <2>4
<1>4. ASSUME UNCHANGED <<realFns, loader>> PROVE realFns' = loader'
  BY <1>4
<1>5. CASE UNCHANGED vars
  BY <1>4, <1>5 DEF vars, processVars
<1>6. CASE Next
  BY <1>3, <1>4, <1>6 DEF Next, create, StarterStep, CallSucceeds, CallFails, CallQueues,
     QueueCallEnds, Release, wait_idle, DeviceIdle, Unwound, EnterQueue, NextFunction, Created,
     Fail, EngineCalls, CallReturns, processVars
<1> QED
  BY <1>5, <1>6

(* The types of the state, the calls left included: every constructor's    *)
(* sequence is one of steps over the native objects.                       *)
THEOREM TypesAreKept == Spec => []TypeOK
<1>1. StartInv => TypeOK
  BY DEF StartInv, TypeInv
<1> QED
  BY <1>1, StartInit, StartStep, PTL DEF Spec

(* Whatever call a start fails at, the constructors that unwind release    *)
(* all they made: an overlay outside an attempt holds its renderer's       *)
(* objects, what the check leaked on purpose and at most the ANGLE         *)
(* display.                                                                *)
THEOREM FailedStartsLeaveNothing == Spec => []FailuresLeaveNothing
<1>1. StartInv => FailuresLeaveNothing
  BY BuildLeaves DEF StartInv
<1> QED
  BY <1>1, StartInit, StartStep, PTL DEF Spec

(* On every path through the constructors' error handling, and between any *)
(* two releases of it, a device exists as long as anything made from it    *)
(* that was not leaked, and its instance as long as the device.            *)
THEOREM ChildrenAreReleasedFirst == Spec => []ChildrenDieFirst
<1>1. StartInv => ChildrenDieFirst
  BY BuildChildren DEF StartInv
<1> QED
  BY <1>1, StartInit, StartStep, PTL DEF Spec

(* An engine that runs has the whole renderer it was given: the Vulkan     *)
(* context with the target of its hand-off and the table of real           *)
(* functions, or the ANGLE state, which no other running overlay has.      *)
THEOREM EnginesBorrowWhatIsLive == Spec => []BorrowedIsLive
  BY StartInit, StartStep, StartBorrows, PTL DEF Spec

(* No step, of another start or of its failure, makes the table of real    *)
(* functions worse under an engine that uses it.                           *)
THEOREM TableStaysGood == Spec => TableKeptInUse
<1>1. StartInv /\ [Next]_vars =>
          [\A o \in Overlays : EngineUsesVulkan(o) /\ realFns = loader => realFns' = loader']_vars
  BY StartKeepsTable
<1> QED
  BY <1>1, StartInit, StartStep, PTL DEF Spec, TableKeptInUse

-----------------------------------------------------------------------------
(* What the check found.  Until the engine runs, the hand-off is settled   *)
(* between the check and the construction of the interop state; nothing    *)
(* later changes either, whatever fails.                                   *)
Proven(o) == handoff[o] = "shared" => delivers[o] = "delivers"

StartTypes ==
    /\ stage \in [Overlays -> Stages]
    /\ renderer \in [Overlays -> Renderers \cup {"none"}]
    /\ handoff \in [Overlays -> {"none", "shared", "readback"}]
    /\ delivers \in [Overlays -> {"untested", "delivers", "fails"}]
    /\ starting \in Overlays \cup {NoOverlay}

HandoffInv ==
    /\ StartTypes
    /\ starting # NoOverlay => stage[starting] = "starting"
    /\ HandoffProven
    /\ starting # NoOverlay /\ phase = "state" => Proven(starting)
    /\ starting # NoOverlay /\ phase = "engine" /\ renderer[starting] = "Vulkan"
          => Proven(starting)

USE NoOverlayAssumption DEF HandoffInv, StartTypes, HandoffProven, EngineUsesVulkan, Proven

LEMMA HandoffInit == Init => HandoffInv
  BY DEF Init, Stages, Renderers

LEMMA HandoffFail ==
    ASSUME HandoffInv, NEW step, Fail(step)
    PROVE  HandoffInv'
  BY DEF Fail, overlayVars

LEMMA HandoffUnwound ==
    ASSUME HandoffInv, starting # NoOverlay, Unwound
    PROVE  HandoffInv'
<1>1. StartTypes'
  BY DEF Unwound, GiveUp, Stages
<1>2. ASSUME NEW o \in Overlays, EngineUsesVulkan(o)'
      PROVE  stage[o] = "running" /\ o # starting
  BY <1>2 DEF Unwound, GiveUp
<1>3. HandoffProven'
  BY <1>2 DEF Unwound
<1>4. phase' # "state" /\ (phase' = "engine" => starting' = NoOverlay)
  BY DEF Unwound, GiveUp
<1>5. starting' # NoOverlay => starting' = starting /\ stage' = stage
  BY DEF Unwound, GiveUp
<1> QED
  BY <1>1, <1>3, <1>4, <1>5

LEMMA HandoffSucceed ==
    ASSUME HandoffInv, NEW step, Succeed(step)
    PROVE  HandoffInv'
  BY DEF Succeed, overlayVars

(* A context that works and the check behind it settle the hand-off.       *)
LEMMA HandoffChecked ==
    ASSUME HandoffInv, UNCHANGED starting, PickHandoff \/ TextureFails \/ TextureDelivers
    PROVE  HandoffInv'
<1>0. starting \in Overlays /\ stage[starting] = "starting"
  BY DEF PickHandoff, TextureFails, TextureDelivers, Returned
<1>1. CASE PickHandoff
  <2>1. PICK mode \in {"shared", "readback"} :
           /\ handoff' = [handoff EXCEPT ![starting] = mode]
           /\ phase' = IF mode = "shared" THEN "check" ELSE "state"
    BY <1>1 DEF PickHandoff, Enter
  <2> QED
    BY <1>0, <1>1, <2>1 DEF PickHandoff
<1>2. CASE TextureFails
  BY <1>0, <1>2 DEF TextureFails, use_readback, Enter
<1>3. CASE TextureDelivers
  BY <1>0, <1>3 DEF TextureDelivers, Enter
<1> QED
  BY <1>1, <1>2, <1>3

LEMMA HandoffNext == HandoffInv /\ NextFunction => HandoffInv'
<1> SUFFICES ASSUME HandoffInv, NextFunction PROVE HandoffInv'
  OBVIOUS
<1>0. UNCHANGED starting
  BY DEF NextFunction
<1>1. CASE try_init_vulkan
  BY <1>0, <1>1 DEF try_init_vulkan, overlayVars, Enter
<1>2. CASE try_init_opengl
  BY <1>0, <1>2 DEF try_init_opengl, overlayVars, Enter
<1>3. ASSUME NEW r \in Renderers, RendererReady(r), starting # NoOverlay,
             r = "Vulkan" => phase = "state", UNCHANGED <<stage, handoff, delivers>>
      PROVE  HandoffInv'
  <2>1. phase' = "engine" /\ renderer' = [renderer EXCEPT ![starting] = r]
    BY <1>3 DEF RendererReady, Enter
  <2> QED
    BY <1>0, <1>3, <2>1
<1>4. CASE build_software_renderer
  BY <1>3, <1>4 DEF build_software_renderer, Returned, Renderers
<1>5. CASE VulkanReady
  BY <1>3, <1>5 DEF VulkanReady, Returned, Renderers
<1>6. CASE OpenGLReady
  BY <1>3, <1>6 DEF OpenGLReady, Returned, Renderers
<1> QED
  BY <1>0, <1>1, <1>2, <1>4, <1>5, <1>6, HandoffChecked DEF NextFunction

LEMMA HandoffStep == LockInv /\ HandoffInv /\ [Next]_vars => HandoffInv'
<1> SUFFICES ASSUME LockInv, HandoffInv, [Next]_vars PROVE HandoffInv'
  OBVIOUS
<1>1. ASSUME NEW o \in Overlays, create(o) PROVE HandoffInv'
  BY <1>1 DEF create, Stages
<1>2. ASSUME NEW o \in Overlays, NEW t \in EngineThreads, EngineCalls(o, t) \/ CallReturns(o, t)
      PROVE  HandoffInv'
  BY <1>2 DEF EngineCalls, CallReturns, overlayVars, startVars
<1>3. CASE CallSucceeds \/ CallFails \/ QueueCallEnds
  BY <1>3, HandoffFail, HandoffSucceed DEF CallSucceeds, CallFails, QueueCallEnds
<1>4. CASE CallQueues \/ Release \/ wait_idle \/ DeviceIdle
  BY <1>4 DEF CallQueues, Release, wait_idle, DeviceIdle, EnterQueue, overlayVars
<1>5. CASE Unwound
  BY <1>5, HandoffUnwound DEF Unwound, LockInv
<1>6. CASE Created
  BY <1>6 DEF Created, Returned, Stages
<1>7. CASE UNCHANGED vars
  BY <1>7 DEF vars, overlayVars, startVars
<1> QED
  BY <1>1, <1>2, <1>3, <1>4, <1>5, <1>6, <1>7, HandoffNext DEF Next, StarterStep

(* Only a texture that delivered the test pattern to the host is used to   *)
(* hand frames over, on every path through the attempts and their errors.  *)
THEOREM HandoffIsProven == Spec => []HandoffProven
<1>1. LockInv /\ HandoffInv /\ [Next]_vars => (LockInv /\ HandoffInv)'
  BY LockStep, HandoffStep
<1>2. HandoffInv => HandoffProven
  OBVIOUS
<1> QED
  BY <1>1, <1>2, LockInit, HandoffInit, PTL DEF Spec

=============================================================================
