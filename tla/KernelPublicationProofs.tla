----------------------- MODULE KernelPublicationProofs -----------------------
(***************************************************************************)
(* Proofs about KernelPublication, for any number of threads, address      *)
(* ranges and images.                                                      *)
(***************************************************************************)
EXTENDS KernelPublication, TLAPS

\* What a publication under way has established at its stage.
Staged ==
    \A t \in Threads :
        /\ slot[t] = NoSlot <=> pc[t] \in {"idle", "reserve"}
        /\ pc[t] # "idle" => image[t] \in sound
        /\ pc[t] \in {"executable", "synchronized"} => protection[slot[t]] = "rx"
        /\ pc[t] \in {"verified", "executable", "synchronized"} => memory[slot[t]] = image[t]
        /\ pc[t] = "synchronized" => fetchable[slot[t]] = {image[t]}

\* A kernel that somebody holds is executable, and a fetch from its address
\* can yield nothing else.
Callable ==
    \A s \in Slots : holders[s] # {} =>
        /\ protection[s] = "rx"
        /\ kernel[s] \in sound
        /\ memory[s] = kernel[s]
        /\ fetchable[s] = {kernel[s]}

\* Calls and sessions borrow a clone of their thread.
Borrowed ==
    \A t \in Threads :
        /\ calling[t] # NoSlot =>
              /\ t \in holders[calling[t]]
              /\ ran[t] = kernel[calling[t]]
              /\ abi[kernel[calling[t]]] = "register" => session[t] = calling[t]
        /\ session[t] # NoSlot =>
              /\ t \in holders[session[t]]
              /\ kernel[session[t]] \in fixed => vl[t] = FixedVL

Inv == TypeOK /\ MappedIsOwned /\ Staged /\ Callable /\ Borrowed

LEMMA InitInv == Init => Inv
<1> SUFFICES ASSUME Init PROVE Inv
  OBVIOUS
<1> USE PublicationAssumption DEF Init
<1>1. TypeOK
  BY DEF TypeOK, Contents, VectorLengths, FixedVL
<1>2. MappedIsOwned
  BY DEF MappedIsOwned, Publishers
<1>3. Staged /\ Callable /\ Borrowed
  BY DEF Staged, Callable, Borrowed
<1> QED
  BY <1>1, <1>2, <1>3 DEF Inv

LEMMA PreflightInv ==
  ASSUME Inv, NEW t \in Threads, NEW i \in Images, Preflight(t, i)
  PROVE  Inv'
<1> USE PublicationAssumption DEF Inv, Preflight, Idle, slots, publication, kernels, calls
<1>1. TypeOK'
  BY DEF TypeOK, Contents, Stages
<1>2. MappedIsOwned'
  BY DEF MappedIsOwned, Publishers, Staged, TypeOK, Stages
<1>3. Staged'
  BY DEF MappedIsOwned, Publishers, Staged, TypeOK, Stages
<1>4. Callable'
  BY DEF MappedIsOwned, Publishers, Staged, Callable, TypeOK
<1>5. Borrowed'
  BY DEF MappedIsOwned, Publishers, Staged, Callable, Borrowed, TypeOK
<1> QED
  BY <1>1, <1>2, <1>3, <1>4, <1>5

LEMMA ReserveInv ==
  ASSUME Inv, NEW t \in Threads, NEW s \in Slots, Reserve(t, s)
  PROVE  Inv'
<1> USE PublicationAssumption DEF Inv, Reserve, Stage, slots, publication, kernels, calls
<1>1. TypeOK'
  BY DEF TypeOK, Contents, Stages
<1>2. MappedIsOwned'
  BY DEF MappedIsOwned, Publishers, Staged, TypeOK, Stages
<1>3. Staged'
  BY DEF MappedIsOwned, Publishers, Staged, TypeOK, Stages
<1>4. Callable'
  BY DEF MappedIsOwned, Publishers, Staged, Callable, TypeOK
<1>5. Borrowed'
  BY DEF MappedIsOwned, Publishers, Staged, Callable, Borrowed, TypeOK
<1> QED
  BY <1>1, <1>2, <1>3, <1>4, <1>5

LEMMA ReserveFailsInv ==
  ASSUME Inv, NEW t \in Threads, ReserveFails(t)
  PROVE  Inv'
<1> USE PublicationAssumption DEF Inv, ReserveFails, Stage, slots, publication, kernels, calls
<1>1. TypeOK'
  BY DEF TypeOK, Contents, Stages
<1>2. MappedIsOwned'
  BY DEF MappedIsOwned, Publishers, Staged, TypeOK, Stages
<1>3. Staged'
  BY DEF MappedIsOwned, Publishers, Staged, TypeOK, Stages
<1>4. Callable'
  BY DEF MappedIsOwned, Publishers, Staged, Callable, TypeOK
<1>5. Borrowed'
  BY DEF MappedIsOwned, Publishers, Staged, Callable, Borrowed, TypeOK
<1> QED
  BY <1>1, <1>2, <1>3, <1>4, <1>5

LEMMA MakeWritableInv ==
  ASSUME Inv, NEW t \in Threads, MakeWritable(t)
  PROVE  Inv'
<1> USE PublicationAssumption DEF Inv, MakeWritable, Stage, slots, publication, kernels, calls
<1>1. TypeOK'
  BY DEF TypeOK, Contents, Stages
<1>2. MappedIsOwned'
  BY DEF MappedIsOwned, Publishers, Staged, TypeOK, Stages
<1>3. Staged'
  BY DEF MappedIsOwned, Publishers, Staged, TypeOK, Stages
<1>4. Callable'
  BY DEF MappedIsOwned, Publishers, Staged, Callable, TypeOK
<1>5. Borrowed'
  BY DEF MappedIsOwned, Publishers, Staged, Callable, Borrowed, TypeOK
<1> QED
  BY <1>1, <1>2, <1>3, <1>4, <1>5

LEMMA CopyInv ==
  ASSUME Inv, NEW t \in Threads, Copy(t)
  PROVE  Inv'
<1> USE PublicationAssumption DEF Inv, Copy, Stage, slots, publication, kernels, calls
<1>1. TypeOK'
  BY DEF TypeOK, Contents, Stages, Staged
<1>2. MappedIsOwned'
  BY DEF MappedIsOwned, Publishers, Staged, TypeOK, Stages
<1>3. Staged'
  BY DEF MappedIsOwned, Publishers, Staged, TypeOK, Stages
<1>4. Callable'
  BY DEF MappedIsOwned, Publishers, Staged, Callable, TypeOK
<1>5. Borrowed'
  BY DEF MappedIsOwned, Publishers, Staged, Callable, Borrowed, TypeOK
<1> QED
  BY <1>1, <1>2, <1>3, <1>4, <1>5

LEMMA VerifyInv ==
  ASSUME Inv, NEW t \in Threads, Verify(t)
  PROVE  Inv'
<1> USE PublicationAssumption DEF Inv, Verify, Verifies, Stage, slots, publication, kernels, calls
<1>1. TypeOK'
  BY DEF TypeOK, Contents, Stages
<1>2. MappedIsOwned'
  BY DEF MappedIsOwned, Publishers, Staged, TypeOK, Stages
<1>3. Staged'
  BY DEF MappedIsOwned, Publishers, Staged, TypeOK, Stages
<1>4. Callable'
  BY DEF MappedIsOwned, Publishers, Staged, Callable, TypeOK
<1>5. Borrowed'
  BY DEF MappedIsOwned, Publishers, Staged, Callable, Borrowed, TypeOK
<1> QED
  BY <1>1, <1>2, <1>3, <1>4, <1>5

LEMMA MakeExecutableInv ==
  ASSUME Inv, NEW t \in Threads, MakeExecutable(t)
  PROVE  Inv'
<1> USE PublicationAssumption DEF Inv, MakeExecutable, Stage, slots, publication, kernels, calls
<1>1. TypeOK'
  BY DEF TypeOK, Contents, Stages
<1>2. MappedIsOwned'
  BY DEF MappedIsOwned, Publishers, Staged, TypeOK, Stages
<1>3. Staged'
  BY DEF MappedIsOwned, Publishers, Staged, TypeOK, Stages
<1>4. Callable'
  BY DEF MappedIsOwned, Publishers, Staged, Callable, TypeOK
<1>5. Borrowed'
  BY DEF MappedIsOwned, Publishers, Staged, Callable, Borrowed, TypeOK
<1> QED
  BY <1>1, <1>2, <1>3, <1>4, <1>5

LEMMA SynchronizeInv ==
  ASSUME Inv, NEW t \in Threads, Synchronize(t)
  PROVE  Inv'
<1> USE PublicationAssumption DEF Inv, Synchronize, Stage, slots, publication, kernels, calls
<1>1. TypeOK'
  BY DEF TypeOK, Contents, Stages
<1>2. MappedIsOwned'
  BY DEF MappedIsOwned, Publishers, Staged, TypeOK, Stages
<1>3. Staged'
  BY DEF MappedIsOwned, Publishers, Staged, TypeOK, Stages
<1>4. Callable'
  BY DEF MappedIsOwned, Publishers, Staged, Callable, TypeOK
<1>5. Borrowed'
  BY DEF MappedIsOwned, Publishers, Staged, Callable, Borrowed, TypeOK
<1> QED
  BY <1>1, <1>2, <1>3, <1>4, <1>5

LEMMA PublishInv ==
  ASSUME Inv, NEW t \in Threads, Publish(t)
  PROVE  Inv'
<1> USE PublicationAssumption DEF Inv, Publish, Stage, slots, publication, kernels, calls
<1>1. TypeOK'
  BY DEF TypeOK, Contents, Stages
<1>2. MappedIsOwned'
  <2>0. PICK o \in Slots : o = slot[t]
    BY DEF Staged, TypeOK
  <2>1. Publishers(o)' = {} /\ holders'[o] = {t}
    <3>1. Publishers(o) = {t}
      BY <2>0 DEF MappedIsOwned, Publishers
    <3> QED
      BY <3>1, <2>0 DEF Publishers, TypeOK
  <2>2. ASSUME NEW s \in Slots, s # o
        PROVE  Publishers(s)' = Publishers(s) /\ holders'[s] = holders[s]
    BY <2>0, <2>2 DEF Publishers, TypeOK
  <2>3. o \notin leaked /\ protection[o] # "unmapped"
    BY <2>0 DEF MappedIsOwned, Publishers
  <2> QED
    BY <2>1, <2>2, <2>3 DEF MappedIsOwned
<1>3. Staged'
  BY DEF MappedIsOwned, Publishers, Staged, TypeOK, Stages
<1>4. Callable'
  BY DEF MappedIsOwned, Publishers, Staged, Callable, TypeOK
<1>5. Borrowed'
  BY DEF MappedIsOwned, Publishers, Staged, Callable, Borrowed, TypeOK
<1> QED
  BY <1>1, <1>2, <1>3, <1>4, <1>5

LEMMA AbandonInv ==
  ASSUME Inv, NEW t \in Threads, Abandon(t)
  PROVE  Inv'
<1> USE PublicationAssumption DEF Inv, Abandon, Unmap, Verifies, Stage, slots, publication, kernels, calls
<1>1. TypeOK'
  BY DEF TypeOK, Contents, Stages, Staged
<1>2. MappedIsOwned'
  BY DEF MappedIsOwned, Publishers, Staged, TypeOK, Stages
<1>3. Staged'
  BY DEF MappedIsOwned, Publishers, Staged, TypeOK, Stages
<1>4. Callable'
  BY DEF MappedIsOwned, Publishers, Staged, Callable, TypeOK
<1>5. Borrowed'
  BY DEF MappedIsOwned, Publishers, Staged, Callable, Borrowed, TypeOK
<1> QED
  BY <1>1, <1>2, <1>3, <1>4, <1>5

LEMMA ShareInv ==
  ASSUME Inv, NEW t \in Threads, NEW u \in Threads, NEW s \in Slots, Share(t, u, s)
  PROVE  Inv'
<1> USE PublicationAssumption DEF Inv, Share, Idle, slots, publication, kernels, calls
<1>1. TypeOK'
  BY DEF TypeOK, Contents, Stages
<1>2. MappedIsOwned'
  BY DEF MappedIsOwned, Publishers, Staged, TypeOK, Stages
<1>3. Staged'
  BY DEF MappedIsOwned, Publishers, Staged, TypeOK, Stages
<1>4. Callable'
  BY DEF MappedIsOwned, Publishers, Staged, Callable, TypeOK
<1>5. Borrowed'
  BY DEF MappedIsOwned, Publishers, Staged, Callable, Borrowed, TypeOK
<1> QED
  BY <1>1, <1>2, <1>3, <1>4, <1>5

LEMMA DropInv ==
  ASSUME Inv, NEW t \in Threads, NEW s \in Slots, Drop(t, s)
  PROVE  Inv'
<1> USE PublicationAssumption DEF Inv, Drop, Unmap, Idle, slots, publication, kernels, calls
<1>1. TypeOK'
  BY DEF TypeOK, Contents, Stages
<1>2. MappedIsOwned'
  BY DEF MappedIsOwned, Publishers, Staged, TypeOK, Stages
<1>3. Staged'
  BY DEF MappedIsOwned, Publishers, Staged, TypeOK, Stages
<1>4. Callable'
  BY DEF MappedIsOwned, Publishers, Staged, Callable, TypeOK
<1>5. Borrowed'
  BY DEF MappedIsOwned, Publishers, Staged, Callable, Borrowed, TypeOK
<1> QED
  BY <1>1, <1>2, <1>3, <1>4, <1>5

LEMMA BeginSessionInv ==
  ASSUME Inv, NEW t \in Threads, NEW s \in Slots, BeginSession(t, s)
  PROVE  Inv'
<1> USE PublicationAssumption DEF Inv, BeginSession, Idle, slots, publication, kernels, calls
<1>1. TypeOK'
  BY DEF TypeOK, Contents, Stages
<1>2. MappedIsOwned'
  BY DEF MappedIsOwned, Publishers, Staged, TypeOK, Stages
<1>3. Staged'
  BY DEF MappedIsOwned, Publishers, Staged, TypeOK, Stages
<1>4. Callable'
  BY DEF MappedIsOwned, Publishers, Staged, Callable, TypeOK
<1>5. Borrowed'
  BY DEF MappedIsOwned, Publishers, Staged, Callable, Borrowed, TypeOK
<1> QED
  BY <1>1, <1>2, <1>3, <1>4, <1>5

LEMMA EndSessionInv ==
  ASSUME Inv, NEW t \in Threads, EndSession(t)
  PROVE  Inv'
<1> USE PublicationAssumption DEF Inv, EndSession, Idle, slots, publication, kernels, calls
<1>1. TypeOK'
  BY DEF TypeOK, Contents, Stages
<1>2. MappedIsOwned'
  BY DEF MappedIsOwned, Publishers, Staged, TypeOK, Stages
<1>3. Staged'
  BY DEF MappedIsOwned, Publishers, Staged, TypeOK, Stages
<1>4. Callable'
  BY DEF MappedIsOwned, Publishers, Staged, Callable, TypeOK
<1>5. Borrowed'
  BY DEF MappedIsOwned, Publishers, Staged, Callable, Borrowed, TypeOK
<1> QED
  BY <1>1, <1>2, <1>3, <1>4, <1>5

LEMMA CallInv ==
  ASSUME Inv, NEW t \in Threads, NEW s \in Slots, Call(t, s)
  PROVE  Inv'
<1> USE PublicationAssumption DEF Inv, Call, Idle, slots, publication, kernels, calls
<1>1. TypeOK'
  BY DEF TypeOK, Contents, Stages
<1>2. MappedIsOwned'
  BY DEF MappedIsOwned, Publishers, Staged, TypeOK, Stages
<1>3. Staged'
  BY DEF MappedIsOwned, Publishers, Staged, TypeOK, Stages
<1>4. Callable'
  BY DEF MappedIsOwned, Publishers, Staged, Callable, TypeOK
<1>5. Borrowed'
  BY DEF MappedIsOwned, Publishers, Staged, Callable, Borrowed, TypeOK
<1> QED
  BY <1>1, <1>2, <1>3, <1>4, <1>5

LEMMA ReturnInv ==
  ASSUME Inv, NEW t \in Threads, Return(t)
  PROVE  Inv'
<1> USE PublicationAssumption DEF Inv, Return, slots, publication, kernels, calls
<1>1. TypeOK'
  BY DEF TypeOK, Contents, Stages
<1>2. MappedIsOwned'
  BY DEF MappedIsOwned, Publishers, Staged, TypeOK, Stages
<1>3. Staged'
  BY DEF MappedIsOwned, Publishers, Staged, TypeOK, Stages
<1>4. Callable'
  BY DEF MappedIsOwned, Publishers, Staged, Callable, TypeOK
<1>5. Borrowed'
  BY DEF MappedIsOwned, Publishers, Staged, Callable, Borrowed, TypeOK
<1> QED
  BY <1>1, <1>2, <1>3, <1>4, <1>5

LEMMA SetVectorLengthInv ==
  ASSUME Inv, NEW t \in Threads, NEW n \in VectorLengths, SetVectorLength(t, n)
  PROVE  Inv'
<1> USE PublicationAssumption DEF Inv, SetVectorLength, Idle, slots, publication, kernels, calls
<1>1. TypeOK'
  BY DEF TypeOK, Contents, Stages
<1>2. MappedIsOwned'
  BY DEF MappedIsOwned, Publishers, Staged, TypeOK, Stages
<1>3. Staged'
  BY DEF MappedIsOwned, Publishers, Staged, TypeOK, Stages
<1>4. Callable'
  BY DEF MappedIsOwned, Publishers, Staged, Callable, TypeOK
<1>5. Borrowed'
  BY DEF MappedIsOwned, Publishers, Staged, Callable, Borrowed, TypeOK
<1> QED
  BY <1>1, <1>2, <1>3, <1>4, <1>5

-----------------------------------------------------------------------------

LEMMA StutterInv == Inv /\ UNCHANGED vars => Inv'
<1> SUFFICES ASSUME Inv, UNCHANGED vars PROVE Inv'
  OBVIOUS
<1> USE DEF vars, slots, publication, kernels, calls, Inv
<1>1. TypeOK'
  BY DEF TypeOK
<1>2. MappedIsOwned'
  BY DEF MappedIsOwned, Publishers
<1>3. Staged' /\ Callable' /\ Borrowed'
  BY DEF Staged, Callable, Borrowed
<1> QED
  BY <1>1, <1>2, <1>3

\* The inductive invariant: a publication owns its address range alone and
\* has established at each stage what the next relies on; a kernel that is
\* held is executable, holds its image and can only be fetched as it.
THEOREM PublicationInvariance == Spec => []Inv
<1>1. Inv /\ [Next]_vars => Inv'
  <2> SUFFICES ASSUME Inv, [Next]_vars PROVE Inv'
    OBVIOUS
  <2>1. ASSUME NEW t \in Threads, Publishing(t) PROVE Inv'
    BY <2>1, PreflightInv, ReserveInv, ReserveFailsInv, MakeWritableInv, CopyInv, VerifyInv,
       MakeExecutableInv, SynchronizeInv, PublishInv, AbandonInv DEF Publishing
  <2>2. ASSUME NEW t \in Threads, Using(t) PROVE Inv'
    BY <2>2, ShareInv, DropInv, BeginSessionInv, EndSessionInv, CallInv, ReturnInv,
       SetVectorLengthInv DEF Using
  <2> QED
    BY <2>1, <2>2, StutterInv DEF Next
<1> QED
  BY InitInv, <1>1, PTL DEF Spec

\* Whatever was mapped at an address before, a call executes the image that
\* its kernel was published for.
THEOREM PublicationRunsItsImage == Spec => []RunsItsImage
<1>1. Inv => RunsItsImage
  BY DEF Inv, TypeOK, Callable, Borrowed, RunsItsImage
<1> QED
  BY PublicationInvariance, <1>1, PTL

\* No failure of a publication and no order of dropping clones leaves a
\* mapping without an owner, short of a failed munmap.
THEOREM PublicationMappedIsOwned == Spec => []MappedIsOwned
<1>1. Inv => MappedIsOwned
  BY DEF Inv
<1> QED
  BY PublicationInvariance, <1>1, PTL

\* A session keeps code for one vector length from running with another.
THEOREM PublicationSessionFits == Spec => []SessionFits
<1>1. Inv => SessionFits
  BY DEF Inv, TypeOK, Borrowed, SessionFits
<1> QED
  BY PublicationInvariance, <1>1, PTL
==============================================================================
