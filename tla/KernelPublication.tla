-------------------------- MODULE KernelPublication --------------------------
(***************************************************************************)
(* fre-jit-runtime: how an emitted image becomes callable memory and stops *)
(* being it.  publish_source reserves an address range, copies the image   *)
(* into it, verifies the copy, turns it from writable to executable,       *)
(* synchronizes the instruction cache and hands out a kernel; the kernel's *)
(* clones share one mapping, which the last of them unmaps.                *)
(*                                                                         *)
(* Threads share the address space: a range that was unmapped is reserved  *)
(* again for another image, and instructions of the earlier one may still  *)
(* be in the instruction cache.  An image is a model value: what tells two *)
(* apart is that their code differs.                                       *)
(***************************************************************************)
EXTENDS Integers

CONSTANTS
    Threads,
    Slots,      \* address ranges of the size of a reservation
    Images,
    abi,        \* of an image: "search", "register" or "aggregate"
    sound,      \* the images that pass the audit
    fixed,      \* the images whose code assumes one vector length
    NoSlot, NoImage,
    Zero,       \* the content of fresh pages
    Corrupt     \* any content that differs from the image meant

ASSUME PublicationAssumption ==
    /\ abi \in [Images -> {"search", "register", "aggregate"}]
    /\ sound \subseteq Images /\ fixed \subseteq Images
    /\ NoSlot \notin Slots /\ NoImage \notin Images
    /\ Zero \notin Images /\ Corrupt \notin Images

Contents == Images \cup {Zero, Corrupt}

\* SEARCH_FIXED16_VECTOR_BYTES, and another length a thread may run with.
FixedVL == 16
VectorLengths == {FixedVL, 32}

VARIABLES
    protection,   \* of a slot: "unmapped", "none", "rw" or "rx"
    memory,       \* what a slot's pages hold
    fetchable,    \* what an instruction fetch from the slot may yield
    leaked,       \* slots whose munmap failed
    pc, image, slot,   \* the publication a thread is in
    kernel,       \* the image a slot's published kernel was made of
    holders,      \* the threads with a clone of the slot's kernel
    session,      \* the slot a thread has a current-thread session for
    calling, ran, \* the slot a thread executes, and what it fetched
    vl            \* a thread's vector length

slots == <<protection, memory, fetchable, leaked>>
publication == <<pc, image, slot>>
kernels == <<kernel, holders>>
calls == <<session, calling, ran>>
vars == <<slots, publication, kernels, calls, vl>>

Init ==
    /\ protection = [s \in Slots |-> "unmapped"]
    /\ memory = [s \in Slots |-> Zero]
    /\ fetchable = [s \in Slots |-> {Zero}]
    /\ leaked = {}
    /\ pc = [t \in Threads |-> "idle"]
    /\ image = [t \in Threads |-> NoImage]
    /\ slot = [t \in Threads |-> NoSlot]
    /\ kernel = [s \in Slots |-> NoImage]
    /\ holders = [s \in Slots |-> {}]
    /\ session = [t \in Threads |-> NoSlot]
    /\ calling = [t \in Threads |-> NoSlot]
    /\ ran = [t \in Threads |-> NoImage]
    /\ vl \in [Threads -> VectorLengths]

Idle(t) == pc[t] = "idle" /\ calling[t] = NoSlot

-----------------------------------------------------------------------------
(* Publication.                                                            *)

\* Drop of the Reservation: munmap, whose failure only leaves pages mapped
\* that nobody can reach.
Unmap(s) ==
    /\ UNCHANGED <<memory, fetchable>>
    /\ \/ /\ protection' = [protection EXCEPT ![s] = "unmapped"]
          /\ UNCHANGED leaked
       \/ /\ leaked' = leaked \cup {s}
          /\ UNCHANGED protection

Stage(t, from, to) == pc[t] = from /\ pc' = [pc EXCEPT ![t] = to]

\* The admission checks: host and tuning, audit, target and output contract,
\* layout and limits.  A refusal leaves no trace.
Preflight(t, i) ==
    /\ Idle(t)
    /\ i \in sound
    /\ i \in fixed /\ abi[i] = "search" => vl[t] = FixedVL
    /\ pc' = [pc EXCEPT ![t] = "reserve"]
    /\ image' = [image EXCEPT ![t] = i]
    /\ UNCHANGED <<slots, slot, kernels, calls, vl>>

Reserve(t, s) ==
    /\ Stage(t, "reserve", "reserved")
    /\ protection[s] = "unmapped"
    /\ protection' = [protection EXCEPT ![s] = "none"]
    /\ memory' = [memory EXCEPT ![s] = Zero]
    /\ fetchable' = [fetchable EXCEPT ![s] = @ \cup {Zero}]
    /\ slot' = [slot EXCEPT ![t] = s]
    /\ UNCHANGED <<leaked, image, kernels, calls, vl>>

\* mmap fails, or yields a null address and is undone.
ReserveFails(t) ==
    /\ Stage(t, "reserve", "idle")
    /\ image' = [image EXCEPT ![t] = NoImage]
    /\ UNCHANGED <<slots, slot, kernels, calls, vl>>

MakeWritable(t) ==
    /\ Stage(t, "reserved", "writable")
    /\ protection' = [protection EXCEPT ![slot[t]] = "rw"]
    /\ UNCHANGED <<memory, fetchable, leaked, image, slot, kernels, calls, vl>>

\* Zeroes, code and constants; the copy may go wrong.
Copy(t) ==
    /\ Stage(t, "writable", "copied")
    /\ \E c \in {image[t], Corrupt} :
        /\ memory' = [memory EXCEPT ![slot[t]] = c]
        /\ fetchable' = [fetchable EXCEPT ![slot[t]] = @ \cup {c}]
    /\ UNCHANGED <<protection, leaked, image, slot, kernels, calls, vl>>

\* verify_copy, then the audit once more.
Verifies(t) == memory[slot[t]] = image[t] /\ image[t] \in sound

Verify(t) ==
    /\ Stage(t, "copied", "verified")
    /\ Verifies(t)
    /\ UNCHANGED <<slots, image, slot, kernels, calls, vl>>

MakeExecutable(t) ==
    /\ Stage(t, "verified", "executable")
    /\ protection' = [protection EXCEPT ![slot[t]] = "rx"]
    /\ UNCHANGED <<memory, fetchable, leaked, image, slot, kernels, calls, vl>>

\* Bug: the cache is taken to be coherent.
SynchronizeNothing(t) ==
    /\ Stage(t, "executable", "synchronized")
    /\ UNCHANGED <<slots, image, slot, kernels, calls, vl>>

\* synchronize_instruction_cache: from here on a fetch sees the memory.
Synchronize(t) ==
    /\ Stage(t, "executable", "synchronized")
    /\ fetchable' = [fetchable EXCEPT ![slot[t]] = {memory[slot[t]]}]
    /\ UNCHANGED <<protection, memory, leaked, image, slot, kernels, calls, vl>>

\* The mapping passes the check of its contract and the kernel is handed to
\* the caller.
Publish(t) ==
    /\ Stage(t, "synchronized", "idle")
    /\ protection[slot[t]] = "rx"
    /\ kernel' = [kernel EXCEPT ![slot[t]] = image[t]]
    /\ holders' = [holders EXCEPT ![slot[t]] = {t}]
    /\ image' = [image EXCEPT ![t] = NoImage]
    /\ slot' = [slot EXCEPT ![t] = NoSlot]
    /\ UNCHANGED <<slots, calls, vl>>

\* Bug: the reservation is forgotten on an error.
AbandonMapped(t) ==
    /\ \/ Stage(t, "reserved", "idle")
       \/ Stage(t, "copied", "idle") /\ ~Verifies(t)
       \/ Stage(t, "verified", "idle")
       \/ Stage(t, "synchronized", "idle")
    /\ image' = [image EXCEPT ![t] = NoImage]
    /\ slot' = [slot EXCEPT ![t] = NoSlot]
    /\ UNCHANGED <<slots, kernels, calls, vl>>

\* An mprotect, the verification, or the check of the finished mapping's
\* entry, identity and call contract fails: the reservation is dropped.
Abandon(t) ==
    /\ \/ Stage(t, "reserved", "idle")
       \/ Stage(t, "copied", "idle") /\ ~Verifies(t)
       \/ Stage(t, "verified", "idle")
       \/ Stage(t, "synchronized", "idle")
    /\ Unmap(slot[t])
    /\ image' = [image EXCEPT ![t] = NoImage]
    /\ slot' = [slot EXCEPT ![t] = NoSlot]
    /\ UNCHANGED <<kernels, calls, vl>>

-----------------------------------------------------------------------------
(* The kernel's clones and their calls.                                    *)

\* A clone, or an Arc of the linear register kernel, goes to another thread.
Share(t, u, s) ==
    /\ Idle(t) /\ t \in holders[s]
    /\ u \notin holders[s]
    /\ holders' = [holders EXCEPT ![s] = @ \cup {u}]
    /\ UNCHANGED <<slots, publication, kernel, calls, vl>>

\* A thread drops its clone; sessions and calls borrow it.  The last clone
\* takes the mapping with it.
Drop(t, s) ==
    /\ Idle(t) /\ t \in holders[s]
    /\ session[t] # s
    /\ holders' = [holders EXCEPT ![s] = @ \ {t}]
    /\ IF holders[s] = {t}
       THEN Unmap(s) /\ kernel' = [kernel EXCEPT ![s] = NoImage]
       ELSE UNCHANGED <<slots, kernel>>
    /\ UNCHANGED <<publication, calls, vl>>

\* Bug: the length is taken to be the one the kernel was published with.
BeginSessionUnchecked(t, s) ==
    /\ Idle(t) /\ t \in holders[s]
    /\ session[t] = NoSlot
    /\ abi[kernel[s]] # "aggregate"
    /\ session' = [session EXCEPT ![t] = s]
    /\ UNCHANGED <<slots, publication, kernels, calling, ran, vl>>

\* begin_current_thread_session, of a search or of a register kernel
\* (selected_end_register_v2.rs): the thread's vector length is read once.
BeginSession(t, s) ==
    /\ Idle(t) /\ t \in holders[s]
    /\ session[t] = NoSlot
    /\ abi[kernel[s]] # "aggregate"
    /\ kernel[s] \in fixed => vl[t] = FixedVL
    /\ session' = [session EXCEPT ![t] = s]
    /\ UNCHANGED <<slots, publication, kernels, calling, ran, vl>>

EndSession(t) ==
    /\ Idle(t) /\ session[t] # NoSlot
    /\ session' = [session EXCEPT ![t] = NoSlot]
    /\ UNCHANGED <<slots, publication, kernels, calling, ran, vl>>

\* A register kernel is called through a session only.
Call(t, s) ==
    /\ Idle(t) /\ t \in holders[s]
    /\ abi[kernel[s]] = "register" => session[t] = s
    /\ calling' = [calling EXCEPT ![t] = s]
    /\ \E c \in fetchable[s] : ran' = [ran EXCEPT ![t] = c]
    /\ UNCHANGED <<slots, publication, kernels, session, vl>>

Return(t) ==
    /\ calling[t] # NoSlot
    /\ calling' = [calling EXCEPT ![t] = NoSlot]
    /\ ran' = [ran EXCEPT ![t] = NoImage]
    /\ UNCHANGED <<slots, publication, kernels, session, vl>>

\* "Changing the calling thread's SVE vector length invalidates [a session]
\* and requires a new token": the host program does so without one.
SetVectorLength(t, n) ==
    /\ Idle(t) /\ session[t] = NoSlot
    /\ vl' = [vl EXCEPT ![t] = n]
    /\ UNCHANGED <<slots, publication, kernels, calls>>

-----------------------------------------------------------------------------

Publishing(t) ==
    \/ \E i \in Images : Preflight(t, i)
    \/ \E s \in Slots : Reserve(t, s)
    \/ ReserveFails(t) \/ MakeWritable(t) \/ Copy(t) \/ Verify(t)
    \/ MakeExecutable(t) \/ Synchronize(t) \/ Publish(t) \/ Abandon(t)

Using(t) ==
    \/ \E s \in Slots, u \in Threads : Share(t, u, s)
    \/ \E s \in Slots : Drop(t, s) \/ BeginSession(t, s) \/ Call(t, s)
    \/ EndSession(t) \/ Return(t)
    \/ \E n \in VectorLengths : SetVectorLength(t, n)

Next == \E t \in Threads : Publishing(t) \/ Using(t)

Spec == Init /\ [][Next]_vars

-----------------------------------------------------------------------------

Stages == {"reserve", "reserved", "writable", "copied", "verified", "executable", "synchronized"}

TypeOK ==
    /\ protection \in [Slots -> {"unmapped", "none", "rw", "rx"}]
    /\ memory \in [Slots -> Contents]
    /\ fetchable \in [Slots -> SUBSET Contents]
    /\ leaked \subseteq Slots
    /\ pc \in [Threads -> Stages \cup {"idle"}]
    /\ image \in [Threads -> Images \cup {NoImage}]
    /\ slot \in [Threads -> Slots \cup {NoSlot}]
    /\ kernel \in [Slots -> Images \cup {NoImage}]
    /\ holders \in [Slots -> SUBSET Threads]
    /\ session \in [Threads -> Slots \cup {NoSlot}]
    /\ calling \in [Threads -> Slots \cup {NoSlot}]
    /\ ran \in [Threads -> Contents \cup {NoImage}]
    /\ vl \in [Threads -> VectorLengths]

\* A thread in a call executes the audited image its kernel was published
\* for, from memory that is executable, holds that image and is not
\* unmapped under it: not what an earlier kernel at the same address left
\* in the instruction cache, not a copy gone wrong, and not memory of a
\* kernel that another thread has dropped.
RunsItsImage ==
    \A t \in Threads : calling[t] # NoSlot =>
        LET s == calling[t] IN
        /\ protection[s] = "rx"
        /\ kernel[s] \in sound
        /\ memory[s] = kernel[s]
        /\ ran[t] = kernel[s]

\* The publications under way that own a slot.
Publishers(s) == {t \in Threads : slot[t] = s}

\* Every mapping has one owner, a publication under way or the clones of a
\* published kernel, and is unmapped when it loses it, whichever stage
\* failed; only a failed munmap leaves pages behind, and those have no
\* owner, so that nobody can call them.
MappedIsOwned ==
    \A s \in Slots :
        /\ protection[s] # "unmapped" <=>
              s \in leaked \/ Publishers(s) # {} \/ holders[s] # {}
        /\ s \in leaked => Publishers(s) = {} /\ holders[s] = {}
        /\ Publishers(s) # {} => holders[s] = {}
        /\ \A t, u \in Publishers(s) : t = u

\* A call under a session, and every call of a register kernel, runs with
\* the vector length that its code assumes, wherever the kernel was
\* published and whatever length the publishing thread had.
SessionFits ==
    \A t \in Threads : calling[t] # NoSlot =>
        LET i == kernel[calling[t]] IN
        (session[t] = calling[t] \/ abi[i] = "register") /\ i \in fixed => vl[t] = FixedVL
==============================================================================
