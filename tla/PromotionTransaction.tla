------------------------- MODULE PromotionTransaction -------------------------
(***************************************************************************)
(* write_transaction: the promotion tool writes a generated source, its    *)
(* receipt and their digests into a fresh directory, and a commit marker   *)
(* last.  Invocations compete for one output path, any of their steps may  *)
(* fail, and a process or the machine may stop between two of them.        *)
(*                                                                         *)
(* The file system is modelled from the guarantees this code asks of it:   *)
(* syncing a file makes its data durable, syncing a directory makes its    *)
(* entries durable, and a power loss may undo anything that is neither.    *)
(***************************************************************************)
EXTENDS Naturals, Sequences

CONSTANTS
    Writers,      \* invocations of the tool for one output path
    NoWriter

ASSUME PromotionAssumption == NoWriter \notin Writers

Marker == "COMMITTED"
Files == {"source", "receipt", "sums", Marker}

\* Bug: the marker is written with the files it vouches for still to come.
OrderMarkerFirst == <<Marker, "source", "receipt", "sums">>

Order == <<"source", "receipt", "sums", Marker>>

VARIABLES
    directory,     \* the output directory exists
    author,        \* who created a file, NoWriter when it is absent
    whole,         \* the files whose content is complete
    synced,        \* the files whose content is durable
    listed,        \* the files whose directory entry is durable
    stage,         \* a writer's place
    position,      \* the file it is at
    lost           \* the power was lost since the directory was created

promotion_vars == <<directory, author, whole, synced, listed, stage, position, lost>>

PromotionInit ==
    /\ directory = FALSE
    /\ author = [f \in Files |-> NoWriter]
    /\ whole = {} /\ synced = {} /\ listed = {}
    /\ stage = [w \in Writers |-> "start"]
    /\ position = [w \in Writers |-> 1]
    /\ lost = FALSE

Current(w) == Order[position[w]]
Goto(w, place) == stage' = [stage EXCEPT ![w] = place]
disk == <<directory, author, whole, synced, listed, lost>>

-----------------------------------------------------------------------------

\* create_dir fails when the path exists, also as the remains of a run.
CreateDirectory(w) ==
    /\ stage[w] = "start"
    /\ ~directory
    /\ directory' = TRUE
    /\ lost' = FALSE
    /\ Goto(w, "create")
    /\ UNCHANGED <<author, whole, synced, listed, position>>

\* create_new: the file must not exist.
CreateFile(w) ==
    /\ stage[w] = "create"
    /\ directory
    /\ author[Current(w)] = NoWriter
    /\ author' = [author EXCEPT ![Current(w)] = w]
    /\ Goto(w, "write")
    /\ UNCHANGED <<directory, whole, synced, listed, position, lost>>

\* write_all
WriteFile(w) ==
    /\ stage[w] = "write"
    /\ whole' = whole \cup {Current(w)}
    /\ Goto(w, "seal")
    /\ UNCHANGED <<directory, author, synced, listed, position, lost>>

\* sync_all of the file, its permissions, and on to the next.
SealFile(w) ==
    /\ stage[w] = "seal"
    /\ synced' = synced \cup {Current(w)}
    /\ IF position[w] = Len(Order)
       THEN Goto(w, "sync") /\ UNCHANGED position
       ELSE Goto(w, "create") /\ position' = [position EXCEPT ![w] = @ + 1]
    /\ UNCHANGED <<directory, author, whole, listed, lost>>

\* sync_all of the directory, and the return.
SyncDirectory(w) ==
    /\ stage[w] = "sync"
    /\ listed' = {f \in Files : author[f] # NoWriter}
    /\ Goto(w, "returned")
    /\ UNCHANGED <<directory, author, whole, synced, position, lost>>

\* A step reports an error, or the process dies before it: nothing is undone.
Stop(w) ==
    /\ stage[w] \notin {"returned", "stopped"}
    /\ Goto(w, "stopped")
    /\ UNCHANGED <<disk, position>>

\* The file system writes back on its own.
WriteBack(f) ==
    /\ author[f] # NoWriter
    /\ \/ listed' = listed \cup {f} /\ UNCHANGED synced
       \/ f \in whole /\ synced' = synced \cup {f} /\ UNCHANGED listed
    /\ UNCHANGED <<directory, author, whole, stage, position, lost>>

\* Only what is durable survives; the directory itself may not, since its
\* parent is not synced.
PowerLoss ==
    /\ directory
    /\ directory' \in BOOLEAN
    /\ author' = [f \in Files |-> IF directory' /\ f \in listed THEN author[f] ELSE NoWriter]
    /\ whole' = {f \in whole : directory' /\ f \in listed \cap synced}
    /\ synced' = whole'
    /\ listed' = {f \in listed : directory'}
    /\ stage' = [w \in Writers |-> IF stage[w] \in {"start", "returned"} THEN stage[w] ELSE "stopped"]
    /\ lost' = TRUE
    /\ UNCHANGED position

PromotionNext ==
    \/ \E w \in Writers : CreateDirectory(w) \/ CreateFile(w) \/ WriteFile(w) \/ SealFile(w)
                             \/ SyncDirectory(w) \/ Stop(w)
    \/ \E f \in Files : WriteBack(f)
    \/ PowerLoss

PromotionSpec == PromotionInit /\ [][PromotionNext]_promotion_vars

-----------------------------------------------------------------------------

\* The directory holds everything a marker vouches for, from one invocation.
Complete == \E w \in Writers : \A f \in Files : author[f] = w /\ f \in whole

\* A directory with a marker is complete and of one invocation, whichever
\* steps failed, whoever else tried, and whenever a process died; after a
\* power loss too, once the invocation that wrote it has returned.  Until then
\* nothing orders the entries of the directory, which is synced only once.
CommitIsWhole ==
    Marker \in whole /\ (lost => \E w \in Writers : author[Marker] = w /\ stage[w] = "returned")
        => Complete
===============================================================================
