--------------------------- MODULE ResponseStore ---------------------------
(***************************************************************************)
(* Stored responses of the Responses API (class ResponseStore in           *)
(* src/omlx/api/responses_utils.py, its use in src/omlx/server.py).        *)
(*                                                                         *)
(* A response is kept in memory, least recently used first, and in a file  *)
(* of its own.  A follow-up names an earlier response; the chain of those  *)
(* before it becomes the history the model is given.  Calls of the store   *)
(* do not await; what interleaves are requests under way, crashes, and     *)
(* files that cannot be written or removed.                                *)
(***************************************************************************)
EXTENDS Integers, SequencesExt, FiniteSets

CONSTANTS
    MaxResponses,   \* bound: responses begun
    StoreSize,      \* _max_size
    MaxFaults,      \* bound: file operations that fail
    MaxRestarts,    \* bound: times the server comes back
    MaxSeconds      \* bound: of the clock that created_at is read from

ASSUME StoreAssumption ==
    /\ MaxResponses \in Nat /\ StoreSize \in Nat \ {0}
    /\ MaxFaults \in Nat /\ MaxRestarts \in Nat /\ MaxSeconds \in Nat

Responses == 1 .. MaxResponses

VARIABLES
    kept,       \* _store: response ids, least recently used first
    disk,       \* ids with a file in the state directory
    previous,   \* previous[r]: the response r follows, 0 if none
    born,       \* born[r]: created_at, in whole seconds
    seconds,    \* the clock
    turn,       \* turn[r]: unused, generating, told (completed sent), over or refused
    history,    \* history[r]: responses whose messages the model was given
    deleted,    \* responses whose deletion was confirmed
    faults,     \* file operations that failed
    restarts,
    serving     \* the server is up

storeVars == <<kept, disk, previous, born, seconds, turn, history, deleted, faults, restarts,
               serving>>

StoreInit ==
    /\ kept = << >>
    /\ disk = {}
    /\ previous = [r \in Responses |-> 0]
    /\ born = [r \in Responses |-> 0]
    /\ seconds = 0
    /\ turn = [r \in Responses |-> "unused"]
    /\ history = [r \in Responses |-> << >>]
    /\ deleted = {}
    /\ faults = 0
    /\ restarts = 0
    /\ serving = TRUE

-----------------------------------------------------------------------------
(* ResponseStore                                                           *)

Touch(seq, r) == Append(RemoveFirst(seq, r), r)

\* resolve_chain_messages: from the response back to the first, each touched;
\* up to an ancestor that is gone.
Chain(r) ==
    LET chain[q \in 0 .. MaxResponses] ==
            IF q = 0 \/ q \notin ToSet(kept) THEN << >> ELSE Append(chain[previous[q]], q)
    IN  chain[r]
\* Mutant: an ancestor that is missing ends the chain.
ChainWhole_Any(r) == Chain(r) # << >>
ChainWhole(r) == Chain(r) # << >> /\ previous[Head(Chain(r))] = 0
TouchChain(r) ==
    LET order == Reverse(Chain(r))
        touched[n \in 0 .. Len(order)] ==
            IF n = 0 THEN kept ELSE Touch(touched[n - 1], order[n])
    IN  touched[Len(order)]

\* _evict_oldest: what is left, and what went.
Excess(seq) == IF Len(seq) > StoreSize THEN Len(seq) - StoreSize ELSE 0
Evicted(seq) == ToSet(SubSeq(seq, 1, Excess(seq)))
Remaining(seq) == SubSeq(seq, Excess(seq) + 1, Len(seq))

\* put(): memory, file, eviction; writing the file may fail, and the removal
\* of the first evicted file.
Put(r) ==
    LET seq == Touch(kept, r)
    IN \/ /\ kept' = Remaining(seq)
          /\ disk' = (disk \cup {r}) \ Evicted(seq)
          /\ UNCHANGED faults
       \/ /\ faults < MaxFaults
          /\ faults' = faults + 1
          /\ \/ kept' = seq /\ UNCHANGED disk
             \/ /\ Excess(seq) > 0
                /\ kept' = Tail(seq)
                /\ disk' = disk \cup {r}

-----------------------------------------------------------------------------
(* Requests                                                                *)

\* create_response: resolve the history, then generate; or 404, or 409.
CreateResponse(r, p) ==
    /\ serving
    /\ turn[r] = "unused"
    /\ \A q \in 1 .. r - 1 : turn[q] # "unused"
    /\ p # 0 => p < r /\ turn[p] \in {"told", "over"}
    /\ previous' = [previous EXCEPT ![r] = p]
    /\ born' = [born EXCEPT ![r] = seconds]
    /\ IF p = 0 \/ ChainWhole(p)
       THEN /\ turn' = [turn EXCEPT ![r] = "generating"]
            /\ history' = [history EXCEPT ![r] = Chain(p)]
       ELSE turn' = [turn EXCEPT ![r] = "refused"] /\ UNCHANGED history
    /\ kept' = IF p = 0 THEN kept ELSE TouchChain(p)
    /\ UNCHANGED <<disk, seconds, deleted, faults, restarts, serving>>

\* A streamed response is announced as completed, then stored when the
\* generator is resumed; unless the client has closed the connection.
AnnounceCompleted(r) ==
    /\ serving
    /\ turn[r] = "generating"
    /\ turn' = [turn EXCEPT ![r] = "told"]
    /\ UNCHANGED <<kept, disk, previous, born, seconds, history, deleted, faults, restarts, serving>>

StoreAnnounced(r) ==
    /\ serving
    /\ turn[r] = "told"
    /\ turn' = [turn EXCEPT ![r] = "over"]
    /\ Put(r)
    /\ UNCHANGED <<previous, born, seconds, history, deleted, restarts, serving>>

\* The client leaves before the end, or after it and before the store.
AbandonResponse(r) ==
    /\ serving
    /\ turn[r] \in {"generating", "told"}
    /\ turn' = [turn EXCEPT ![r] = IF @ = "told" THEN "over" ELSE "refused"]
    /\ UNCHANGED <<kept, disk, previous, born, seconds, history, deleted, faults, restarts, serving>>

\* Without streaming the response is made and stored after the generation; if
\* the store raises, so does the request.
AnswerStored(r) ==
    /\ serving
    /\ turn[r] = "generating"
    /\ Put(r)
    /\ born' = [born EXCEPT ![r] = seconds]
    /\ turn' = [turn EXCEPT ![r] = IF faults' = faults THEN "over" ELSE "refused"]
    /\ UNCHANGED <<previous, seconds, history, deleted, restarts, serving>>

GetResponse(r) ==
    /\ serving
    /\ r \in ToSet(kept)
    /\ kept' = Touch(kept, r)
    /\ UNCHANGED <<disk, previous, born, seconds, turn, history, deleted, faults, restarts, serving>>

\* delete(): memory first; if the file stays, the request fails.
DeleteResponse(r) ==
    /\ serving
    /\ r \in ToSet(kept)
    /\ kept' = RemoveFirst(kept, r)
    /\ \/ /\ disk' = disk \ {r}
          /\ deleted' = deleted \cup {r}
          /\ UNCHANGED faults
       \/ /\ faults < MaxFaults /\ r \in disk
          /\ faults' = faults + 1
          /\ UNCHANGED <<disk, deleted>>
    /\ UNCHANGED <<previous, born, seconds, turn, history, restarts, serving>>

SecondPasses ==
    /\ seconds < MaxSeconds
    /\ seconds' = seconds + 1
    /\ UNCHANGED <<kept, disk, previous, born, turn, history, deleted, faults, restarts, serving>>

-----------------------------------------------------------------------------
(* Crash and restart                                                       *)

\* The crash may come between the file of a put and its evictions.
CrashStore ==
    /\ serving
    /\ restarts < MaxRestarts
    /\ serving' = FALSE
    /\ kept' = << >>
    /\ \/ UNCHANGED disk
       \/ \E r \in Responses : turn[r] \in {"generating", "told"} /\ disk' = disk \cup {r}
    /\ turn' = [r \in Responses |-> CASE turn[r] = "generating" -> "refused"
                                      [] turn[r] = "told" -> "over" [] OTHER -> turn[r]]
    /\ UNCHANGED <<previous, born, seconds, history, deleted, faults, restarts>>

\* _load_persisted_records: ordered by creation (ids decide within a second),
\* and the oldest beyond the limit go.
RestartStore ==
    /\ ~serving
    /\ serving' = TRUE
    /\ restarts' = restarts + 1
    /\ \E seq \in {s \in [1 .. Cardinality(disk) -> disk] :
                     IsInjective(s) /\ \A i, j \in DOMAIN s : i < j => born[s[i]] <= born[s[j]]} :
          /\ kept' = Remaining(seq)
          /\ disk' = disk \ Evicted(seq)
    /\ UNCHANGED <<previous, born, seconds, turn, history, deleted, faults>>

StoreNext ==
    \/ \E r \in Responses :
         \/ \E p \in 0 .. MaxResponses : CreateResponse(r, p)
         \/ AnnounceCompleted(r) \/ StoreAnnounced(r) \/ AbandonResponse(r) \/ AnswerStored(r)
         \/ GetResponse(r) \/ DeleteResponse(r)
    \/ SecondPasses \/ CrashStore \/ RestartStore

StoreSpec == StoreInit /\ [][StoreNext]_storeVars

-----------------------------------------------------------------------------
(* Properties                                                              *)

\* A follow-up that is accepted gives the model the conversation it continues,
\* all of it and in order, whatever was evicted, deleted or lost in a crash
\* since; otherwise it is refused.
HistoryWhole ==
    \A r \in Responses :
        turn[r] \in {"generating", "told", "over"} =>
            history[r] = IF previous[r] = 0 THEN << >>
                         ELSE Append(history[previous[r]], previous[r])

\* Memory and files hold the same responses, through evictions, crashes and
\* restarts, and no more of them than the limit; up to file operations that
\* failed.
FilesFollowMemory ==
    serving =>
        /\ Cardinality(disk \ ToSet(kept)) + Cardinality(ToSet(kept) \ disk) <= faults
        /\ Len(kept) <= StoreSize + faults

\* A response whose deletion was confirmed does not come back.
DeletedStaysDeleted == deleted \cap (disk \cup ToSet(kept)) = {}

\* Follow-ups continue whole conversations; memory and directory agree.
StoreConsistent == HistoryWhole /\ FilesFollowMemory /\ DeletedStaysDeleted

\* The comment "Store for future previous_response_id usage": a response whose
\* completion the client has seen can be continued, unless it was deleted.
\* TLC refutes it: see "Other disagreements" in the README.
CompletedCanBeContinued ==
    \A r \in Responses :
        turn[r] = "told" => r \in ToSet(kept) \cup deleted
=============================================================================
