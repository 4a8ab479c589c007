------------------------------ MODULE Uploads -------------------------------
(***************************************************************************)
(* User lists that arrive in numbered chunks (SyncUsersChunked in          *)
(* src/controller/rest/user.go and src/controller/rpc/user.go, and         *)
(* src/controller/users_chunk.go).  Chunks come in any order, some twice   *)
(* or not at all; the first one marked last ends the upload.               *)
(***************************************************************************)
EXTENDS Integers, Maps, SequencesExt

CONSTANTS
    ChunkUsers,     \* lists of users in a chunk
    MaxIndex,       \* the highest chunk number
    MaxChunks,      \* bound: chunks of one upload
    LargeUpload     \* users above which the backend is restarted (100)

VARIABLES
    chunks,     \* index -> users received with it
    arrived,    \* history: the chunks in the order they came
    upload      \* Open, or the users the backend is given and through what

uploadVars == <<chunks, arrived, upload>>

Chunk == [index : 0..MaxIndex, users : ChunkUsers, last : BOOLEAN]

At(i) == IF i \in DOMAIN chunks THEN chunks[i] ELSE <<>>

Open == [users |-> <<>>, via |-> "open"]
Refused == [users |-> <<>>, via |-> "error"]

(* Faulty variant: the chunk marked last is left out.                      *)
BuildWithoutLast(all, last) ==
    FoldLeft(\o, <<>>, [i \in 1..last |-> all[i - 1]])

(* The loop of BuildUsersFromChunks over 0..lastIndex                      *)
BuildUsers(all, last) ==
    FoldLeft(\o, <<>>, [i \in 1..(last + 1) |-> all[i - 1]])

(* BuildUsersFromChunks, and the call on the backend that follows          *)
BuildUsersFromChunks(all, last) ==
    IF ~(0..last \subseteq DOMAIN all) THEN Refused
    ELSE LET us == BuildUsers(all, last)
         IN  IF us = <<>> THEN Refused
             ELSE [users |-> us, via |-> IF Len(us) > LargeUpload
                                         THEN "UpdateUsersAndRestart" ELSE "UpdateUsers"]

Receive(c) ==
    /\ upload = Open /\ Len(arrived) < MaxChunks
    /\ chunks' = Put(chunks, c.index, At(c.index) \o c.users)
    /\ arrived' = Append(arrived, c)
    /\ upload' = IF c.last THEN BuildUsersFromChunks(chunks', c.index) ELSE Open

(* The stream ends, or fails, before a chunk is marked last.               *)
EndOfStream == upload = Open /\ upload' = Refused /\ UNCHANGED <<chunks, arrived>>
-----------------------------------------------------------------------------
UploadInit == chunks = EmptyMap /\ arrived = <<>> /\ upload = Open

UploadNext == EndOfStream \/ \E c \in Chunk : Receive(c)

(* The users of the chunks with a number, as the panel cut them.           *)
Sent(i) == FlattenSeq([j \in DOMAIN arrived |->
                          IF arrived[j].index = i THEN arrived[j].users ELSE <<>>])

(* A list reaches the backend only when every chunk up to the one marked   *)
(* last has come, and then it is the list the panel cut, in its order,     *)
(* whatever the order of arrival.                                          *)
UploadWhole ==
    upload \notin {Open, Refused} =>
        LET last == Last(arrived).index
        IN  /\ \A i \in 0..last : \E j \in DOMAIN arrived : arrived[j].index = i
            /\ upload.users = FlattenSeq([i \in 1..(last + 1) |-> Sent(i - 1)])
=============================================================================
