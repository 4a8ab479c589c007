------------------------------ MODULE Updates -------------------------------
(***************************************************************************)
(* Replacing a binary by a downloaded release                              *)
(* (src/controller/agent/lifecycle.go: setXrayVersion, selfUpdate and      *)
(* writeBinaryAtomic).  The release goes block by block into a file next   *)
(* to the binary, whose name is the same for every update, and the file is *)
(* renamed over the binary.  Files are inodes: an open file keeps its      *)
(* inode and its offset whatever becomes of the names.                     *)
(***************************************************************************)
EXTENDS Integers, Maps, SequencesExt

CONSTANTS
    Updaters,   \* update requests that may be served at the same time
    Releases,   \* released versions
    Blocks,     \* version -> number of blocks of its binary
    Hole,       \* content of a block never written
    MaxFiles    \* bound: files ever made

VARIABLES
    names,      \* "dst" and "tmp" -> inode, for the names that exist
    files,      \* inode -> its blocks
    updates     \* updater -> [at, release, inode, offset]

updVars == <<names, files, updates>>

Whole(v) == [i \in 1..Blocks[v] |-> [release |-> v, block |-> i]]

NoUpdate == [at |-> "idle"]

(* A block written at an offset, after a hole where the file is too short  *)
WriteAt(f, i, b) ==
    [j \in 1..(IF i > Len(f) THEN i ELSE Len(f)) |->
        IF j = i THEN b ELSE IF j <= Len(f) THEN f[j] ELSE Hole]

RemoveTmp == names' = Without(names, {"tmp"})
-----------------------------------------------------------------------------
(* The release is chosen, downloaded and unpacked; nothing is written yet. *)
Download(u, v) ==
    /\ updates[u] = NoUpdate
    /\ updates' = [updates EXCEPT ![u] = [at |-> "open", release |-> v]]
    /\ UNCHANGED <<names, files>>

Opened(u, inode) ==
    updates' = [updates EXCEPT ![u] = [at |-> "copy", release |-> @.release,
                                       inode |-> inode, offset |-> 0]]

(* Faulty variant: a file left over is not truncated.                      *)
OpenAsIs(u) ==
    /\ updates[u].at = "open"
    /\ IF "tmp" \in DOMAIN names
       THEN Opened(u, names["tmp"]) /\ UNCHANGED <<names, files>>
       ELSE LET new == Cardinality(DOMAIN files) + 1
            IN  /\ new <= MaxFiles
                /\ names' = Put(names, "tmp", new) /\ files' = Put(files, new, <<>>)
                /\ Opened(u, new)

(* OpenFile with O_CREATE and O_TRUNC                                      *)
OpenTmp(u) ==
    /\ updates[u].at = "open"
    /\ IF "tmp" \in DOMAIN names
       THEN /\ files' = [files EXCEPT ![names["tmp"]] = <<>>]
            /\ Opened(u, names["tmp"]) /\ UNCHANGED names
       ELSE LET new == Cardinality(DOMAIN files) + 1
            IN  /\ new <= MaxFiles
                /\ names' = Put(names, "tmp", new) /\ files' = Put(files, new, <<>>)
                /\ Opened(u, new)

Copy(u) ==
    /\ updates[u].at = "copy" /\ updates[u].offset < Blocks[updates[u].release]
    /\ LET i == updates[u].offset + 1
       IN  /\ files' = [files EXCEPT ![updates[u].inode] =
                            WriteAt(@, i, [release |-> updates[u].release, block |-> i])]
           /\ updates' = [updates EXCEPT ![u].offset = i]
    /\ UNCHANGED names

(* The archive cannot be read to its end, or the disk is full.             *)
CopyFails(u) ==
    /\ updates[u].at = "copy"
    /\ RemoveTmp
    /\ updates' = [updates EXCEPT ![u] = NoUpdate]
    /\ UNCHANGED files

(* The copy is complete: rename, which fails when the name is gone.        *)
Rename(u) ==
    /\ updates[u].at = "copy" /\ updates[u].offset = Blocks[updates[u].release]
    /\ names' = IF "tmp" \in DOMAIN names
                THEN Without(Put(names, "dst", names["tmp"]), {"tmp"}) ELSE names
    /\ updates' = [updates EXCEPT ![u] = NoUpdate]
    /\ UNCHANGED files

(* The agent is killed, or restarted by an update, at any moment.          *)
KillUpdates ==
    /\ updates' = [u \in Updaters |-> NoUpdate]
    /\ UNCHANGED <<names, files>>
-----------------------------------------------------------------------------
UpdInit ==
    /\ names = [n \in {"dst"} |-> 1]
    /\ \E v \in Releases : files = [i \in {1} |-> Whole(v)]
    /\ updates = [u \in Updaters |-> NoUpdate]

UpdNext ==
    \/ KillUpdates
    \/ \E u \in Updaters :
           \/ \E v \in Releases : Download(u, v)
           \/ OpenTmp(u) \/ Copy(u) \/ CopyFails(u) \/ Rename(u)

UpdSpec == UpdInit /\ [][UpdNext]_updVars

(* The installed binary is at every moment one whole release, wherever an  *)
(* update fails or the agent is killed: downloadXray "writes the "xray"    *)
(* binary to dst (atomically replacing it)".                               *)
BinaryWhole == \E v \in Releases : files[names["dst"]] = Whole(v)
=============================================================================
