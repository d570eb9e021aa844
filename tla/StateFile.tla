----------------------------- MODULE StateFile -----------------------------
(***************************************************************************)
(* One small file of the boot directory (active, trial or tries) and what  *)
(* a power cut does to it.                                                 *)
(*                                                                         *)
(* A file is a record: `now` is what any reader sees (the page cache) and  *)
(* `cut` is the set of contents the disk may hold if the power goes at     *)
(* this moment.  now \in cut always: the kernel is free to have written    *)
(* everything back.  NoFile stands for an absent file and Blank for an     *)
(* empty one, which is how a truncated file is found after a cut that lost *)
(* the data written to it afterwards.                                      *)
(***************************************************************************)
CONSTANTS NoFile, Blank

OnDisk(v) == [now |-> v, cut |-> {v}]
IsOnDisk(x) == x.cut = {x.now}

(* open(O_TRUNC): readers see an empty file until the data is written. *)
Truncate(x) == [now |-> Blank, cut |-> x.cut \cup {Blank}]

(* write() and close() with no fsync of the file: os.WriteFile, sh's echo >. *)
Fill(x, v) == [now |-> v, cut |-> x.cut \cup {v}]

(* write(), fsync() and close(): the data is on the disk; the directory entry
   of a file that did not exist there is not promised. *)
FillSync(x, v) == [now |-> v, cut |-> {v} \cup (x.cut \cap {NoFile})]

(* unlink(): the removal reaches the disk with the directory, not before. *)
Unlink(x) == [now |-> NoFile, cut |-> x.cut \cup {NoFile}]

(* fsync() of the directory: which names exist is on the disk, and the data
   of the files is not. *)
SyncEntry(x) ==
    [now |-> x.now,
     cut |-> IF x.now = NoFile THEN {NoFile} ELSE x.cut \ {NoFile}]

(* sync(), an orderly shutdown, or the kernel flusher getting to this file. *)
Flush(x) == OnDisk(x.now)

IsFile(x, V) == x.now \in V /\ x.cut \in SUBSET V /\ x.now \in x.cut
=============================================================================
