---------------------------- MODULE DurableDir ----------------------------
(***************************************************************************)
(* What a crash leaves of a directory (src/storage/durable.rs).            *)
(*                                                                         *)
(* A directory is a record: `now` is what every process sees, `may` is the *)
(* set of images a power loss can leave.  A rename, a create or an unlink  *)
(* only adds an image; `sync_directory` discards the older ones.  Images   *)
(* are whole directories: the file system applies the changes of one       *)
(* directory in order (a journal), it never reorders or splits a rename.   *)
(* Killing a process keeps `now`; only a power loss draws from `may`.      *)
(***************************************************************************)

\* A directory whose contents are on disk.
Settled(image) == [now |-> image, may |-> {image}]

\* rename(2), unlink(2) or a creation: visible at once, not yet durable.
Changed(dir, image) == [now |-> image, may |-> dir.may \cup {image}]

\* sync_directory: fsync of the directory itself.
Synced(dir) == Settled(dir.now)

\* What a restarted host may find.
AfterLoss(dir) == {Settled(image) : image \in dir.may}

Directory(Images) == [now : Images, may : SUBSET Images]

\* P holds of the directory now and after any power loss.
AlwaysOnDisk(dir, P(_)) == \A image \in dir.may \cup {dir.now} : P(image)
===========================================================================
