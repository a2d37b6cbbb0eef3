------------------------------ MODULE ModelFile ------------------------------
(***************************************************************************)
(* The copy of the model asset in the app's external files directory:      *)
(* FileUtil.copyFileFromAsset, which writes it, and the file system that   *)
(* keeps it.                                                               *)
(*                                                                         *)
(* The file is abstracted to its length, in items of ShapePredictor: it    *)
(* always holds a prefix of the asset, because it is only ever truncated   *)
(* and appended to.  What is written goes to the page cache, which         *)
(* survives the process but not the loss of power; nothing syncs it.       *)
(***************************************************************************)
EXTENDS Naturals

CONSTANTS
  FileLength,   \* the length of the asset
  NoFile        \* the length of a file that does not exist

VARIABLES
  file,   \* the length of the model file, or NoFile
  disk,   \* the length it would have after a loss of power
  out     \* what has been written to the open output stream, or NoFile

fileVars == <<file, disk, out>>

FileLengths == {NoFile} \union (0 .. FileLength)

FileTypeOK == file \in FileLengths /\ disk \in FileLengths /\ out \in FileLengths

FileInit == file = NoFile /\ disk = NoFile /\ out = NoFile

(***************************************************************************)
(* copyFileFromAsset                                                       *)
(***************************************************************************)
\* FileOutputStream creates the file, or truncates one that is there.
OpenOut ==
  /\ out = NoFile
  /\ out' = 0
  /\ file' = 0
  /\ UNCHANGED disk

\* A faulty variant: the loop runs once too often.
WriteChunkPastEnd ==
  /\ out \in 0 .. FileLength
  /\ out' = out + 1
  /\ file' = IF file = NoFile THEN NoFile ELSE out'
  /\ UNCHANGED disk

\* One round of the loop.  A stream whose file was removed writes to no file.
WriteChunk ==
  /\ out \in 0 .. FileLength - 1
  /\ out' = out + 1
  /\ file' = IF file = NoFile THEN NoFile ELSE out'
  /\ UNCHANGED disk

\* read() = -1.  The stream is never closed, but nothing writes to it again.
EndCopy ==
  /\ out = FileLength
  /\ out' = NoFile
  /\ UNCHANGED <<file, disk>>

\* An exception from open(), read() or write() is printed and forgotten.
CopyFails == out' = NoFile /\ UNCHANGED <<file, disk>>

(***************************************************************************)
(* The file system and its users                                           *)
(***************************************************************************)
Writeback == disk' = file /\ UNCHANGED <<file, out>>

RemoveFile == file # NoFile /\ file' = NoFile /\ UNCHANGED <<disk, out>>

ProcessEnds == out' = NoFile /\ UNCHANGED <<file, disk>>

PowerLoss == file' = disk /\ out' = NoFile /\ UNCHANGED disk
=============================================================================
