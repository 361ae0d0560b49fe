----------------------------- MODULE ExperimentLog ----------------------------
(***************************************************************************)
(* The experiment log of the sandbox (internal/sandbox/experiment_logger): *)
(* records are appended to a file that is renamed by the second when it    *)
(* has grown, and then compressed; or each record replaces a file of its   *)
(* own, by way of a temporary one.  A call holds a lock of the process     *)
(* throughout, so that calls do not interleave; but every step on the disk *)
(* may fail, which ends the call with an error, or be the last before the  *)
(* process crashes.                                                        *)
(***************************************************************************)
EXTENDS Integers, Sequences, SequencesExt

CONSTANTS MaxBytes,      (* records after which the file is rotated         *)
          EnableGzip,
          MaxClock,      (* bound: seconds of a behaviour                   *)
          MaxRecords     (* bound: records of a behaviour                   *)

VARIABLES
  clock,
  live,       (* the records in OutputPath; <<>> also when there is none    *)
  rotated,    (* second -> the records of the file renamed then             *)
  archive,    (* second -> the records of its compressed file               *)
  output,     (* the file that is replaced: its record, 0 for none          *)
  tmp,        (* the temporary file: its record, 0 for none or a part of it *)
  call,       (* the call under way                                         *)
  count,      (* records so far                                             *)
  acked,      (* history: appended records whose call returned no error     *)
  replaced,   (* history: the last record to replace the file               *)
  taken,      (* history: the seconds at which a file was rotated           *)
  collided    (* history: two of them were the same                         *)

vars == <<clock, live, rotated, archive, output, tmp, call, count, acked, replaced, taken, collided>>

Seconds == 1 .. MaxClock
Idle == [at |-> "idle", record |-> 0, second |-> 0]

Init ==
  /\ clock = 1
  /\ live = <<>>
  /\ rotated = [s \in Seconds |-> <<>>]
  /\ archive = [s \in Seconds |-> <<>>]
  /\ output = 0
  /\ tmp = 0
  /\ call = Idle
  /\ count = 0
  /\ acked = {}
  /\ replaced = 0
  /\ taken = {}
  /\ collided = FALSE

files == <<live, rotated, archive, output, tmp>>

(* WriteExperimentRecord, up to the lock. *)
WriteExperimentRecord(append) ==
  /\ call = Idle
  /\ count < MaxRecords
  /\ count' = count + 1
  /\ call' = [at |-> IF append THEN "rotate" ELSE "create", record |-> count', second |-> 0]
  /\ UNCHANGED <<clock, files, acked, replaced, taken, collided>>

(* rotateIfNeeded: the name is that of the second.  Once renamed, the file *)
(* has been taken away whatever becomes of the compression.                *)
RotateIfNeeded ==
  /\ call.at = "rotate"
  /\ IF Len(live) < MaxBytes
     THEN call' = [call EXCEPT !.at = "append"] /\ UNCHANGED <<live, rotated, taken, collided>>
     ELSE /\ rotated' = [rotated EXCEPT ![clock] = live]
          /\ live' = <<>>
          /\ taken' = taken \cup {clock}
          /\ collided' = (collided \/ clock \in taken)
          /\ call' = [call EXCEPT !.at = IF EnableGzip THEN "compress" ELSE "append", !.second = clock]
  /\ UNCHANGED <<clock, archive, output, tmp, count, acked, replaced>>

(* compressFile: the archive is made anew, then filled, closed... *)
CompressCreate ==
  /\ call.at = "compress"
  /\ archive' = [archive EXCEPT ![call.second] = <<>>]
  /\ call' = [call EXCEPT !.at = "fill"]
  /\ UNCHANGED <<clock, live, rotated, output, tmp, count, acked, replaced, taken, collided>>

(* Slip: the source is removed before the archive has been closed.         *)
AfterFill_Unclosed(content) == <<>>

AfterFill(content) == content

CompressFill ==
  /\ call.at = "fill"
  /\ archive' = [archive EXCEPT ![call.second] = AfterFill(rotated[call.second])]
  /\ call' = [call EXCEPT !.at = "remove"]
  /\ UNCHANGED <<clock, live, rotated, output, tmp, count, acked, replaced, taken, collided>>

(* ... and only then is its source removed. *)
CompressRemove ==
  /\ call.at = "remove"
  /\ rotated' = [rotated EXCEPT ![call.second] = <<>>]
  /\ call' = [call EXCEPT !.at = "append"]
  /\ UNCHANGED <<clock, live, archive, output, tmp, count, acked, replaced, taken, collided>>

AppendNDJSONSafe ==
  /\ call.at = "append"
  /\ live' = Append(live, call.record)
  /\ acked' = acked \cup {call.record}
  /\ call' = Idle
  /\ UNCHANGED <<clock, rotated, archive, output, tmp, count, replaced, taken, collided>>

(* atomicWriteSafe: the temporary file is created, written and synced,     *)
(* then renamed.                                                           *)
CreateTmp ==
  /\ call.at = "create"
  /\ tmp' = 0
  /\ call' = [call EXCEPT !.at = "write"]
  /\ UNCHANGED <<clock, live, rotated, archive, output, count, acked, replaced, taken, collided>>

WriteTmp ==
  /\ call.at = "write"
  /\ tmp' = call.record
  /\ call' = [call EXCEPT !.at = "rename"]
  /\ UNCHANGED <<clock, live, rotated, archive, output, count, acked, replaced, taken, collided>>

RenameTmp ==
  /\ call.at = "rename"
  /\ output' = tmp
  /\ tmp' = 0
  /\ replaced' = call.record
  /\ call' = Idle
  /\ UNCHANGED <<clock, live, rotated, archive, count, acked, taken, collided>>

(* The step that is due fails, or the process crashes before it. *)
FailOrCrash ==
  /\ call # Idle
  /\ call' = Idle
  /\ UNCHANGED <<clock, files, count, acked, replaced, taken, collided>>

Advance ==
  /\ clock < MaxClock
  /\ clock' = clock + 1
  /\ UNCHANGED <<files, call, count, acked, replaced, taken, collided>>

Next ==
  \/ \E append \in BOOLEAN : WriteExperimentRecord(append)
  \/ RotateIfNeeded \/ CompressCreate \/ CompressFill \/ CompressRemove \/ AppendNDJSONSafe
  \/ CreateTmp \/ WriteTmp \/ RenameTmp
  \/ FailOrCrash \/ Advance

Spec == Init /\ [][Next]_vars

-------------------------------------------------------------------------------
(* Properties *)

Kept == ToSet(live) \cup UNION {ToSet(rotated[s]) \cup ToSet(archive[s]) : s \in Seconds}

(* A record whose call returned without an error is in the file, in a      *)
(* rotated one or in an archive, wherever calls failed and the process     *)
(* crashed, as long as no two rotations fell into one second: of those the *)
(* last takes the place of the others.  A file that is replaced holds the  *)
(* whole of the last record, never a part.                                 *)
RecordsKept ==
  /\ ~collided => acked \subseteq Kept
  /\ output = replaced
===============================================================================
