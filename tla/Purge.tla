-------------------------------- MODULE Purge --------------------------------
(***************************************************************************)
(* The end of a call and of its files: service/retention (the call         *)
(* worker), the bin of repository/call, and those who make files while the *)
(* call is there: transcription (the ASR cache), service/privacy (the      *)
(* masked media) and service/report.                                       *)
(*                                                                         *)
(* The row goes in one transaction that leaves a manifest of the files;    *)
(* the files go afterwards, one by one, and what could not be deleted is   *)
(* taken up from the manifest by a later run.  The advisory lock of a run  *)
(* belongs to a pooled connection and goes with it, so runs may overlap.   *)
(* Deleting a file that is not there is no error (storage).                *)
(***************************************************************************)
EXTENDS Naturals, FiniteSets

CONSTANTS
  PurgeWorkers,     \* replicas
  Made,             \* files made of a recording: "cache", "media", "report"
  Claims            \* what a call is purged for: "retention", "bin", "company"

ASSUME PurgeAssumption == Claims # {}

VARIABLES
  binned,           \* the call has a deleted_at
  overFor,          \* claims its purge_after, retention or company's purge meets
  recordOf,         \* "kept" or "gone": the row of the call
  paths,            \* files the rows of the call name
  disk,             \* files in storage
  maker,            \* those who make a file: nobody, at work, written
  manifest,         \* row of retention_call_deletions
  purger,           \* what each worker has in hand
  strays            \* files nobody had named when the row went

purgeVars == <<binned, overFor, recordOf, paths, disk, maker, manifest, purger, strays>>

Files == Made \cup {"audio"}
Unfinished == {"db_deleted", "files_pending"}
Idle == [pc |-> "idle", claim |-> CHOOSE c \in Claims : TRUE, left |-> {}]

PurgeTypeOK ==
  /\ binned \in BOOLEAN /\ overFor \subseteq Claims
  /\ recordOf \in {"kept", "gone"}
  /\ paths \subseteq Files /\ disk \subseteq Files /\ strays \subseteq Files
  /\ maker \in [Made -> {"nobody", "working", "written"}]
  /\ manifest \in [status : Unfinished \cup {"none", "completed"}, files : SUBSET Files]
  /\ purger \in [PurgeWorkers ->
       [pc : {"idle", "chosen", "deleting"}, claim : Claims, left : SUBSET Files]]

(* The path of the cache is made up with the call; the audio is uploaded.   *)
PurgeInit ==
  /\ binned = FALSE /\ overFor = {} /\ recordOf = "kept"
  /\ paths = {"audio"} \cup (Made \cap {"cache"}) /\ disk = {"audio"} /\ strays = {}
  /\ maker = [f \in Made |-> "nobody"]
  /\ manifest = [status |-> "none", files |-> {}]
  /\ purger = [w \in PurgeWorkers |-> Idle]

-----------------------------------------------------------------------------
(* The call, its bin and its time *)

SoftDeleteCall ==
  /\ recordOf = "kept" /\ ~binned /\ binned' = TRUE
  /\ UNCHANGED <<overFor, recordOf, paths, disk, maker, manifest, purger, strays>>

(* Whoever could delete it may restore it until it is gone. *)
RestoreCall ==
  /\ recordOf = "kept" /\ binned /\ binned' = FALSE
  /\ overFor' = overFor \ {"bin"}
  /\ UNCHANGED <<recordOf, paths, disk, maker, manifest, purger, strays>>

(* Thirty days in the bin, the retention of the plan, the company's grace. *)
ComesDue(claim) ==
  /\ recordOf = "kept" /\ claim \notin overFor /\ (claim = "bin" => binned)
  /\ overFor' = overFor \cup {claim}
  /\ UNCHANGED <<binned, recordOf, paths, disk, maker, manifest, purger, strays>>

-----------------------------------------------------------------------------
(* Files being made; the row is looked at before, not while *)

(* None is begun for a call in the bin; one that was goes on.               *)
StartFile(f) ==
  /\ recordOf = "kept" /\ maker[f] = "nobody" /\ (f # "cache" => f \notin paths) /\ ~binned
  /\ maker' = [maker EXCEPT ![f] = "working"]
  /\ UNCHANGED <<binned, overFor, recordOf, paths, disk, manifest, purger, strays>>

WriteFile(f) ==
  /\ maker[f] = "working" /\ maker' = [maker EXCEPT ![f] = "written"]
  /\ disk' = disk \cup {f}
  /\ UNCHANGED <<binned, overFor, recordOf, paths, manifest, purger, strays>>

(* MarkReady of a report, UPDATE of a variant: no row, nothing recorded.    *)
RecordFile(f) ==
  /\ maker[f] = "written" /\ maker' = [maker EXCEPT ![f] = "nobody"]
  /\ paths' = IF recordOf = "kept" THEN paths \cup {f} ELSE paths
  /\ UNCHANGED <<binned, overFor, recordOf, disk, manifest, purger, strays>>

(* Whoever makes it is gone; a masked copy is taken up again.               *)
AbandonFile(f) ==
  /\ maker[f] # "nobody" /\ maker' = [maker EXCEPT ![f] = "nobody"]
  /\ UNCHANGED <<binned, overFor, recordOf, paths, disk, manifest, purger, strays>>

-----------------------------------------------------------------------------
(* The worker, runCalls *)

OverFor(claim) == recordOf = "kept" /\ claim \in overFor

SelectCall(w, claim) ==
  /\ purger[w].pc = "idle" /\ OverFor(claim)
  /\ purger' = [purger EXCEPT ![w] = [Idle EXCEPT !.pc = "chosen", !.claim = claim]]
  /\ UNCHANGED <<binned, overFor, recordOf, paths, disk, maker, manifest, strays>>

(* Mutant of Listed: the masked media are not looked for. *)
ListedWithoutMedia == paths \ {"media"}

(* The files the rows of the call name, under the lock of the call. *)
Listed == paths

(* deleteCall up to its commit; a call that is not due any more is left.    *)
DeleteRows(w) ==
  /\ purger[w].pc = "chosen"
  /\ IF OverFor(purger[w].claim)
     THEN /\ recordOf' = "gone" /\ paths' = {}
          /\ manifest' = [status |-> "db_deleted", files |-> Listed]
          /\ strays' = {f \in Files : f \notin paths \/ (f \in Made /\ maker[f] # "nobody")}
          /\ purger' = [purger EXCEPT ![w].pc = "deleting", ![w].left = Listed]
     ELSE /\ purger' = [purger EXCEPT ![w] = Idle]
          /\ UNCHANGED <<recordOf, paths, manifest, strays>>
  /\ UNCHANGED <<binned, overFor, disk, maker>>

(* resumePendingFiles: the whole manifest once more. *)
ResumeFiles(w) ==
  /\ purger[w].pc = "idle" /\ manifest.status \in Unfinished
  /\ purger' = [purger EXCEPT ![w] = [Idle EXCEPT !.pc = "deleting", !.left = manifest.files]]
  /\ UNCHANGED <<binned, overFor, recordOf, paths, disk, maker, manifest, strays>>

DeleteFile(w, f) ==
  /\ purger[w].pc = "deleting" /\ f \in purger[w].left
  /\ disk' = disk \ {f}
  /\ purger' = [purger EXCEPT ![w].left = @ \ {f}]
  /\ UNCHANGED <<binned, overFor, recordOf, paths, maker, manifest, strays>>

(* The storage refuses: the rest waits for a later run. *)
StorageFails(w) ==
  /\ purger[w].pc = "deleting" /\ purger[w].left # {}
  /\ manifest' = [manifest EXCEPT !.status = "files_pending"]
  /\ purger' = [purger EXCEPT ![w] = Idle]
  /\ UNCHANGED <<binned, overFor, recordOf, paths, disk, maker, strays>>

CompleteDeletion(w) ==
  /\ purger[w].pc = "deleting" /\ purger[w].left = {}
  /\ manifest' = [manifest EXCEPT !.status = "completed"]
  /\ purger' = [purger EXCEPT ![w] = Idle]
  /\ UNCHANGED <<binned, overFor, recordOf, paths, disk, maker, strays>>

CrashPurger(w) ==
  /\ purger[w].pc # "idle" /\ purger' = [purger EXCEPT ![w] = Idle]
  /\ UNCHANGED <<binned, overFor, recordOf, paths, disk, maker, manifest, strays>>

-----------------------------------------------------------------------------
PurgeNext ==
  \/ SoftDeleteCall \/ RestoreCall
  \/ \E claim \in Claims : ComesDue(claim)
  \/ \E f \in Made : StartFile(f) \/ WriteFile(f) \/ RecordFile(f) \/ AbandonFile(f)
  \/ \E w \in PurgeWorkers :
       \/ \E claim \in Claims : SelectCall(w, claim)
       \/ \E f \in Files : DeleteFile(w, f)
       \/ DeleteRows(w) \/ ResumeFiles(w) \/ StorageFails(w) \/ CompleteDeletion(w)
       \/ CrashPurger(w)

PurgeSpec == PurgeInit /\ [][PurgeNext]_purgeVars

-----------------------------------------------------------------------------
(* Properties *)

(* Once a call is gone, a file of it that is left is on a manifest that is   *)
(* not finished, whatever run failed, stopped or went over the same files    *)
(* as another; only a file whose maker had not come to name it is a stray    *)
(* (retention/worker.go:239-266, 293, 310-318, 183).                         *)
PurgedFilesTracked ==
  recordOf = "gone" =>
    \A f \in disk \ strays : f \in manifest.files /\ manifest.status \in Unfinished
=============================================================================
