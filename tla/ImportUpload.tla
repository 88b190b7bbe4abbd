----------------------------- MODULE ImportUpload -----------------------------
(***************************************************************************)
(* The files of an import: the upload by a presigned URL, the handlers that   *)
(* confirm and preview it (app/api/imports.py), and the executions of its run *)
(* (job_runner._execute_import_job).  Each of them downloads the object to a   *)
(* temporary file whose path depends on the client and the object, or on the  *)
(* run, so that two of a kind on one instance share it.  The storage adapters  *)
(* differ: S3 puts a finished download in place in one step, Azure truncates   *)
(* the file and then fills it.  API and workers are one process, which stops   *)
(* as a whole; one request or one worker may be cancelled while the thread     *)
(* that downloads its file goes on.                                           *)
(***************************************************************************)
EXTENDS Integers, FiniteSets

CONSTANTS
    Confirms, Previews,  \* requests to confirm, and to preview, the one object
    Executions,          \* executions of the one run that imports it
    Instance,            \* the instance of the service that each of them runs on
    Contents,            \* what a client may upload
    Confirmable,         \* contents that validate_import_file passes
    Valid,               \* contents the worker's validation passes (its field mappings too)
    Partial,             \* a file that a download has begun to fill
    Null,                \* no object, no file
    MaxUploads, MaxBegun, MaxFaults  \* bounds

Actors == Confirms \union Previews \union Executions

ASSUME UploadAssumption ==
    /\ Confirms \intersect Previews = {} /\ (Confirms \union Previews) \intersect Executions = {}
    /\ Confirmable \subseteq Contents /\ Valid \subseteq Contents
    /\ Partial \notin Contents /\ Null \notin Contents \union {Partial} \union Actors
    /\ MaxUploads \in Nat /\ MaxBegun \in Nat /\ MaxFaults \in Nat

VARIABLES
    csv, azure,   \* the extension of the file; the storage that is configured
    url,          \* the presigned upload URL
    object,       \* the content of the object
    path,         \* the file at a path: named by the actor that created it
    content,      \* the content of the files
    pc,
    got,          \* the content a download reads
    target,       \* the file that a download writes, or an import reads
    answer,       \* what a request was answered, or the status of an execution
    imported,     \* the contents an execution imported rows of
    alone,        \* history: no other actor used the path meanwhile
    seen,         \* history: the contents of the object since the request to confirm began
    uploads, faults

fileVars == <<path, content, got, target>>
vars == <<csv, azure, url, object, fileVars, pc, answer, imported, alone, seen, uploads, faults>>

\* The temporary files confirm_..., preview_... and import_... of an instance.
Spot(x) == <<Instance[x], IF x \in Confirms THEN "confirm" ELSE IF x \in Previews THEN "preview"
                          ELSE "import">>
Spots     == {Spot(x) : x \in Actors}
Active(x) == pc[x] \notin {"idle", "ended", "crashed"}
Begun     == Cardinality({x \in Actors : pc[x] # "idle"})
Found(x)  == IF path[Spot(x)] = Null THEN Null ELSE content[path[Spot(x)]]

TypeOK ==
    /\ object \in Contents \union {Null} /\ url \in {"none", "valid", "expired"}
    /\ path \in [Spots -> Actors \union {Null}]
    /\ content \in [Actors -> Contents \union {Partial, Null}]
    /\ pc \in [Actors -> {"idle", "check", "download", "fetch", "use", "open", "read", "failed",
                          "imported", "orphan", "ended", "crashed"}]
    /\ got \in [Actors -> Contents \union {Null}]
    /\ target \in [Actors -> Actors]
    /\ answer \in [Actors -> {"none", "validated", "invalid", "missing", "error", "shown",
                              "SUCCEEDED", "FAILED"}]
    /\ imported \in [Executions -> SUBSET (Contents \union {Partial})]
    /\ csv \in BOOLEAN /\ azure \in BOOLEAN
    /\ alone \in [Actors -> BOOLEAN] /\ seen \in [Confirms -> SUBSET (Contents \union {Null})]

Init ==
    /\ csv \in BOOLEAN /\ azure \in BOOLEAN
    /\ url = "none" /\ object = Null
    /\ path = [s \in Spots |-> Null]
    /\ content = [x \in Actors |-> Null]
    /\ pc = [x \in Actors |-> "idle"]
    /\ got = [x \in Actors |-> Null]
    /\ target = [x \in Actors |-> x]
    /\ answer = [x \in Actors |-> "none"]
    /\ imported = [e \in Executions |-> {}]
    /\ alone = [x \in Actors |-> TRUE]
    /\ seen = [h \in Confirms |-> {}]
    /\ uploads = 0 /\ faults = 0

Goto(x, step) == pc' = [pc EXCEPT ![x] = step]
Answer(x, a)  == answer' = [answer EXCEPT ![x] = a]
End(x, a)     == Goto(x, "ended") /\ Answer(x, a)
Fault         == faults < MaxFaults /\ faults' = faults + 1
Remove(x)     == path' = [path EXCEPT ![Spot(x)] = Null]

storageVars == <<csv, azure, url, object, uploads>>
historyVars == <<alone, seen>>

-----------------------------------------------------------------------------
\* request_upload: the key is new, the URL stays valid for presigned_url_expiration.
RequestUpload ==
    /\ url = "none"
    /\ url' = "valid"
    /\ UNCHANGED <<csv, azure, object, fileVars, pc, answer, imported, historyVars, uploads, faults>>

\* A PUT to the URL, the first or another one.
PutObject(c) ==
    /\ url = "valid" /\ uploads < MaxUploads
    /\ object' = c
    /\ uploads' = uploads + 1
    /\ seen' = [h \in Confirms |-> IF Active(h) THEN seen[h] \union {c} ELSE seen[h]]
    /\ UNCHANGED <<csv, azure, url, fileVars, pc, answer, imported, alone, faults>>

ExpireUrl ==
    /\ url = "valid"
    /\ url' = "expired"
    /\ UNCHANGED <<csv, azure, object, fileVars, pc, answer, imported, historyVars, uploads, faults>>

-----------------------------------------------------------------------------
\* A request for the key, or a worker that executes the run; nothing demands that
\* the object was confirmed.
Begin(x) ==
    /\ url # "none" /\ pc[x] = "idle" /\ Begun < MaxBegun
    /\ Goto(x, IF x \in Confirms THEN "check" ELSE "download")
    /\ LET others == {y \in Actors : Active(y) /\ Spot(y) = Spot(x)} IN
       alone' = [y \in Actors |-> IF y = x THEN others = {} ELSE alone[y] /\ y \notin others]
    /\ seen' = [h \in Confirms |-> IF h = x THEN {object} ELSE seen[h]]
    /\ UNCHANGED <<storageVars, fileVars, answer, imported, faults>>

\* file_exists of confirm_upload.
CheckExists(x) ==
    /\ pc[x] = "check"
    /\ IF object = Null THEN End(x, "missing") ELSE Goto(x, "download") /\ answer' = answer
    /\ UNCHANGED <<storageVars, fileVars, imported, historyVars, faults>>

\* The Azure adapter takes every failure for the absence of the object.
CheckFails(x) ==
    /\ pc[x] = "check" /\ Fault
    /\ End(x, IF azure THEN "missing" ELSE "error")
    /\ UNCHANGED <<storageVars, fileVars, imported, historyVars>>

-----------------------------------------------------------------------------
(* download_file of the adapters.                                             *)

\* Mutant of StartDownload: the file is opened before the request on S3 too.
StartDownloadTruncates(x) ==
    /\ pc[x] = "download"
    /\ got' = [got EXCEPT ![x] = object]
    /\ LET file == IF path[Spot(x)] = Null THEN x ELSE path[Spot(x)] IN
       /\ path' = [path EXCEPT ![Spot(x)] = file]
       /\ content' = [content EXCEPT ![file] = Partial]
       /\ target' = [target EXCEPT ![x] = file]
    /\ Goto(x, "fetch")
    /\ UNCHANGED <<storageVars, answer, imported, historyVars, faults>>

\* The request is sent; Azure has opened the file at the path, which truncates it.
StartDownload(x) ==
    /\ pc[x] = "download"
    /\ got' = [got EXCEPT ![x] = object]
    /\ LET file == IF path[Spot(x)] = Null THEN x ELSE path[Spot(x)] IN
       IF azure THEN /\ path' = [path EXCEPT ![Spot(x)] = file]
                     /\ content' = [content EXCEPT ![file] = Partial]
                     /\ target' = [target EXCEPT ![x] = file]
       ELSE UNCHANGED <<path, content, target>>
    /\ Goto(x, "fetch")
    /\ UNCHANGED <<storageVars, answer, imported, historyVars, faults>>

\* S3 renames a finished file to the path; Azure has written the one it opened.
FinishDownload(x) ==
    /\ pc[x] = "fetch" /\ got[x] # Null
    /\ IF azure THEN /\ content' = [content EXCEPT ![target[x]] = got[x]]
                     /\ path' = path
       ELSE /\ content' = [content EXCEPT ![x] = got[x]]
            /\ path' = [path EXCEPT ![Spot(x)] = x]
    /\ Goto(x, "use")
    /\ UNCHANGED <<storageVars, got, target, answer, imported, historyVars, faults>>

\* Mutant of DownloadFails: the failure is logged and the file used.
DownloadFailsUnseen(x) ==
    /\ pc[x] = "fetch"
    /\ IF got[x] = Null THEN faults' = faults ELSE Fault
    /\ Goto(x, "use")
    /\ UNCHANGED <<storageVars, path, content, got, target, answer, imported, historyVars>>

\* Only confirm_upload removes the file then: the worker's finally comes later.
DownloadFails(x) ==
    /\ pc[x] = "fetch"
    /\ IF got[x] = Null THEN faults' = faults ELSE Fault
    /\ End(x, IF x \in Confirms THEN "error" ELSE IF x \in Previews THEN "missing" ELSE "FAILED")
    /\ IF x \in Confirms THEN Remove(x) ELSE path' = path
    /\ UNCHANGED <<storageVars, content, got, target, imported, historyVars>>

-----------------------------------------------------------------------------
\* Half a file may pass the checks or not.
Passes(c, good) == {ok \in BOOLEAN : c # Partial => ok = (c \in good)}

\* Mutant of Confirm: the file is removed when it is refused only.
ConfirmKeeps(x) ==
    /\ pc[x] = "use"
    /\ \E ok \in Passes(Found(x), Confirmable) :
        /\ End(x, IF ok THEN "validated" ELSE "invalid")
        /\ IF ok THEN path' = path ELSE Remove(x)
    /\ UNCHANGED <<storageVars, content, got, target, imported, historyVars, faults>>

\* The rest of confirm_upload, in one piece: validate, extract the columns, remove.
Confirm(x) ==
    /\ pc[x] = "use"
    /\ \E ok \in Passes(Found(x), Confirmable) : End(x, IF ok THEN "validated" ELSE "invalid")
    /\ Remove(x)
    /\ UNCHANGED <<storageVars, content, got, target, imported, historyVars, faults>>

\* preview_import never removes its file.
Show(x) ==
    /\ pc[x] = "use"
    /\ \E ok \in Passes(Found(x), Contents) : End(x, IF ok THEN "shown" ELSE "error")
    /\ UNCHANGED <<storageVars, fileVars, imported, historyVars, faults>>

-----------------------------------------------------------------------------
(* The worker, once the file is downloaded.                                   *)

\* Mutant of Validate: the file that was confirmed is not validated again.
ValidateNot(x) ==
    /\ pc[x] = "use" /\ csv
    /\ Goto(x, IF Found(x) # Null THEN "open" ELSE "failed")
    /\ UNCHANGED <<storageVars, fileVars, answer, imported, historyVars, faults>>

\* Phase 1 of _stream_import_csv.
Validate(x) ==
    /\ pc[x] = "use" /\ csv
    /\ \E ok \in Passes(Found(x), Valid) : Goto(x, IF ok THEN "open" ELSE "failed")
    /\ UNCHANGED <<storageVars, fileVars, answer, imported, historyVars, faults>>

\* Phase 2 opens the path anew, after statistics were written.
Open(x) ==
    /\ pc[x] = "open"
    /\ IF path[Spot(x)] = Null THEN Goto(x, "failed") /\ target' = target
       ELSE Goto(x, "read") /\ target' = [target EXCEPT ![x] = path[Spot(x)]]
    /\ UNCHANGED <<storageVars, path, content, got, answer, imported, historyVars, faults>>

\* A batch, the last one or not, whatever the open file holds by now.
ImportBatch(x) ==
    /\ pc[x] = "read"
    /\ imported' = [imported EXCEPT ![x] = @ \union {content[target[x]]}]
    /\ \E step \in {"read", "imported", "failed"} : Goto(x, step)
    /\ UNCHANGED <<storageVars, fileVars, answer, historyVars, faults>>

\* Mutant of ImportJson: a file that is not there is imported as well.
ImportJsonMissing(x) ==
    /\ pc[x] = "use" /\ ~csv
    /\ imported' = [imported EXCEPT ![x] = {Found(x)}]
    /\ \E step \in {"imported", "failed"} : Goto(x, step)
    /\ UNCHANGED <<storageVars, fileVars, answer, historyVars, faults>>

\* JSON: parsed at once and not validated; half a file does not parse.
ImportJson(x) ==
    /\ pc[x] = "use" /\ ~csv
    /\ IF Found(x) \in {Null, Partial} THEN Goto(x, "failed") /\ imported' = imported
       ELSE /\ imported' = [imported EXCEPT ![x] = {Found(x)}]
            /\ \E step \in {"imported", "failed"} : Goto(x, step)
    /\ UNCHANGED <<storageVars, fileVars, answer, historyVars, faults>>

\* update_status, then the finally that removes what is at the path.
Settle(x) ==
    /\ pc[x] \in {"imported", "failed"}
    /\ End(x, IF pc[x] = "imported" THEN "SUCCEEDED" ELSE "FAILED")
    /\ Remove(x)
    /\ UNCHANGED <<storageVars, content, got, target, imported, historyVars, faults>>

-----------------------------------------------------------------------------
(* What is cut short: nothing is answered, and the row of a run stays as it is. *)

\* The client hangs up, or the worker is cancelled at shutdown, while the adapter is
\* awaited.  Only confirm_upload has entered its try/finally by then.  S3's thread
\* goes on; Azure's finds its file closed, if it was not done with it.
Cancel(x) ==
    /\ pc[x] \in {"check", "fetch"} /\ Fault
    /\ Goto(x, IF pc[x] = "fetch" /\ ~azure THEN "orphan" ELSE "crashed")
    /\ IF pc[x] = "fetch" /\ x \in Confirms THEN Remove(x) ELSE path' = path
    /\ \/ content' = content
       \/ /\ pc[x] = "fetch" /\ azure /\ got[x] # Null
          /\ content' = [content EXCEPT ![target[x]] = got[x]]
    /\ UNCHANGED <<storageVars, got, target, answer, imported, historyVars>>

\* The thread of a cancelled download puts its file in place, or fails.
OrphanDownload(x) ==
    /\ pc[x] = "orphan"
    /\ \/ UNCHANGED <<path, content>>
       \/ /\ got[x] # Null
          /\ content' = [content EXCEPT ![x] = got[x]]
          /\ path' = [path EXCEPT ![Spot(x)] = x]
    /\ Goto(x, "crashed")
    /\ UNCHANGED <<storageVars, got, target, answer, imported, historyVars, faults>>

\* A worker cancelled after its download runs the finally.
CancelImport(x) ==
    /\ pc[x] \in {"use", "open", "read", "imported", "failed"} /\ Fault
    /\ Goto(x, "crashed")
    /\ Remove(x)
    /\ UNCHANGED <<storageVars, content, got, target, answer, imported, historyVars>>

\* The process of an instance ends; its disk and what is on it stay.
Stop(i) ==
    /\ Fault
    /\ \E x \in Actors : Active(x) /\ Instance[x] = i
    /\ pc' = [x \in Actors |-> IF Active(x) /\ Instance[x] = i THEN "crashed" ELSE pc[x]]
    /\ UNCHANGED <<storageVars, fileVars, answer, imported, historyVars>>

Next ==
    \/ RequestUpload \/ ExpireUrl
    \/ \E c \in Contents : PutObject(c)
    \/ \E x \in Actors : \/ Begin(x) \/ StartDownload(x) \/ FinishDownload(x) \/ DownloadFails(x)
                         \/ Cancel(x) \/ OrphanDownload(x)
    \/ \E x \in Confirms : CheckExists(x) \/ CheckFails(x) \/ Confirm(x)
    \/ \E x \in Previews : Show(x)
    \/ \E x \in Executions : \/ Validate(x) \/ Open(x) \/ ImportBatch(x) \/ ImportJson(x)
                             \/ Settle(x) \/ CancelImport(x)
    \/ \E i \in {Instance[x] : x \in Actors} : Stop(i)

Spec == Init /\ [][Next]_vars

-----------------------------------------------------------------------------
(* Properties.                                                                *)

\* A CSV import has only rows of contents the worker's validation passes, though
\* the client may replace the object after it was confirmed, previewed or even
\* downloaded, as long as no other execution of the run shares its file: the
\* worker validates the copy that it imports.
ImportedWasChecked ==
    \A e \in Executions : csv /\ alone[e] => imported[e] \subseteq Valid

\* No import takes half a file for a whole one, be it left by a crash, truncated
\* by a second execution or removed by it; on Azure, unless executions overlap.
WholeFileImported ==
    \A e \in Executions : ~azure \/ alone[e] => Partial \notin imported[e]

\* The verdict on a file is about the object: a confirm that no other confirm of
\* the object disturbs answers "validated", or "invalid", only for a content the
\* object had since it began; and an object that was there is missed only by the
\* Azure adapter's file_exists.
VerdictIsAboutObject ==
    \A h \in Confirms :
        alone[h] =>
            /\ answer[h] = "validated" => seen[h] \intersect Confirmable # {}
            /\ answer[h] = "invalid" => seen[h] \intersect (Contents \ Confirmable) # {}
            /\ answer[h] = "missing" /\ ~azure => Null \in seen[h]

\* A temporary file of a confirm or an import stays at its path no longer than the
\* request or execution that put it there: what is found there later was put there
\* by one that was cut short (a process that stopped, or a download that went on
\* when its request was cancelled) or whose download failed on Azure.
NothingLeftBehind ==
    \A x \in Confirms \union Executions :
        path[Spot(x)] = x => \/ Active(x)
                             \/ pc[x] = "crashed"
                             \/ azure /\ x \in Executions /\ answer[x] = "FAILED"
=============================================================================
