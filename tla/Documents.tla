------------------------------ MODULE Documents ------------------------------
(***************************************************************************)
(* Files, their versions and scans, their legal holds and their disposal   *)
(* (documents/services.py, documents/api.py).                              *)
(*                                                                         *)
(* The services lock the file, or the batch and then its files, and are    *)
(* one action each.  The endpoints that archive, recycle and restore a     *)
(* file, that put a legal hold on it and that edit it do not: they decide  *)
(* on the copy get_object gave them and save it, the first three its       *)
(* status, the others every column, so that each is two actions.  What a    *)
(* scan said of a version is read by downloads only, and is left out.      *)
(***************************************************************************)
EXTENDS Integers

CONSTANTS
  Files,         \* doc_file_object
  Batches,       \* doc_disposal_batch
  ItemsOf,       \* the files of a batch
  Requester, Keepers,   \* requested_by of a batch; users who may approve
  Clerks,        \* requests that change a file at a time
  MaxVersions, MaxEdits,   \* bounds
  NoForm         \* no request

ASSUME DocumentsAssumption ==
  /\ ItemsOf \in [Batches -> SUBSET Files] /\ MaxVersions \in Nat /\ NoForm \notin Keepers

VARIABLES
  file,          \* [status, current, hold] of a file
  version,       \* number of versions of a file (doc_file_version)
  batch,         \* [status, by] of a batch
  edit,          \* the request of a clerk: [file, kind, copy]
  edits,         \* bound: requests begun
  frozen,        \* history: files a legal hold was put on and not taken off
  disposed,      \* history: [file, batch, frozen] of every disposal
  late           \* history: files an edit or a scan changed after what it looked at

documentVars == <<file, version, batch, edit, edits, frozen, disposed, late>>

FileRow == [status : {"draft", "active", "archived", "recycled", "disposed"},
            current : 0..MaxVersions, hold : BOOLEAN]
BatchRow == [status : {"none", "draft", "approved", "executed"}, by : Keepers \cup {NoForm}]

DocumentsInit ==
  /\ file = [f \in Files |-> [status |-> "draft", current |-> 0, hold |-> FALSE]]
  /\ version = [f \in Files |-> 0]
  /\ batch = [b \in Batches |-> [status |-> "none", by |-> NoForm]]
  /\ edit = [c \in Clerks |-> NoForm] /\ edits = 0
  /\ frozen = {} /\ disposed = {} /\ late = {}
-----------------------------------------------------------------------------
\* add_file_version, as the endpoint calls it: what is uploaded waits for its
\* scan.
AddVersion(f) ==
  /\ file[f].status # "disposed" /\ version[f] < MaxVersions
  /\ version' = [version EXCEPT ![f] = @ + 1]
  /\ file' = [file EXCEPT ![f].current = version[f] + 1]
  /\ UNCHANGED <<batch, edit, edits, frozen, disposed, late>>

\* set_scan_result, at any time; the scanner is outside.  The result of the
\* current version makes the file active or a draft, whatever it was.
SetScanResult(f, v, clean) ==
  /\ file[f].current = v
  /\ file' = [file EXCEPT ![f].status = IF clean THEN "active" ELSE "draft"]
  /\ late' = IF file[f].status \in {"draft", "active"} THEN late ELSE late \cup {f}
  /\ UNCHANGED <<version, batch, edit, edits, frozen, disposed>>
-----------------------------------------------------------------------------
\* What _status_change asks of the copy; the other requests ask for nothing.
Allowed(kind, copy) ==
  CASE kind = "archived" -> copy.status = "active"
    [] kind = "recycled" -> copy.status \in {"draft", "active", "archived"} /\ ~copy.hold
    [] kind = "active" -> copy.status = "recycled"
    [] OTHER -> TRUE

OpenEdit(c, f, kind) ==
  /\ edits < MaxEdits /\ edit[c] = NoForm /\ Allowed(kind, file[f])
  /\ edit' = [edit EXCEPT ![c] = [file |-> f, kind |-> kind, copy |-> file[f]]]
  /\ edits' = edits + 1
  /\ UNCHANGED <<file, version, batch, frozen, disposed, late>>

\* What a request saves: a status alone, or the copy with its hold put on
\* (legal_hold), taken off or as it was (an edit; legal_hold can be written).
Saved(e) ==
  CASE e.kind \in {"archived", "recycled", "active"} -> [file[e.file] EXCEPT !.status = e.kind]
    [] e.kind = "hold" -> [e.copy EXCEPT !.hold = TRUE]
    [] e.kind = "lift" -> [e.copy EXCEPT !.hold = FALSE]
    [] OTHER -> e.copy

SaveEdit(c) ==
  LET e == edit[c] IN
  /\ e # NoForm
  /\ file' = [file EXCEPT ![e.file] = Saved(e)]
  /\ late' = IF file[e.file] = e.copy THEN late ELSE late \cup {e.file}
  /\ frozen' = CASE e.kind = "hold" -> frozen \cup {e.file}
                 [] e.kind = "lift" -> frozen \ {e.file}
                 [] OTHER -> frozen
  /\ edit' = [edit EXCEPT ![c] = NoForm]
  /\ UNCHANGED <<version, batch, edits, disposed>>
-----------------------------------------------------------------------------
CreateBatch(b) ==
  /\ batch[b].status = "none"
  /\ batch' = [batch EXCEPT ![b].status = "draft"]
  /\ UNCHANGED <<file, version, edit, edits, frozen, disposed, late>>

NoneHeld(b) == \A f \in ItemsOf[b] : ~file[f].hold

\* approve_disposal looks at the files without locking them.
ApproveDisposal(b, actor) ==
  /\ batch[b].status = "draft" /\ actor # Requester[b] /\ NoneHeld(b)
  /\ batch' = [batch EXCEPT ![b] = [status |-> "approved", by |-> actor]]
  /\ UNCHANGED <<file, version, edit, edits, frozen, disposed, late>>

\* The files a disposal may take.  The fault leaves out those that are held.
Disposable_Skip(b) == {f \in ItemsOf[b] : ~file[f].hold}
Disposable(b) == IF NoneHeld(b) THEN ItemsOf[b] ELSE {}

\* execute_disposal: the whole batch, or nothing when one file is held.
ExecuteDisposal(b) ==
  /\ batch[b].status = "approved" /\ Disposable(b) # {}
  /\ batch' = [batch EXCEPT ![b].status = "executed"]
  /\ file' = [f \in Files |-> IF f \in Disposable(b) THEN [file[f] EXCEPT !.status = "disposed"]
                              ELSE file[f]]
  /\ disposed' = disposed \cup {[file |-> f, batch |-> b, frozen |-> f \in frozen] : f \in Disposable(b)}
  /\ UNCHANGED <<version, edit, edits, frozen, late>>

DocumentsNext ==
  \/ \E f \in Files : AddVersion(f)
       \/ \E v \in 1..version[f], clean \in BOOLEAN : SetScanResult(f, v, clean)
  \/ \E c \in Clerks : SaveEdit(c)
       \/ \E f \in Files, k \in {"archived", "recycled", "active", "hold", "lift", "edit"} : OpenEdit(c, f, k)
  \/ \E b \in Batches : CreateBatch(b) \/ ExecuteDisposal(b)
       \/ \E u \in Keepers : ApproveDisposal(b, u)

DocumentsSpec == DocumentsInit /\ [][DocumentsNext]_documentVars
-----------------------------------------------------------------------------
DocumentsTypeOK ==
  /\ file \in [Files -> FileRow]
  /\ batch \in [Batches -> BatchRow]

\* A legal hold binds: a file is not disposed of from the moment the hold is
\* put on it until it is taken off, though its disposal was approved before
\* (execute_disposal).  Only a request that saved a copy it had read before the
\* hold can undo it.
HoldsBind ==
  /\ \A f \in frozen : file[f].hold \/ f \in late
  /\ \A d \in disposed : d.frozen => d.file \in late

\* A batch is executed with all its files or not at all, by a second person's
\* approval; a file that was disposed of stays so, and the version that is
\* current is the last one, unless a request saved what it had read before or a
\* scan came late; and a legal hold binds (execute_disposal, add_file_version).
DisposalsAreWhole ==
  /\ DocumentsTypeOK /\ HoldsBind
  /\ \A b \in Batches :
       LET gone == {d.file : d \in {x \in disposed : x.batch = b}} IN
       /\ gone = (IF batch[b].status = "executed" THEN ItemsOf[b] ELSE {})
       /\ batch[b].status = "executed" => batch[b].by \notin {Requester[b], NoForm}
  /\ \A f \in Files \ late :
       /\ file[f].current = version[f]
       /\ (\E d \in disposed : d.file = f) <=> file[f].status = "disposed"
=============================================================================
